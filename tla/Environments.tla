---------------------------- MODULE Environments ----------------------------
(***************************************************************************)
(* The environments of a project (routers/environments.py,                 *)
(* services/environments.py), the executions that name them by their slug, *)
(* and one of its versions (routers/versions.py).                          *)
(*                                                                         *)
(* A request loads rows, changes them in memory and commits the attributes *)
(* that it has changed.  Requests overlap, unless serial.                  *)
(***************************************************************************)
EXTENDS Naturals, FiniteSets

CONSTANTS
  Workers,       \* the threads that serve requests
  Slugs,         \* the slugs that slugify_environment makes of names
  MaxRows,       \* bound: rows of project_environments in all
  MaxRequests    \* bound: requests served in all

VARIABLES
  serial,     \* requests are served one at a time
  env,        \* table project_environments: rows [id, slug, default, archived]
  auto,       \* setting auto_create_environments
  used,       \* the slugs in column environment of the executions
  version,    \* a row of project_versions: its status, and whether released_at is set
  req,        \* what each worker is doing
  made,       \* rows inserted so far
  requests,   \* requests begun so far
  clashed,    \* history: two requests overlapped that both chose the default, or had one row
  stray       \* history: slugs of executions that the catalog was not to have, or by an overlap

vars == <<serial, env, auto, used, version, req, made, requests, clashed, stray>>

VersionStatuses == {"planned", "released", "archived"}
Choices == {"yes", "no", "unset"}   \* is_default of a request; unset if it has no such field
Idle == [op |-> "none"]

Row(id) == CHOOSE e \in env : e.id = id
SlugsOf(rows) == {e.slug : e \in rows}

TypeOK ==
  /\ env \subseteq [id : 1 .. MaxRows, slug : Slugs, default : BOOLEAN, archived : BOOLEAN]
  /\ \A e, d \in env : e.id = d.id \/ e.slug = d.slug => e = d
  /\ used \subseteq Slugs /\ stray \subseteq Slugs /\ made <= MaxRows
  /\ version.status \in VersionStatuses /\ version.dated \in BOOLEAN

Init ==
  /\ serial \in BOOLEAN
  /\ env = {} /\ auto \in BOOLEAN /\ used = {}
  /\ version = [status |-> "planned", dated |-> FALSE]
  /\ req = [w \in Workers |-> Idle]
  /\ made = 0 /\ requests = 0
  /\ clashed = FALSE /\ stray = {}

Busy(w) == req[w] # Idle
Others(w) == {req[v] : v \in Workers \ {w}} \ {Idle}
Answered(w) == req' = [req EXCEPT ![w] = Idle]

\* A worker takes a request; it clashes with the ones under way.
Serve(w, r) ==
  /\ ~Busy(w) /\ requests < MaxRequests
  /\ serial => \A v \in Workers : ~Busy(v)
  /\ requests' = requests + 1
  /\ req' = [req EXCEPT ![w] = r]
  /\ UNCHANGED <<serial, env, auto, used, version>>

\* A flush waits for a transaction that has the slug, and is refused if it is there.
Reserves(q, slug) == q.op \in {"create", "update", "execute"} /\ q.slug = slug /\ q.takes
MayTake(w, slug) == slug \notin SlugsOf(env) /\ ~\E q \in Others(w) : Reserves(q, slug)

\* apply_default_state: the rows that lose the default.
Cleared(target, makes) ==
  IF makes = "yes" THEN {e.id : e \in {d \in env : d.default /\ d.id # target}} ELSE {}

Clashes(w, id, makes) ==
  \E q \in Others(w) : q.op \in {"create", "update", "archive"}
                         /\ (q.id = id \/ (q.makes = "yes" /\ makes = "yes"))

\* The slug, if another request is creating an execution that has it.
Crossed(w, slug) == {q.slug : q \in {p \in Others(w) : p.op = "execute" /\ p.slug = slug}}

-----------------------------------------------------------------------------
(* The catalog.                                                            *)
\* create_environment
BeginCreate(w, slug, makes) ==
  /\ made < MaxRows /\ MayTake(w, slug)
  /\ Serve(w, [op |-> "create", id |-> made + 1, slug |-> slug, takes |-> TRUE,
               makes |-> makes, clears |-> Cleared(made + 1, makes)])
  /\ made' = made + 1
  /\ clashed' = (clashed \/ Clashes(w, made + 1, makes))
  /\ UNCHANGED stray

Without(ids) == {IF e.id \in ids THEN [e EXCEPT !.default = FALSE] ELSE e : e \in env}

CommitCreate(w) ==
  LET r == req[w] IN
  /\ r.op = "create"
  /\ env' = Without(r.clears) \union
              {[id |-> r.id, slug |-> r.slug, default |-> r.makes = "yes", archived |-> FALSE]}
  /\ Answered(w)
  /\ UNCHANGED <<serial, auto, used, version, made, requests, clashed, stray>>

\* Mutant: the executions are asked for the new slug.
NewSlugInUse(e, slug) == slug # e.slug /\ ~e.archived /\ slug \in used

\* update_environment: what refuses another slug, _slug_in_use_by_executions of the old.
SlugInUse(e, slug) == slug # e.slug /\ ~e.archived /\ e.slug \in used

BeginUpdate(w, e, slug, makes) ==
  /\ ~SlugInUse(e, slug)
  /\ slug # e.slug => MayTake(w, slug)
  /\ Serve(w, [op |-> "update", id |-> e.id, slug |-> slug, takes |-> slug # e.slug,
               makes |-> makes, clears |-> Cleared(e.id, makes), seen |-> e])
  /\ clashed' = (clashed \/ Clashes(w, e.id, makes))
  /\ stray' = IF slug = e.slug THEN stray
              ELSE stray \union (IF e.archived THEN {e.slug} ELSE {})
                         \union Crossed(w, e.slug)
  /\ UNCHANGED made

Chooses(r) == r.makes # "unset" /\ (r.makes = "yes") # r.seen.default

\* The row as the commit leaves it: a field that was not changed is not written.
Updated(e, r) ==
  [e EXCEPT !.slug = IF r.slug = r.seen.slug THEN @ ELSE r.slug,
            !.default = IF Chooses(r) THEN r.makes = "yes" ELSE @]

CommitUpdate(w) ==
  LET r == req[w] IN
  /\ r.op = "update"
  /\ IF r.seen.id \in {e.id : e \in env}
     THEN env' = {IF e.id = r.id THEN Updated(e, r) ELSE e : e \in Without(r.clears)}
     ELSE env' = IF r.takes \/ Chooses(r) THEN env ELSE Without(r.clears)
  /\ Answered(w)
  /\ UNCHANGED <<serial, auto, used, version, made, requests, clashed, stray>>

\* archive_environment, and unarchive_environment, which leaves the default alone.
BeginArchive(w, e, archived) ==
  /\ Serve(w, [op |-> "archive", id |-> e.id, slug |-> e.slug, takes |-> FALSE,
               makes |-> "unset", to |-> archived, seen |-> e])
  /\ clashed' = (clashed \/ Clashes(w, e.id, "unset"))
  /\ UNCHANGED <<made, stray>>

Archived(e, r) ==
  [e EXCEPT !.archived = IF r.to = r.seen.archived THEN @ ELSE r.to,
            !.default = IF r.to /\ ~r.seen.archived /\ r.seen.default THEN FALSE ELSE @]

CommitArchive(w) ==
  LET r == req[w] IN
  /\ r.op = "archive"
  /\ env' = {IF e.id = r.id THEN Archived(e, r) ELSE e : e \in env}
  /\ Answered(w)
  /\ UNCHANGED <<serial, auto, used, version, made, requests, clashed, stray>>

\* delete_environment
BeginDelete(w, e) ==
  /\ e.slug \notin used
  /\ Serve(w, [op |-> "delete", id |-> e.id, slug |-> e.slug, takes |-> FALSE, makes |-> "unset"])
  /\ stray' = stray \union Crossed(w, e.slug)
  /\ UNCHANGED <<made, clashed>>

CommitDelete(w) ==
  /\ req[w].op = "delete"
  /\ env' = {e \in env : e.id # req[w].id}
  /\ Answered(w)
  /\ UNCHANGED <<serial, auto, used, version, made, requests, clashed, stray>>

-----------------------------------------------------------------------------
(* Executions.  upsert_from_execution adds the slug unless it is there.    *)
BeginExecution(w, slug) ==
  LET new == auto /\ slug \notin SlugsOf(env)
      losing == {e \in env : \E q \in Others(w) : q.id = e.id /\ (q.op = "delete" \/ q.takes)}
  IN
  /\ new => made < MaxRows /\ MayTake(w, slug)
  /\ Serve(w, [op |-> "execute", id |-> IF new THEN made + 1 ELSE 0, slug |-> slug,
               takes |-> new, makes |-> "unset"])
  /\ made' = IF new THEN made + 1 ELSE made
  /\ stray' = stray \union ({slug} \intersect SlugsOf(losing))
                    \union (IF auto \/ slug \in SlugsOf(env) THEN {} ELSE {slug})
  /\ UNCHANGED clashed

CommitExecution(w) ==
  LET r == req[w] IN
  /\ r.op = "execute"
  /\ env' = env \union
              IF r.takes THEN {[id |-> r.id, slug |-> r.slug, default |-> FALSE, archived |-> FALSE]}
              ELSE {}
  /\ used' = used \union {r.slug}
  /\ Answered(w)
  /\ UNCHANGED <<serial, auto, version, made, requests, clashed, stray>>

\* The executions of an environment are deleted, or the setting is changed.
DeleteExecutions(slug) ==
  /\ slug \in used
  /\ used' = used \ {slug}
  /\ UNCHANGED <<serial, env, auto, version, req, made, requests, clashed, stray>>

-----------------------------------------------------------------------------
(* The version.                                                            *)
\* update_version
BeginVersion(w, to) ==
  /\ Serve(w, [op |-> "version", id |-> 0, slug |-> "none", takes |-> FALSE, makes |-> "unset",
               to |-> to, seen |-> version])
  /\ UNCHANGED <<made, clashed, stray>>

Dated(seen, to, dated) ==
  IF to = "released" /\ seen.status # "released" THEN TRUE
  ELSE IF to # "released" /\ seen.status = "released" /\ seen.dated THEN FALSE
  ELSE dated

CommitVersion(w) ==
  LET r == req[w] IN
  /\ r.op = "version"
  /\ version' = [status |-> IF r.to = r.seen.status THEN version.status ELSE r.to,
                 dated |-> Dated(r.seen, r.to, version.dated)]
  /\ Answered(w)
  /\ UNCHANGED <<serial, env, auto, used, made, requests, clashed, stray>>

\* A worker dies: nothing of its transaction is there.
Die(w) ==
  /\ Busy(w)
  /\ Answered(w)
  /\ UNCHANGED <<serial, env, auto, used, version, made, requests, clashed, stray>>

Next ==
  \/ \E w \in Workers :
       \/ \E s \in Slugs, d \in {"yes", "no"} : BeginCreate(w, s, d)
       \/ \E e \in env :
            \/ \E s \in Slugs, d \in Choices : BeginUpdate(w, e, s, d)
            \/ \E a \in BOOLEAN : BeginArchive(w, e, a)
            \/ BeginDelete(w, e)
       \/ \E s \in Slugs : BeginExecution(w, s)
       \/ \E t \in VersionStatuses : BeginVersion(w, t)
       \/ CommitCreate(w) \/ CommitUpdate(w) \/ CommitArchive(w) \/ CommitDelete(w)
       \/ CommitExecution(w) \/ CommitVersion(w) \/ Die(w)
  \/ \E s \in Slugs : DeleteExecutions(s)

Spec == Init /\ [][Next]_vars

-----------------------------------------------------------------------------
\* services/environments.py: "keeps is_default mutually exclusive within a project", for
\* as long as no two requests that choose the default overlap.
OneDefault == ~clashed => Cardinality({e \in env : e.default}) <= 1

\* The environment that executions name stays in the catalog under that slug: it is
\* neither deleted nor renamed, unless it was archived, or an execution was being created.
NamesResolve == used \subseteq SlugsOf(env) \union stray

\* A version has a date of release if it is released, and no other.
ReleasesDated == serial => (version.status = "released" <=> version.dated)

EnvironmentsHold == TypeOK /\ OneDefault /\ NamesResolve /\ ReleasesDated
=============================================================================
