------------------------------ MODULE BugTracker ------------------------------
(***************************************************************************)
(* The bugs of one project (routers/bugs.py): creation with its number and *)
(* its environment, edits, changes of status, and the log of activity      *)
(* (services/bug_activity.py).                                             *)
(*                                                                         *)
(* A request runs in a worker thread with a session of its own: it loads   *)
(* rows, changes them in memory and commits; the commit writes only the    *)
(* attributes the request has changed (READ COMMITTED, no locks but those  *)
(* of the unique indexes).  Requests overlap, unless serial.  Of what an    *)
(* edit may change, the title stands for all.                              *)
(***************************************************************************)
EXTENDS Integers, Sequences, FiniteSetsExt

CONSTANTS
  Workers,      \* the threads that serve requests
  Bugs,         \* identities of bugs, given out in increasing order: 1 .. n
  Titles,       \* 0 is the title a bug is created with
  Environments,
  Retries,      \* attempts to insert a bug: the 5 of create_bug
  MaxRequests   \* bound: requests served in all

Statuses == {"open", "resolved", "closed"}
TERMINAL_BUG_STATUSES == {"resolved", "closed"}

NoBug == [number |-> 0, title |-> 0, status |-> "open", resolved |-> FALSE, env |-> "none"]

\* Of a creation: tries, the inserts that were refused; lost, the numbers others have taken
\* since it began; holds, its transaction has inserted its environment; sound, the rows it
\* refers to are there.
Idle == [op |-> "none", bug |-> 0, value |-> 0, seen |-> NoBug, tries |-> 0, lost |-> 0,
         holds |-> FALSE, sound |-> TRUE]

VARIABLES
  serial,     \* requests are served one at a time
  bug,        \* table bugs: bug[b], NoBug if there is no such row
  catalog,    \* table project_environments
  activity,   \* table bug_activity: the rows of each bug, in order
  req,        \* what each worker is doing
  requests,   \* requests begun so far
  born,       \* bugs that have been given an identity
  loose,      \* history: bugs whose environment was not catalogued, rolled back or taken out
  crowded,    \* history: FALSE once a sound creation gave up that had not lost Retries numbers
  died        \* history: a request died, or found its bug gone

vars == <<serial, bug, catalog, activity, req, requests, born, loose, crowded, died>>

TypeOK ==
  /\ serial \in BOOLEAN /\ crowded \in BOOLEAN /\ died \in BOOLEAN
  /\ bug \in [Bugs -> [number : 0 .. MaxRequests, title : Titles, status : Statuses,
                       resolved : BOOLEAN, env : Environments \union {"none"}]]
  /\ catalog \subseteq Environments
  /\ \A w \in Workers : req[w].tries \in 0 .. Retries /\ req[w].holds \in BOOLEAN
  /\ requests \in 0 .. MaxRequests
  /\ born \in 0 .. Max(Bugs) /\ loose \subseteq Bugs

Init ==
  /\ serial \in BOOLEAN
  /\ bug = [b \in Bugs |-> NoBug]
  /\ catalog = {}
  /\ activity = [b \in Bugs |-> <<>>]
  /\ req = [w \in Workers |-> Idle]
  /\ requests = 0 /\ born = 0
  /\ loose = {} /\ crowded = TRUE /\ died = FALSE

Live(b) == bug[b].number # 0
Does(w, op) == req[w].op = op
Creates(w) == req[w].op \in {"environment", "number", "insert", "inserted"}
Becomes(w, r) == req' = [req EXCEPT ![w] = r]
Row(field, from, to) == [field |-> field, from |-> from, to |-> to]

\* A worker takes a request.
Serve(w) ==
  /\ req[w] = Idle /\ requests < MaxRequests
  /\ serial => \A v \in Workers : req[v] = Idle
  /\ requests' = requests + 1

\* The request ends, with an answer or an error.
Ends(w) == Becomes(w, Idle)

-----------------------------------------------------------------------------
(* Creation.                                                               *)
next_bug_number == Max({bug[b].number : b \in Bugs} \union {0}) + 1

\* upsert_from_execution reads the catalog, and inserts what is not in it.  An environment
\* that is copied from the execution, or that comes while auto_create_environments is off,
\* is not catalogued.
BeginCreate(w, env, catalogued, sound) ==
  LET missing == env \notin catalog \union {"none"} IN
  /\ Serve(w)
  /\ born < Max(Bugs)
  /\ born' = born + 1
  /\ Becomes(w, [Idle EXCEPT !.op = IF missing /\ catalogued THEN "environment" ELSE "number",
                             !.bug = born + 1, !.value = env, !.sound = sound])
  /\ loose' = IF missing /\ ~catalogued THEN loose \union {born + 1} ELSE loose
  /\ UNCHANGED <<serial, bug, catalog, activity, crowded, died>>

\* Inserted by a transaction that has not ended.
Uncommitted(env) == \E v \in Workers : req[v].holds /\ req[v].value = env

\* The insert waits for a transaction that has inserted the same environment; if
\* that commits, it is refused, and the request with it.
InsertEnvironment(w) ==
  /\ Does(w, "environment")
  /\ ~Uncommitted(req[w].value)
  /\ IF req[w].value \in catalog THEN Ends(w) /\ died' = TRUE
     ELSE Becomes(w, [req[w] EXCEPT !.op = "number", !.holds = TRUE]) /\ UNCHANGED died
  /\ UNCHANGED <<serial, bug, catalog, activity, requests, born, loose, crowded>>

TakeNumber(w) ==
  /\ Does(w, "number")
  /\ Becomes(w, [req[w] EXCEPT !.op = "insert", !.seen.number = next_bug_number])
  /\ UNCHANGED <<serial, bug, catalog, activity, requests, born, loose, crowded, died>>

Number(w) == req[w].seen.number
Taken(n) == \E b \in Bugs : bug[b].number = n

\* What the rollback of a refused insert takes with it.
RolledBack(w) == IF req[w].holds THEN loose \union {req[w].bug} ELSE loose

\* Mutant: the attempts after the first keep the number.
InsertKeepsNumber(w) ==
  /\ Does(w, "insert")
  /\ ~\E v \in Workers : Does(v, "inserted") /\ Number(v) = Number(w)
  /\ \/ /\ ~Taken(Number(w)) /\ req[w].sound
        /\ Becomes(w, [req[w] EXCEPT !.op = "inserted"])
        /\ UNCHANGED <<loose, crowded>>
     \/ /\ Taken(Number(w)) \/ ~req[w].sound
        /\ loose' = RolledBack(w)
        /\ IF req[w].tries + 1 < Retries
           THEN /\ Becomes(w, [req[w] EXCEPT !.tries = @ + 1, !.holds = FALSE])
                /\ UNCHANGED crowded
           ELSE Ends(w) /\ crowded' = (crowded /\ (req[w].sound => req[w].lost >= Retries))
  /\ UNCHANGED <<serial, bug, catalog, activity, requests, born, died>>

\* The unique index: the insert waits for one of the same number that has not been
\* committed, and is refused if it is; so it is when a row it refers to is missing.
\* The transaction is rolled back, and the next attempt begins with the next number;
\* an environment that was inserted is not inserted again.
Insert(w) ==
  /\ Does(w, "insert")
  /\ ~\E v \in Workers : Does(v, "inserted") /\ Number(v) = Number(w)
  /\ \/ /\ ~Taken(Number(w)) /\ req[w].sound
        /\ Becomes(w, [req[w] EXCEPT !.op = "inserted"])
        /\ UNCHANGED <<loose, crowded>>
     \/ /\ Taken(Number(w)) \/ ~req[w].sound
        /\ loose' = RolledBack(w)
        /\ IF req[w].tries + 1 < Retries
           THEN /\ Becomes(w, [req[w] EXCEPT !.op = "number", !.tries = @ + 1, !.holds = FALSE])
                /\ UNCHANGED crowded
           ELSE Ends(w) /\ crowded' = (crowded /\ (req[w].sound => req[w].lost >= Retries))
  /\ UNCHANGED <<serial, bug, catalog, activity, requests, born, died>>

\* The commit of the bug, of the row of its status and, if its transaction inserted it,
\* of its environment.
CommitCreate(w) ==
  /\ Does(w, "inserted")
  /\ bug' = [bug EXCEPT ![req[w].bug] =
               [number |-> Number(w), title |-> 0, status |-> "open", resolved |-> FALSE,
                env |-> req[w].value]]
  /\ activity' = [activity EXCEPT ![req[w].bug] = <<Row("status", "none", "open")>>]
  /\ catalog' = IF req[w].holds THEN catalog \union {req[w].value} ELSE catalog
  /\ req' = [v \in Workers |->
               IF v = w THEN Idle
               ELSE IF req[v].op = "none" THEN Idle ELSE [req[v] EXCEPT !.lost = @ + 1]]
  /\ UNCHANGED <<serial, requests, born, loose, crowded, died>>

-----------------------------------------------------------------------------
(* The catalog.                                                            *)
\* routers/environments.py: an environment is added, deleted, or given another slug.
\* Only what executions name is kept; bugs are not asked.
EditCatalog(w, gone, new) ==
  /\ Serve(w)
  /\ gone \subseteq catalog /\ new \intersect catalog = {} /\ gone \union new # {}
  /\ \A env \in new : ~Uncommitted(env)
  /\ catalog' = (catalog \ gone) \union new
  /\ loose' = loose \union {b \in Bugs : bug[b].env \in gone}
                    \union {req[v].bug : v \in {u \in Workers : Creates(u) /\ req[u].value \in gone}}
  /\ UNCHANGED <<serial, bug, activity, req, born, crowded, died>>

-----------------------------------------------------------------------------
(* Edits.                                                                  *)
\* update_bug sets the title.  A client may say which title it started from, -1 if
\* it does not; _reject_concurrent_edits answers 409 if that is no longer the one.
BeginUpdate(w, b, title, base) ==
  /\ Serve(w) /\ Live(b)
  /\ IF base # -1 /\ base # bug[b].title THEN UNCHANGED req
     ELSE Becomes(w, [Idle EXCEPT !.op = "update", !.bug = b, !.value = title,
                                  !.seen = bug[b]])
  /\ UNCHANGED <<serial, bug, catalog, activity, born, loose, crowded, died>>

\* A title that is the one loaded is not written.
CommitUpdate(w) ==
  /\ Does(w, "update")
  /\ IF Live(req[w].bug)
     THEN /\ bug' = IF req[w].value = req[w].seen.title THEN bug
                    ELSE [bug EXCEPT ![req[w].bug].title = req[w].value]
          /\ Becomes(w, [req[w] EXCEPT !.op = "reload"])
          /\ UNCHANGED died
     ELSE Ends(w) /\ died' = TRUE /\ UNCHANGED bug
  /\ UNCHANGED <<serial, catalog, activity, requests, born, loose, crowded>>

\* The refresh after the commit: on_bug_updated compares this with the snapshot.
Reload(w) ==
  /\ Does(w, "reload")
  /\ IF ~Live(req[w].bug) THEN Ends(w) /\ died' = TRUE
     ELSE /\ UNCHANGED died
          /\ IF bug[req[w].bug].title = req[w].seen.title THEN Ends(w)
             ELSE Becomes(w, [req[w] EXCEPT !.op = "record", !.value = bug[req[w].bug].title])
  /\ UNCHANGED <<serial, bug, catalog, activity, requests, born, loose, crowded>>

\* record_field_changes, in a transaction of its own.
RecordChange(w) ==
  /\ Does(w, "record")
  /\ IF Live(req[w].bug)
     THEN /\ activity' = [activity EXCEPT ![req[w].bug] =
                            Append(@, Row("title", req[w].seen.title, req[w].value))]
          /\ UNCHANGED died
     ELSE died' = TRUE /\ UNCHANGED activity
  /\ Ends(w)
  /\ UNCHANGED <<serial, bug, catalog, requests, born, loose, crowded>>

-----------------------------------------------------------------------------
(* Status and deletion.                                                    *)
BeginStatus(w, b, s) ==
  /\ Serve(w) /\ Live(b)
  /\ Becomes(w, [Idle EXCEPT !.op = "status", !.bug = b, !.value = s, !.seen = bug[b]])
  /\ UNCHANGED <<serial, bug, catalog, activity, born, loose, crowded, died>>

\* resolved_at, as change_bug_status sets it.
ResolvedAt(seen, s) == s \in TERMINAL_BUG_STATUSES

\* The row of the activity is in the transaction of the change.
CommitStatus(w) ==
  LET r == req[w]
      resolved == ResolvedAt(r.seen, r.value)
  IN
  /\ Does(w, "status")
  /\ IF Live(r.bug)
     THEN /\ bug' = [bug EXCEPT
                ![r.bug].status = IF r.value = r.seen.status THEN @ ELSE r.value,
                ![r.bug].resolved = IF resolved = r.seen.resolved THEN @ ELSE resolved]
          /\ activity' = [activity EXCEPT ![r.bug] =
                            Append(@, Row("status", r.seen.status, r.value))]
          /\ UNCHANGED died
     ELSE died' = TRUE /\ UNCHANGED <<bug, activity>>
  /\ Ends(w)
  /\ UNCHANGED <<serial, catalog, requests, born, loose, crowded>>

\* delete_bug, with all that hangs from the bug.
Delete(w, b) ==
  /\ Serve(w) /\ Live(b)
  /\ bug' = [bug EXCEPT ![b] = NoBug]
  /\ activity' = [activity EXCEPT ![b] = <<>>]
  /\ UNCHANGED <<serial, catalog, req, born, loose, crowded, died>>

\* A worker dies: what it has not committed is rolled back.
Die(w) ==
  /\ req[w] # Idle
  /\ Ends(w)
  /\ died' = TRUE
  /\ UNCHANGED <<serial, bug, catalog, activity, requests, born, loose, crowded>>

-----------------------------------------------------------------------------
Next ==
  \E w \in Workers :
    \/ \E env \in Environments \union {"none"}, catalogued, sound \in BOOLEAN :
         BeginCreate(w, env, catalogued, sound)
    \/ InsertEnvironment(w) \/ TakeNumber(w) \/ Insert(w) \/ CommitCreate(w)
    \/ \E gone, new \in {{}} \union {{env} : env \in Environments} : EditCatalog(w, gone, new)
    \/ \E b \in Bugs, t \in Titles, base \in Titles \union {-1} : BeginUpdate(w, b, t, base)
    \/ CommitUpdate(w) \/ Reload(w) \/ RecordChange(w)
    \/ \E b \in Bugs, s \in Statuses : BeginStatus(w, b, s)
    \/ CommitStatus(w)
    \/ \E b \in Bugs : Delete(w, b)
    \/ Die(w)

Spec == Init /\ [][Next]_vars

-----------------------------------------------------------------------------
\* What the rows of a bug say of its status, and what those before the i-th say of its title.
StatusIn(log) ==
  log[Max({i \in DOMAIN log : log[i].field = "status" /\ log[i].from # log[i].to})].to
TitleBefore(log, i) ==
  LET earlier == {j \in 1 .. i - 1 : log[j].field = "title"}
  IN IF earlier = {} THEN 0 ELSE log[Max(earlier)].to

Quiet == \A w \in Workers : req[w] = Idle

\* bug_numbering.py: the numbers of a project's bugs identify them, whatever
\* creations overlap.
NumbersIdentify ==
  \A a, b \in Bugs : a # b /\ Live(a) => bug[a].number # bug[b].number

\* "Could not allocate bug number": a creation only gives up when other creations have
\* taken as many numbers from it as it may try, or a row it refers to is missing.
RefusedWhenCrowded == crowded

\* The environment a bug was created with is in the catalog, unless its creation did not
\* look there, or lost what it had inserted with its first number (README, section 4.2), or
\* the environment was taken out since: no other creation, whether it commits, is rolled
\* back or dies, can take it away.
EnvironmentCatalogued ==
  \A b \in Bugs : Live(b) /\ bug[b].env # "none" => bug[b].env \in catalog \/ b \in loose

\* bug_activity.py: the status of a bug is the one of the last row of its activity
\* that changes the status, even if changes overlap with each other and with edits.
StatusIsLogged == \A b \in Bugs : Live(b) => bug[b].status = StatusIn(activity[b])

\* Served one at a time, a bug has a resolved_at exactly if its status is terminal.
ResolvedIffTerminal ==
  serial => \A b \in Bugs : bug[b].resolved <=> bug[b].status \in TERMINAL_BUG_STATUSES

\* Served one at a time, the rows about the title lead from the first title to the
\* current one, each from where the one before it ended, unless a request died after
\* its edit was committed.
TitleChain ==
  serial /\ ~died /\ Quiet => \A b \in Bugs : Live(b) =>
    LET log == activity[b]
    IN /\ \A i \in DOMAIN log : log[i].field = "title" => log[i].from = TitleBefore(log, i)
       /\ bug[b].title = TitleBefore(log, Len(log) + 1)

\* However edits overlap, once they have been served the title a bug has is in its
\* activity.
TitleIsLogged ==
  ~died /\ Quiet => \A b \in Bugs : Live(b) /\ bug[b].title # 0 =>
    \E i \in DOMAIN activity[b] :
      activity[b][i].field = "title" /\ activity[b][i].to = bug[b].title

\* What the rows of a project owe each other: its numbers, its environments, and
\* the times its bugs were resolved.
RowsAgree ==
  /\ TypeOK
  /\ NumbersIdentify /\ RefusedWhenCrowded
  /\ EnvironmentCatalogued /\ ResolvedIffTerminal

EditsAreLogged == TitleChain /\ TitleIsLogged
=============================================================================
