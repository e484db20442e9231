----------------------------- MODULE CaseHistory -----------------------------
(***************************************************************************)
(* The test cases of two suites, of two projects (routers/cases.py): their *)
(* definitions, their steps, the revisions that record every definition    *)
(* (services/case_revisions.py), and a test plan of the first project      *)
(* (routers/testplans.py).                                                 *)
(*                                                                         *)
(* Each action is one request, served alone.  The text of a case is one    *)
(* value for the fields that case_snapshot takes, but for the name.  Its   *)
(* custom fields are not among them: no revision records them.             *)
(***************************************************************************)
EXTENDS Naturals, FiniteSetsExt, SequencesExt

CONSTANTS
  Names,
  Texts,         \* what the fields of a case, or a step, may say
  MaxCases,      \* bound: cases created in all
  MaxSteps,      \* bound: steps of a case
  MaxRequests    \* bound: requests served in all

Suites == {"home", "away"}
PlanProject == "home"

VARIABLES
  cases,      \* table test_cases: rows [id, suite, name, text, steps, archived]
  revisions,  \* table case_revisions: revisions[id], the snapshots of a case in order
  plan,       \* table test_plan_cases: the cases of the plan
  made,       \* cases created so far
  requests,   \* requests served so far
  untold,     \* history: copies whose steps no revision has seen yet
  unscoped    \* history: cases of the plan that it was created with, or that were moved since

vars == <<cases, revisions, plan, made, requests, untold, unscoped>>

\* A step is a record [order, action]; the steps of a case are in the order of their ids.
Case(id) == CHOOSE c \in cases : c.id = id
Ids == {c.id : c \in cases}
InSuite(suite) == {c \in cases : c.suite = suite}

\* case_snapshot, where steps of one order and action are told apart by their rank.
Sorted(steps) ==
  {<<s.order, s.action, Cardinality({j \in DOMAIN steps : steps[j] = s})>> : s \in Range(steps)}

Snapshot(c) == [name |-> c.name, text |-> c.text, steps |-> Sorted(c.steps)]

TypeOK ==
  /\ \A c \in cases :
       /\ c.id \in 1 .. made /\ c.suite \in Suites /\ c.name \in Names \X (0 .. MaxCases)
       /\ c.text \in Texts /\ Len(c.steps) <= MaxSteps /\ c.archived \in BOOLEAN
       /\ \A i \in DOMAIN c.steps : c.steps[i].order \in 1 .. MaxSteps + 1
  /\ \A c, d \in cases : c.id = d.id => c = d
  /\ DOMAIN revisions = Ids /\ plan \subseteq Ids
  /\ untold \subseteq Ids /\ unscoped \subseteq plan

Init ==
  /\ cases = {} /\ revisions = <<>> /\ plan = {}
  /\ made = 0 /\ requests = 0
  /\ untold = {} /\ unscoped = {}

Serve == requests < MaxRequests /\ requests' = requests + 1

\* Mutant: the snapshot is compared with all that were stored.
InsertsIfNew(stored, snapshot) ==
  IF \E i \in DOMAIN stored : stored[i] = snapshot THEN stored ELSE Append(stored, snapshot)

\* write_revision
write_revision(stored, snapshot) ==
  IF stored # <<>> /\ Last(stored) = snapshot THEN stored ELSE Append(stored, snapshot)

-----------------------------------------------------------------------------
(* Cases.  A name is a base and the number of its copy, 0 for none.        *)
NewCase(c, snapshot) ==
  /\ cases' = cases \union {c}
  /\ revisions' = [i \in Ids \union {c.id} |-> IF i = c.id THEN write_revision(<<>>, snapshot) ELSE revisions[i]]
  /\ made' = made + 1

\* create_case, and a row of import_cases_csv: a name that is there is refused.
CreateCase(suite, name, text, steps) ==
  LET c == [id |-> made + 1, suite |-> suite, name |-> name, text |-> text, steps |-> steps,
            archived |-> FALSE]
  IN
  /\ Serve /\ made < MaxCases
  /\ \A d \in InSuite(suite) : d.name # name
  /\ NewCase(c, Snapshot(c))
  /\ UNCHANGED <<plan, untold, unscoped>>

\* A handler that edits the definition of a case.
Edit(c) ==
  /\ Serve
  /\ cases' = (cases \ {Case(c.id)}) \union {c}
  /\ revisions' = [revisions EXCEPT ![c.id] = write_revision(@, Snapshot(c))]
  /\ untold' = untold \ {c.id}
  /\ unscoped' = IF c.suite = Case(c.id).suite THEN unscoped ELSE unscoped \union ({c.id} \intersect plan)
  /\ UNCHANGED <<plan, made>>

\* update_case: no name and no suite is refused.  An update of the suite or of the custom
\* fields alone writes no revision, as the snapshot is what it was.
UpdateCase(c, suite, name, text) ==
  Edit([c EXCEPT !.suite = suite, !.name = name, !.text = text])

\* _unique_case_name
UniqueName(suite, name) ==
  IF \A d \in InSuite(suite) : d.name # name THEN name
  ELSE <<name[1], Min({n \in 1 .. MaxCases : \A d \in InSuite(suite) : d.name # <<name[1], n>>})>>

\* _clone_case: the steps are added after the row, so that the session that writes the
\* revision has not got them.
CopyCase(c, suite, name) ==
  LET copy == [c EXCEPT !.id = made + 1, !.suite = suite, !.name = name, !.archived = FALSE]
  IN
  /\ Serve /\ made < MaxCases
  /\ NewCase(copy, Snapshot([copy EXCEPT !.steps = <<>>]))
  /\ untold' = IF c.steps = <<>> THEN untold ELSE untold \union {copy.id}
  /\ UNCHANGED <<plan, unscoped>>

\* copy_case and bulk_copy_cases: within the suite the name gets a number, elsewhere it
\* is kept though it be there.
Copy(c, suite) ==
  CopyCase(c, suite, IF suite = c.suite THEN UniqueName(suite, c.name) ELSE c.name)

\* delete_case and bulk_delete_cases, with their revisions and places in plans.
DeleteCases(ids) ==
  /\ Serve
  /\ ids # {} /\ ids \subseteq Ids
  /\ cases' = {c \in cases : c.id \notin ids}
  /\ revisions' = [i \in Ids \ ids |-> revisions[i]]
  /\ plan' = plan \ ids /\ untold' = untold \ ids /\ unscoped' = unscoped \ ids
  /\ UNCHANGED made

\* archive_case and unarchive_case are no edits.
ArchiveCase(c) ==
  /\ Serve
  /\ cases' = (cases \ {c}) \union {[c EXCEPT !.archived = ~@]}
  /\ UNCHANGED <<revisions, plan, made, untold, unscoped>>

-----------------------------------------------------------------------------
(* Steps.  All handlers write a revision of the case read again.           *)
WithSteps(c, steps) == Edit([c EXCEPT !.steps = steps])

\* create_step counts the steps there are if no order is given.
CreateStep(c, order, action) ==
  /\ Len(c.steps) < MaxSteps
  /\ WithSteps(c, Append(c.steps, [order |-> IF order = 0 THEN Len(c.steps) + 1 ELSE order,
                                   action |-> action]))

UpdateStep(c, i, order, action) ==
  WithSteps(c, [c.steps EXCEPT ![i] = [order |-> order, action |-> action]])

DeleteStep(c, i) == WithSteps(c, RemoveAt(c.steps, i))
DeleteAllSteps(c) == WithSteps(c, <<>>)

\* replace_case_steps
ReplaceSteps(c, actions) ==
  WithSteps(c, [i \in DOMAIN actions |-> [order |-> i, action |-> actions[i]]])

\* reorder_case_steps numbers the steps that are named, in the order they are.
ReorderSteps(c, places) ==
  WithSteps(c, [i \in DOMAIN c.steps |->
                  IF i \in Range(places)
                  THEN [c.steps[i] EXCEPT !.order = Max({p \in DOMAIN places : places[p] = i})]
                  ELSE c.steps[i]])

-----------------------------------------------------------------------------
(* The plan.                                                               *)
scoped_cases(ids) == {c.id : c \in {d \in InSuite(PlanProject) : d.id \in ids}}

\* create_plan takes any cases; the plan there was is deleted first.
CreatePlan(ids) ==
  /\ Serve
  /\ plan' = ids /\ unscoped' = ids
  /\ UNCHANGED <<cases, revisions, made, untold>>

\* update_plan
UpdatePlan(ids) ==
  /\ Serve
  /\ plan' = scoped_cases(ids) /\ unscoped' = {}
  /\ UNCHANGED <<cases, revisions, made, untold>>

\* add_cases_to_plan
AddToPlan(ids) ==
  /\ Serve
  /\ plan' = plan \union scoped_cases(ids \ plan)
  /\ UNCHANGED <<cases, revisions, made, untold, unscoped>>

Steps(n) == UNION {[1 .. k -> Texts] : k \in 0 .. n}

Next ==
  \/ \E s \in Suites, n \in Names, t \in Texts : CreateCase(s, <<n, 0>>, t, <<>>)
  \/ \E n \in Names, t \in Texts :
       CreateCase("home", <<n, 0>>, t, <<[order |-> 1, action |-> t]>>)
  \/ \E c \in cases :
       \/ \E s \in Suites, n \in Names, t \in Texts : UpdateCase(c, s, <<n, 0>>, t)
       \/ \E s \in Suites : Copy(c, s)
       \/ ArchiveCase(c)
       \/ \E o \in 0 .. 1, t \in Texts : CreateStep(c, o, t)
       \/ \E i \in DOMAIN c.steps : DeleteStep(c, i) \/ \E o \in 1 .. MaxSteps, t \in Texts : UpdateStep(c, i, o, t)
       \/ DeleteAllSteps(c)
       \/ \E a \in Steps(MaxSteps) : ReplaceSteps(c, a)
       \/ \E places \in SetToSeqs(DOMAIN c.steps) : ReorderSteps(c, places)
  \/ \E ids \in SUBSET Ids : DeleteCases(ids) \/ CreatePlan(ids) \/ UpdatePlan(ids) \/ AddToPlan(ids)

Spec == Init /\ [][Next]_vars

-----------------------------------------------------------------------------
\* The last revision of a case is its definition, but for its custom fields, whatever
\* handlers edited it, and but for a copy with steps that was not edited since.
RevisionsTell ==
  \A c \in cases : c.id \notin untold => Last(revisions[c.id]) = Snapshot(c)

\* No revision repeats the one before it.
RevisionsDiffer ==
  \A c \in cases : \A i \in 2 .. Len(revisions[c.id]) : revisions[c.id][i] # revisions[c.id][i - 1]

\* The plan has cases of its project only, but for those it was created with and those
\* that an update moved to another suite.
PlanStaysHome == \A c \in cases : c.id \in plan \ unscoped => c.suite = PlanProject

CasesHold == TypeOK /\ RevisionsTell /\ RevisionsDiffer /\ PlanStaysHome
=============================================================================
