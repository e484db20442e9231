------------------------------ MODULE SuiteTree ------------------------------
(***************************************************************************)
(* The suites of a project, a tree kept as a column of parents             *)
(* (routers/suites.py): created, renamed, moved, reordered, archived with  *)
(* the cases below them and deleted.                                       *)
(*                                                                         *)
(* A request reads the tree and writes it later, in one commit; unless     *)
(* serial, others commit in between.  A foreign key refuses a parent that  *)
(* is gone and deletes the children of a suite with it.                    *)
(***************************************************************************)
EXTENDS Naturals, FiniteSetsExt, SequencesExt

CONSTANTS
  Workers,      \* the threads that serve requests
  Names,
  MaxSuites,    \* bound: suites created in all
  MaxRequests   \* bound: requests served in all

Root == 0

VARIABLES
  serial,     \* requests are served one at a time
  suites,     \* table test_suites: rows [id, parent, name, order]
  live,       \* the suites that have cases which are not archived
  made,       \* suites created so far
  req,        \* what each worker is about to write
  requests,   \* requests begun so far
  moves,      \* history: moves committed so far
  overlapped  \* history: a move was decided before another and committed after it

vars == <<serial, suites, live, made, req, requests, moves, overlapped>>

Idle == [op |-> "none", id |-> Root, ids |-> {}, parent |-> Root, name |-> "none",
         order |-> <<>>, at |-> 0]

Row(id, parent, name, order) == [id |-> id, parent |-> parent, name |-> name, order |-> order]
Ids == {r.id : r \in suites}
Suite(id) == CHOOSE r \in suites : r.id = id
Siblings(parent) == {r \in suites : r.parent = parent}

TypeOK ==
  /\ \A r \in suites :
       r \in [id : 1 .. MaxSuites, parent : 0 .. MaxSuites, name : Names, order : 0 .. MaxSuites]
  /\ \A r, s \in suites : r.id = s.id => r = s
  /\ live \subseteq Ids /\ made \in 0 .. MaxSuites /\ requests \in 0 .. MaxRequests

Init ==
  /\ serial \in BOOLEAN
  /\ \E n, m \in Names : suites = {Row(1, Root, n, 1), Row(2, 1, m, 1)}
  /\ live = {2} /\ made = 2
  /\ req = [w \in Workers |-> Idle] /\ requests = 0
  /\ moves = 0 /\ overlapped = FALSE

\* _collect_subtree_suite_ids: what the queue collects is the least set with the suite and
\* the children of its members.
HasChildren(set) == \A r \in suites : r.parent \in set => r.id \in set
Subtree(id) ==
  {i \in Ids : \A set \in SUBSET Ids : id \in set /\ HasChildren(set) => i \in set}

\* The suite is not above itself: the queue of _collect_subtree_suite_ids runs empty.
Walks(id) == \A r \in suites : r.id \in Subtree(id) => r.parent \notin Subtree(r.id)

Serve(w) ==
  /\ req[w] = Idle /\ requests < MaxRequests
  /\ serial => \A v \in Workers : req[v] = Idle
  /\ requests' = requests + 1

Does(w, op) == req[w].op = op
Begins(w, r) ==
  /\ req' = [req EXCEPT ![w] = r]
  /\ UNCHANGED <<serial, suites, live, made, moves, overlapped>>
Ends(w) == req' = [req EXCEPT ![w] = Idle]

-----------------------------------------------------------------------------
\* _reject_invalid_parent
ValidParent(id, parent) ==
  parent = Root \/ (parent \in Ids /\ parent \notin Subtree(id))

Duplicate(name, parent, id) == \E r \in Siblings(parent) : r.name = name /\ r.id # id

\* create_suite, and the new suite of bulk_copy_cases and of a row of a CSV file.
BeginCreate(w, parent, name) ==
  /\ Serve(w)
  /\ parent = Root \/ parent \in Ids
  /\ ~Duplicate(name, parent, Root)
  /\ made < MaxSuites
  /\ Begins(w, [Idle EXCEPT !.op = "create", !.parent = parent, !.name = name,
                            !.at = Cardinality(Siblings(parent)) + 1])

CommitCreate(w) ==
  LET r == req[w]
      kept == (r.parent = Root \/ r.parent \in Ids) /\ made < MaxSuites
  IN
  /\ Does(w, "create")
  /\ IF kept
     THEN /\ suites' = suites \union {Row(made + 1, r.parent, r.name, r.at)}
          /\ made' = made + 1
     ELSE UNCHANGED <<suites, made>>
  /\ Ends(w)
  /\ UNCHANGED <<serial, live, requests, moves, overlapped>>

\* update_suite: the name is looked for among the siblings it has, not those it gets.  A
\* parent of None is left out, so that no suite is moved to the root.
BeginUpdate(w, id, parent, name) ==
  LET r == Suite(id)  stays == IF parent = Root THEN r.parent ELSE parent
  IN
  /\ Serve(w)
  /\ parent # Root => Walks(id)
  /\ ValidParent(id, parent)
  /\ name # r.name => ~Duplicate(name, r.parent, id)
  /\ stays # r.parent \/ name # r.name
  /\ Begins(w, [Idle EXCEPT !.op = "update", !.id = id, !.at = moves,
                            !.parent = IF stays = r.parent THEN Root ELSE stays,
                            !.name = IF name = r.name THEN "none" ELSE name])

\* Only what differs from the row that was read is written.
CommitUpdate(w) ==
  LET r == req[w]
      kept == r.id \in Ids /\ (r.parent = Root \/ r.parent \in Ids)
      changed == [Suite(r.id) EXCEPT !.parent = IF r.parent = Root THEN @ ELSE r.parent,
                                     !.name = IF r.name = "none" THEN @ ELSE r.name]
  IN
  /\ Does(w, "update")
  /\ suites' = IF kept THEN (suites \ {Suite(r.id)}) \union {changed} ELSE suites
  /\ IF kept /\ r.parent # Root
     THEN moves' = moves + 1 /\ overlapped' = (overlapped \/ moves # r.at)
     ELSE UNCHANGED <<moves, overlapped>>
  /\ Ends(w)
  /\ UNCHANGED <<serial, live, made, requests>>

\* delete_suite: the session loads what is below it.
BeginDelete(w, id) ==
  /\ Serve(w)
  /\ Walks(id)
  /\ Begins(w, [Idle EXCEPT !.op = "delete", !.ids = Subtree(id)])

\* Those rows are deleted, wherever they are now, and what is below them by now.
CommitDelete(w) ==
  LET gone == UNION {Subtree(id) : id \in req[w].ids \intersect Ids}
  IN
  /\ Does(w, "delete")
  /\ suites' = {r \in suites : r.id \notin gone}
  /\ live' = live \ gone
  /\ Ends(w)
  /\ UNCHANGED <<serial, made, requests, moves, overlapped>>

\* reorder_project_suites takes the siblings of a parent, each at least once.
BeginReorder(w, parent, ids) ==
  /\ Serve(w)
  /\ ids # <<>> /\ Range(ids) = {r.id : r \in Siblings(parent)}
  /\ Begins(w, [Idle EXCEPT !.op = "reorder", !.order = ids])

CommitReorder(w) ==
  LET ids == req[w].order
      place(id) == Max({i \in DOMAIN ids : ids[i] = id})
  IN
  /\ Does(w, "reorder")
  /\ suites' = IF Range(ids) \subseteq Ids
               THEN {IF r.id \in Range(ids) THEN [r EXCEPT !.order = place(r.id)] ELSE r : r \in suites}
               ELSE suites
  /\ Ends(w)
  /\ UNCHANGED <<serial, live, made, requests, moves, overlapped>>

\* archive_suite archives the cases it finds live below the suite.
BeginArchive(w, id) ==
  /\ Serve(w)
  /\ Walks(id)
  /\ Begins(w, [Idle EXCEPT !.op = "archive", !.ids = Subtree(id) \intersect live])

CommitArchive(w) ==
  /\ Does(w, "archive")
  /\ live' = IF req[w].ids \subseteq Ids THEN live \ req[w].ids ELSE live
  /\ Ends(w)
  /\ UNCHANGED <<serial, suites, made, requests, moves, overlapped>>

\* A case is created or taken from the archive.
AddCase(id) ==
  /\ id \notin live
  /\ live' = live \union {id}
  /\ UNCHANGED <<serial, suites, made, req, requests, moves, overlapped>>

Next ==
  \/ \E w \in Workers :
       \/ \E p \in {Root} \union Ids, n \in Names : BeginCreate(w, p, n)
       \/ \E id \in Ids, p \in {Root} \union Ids, n \in Names : BeginUpdate(w, id, p, n)
       \/ \E id \in Ids : BeginDelete(w, id) \/ BeginArchive(w, id)
       \/ \E p \in {Root} \union Ids : \E ids \in SetToSeqs({r.id : r \in Siblings(p)}) : BeginReorder(w, p, ids)
       \/ CommitCreate(w) \/ CommitUpdate(w) \/ CommitDelete(w) \/ CommitReorder(w) \/ CommitArchive(w)
  \/ \E id \in Ids : AddCase(id)

Spec == Init /\ [][Next]_vars

-----------------------------------------------------------------------------
\* However requests overlap, the parent of a suite exists.
NoOrphans == \A r \in suites : r.parent = Root \/ r.parent \in Ids

\* Unless two moves overlapped, no suite is below itself: every walk of the tree ends.
MovesKeepTree == ~overlapped => \A r \in suites : r.parent \notin Subtree(r.id)

\* Served one at a time, and until one is moved, siblings differ in name.
SiblingsDiffer ==
  serial /\ moves = 0 => \A r, s \in suites : r.parent = s.parent /\ r.name = s.name => r = s

TreeHolds == TypeOK /\ NoOrphans /\ MovesKeepTree /\ SiblingsDiffer
=============================================================================
