---------------------------- MODULE ResultImports ----------------------------
(***************************************************************************)
(* How an execution gets its rows (create_execution, rerun_execution) and  *)
(* how a JUnit or Robot Framework file fills them in                       *)
(* (routers/executions/result_imports.py).                                 *)
(*                                                                         *)
(* A request reads, commits later and reports failures after that; unless  *)
(* serial, others commit in between.  The entry of a file is a sequence of *)
(* keys, the qualified name before the plain one, and an outcome.          *)
(***************************************************************************)
EXTENDS Naturals, SequencesExt

CONSTANTS
  Workers,        \* the threads that serve requests
  Cases,          \* test cases
  NoCase,         \* column test_case_id of a row whose case was deleted
  MaxExecutions,  \* bound: executions
  MaxRequests     \* bound: requests served in all

Outcomes == {"passed", "failed"}
Entry(keys, status) == [keys |-> keys, status |-> status]
Files ==
  {<<Entry(<<"k.n", "n">>, s), Entry(keys, IF s = "failed" THEN "passed" ELSE "failed")>> :
     s \in Outcomes, keys \in {<<"k.n", "n">>, <<"n">>}}

\* A case with an external id, one of the same name without, and one named as a test is qualified.
Columns ==
  {[external |-> "k.n", name |-> "n"], [external |-> "none", name |-> "n"],
   [external |-> "none", name |-> "k.n"]}

VARIABLES
  serial,      \* requests are served one at a time
  case,        \* table test_cases: of each case there is, [external, name, archived]
  executions,  \* table test_executions: rows [source, closed] and what the history needs of them
  results,     \* table test_results: rows [execution, case, status, steps], steps counting step rows
  req,         \* what each worker is about to write or to report
  requests,    \* requests begun so far
  reported,    \* history: rows whose failure was reported since they failed
  passed       \* history: pairs <<execution, case>> that passed some time

vars == <<serial, case, executions, results, req, requests, reported, passed>>

Idle == [op |-> "none"]
CaseLists(cases) == UNION {[1 .. n -> cases] : n \in {1, 2}}
NewRows(e, cases) ==
  [i \in DOMAIN cases |-> [execution |-> e, case |-> cases[i], status |-> "not_run", steps |-> 0]]
RowsOf(e) == {r \in DOMAIN results : results[r].execution = e}
CasesOf(e) == {results[r].case : r \in RowsOf(e)} \ {NoCase}

TypeOK ==
  /\ Len(executions) <= MaxExecutions /\ requests \in 0 .. MaxRequests
  /\ \A c \in DOMAIN case :
       [external |-> case[c].external, name |-> case[c].name] \in Columns /\ case[c].archived \in BOOLEAN
  /\ \A r \in DOMAIN results :
       /\ results[r].execution \in DOMAIN executions
       /\ results[r].case \in DOMAIN case \union {NoCase}
       /\ results[r].status \in {"not_run"} \union Outcomes

Init ==
  /\ serial \in BOOLEAN
  /\ \E columns \in [Cases -> Columns] :
       case = [c \in Cases |-> [external |-> columns[c].external, name |-> columns[c].name,
                                archived |-> FALSE]]
  /\ \E cases \in CaseLists(Cases) :
       /\ executions = <<[source |-> 0, closed |-> FALSE, scope |-> "all", known |-> {}]>>
       /\ results = NewRows(1, cases)
  /\ req = [w \in Workers |-> Idle] /\ requests = 0
  /\ reported = {} /\ passed = {}

Serve(w) ==
  /\ req[w] = Idle /\ requests < MaxRequests
  /\ serial => \A v \in Workers : req[v] = Idle
  /\ requests' = requests + 1

\* A request of one step, between the steps of others.
Serves == requests < MaxRequests /\ requests' = requests + 1 /\ UNCHANGED <<serial, req>>

Does(w, op) == req[w].op = op
Begins(w, r) ==
  /\ req' = [req EXCEPT ![w] = r]
  /\ UNCHANGED <<serial, case, executions, results, reported, passed>>
Becomes(w, r) == req' = [req EXCEPT ![w] = r] /\ UNCHANGED <<serial, requests>>

\* The rows of this function get these statuses, and those of this set a row of their step.
Writes(status, stepped) ==
  /\ results' = [r \in DOMAIN results |->
                   [results[r] EXCEPT !.status = IF r \in DOMAIN status THEN status[r] ELSE @,
                                      !.steps = IF r \in stepped THEN @ + 1 ELSE @]]
  /\ reported' = {r \in reported : results'[r].status = "failed"}
  /\ passed' = passed \union
       {<<results[r].execution, results[r].case>> : r \in {x \in DOMAIN status : status[x] = "passed"}}

-----------------------------------------------------------------------------
\* create_execution inserts a row for each id it is given, also for one that is given twice.
Create(cases) ==
  /\ Serves
  /\ Len(executions) < MaxExecutions /\ Range(cases) \subseteq DOMAIN case
  /\ executions' = Append(executions, [source |-> 0, closed |-> FALSE, scope |-> "all", known |-> {}])
  /\ results' = results \o NewRows(Len(executions) + 1, cases)
  /\ UNCHANGED <<case, reported, passed>>

\* _is_rerunnable
Rerunnable(r, scope) ==
  /\ results[r].case # NoCase
  /\ ~case[results[r].case].archived
  /\ scope = "all" \/ results[r].status # "passed"

\* rerun_execution, _rerun_assignees_by_case
BeginRerun(w, e, scope) ==
  LET cases == {results[r].case : r \in {x \in RowsOf(e) : Rerunnable(x, scope)}} IN
  /\ Serve(w)
  /\ cases # {}
  /\ Begins(w, [op |-> "rerun", source |-> e, scope |-> scope, cases |-> cases, known |-> CasesOf(e)])

\* _copy_execution.  A case that was deleted meanwhile is refused by a foreign key.
CommitRerun(w) ==
  LET r == req[w] IN
  /\ Does(w, "rerun")
  /\ IF r.cases \subseteq DOMAIN case /\ Len(executions) < MaxExecutions
     THEN /\ executions' = Append(executions, [source |-> r.source, closed |-> FALSE,
                                               scope |-> r.scope, known |-> r.known])
          /\ results' = results \o NewRows(Len(executions) + 1, SetToSeq(r.cases))
     ELSE UNCHANGED <<executions, results>>
  /\ Becomes(w, Idle)
  /\ UNCHANGED <<case, reported, passed>>

-----------------------------------------------------------------------------
\* _ResultIndex: the rows of an execution under the external ids and the names of their cases.
Under(e, column, key) ==
  {r \in RowsOf(e) : results[r].case # NoCase /\ case[results[r].case][column] = key}

\* _ResultIndex.find: external ids before names; the first key that is known decides, and
\* one that several rows share decides nothing.
Find(e, keys) ==
  LET candidates == [i \in DOMAIN keys |-> Under(e, "external", keys[i])]
                    \o [i \in DOMAIN keys |-> Under(e, "name", keys[i])]
      known == SelectSeq(candidates, LAMBDA rows : rows # {})
  IN IF known # <<>> /\ Cardinality(known[1]) = 1 THEN known[1] ELSE {}

\* The status of a row at entry i of a file: what the last entry before that names the row
\* says, or what it was before the file.
StatusAt(e, file, i, r) ==
  LET named == {j \in 1 .. i - 1 : r \in Find(e, file[j].keys)}
  IN IF named = {} THEN results[r].status ELSE file[Max(named)].status

\* Mutant: an entry is compared with what the row was before the file.
FailsIfNew(e, file, i, r) == file[i].status = "failed" /\ results[r].status = "not_run"

\* An entry makes a row newly failed if it had another status just before.
NewlyFails(e, file, i, r) == file[i].status = "failed" /\ StatusAt(e, file, i, r) # "failed"

\* What a file does to the rows it names, entry by entry.
Effects(e, file) ==
  LET Naming(r) == {i \in DOMAIN file : r \in Find(e, file[i].keys)} IN
  [r \in {x \in RowsOf(e) : Naming(x) # {}} |->
     [was |-> results[r].status,
      status |-> StatusAt(e, file, Len(file) + 1, r),
      failed |-> \E i \in Naming(r) : NewlyFails(e, file, i, r),
      changes |-> \E i \in Naming(r) : file[i].status # StatusAt(e, file, i, r)]]

\* import_junit, import_robotframework: refused if the execution is closed.  Robot Framework
\* files also say how the step of a case went: a row is added unless one was found.
BeginImport(w, e, file, robot) ==
  LET effect == Effects(e, file) IN
  /\ Serve(w)
  /\ ~executions[e].closed
  /\ Begins(w, [op |-> "import", effect |-> effect, robot |-> robot,
                bare |-> {r \in DOMAIN effect : robot /\ results[r].steps = 0}])

\* A Robot Framework file is flushed at each entry, a JUnit file at each new failure and in the
\* end; a flush writes what differs from the one before.
CommitImport(w) ==
  LET effect == req[w].effect
      failed == {r \in DOMAIN effect : effect[r].failed}
      differs == {r \in DOMAIN effect : effect[r].status # effect[r].was}
      dirty == IF req[w].robot THEN {r \in DOMAIN effect : effect[r].changes}
               ELSE differs \union {r \in failed : effect[r].was # "failed"}
  IN
  /\ Does(w, "import")
  /\ Writes([r \in dirty |-> effect[r].status], req[w].bare)
  /\ Becomes(w, [op |-> "report", rows |-> failed])
  /\ UNCHANGED <<case, executions>>

\* on_results_bulk_updated reads the rows again and fires for those that are still failed.
Report(w) ==
  /\ Does(w, "report")
  /\ reported' = reported \union {r \in req[w].rows : results[r].status = "failed"}
  /\ Becomes(w, Idle)
  /\ UNCHANGED <<case, executions, results, passed>>

\* update_result sets one row.
BeginUpdate(w, r, status) ==
  /\ Serve(w)
  /\ ~executions[results[r].execution].closed
  /\ Begins(w, [op |-> "update", row |-> r, was |-> results[r].status, status |-> status])

CommitUpdate(w) ==
  LET r == req[w] IN
  /\ Does(w, "update")
  /\ Writes(IF r.status # r.was THEN [x \in {r.row} |-> r.status] ELSE <<>>, {})
  /\ Becomes(w, [op |-> "report",
                 rows |-> IF r.status = "failed" /\ r.was # "failed" THEN {r.row} ELSE {}])
  /\ UNCHANGED <<case, executions>>

\* A case is archived or deleted, an execution closed, by a request of one step.
ArchiveCase(c) ==
  /\ Serves
  /\ ~case[c].archived
  /\ case' = [case EXCEPT ![c].archived = TRUE]
  /\ UNCHANGED <<executions, results, reported, passed>>

DeleteCase(c) ==
  /\ Serves
  /\ case' = [d \in DOMAIN case \ {c} |-> case[d]]
  /\ results' = [r \in DOMAIN results |->
                   IF results[r].case = c THEN [results[r] EXCEPT !.case = NoCase] ELSE results[r]]
  /\ UNCHANGED <<executions, reported, passed>>

Close(e) ==
  /\ Serves
  /\ ~executions[e].closed
  /\ executions' = [executions EXCEPT ![e].closed = TRUE]
  /\ UNCHANGED <<case, results, reported, passed>>

Next ==
  \/ \E cases \in CaseLists(DOMAIN case) : Create(cases)
  \/ \E w \in Workers :
       \/ \E e \in DOMAIN executions :
            \/ \E scope \in {"all", "failed"} : BeginRerun(w, e, scope)
            \/ \E file \in Files, robot \in BOOLEAN : BeginImport(w, e, file, robot)
       \/ \E r \in DOMAIN results, s \in Outcomes : BeginUpdate(w, r, s)
       \/ CommitRerun(w) \/ CommitImport(w) \/ CommitUpdate(w) \/ Report(w)
  \/ \E c \in DOMAIN case : ArchiveCase(c) \/ DeleteCase(c)
  \/ \E e \in DOMAIN executions : Close(e)

Spec == Init /\ [][Next]_vars

-----------------------------------------------------------------------------
\* However files, edits and reruns overlap: a failed row was reported since it failed, or the
\* request that made it fail is about to.
FailuresReported ==
  \A r \in DOMAIN results :
    results[r].status = "failed" =>
      r \in reported \/ \E w \in Workers : Does(w, "report") /\ r \in req[w].rows

\* A rerun has one row of a case, and misses none of its source that is not archived and, if
\* it takes up what did not pass, never passed.
RerunsMissNothing ==
  \A e \in DOMAIN executions :
    LET x == executions[e] IN
    x.source # 0 =>
      /\ \A r, s \in RowsOf(e) :
           results[r].case = results[s].case /\ results[r].case # NoCase => r = s
      /\ \A c \in x.known \intersect DOMAIN case :
           case[c].archived \/ c \in CasesOf(e) \/ (x.scope = "failed" /\ <<x.source, c>> \in passed)

\* Served one at a time, imports give a row one row of its step.
OneStepRow == serial => \A r \in DOMAIN results : results[r].steps <= 1

ImportsAgree == TypeOK /\ FailuresReported /\ RerunsMissNothing /\ OneStepRow
=============================================================================
