---------------------------- MODULE ProjectPages ------------------------------
(***************************************************************************)
(* What the pages of a project say of its executions: the cards of the     *)
(* dashboard (routers/dashboard.py), the summaries of the project list     *)
(* (services/project_summaries.py) and the coverage matrix                 *)
(* (routers/coverage.py), each a query over the tables as they are.  The   *)
(* clock counts requests.                                                  *)
(***************************************************************************)
EXTENDS Integers, FiniteSetsExt, SequencesExt

CONSTANTS
  Cases,
  Gone,           \* column test_case_id of a row whose case was deleted
  Versions,
  NoVersion,
  RECENT_LIMIT,   \* rows of the dashboard's card of recent executions
  RECENT_EXECUTIONS_PER_PROJECT,
  MaxRuns,        \* bound: executions
  MaxRequests     \* bound: requests served in all

RESULT_STATUSES == {"passed", "failed", "blocked", "not_run"}
IN_FLIGHT_STATUSES == {"pending", "in_progress"}
Day(time) == time \div 3

VARIABLES
  cases,      \* table test_cases
  runs,       \* table test_executions: rows [version, status, at], oldest first
  results,    \* table test_results: rows [run, case, status, at], at 0 if executed_at is null
  archived,   \* the versions that are archived
  requests    \* requests served so far

vars == <<cases, runs, results, archived, requests>>

TypeOK ==
  /\ cases \subseteq Cases
  /\ \A e \in DOMAIN runs :
       runs[e].version \in Versions \union {NoVersion} /\ runs[e].at \in 1 .. MaxRequests
  /\ \A r \in DOMAIN results :
       results[r].run \in DOMAIN runs /\ results[r].case \in cases \union {Gone}
  /\ requests \in 0 .. MaxRequests /\ archived \subseteq Versions

Init ==
  /\ cases = Cases
  /\ runs = <<>> /\ results = <<>> /\ archived = {} /\ requests = 0

now == requests + 1
Serve == requests < MaxRequests /\ requests' = now

-----------------------------------------------------------------------------
(* What changes the rows. *)

\* create_execution
CreateRun(version, chosen) ==
  /\ Serve
  /\ Len(runs) < MaxRuns /\ chosen \subseteq cases
  /\ runs' = Append(runs, [version |-> version, status |-> "pending", at |-> now])
  /\ results' = results \o [i \in 1 .. Cardinality(chosen) |->
       [run |-> Len(runs) + 1, case |-> SetToSeq(chosen)[i], status |-> "not_run", at |-> 0]]
  /\ UNCHANGED <<cases, archived>>

\* update_result, whose client may leave out when.
SetResult(r, status, when) ==
  /\ Serve
  /\ runs[results[r].run].status \in IN_FLIGHT_STATUSES
  /\ results' = [results EXCEPT ![r].status = status, ![r].at = IF when = 0 THEN @ ELSE when]
  /\ UNCHANGED <<cases, runs, archived>>

\* update_execution; a completion blocks what is running.
Complete(e) ==
  /\ Serve
  /\ runs[e].status \in IN_FLIGHT_STATUSES
  /\ runs' = [runs EXCEPT ![e].status = "completed"]
  /\ results' = [r \in DOMAIN results |->
                   IF results[r].run = e /\ results[r].status = "running"
                   THEN [results[r] EXCEPT !.status = "blocked"] ELSE results[r]]
  /\ UNCHANGED <<cases, archived>>

\* delete_case
DeleteCase(c) ==
  /\ Serve
  /\ cases' = cases \ {c}
  /\ results' = [r \in DOMAIN results |->
                   IF results[r].case = c THEN [results[r] EXCEPT !.case = Gone] ELSE results[r]]
  /\ UNCHANGED <<runs, archived>>

\* update_version; delete_version, which empties the column of the executions that name the
\* version, where versions-environments-coverage.md:23 has the deletion blocked.
ArchiveVersion(v) ==
  /\ Serve
  /\ v \notin archived
  /\ archived' = archived \union {v}
  /\ UNCHANGED <<cases, runs, results>>

DeleteVersion(v) ==
  /\ Serve
  /\ \E e \in DOMAIN runs : runs[e].version = v
  /\ runs' = [e \in DOMAIN runs |->
                IF runs[e].version = v THEN [runs[e] EXCEPT !.version = NoVersion] ELSE runs[e]]
  /\ archived' = archived \ {v}
  /\ UNCHANGED <<cases, results>>

-----------------------------------------------------------------------------
(* The dashboard and the project list. *)

RowsOf(e) == {r \in DOMAIN results : results[r].run = e}
With(rows, status) == Cardinality({r \in rows : results[r].status = status})
Window(since) == {e \in DOMAIN runs : runs[e].at >= since}
Newest(set, limit) == {e \in set : Cardinality({d \in set : d > e}) < limit}

\* _recent_executions_card, and the counts of its rows
RecentExecutions(since) == Newest(Window(since), RECENT_LIMIT)
CountsOfCard(e) == [s \in RESULT_STATUSES |-> With(RowsOf(e), s)]

\* _recent_executions of a project summary, _result_status_counts
SummaryExecutions == Newest(DOMAIN runs, RECENT_EXECUTIONS_PER_PROJECT)
CountsOfSummary(e) == [s \in {results[r].status : r \in RowsOf(e)} \intersect RESULT_STATUSES |-> With(RowsOf(e), s)]
ExecutionStats == <<Len(runs), Max({0} \union {runs[e].at : e \in DOMAIN runs})>>

\* _counts_card
InFlight == {e \in DOMAIN runs : runs[e].status \in IN_FLIGHT_STATUSES}
CountsCard(since) ==
  [cases |-> Cardinality(cases), in_flight |-> Cardinality(InFlight),
   in_range |-> Cardinality(Window(since))]

\* _pass_rate_card: the series by day, and the totals.
Series(since) ==
  LET days == {Day(runs[e].at) : e \in {results[r].run : r \in DOMAIN results} \intersect Window(since)}
  IN [d \in days |-> [s \in RESULT_STATUSES |->
        With(UNION {RowsOf(e) : e \in {x \in Window(since) : Day(runs[x].at) = d}}, s)]]
Totals(since) == [s \in RESULT_STATUSES |-> With(UNION {RowsOf(e) : e \in Window(since)}, s)]

\* _top_fail_card, before its order and its limit
FailCount(since, c) ==
  Cardinality({r \in DOMAIN results :
    results[r].case = c /\ results[r].status = "failed" /\ results[r].run \in Window(since)})
TopFail(since) == {c \in cases : FailCount(since, c) > 0}

\* _versions_card: its rows, the newest run first, before its limit
RunsOf(v) == {e \in DOMAIN runs : runs[e].version = v}
LastRun(v) == IF RunsOf(v) = {} THEN 0 ELSE Max(RunsOf(v))
VersionsCard ==
  CHOOSE card \in SetToSeqs(Versions \ archived) :
    \A i, j \in DOMAIN card : i < j => LastRun(card[i]) >= LastRun(card[j])
PassRate(v) ==
  LET rows == UNION {RowsOf(e) : e \in RunsOf(v)} IN <<With(rows, "passed"), With(rows, "passed") + With(rows, "failed")>>

-----------------------------------------------------------------------------
(* The coverage matrix. *)

\* executed_at or started_at or created_at; an execution starts when it is created.
Stamp(r) == IF results[r].at # 0 THEN results[r].at ELSE runs[results[r].run].at

\* Of the rows of a case under a version, the first one with the newest stamp.
Ran(c, v) ==
  {r \in DOMAIN results : /\ results[r].case = c /\ results[r].status # "not_run"
                          /\ runs[results[r].run].version = v}
Cell(c, v) ==
  LET newest == {r \in Ran(c, v) : \A q \in Ran(c, v) : Stamp(q) <= Stamp(r)}
  IN IF Ran(c, v) = {} THEN 0 ELSE Min(newest)

Next ==
  \/ \E v \in Versions \union {NoVersion} : \E chosen \in (SUBSET cases) \ {{}} : CreateRun(v, chosen)
  \/ \E r \in DOMAIN results, s \in {"running", "passed", "failed"} : \E when \in {0, now} : SetResult(r, s, when)
  \/ \E e \in DOMAIN runs : Complete(e)
  \/ \E c \in cases : DeleteCase(c)
  \/ \E v \in Versions : ArchiveVersion(v) \/ DeleteVersion(v)

Spec == Init /\ [][Next]_vars

-----------------------------------------------------------------------------
\* The sum of a function's numbers, counted as pairs of an argument and one of 1 .. its number.
Sum(numbers) == Cardinality(UNION {{x} \X (1 .. numbers[x]) : x \in DOMAIN numbers})

\* The dashboard and the project list tell the same of recent executions: of a window one
\* shows what the other shows and maybe older ones, with the same counts.
RecentAgree ==
  \A since \in 0 .. now :
    LET card == RecentExecutions(since)
        summary == SummaryExecutions \intersect Window(since)
    IN /\ card \subseteq summary \/ summary \subseteq card
       /\ \A e \in card, s \in RESULT_STATUSES :
            LET counts == CountsOfSummary(e) IN
            CountsOfCard(e)[s] = IF s \in DOMAIN counts THEN counts[s] ELSE 0
       /\ CountsCard(since).in_range <= ExecutionStats[1]
       /\ card # {} => runs[Max(card)].at = ExecutionStats[2]

\* The days of the pass rate add up to its totals, these to the executions of the window, and
\* their failures to those of the cases that are still there and the rows of the others.
PassRateAgrees ==
  \A since \in 0 .. now :
    LET totals == Totals(since)
        series == Series(since)
    IN /\ \A s \in RESULT_STATUSES :
            /\ totals[s] = Sum([d \in DOMAIN series |-> series[d][s]])
            /\ totals[s] = Sum([e \in Window(since) |-> CountsOfCard(e)[s]])
       /\ totals["failed"] = Sum([c \in TopFail(since) |-> FailCount(since, c)]) + FailCount(since, Gone)

\* The matrix shows of a case and a version the row that ran last, which is of the version's
\* last run if that one ran the case and no older run was touched since it began: of the runs
\* the code looks at, which are those in flight as well (CellsAreOfCompletedRuns).
CoverageIsLatest ==
  \A c \in cases, v \in Versions :
    LET cell == Cell(c, v)
        of == {r \in DOMAIN results : results[r].case = c /\ results[r].status # "not_run"
                                      /\ results[r].run \in RunsOf(v)}
    IN /\ cell = 0 <=> of = {}
       /\ \A r \in of : Stamp(r) <= Stamp(cell)
       /\ (/\ \E r \in of : results[r].run = LastRun(v)
           /\ \A r \in of : results[r].run # LastRun(v) => Stamp(r) < runs[LastRun(v)].at)
          => results[cell].run = LastRun(v)

\* versions-environments-coverage.md:62: "In-flight runs don't populate cells", the row a cell
\* of the matrix shows is of an execution that is completed.
CellsAreOfCompletedRuns ==
  \A c \in cases, v \in Versions :
    Cell(c, v) # 0 => runs[results[Cell(c, v)].run].status = "completed"

\* A version with a pass rate has a cell for each case of its rows that is still there, and
\* comes before the versions that never ran.
VersionsAgree ==
  \A i \in DOMAIN VersionsCard :
    LET v == VersionsCard[i]
        ended == {r \in DOMAIN results : results[r].run \in RunsOf(v) /\ results[r].status \in {"passed", "failed"}}
    IN /\ PassRate(v)[2] = Cardinality(ended)
       /\ {results[r].case : r \in ended} \subseteq {c \in cases : Cell(c, v) # 0} \union {Gone}
       /\ LastRun(v) = 0 => \A j \in DOMAIN VersionsCard : j > i => LastRun(VersionsCard[j]) = 0

PagesAgree == TypeOK /\ RecentAgree /\ PassRateAgrees /\ CoverageIsLatest /\ VersionsAgree
=============================================================================
