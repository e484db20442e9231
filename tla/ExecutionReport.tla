--------------------------- MODULE ExecutionReport ---------------------------
(***************************************************************************)
(* The HTML report of an execution (services/execution_reports.py), made   *)
(* while the suites and the rows change.  It is made in two steps: the     *)
(* rows with their cases and suites are loaded first, the suites of the    *)
(* project after them, and a suite that is loaded is not read again.       *)
(***************************************************************************)
EXTENDS Integers, FiniteSetsExt

CONSTANTS
  Rows,           \* the rows of the execution
  MaxSuites,      \* bound: suites
  MaxRequests     \* bound: requests that change something

Root == 0         \* column parent_suite_id of a root; section of the rows without a case
Suites == 1 .. MaxSuites
Places == {Root} \union Suites
Statuses == {"passed", "failed", "not_run"}

VARIABLES
  parent,     \* column parent_suite_id of each suite
  suite,      \* the suite of each row's case, Root once the case is deleted
  status,     \* column status of each row
  requests,   \* requests that changed something so far
  report,     \* the report that is being made: what was loaded
  page,       \* the last report that was made
  moves,      \* history: suites moved while this report was made
  hung        \* history: a report climbed the suites for ever

vars == <<parent, suite, status, requests, report, page, moves, hung>>

Nothing == [made |-> FALSE]

\* What a climb from a place passes: the least set that has the place, and with a suite the one
\* above it.  A climb that never passes Root goes round for ever.
Climb(up, s) ==
  {t \in Places :
     \A passed \in SUBSET Places :
       s \in passed /\ (\A u \in passed \ {Root} : up[u] \in passed) => t \in passed}
Ends(up, s) == Root \in Climb(up, s)

TypeOK ==
  /\ parent \in [Suites -> Places]
  /\ suite \in [Rows -> Places] /\ status \in [Rows -> Statuses]
  /\ requests \in 0 .. MaxRequests /\ moves \in 0 .. requests

Init ==
  /\ parent \in [Suites -> Places]
  /\ \A s \in Suites : Ends(parent, s)
  /\ suite \in [Rows -> Suites] /\ status = [r \in Rows |-> "not_run"]
  /\ requests = 0 /\ report = Nothing /\ page = Nothing /\ moves = 0 /\ hung = FALSE

Serve == ~hung /\ requests < MaxRequests /\ requests' = requests + 1 /\ UNCHANGED <<report, page, hung>>

-----------------------------------------------------------------------------
\* update_suite
MoveSuite(s, p) ==
  /\ Serve
  /\ s \notin Climb(parent, p) /\ parent[s] # p
  /\ parent' = [parent EXCEPT ![s] = p]
  /\ moves' = IF report.made THEN moves + 1 ELSE moves
  /\ UNCHANGED <<suite, status>>

\* update_case, delete_case
MoveCase(r, s) ==
  /\ Serve
  /\ suite[r] \notin {Root, s}
  /\ suite' = [suite EXCEPT ![r] = s]
  /\ UNCHANGED <<parent, status, moves>>

\* update_result
SetResult(r, st) ==
  /\ Serve
  /\ status[r] # st
  /\ status' = [status EXCEPT ![r] = st]
  /\ UNCHANGED <<parent, suite, moves>>

\* load_execution_for_report
Load ==
  /\ ~report.made /\ ~hung
  /\ report' = [made |-> TRUE, suite |-> suite, status |-> status,
                parent |-> [s \in Range(suite) \ {Root} |-> parent[s]]]
  /\ moves' = 0
  /\ UNCHANGED <<parent, suite, status, requests, page, hung>>

\* The suites as render_html has them: those of the rows as they were loaded, the others as they are.
Seen == [s \in Suites |-> IF s \in DOMAIN report.parent THEN report.parent[s] ELSE parent[s]]

\* Mutant: a section for the parent of each row's suite.
OneLevelUp(s) == IF Seen[s] = Root THEN s ELSE Seen[s]

\* _root_id
RootOf(s) == CHOOSE t \in Climb(Seen, s) : t # Root /\ Seen[t] = Root

\* all_results_for: the rows of a suite and of the suites below it.
AllResultsFor(t) ==
  {r \in Rows : IF t = Root THEN report.suite[r] = Root ELSE t \in Climb(Seen, report.suite[r])}

With(rows, st) == Cardinality({r \in rows : report.status[r] = st})
Counts(rows) == [st \in Statuses |-> With(rows, st)]

\* The roots of the rows, each with its counts, and the header.
Page ==
  LET roots == {IF report.suite[r] = Root THEN Root ELSE RootOf(report.suite[r]) : r \in Rows}
  IN [made |-> TRUE,
      section |-> [t \in roots |-> AllResultsFor(t)],
      counts |-> [t \in roots |-> Counts(AllResultsFor(t))],
      total |-> Counts(Rows),
      pass |-> Rows # {} /\ With(Rows, "failed") = 0]

Render ==
  LET ends == \A r \in Rows : Ends(Seen, report.suite[r]) IN
  /\ report.made /\ ~hung
  /\ IF ends THEN page' = Page /\ report' = Nothing /\ hung' = hung
             ELSE hung' = TRUE /\ UNCHANGED <<page, report>>
  /\ UNCHANGED <<parent, suite, status, requests, moves>>

Next ==
  \/ \E s, p \in Suites : MoveSuite(s, p)
  \/ \E r \in Rows, s \in Places : MoveCase(r, s)
  \/ \E r \in Rows, st \in {"passed", "failed"} : SetResult(r, st)
  \/ Load \/ Render

Spec == Init /\ [][Next]_vars

-----------------------------------------------------------------------------
\* The sum of a function's numbers, counted as pairs of an argument and one of 1 .. its number.
Sum(numbers) == Cardinality(UNION {{x} \X (1 .. numbers[x]) : x \in DOMAIN numbers})

\* A report shows each row in exactly one section, and its sections add up to its header, which
\* passes only if all of them do.
EachRowOnce ==
  page.made =>
    /\ \A r \in Rows : Cardinality({t \in DOMAIN page.section : r \in page.section[t]}) = 1
    /\ \A st \in Statuses :
         page.total[st] = Sum([t \in DOMAIN page.counts |-> page.counts[t][st]])
    /\ page.pass <=> Rows # {} /\ \A t \in DOMAIN page.counts : page.counts[t]["failed"] = 0

\* A report ends unless two suites were moved while it was made: the mix of what was loaded
\* before and after them may be a cycle, though the suites never have one.
ReportsEnd == hung => moves >= 2

ReportAgrees == TypeOK /\ EachRowOnce /\ ReportsEnd
=============================================================================
