----------------------------- MODULE MCExecutions -----------------------------
(* One execution served one request at a time, the rows of executions and the *)
(* files that fill them in, and what pages and reports say of them.  Each     *)
(* behaviour is one of these machines, and the others stay as they start.     *)
EXTENDS ExecutionLifecycle, TLC

CONSTANTS Importers, None, Things,
  MaxExecutions, ImportRequests,
  MaxRuns, RECENT_LIMIT, RECENT_EXECUTIONS_PER_PROJECT, PageRequests,
  MaxSuites, ReportRequests

ASSUME BoundsAssumption ==
  /\ MaxExecutions \in Nat \ {0} /\ ImportRequests \in Nat
  /\ RECENT_LIMIT \in Nat /\ RECENT_EXECUTIONS_PER_PROJECT \in Nat /\ PageRequests \in Nat
  /\ MaxSuites \in Nat /\ ReportRequests \in Nat
ASSUME ThingsAssumption == IsFiniteSet(Things) /\ None \notin Things

\* Two rows of one case and of one step: what two overlapping upserts can create.
OnlyCase == [r \in {1, 2} |-> "c"]
OnlyRow == [x \in {1, 2} |-> 1]
OnlyStep == [x \in {1, 2} |-> "s"]

VARIABLES part, serial, requests,
  case, executions, results, importing, toldFailed, passed,
  cases, runs, rows, archived,
  parent, suite, status, report, page, moves, hung

importVars == <<case, executions, results, importing, toldFailed, passed>>
pageVars == <<cases, runs, rows, archived>>
reportVars == <<parent, suite, status, report, page, moves, hung>>
allVars == <<vars, part, serial, requests, importVars, pageVars, reportVars>>

\* One set of two: the cases of a machine, the versions or the rows of another.
I == INSTANCE ResultImports WITH
  Workers <- Importers, Cases <- Things, NoCase <- None, MaxRequests <- ImportRequests,
  req <- importing, reported <- toldFailed
P == INSTANCE ProjectPages WITH
  Cases <- Things, Versions <- Things, Gone <- None, NoVersion <- None,
  MaxRequests <- PageRequests, results <- rows
E == INSTANCE ExecutionReport WITH Rows <- Things, MaxRequests <- ReportRequests

\* A part that stays as it starts starts in one way.
MCInit ==
  /\ part \in {"lifecycle", "imports", "pages", "report"}
  /\ Init /\ I!Init /\ P!Init /\ E!Init
  /\ part # "imports" =>
       /\ serial /\ DOMAIN results = {1}
       /\ \A c \in DOMAIN case : case[c].external # "none"
       /\ \A r \in DOMAIN results : results[r].case = CHOOSE c \in Things : TRUE
  /\ part # "lifecycle" => result[1] # Absent
  /\ part # "report" =>
       (\A s \in DOMAIN parent : parent[s] = 0) /\ (\A r \in Things : suite[r] = 1)

LifecycleStep ==
  part = "lifecycle" /\ Next /\ UNCHANGED <<part, serial, requests, importVars, pageVars, reportVars>>
ImportStep ==
  part = "imports" /\ I!Next /\ UNCHANGED <<part, vars, pageVars, reportVars>>
PageStep ==
  part = "pages" /\ P!Next /\ UNCHANGED <<part, serial, vars, importVars, reportVars>>
ReportStep ==
  part = "report" /\ E!Next /\ UNCHANGED <<part, serial, vars, importVars, pageVars>>

MCNext == LifecycleStep \/ ImportStep \/ PageStep \/ ReportStep

MCSpec == MCInit /\ [][MCNext]_allVars

MCSymmetry == Permutations(Importers) \union Permutations(Things)

-----------------------------------------------------------------------------
\* Imports and reruns report every failure and drop no case; a case has one row.
ImportsAgree ==
  (part = "imports" => I!ImportsAgree) /\ (part = "lifecycle" => OneRowPerCase)
\* Dashboards, coverage and the report say what the rows say, and one what the other.
PagesAgree == (part = "pages" => P!PagesAgree) /\ (part = "report" => E!ReportAgrees)
\* The manual: a cell of the coverage matrix shows a completed run.
CoverageShowsCompleted == part = "pages" => P!CellsAreOfCompletedRuns
=============================================================================
