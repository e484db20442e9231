CONSTANTS
  Workers = {"w"}
  MayReopen = {"w"}
  CanFail = TRUE
  Cases = {"c"}
  Steps = {"s"}
  Rows = {1, 2}
  StepRows = {1, 2}
  CaseOf <- OnlyCase
  RowOf <- OnlyRow
  StepOf <- OnlyStep
  StatusArgs = {"not_run", "running", "passed", "failed"}
  Importers = {w1, w2}
  None = None
  Things = {x1, x2}
  MaxExecutions = 2
  ImportRequests = 3
  MaxRuns = 2
  RECENT_LIMIT = 1
  RECENT_EXECUTIONS_PER_PROJECT = 2
  PageRequests = 4
  MaxSuites = 3
  ReportRequests = 2
SPECIFICATION MCSpec
SYMMETRY MCSymmetry
INVARIANTS
  CompletedHasNothingRunning
  ImportsAgree
  PagesAgree
PROPERTIES ReadOnlyWhenClosed
CHECK_DEADLOCK FALSE
