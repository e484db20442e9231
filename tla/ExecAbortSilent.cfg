SPECIFICATION Spec
CONSTANTS
  w1 = w1  w2 = w2  c1 = c1  s1 = s1
  Workers = {w1}
  MayReopen = {w1}
  Cases <- OneCase
  Steps = {s1}
  Rows <- OneRow
  StepRows <- OneRow
  CaseOf <- OnlyRowCase
  RowOf <- OnlyStepRow
  StepOf <- OnlyStep
  StatusArgs = {"passed", "failed"}
  CanFail = FALSE
INVARIANT AbortAnnounced
CHECK_DEADLOCK FALSE
