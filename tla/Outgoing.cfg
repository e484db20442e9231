SPECIFICATION MCSpec
CONSTANTS
  e1 = e1
  e2 = e2
  l1 = l1
  l2 = l2
  l3 = l3
  Executions <- MCExecutions
  Lines <- MCLines
  ExecOf <- MCExecOf
  Responses = {r1}
  HookSet = {h1, h2}
  AnswersOf <- MCAnswersOf
INVARIANTS NothingStuck InOrder LiveIsStored RowTellsOutcome OnlyFailuresRetried
PROPERTIES StreamSpec AnsweredIsSent StartedIsRecorded QueuedIsRecorded
CHECK_DEADLOCK FALSE
