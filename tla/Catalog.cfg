CONSTANTS
  Workers = {w1, w2}
  Names = {n1, n2}
  MaxSuites = 3
  SuiteRequests = 3
  Texts = {t1, t2}
  MaxCases = 2
  MaxSteps = 2
  Options = {p1, p2}
  Rows = {r1, r2}
  Slugs = {s1, s2}
  MaxEnvironments = 3
  Owners = {o1, o2}
  MaxFiles = 2
  FileRequests = 5
  MaxRequests = 4
SPECIFICATION Spec
SYMMETRY MCSymmetry
INVARIANTS
  SuitesAndCasesHold
  FieldsHold
  EnvironmentsHold
  FilesHold
CHECK_DEADLOCK FALSE
