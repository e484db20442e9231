CONSTANTS
  Workers = {w1, w2}
  Users = {u1, u2, root}
  Nobody = nobody
  Admins = {root}
  MaxRows = 3
  MAX_FAILED_LOGINS = 2
  Names = {n1, n2}
  MaxRequests = 4
  Executions = {e1}
  Versions = {v1}
  MaxLinks = 2
  LinkTime = 1
SPECIFICATION Spec
SYMMETRY MCSymmetry
INVARIANT TokensKeepToTheirResource
CHECK_DEADLOCK FALSE
