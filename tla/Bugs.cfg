CONSTANTS
  Machines = {"bugs", "reports", "schema"}
  Workers = {w1, w2}
  BugIds = 3
  BugRequests = 4
  Titles = {0, 1}
  Environments = {"e"}
  Retries = 2
  MaxBugs = 2
  MaxVersions = 2
  ForeignVersion = 9
  None = 0
  ReportRequests = 3
  LinkedBugs = {b1}
  NoTarget = NoTarget
  MaxLinks = 0
  TicketBugs = {"b1"}
  MaxTickets = 0
  MaxMoves = 0
  Users = {u1}
  Members = {u1}
  Nobody = nobody
  MaxRequests = 0
  MaxWindows = 0
SYMMETRY BugSymmetry
SPECIFICATION Spec
INVARIANTS
  BugsAgree
  ReportsAgree
  SchemaHolds
CHECK_DEADLOCK FALSE
