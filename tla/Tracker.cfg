CONSTANTS
  Machines = {"links", "tickets", "notifications"}
  Workers = {w1, w2}
  BugIds = 1
  BugRequests = 0
  Titles = {0}
  Environments = {"e"}
  Retries = 1
  MaxBugs = 0
  MaxVersions = 0
  ForeignVersion = 9
  None = 0
  ReportRequests = 0
  LinkedBugs = {b1, b2, b3}
  NoTarget = NoTarget
  MaxLinks = 4
  TicketBugs = {"b1"}
  MaxTickets = 2
  MaxMoves = 2
  Users = {u1, u2, guest}
  Members = {u1, u2}
  Nobody = nobody
  MaxRequests = 3
  MaxWindows = 1
SYMMETRY TrackerSymmetry
SPECIFICATION Spec
INVARIANTS
  LinksAgree
  NotificationsAgree
PROPERTY LinksKeepHistory
CHECK_DEADLOCK FALSE
