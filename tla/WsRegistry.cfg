SPECIFICATION MCSpec
CONSTANTS
  Sockets = {s1, s2}
  Topics = {t1, t2}
  Casts = {c1, c2}
  Processes = {p1, p2}
  MaxMessages = 2
  MaxLost = 1
  NoTopics = none
  MaxRuns = 3
INVARIANT IndexesMirror
INVARIANT GoneIsForgotten
INVARIANT ToldIsRegistered
INVARIANT OwedIsSent
INVARIANT LiveUpdatesHold
SYMMETRY Symmetry
CHECK_DEADLOCK FALSE
