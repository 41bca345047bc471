SPECIFICATION Spec
CONSTANTS
  p1 = p1
  g1 = g1
  g2 = g2
  Procs = {p1}
  Pids = {1}
  Pid <- PidOf
  Unreadable = {}
  Gpus = {g1, g2}
  Longest = 1
  Refresh = 1
  Slow = 0
  MaxTime = 6
  Ahead = 1
  QueueSize = 1
  Stale = 3
  Patience = 1
  Every = 1
  MaxFaults = 1
CHECK_DEADLOCK FALSE
SYMMETRY AnyGpu
INVARIANTS
  TypeOK
  ReportedStaysOpen
  RunningWasAlive
  SessionMatchesUsages
PROPERTY
  SentAgainChangesNothing
