SPECIFICATION FairSpec
CONSTANTS
  w1 = w1
  w2 = w2
  c1 = c1
  c2 = c2
  n1 = n1
  Watchers = {w1, w2}
  Conns = {c1, c2}
  Nodes = {n1}
  NoRuntime = NoRuntime
  NoNode = NoNode
  Over = Over
  Absent = Absent
  StaleAfter = 0
  OfflineAfter = 1
  MaxSeq = 3
INVARIANTS
  TypeOK
  CaughtUpIsExact
PROPERTY
  EveryChangeIsSent
CHECK_DEADLOCK FALSE
