SPECIFICATION FairSpec
CONSTANTS
  w1 = w1
  w2 = w2
  c1 = c1
  c2 = c2
  n1 = n1
  Watchers = {w1}
  Conns = {c1}
  Nodes = {n1}
  NoRuntime = NoRuntime
  NoNode = NoNode
  Over = Over
  Absent = Absent
  StaleAfter = 0
  OfflineAfter = 1
  MaxSeq = 3
PROPERTY
  SilenceIsShown
CHECK_DEADLOCK FALSE
