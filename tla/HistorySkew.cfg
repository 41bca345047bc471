SPECIFICATION Spec
CONSTANTS
  n1 = n1
  n2 = n2
  Nodes = {n1, n2}
  Skew <- FastClock
  Width <- RowWidths
  Every <- RowPeriods
  PruneEvery = 3
  Retention <- Retentions
  QueueSize = 2
  Patience = 1
  Stall = 2
  MaxTime = 9
  MaxSamples = 4
  MaintainTime = 0
  MaxFaults = 0
CHECK_DEADLOCK FALSE
INVARIANT
  RowsComplete
