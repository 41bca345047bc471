SPECIFICATION Spec
CONSTANTS
  n1 = n1
  n2 = n2
  Nodes = {n1}
  Skew <- OneClock
  Width <- TableWidths
  Every <- TablePeriods
  PruneEvery = 3
  Retention <- Retentions
  QueueSize = 2
  Patience = 1
  Stall = 1
  MaxTime = 10
  MaxSamples = 3
  MaintainTime = 0
  MaxFaults = 0
CHECK_DEADLOCK FALSE
INVARIANT
  MaintainIsIdempotent
