SPECIFICATION FairSpec
CONSTANTS
  n1 = n1
  n2 = n2
  Nodes = {n1}
  Skew <- SlowClock
  Width <- MidWidths
  Every <- MidPeriods
  PruneEvery = 3
  Retention <- Retentions
  QueueSize = 1
  Patience = 1
  Stall = 1
  MaxTime = 9
  MaxSamples = 3
  MaintainTime = 0
  MaxFaults = 2
CHECK_DEADLOCK FALSE
INVARIANTS
  TypeOK
  RowsComplete
  CoarseRowsComplete
  WrittenInTime
PROPERTIES
  BucketsAreWritten
  AnswersKeepRows
  ImplementsStore
