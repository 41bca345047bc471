SPECIFICATION Spec
CONSTANTS
  p1 = p1
  p2 = p2
  p3 = p3
  g1 = g1
  g2 = g2
  unknown = unknown
  Procs = {p1, p2, p3}
  Pids = {1, 2}
  Pid <- PidOf
  Gpus = {g1, g2, unknown}
  NoUuid = unknown
  Unreadable = {p1, p2}
  Calls = 3
  Gpu <- GpuOf
  Graphics = {2}
  Uses <- OnGpus
  Intervals = {1, 2}
  Longest = 2
  Refresh = 1
  Slow = 0
  MaxTime = 4
  MaxFaults = 1
CHECK_DEADLOCK FALSE
SYMMETRY OfOnePid
INVARIANTS
  TypeOK
  ReportIsFresh
  SteadyListingIsExact
PROPERTY
  KeepsPromise
