SPECIFICATION FairSpec
CONSTANTS
  a1 = a1
  a2 = a2
  n1 = n1
  Agents = {a1}
  Nodes = {n1}
  NodeOf <- OneAgent
  NoAgent = NoAgent
  NoRuntime = NoRuntime
  Refreshes = {2, 10}
  Processes = {1}
  MinProcess = 2
  DefaultSettings <- Start
  MaxConns = 3
  MaxSamples = 2
  MaxBeats = 0
  MaxUpdates = 1
  MaxFaults = 2
CHECK_DEADLOCK FALSE
INVARIANT
  ConfigReachesLink
PROPERTIES
  SettingsArrive
  SamplesArrive
