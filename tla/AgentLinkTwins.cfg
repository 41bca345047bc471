SPECIFICATION Spec
CONSTANTS
  a1 = a1
  a2 = a2
  n1 = n1
  Agents = {a1, a2}
  Nodes = {n1}
  NodeOf <- TwinAgents
  NoAgent = NoAgent
  NoRuntime = NoRuntime
  Refreshes = {2, 10}
  Processes = {}
  MinProcess = 2
  DefaultSettings <- Start
  MaxConns = 3
  MaxSamples = 2
  MaxBeats = 1
  MaxUpdates = 0
  MaxFaults = 1
CHECK_DEADLOCK FALSE
INVARIANTS
  TypeOK
  ConnectedWhileServed
  OwnerNeverRejected
  NewestReachesOwner
PROPERTY
  ImplementsRegistry
