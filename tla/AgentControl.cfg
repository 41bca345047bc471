SPECIFICATION Spec
CONSTANTS
  r1 = r1
  r2 = r2
  p1 = p1
  p2 = p2
  p3 = p3
  Runs = {r1, r2}
  Pids = {p1, p2, p3}
  NoPid = NoPid
SYMMETRY Symmetric
INVARIANTS
  TypeOK
  OneAgent
  AgentIsOnFile
PROPERTY
  StopLeavesNone
