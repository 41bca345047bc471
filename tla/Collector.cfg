SPECIFICATION FairSpec
CONSTANTS
  Refreshes <- RefreshTicks
  Processes <- ProcessTicks
  MinProcess = 2
  Longest = 4
  Never = Never
  NoSampler = NoSampler
INVARIANTS
  TypeOK
  CadenceFollowsSettings
  SleepFollowsSettings
  NoSnapshotWaits
PROPERTY
  SamplingGoesOn
