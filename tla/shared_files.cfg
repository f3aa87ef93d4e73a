SPECIFICATION FairSpec
CONSTANTS
  n1 = n1
  n2 = n2
  d1 = d1
  d2 = d2
  w1 = w1
  w2 = w2
  None = None
  Names = {n1, n2}
  Digests = {d1, d2}
  Workers = {w1, w2}
  BadSources <- OneBadSource
  Snapshots <- SomeSnapshots
  MaxFetches = 1
  Retention = 1
  MaxSnapshots = 3
  MaxFaults = 1
  MaxRestarts = 1
  FaultKinds = {"fetch"}
  Recross = FALSE
INVARIANTS
  TypeOK
  LiveIsComplete
PROPERTIES
  EventuallyLands
  EventuallyReclaimed
CHECK_DEADLOCK FALSE
