SPECIFICATION FairSpec
CONSTANTS
  MaxConns = 2
  MaxGen = 1
  MaxFlight = 1
  OutCap = 1
INVARIANTS
  HeardIsReached
PROPERTIES
  SnapshotArrives
  ReachableSettles
  GenerationHeard
  WatcherSees
