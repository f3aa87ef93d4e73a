SPECIFICATION FairSpec
CONSTANTS
  d1 = d1
  d2 = d2
  v1 = v1
  v2 = v2
  v3 = v3
  c1 = c1
  c2 = c2
  None = None
  Artifacts <- MCArtifacts
  Configs <- MCConfigs
  History <- Rollout
  AutoRollback = TRUE
  HasProbe = TRUE
  MaxCrashesInWindow = 0
  Faults <- AllFaults
  MaxFaults = 1
  MaxRestarts = 0
  Patient = TRUE
CHECK_DEADLOCK FALSE
INVARIANTS
  TypeOK
  HealthyIsAlive
  DeployOncePerGeneration
  DrainIsExpected
PROPERTIES
  FailedWasTried
  EventuallySettles
  KeepsPromise
