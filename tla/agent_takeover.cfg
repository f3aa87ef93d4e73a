SPECIFICATION Spec
CONSTANTS
  d1 = d1
  d2 = d2
  v1 = v1
  v2 = v2
  v3 = v3
  c1 = c1
  c2 = c2
  None = None
  Artifacts <- MCArtifacts
  Configs <- MCConfigs
  History <- Change
  AutoRollback = TRUE
  HasProbe = FALSE
  MaxCrashesInWindow = 1
  Faults <- NoFault
  MaxFaults = 0
  MaxRestarts = 1
  Patient = TRUE
CHECK_DEADLOCK FALSE
PROPERTIES
  DrainsOnlyOnOrder

