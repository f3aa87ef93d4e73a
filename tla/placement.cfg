SPECIFICATION FairSpec
CONSTANTS
  a = a
  b = b
  v = v
  x1 = x1
  x2 = x2
  c1 = c1
  c2 = c2
  w1 = w1
  w2 = w2
  p1 = p1
  p2 = p2
  p3 = p3
  None = None
  Strategies = {a, b}
  Volumes = {v}
  Arts = {x1, x2}
  Callers = {c1}
  Workers = {w1, w2}
  Pids = {p1, p2, p3}
  StoredVolumes = {v}
  StoredSpecs <- OneOnOne
  StoredSlots = {a, b}
  Rooted = {b}
  Offered <- OnVOrBeside
  VerbKinds = {"ApplyAssignment", "Deploy", "Rollback", "Stop", "Start", "SetSchedule", "Undeploy", "CreateVolume", "DeleteVolume", "ReapStrategies"}
  MaxEvents = 3
  Haste = {}
PROPERTIES
  Converges
INVARIANTS
  TypeOK
  Placed
  OneWriter
  StandsOnDisk
