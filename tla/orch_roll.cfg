SPECIFICATION Spec
CONSTANTS
  A = A
  B = B
  m1 = m1
  m2 = m2
  fam = fam
  n1 = n1
  n2 = n2
  n3 = n3
  v1 = v1
  v2 = v2
  t = t
  None = None
  Human = Human
  Sets = {A, B}
  SetOrder <- AFirst
  Machines = {m1, m2}
  Names = {fam, n1, n2, n3}
  SlotOrder <- HalfSlots
  Versions = {v1, v2}
  Templates = {t}
  History <- Rolling
  Verbs <- NoVerbs
  InitSets <- Half0
  InitAssign <- HalfAssign
  MarkLocks = TRUE
  Events <- DeleteFailRestart
  MaxEvents = 1
CHECK_DEADLOCK FALSE
INVARIANTS
  TypeOK
  ClaimsDisjoint
  ReadyIsRolled
PROPERTIES
  RollGated
