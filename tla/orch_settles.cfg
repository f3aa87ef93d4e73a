SPECIFICATION FairSpec
CONSTANTS
  A = A
  B = B
  m1 = m1
  m2 = m2
  fam = fam
  n1 = n1
  n2 = n2
  n3 = n3
  v1 = v1
  v2 = v2
  t = t
  None = None
  Human = Human
  Sets = {A, B}
  SetOrder <- AFirst
  Machines = {m1, m2}
  Names = {fam, n1, n2, n3}
  SlotOrder <- HalfSlots
  Versions = {v1, v2}
  Templates = {t}
  History <- Upgrade
  Verbs <- VerbOnB
  InitSets <- Half0
  InitAssign <- HalfAssign
  MarkLocks = FALSE
  Events <- Kinds
  MaxEvents = 1
CHECK_DEADLOCK FALSE
INVARIANTS
  NoOrphan
PROPERTIES
  Settles
