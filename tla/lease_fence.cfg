SPECIFICATION Spec
CONSTANTS
  a = a
  b = b
  m1 = m1
  m2 = m2
  None = None
  Clients = {a, b}
  Machines = {m1, m2}
  Home <- MCHome
  TTL <- MCTTL
  MarginCP = 3
  MarginAgent = 1
  Threshold = 1
  Skew <- MCSkew
  MaxSkew = 1
  MaxDelay = 1
  MaxLag = 1
  MaxLost = 1
  MaxFaults = 1
  MaxTime = 6
  MaxGrants = 2
CHECK_DEADLOCK FALSE
INVARIANTS
  TypeOK
  Fenced
  NoOrderPastExpiry
