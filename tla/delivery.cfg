SPECIFICATION FairDelivery
CONSTANTS
  d1 = d1
  d2 = d2
  c1 = c1
  None = None
  Digests = {d1, d2}
  Callers = {c1}
  MaxRequests = 2
  Outright <- SecondOutright
  MaxRestarts = 1
  MaxDeploys = 2
  MaxCrashes = 1
  Deployed = d1
  Calm = TRUE
CHECK_DEADLOCK FALSE
INVARIANTS
  DeliveryOK
  RefsStand
  RunsAsOrdered
PROPERTIES
  EventuallyDecided
