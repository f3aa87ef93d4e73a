SPECIFICATION FairSpec
CONSTANTS
  r1 = r1
  r2 = r2
  r3 = r3
  MaxConns = 2
  MaxFlight = 2
  SendCap = 1
  PartCap = 1
  MaxTransfers = 1
  Requests = {r1, r2, r3}
  Reaps = {r3}
  Parts <- PartsOf
INVARIANT TypeOK
PROPERTY NothingLeaks
CHECK_DEADLOCK FALSE
