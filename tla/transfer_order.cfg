SPECIFICATION Spec
CONSTANTS
  r1 = r1
  r2 = r2
  r3 = r3
  MaxConns = 1
  MaxFlight = 2
  SendCap = 2
  PartCap = 1
  MaxTransfers = 1
  Requests = {r1}
  Reaps = {}
  Parts <- PartsOf
INVARIANT DownloadIsWhole
CHECK_DEADLOCK FALSE
