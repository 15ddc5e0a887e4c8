SPECIFICATION ReadySpec
CONSTANTS
  p1 = p1
  p2 = p2
  Probes = {p1, p2}
  PriceStale = 1
  KeeperStale = 3
  Backoff = 4
  CycleCap = 1
  TTL = 1
  CheckCap = 1
  RequestCap = 2
  Tries = 2
CHECK_DEADLOCK FALSE
PROPERTY ReadyAgain
