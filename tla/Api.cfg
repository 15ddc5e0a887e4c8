SPECIFICATION Spec
CONSTANTS
  p1 = p1
  p2 = p2
  Probes = {p1, p2}
  PriceStale = 1
  KeeperStale = 3
  Backoff = 4
  CycleCap = 1
  TTL = 1
  CheckCap = 1
  RequestCap = 2
  Tries = 2
  c1 = c1
  c2 = c2
  Clients = {c1, c2}
  a1 = a1
  a2 = a2
  Attempts = {a1, a2}
  MaxFailures = 2
  Window = 2
  MaxTracked = 1
  MaxLag = 1
  q1 = q1
  q2 = q2
  Requests = {q1, q2}
  Tokens = 1
  MaxPriceCycles = 1
  MaxSourceFaults = 1
  MaxServed = 2
  MaxCycles = 2
  MaxRecords = 1
  Reads = 2
CHECK_DEADLOCK FALSE
INVARIANT ProbesCoalesced
INVARIANT GuessesBounded
INVARIANT BlockEnds
INVARIANT ScrapeConsistent
INVARIANT GaugeAccounted
INVARIANT NoBoundaryCrossed
PROPERTY BudgetKept
PROPERTY ReadySound
PROPERTY ScrapeEnds
