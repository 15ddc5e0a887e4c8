SPECIFICATION PartsSpec
CONSTANTS
  orders = orders
  deposits = deposits
  k1 = k1
  k2 = k2
  k3 = k3
  Lists = {orders, deposits}
  Key = {k1, k2, k3}
  Initial <- MixedLists
  always = always
  moving = moving
  Tokens = {always, moving}
  MaxInt = 20300
  Medians <- TwoMedians
  Threshold <- TwoThresholds
  StaleAfter <- TwoStaleAfter
  Heartbeat = 1
  CycleTimeout = 1
  MaxLive = 2
  Horizon = 3
  MaxSeq = 4
  MaxCalls = 3
  Faults = {"lost_answers", "other_user", "lagging_node", "cycle_timeout"}
INVARIANT PublishedClose
INVARIANT DriftEnds
INVARIANT AgeBounded
INVARIANT NoGap
INVARIANT BadSeqExplained
INVARIANT FetchedSparingly
PROPERTY EachKeyOnce
