SPECIFICATION Spec
CONSTANTS
  spot = spot
  pegged = pegged
  Tokens = {spot, pegged}
  Sources <- TwoSources
  MinSources <- TwoMinSources
  StaleAfter = 2
  PublishAges <- NowOrAhead
  Interval = 1
  CycleTimeout = 4
  MaxFutureSkew = 2
INVARIANT StampLagBounded
PROPERTY FreshKept
PROPERTY Recovers
