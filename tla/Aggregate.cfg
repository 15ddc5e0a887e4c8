SPECIFICATION PricingSpec
CONSTANTS
  Sources = {1, 2, 3, 4}
  Prices = {10070, 10090, 10416, 10459, 11200}
  MinSources = {1, 3}
  MaxDeviations = {100, 200, 1200}
  Base = 2
  Scale = 2
  MaxInt = 31
  WholeDigits = 5
  FracDigits = 3
  Skew = 1
  StaleAfter = 2
  MaxConfidence = 5000
  Now = 4
CHECK_DEADLOCK FALSE
INVARIANT ClusterIsBest
INVARIANT MinorityPowerless
INVARIANT DeviationBounded
INVARIANT BandCoversSources
INVARIANT QuoteExact
