SPECIFICATION Spec
CONSTANTS
  Drain = 3
  MaxRequests = 2
  LoopsDie = FALSE
CHECK_DEADLOCK FALSE
INVARIANT ServesUntilAsked
