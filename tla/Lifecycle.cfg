SPECIFICATION ProcessSpec
CONSTANTS
  Drain = 3
  MaxRequests = 2
  LoopsDie = TRUE
  MaxSlips = 2
  RightTokens <- TwoTokens
  WrongToken <- Mistakes
CHECK_DEADLOCK FALSE
INVARIANT ShutdownBounded
INVARIANT OnePass
INVARIANT AcceptedUsable
PROPERTY LoopsGetTheirStage
