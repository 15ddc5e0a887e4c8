SPECIFICATION FairSpec
CONSTANTS
  SendAttempts = 3
  PollAttempts = 6
CHECK_DEADLOCK FALSE
INVARIANT TimeoutMeansAccepted
INVARIANT FreesOnlySettled
PROPERTY Implements
PROPERTY Reported
