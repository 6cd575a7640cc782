SPECIFICATION FairSpec
CONSTANTS
  kInitRetryDelay = 1
  kMaxRetryDelay = 7
  MaxCalls = 3
INVARIANTS
  EachSocketOnce
  CarefulUseIsSafe
  NeverForgotten
PROPERTY
  Connects
CHECK_DEADLOCK FALSE
