SPECIFICATION FairSpec
CONSTANTS
  owner = owner
  other = other
  none = none
  a = a
  b = b
  Owner = owner
  Threads <- MCThreads
  Timers <- MCTimers
  MaxDelay = 2
  None = none
INVARIANTS
  TypeOK
  SameTimers
  CancelIsFinal
  ArmedInTime
PROPERTY
  EveryTimerFires
CHECK_DEADLOCK FALSE
