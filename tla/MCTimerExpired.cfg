SPECIFICATION Spec
CONSTANTS
  owner = owner
  other = other
  none = none
  a = a
  b = b
  Owner = owner
  Threads <- MCThreads
  Timers <- MCTimers
  MaxDelay = 2
  None = none
INVARIANT
  ExpiredAreActive
CHECK_DEADLOCK FALSE
