SPECIFICATION Spec
CONSTANTS
  m1 = m1
  m2 = m2
  Messages <- MCMessages
  Units = 2
INVARIANT
  UpdatesRegistered
CHECK_DEADLOCK FALSE
