SPECIFICATION FairSpec
CONSTANTS
  m1 = m1
  m2 = m2
  Messages <- MCMessages
  Units = 2
INVARIANTS
  TypeOK
  StreamInOrder
  StateAssertsHold
  DestroyedOffPoller
PROPERTIES
  LivesInOrder
  FinAfterBuffer
  CloseIsCompleted
CHECK_DEADLOCK FALSE
