SPECIFICATION FairSpec
CONSTANTS
  Requests <- MCRequests
  MaxRequests = 3
INVARIANTS
  HandledAsSent
  ResponsesDelimited
PROPERTY
  Answered
CHECK_DEADLOCK FALSE
