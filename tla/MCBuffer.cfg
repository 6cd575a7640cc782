SPECIFICATION Spec
CONSTANTS
  zero = zero
  x = x
  y = y
  Bytes <- MCBytes
  Zero = zero
  CheapPrepend = 1
  InitialSize = 2
  ExtraSize = 2
  MaxChunk = 3
  MaxContent = 4
INVARIANTS
  AssertsHold
PROPERTIES
  IsByteQueue
  GrowsByNeed
