SPECIFICATION BothSpec
CONSTANTS
  a = a
  b = b
  c = c
  d = d
  none = none
  Channels <- MCChannels
  FdOf <- MCFdOf
  NoChannel = none
SYMMETRY MCSymmetry
INVARIANTS
  SlotsMatchChannels
  StructuresAgree
  EpollerInStep
  SameWatched
CHECK_DEADLOCK FALSE
