SPECIFICATION FairThreadSpec
CONSTANTS
  main = main
  other = other
  child1 = child1
  f1 = f1
  f2 = f2
  sock = sock
  Creator = main
  LoopThread = child1
  Threads <- MCThreads
  Functors <- MCFunctors
  IoChannels <- MCIoChannels
PROPERTY
  DestructorReturns
CHECK_DEADLOCK FALSE
