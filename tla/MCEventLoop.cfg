SPECIFICATION FairSpec
CONSTANTS
  t1 = t1
  t2 = t2
  owner = owner
  f1 = f1
  f2 = f2
  f3 = f3
  sock = sock
  Threads <- MCThreads
  LoopThread = owner
  Functors <- MCFunctors
  IoChannels <- MCIoChannels
INVARIANTS
  TypeOK
  NoLostWakeup
PROPERTIES
  RunsInOrder
  QueuedRuns
  QuitStops
