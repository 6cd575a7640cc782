SPECIFICATION FairSpec
CONSTANTS
  c1 = c1
  c2 = c2
  c3 = c3
  none = none
  Clients <- MCClients
  Fds <- MCFds
  MaxThreads = 2
  None = none
INVARIANTS
  TypeOK
  DescriptorsApart
  RoundRobin
PROPERTIES
  LivesInOrder
  ClientsAccepted
CHECK_DEADLOCK FALSE
