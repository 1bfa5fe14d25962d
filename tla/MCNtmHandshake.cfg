SPECIFICATION FairSpec
CONSTANTS
  c1 = c1
  c2 = c2
  c3 = c3
  Clients <- MCClients
  LastPort = 2
  LastClientPort = 1
  BindPorts = {2}
  BacklogSize = 1
  MaxCalls = 3
  FinIds = {0, 1}
INVARIANTS
  TypeOK
  ConnectedBothEnds
  AcceptInOrder
  BacklogHasRoom
  PortsExclusive
PROPERTIES
  ClosedBothEnds
  AcceptedConnectReturns
CONSTRAINT
  UsedInOrder
CHECK_DEADLOCK FALSE
