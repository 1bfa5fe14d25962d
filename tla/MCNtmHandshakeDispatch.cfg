SPECIFICATION Spec
CONSTANTS
  c1 = c1
  c2 = c2
  c3 = c3
  Clients = {c1}
  LastPort = 2
  LastClientPort = 1
  BindPorts = {2}
  BacklogSize = 1
  MaxCalls = 1
  FinIds = {0, 1}
INVARIANT DispatchedFirst
CHECK_DEADLOCK FALSE
