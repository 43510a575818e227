SPECIFICATION RedirectSpec
CONSTANTS
  Capacity = 1
  TTL = 1
  Ports = {pa, pb}
  NoPort = port0
  Dsts = {x, y}
  NoDst = dst0
  Lag = 1
  MaxTime = 3
  MaxPending = 1
  PendingTTL = 2
  MaxConns = 1
  FailClosed = TRUE
  RecyclePorts = FALSE
  MaxOpens = 3
INVARIANT RegistrationsAreRight
PROPERTIES LiveFlowsStayRedirected
SYMMETRY Symmetric
CHECK_DEADLOCK FALSE
