CONSTANTS
  r1 = r1
  r2 = r2
  c1 = c1
  c2 = c2
  Relays = {r1}
  Conns = {c1, c2}
  MayRetry = FALSE
  None = None
SPECIFICATION FairLifecycleSpec
INVARIANTS
  NothingUsedAfterFree
  WinsockHeld
  NothingIsStranded
PROPERTIES
  MainReturns
CHECK_DEADLOCK FALSE
