CONSTANTS
  r1 = r1
  r2 = r2
  c1 = c1
  c2 = c2
  Relays = {r1, r2}
  Conns = {c1, c2}
  MayRetry = TRUE
  None = None
SPECIFICATION LifecycleSpec
INVARIANT NothingIsStranded
CHECK_DEADLOCK FALSE
