SPECIFICATION NatSpec
CONSTANTS
  Capacity = 2
  TTL = 1
  Ports = {pa, pb, pc}
  NoPort = port0
  Dsts = {x, y}
  NoDst = dst0
  Lag = 1
  MaxTime = 3
INVARIANT OneMappingPerPort
PROPERTIES LiveMappingsSurvive ImplementsPromise
SYMMETRY Symmetric
