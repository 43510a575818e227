CONSTANTS
  Creds = {"none", "short"}
  Chains <- McChains
  Timeout = 2
  MaxAddresses = 2
  Attempts = 2
  StatusLine = 3
  None = None
SPECIFICATION DialSpec
INVARIANTS
  OkMeansTunnel
  TunnelStartsClean
  FailuresAreReal
  DialIsBounded
CHECK_DEADLOCK FALSE
