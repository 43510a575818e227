SPECIFICATION FairWatchSpec
CONSTANTS
  p1 = p1
  p2 = p2
  vpn = vpn
  unguarded = unguarded
  ProxyList <- OneProxy
  Tunnels = {}
  MaxAllowlist = 32
  NoProxy = none
  WatchPolicies <- Verified
  NoEndpoints = {}
  Allowlists <- AllAllowlists
  NoGuards = unguarded
  Guards = {unguarded}
  Thresholds = {2}
  CounterCap = 2
  FirewallMayRefuse = FALSE
PROPERTY NothingToWatchTrips
