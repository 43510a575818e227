SPECIFICATION FairWatchSpec
CONSTANTS
  p1 = p1
  p2 = p2
  vpn = vpn
  unguarded = unguarded
  ProxyList <- TwoProxies
  Tunnels = {vpn}
  MaxAllowlist = 2
  NoProxy = none
  WatchPolicies <- DefaultAndOpen
  NoEndpoints = {}
  Allowlists <- AllAllowlists
  NoGuards = unguarded
  Guards = {unguarded}
  Thresholds = {2}
  CounterCap = 2
  FirewallMayRefuse = FALSE
INVARIANT EnforcedWhileArmed
PROPERTIES LabelFollowsThePath EditsReachTheAllowlist
