SPECIFICATION WatchSpec
CONSTANTS
  p1 = p1
  p2 = p2
  vpn = vpn
  unguarded = unguarded
  ProxyList <- OneProxy
  Tunnels = {vpn}
  MaxAllowlist = 1
  NoProxy = none
  WatchPolicies <- Optimistic
  NoEndpoints = {}
  Allowlists <- AllTunnelAllowlists
  NoGuards = unguarded
  Guards = {unguarded}
  Thresholds = {2}
  CounterCap = 2
  FirewallMayRefuse = FALSE
INVARIANT TunnelsStayReachable
