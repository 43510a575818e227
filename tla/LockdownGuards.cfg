SPECIFICATION Spec
CONSTANTS
  NoEndpoints = none
  Allowlists = {none}
  NoGuards = off
  Guards = {off, on}
  Thresholds = {1, 2}
  CounterCap = 2
  FirewallMayRefuse = FALSE
INVARIANT GuardsInForce
