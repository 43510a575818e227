SPECIFICATION HistSpec
CONSTANTS
  NoEndpoints = none
  Allowlists = {none, proxy}
  NoGuards = off
  Guards = {off, on}
  Thresholds = {1, 2}
  CounterCap = 3
  FirewallMayRefuse = TRUE
INVARIANTS BlockingLabelIsTrue NoStrandedRules LabelFollowsPolicy
PROPERTY ImplementsHysteresis
