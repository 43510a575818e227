SPECIFICATION ProfileSpec
CONSTANTS
  lan = lan
  web = web
  Files <- MCFiles
  Queries <- Conns
  MaxHops = 2
  MaxEdits = 5
INVARIANTS IdsNeverCollide RoutesAreMeant
PROPERTIES RemovalsNeverReroute
CHECK_DEADLOCK FALSE
