SPECIFICATION ProfileSpec
CONSTANTS
  lan = lan
  web = web
  Files <- VpnFiles
  Queries <- Conns
  MaxHops = 2
  MaxEdits = 5
INVARIANTS IdsNeverCollide
CHECK_DEADLOCK FALSE
