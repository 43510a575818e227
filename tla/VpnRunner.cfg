SPECIFICATION FairVpnSpec
CONSTANTS
  i1 = i1
  i2 = i2
  i3 = i3
  i4 = i4
  o1 = o1
  o2 = o2
  w1 = w1
  w2 = w2
  home = home
  Ids = {i1, i2, i3}
  Configs = {o1, o2, w1}
  File <- Files3
  OpenVpn = {o1, o2}
  Service <- Services
  MaxTracked = 2
  PortBase = 1
  Pids <- Children
  PipeSize = 1
  MaxOutput = 2
  MaxTurns = 2
  None = None
INVARIANTS LabelsAreTrue ClientsAreTracked StatusIsOwn CommandsAreNotCutShort
PROPERTIES EndsAreNoticed
