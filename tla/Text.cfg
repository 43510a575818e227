CONSTANTS
  Lists <- McLists
  Texts <- McTexts
  Specs <- McSpecs
  Ports <- McPorts
  Lower <- McLower
  Value <- McValue
  Files <- McFiles
  LowerCase <- McLowerCase
  MaxEndpoints = 2
  PortBits = 65536
  None = None
  NoValue = NoValue
SPECIFICATION TextSpec
INVARIANTS
  RulesMatchAsMeant
  ImportIsFaithful
CHECK_DEADLOCK FALSE
