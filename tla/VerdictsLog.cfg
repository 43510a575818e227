SPECIFICATION VerdictsSpec
CONSTANTS
  InboxMax = 2
  RingSize = 2
  MaxFlows = 2
  MaxEdits = 1
INVARIANT LogSaysWhatWasDone
