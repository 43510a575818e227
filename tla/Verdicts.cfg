SPECIFICATION FairVerdictsSpec
CONSTANTS
  InboxMax = 2
  RingSize = 2
  MaxFlows = 4
  MaxEdits = 2
INVARIANT VerdictsAreSound
PROPERTY EditsTakeEffect
