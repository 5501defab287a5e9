SPECIFICATION FairSpec
CONSTANTS
  Pors = {TRUE, FALSE}
  MaxSuspends = 2
  MaxTouches = 1
  MaxFaults = 1
INVARIANTS
  ResetSound
  ChipFollows
  NothingNoted
PROPERTIES
  CallsReturn
CHECK_DEADLOCK FALSE
