SPECIFICATION FairSpec
CONSTANTS
  Paths = {0}
  ParamValues <- Defaults
  HotParams = {"unmute"}
  Faults = {"refuse", "timeout"}
  MaxFaults = 3
INVARIANTS
  UpIffWanted
  NothingHeld
  NoOops
PROPERTIES
  CallsReturn
