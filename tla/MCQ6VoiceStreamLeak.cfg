SPECIFICATION Spec
CONSTANTS
  Paths = {0}
  ParamValues <- OwnStream
  HotParams = {}
  Faults = {"refuse", "timeout"}
  MaxFaults = 1
INVARIANTS
  StreamDetached
