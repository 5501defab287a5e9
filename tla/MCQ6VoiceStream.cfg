SPECIFICATION Spec
CONSTANTS
  Paths = {0, 2}
  ParamValues <- Optional
  HotParams = {"voice_path"}
  Faults = {"refuse"}
  MaxFaults = 1
INVARIANTS
  PlaybackStopped
PROPERTIES
  InOrder
CHECK_DEADLOCK FALSE
