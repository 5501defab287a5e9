SPECIFICATION Spec
CONSTANTS
  Paths = {0}
  ParamValues <- CallSay
  HotParams = {"playback_port"}
  Faults = {}
  MaxFaults = 0
INVARIANTS
  PlaybackStopped
