SPECIFICATION DriversSpec
CONSTANTS
  RING = 17
  HALF = 1
  MARGIN = 1
  CLUSTER = 1
  MIN_OUTLIERS = 2
  STRONG = 3
  MAX_BURST = 4
  PHASE_TOL = 3
  PRED_HALF = 2
  DELAY = 8
  P_INIT = 8
  P_MIN = 6
  P_MAX = 10
  MAX_BLANKS = 2
  MaxFrames = 46
  CPUs = {0, 1}
  CpuRates = {3, 11, 22}
  L2Map <- MCL2Map
  MaxChanges = 3
  MaxRefusals = 1
  NCLKS = 2
  CXO = 100
  DivRates = {1, 7, 48, 200}
  MaxUsers = 2
  MaxDivFaults = 1
  HEIGHT = 4
  EXPOSURE_MARGIN = 2
  EXPOSURE_DEFAULT = 3
  VBlanks = {1, 2, 4}
  VBlankDefault = 2
  MaxCamFaults = 2
  AdcReadings = {0, 100000, 71667, 138000, 362334}
  MaxPanelFaults = 2
  RxPorts = {"r1", "r2"}
  TxPorts = {"t1"}
  Aifs = {1, 2}
  Streams <- MCStreams
  MaxMoves = 3
  MaxOpens = 2
  MaxSlimFaults = 1
  PowBoards <- MCPowBoards
  MaxClshUsers = 3
  CardLinks <- MCCardLinks
  MaxCardFaults = 2
INVARIANTS
  RepairSound
  Anchored
  L2Serves
  DivServes
  CamShows
  CamReleased
  PanelSequenced
  SlimRouted
  SlimStreams
  PowServes
  PowReleased
  CardClocked
PROPERTIES
  InTime
  PredictedInTime
CHECK_DEADLOCK FALSE
