SPECIFICATION FairSpec
CONSTANTS
  Readers = {"r1", "r2", "r3"}
  Callers = {"c1", "c2"}
  Casts <- Five
  READERS_MAX = 2
  MaxCmds = 1
  MaxShort = 1
INVARIANTS
  ReportSound
  OkMeansReport
PROPERTIES
  CallsReturn
  ShutdownEnds
CHECK_DEADLOCK FALSE
