SPECIFICATION FairSpec
CONSTANTS
  Readers = {"r1"}
  Callers = {"c1"}
  Casts <- Unbind
  READERS_MAX = 2
  MaxCmds = 1
  MaxShort = 0
PROPERTIES
  CompleteTeardown
CHECK_DEADLOCK FALSE
