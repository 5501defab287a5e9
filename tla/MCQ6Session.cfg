SPECIFICATION FairSpec
CONSTANTS
  Sessions = {s1, s2}
  Handles = {h1, h2, h3}
  Cmds = {START, STOP}
  CREATE = CREATE
  DESTROY = DESTROY
  NULL = NULL
  MaxSends = 4
INVARIANTS
  TypeOK
  MemorySafe
  HandleAlive
  OkMeansExecuted
  LeaksAccounted
PROPERTIES
  KeepsContract
  CallsReturn
CHECK_DEADLOCK FALSE
