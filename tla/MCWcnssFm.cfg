SPECIFICATION FairSpec
CONSTANTS
  Files = {f1, f2}
  Plain = {"TUNE"}
  Overlap = FALSE
  MaxSends = 5
  MaxLate = 1
INVARIANTS
  OnWhileOpen
  OffWhenClosed
  SearchSound
PROPERTIES
  CallsReturn
  OkMeansExecuted
CHECK_DEADLOCK FALSE
