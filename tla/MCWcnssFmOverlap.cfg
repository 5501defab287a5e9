SPECIFICATION Spec
CONSTANTS
  Files = {f1, f2}
  Plain = {"TUNE"}
  Overlap = TRUE
  MaxSends = 4
  MaxLate = 5
INVARIANTS
  OnWhileOpen
CHECK_DEADLOCK FALSE
