SPECIFICATION Spec
CONSTANTS
  BASE = 4
  MaxLimbs = 3
  OtherLimbs = 1
  ExpLimbs = 1
INVARIANTS ModRight
CHECK_DEADLOCK FALSE
