SPECIFICATION Spec
CONSTANTS
  BASE = 4
  MaxLimbs = 4
  OtherLimbs = 3
  ExpLimbs = 2
INVARIANT CalcRight
PROPERTY PowersRight
CHECK_DEADLOCK FALSE
