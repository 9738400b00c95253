SPECIFICATION LiveSpec
CONSTANTS
  Procs = {p1, p2}
  Bits = {2048, 1024}
  None = None
  Empty = Empty
INVARIANTS OwnPair NothingLeft
PROPERTY GetsThrough
CHECK_DEADLOCK FALSE
