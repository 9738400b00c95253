SPECIFICATION FairSpec
CONSTANTS
  Conn = {c1, c2, c3}
  Nobody = Nobody
  ConnectionSize = 2
  MaxSay = 1
INVARIANTS Limit Sound
PROPERTY Exits
CHECK_DEADLOCK FALSE
