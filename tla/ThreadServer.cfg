SPECIFICATION Spec
CONSTANTS
  Conn = {c1, c2, c3}
  Nobody = Nobody
  ConnectionSize = 3
  MaxSay = 2
SYMMETRY Symmetry
INVARIANTS Registered ExactlyOnce
CONSTRAINT Intact
CHECK_DEADLOCK FALSE
