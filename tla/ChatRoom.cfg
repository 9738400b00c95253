SPECIFICATION Spec
CONSTANTS
  Person = {p1, p2, p3}
  Nickname = {ann, bob}
  NoName = NoName
  Junk = Junk
  NoEntry = NoEntry
  MaxRecent = 1
  MaxSay = 1
SYMMETRY Symmetry
INVARIANTS TypeOK WriteDiscipline NoGap StillRead HonestNames RecentIsWindow
CHECK_DEADLOCK FALSE
