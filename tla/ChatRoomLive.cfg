SPECIFICATION FairSpec
CONSTANTS
  Person = {p1, p2}
  Nickname = {ann}
  NoName = NoName
  Junk = Junk
  NoEntry = NoEntry
  MaxRecent = 2
  MaxSay = 3
PROPERTIES KeepsPromise Reaped Delivered
CHECK_DEADLOCK FALSE
