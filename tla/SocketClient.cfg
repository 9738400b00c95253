SPECIFICATION SocketSpec
CONSTANTS
  MaxLines = 3
  MaxNews = 2
  MaxSent = 4
  MaxAsked = 2
  Sender = {c1, c2}
  Size = 2
  Prefix = 1
  Room = 2
  MaxLine = 3
  MaxTyped = 3
INVARIANTS OneLateLine SentAsTyped DiesOnlyOf StreamRight
PROPERTIES Ends AllShown
CHECK_DEADLOCK FALSE
