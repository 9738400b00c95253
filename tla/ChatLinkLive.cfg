SPECIFICATION FairLinkSpec
CONSTANTS
  HelloParts = 2
  FrameParts = 2
  MaxLines = 2
  MaxFrames = 3
  Buffer = 1
  MaxOthers = 1
PROPERTIES EndToEnd ClientIsFair WindsUp
CHECK_DEADLOCK FALSE
