SPECIFICATION LinkSpec
CONSTANTS
  HelloParts = 2
  FrameParts = 3
  MaxLines = 3
  MaxFrames = 2
  Buffer = 2
  MaxOthers = 1
INVARIANTS HeardAsTyped Outstanding
CHECK_DEADLOCK FALSE
