SPECIFICATION ReaderSpec
CONSTANTS
  HeadSize = 2
  InitCap = 4
  MaxChunk = 4
  Sizes = {1, 7}
  MaxFrames = 3
INVARIANTS InBounds MessagesIntact NothingWithheld
CHECK_DEADLOCK FALSE
