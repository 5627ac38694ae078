SPECIFICATION Spec
CONSTANTS
  Wsis = {w1}
  Lens = {0, 2}
  HeadSize = 1
  Pre = 1
  CacheMax = 6
  CallsBack = TRUE
  MaxConns = 2
  MaxMsgs = 0
  MaxPieces = 2
INVARIANTS WholeMessagesReceived
CHECK_DEADLOCK FALSE
