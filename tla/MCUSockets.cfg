SPECIFICATION Spec
CONSTANTS
  Blocks = {b1, b2, b3}
  Contexts <- ContextList
  NULL = NULL
  MaxTimeout = 1
  MaxTimed = 1
  MaxUntold = 1
  MaxReady = 2
SYMMETRY Symmetry
INVARIANTS ListsSound EventsReachMemory
PROPERTIES SweepExact
CHECK_DEADLOCK FALSE
