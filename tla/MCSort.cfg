SPECIFICATION SortFairSpec
CONSTANTS
  Size = 4
  Inputs <- HardInputs
  MaxSpurious = 1
INVARIANTS PhasesApart SnakeSorted
PROPERTY EndsUnlessStranded
CHECK_DEADLOCK FALSE
