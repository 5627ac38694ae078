SPECIFICATION FairSpec
CONSTANTS
  Workers = {w1, w2}
  Committers = {c1, c2}
  MaxTasks = 3
INVARIANTS FirstComeFirstServed NoTaskStranded NoFutureHangs
PROPERTY DtorReturns
CHECK_DEADLOCK FALSE
