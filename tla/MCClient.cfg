\* The third id is too wide for the field OnMsg parses: it reads 3 as 1.
SPECIFICATION Spec
CONSTANTS
  Callers = {c1, c2}
  MaxId = 3
  IdLimit = 3
  Radix = 3
  MaxMsgs = 2
SYMMETRY CallerSymmetry
INVARIANTS CallsSound OwnReply EachMessageOnce
CHECK_DEADLOCK FALSE
