SPECIFICATION EchoFairSpec
CONSTANTS
  Addrs = {a1, a2}
  MaxConns = 3
  MaxReqs = 2
  MaxCasts = 1
INVARIANT EchoesRight
PROPERTY AllDespatched
CHECK_DEADLOCK FALSE
