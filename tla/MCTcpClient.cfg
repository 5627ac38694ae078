SPECIFICATION FairSpec
CONSTANTS
  Senders = {s1, s2}
  MaxMsgs = 3
  MaxReads = 2
INVARIANTS AfterConnecting NothingOutlives
PROPERTIES IsLossyFifo ShutsDown
CHECK_DEADLOCK FALSE
