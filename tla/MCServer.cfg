SPECIFICATION FairSpec
CONSTANTS
  Addrs = {a1, a2}
  Senders = {s1}
  MaxConns = 2
  MaxMsgs = 3
INVARIANTS NoUseAfterFree ClientsAgree FreedOnce SentAsAsked
PROPERTY ShutsDown
CHECK_DEADLOCK FALSE
