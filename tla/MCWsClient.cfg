SPECIFICATION FairSpec
CONSTANTS
  Socks = {s1, s2}
  AutoReconnect = {s1}
  Wsis = {w1, w2}
  NoSock = NoSock
  NoWsi = NoWsi
  MaxRequests = 2
  MaxConns = 2
  MaxMsgs = 2
INVARIANTS EntriesSound RightConnection NoticeOfLoss StaysClosed
PROPERTIES RequestsTaken
CHECK_DEADLOCK FALSE
