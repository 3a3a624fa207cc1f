SPECIFICATION FairSpec
CONSTANTS
  Threads = {t1, t2}
  NoThread = NoThread
  MaxCalls = 2
  MaxSize = 2
  MaxReply = 3
  Timeout = 2
INVARIANTS
  ReplyMatchesRequest
  WithinTimeout
  TcpInv
PROPERTIES
  ImplementsContract
  CallsEnd
CHECK_DEADLOCK TRUE
