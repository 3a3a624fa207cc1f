SPECIFICATION FairSpec
CONSTANTS
  Threads = {t1}
  NoThread = NoThread
  MaxCalls = 4
  Backends = {"udp", "serial", "visa"}
  MaxSize = 2
  Length = 2
  MaxReply = 3
  Timeout = 1
  MaxRequests = 2
  MaxQueue = 2
  DrainBudget = 2
  ChunkSize = 1
INVARIANTS
  BackendsInv
  DrainedBeforeAsking
  BufferEmptyWhenFree
PROPERTIES
  
  WholeReply
  ImplementsContract
  CallsEnd
CHECK_DEADLOCK TRUE
