SPECIFICATION FairSpec
CONSTANTS
  Threads = {t1, t2}
  NoThread = NoThread
  Attempts = 2
  MaxCalls = 2
  RefusalFaults = FALSE
PROPERTIES
  NeverSilentlyReopens
  OperationsEnd
CHECK_DEADLOCK TRUE
