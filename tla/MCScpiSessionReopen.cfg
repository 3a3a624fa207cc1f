SPECIFICATION Spec
CONSTANTS
  Threads = {t1, t2}
  NoThread = NoThread
  Attempts = 3
  MaxCalls = 2
  RefusalFaults = TRUE
PROPERTIES
  NeverSilentlyReopens
CHECK_DEADLOCK TRUE
