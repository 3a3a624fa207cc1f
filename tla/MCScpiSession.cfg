SPECIFICATION Spec
CONSTANTS
  Threads = {t1, t2}
  NoThread = NoThread
  Attempts = 3
  MaxCalls = 2
  RefusalFaults = TRUE
SYMMETRY Symmetry
INVARIANTS
  SessionInv
  NoWaitCycle
  NoLockAsleep
  CheckedWhenUsable
  IdentityIsCurrent
  HealthIsCurrent
CHECK_DEADLOCK TRUE
