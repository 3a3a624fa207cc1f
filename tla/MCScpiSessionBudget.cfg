SPECIFICATION Spec
CONSTANTS
  Threads = {t1, t2}
  NoThread = NoThread
  Attempts = 3
  MaxCalls = 2
  RefusalFaults = TRUE
PROPERTIES
  BudgetSurvivesRecovery
CHECK_DEADLOCK TRUE
