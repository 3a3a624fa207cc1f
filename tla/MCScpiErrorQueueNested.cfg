SPECIFICATION Spec
CONSTANTS
  Threads = {t1, t2}
  NoThread = NoThread
  Policies <- AllPolicies
  MaximumEntries = 3
  MaxErrors = 2
  MaxCalls = 2
  IoFails = FALSE
SYMMETRY Symmetry
INVARIANTS
  PoppedIsReported
CHECK_DEADLOCK TRUE
