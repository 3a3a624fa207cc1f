SPECIFICATION Spec
CONSTANTS
  Threads = {t1, t2}
  Phrases = {right, wrong}
  Phrase = right
  MaxEpoch = 2
  MaxBlocks = 2
SYMMETRY Symmetry
INVARIANTS
  UnlockedIffConfirmed
  GuardInv
PROPERTIES
  ImplementsContract
CHECK_DEADLOCK TRUE
