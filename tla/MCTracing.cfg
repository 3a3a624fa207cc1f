SPECIFICATION Spec
CONSTANTS
  Threads = {t1, t2}
  Clients = {c1, c2}
  NoThread = NoThread
  MaxCalls = 3
  MaxDropped = 1
  MaxCommands = 2
SYMMETRY Symmetry
INVARIANTS NoSilentLoss  CommandsAreAwaited
PROPERTIES ClientOrder
CHECK_DEADLOCK FALSE
