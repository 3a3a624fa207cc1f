SPECIFICATION FairSpec
CONSTANTS
  Threads = {t1, t2}
  NoSession = NoSession
  NoKey = NoKey
  Sessions <- MCSessions
  Names <- MCNames
  Key <- MCKey
  AliasOf <- MCAliasOf
  MaxRegistrations = 4
INVARIANTS
  ActiveIsRegistered
  RegistrationEndsOnce
PROPERTIES
  TakenOutIsClosed
CHECK_DEADLOCK TRUE
