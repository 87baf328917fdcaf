SPECIFICATION Spec
CONSTANTS
  RECONNECT_ATTEMPTS = 2
  BackoffUnit = 1
  MaxJitter = 1
  MaxClock = 4
  MaxJoin = 1
  MaxToken = 3
  MaxGeneration = 2
  Lifetime = 2
INVARIANTS
  TypeOK
  NoSilentFreshAccount
  RefusalEndsSelection
