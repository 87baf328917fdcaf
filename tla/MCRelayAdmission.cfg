SPECIFICATION Spec
CHECK_DEADLOCK FALSE
CONSTANTS
  TCP = {c1}
  QUIC = {c2}
  Addr = {a1, a2}
  NoAddr = NoAddr
  maxSessions = 2
  maxPerIP = 1
INVARIANTS
  TypeOK
  SlotsExact
  ErasedAfterHandlers
  GuardSparesReady
PROPERTIES
  CloseReturns
  UnreadyReleased
