SPECIFICATION LinkSpec
SYMMETRY Symmetry
CONSTANTS
  Addr = {a1}
  Session = {s1, s2}
  Conn = {c1, c2, c3}
  NoConn = NoConn
  NoSession = NoSession
  NoAddr = NoAddr
  Free = Free
  Expirer = Expirer
  maxSessions = 2
  maxPerIP = 2
  resumeTTL = 1
  idleTTL = 1
  MaxTime = 0
  MaxIssued = 5
  MaxQueue = 2
INVARIANTS
  ConfirmedWasReceived
  SomeBearerKept
PROPERTY
  AcknowledgedBearerKept
