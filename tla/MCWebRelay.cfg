SPECIFICATION Spec
CHECK_DEADLOCK FALSE
SYMMETRY Symmetry
CONSTANTS
  Addr = {a1, a2}
  Session = {s1, s2}
  Conn = {c1, c2}
  NoSession = NoSession
  NoAddr = NoAddr
  Free = Free
  Expirer = Expirer
  maxSessions = 2
  maxPerIP = 1
  resumeTTL = 1
  idleTTL = 1
  MaxTime = 2
  MaxIssued = 3
INVARIANTS
  TypeOK
  BearersExact
  SoleController
  ControlledAccountKept
  AddressesCounted
  AttachedCounted
