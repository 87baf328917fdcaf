SPECIFICATION Spec
CHECK_DEADLOCK FALSE
CONSTANTS
  Play = {p1}
  NoPlay = NoPlay
  Op = {"sign_in", "sign_out"}
  MaxGen = 2
  MaxSeq = 2
  MaxJoin = 1
INVARIANTS
  TypeOK
  PlayUndisturbed
  CommandIsNewest
  AuthIsCurrent
  NothingLeaks
PROPERTIES
  CloseReturns
