SPECIFICATION Spec
CHECK_DEADLOCK FALSE
CONSTANTS
  Play = {p1, p2}
  NoPlay = NoPlay
  Op = {}
  MaxGen = 2
  MaxSeq = 0
  MaxJoin = 2
PROPERTIES
  JoinsIncrease
  PlayHandedOver
