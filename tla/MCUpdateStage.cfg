SPECIFICATION Spec
CONSTANTS
  Build = {1, 2, 3}
  Channel = {{1, 2}, {1, 2, 3}}
  None = None
  Torn = Torn
INVARIANTS
  TypeOK
  StageKept
