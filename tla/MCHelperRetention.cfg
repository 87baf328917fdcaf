SPECIFICATION Spec
SYMMETRY Symmetry
CONSTANTS
  Copy = {k1, k2, k3}
  Helper = {h1}
  Worker = Worker
  Other = Other
  Client = Client
  None = None
INVARIANTS
  TypeOK
  HeldPresent
PROPERTY
  WindowKept
