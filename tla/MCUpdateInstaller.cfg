CONSTANTS
    Install = {i1, i2}
    Client = {c1, c2}
    Helper = {h1, h2}
    None = None
    Torn = Torn
SPECIFICATION Spec
SYMMETRY Symmetry
INVARIANTS
    TypeOK
    PredecessorKept
    JournalDecides
PROPERTY
    ConfirmedNotUndone
