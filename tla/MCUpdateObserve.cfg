CONSTANTS
    Install = {i1, i2, i3}
    Client = {c1, c2}
    Helper = {h1}
    None = None
    Torn = Torn
SPECIFICATION Spec
SYMMETRY Symmetry
INVARIANTS
    PredecessorAlwaysKept
