CONSTANTS
    Install = {i1, i2}
    Client = {c1}
    Helper = {h1}
    None = None
    Torn = Torn
SPECIFICATION LiveSpec
PROPERTY
    StartsInTheEnd
