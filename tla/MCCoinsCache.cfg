SPECIFICATION Spec
CONSTANTS
    OutPoints = {o1, o2}
    Coins = {c1, c2}
    Blocks = {b1, b2}
    Spent = Spent
    Null = Null
    NotCached = NotCached
INVARIANTS
    FlagsInv
    NoLogicError
PROPERTIES
    RefinesLayers
SYMMETRY Symmetry
