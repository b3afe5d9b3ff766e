SPECIFICATION Spec
CONSTANTS
    Clients = {p1, p2}
    Names = {none, n}
    NoName = none
    Data = {empty, d}
    NoData = empty
    MaxOids = 3
    Faults = {"find", "write", "reply"}
SYMMETRY ProcessSymmetry
INVARIANTS
    TypeOK
    NamesBounded
PROPERTIES
    OnlyOwnDocument
    StaleDestroyHarmless
