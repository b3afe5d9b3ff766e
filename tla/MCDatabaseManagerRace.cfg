SPECIFICATION Spec
CONSTANTS
    Clients = {p1, p2}
    Names = {none, n}
    NoName = none
    Data = {empty, d}
    NoData = empty
    MaxOids = 3
    Faults = {}
SYMMETRY ProcessSymmetry
INVARIANT UniqueNames
