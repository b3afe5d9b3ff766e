SPECIFICATION InstallSpec
CONSTANTS
    Clients = {w1, w2}
    Names = {none, a, b}
    NoName = none
    Data <- MCData
    NoData = empty
    MaxOids = 2
    Faults = {"find", "write", "reply"}
    Versions = {v1, v2}
    Truncated = truncated
SYMMETRY WindowSymmetry
INVARIANTS
    InstallTypeOK
    StoredIsCompiled
PROPERTIES
    SuccessIsTrue
    ReplacedByConsent
