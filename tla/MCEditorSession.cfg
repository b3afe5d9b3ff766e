SPECIFICATION Spec
CONSTANTS
    MaxEditors = 3
    MaxObjects = 3
CHECK_DEADLOCK FALSE
INVARIANTS
    TypeOK
    FaultsExplained
    EndsClean
PROPERTY CloseEnds
