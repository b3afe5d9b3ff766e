SPECIFICATION Spec
CONSTANTS
    Byte <- MCByte
    Continuation <- MCContinuation
    Strings <- MCStrings
    Columns <- MCColumns
    LineNos <- MCLineNos
    UIntMod = 16
    MaxFields = 3
    MaxBytes = 3
INVARIANT StartsBeforeEnd
