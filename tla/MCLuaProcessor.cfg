SPECIFICATION Spec
CONSTANTS
    ByteMod = 32
    MaxShortLen = 1
    Functions <- MCFunctions
    Units <- Unit
    Blocks <- StrippedDump
    ReadBack <- Undump
    Meaning <- Stripped
    MaxArgs = 2
    MaxResults = 1
    MaxHeight = 2
    WriterFails = TRUE
INVARIANTS
    TypeOK
    CompiledChunkReadsBack
    OnlyWholeChunksRun
    StackKept
