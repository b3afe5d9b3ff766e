SPECIFICATION Spec
CONSTANTS
    Byte <- MCByte
    Continuation <- MCContinuation
    UIntMod = 16
    Chars <- MCChars
    Utf8 <- MCUtf8
    Latin1 <- MCLatin1
    Nul = "l"
    Newline = "l"
    Strings <- MCStrings
    KeyText <- MCKeyText
    KeysFiltered = TRUE
    MaxLines = 2
    MaxChars = 2
    MaxSelected = 1
    MaxFields = 2
    MaxBytes = 2
INVARIANT TypeOK
PROPERTIES
    TitlesImmutable
    AgreementKept
    TitleTextKept
