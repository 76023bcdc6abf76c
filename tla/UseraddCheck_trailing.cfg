CONSTANTS
    Bodies <- MC_Trailing
    MaxLines = 2
    UidWords <- MC_UidWords
    UidValue <- MC_UidValue
    UidBoundary = 1000
    UidMod = 65536
    LongMax = 2147483647
    AllowedUids <- MC_SomeUids
    Rebase = FALSE
SPECIFICATION Spec
INVARIANT MatchesTable
