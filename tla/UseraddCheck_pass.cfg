CONSTANTS
    Bodies <- MC_PassBodies
    MaxLines = 4
    UidWords <- MC_UidWords
    UidValue <- MC_UidValue
    UidBoundary = 1000
    UidMod = 65536
    LongMax = 2147483647
    AllowedUids <- MC_SomeUids
    Rebase = FALSE
SPECIFICATION Spec
INVARIANTS TypeOK JoinLoopKeepsWords
