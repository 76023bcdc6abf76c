CONSTANTS
    Alphabet <- MC_Clean
    MaxLen = 5
    ForbiddenCodepoints <- MC_Forbidden
    BufSize = 2
    ReallocMayFail = TRUE
SPECIFICATION Spec
INVARIANT TypeOK
INVARIANT FindingsFollowSpec
PROPERTY LineScannerSpec
