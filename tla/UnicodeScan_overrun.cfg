CONSTANTS
    Alphabet <- MC_WithNUL
    MaxLen = 3
    ForbiddenCodepoints <- MC_ForbiddenRLO
    BufSize = 2
    ReallocMayFail = FALSE
SPECIFICATION Spec
INVARIANT NoBufferOverrun
