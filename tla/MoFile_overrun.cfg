CONSTANTS
    ByteBase = 4
    HostOrder = "LE"
    Catalogs <- MC_Crafted
    OpenMayFail = FALSE
    CloseMayFail = FALSE
    NULL = NULL
SPECIFICATION Spec
INVARIANT NoHeapOverrun
