CONSTANTS
    ByteBase = 4
    HostOrder = "LE"
    Catalogs <- MC_Catalogs
    OpenMayFail = TRUE
    CloseMayFail = TRUE
    NULL = NULL
SPECIFICATION Spec
INVARIANT TypeOK
INVARIANT MagicIsFileOrder
INVARIANT ReadsCatalog
