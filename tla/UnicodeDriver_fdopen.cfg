CONSTANTS
    spec = spec
    tar = tar
    txt = txt
    SPEC <- spec
    SourceList <- MC_SourceList
    TextSources <- MC_TextSources
    SysMayFail = TRUE
    FdopenMayFail = TRUE
    ChildMayCrash = TRUE
    MkdirMayFail = TRUE
    ExtractMayFail = TRUE
    PipeCap = 1
    MaxOut = 2
SPECIFICATION Spec
INVARIANT VerdictMatchesReport
PROPERTY DriverTerminates
