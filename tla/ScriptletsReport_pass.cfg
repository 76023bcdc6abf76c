CONSTANTS
    NumPeers = 2
    Hooks <- MC_Hooks
    Bodies <- MC_Bodies
    MaxLines = 1
    UidWords <- MC_UidWords
    UidValue <- MC_UidValue
    UidBoundary = 1000
    UidMod = 65536
    LongMax = 2147483647
    AllowedUids = {}
    Rebase = FALSE
SPECIFICATION FullSpec
INVARIANTS TypeOK InspectionFollowsTable LintRendersSections
VIEW RenderView
