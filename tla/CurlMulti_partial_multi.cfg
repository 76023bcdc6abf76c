CONSTANTS
    N = 2
    InitMayFail = FALSE
    OpenMayFail = FALSE
    MultiMayFail = TRUE
    FlushMayFail = FALSE
    UnlinkMayFail = FALSE
    MaxRepeats = 2
SPECIFICATION Spec
INVARIANT NoPartialArtifact
