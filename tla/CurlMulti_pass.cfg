CONSTANTS
    N = 3
    InitMayFail = TRUE
    OpenMayFail = TRUE
    MultiMayFail = TRUE
    FlushMayFail = TRUE
    UnlinkMayFail = TRUE
    MaxRepeats = 2
SPECIFICATION Spec
INVARIANT TypeOK
PROPERTY Termination
PROPERTY FetchBatchSpec
