CONSTANTS
    Widths <- MC_Widths
    Size = 3
    MaxResizes = 2
    SizeMod = 65536
    InitMayFail = TRUE
    OpenMayFail = TRUE
    FcloseMayFail = TRUE
    UnlinkMayFail = TRUE
SPECIFICATION Spec
INVARIANT TypeOK
INVARIANT HashesInBar
PROPERTY FetchOneSpec
