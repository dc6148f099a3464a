SPECIFICATION Spec
CONSTANTS
    Brightness <- MCNoBrightness
    MaxCalls = 4
    CafMayFail = FALSE
    CreateMayFail = FALSE
    WriteMayFail = FALSE
PROPERTY OffOnlyWhenUnpowered
CHECK_DEADLOCK FALSE
