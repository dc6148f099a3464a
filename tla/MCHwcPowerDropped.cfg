SPECIFICATION FairSpec
CONSTANTS
    Brightness <- MCNoBrightness
    MaxCalls = 4
    CafMayFail = FALSE
    CreateMayFail = FALSE
    WriteMayFail = FALSE
PROPERTY ScreenOffHappens
CHECK_DEADLOCK FALSE
