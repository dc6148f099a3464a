SPECIFICATION FairSpec
CONSTANTS
    Cameras = {"0", "1", "2"}
    MaxOpens = 2
    MaxFolds = 2
    MaxToggles = 1
    MaxRestarts = 1
    SocketMayFail = TRUE
PROPERTIES RestoreOutsideSession SessionEnds FoldNoticed
CHECK_DEADLOCK FALSE
