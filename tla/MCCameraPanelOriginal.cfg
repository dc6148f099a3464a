SPECIFICATION Spec
CONSTANTS
    Cameras = {"0", "1"}
    MaxOpens = 2
    MaxFolds = 0
    MaxToggles = 0
    MaxRestarts = 0
    SocketMayFail = FALSE
INVARIANT OriginalIsUsers
CHECK_DEADLOCK FALSE
