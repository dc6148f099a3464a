\* The framework may stop calling, and a closed device stays closed.
SPECIFICATION HwcSpec
CONSTANTS
    Brightness <- MCBrightness
    MaxCalls = 5
    CafMayFail = TRUE
    CreateMayFail = TRUE
    WriteMayFail = TRUE
    MaxSf = 2
    MaxEvents = 3
    MaxSwitches = 2
INVARIANTS TypeOK AtMostOneThread OffWindow NoThreadOutlivesDevice NeverLeftDark LifecyclesSymmetric
PROPERTIES ScheduledOffHappens CloseReturns PanelShown WatcherJoined
CHECK_DEADLOCK FALSE
