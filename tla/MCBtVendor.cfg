SPECIFICATION Spec
CONSTANTS
    SocTypes = {"ROME", "AR3K", "CHEROKEE", "DEFAULT"}
    MaxSessions = 2
    TAGS = 2
    MaxSegments = 2
    MaxFaults = 1
    MAX_TAGS = 2
INVARIANTS
    EventsConsumed
    FlagTruthful
    ReadAnswered
    OpenIsUsable
PROPERTIES
    OpenReturns
