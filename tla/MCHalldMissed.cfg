SPECIFICATION Spec
CONSTANTS
    c1 = c1
    c2 = c2
    Clients <- MCClients
    MaxMoves = 2
    MaxPower = 0
    SensorMayMiss = FALSE
INVARIANT BlocksInSync
CHECK_DEADLOCK FALSE
