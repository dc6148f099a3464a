SPECIFICATION MCFairSpec
CONSTANTS
    c1 = c1
    c2 = c2
    Clients <- MCTwoClients
    MaxMoves = 1
    MaxPower = 1
    SensorMayMiss = TRUE
INVARIANTS BootOnA BIsSelected
PROPERTIES EventPublished ClientServed
CHECK_DEADLOCK FALSE
