SPECIFICATION Spec
CONSTANTS
    MaxPathfinders = 2
    Subnode = {1}
    Faulty = {2}
    PingAt = 2
    MaxBytes = 3
    MaxQueue = 2
    MaxDryCycles = 0
    Peers = 1
INVARIANTS HonestStaysConnected NoAssertionFails ToldOnlyOfConnected
PROPERTY PingsAreAnswered
CHECK_DEADLOCK FALSE
