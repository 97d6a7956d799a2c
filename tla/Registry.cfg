SPECIFICATION Spec
CONSTANTS
    TicksPerSecond = 2
    Ids = {1, 2, 3}
    Sensors = {s1}
    LocationOf <- MCLocationOf
    MakerOf <- MCMakerOf
    Registered <- MCRegistered
    Tasks = {t1, t2}
    Walkers = {t2}
    MaxCalls = 2
    MaxTicks = 1
    MaxPages = 5
INVARIANTS
    ListAgrees
PROPERTIES
    IsolatedOperationExact
    WalkComplete
CHECK_DEADLOCK FALSE
