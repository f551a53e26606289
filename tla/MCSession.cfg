CONSTANTS
    OrderLists <- MCOrderLists
    MaxCamera = 3
    MaxFailures = 1
    Eeproms <- MCEeproms
    BufCount = 2
    Minima = {1, 3}
SPECIFICATION Spec
INVARIANTS
    FaultsExplained
    ReleasedAtExit
    ClosedAfterJoin
    TimesFillFrame
    SetupIsHonest
PROPERTY HandlerEnds
CHECK_DEADLOCK FALSE
