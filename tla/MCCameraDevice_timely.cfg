\* Preview and snapshot streams, a HAL that answers before the waits expire
\* and that may reject requests.
SPECIFICATION SafetySpec
CONSTANTS
    p1 = p1
    p2 = p2
    p3 = p3
    s1 = s1
    s2 = s2
    Streams <- TwoStreams
    Pool <- BothPools
    InitialNumber <- PreviewAndSnapshot
    SkipPattern <- NoSkip
    MaxLiving = 2
    StopTries = 1
    MetaParts = 1
    PutBufferExternal = FALSE
    Timeouts = FALSE
    HalRejects = TRUE
    Spurious = FALSE
    MaxFrames = 3
    MaxOrders = 1
SYMMETRY Symmetry
INVARIANTS
    OrdersAccounted
    WaitsAreOwed
    LivingRequestsBounded
    PendingMatchesHal
    AllRequestsBack
