\* A HAL slower than the timed waits, waits that end by themselves, buffers put back by the owner of the callback.
SPECIFICATION SafetySpec
CONSTANTS
    p1 = p1
    p2 = p2
    p3 = p3
    s1 = s1
    s2 = s2
    Streams <- TwoStreams
    Pool <- ScarcePools
    InitialNumber <- PreviewAndSnapshot
    SkipPattern <- SkipPreview
    MaxLiving = 2
    StopTries = 1
    MetaParts = 1
    PutBufferExternal = TRUE
    Timeouts = TRUE
    HalRejects = TRUE
    Spurious = TRUE
    MaxFrames = 3
    MaxOrders = 1
SYMMETRY Symmetry
INVARIANTS
    EveryBufferInOnePlace
    ResultQueueDrained
    FaultOnlyAfterGivingUp
PROPERTIES
    ImplementsOwnership
