\* Three captures are ordered of a stream that is not repeating; the HAL answers in time.
SPECIFICATION Spec
CONSTANTS
    p1 = p1
    p2 = p2
    p3 = p3
    s1 = s1
    s2 = s2
    Streams <- OneStream
    Pool <- PreviewPool1
    InitialNumber <- SnapshotOnly
    SkipPattern <- NoSkip
    MaxLiving = 2
    StopTries = 1
    MetaParts = 1
    PutBufferExternal = FALSE
    Timeouts = FALSE
    HalRejects = FALSE
    Spurious = FALSE
    MaxFrames = 3
    MaxOrders = 3
INVARIANTS
    OrdersAccounted
PROPERTIES
    RequestsFlow
    OrdersServed
