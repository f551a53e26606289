\* The HAL may fall silent for ever; a pool has as many buffers as requests may be in flight.
SPECIFICATION SilentHalSpec
CONSTANTS
    p1 = p1
    p2 = p2
    p3 = p3
    s1 = s1
    s2 = s2
    Streams <- OneStream
    Pool <- PreviewPool2
    InitialNumber <- PreviewOnly
    SkipPattern <- NoSkip
    MaxLiving = 2
    StopTries = 2
    MetaParts = 1
    PutBufferExternal = FALSE
    Timeouts = TRUE
    HalRejects = TRUE
    Spurious = FALSE
    MaxFrames = 4
    MaxOrders = 0
PROPERTIES
    StopCompletes
