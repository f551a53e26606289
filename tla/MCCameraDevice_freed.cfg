\* The HAL answers while process_capture_request is still returning.
SPECIFICATION SafetySpec
CONSTANTS
    p1 = p1
    p2 = p2
    p3 = p3
    s1 = s1
    s2 = s2
    Streams <- OneStream
    Pool <- PreviewPool1
    InitialNumber <- PreviewOnly
    SkipPattern <- NoSkip
    MaxLiving = 2
    StopTries = 5
    MetaParts = 1
    PutBufferExternal = FALSE
    Timeouts = FALSE
    HalRejects = FALSE
    Spurious = FALSE
    MaxFrames = 2
    MaxOrders = 0
INVARIANTS
    NoFreedRead
