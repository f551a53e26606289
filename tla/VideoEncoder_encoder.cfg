\* Two headers of either kind and two camera buffers; calls that fail, waits that expire.
SPECIFICATION Spec
CONSTANTS
    InCount = 2
    OutCount = 1
    Buffers = {b1, b2}
    NoBuffer = NoBuffer
    MayRefuse = TRUE
    MayBeLate = TRUE
INVARIANTS
    HeadersBackBeforeFree
    OutputsWritten
PROPERTIES
    ImplementsFrameQueue
    StopEnds
    BuffersComeBack
