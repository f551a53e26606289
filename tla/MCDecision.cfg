\* Two boxes of three pixels, depths out of freqMap's range included; two laps
\* of two chunks each, of which any send and recv may be a part.
SPECIFICATION MCSpec
CONSTANTS
    Depths <- AllDepths
    Boxes <- SomeBoxes
    BoxSize = 3
    MaxBoxes = 2
    MaxDepth = 50
    Far = 3
    Near = 1
    Laps = 2
    Chunk = 3
    FrameSize = 6
    AnswerSize = 6
    MarkSize = 2
INVARIANTS
    NearestBox
    NeverForwardIntoNear
    FramesAligned
    ForwardIsKnown
PROPERTY ServerFinishes
CHECK_DEADLOCK FALSE
