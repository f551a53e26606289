CONSTANTS
    Lengths = {480, 640}
    Rates = {30, 60}
    Megabits = {8, 5000}
    Flags = {"exposure", "controlMode", "sceneMode"}
    MaxOptions = 3
    Kinds = {"exposure", "afMode", "sceneMode", "zslMode", "jpegquality"}
    Watched <- MCWatched
    Values = {0, 3, 9, 19}
    IntRange = 8
    Paths = {"test1.log", "meta.log"}
    Counts = {1, 2}
    MaxOrders = 2
SPECIFICATION Spec
INVARIANTS
    StreamsAreSized
    LastLineIsCurrent
    ClosedOnce
    PicturesAccounted
    ReturnIsHonest
PROPERTY RequestReturns
CHECK_DEADLOCK FALSE
