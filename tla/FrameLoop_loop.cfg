\* TOF frames that come in time, and TOF frames that come at any time.
SPECIFICATION Spec
CONSTANTS
    Laps = 3
    Timings = {TRUE, FALSE}
INVARIANTS
    ImageReady
    NoFault
PROPERTIES
    ImplementsHandOver
    LoopEndsUnlessSignalLost
