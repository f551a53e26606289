\* The signal may come before the wait.
SPECIFICATION Spec
CONSTANTS
    Laps = 2
    Timings = {TRUE}
PROPERTIES
    LoopEnds
