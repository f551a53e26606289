\* The TOF frame of a lap may come after main looks at depth_data.
SPECIFICATION SafetySpec
CONSTANTS
    Laps = 2
    Timings = {FALSE}
INVARIANTS
    DepthIsThere
