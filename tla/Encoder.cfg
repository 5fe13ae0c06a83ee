SPECIFICATION EncSpec
CONSTANTS
    Clients = {c1, c2}
    Segments = 2
    restartAfterSegments = 0
    MaxRuns = 2
    MaxAsks = 3
    MaxFaults = 1
INVARIANT EncoderSafe
PROPERTY LoopServesFinished
CHECK_DEADLOCK FALSE
SYMMETRY Symmetry
