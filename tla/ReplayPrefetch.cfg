\* The bounded numbers of trajectories and starts let every behaviour stop.
SPECIFICATION PrefetchSpec
CONSTANTS
    Window = 2
    CacheSizes = {2}
    Lengths = {1}
    MinSize = 1
    None = None
    MaxMade = 3
    MaxStarts = 1
    MaxSaves = 0
    PrefetchSize = 1
PROPERTY BatchArrives
CHECK_DEADLOCK FALSE
