SPECIFICATION Spec
CONSTANTS
    Callbacks = {f, g, h}
    Priorities = {0, 1}
    MinPriority <- MCMinPriority
    MaxThreads = 3
    MaxTimers = 3
SYMMETRY CallbackSymmetry
INVARIANTS PositionIsLive NoneForgotten NoneSkipped InterruptsDuly
CHECK_DEADLOCK FALSE
