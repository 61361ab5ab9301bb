SPECIFICATION Spec
CONSTANTS
    MaxThreads = 2
    MaxCalls = 4
    MaxPaused = 2
INVARIANTS CountersFollowCalls ThreadLimit InterruptionComesBack PausedCounted
CHECK_DEADLOCK FALSE
