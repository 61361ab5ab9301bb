SPECIFICATION InterpFairSpec
CONSTANTS
    Programs <- MCPrograms
    Shape = "count"
    MaxLines = 5
    Limits = {}
    MaxTrace = 6
PROPERTY AsWritten
CHECK_DEADLOCK FALSE
