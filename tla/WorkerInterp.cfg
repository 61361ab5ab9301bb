SPECIFICATION InterpSpec
CONSTANTS
    Programs <- MCPrograms
    Shape = "all"
    MaxLines = 5
    Limits = {0, 2}
    MaxTrace = 12
INVARIANT StacksMatch
PROPERTY FlatAsWritten
CHECK_DEADLOCK FALSE
