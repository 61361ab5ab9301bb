SPECIFICATION ApiSpec
CONSTANTS
    Callers = {main}
    Waiters = {}
    MaxId = 2
    Keys = {k}
    BeatMod = 2
    Free = Free
    Forms = {"integer", "variable"}
PROPERTY GetReturnsStored
