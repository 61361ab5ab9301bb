SPECIFICATION FairSpec
CONSTANTS
    Callers = {main, host}
    Waiters = {host}
    MaxId = 2
    Keys = {k}
    BeatMod = 2
    Free = Free
INVARIANTS InterpreterOutlivesRun RegistriesAgree
PROPERTIES DestroyedIsOver DestroyReturns ImplementsLifecycle
