SPECIFICATION FairSpec
CONSTANTS
    Callers = {main}
    Schemes = {"ws", "wss"}
    MaxConn = 2
    MaxFrames = 2
INVARIANTS NeverTerminates DisconnectedIsQuiet ReceivesItsOwn
PROPERTIES  CloseNoticed DisconnectReturns
CHECK_DEADLOCK FALSE
