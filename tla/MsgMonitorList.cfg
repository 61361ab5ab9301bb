SPECIFICATION Spec
CONSTANTS
    Msgs = {m1, m2}
    MaxInstances = {1, 3}
    Kinds = {"OnMessage", "Event"}
    MaxThreads = 2
    MaxIds = 3
INVARIANTS TypeOK IndexTracks InstancesExact OlderNoneSkipped
CHECK_DEADLOCK FALSE
