SPECIFICATION FairSpec
CONSTANTS
    Pods = {p1, p2}
    None = None
    Keys = {secret, stale}
    DaemonKey = secret
    MaxLoops = 2
    MaxFaults = 1
    MaxRestarts = 1
CHECK_DEADLOCK FALSE
INVARIANTS
    TypeOK
    SnapshotNearlyWhole
    SnapshotIsFinal
    IngestedIsGenuine
    Inductive
PROPERTY HandlerExits
