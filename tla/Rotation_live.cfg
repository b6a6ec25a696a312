SPECIFICATION FairSpec
CONSTANTS
    Pods = {p1, p2, p3, p4}
    None = None
    WarmPoolSize = 2
    Captures = {}
    Signed = {}
    LostReplies = TRUE
    MaxTicks = 2
    MaxFaults = 1
    MaxRestarts = 0
INVARIANTS
    AtMostOneActive
    NoLeak
PROPERTIES
    PoolRefills
    ServiceResumes
    RotationContinues
