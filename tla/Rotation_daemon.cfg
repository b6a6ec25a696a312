SPECIFICATION Spec
CONSTANTS
    Pods = {p1, p2, p3, p4}
    None = None
    WarmPoolSize = 2
    Captures = {good, forged}
    Signed = {good}
    LostReplies = FALSE
    MaxTicks = 1
    MaxFaults = 2
    MaxRestarts = 1
SYMMETRY PodSymmetry
INVARIANTS
    TypeOK
    AtMostOneActive
    CrashLeavesOne
    SnapshotStillHead
    PoolAccounting
    NoLeak
    NoLostTrigger
    InjectedIsSigned
    Inductive
PROPERTY SlotSpec
