SPECIFICATION HandoffSpec
CONSTANTS
    Pods = {p1, p2}
    None = None
    WarmPoolSize = 1
    Captures = {}
    Signed = {}
    LostReplies = FALSE
    MaxTicks = 1
    MaxFaults = 1
    MaxRestarts = 1
    Keys = {secret}
    DaemonKey = secret
    MaxLoops = 1
    MaxLostPosts = 1
CHECK_DEADLOCK FALSE
INVARIANTS
    IngestedHasEnded
    ReliedServe
