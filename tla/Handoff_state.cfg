SPECIFICATION HandoffSpec
CONSTANTS
    Pods = {p1, p2}
    None = None
    WarmPoolSize = 1
    Captures = {}
    Signed = {}
    LostReplies = FALSE
    MaxTicks = 1
    MaxFaults = 0
    MaxRestarts = 0
    Keys = {secret}
    DaemonKey = secret
    MaxLoops = 1
    MaxLostPosts = 0
CHECK_DEADLOCK FALSE
PROPERTY PromotedWithState
