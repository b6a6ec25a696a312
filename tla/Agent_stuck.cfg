SPECIFICATION Spec
CONSTANTS
    Pods = {p1}
    None = None
    Keys = {secret}
    DaemonKey = secret
    MaxLoops = 1
    MaxFaults = 0
    MaxRestarts = 0
CHECK_DEADLOCK FALSE
INVARIANT CaughtIsSent
