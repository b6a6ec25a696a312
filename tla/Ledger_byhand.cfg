SPECIFICATION Spec
CONSTANTS
    Commands = {a, n}
    Adds = {a}
    Immediate = {}
    Main = Main
    StartVector = TRUE
    None = None
    MaxStarts = 1
    MaxTimeouts = 0
    MaxSaveFaults = 0
CHECK_DEADLOCK FALSE
INVARIANT CommittedByHandStays
