SPECIFICATION FairSpec
CONSTANTS
    Commands = {a, n}
    Adds = {a}
    Immediate = {a}
    Main = Main
    StartVector = TRUE
    None = None
    MaxStarts = 2
    MaxTimeouts = 1
    MaxSaveFaults = 1
CHECK_DEADLOCK FALSE
INVARIANTS
    TypeOK
    AddedOnce
    ListedIsWhole
    Inductive
PROPERTIES
    AnswerMeansStored
    KeepsPromise
    CommandsAnswered
