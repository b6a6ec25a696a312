SPECIFICATION FairSpec
CONSTANTS
    r1 = r1
    r2 = r2
    r3 = r3
    p = p
    q = q
    None = None
    Requests <- MCRequests
    Payloads <- MCPayloads
    PayloadOf <- MCPayloadOf
    MaxCancels = 1
    MaxSaveFaults = 1
    MaxCrashes = 1
CHECK_DEADLOCK FALSE
INVARIANTS
    TypeOK
    FactHasAttempt
    LockWhileSaving
    FileFollowsMemory
    ReportedIsListed
    Inductive
PROPERTY Answered
