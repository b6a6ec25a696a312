SPECIFICATION Spec
CONSTANTS
    r1 = r1
    r2 = r2
    r3 = r3
    p = p
    q = q
    None = None
    Requests <- MCRequests
    Payloads <- MCPayloads
    PayloadOf <- MCPayloadOf
    MaxCancels = 1
    MaxSaveFaults = 0
    MaxCrashes = 0
CHECK_DEADLOCK FALSE
INVARIANT FactsArePermanent
