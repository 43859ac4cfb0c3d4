SPECIFICATION FairSpec
CONSTANTS
    r1 = r1
    r2 = r2
    Requests = {r1, r2}
    NoOwner = NoOwner
    LeaseMs = 2
    MaxAttempts = 2
    MaxLatency = 1
    MaxWrites = 2
    MaxTime = 3
INVARIANTS SingleWriter
PROPERTIES ImplementsSerialUpdates EveryRequestSettles
