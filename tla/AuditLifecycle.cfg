CONSTANTS
    Requests = {q1, q2}
    Cron = Cron
    RevertTTL = 1
    AuditTTL = 2
    Batch = 1
    MaxRows = 3
    MaxEdits = 1
    LastEdit = 0
    MaxTime = 2
    MaxFaults = 1
    None = None
SPECIFICATION Spec
INVARIANTS
    LiveEntriesHoldMedia
PROPERTIES
    RepeatedRevertsAreRaces
    EntriesGo
CHECK_DEADLOCK FALSE
