CONSTANTS
    Ids = {m1}
    Events = {evt}
    BadEvents = {}
    None = None
    MaxAttempts = 2
    PendingLimit = 1
    DLQCapacity = 1
    DedupCapacity = 1
    MaxCrashes = 0
SPECIFICATION Spec
INVARIANT ExhaustedIsDeadLetter
