CONSTANTS
    Ids = {m1, m2}
    evt = evt
    Events = {evt, bad}
    BadEvents = {bad}
    None = None
    MaxAttempts = 2
    PendingLimit = 1
    DLQCapacity = 1
    DedupCapacity = 1
    MaxCrashes = 1
SPECIFICATION MCSpec
INVARIANTS AckedWasHandled DuplicateNeedsForgetting CloseWaited
PROPERTIES DeadLetterKept QuietDeliveryEnds
