SPECIFICATION FRFairSpec
CONSTANTS
    Players = {a, b}
    HistoryLimit = 2
    SnapshotEvery = 2
    InputTimeoutTicks = 1
    IdleTimeoutTicks = 2
    Retention = 1
    MaxInputLead = 1
    AutoDestroy = TRUE
    MaxFrame = 3
    MaxGen = 3
    MaxOps = 3
    None = None
INVARIANT IdleRoomCloses
CHECK_DEADLOCK FALSE
