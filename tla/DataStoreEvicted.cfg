CONSTANTS
    Handlers = {h}
    Flushers = {p}
    Evictors = {e}
    Tiers = {"snapshot"}
    MaxSaves = 4
    MaxFaults = 0
SPECIFICATION Spec
INVARIANT NewestIsHeld
CHECK_DEADLOCK FALSE
