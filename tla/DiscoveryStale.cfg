CONSTANTS
    Procs = {p1}
    Attempts = 2
    MaxFaults = 0
SPECIFICATION DSFairSpec
PROPERTY EndsRight
CHECK_DEADLOCK FALSE
