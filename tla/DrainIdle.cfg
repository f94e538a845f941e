CONSTANTS
    Operators = {o1, o2}
    Conns = {k1}
    Options <- Hybrid
    MaxRuns = 2
    MaxCalls = 4
SPECIFICATION Spec
INVARIANT RunningIsOrchestrated
CHECK_DEADLOCK FALSE
