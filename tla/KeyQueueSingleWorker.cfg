CONSTANTS
    NoJob = NoJob
    Calls = {c1, c2}
    Capacity = 1
    MaxQueues = 2
SPECIFICATION Spec
INVARIANT SingleWorker
CHECK_DEADLOCK FALSE
