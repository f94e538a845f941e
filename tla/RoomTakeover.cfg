CONSTANTS
    n1 = n1
    n2 = n2
    c1 = c1
    c2 = c2
    c3 = c3
    Nodes = {n1, n2}
    Callers = {c1, c2, c3}
    Home <- HomeOf
    MaxTransfers = 1
    MaxFaults = 1
    None = None
SPECIFICATION FairSpec
INVARIANTS TypeOK SingleFlight StateInOnePlace
PROPERTIES OwnerNotSeized TakeoverEnds
