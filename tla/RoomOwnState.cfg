CONSTANTS
    n1 = n1
    n2 = n2
    c1 = c1
    c2 = c2
    c3 = c3
    Nodes = {n1, n2}
    Callers = {c1}
    Home <- OneOf
    MaxTransfers = 1
    MaxFaults = 0
    None = None
SPECIFICATION Spec
PROPERTY ImportedByTarget
