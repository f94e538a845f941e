CONSTANTS
    a = a
    b = b
    None = None
    Nodes = {a, b}
    Scenes = {a, b}
    Home <- HomeOf
    Callers = {a, b}
    At <- AtHome
    Instances = {1}
    MaxTransfers = 2
    MaxFaults = 0
SPECIFICATION STSpec
INVARIANT NeverLost
CHECK_DEADLOCK FALSE
