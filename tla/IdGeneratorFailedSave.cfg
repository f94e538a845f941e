CONSTANTS
    Nodes = {0, 1}
    Radix = 2
    MaxCounter = 4
    Limit = 5
    Step = 2
    Sizes = {0, 2, 3}
SPECIFICATION IGSpec
INVARIANT NeverTwice
