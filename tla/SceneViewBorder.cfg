CONSTANTS
    Objects = {o1, o2, o3}
    None = None
    Callers = {c1}
    Places = {3, 5, 7}
    Radii = {2}
    CellSize = 1
    ShardSize = 4
    Direct = TRUE
    Strays = FALSE
    MaxNested = 0
    MaxLost = 0
SPECIFICATION SVSpec
INVARIANT GridSeesAll
CHECK_DEADLOCK FALSE
