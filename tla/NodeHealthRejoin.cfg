CONSTANTS
    n1 = n1
    n2 = n2
    Nodes = {n1}
    Types = {game}
    Tags = {}
    Uids = {}
    None = None
    DeadAge = 2
    MaxRegs <- OneLife
SPECIFICATION FairSpec
PROPERTY AliveRejoins
