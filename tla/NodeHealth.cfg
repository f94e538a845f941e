CONSTANTS
    n1 = n1
    n2 = n2
    Nodes = {n1, n2}
    Types = {game, battle}
    Tags = {g1}
    Uids = {u1}
    None = None
    DeadAge = 2
    MaxRegs <- LivesOf
SPECIFICATION FairSpec
INVARIANTS TypeOK IndexConsistent
PROPERTIES PlayersGoWithNode DeadIsEvicted
