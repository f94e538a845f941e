CONSTANTS
    sa = sa
    sb = sb
    hb = hb
    save = save
    daily = daily
    c1 = c1
    c2 = c2
    Callers = {c1}
    Scopes = {sa, sb}
    NoScope = NoScope
    Names = {hb, save, daily}
    Uses <- PairsOf
    Migrates <- ImportsOf
    KindOf <- Kinds
    MaxTimers = 3
SPECIFICATION Spec
INVARIANT OneLivePerName
CHECK_DEADLOCK FALSE
