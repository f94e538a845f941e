CONSTANTS
    k1 = k1
    k2 = k2
    c1 = c1
    c2 = c2
    a = a
    b = b
    e = e
    hb = hb
    save = save
    daily = daily
    None = None
    DeadIds = {a, b, k1, k2}
    DeadStates = {c1, c2}
    DeadCapacity = 3
    MaxSlots = 6
    BagConns = {k1, k2}
    MaxBags = 2
    Calls = {a, b, e}
    QueueCapacity = 1
    MaxQueues = 2
    Operators = {a, b}
    DrainConns = {k1}
    DrainOptions <- TwoDrains
    MaxRuns = 3
    MaxCalls = 3
    Flushes = {"flusher"}
    Evictions = {"evictor"}
    StoreTiers = {"cached", "snapshot"}
    StoreSaves = 3
    StoreFaults = 2
    LostEvents = 1
    SceneNodes = {hb, a, b}
    Scenes = {hb, save, a, b}
    HomeOf <- ThreeHomes
    Movers = {c1, c2, a, b}
    MoverAt <- FourMovers
    Instances = {0, 1}
    MaxTransfers = 3
    TransferFaults = 1
    IdNodes = {0, 1}
    Radix = 2
    MaxCounter = 4
    IdLimit = 5
    IdStep = 2
    Sizes = {0, 3}
    PoolTasks = {a, b, e}
    PoolNames <- ThreeTasks
    PoolWorkers = {c1}
    PoolSize = 1
    PoolRetries = 1
    AgainTasks = {a, b}
    AgainNames <- TwoTasks
    AgainRetries = 0
    MaxStarts = 2
    TwoProcs = {a, b}
    Attempts = 2
    ListFaults = 1
    OneProc = {a}
    RelistFaults = 3
    Humans = {a, b}
    Bots = {"bot"}
    Seats = 2
    Lobby = {"watcher"}
    Guests = {"caller"}
    Flusher = "flusher"
    MaxVersion = 3
    MaxMisses = 1
    MaxWatches = 2
    Fighters = {a, b}
    HistoryLimit = 2
    SnapshotEvery = 2
    InputTimeoutTicks = 2
    IdleTimeoutTicks = 2
    Retention = 1
    MaxInputLead = 1
    AutoDestroy = TRUE
    MaxFrame = 3
    MaxGen = 3
    MaxOps = 3
    Clients = {k1, k2}
    Releaser = "loop"
    MaxConns = 1
    QueueCap = 1
    Patience = {TRUE, FALSE}
    MaxFrames = 2
    QueueFaults = 1
    Sockets = {k1, k2}
    Accounts = {"o1", "o2"}
    Roles = {"p1", "p2"}
    MaxLogins = 2
    MaxCommands = 1
    Goroutines = {c1, c2}
    Scopes = {"sa", "sb"}
    TimerNames = {hb, save, daily}
    TimerKinds <- KindsOf
    TimerUses <- TwoUses
    TimerMigrates = {}
    MaxTimers = 3
    CronUses <- FourUses
    CronMigrates <- TwoMigrate
    MaxCrons = 2
SPECIFICATION Spec
SYMMETRY Exchange
INVARIANTS TimersAreReached BagHasOneHolder CopyFollowsTable QueueIsHonest
INVARIANTS SessionsAreTracked RoomIsWhole RoomListIsSound PlacesAreCounted NewestIsSafe
INVARIANTS NotHalfDead ViewIsShown ObjectInOnePlace IdsAreUnique AcceptedTasksEnd ListIsCurrent
PROPERTIES LoadIsFresh ImplementsDeadLetters GraceIsKept
CHECK_DEADLOCK FALSE
