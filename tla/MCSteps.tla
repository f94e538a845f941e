------------------------------ MODULE MCSteps ------------------------------
(***************************************************************************)
(* What no interleaving of steps may do, for sixteen components checked in *)
(* one run: each behaviour is one of the component `part' names.  The      *)
(* state is shared: v1, v2, ... are the variables of that component, in    *)
(* the order its module declares them, and the rest is blank.              *)
(***************************************************************************)
EXTENDS Integers, Sequences, TLC

CONSTANTS
    None,           \* nothing
    k1, k2, c1, c2, \* connections; goroutines
    a, b, e,        \* calls, players, operators
    hb, save, daily \* timers

(* The instances that are proved about for every value of these.           *)
CONSTANTS
    DeadIds, DeadStates, DeadCapacity, MaxSlots,
    BagConns, MaxBags,
    Calls, QueueCapacity, MaxQueues,
    Operators, DrainConns, DrainOptions, MaxRuns, MaxCalls,
    Flushes, Evictions, StoreTiers, StoreSaves, StoreFaults,
    LostEvents,
    SceneNodes, Scenes, HomeOf, Movers, MoverAt, Instances, MaxTransfers, TransferFaults,
    IdNodes, Radix, MaxCounter, IdLimit, IdStep, Sizes,
    PoolTasks, PoolNames, PoolWorkers, PoolSize, PoolRetries,
    AgainTasks, AgainNames, AgainRetries, MaxStarts, \* of a pool started again
    TwoProcs, Attempts, ListFaults, \* processes of a node, one after another
    OneProc, RelistFaults,          \* with fewer of them, and more failures
    Humans, Bots, Seats, Lobby, Guests, Flusher, MaxVersion, MaxMisses, MaxWatches,
    Fighters, HistoryLimit, SnapshotEvery, InputTimeoutTicks, IdleTimeoutTicks,
    Retention, MaxInputLead, AutoDestroy, MaxFrame, MaxGen, MaxOps,
    Clients, Releaser, MaxConns, QueueCap, Patience, MaxFrames, QueueFaults,
    Sockets, Accounts, Roles, MaxLogins, MaxCommands,
    Goroutines, Scopes, TimerNames, TimerKinds, TimerUses, TimerMigrates, MaxTimers,
    CronUses, CronMigrates, MaxCrons

TwoDrains == {[mode |-> "migrate", stop |-> FALSE], [mode |-> "hybrid", stop |-> TRUE]}

(* Two nodes with a scene and a goroutine, and one with two of each. *)
ThreeHomes == hb :> hb @@ save :> hb @@ a :> a @@ b :> b
FourMovers == c1 :> hb @@ c2 :> hb @@ a :> a @@ b :> b

(* Tasks of one name, alone or with one that has none. *)
TwoTasks == a :> save @@ b :> save
ThreeTasks == a :> save @@ b :> save @@ e :> None

(* Two players with a timer of the same name; and, with fewer timers, one  *)
(* that has two others that may migrate, one that fires once and a cron.   *)
KindsOf == hb :> "every" @@ save :> "once" @@ daily :> "cron"
TwoUses == {<<"sa", hb>>, <<"sb", hb>>}
FourUses == TwoUses \union {<<"sa", save>>, <<"sa", daily>>}
TwoMigrate == {<<"sa", save>>, <<"sa", daily>>}

VARIABLES
    part,
    v1, v2, v3, v4, v5, v6, v7, v8, v9, v10, v11, v12, v13, v14, v15, v16,
    v17, v18, v19, v20, v21, v22, v23

after18 == <<v19, v20, v21, v22, v23>>
after17 == <<v18, after18>>
after16 == <<v17, after17>>
after15 == <<v16, after16>>
after14 == <<v15, after15>>
after13 == <<v14, after14>>
after12 == <<v13, after13>>
after10 == <<v11, v12, after12>>
after9 == <<v10, after10>>
after8 == <<v9, after9>>
after3 == <<v4, v5, v6, v7, v8, after8>>
v == <<v1, v2, v3, after3>>

Blank18 == v19 = 0 /\ v20 = 0 /\ v21 = 0 /\ v22 = 0 /\ v23 = 0
Blank17 == v18 = 0 /\ Blank18
Blank16 == v17 = 0 /\ Blank17
Blank15 == v16 = 0 /\ Blank16
Blank14 == v15 = 0 /\ Blank15
Blank13 == v14 = 0 /\ Blank14
Blank12 == v13 = 0 /\ Blank13
Blank10 == v11 = 0 /\ v12 = 0 /\ Blank12
Blank9 == v10 = 0 /\ Blank10
Blank8 == v9 = 0 /\ Blank9
Blank3 == v4 = 0 /\ v5 = 0 /\ v6 = 0 /\ v7 = 0 /\ v8 = 0 /\ Blank8

-----------------------------------------------------------------------------
DLQ == INSTANCE MemoryDLQ WITH
    DeadIds <- DeadIds, States <- DeadStates, Capacity <- DeadCapacity, MaxSlots <- MaxSlots,
    items <- v1, head <- v2, index <- v3

Timers == INSTANCE TimerScheduler WITH
    Callers <- Goroutines, NoScope <- None, Names <- TimerNames, KindOf <- TimerKinds,
    Uses <- TimerUses, Migrates <- TimerMigrates, MaxTimers <- MaxTimers,
    seq <- v1, timer <- v2, byName <- v3, byScope <- v4, nameLoc <- v5,
    reg <- v6, call <- v7, closed <- v8, orphans <- v9

Crons == INSTANCE TimerScheduler WITH
    Callers <- Goroutines, NoScope <- None, Names <- TimerNames, KindOf <- TimerKinds,
    Uses <- CronUses, Migrates <- CronMigrates, MaxTimers <- MaxCrons,
    seq <- v1, timer <- v2, byName <- v3, byScope <- v4, nameLoc <- v5,
    reg <- v6, call <- v7, closed <- v8, orphans <- v9

Bags == INSTANCE ConnectionBags WITH
    Conns <- BagConns, MaxBags <- MaxBags,
    msg <- v1, park <- v2, bag <- v3, made <- v4, hand <- v5, pending <- v6,
    parked <- v7, settled <- v8, timer <- v9, del <- v10

Records == INSTANCE RecordSync WITH
    Cells <- {0, 1}, Zero <- 0, MaxRows <- 2, MaxWidth <- 2, MaxFlight <- 1,
    table <- v1, dirty <- v2, deleted <- v3, known <- v4, cleared <- v5,
    full <- v6, pc <- v7, patch <- v8, flight <- v9, copy <- v10

Frame == INSTANCE FrameRoom WITH
    Players <- Fighters,
    room <- v1, waits <- v2, running <- v3, destroyed <- v4, gen <- v5,
    lineage <- v6, loop <- v7, job <- v8, signalled <- v9, gauge <- v10,
    ops <- v11, calm <- v12

Jobs == INSTANCE KeyQueue WITH
    Calls <- Calls, NoJob <- None, Capacity <- QueueCapacity, MaxQueues <- MaxQueues,
    caller <- v1, queueOf <- v2, done <- v3, table <- v4, created <- v5,
    ch <- v6, stop <- v7, worker <- v8, job <- v9, closed <- v10,
    senderClosed <- v11, closing <- v12, condemned <- v13

(* Two humans and a bot for two seats, and one watcher. *)
State == INSTANCE StateRoom WITH
    Callers <- Guests, MaxFaults <- MaxMisses,
    present <- v1, seats <- v2, crown <- v3, host <- v4, running <- v5,
    ready <- v6, offline <- v7, version <- v8, closed <- v9,
    watchers <- v10, pushed <- v11, got <- v12, call <- v13, faults <- v14,
    watches <- v15

Queue == INSTANCE GatewayQueue WITH
    Conns <- Clients, Loop <- Releaser, Nil <- None, MaxFaults <- QueueFaults,
    patient <- v1, conn <- v2, sent <- v3, fwd <- v4, items <- v5,
    pending <- v6, watch <- v7, armed <- v8, at <- v9, hand <- v10,
    sessions <- v11, cleaning <- v12, counter <- v13, stop <- v14,
    faults <- v15, locked <- v16, loopAlive <- v17, crashed <- v18

Store == INSTANCE DataStore WITH
    Handlers <- {"handler"}, Flushers <- Flushes, Evictors <- Evictions,
    Tiers <- StoreTiers,
    MaxSaves <- StoreSaves, MaxFaults <- StoreFaults,
    tier <- v1, mem <- v2, redis <- v3, mysql <- v4, dirty <- v5,
    online <- v6, pc <- v7, val <- v8, row <- v9, back <- v10,
    result <- v11, written <- v12, newest <- v13, faults <- v14, overlap <- v15

Drains == INSTANCE Drain WITH
    Operators <- Operators, Conns <- DrainConns, MaxRuns <- MaxRuns, MaxCalls <- MaxCalls,
    Options <- DrainOptions,
    op <- v1, calls <- v2, running <- v3, opts <- v4, mig <- v5,
    cancel <- v6, closedChs <- v7, draining <- v8, flowMu <- v9,
    heartbeat <- v10, registered <- v11, run <- v12, watched <- v13,
    cur <- v14, expired <- v15, conns <- v16, stopped <- v17

Session == INSTANCE GatewaySession WITH
    Conns <- Sockets, Owners <- Accounts, Players <- Roles,
    calm <- v1, open <- v2, sess <- v3, made <- v4, bound <- v5, idx <- v6,
    pidx <- v7, ownerOf <- v8, extra <- v9, kicked <- v10, reply <- v11,
    targets <- v12, clean <- v13, uid <- v14, ctl <- v15, hard <- v16,
    announced <- v17, cancelled <- v18, gone <- v19, stuck <- v20,
    stuckBind <- v21, logins <- v22, commands <- v23

(* A goroutine with windows in windows; two, with an object that has       *)
(* somewhere to go; and a grid used by itself.                             *)
Scene == INSTANCE SceneView WITH
    Objects <- {a, b}, Callers <- {c1}, Places <- {3, 7}, Radii <- {2, 4}, CellSize <- 1,
    ShardSize <- 4, Direct <- FALSE, Strays <- FALSE, MaxNested <- 2, MaxLost <- LostEvents,
    pos <- v1, radius <- v2, visible <- v3, maxR <- v4, held <- v5,
    batching <- v6, dirty <- v7, pending <- v8, member <- v9, depth <- v10,
    open <- v11, batch <- v12, batchMu <- v13, client <- v14, call <- v15, lost <- v16

Windows == INSTANCE SceneView WITH
    Objects <- {a}, Callers <- {c1, c2}, Places <- {1, 9}, Radii <- {2}, CellSize <- 1,
    ShardSize <- 4, Direct <- FALSE, Strays <- FALSE, MaxNested <- 0, MaxLost <- 0,
    pos <- v1, radius <- v2, visible <- v3, maxR <- v4, held <- v5,
    batching <- v6, dirty <- v7, pending <- v8, member <- v9, depth <- v10,
    open <- v11, batch <- v12, batchMu <- v13, client <- v14, call <- v15, lost <- v16

Grids == INSTANCE SceneView WITH
    Objects <- {a, b}, Callers <- {c1}, Places <- {3, 5, 7}, Radii <- {2, 4}, CellSize <- 1,
    ShardSize <- 4, Direct <- TRUE, Strays <- FALSE, MaxNested <- 0, MaxLost <- 0,
    pos <- v1, radius <- v2, visible <- v3, maxR <- v4, held <- v5,
    batching <- v6, dirty <- v7, pending <- v8, member <- v9, depth <- v10,
    open <- v11, batch <- v12, batchMu <- v13, client <- v14, call <- v15, lost <- v16

Transfers == INSTANCE SceneTransfer WITH
    Nodes <- SceneNodes, Home <- HomeOf, MaxFaults <- TransferFaults,
    Callers <- Movers, At <- MoverAt,
    orderly <- v1, instance <- v2, life <- v3, route <- v4, member <- v5,
    objScene <- v6, ver <- v7, seq <- v8, wire <- v9, call <- v10, recv <- v11,
    transfers <- v12, faults <- v13, crossed <- v14

Ids == INSTANCE IdGenerator WITH
    Nodes <- IdNodes, Radix <- Radix, MaxCounter <- MaxCounter, Limit <- IdLimit,
    Step <- IdStep, Sizes <- Sizes,
    stored <- v1, loaded <- v2, hwm <- v3, ceiling <- v4,
    given <- v5, repeated <- v6, unsaved <- v7, forgot <- v8

(* Three tasks, two of one name, that meet one worker and a channel of     *)
(* one; and two of one name, over two lives of the pool.                   *)
Pool == INSTANCE AsyncPool WITH
    Tasks <- PoolTasks, NameOf <- PoolNames, Workers <- PoolWorkers, QueueSize <- PoolSize,
    Retries <- PoolRetries, MaxStarts <- 1,
    gen <- v1, closed <- v2, cut <- v3, tasks <- v4, active <- v5,
    sub <- v6, of <- v7, cancelled <- v8, result <- v9, worker <- v10,
    job <- v11, attempt <- v12, stop <- v13

Restarts == INSTANCE AsyncPool WITH
    Tasks <- AgainTasks, NameOf <- AgainNames, Workers <- PoolWorkers, QueueSize <- PoolSize,
    Retries <- AgainRetries, MaxStarts <- MaxStarts,
    gen <- v1, closed <- v2, cut <- v3, tasks <- v4, active <- v5,
    sub <- v6, of <- v7, cancelled <- v8, result <- v9, worker <- v10,
    job <- v11, attempt <- v12, stop <- v13

Listing == INSTANCE Discovery WITH
    Procs <- TwoProcs, Attempts <- Attempts, MaxFaults <- ListFaults,
    alive <- v1, granted <- v2, key <- v3, rev <- v4, floor <- v5,
    late <- v6, phase <- v7, again <- v8, tries <- v9, lease <- v10,
    fresh <- v11, ending <- v12, view <- v13, seen <- v14, lastRev <- v15,
    pos <- v16, gap <- v17, faults <- v18

Relisting == INSTANCE Discovery WITH
    Procs <- OneProc, Attempts <- Attempts, MaxFaults <- RelistFaults,
    alive <- v1, granted <- v2, key <- v3, rev <- v4, floor <- v5,
    late <- v6, phase <- v7, again <- v8, tries <- v9, lease <- v10,
    fresh <- v11, ending <- v12, view <- v13, seen <- v14, lastRev <- v15,
    pos <- v16, gap <- v17, faults <- v18

ASSUME StepsParams ==
    /\ DLQ!MemoryDLQParams /\ Timers!TimerParams /\ Crons!TimerParams /\ Bags!ConnectionBagsParams
    /\ Records!RecordSyncParams /\ Frame!FrameRoomParams /\ Jobs!KeyQueueParams
    /\ State!StateRoomParams /\ Session!GatewaySessionParams
    /\ Queue!GatewayQueueParams /\ Store!DataStoreParams /\ Drains!DrainParams
    /\ Scene!SceneViewParams /\ Windows!SceneViewParams /\ Grids!SceneViewParams
    /\ Transfers!SceneTransferParams /\ Ids!IdGeneratorParams /\ Pool!AsyncPoolParams
    /\ Restarts!AsyncPoolParams /\ Listing!DiscoveryParams /\ Relisting!DiscoveryParams

-----------------------------------------------------------------------------
Init ==
    \/ part = "dlq" /\ DLQ!Init /\ Blank3
    \/ part = "timers" /\ Timers!Init /\ Blank9
    \/ part = "crons" /\ Crons!Init /\ Blank9
    \/ part = "bags" /\ Bags!Init /\ Blank10
    \/ part = "records" /\ Records!Init /\ Blank10
    \/ part = "frame" /\ Frame!FRInit /\ Blank12
    \/ part = "jobs" /\ Jobs!Init /\ Blank13
    \/ part = "state" /\ State!SRInit /\ Blank15
    \/ part = "queue" /\ Queue!Init /\ Blank18
    \/ part = "store" /\ Store!Init /\ Blank15
    \/ part = "drain" /\ Drains!Init /\ Blank17
    \/ part = "session" /\ Session!Init
    \/ part = "scene" /\ Scene!SVInit /\ Blank16
    \/ part = "scenes" /\ Windows!SVInit /\ Blank16
    \/ part = "grids" /\ Grids!SVInit /\ Blank16
    \/ part = "transfer" /\ Transfers!STInit /\ Blank14
    \/ part = "ids" /\ Ids!IGInit /\ Blank8
    \/ part = "pool" /\ Pool!APInit /\ Blank13
    \/ part = "restarts" /\ Restarts!APInit /\ Blank13
    \/ part = "listing" /\ Listing!DSInit /\ Blank18
    \/ part = "relisting" /\ Relisting!DSInit /\ Blank18

DLQMoves == part = "dlq" /\ DLQ!Next /\ UNCHANGED <<part, after3>>
TimersMove == part = "timers" /\ Timers!Next /\ UNCHANGED <<part, after9>>
CronsMove == part = "crons" /\ Crons!Next /\ UNCHANGED <<part, after9>>
BagsMove == part = "bags" /\ Bags!Next /\ UNCHANGED <<part, after10>>
RecordsMove == part = "records" /\ Records!Next /\ UNCHANGED <<part, after10>>
FrameMoves == part = "frame" /\ Frame!FRNext /\ UNCHANGED <<part, after12>>
JobsMove == part = "jobs" /\ Jobs!Next /\ UNCHANGED <<part, after13>>
StateMoves == part = "state" /\ State!SRNext /\ UNCHANGED <<part, after15>>
QueueMoves == part = "queue" /\ Queue!Next /\ UNCHANGED <<part, after18>>
StoreMoves == part = "store" /\ Store!Next /\ UNCHANGED <<part, after15>>
DrainsMove == part = "drain" /\ Drains!Next /\ UNCHANGED <<part, after17>>
SessionMoves == part = "session" /\ Session!Next /\ UNCHANGED part
SceneMoves == part = "scene" /\ Scene!SVNext /\ UNCHANGED <<part, after16>>
WindowsMove == part = "scenes" /\ Windows!SVNext /\ UNCHANGED <<part, after16>>
GridsMove == part = "grids" /\ Grids!SVNext /\ UNCHANGED <<part, after16>>
TransfersMove == part = "transfer" /\ Transfers!STNext /\ UNCHANGED <<part, after14>>
IdsMove == part = "ids" /\ Ids!IGNext /\ UNCHANGED <<part, after8>>
PoolMoves == part = "pool" /\ Pool!APNext /\ UNCHANGED <<part, after13>>
RestartsMove == part = "restarts" /\ Restarts!APNext /\ UNCHANGED <<part, after13>>
ListingMoves == part = "listing" /\ Listing!DSNext /\ UNCHANGED <<part, after18>>
RelistingMoves == part = "relisting" /\ Relisting!DSNext /\ UNCHANGED <<part, after18>>

Next == DLQMoves \/ TimersMove \/ CronsMove \/ BagsMove \/ RecordsMove \/
        FrameMoves \/ JobsMove \/ StateMoves \/ QueueMoves \/ StoreMoves \/
        DrainsMove \/ SessionMoves \/ SceneMoves \/ WindowsMove \/
        GridsMove \/ TransfersMove \/ IdsMove \/ PoolMoves \/ RestartsMove \/
        ListingMoves \/ RelistingMoves
Spec == Init /\ [][Next]_<<part, v>>

(* In every part the first two of its connections, goroutines, calls,      *)
(* players or records may change places.                                   *)
Exchange == Permutations({k1, k2}) \union Permutations({c1, c2}) \union Permutations({a, b})

-----------------------------------------------------------------------------
(* Properties *)

(* MemoryDLQ: the slice with its dead head and its index implements the    *)
(* promised queue, through every compaction and every removal.             *)
ImplementsDeadLetters ==
    /\ part = "dlq" => DLQ!Abstract!Init
    /\ [][part = "dlq" => DLQ!AbstractStep]_<<part, v>>

(* StopScope, StopAll, Close, taskReg: once a scope, or everything, is     *)
(* stopped, none of its timers is left that no table leads to and that can *)
(* still fire; and what ExportScope would carry over is a live timer.      *)
TimersAreReached ==
    /\ part = "timers" => Timers!TSTypeOK /\ Timers!ScopeReaches /\ Timers!RegistryIsLive
    /\ part = "crons" => Crons!TSTypeOK /\ Crons!ScopeReaches /\ Crons!RegistryIsLive

(* ParkBag, RestoreBag, EnsureBag: a bag, the state of one session, never  *)
(* has two holders among the connections, the records and the goroutines.  *)
BagHasOneHolder == part = "bags" => Bags!CBTypeOK /\ Bags!BagHasOneHolder

(* PendingBag: a parked bag waits until its own grace is over, or until it *)
(* is restored, deleted or parked over; an older record's timer spares it, *)
(* but a DeleteBag that has found an older record does not.                *)
GraceIsKept == [][part = "bags" => Bags!GraceStep]_<<part, v>>

(* Record, BroadcastRecordPatch: the client's copy becomes the table, the  *)
(* marks say all it misses, and no deletion names a row it never had,      *)
(* until changes are marked clean that were not published; a client that   *)
(* then fetches the table, or is sent it whole, has it again.              *)
CopyFollowsTable ==
    part = "records" =>
        /\ Records!RSTypeOK
        /\ Records!CopyConverges /\ Records!MarksSuffice /\ Records!NoPhantomDelete

(* SendQueueEventToPlayer, retireKeyQueue, Close: a call that reports its  *)
(* job as unprocessed tells the truth, a queue in the table has a worker   *)
(* that serves it, and Close leaves no worker behind.                      *)
QueueIsHonest ==
    part = "jobs" =>
        /\ Jobs!TypeOK
        /\ Jobs!UnprocessedIsTrue /\ Jobs!TableIsServed /\ Jobs!CloseEndsWorkers

(* cleanup, the hard disconnect, idIndex, extraIDs, selectKickTargets: the *)
(* end of a connection is told to the game once, unless it was kicked or   *)
(* its owner came back; with every handler at rest the indexes list        *)
(* exactly the sessions that are bound, and an account has one.            *)
SessionsAreTracked ==
    part = "session" =>
        /\ Session!GSTypeOK /\ Session!DisconnectOnce /\ Session!EndIsTold
        /\ Session!IndexExact /\ Session!SingleSession

(* admit, releasePending, createSession, cleanup: never more sessions than *)
(* the limit, and with everybody at rest the counter is their number.      *)
(* When stop returns no session and no watcher is left or made afterwards. *)
PlacesAreCounted ==
    part = "queue" =>
        /\ Queue!GQTypeOK /\ Queue!SessionsWithinLimit /\ Queue!CountsExact
        /\ Queue!StopLeavesNothing

(* Save, persistDirty, evictLRU, delMMO: until calls meet that the store   *)
(* does not keep apart, the last saved value is never only where nobody    *)
(* will persist it from.                                                   *)
NewestIsSafe == part = "store" => Store!DSTypeOK /\ Store!NewestIsSafe

(* getCache: until such calls meet, a load of a cached key returns what    *)
(* the last completed save wrote.                                          *)
LoadIsFresh == [][part = "store" => Store!FreshLoads]_<<part, v>>

(* Drain, CancelDrain, finish: once they settle, a node that is not        *)
(* draining has its heartbeat and its registration.                        *)
NotHalfDead == part = "drain" => Drains!TypeOK /\ Drains!NotHalfDead

(* step's third phase, Leave, ImportState, Recovery: whatever happened     *)
(* while the applier ran, only members have a presence, inputs or a state, *)
(* the metric counts them, and the pack of a room runs without a hole from *)
(* its snapshot to its last frame, through imports too.                    *)
RoomIsWhole ==
    part = "frame" => Frame!FRTypeOK /\ Frame!MembersAreOne /\ Frame!RecoveryHasNoHole

(* reassignHostLocked, healHostLocked, recordListPushed: a host exactly    *)
(* while a human has a seat, no empty seat during a match, and a version   *)
(* recorded for a watcher only after a list of it was delivered.           *)
RoomListIsSound ==
    part = "state" => State!SRTypeOK /\ State!HostAndSeats /\ State!MarkedWasDelivered

(* Scene.BeginBatch and EndBatch around Enter, Move, Leave, SetViewRadius: *)
(* for one goroutine, whatever it does in whatever windows, when the last  *)
(* has ended the grid holds the members, every watcher sees what is within *)
(* its radius, and its client was told exactly that, but for the events    *)
(* whose publication failed.  Without windows this is so for two objects.  *)
(* Of two goroutines at a time only this is claimed: no window of the      *)
(* scene or of its grid stays open, and no mark or event is left.          *)
ViewIsShown ==
    /\ part = "scene" =>
        /\ Scene!SVTypeOK /\ Scene!GridHoldsMembers /\ Scene!WindowsClose
        /\ Scene!GridSeesAll /\ Scene!ClientShowsView
    /\ part = "grids" => Grids!SVTypeOK /\ Grids!GridSeesAll /\ Grids!ClientShowsView
    /\ part = "scenes" => Windows!SVTypeOK /\ Windows!WindowsClose

(* TransferRemote, HandleRemoteTransfer: whatever calls, refusals, expired *)
(* routes and losses meet, the object is in one place at most, on its way  *)
(* included, and its manager knows where, unless two calls of one node     *)
(* crossed; and it is not lost in good order.                              *)
ObjectInOnePlace == part = "transfer" => Transfers!STTypeOK /\ Transfers!ObjectInOnePlace

(* ensureLoaded, reserveSegment, make: over restarts, failing saves and    *)
(* blocks that cross segments an object number is handed out twice only by *)
(* a node whose process ended while its last ceiling was not in the store. *)
IdsAreUnique == part = "ids" => Ids!WithinSegment /\ Ids!IdsAreUnique

(* Submit, reclaimIfClosed, Stop, runItem: in its first life a pool leaves *)
(* no accepted task without a result and no name registered; a task that   *)
(* was refused never runs, and one that runs is found under its name.      *)
AcceptedTasksEnd ==
    /\ part = "pool" =>
        Pool!APTypeOK /\ Pool!AcceptedEndsOnce /\ Pool!RefusedNeverRuns /\ Pool!KillReaches
    /\ part = "restarts" =>
        /\ Restarts!APTypeOK /\ Restarts!AcceptedEndsOnce
        /\ Restarts!RefusedNeverRuns /\ Restarts!KillReaches

(* Register, reregister, cleanupRegistration, watchLoop: a process whose   *)
(* lease is kept has the key bound to it, and a list that is stale is told *)
(* so, but for the causes Discovery names.                                 *)
ListIsCurrent ==
    /\ part = "listing" => Listing!DSTypeOK /\ Listing!LiveIsListed /\ Listing!StaleIsTold
    /\ part = "relisting" =>
        Relisting!DSTypeOK /\ Relisting!LiveIsListed /\ Relisting!StaleIsTold
=============================================================================
