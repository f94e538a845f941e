---------------------------- MODULE MCProgress ----------------------------
(***************************************************************************)
(* What must come about in the end, for eight components checked in one    *)
(* run: as in MCSteps each behaviour is one of the component `part' names, *)
(* whose variables are v1, v2, ..., and the rest is blank.  Since a        *)
(* behaviour has one part, the fairness assumptions of the parts are       *)
(* stated together: Turn(i) is the i-th process of whatever part it is.    *)
(***************************************************************************)
EXTENDS Integers, Sequences, TLC

CONSTANTS
    None,           \* nothing, nobody
    a, b,           \* calls, players, clients, operators
    n1, n2          \* nodes

VARIABLES
    part,
    v1, v2, v3, v4, v5, v6, v7, v8, v9, v10, v11, v12, v13, v14, v15, v16,
    v17, v18

after17 == <<v18>>
after15 == <<v16, v17, after17>>
after14 == <<v15, after15>>
after13 == <<v14, after14>>
after12 == <<v13, after13>>
v == <<v1, v2, v3, v4, v5, v6, v7, v8, v9, v10, v11, v12, after12>>

Blank17 == v18 = 0
Blank15 == v16 = 0 /\ v17 = 0 /\ Blank17
Blank14 == v15 = 0 /\ Blank15
Blank13 == v14 = 0 /\ Blank14
Blank12 == v13 = 0 /\ Blank13

-----------------------------------------------------------------------------
Jobs == INSTANCE KeyQueue WITH
    Calls <- {a, b}, NoJob <- None, Capacity <- 1, MaxQueues <- 2,
    caller <- v1, queueOf <- v2, done <- v3, table <- v4, created <- v5,
    ch <- v6, stop <- v7, worker <- v8, job <- v9, closed <- v10,
    senderClosed <- v11, closing <- v12, condemned <- v13

Queue == INSTANCE GatewayQueue WITH
    Conns <- {a, b}, Loop <- "loop", Nil <- None,
    MaxConns <- 1, QueueCap <- 1, Patience <- {TRUE}, MaxFrames <- 2, MaxFaults <- 1,
    patient <- v1, conn <- v2, sent <- v3, fwd <- v4, items <- v5,
    pending <- v6, watch <- v7, armed <- v8, at <- v9, hand <- v10,
    sessions <- v11, cleaning <- v12, counter <- v13, stop <- v14,
    faults <- v15, locked <- v16, loopAlive <- v17, crashed <- v18

Frame == INSTANCE FrameRoom WITH
    Players <- {a, b}, HistoryLimit <- 2, SnapshotEvery <- 2, InputTimeoutTicks <- 2,
    IdleTimeoutTicks <- 2, Retention <- 1, MaxInputLead <- 1, AutoDestroy <- TRUE,
    MaxFrame <- 2, MaxGen <- 3, MaxOps <- 2,
    room <- v1, waits <- v2, running <- v3, destroyed <- v4, gen <- v5,
    lineage <- v6, loop <- v7, job <- v8, signalled <- v9, gauge <- v10,
    ops <- v11, calm <- v12

State == INSTANCE StateRoom WITH
    Humans <- {a, b}, Bots <- {"bot"}, Seats <- 2, Lobby <- {"watcher"}, Callers <- {"caller"},
    Flusher <- "flusher", MaxVersion <- 2, MaxFaults <- 1, MaxWatches <- 1,
    present <- v1, seats <- v2, crown <- v3, host <- v4, running <- v5,
    ready <- v6, offline <- v7, version <- v8, closed <- v9,
    watchers <- v10, pushed <- v11, got <- v12, call <- v13, faults <- v14,
    watches <- v15

Store == INSTANCE DataStore WITH
    Handlers <- {"handler"}, Flushers <- {"flusher"}, Evictors <- {"evictor"},
    Tiers <- {"cached", "snapshot"},
    MaxSaves <- 2, MaxFaults <- 1,
    tier <- v1, mem <- v2, redis <- v3, mysql <- v4, dirty <- v5,
    online <- v6, pc <- v7, val <- v8, row <- v9, back <- v10,
    result <- v11, written <- v12, newest <- v13, faults <- v14, overlap <- v15

(* Two connections of one player, to the same node or to two nodes. *)
Presence == INSTANCE PlayerPresence WITH
    Nodes <- {n1, n2}, Types <- {}, Tags <- {}, Uids <- {"player"}, Player <- "player",
    Conns <- {a, b}, Homes <- {a :> n1 @@ b :> n1, a :> n1 @@ b :> n2},
    DisconnectGrace <- TRUE, MaxFaults <- 1, MaxKicks <- 1,
    nodes <- v1, byType <- v2, byTag <- v3, players <- v4,
    nodePlayers <- v5, gauge <- v6, home <- v7, link <- v8, bound <- v9,
    msg <- v10, leave <- v11, local <- v12, online <- v13, faults <- v14,
    kicks <- v15

Drains == INSTANCE Drain WITH
    Operators <- {a}, Conns <- {b}, MaxRuns <- 2, MaxCalls <- 2,
    Options <- {[mode |-> "migrate", stop |-> FALSE], [mode |-> "hybrid", stop |-> TRUE]},
    op <- v1, calls <- v2, running <- v3, opts <- v4, mig <- v5,
    cancel <- v6, closedChs <- v7, draining <- v8, flowMu <- v9,
    heartbeat <- v10, registered <- v11, run <- v12, watched <- v13,
    cur <- v14, expired <- v15, conns <- v16, stopped <- v17

Listing == INSTANCE Discovery WITH
    Procs <- {a}, Attempts <- 2, MaxFaults <- 2,
    alive <- v1, granted <- v2, key <- v3, rev <- v4, floor <- v5,
    late <- v6, phase <- v7, again <- v8, tries <- v9, lease <- v10,
    fresh <- v11, ending <- v12, view <- v13, seen <- v14, lastRev <- v15,
    pos <- v16, gap <- v17, faults <- v18

ASSUME ProgressParams ==
    /\ Jobs!KeyQueueParams /\ Queue!GatewayQueueParams /\ Frame!FrameRoomParams
    /\ State!StateRoomParams /\ Store!DataStoreParams /\ Presence!PresenceParams
    /\ Drains!DrainParams /\ Listing!DiscoveryParams

-----------------------------------------------------------------------------
Init ==
    \/ part = "jobs" /\ Jobs!Init /\ Blank13
    \/ part = "queue" /\ Queue!Init
    \/ part = "frame" /\ Frame!FRInit /\ Blank12
    \/ part = "state" /\ State!SRInit /\ Blank15
    \/ part = "store" /\ Store!Init /\ Blank15
    \/ part = "presence" /\ Presence!Init /\ Blank15
    \/ part = "drain" /\ Drains!Init /\ Blank17
    \/ part = "listing" /\ Listing!DSInit

JobsMove == part = "jobs" /\ Jobs!Next /\ UNCHANGED <<part, after13>>
QueueMoves == part = "queue" /\ Queue!Next /\ UNCHANGED part
FrameMoves == part = "frame" /\ Frame!FRNext /\ UNCHANGED <<part, after12>>
StateMoves == part = "state" /\ State!SRNext /\ UNCHANGED <<part, after15>>
StoreMoves == part = "store" /\ Store!Next /\ UNCHANGED <<part, after15>>
PresenceMoves == part = "presence" /\ Presence!Next /\ UNCHANGED <<part, after15>>
DrainsMove == part = "drain" /\ Drains!Next /\ UNCHANGED <<part, after17>>
ListingMoves == part = "listing" /\ Listing!DSNext /\ UNCHANGED part

Next == JobsMove \/ QueueMoves \/ FrameMoves \/ StateMoves \/ StoreMoves \/
        PresenceMoves \/ DrainsMove \/ ListingMoves
Spec == Init /\ [][Next]_<<part, v>>

-----------------------------------------------------------------------------
(* The fairness of KeyQueue, GatewayQueue, FrameRoom, StateRoom, DataStore, *)
(* PlayerPresence, Drain and Discovery, process by process. *)
JobsTurn(i) ==
    /\ part = "jobs" /\ UNCHANGED <<part, after13>>
    /\ \/ i = 1 /\ Jobs!CallerStep(a)
       \/ i = 2 /\ Jobs!CallerStep(b)
       \/ i = 3 /\ Jobs!WorkerStep(1)
       \/ i = 4 /\ Jobs!WorkerStep(2)
       \/ i = 5 /\ Jobs!CloseGoesOn

QueueTurn(i) ==
    /\ part = "queue" /\ UNCHANGED part
    /\ \/ i = 1 /\ Queue!LoopRuns
       \/ i = 2 /\ Queue!StopRuns
       \/ i = 3 /\ Queue!ReaderRuns(a)
       \/ i = 4 /\ Queue!ReaderRuns(b)
       \/ i = 5 /\ Queue!EndRuns(a)
       \/ i = 6 /\ Queue!EndRuns(b)
       \/ i = 7 /\ Queue!CleanupRuns(a)
       \/ i = 8 /\ Queue!CleanupRuns(b)
       \/ i = 9 /\ Queue!CreationRuns(a)
       \/ i = 10 /\ Queue!CreationRuns(b)
       \/ i = 11 /\ Queue!CreationRuns("loop")

FrameTurn(i) ==
    /\ part = "frame" /\ UNCHANGED <<part, after12>>
    /\ \/ i = 1 /\ Frame!LoopRuns(1)
       \/ i = 2 /\ Frame!LoopRuns(2)
       \/ i = 3 /\ Frame!LoopRuns(3)

StateTurn(i) ==
    /\ part = "state" /\ UNCHANGED <<part, after15>>
    /\ \/ i = 1 /\ State!Pushing("caller")
       \/ i = 2 /\ State!Pushing("flusher")
       \/ i = 3 /\ State!Begin("flusher")
       \/ i = 4 /\ State!FlushWatchers

StoreTurn(i) ==
    /\ part = "store" /\ UNCHANGED <<part, after15>>
    /\ \/ i = 1 /\ Store!Continue("handler")
       \/ i = 2 /\ Store!Background("flusher")
       \/ i = 3 /\ Store!EvictExec("evictor")

PresenceTurn(i) ==
    /\ part = "presence" /\ UNCHANGED <<part, after15>>
    /\ \/ i = 1 /\ Presence!Message(a)
       \/ i = 2 /\ Presence!Message(b)
       \/ i = 3 /\ Presence!Disconnect(a)
       \/ i = 4 /\ Presence!Disconnect(b)
       \/ i = 5 /\ Presence!Send(a)
       \/ i = 6 /\ Presence!Send(b)

DrainsTurn(i) ==
    /\ part = "drain" /\ UNCHANGED <<part, after17>>
    /\ \/ i = 1 /\ Drains!OperatorRuns(a)
       \/ i = 2 /\ Drains!RunnerRuns(1)
       \/ i = 3 /\ Drains!RunnerRuns(2)
       \/ i = 4 /\ Drains!GraceRunsOut

ListingTurn(i) ==
    /\ part = "listing" /\ UNCHANGED part
    /\ \/ i = 1 /\ Listing!Registration(a)
       \/ i = 2 /\ Listing!Expire
       \/ i = 3 /\ Listing!Watching

Turn(i) ==
    JobsTurn(i) \/ QueueTurn(i) \/ FrameTurn(i) \/ StateTurn(i) \/
    StoreTurn(i) \/ PresenceTurn(i) \/ DrainsTurn(i) \/ ListingTurn(i)

(* Between a kick tick and the hard timeout of a drain a select does not   *)
(* always take the tick.                                                   *)
TimesOut(r) == part = "drain" /\ Drains!TimesOut(r) /\ UNCHANGED <<part, after17>>

FairSpec ==
    /\ Spec
    /\ \A i \in 1..11 : WF_<<part, v>>(Turn(i))
    /\ \A r \in 1..2 : SF_<<part, v>>(TimesOut(r))

-----------------------------------------------------------------------------
(* Properties.  The parts whose a and b, or whose clients, are alike are   *)
(* asked about a only. *)

(* SendQueueEventToPlayer: every call returns, whatever retires, closes or *)
(* fills the queue.                                                        *)
CallsReturn == (part = "jobs" /\ Jobs!Waiting(a)) ~> (part = "jobs" /\ Jobs!Answered(a))

(* connQueue: a connection that waits, where nobody leaves the queue, is   *)
(* in it, and its turn comes or it is refused (offer, dequeue, start,      *)
(* requeueHead).                                                           *)
PatientAreServed ==
    /\ [](part = "queue" => Queue!PatientAreQueued)
    /\ (part = "queue" /\ Queue!Patient(a)) ~> (part = "queue" /\ Queue!Served(a))

(* collectTimedOutLocked: a silent player never locks the frame: a running *)
(* room with members comes to its next frame.                              *)
FrameStuck(f) == part = "frame" /\ Frame!Stuck(f)
FramesAdvance == \A f \in 0..1 : FrameStuck(f) ~> ~FrameStuck(f)

(* FlushWatchers, recordListPushed: a watcher that a push missed or failed *)
(* for is brought to the current version in the end.                       *)
WatchersCatchUp ==
    (part = "state" /\ State!Watches("watcher")) ~> (part = "state" /\ State!UpToDate("watcher"))

(* The periodic flush: once the saves and the failures end, MySQL ends up  *)
(* with the last value.                                                    *)
DurableInTheEnd == <>[](part = "store" => Store!Durable)

(* registerCrossNodePlayer ("lazy, idempotent"): the player whose only     *)
(* connection left goes on beating is located at its node in the end,      *)
(* whatever handlers of the older connection run late.                     *)
PresentIsLocated == \A k \in {a, b} :
    <>[](part = "presence" /\ Presence!OnlyOne(k)) => <>[](part = "presence" /\ Presence!Located(k))

(* Drainer.run: a drain nobody cancels ends, whatever connects, leaves or  *)
(* fails to migrate.                                                       *)
DrainEnds ==
    [](part = "drain" => Drains!NoCancel) =>
        ((part = "drain" /\ v3) ~> (part = "drain" /\ Drains!Ended))

(* Register, reregister, watchLoop, refresh: once failures end, the key is *)
(* there exactly if the process runs, and the list is as the key is, but   *)
(* for the two causes Discovery names.                                     *)
NodesAreListed == <>[](part = "listing" => Listing!Listed /\ Listing!ListIsExcused)
=============================================================================
