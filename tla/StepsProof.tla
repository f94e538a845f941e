----------------------------- MODULE StepsProof -----------------------------
(***************************************************************************)
(* What MCSteps checks of its parts on small instances holds of them for   *)
(* every value of their constants: the components' theorems, carried over  *)
(* to the behaviours that take part in one of the parts.                   *)
(* SP, CP, ... are the proof modules over the same state as the parts; the *)
(* definitions of a part and of its proof module differ by name alone, and *)
(* have to be expanded to the bottom for the provers to see that.  Each is *)
(* declared where it is first used: what comes before does not see it.     *)
(***************************************************************************)
EXTENDS MCSteps, TLAPS

-----------------------------------------------------------------------------
(* A behaviour stays with its part, and a step of it is a step of the part *)
(* or changes nothing.                                                     *)
LEMMA PartMoves ==
    ASSUME [Next]_<<part, v>>
    PROVE  /\ part' = part
           /\ part = "dlq" => DLQ!Next \/ UNCHANGED v
           /\ part = "bags" => Bags!Next \/ UNCHANGED v
           /\ part = "jobs" => Jobs!Next \/ UNCHANGED v
           /\ part = "drain" => Drains!Next \/ UNCHANGED v
           /\ part = "store" => Store!Next \/ UNCHANGED v
           /\ part = "ids" => Ids!IGNext \/ UNCHANGED v
           /\ part = "transfer" => Transfers!STNext \/ UNCHANGED v
           /\ part = "pool" => Pool!APNext \/ UNCHANGED v
           /\ part = "restarts" => Restarts!APNext \/ UNCHANGED v
           /\ part = "timers" => Timers!Next \/ UNCHANGED v
           /\ part = "crons" => Crons!Next \/ UNCHANGED v
           /\ part = "state" => State!SRNext \/ UNCHANGED v
           /\ part = "frame" => Frame!FRNext \/ UNCHANGED v
           /\ part = "queue" => Queue!Next \/ UNCHANGED v
           /\ part = "session" => Session!Next \/ UNCHANGED v
           /\ part = "listing" => Listing!DSNext \/ UNCHANGED v
           /\ part = "relisting" => Relisting!DSNext \/ UNCHANGED v
BY DEF Next, DLQMoves, TimersMove, CronsMove, BagsMove, RecordsMove, FrameMoves, JobsMove,
       StateMoves, QueueMoves, StoreMoves, DrainsMove, SessionMoves, SceneMoves, WindowsMove,
       GridsMove, TransfersMove, IdsMove, PoolMoves, RestartsMove, ListingMoves, RelistingMoves

-----------------------------------------------------------------------------
(* The proof module of the connections. *)
CP == INSTANCE ConnectionsProof WITH
    Conns <- BagConns,
    Options <- DrainOptions, Peers <- DrainConns,
    msg <- v1, park <- v2, bag <- v3, made <- v4, hand <- v5, pending <- v6,
    parked <- v7, settled <- v8, timer <- v9, del <- v10,
    op <- v1, calls <- v2, running <- v3, opts <- v4, mig <- v5,
    cancel <- v6, closedChs <- v7, draining <- v8, flowMu <- v9,
    heartbeat <- v10, registered <- v11, run <- v12, watched <- v13,
    cur <- v14, expired <- v15, conns <- v16, stopped <- v17,
    Loop <- Releaser, Nil <- None, MaxFaults <- QueueFaults,
    patient <- v1, conn <- v2, sent <- v3, fwd <- v4, items <- v5, waiting <- v6,
    watch <- v7, armed <- v8, at <- v9, held <- v10, sessions <- v11,
    cleaning <- v12, counter <- v13, stop <- v14, faults <- v15, locked <- v16,
    loopAlive <- v17, crashed <- v18,
    calm <- v1, open <- v2, sess <- v3, begun <- v4, bound <- v5, idx <- v6,
    pidx <- v7, ownerOf <- v8, extra <- v9, kicked <- v10, reply <- v11,
    targets <- v12, clean <- v13, uid <- v14, ctl <- v15, hard <- v16,
    announced <- v17, cancelled <- v18, gone <- v19, stuck <- v20,
    stuckBind <- v21, logins <- v22, commands <- v23

-----------------------------------------------------------------------------
(* The bags of the connections. *)
LEMMA BagsBegin == CP!ConnectionBagsParams /\ (Bags!Init => CP!Init)
BY StepsParams DEF Bags!ConnectionBagsParams, CP!ConnectionBagsParams, Bags!Init, CP!Init,
   Bags!NoBag,
   CP!NoBag, StepsParams

LEMMA BagsNext == Bags!Next => CP!Next
BY DEF Bags!Next, CP!Next, Bags!Message, CP!Message, Bags!FirstMessage, CP!FirstMessage,
   Bags!RestoreTake, CP!RestoreTake, Bags!RestoreNothing, CP!RestoreNothing,
   Bags!RestoreStore, CP!RestoreStore, Bags!EnsureBag, CP!EnsureBag, Bags!ParkTake,
   CP!ParkTake, Bags!ParkSwap, CP!ParkSwap, Bags!ParkTimer, CP!ParkTimer, Bags!GraceEnds,
   CP!GraceEnds, Bags!DeleteBag, CP!DeleteBag, Bags!DeleteFinds, CP!DeleteFinds,
   Bags!DeleteRemoves, CP!DeleteRemoves, Bags!ClearByOwner, CP!ClearByOwner,
   Bags!ClearBag, CP!ClearBag,
   Bags!Goes, CP!Goes, Bags!records, CP!records, Bags!Settle, CP!Settle, Bags!NoBag,
   CP!NoBag, Bags!msgs, CP!msgs

LEMMA BagsMean ==
    ASSUME CP!CBTypeOK /\ CP!BagHasOneHolder
    PROVE  Bags!CBTypeOK /\ Bags!BagHasOneHolder
BY DEF Bags!CBTypeOK, CP!CBTypeOK, Bags!BagHasOneHolder, CP!BagHasOneHolder, Bags!NoBag,
   CP!NoBag

LEMMA BagsGrace == CP!GraceStep => Bags!GraceStep
BY DEF Bags!GraceStep, CP!GraceStep

BagsInv == part = "bags" => CP!BagInv

LEMMA BagsStart == Init => BagsInv
BY BagsBegin, CP!BagStart DEF Init, BagsInv

LEMMA BagsStep ==
    BagsInv /\ [Next]_<<part, v>> => BagsInv' /\ (part = "bags" => Bags!GraceStep)
<1>1. ASSUME [Next]_<<part, v>>
      PROVE  part' = part /\ (part = "bags" => [CP!Next]_(CP!vars))
      BY <1>1, PartMoves, BagsNext DEF v, after3, after8, after9, CP!vars, CP!msgs, CP!records
<1> QED  BY <1>1, BagsBegin, CP!BagStep, CP!GraceOfOthers, BagsGrace DEF BagsInv

(* ParkBag, RestoreBag, EnsureBag, for all connections of all accounts of  *)
(* a process: a bag never has two holders.                                 *)
THEOREM OneHolder == Spec => []BagHasOneHolder
<1>1. BagsInv => BagHasOneHolder  BY CP!BagMeaning, BagsMean DEF BagsInv, BagHasOneHolder
<1> QED  BY <1>1, BagsStart, BagsStep, PTL DEF Spec

(* PendingBag: no timer of another record takes a parked bag before its    *)
(* own grace is over, and no deletion of another connection, but for one   *)
(* whose record this one replaced while it was being removed.              *)
THEOREM OwnGrace == Spec => GraceIsKept
<1>1. BagsInv /\ [Next]_<<part, v>> => [part = "bags" => Bags!GraceStep]_<<part, v>>
      BY BagsStep
<1> QED  BY <1>1, BagsStart, BagsStep, PTL DEF Spec, GraceIsKept

-----------------------------------------------------------------------------
(* The drain of the node. *)
LEMMA DrainBegins == CP!D!DrainParams /\ (Drains!Init => CP!D!Init)
BY StepsParams DEF Drains!DrainParams, CP!D!DrainParams, Drains!Init, CP!D!Init, Drains!Nobody,
   CP!D!Nobody, Drains!Runs, CP!D!Runs, StepsParams

LEMMA DrainNext == Drains!Next => CP!D!Next
BY DEF Drains!Next, CP!D!Next, Drains!DrainBegin, CP!D!DrainBegin, Drains!CancelBegin,
   CP!D!CancelBegin, Drains!OperatorStep, CP!D!OperatorStep, Drains!Runs, CP!D!Runs,
   Drains!RunnerStep, CP!D!RunnerStep, Drains!DeadlinePasses, CP!D!DeadlinePasses,
   Drains!Message, CP!D!Message, Drains!Disconnect, CP!D!Disconnect, Drains!OpStep,
   CP!D!OpStep, Drains!traffic, CP!D!traffic, Drains!DrainTakeFlow, CP!D!DrainTakeFlow,
   Drains!DrainStrip, CP!D!DrainStrip, Drains!CancelUnflag, CP!D!CancelUnflag,
   Drains!CancelSelect, CP!D!CancelSelect, Drains!CancelClose, CP!D!CancelClose,
   Drains!CancelRestore, CP!D!CancelRestore,
   Drains!RunSelect, CP!D!RunSelect, Drains!RunCancelled, CP!D!RunCancelled,
   Drains!MigrateBatch, CP!D!MigrateBatch, Drains!Decide, CP!D!Decide, Drains!KickedAll,
   CP!D!KickedAll, Drains!KickBatch, CP!D!KickBatch, Drains!HardTimeout, CP!D!HardTimeout,
   Drains!FinishBegin, CP!D!FinishBegin, Drains!FinishUnflag, CP!D!FinishUnflag,
   Drains!FinishRestore, CP!D!FinishRestore, Drains!FinishStop, CP!D!FinishStop,
   Drains!drainer, CP!D!drainer, Drains!Nobody, CP!D!Nobody, Drains!RunStep, CP!D!RunStep,
   Drains!Remaining, CP!D!Remaining, Drains!Pending, CP!D!Pending, Drains!Cardinality,
   CP!D!Cardinality

LEMMA DrainMeans ==
    ASSUME CP!D!TypeOK /\ CP!D!NotHalfDead
    PROVE  Drains!TypeOK /\ Drains!NotHalfDead
BY DEF Drains!TypeOK, CP!D!TypeOK, Drains!NotHalfDead, CP!D!NotHalfDead, Drains!Nobody,
   CP!D!Nobody, Drains!Runs, CP!D!Runs, Drains!Settled, CP!D!Settled

DrainInv == part = "drain" => CP!DrainInv

LEMMA DrainStart == Init => DrainInv
BY DrainBegins, CP!DrainStart DEF Init, DrainInv

LEMMA DrainStep == DrainInv /\ [Next]_<<part, v>> => DrainInv'
<1>1. ASSUME [Next]_<<part, v>>
      PROVE  part' = part /\ (part = "drain" => [CP!D!Next]_(CP!D!vars))
      BY <1>1, PartMoves, DrainNext DEF v, after3, after8, after9, after10, after12,
         after13, after14, after15, after16, CP!D!vars
<1> QED  BY <1>1, DrainBegins, CP!DrainStep DEF DrainInv

(* Drain, CancelDrain, finish, for all operators and connections: once the *)
(* calls settle, a node that is not draining beats and is registered.      *)
THEOREM NodeNeverHalfDead == Spec => []NotHalfDead
<1>1. DrainInv => NotHalfDead
      BY DrainBegins, CP!DrainMeaning, DrainMeans DEF DrainInv, NotHalfDead
<1> QED  BY <1>1, DrainStart, DrainStep, PTL DEF Spec

-----------------------------------------------------------------------------
(* The clients that wait for a place. *)
LEMMA QueueBegins == CP!G!GatewayQueueParams /\ (Queue!Init => CP!G!Init)
BY StepsParams DEF Queue!GatewayQueueParams, CP!G!GatewayQueueParams, Queue!Init, CP!G!Init,
   Queue!Actors, CP!G!Actors, StepsParams

LEMMA QueueGoes == Queue!Next => CP!G!Next
BY ZenonT(60) DEF Queue!Next, CP!G!Next, Queue!Open, CP!G!Open, Queue!Receive, CP!G!Receive,
   Queue!Reader, CP!G!Reader, Queue!ClientCloses, CP!G!ClientCloses, Queue!SessionEnds,
   CP!G!SessionEnds, Queue!SessionUncounted, CP!G!SessionUncounted, Queue!Actors,
   CP!G!Actors, Queue!Creation, CP!G!Creation, Queue!WatcherRuns, CP!G!WatcherRuns,
   Queue!TimerFires, CP!G!TimerFires, Queue!LoopStep, CP!G!LoopStep, Queue!RefreshPanics,
   CP!G!RefreshPanics, Queue!StopGate, CP!G!StopGate, Queue!StopQueue, CP!G!StopQueue,
   Queue!StopServers, CP!G!StopServers, Queue!StopWaited, CP!G!StopWaited, Queue!queue,
   CP!G!queue, Queue!around, CP!G!around, Queue!table, CP!G!table, Queue!harm, CP!G!harm,
   Queue!Waits, CP!G!Waits, Queue!Goto, CP!G!Goto, Queue!ForwardKnown, CP!G!ForwardKnown,
   Queue!RateLimited, CP!G!RateLimited, Queue!Offer, CP!G!Offer, Queue!Watch, CP!G!Watch,
   Queue!Close, CP!G!Close, Queue!Reserve, CP!G!Reserve, Queue!GiveUp, CP!G!GiveUp,
   Queue!Dial, CP!G!Dial, Queue!DialFails, CP!G!DialFails, Queue!Insert, CP!G!Insert,
   Queue!Count, CP!G!Count, Queue!Return, CP!G!Return, Queue!Removed, CP!G!Removed,
   Queue!Panics, CP!G!Panics, Queue!Dequeue, CP!G!Dequeue, Queue!DequeuePanics,
   CP!G!DequeuePanics, Queue!Requeue, CP!G!Requeue, Queue!Stopped, CP!G!Stopped,
   Queue!Entry, CP!G!Entry, Queue!Stopping, CP!G!Stopping, Queue!Work, CP!G!Work,
   Queue!Rest, CP!G!Rest, Queue!FoldFunction, CP!G!FoldFunction, Queue!FoldFunctionOnSet,
   CP!G!FoldFunctionOnSet, Queue!MapThenFoldSet, CP!G!MapThenFoldSet, Queue!RemoveFirst,
   CP!G!RemoveFirst, Queue!RemoveAt, CP!G!RemoveAt, Queue!SelectInSeq, CP!G!SelectInSeq,
   Queue!Min, CP!G!Min, Queue!ToSet, CP!G!ToSet

LEMMA QueueMeans ==
    ASSUME CP!G!GQTypeOK /\ CP!G!SessionsWithinLimit /\ CP!G!CountsExact /\
           CP!G!StopLeavesNothing
    PROVE  Queue!GQTypeOK /\ Queue!SessionsWithinLimit /\ Queue!CountsExact /\
           Queue!StopLeavesNothing
BY DEF Queue!GQTypeOK, CP!G!GQTypeOK, Queue!SessionsWithinLimit, CP!G!SessionsWithinLimit,
   Queue!CountsExact, CP!G!CountsExact, Queue!StopLeavesNothing, CP!G!StopLeavesNothing,
   Queue!Actors, CP!G!Actors, Queue!Steps, CP!G!Steps, Queue!Pending, CP!G!Pending,
   Queue!Cardinality, CP!G!Cardinality

AdmissionInv == part = "queue" => CP!AdmissionInv

LEMMA AdmissionStart == Init => AdmissionInv
BY QueueBegins, CP!AdmissionStart DEF Init, AdmissionInv

LEMMA AdmissionStep == AdmissionInv /\ [Next]_<<part, v>> => AdmissionInv'
<1>1. ASSUME [Next]_<<part, v>>
      PROVE  part' = part /\ (part = "queue" => [CP!G!Next]_(CP!G!vars))
      BY <1>1, PartMoves, QueueGoes DEF v, after3, after8, after9, after10, after12,
         after13, after14, after15, after16, after17,
          CP!G!vars, CP!G!queue, CP!G!around, CP!G!table, CP!G!harm
<1> QED  BY <1>1, QueueBegins, CP!AdmissionStep DEF AdmissionInv

(* admit, releasePending, createSession, cleanup, Stop, for any clients,   *)
(* places, queue, frames and faults: the sessions keep the limit, the      *)
(* counter is their number when all rest, and Stop leaves nothing.         *)
THEOREM CountedPlaces == Spec => []PlacesAreCounted
<1>1. AdmissionInv => PlacesAreCounted
      BY QueueBegins, CP!AdmissionMeans, QueueMeans DEF AdmissionInv, PlacesAreCounted
<1> QED  BY <1>1, AdmissionStart, AdmissionStep, PTL DEF Spec

-----------------------------------------------------------------------------
(* The sessions of the accounts. *)
LEMMA SessionBegins == CP!S!GatewaySessionParams /\ (Session!Init => CP!S!Init)
BY StepsParams DEF Session!GatewaySessionParams, CP!S!GatewaySessionParams, Session!Init,
   CP!S!Init,
   Session!Idle, CP!S!Idle, StepsParams

LEMMA SessionGoes == Session!Next => CP!S!Next
BY ZenonT(60) DEF Session!Next, CP!S!Next, Session!Create, CP!S!Create, Session!ClientCloses,
   CP!S!ClientCloses, Session!CleanBegin, CP!S!CleanBegin, Session!CleanIndex,
   CP!S!CleanIndex, Session!CleanExtras, CP!S!CleanExtras, Session!CleanTell,
   CP!S!CleanTell, Session!HardFires, CP!S!HardFires, Session!ReplyLookup, CP!S!ReplyLookup,
   Session!ReplyKnown, CP!S!ReplyKnown, Session!ReplyPanics, CP!S!ReplyPanics,
   Session!ReplyBind, CP!S!ReplyBind, Session!ReplyKick, CP!S!ReplyKick, Session!ReplyTell,
   CP!S!ReplyTell, Session!KickBegin, CP!S!KickBegin, Session!BindPlayer, CP!S!BindPlayer,
   Session!KickIndex, CP!S!KickIndex, Session!KickPanics, CP!S!KickPanics, Session!KickRest,
   CP!S!KickRest, Session!AddExtra, CP!S!AddExtra, Session!events, CP!S!events,
   Session!panics, CP!S!panics, Session!MayEnd, CP!S!MayEnd, Session!index, CP!S!index,
   Session!Without, CP!S!Without, Session!Contenders, CP!S!Contenders, Session!OnlyEntry,
   CP!S!OnlyEntry, Session!Listed, CP!S!Listed, Session!Cut, CP!S!Cut, Session!Oldest,
   CP!S!Oldest, Session!Kicked, CP!S!Kicked, Session!Command, CP!S!Command, Session!Done,
   CP!S!Done, Session!Idle, CP!S!Idle, Session!RemoveFirst, CP!S!RemoveFirst,
   Session!RemoveAt, CP!S!RemoveAt, Session!SelectInSeq, CP!S!SelectInSeq, Session!Min,
   CP!S!Min, Session!ToSet, CP!S!ToSet, Session!IsInjective, CP!S!IsInjective

LEMMA SessionMeans ==
    ASSUME CP!S!GSTypeOK /\ CP!S!DisconnectOnce /\ CP!S!IndexExact /\ CP!S!EndIsTold /\
           CP!S!SingleSession
    PROVE  Session!GSTypeOK /\ Session!DisconnectOnce /\ Session!IndexExact /\
           Session!EndIsTold /\ Session!SingleSession
BY DEF Session!GSTypeOK, CP!S!GSTypeOK, Session!DisconnectOnce, CP!S!DisconnectOnce,
   Session!IndexExact, CP!S!IndexExact, Session!EndIsTold, CP!S!EndIsTold,
   Session!SingleSession, CP!S!SingleSession, Session!index, CP!S!index, Session!AtRest,
   CP!S!AtRest, Session!ToSet, CP!S!ToSet, Session!IsInjective, CP!S!IsInjective,
   Session!Cardinality, CP!S!Cardinality

AccountsInv == part = "session" => CP!SessInv

LEMMA AccountsStart == Init => AccountsInv
BY SessionBegins, CP!SessStart DEF Init, AccountsInv

LEMMA AccountsStep == AccountsInv /\ [Next]_<<part, v>> => AccountsInv'
<1>1. ASSUME [Next]_<<part, v>>
      PROVE  part' = part /\ (part = "session" => [CP!S!Next]_(CP!S!vars))
      BY <1>1, PartMoves, SessionGoes DEF v, after3, after8, after9, after10, after12,
         after13, after14, after15, after16, after17,
          after18, CP!S!vars, CP!S!index, CP!S!events, CP!S!panics
<1> QED  BY <1>1, SessionBegins, CP!SessStep DEF AccountsInv

(* createSession, HandleBindUser, extraIDs, selectKickTargets, cleanup,    *)
(* the hard disconnect, for any connections, accounts, players and logins: *)
(* an end is told once, the indexes list who is bound, an account has one. *)
THEOREM TrackedSessions == Spec => []SessionsAreTracked
<1>1. AccountsInv => SessionsAreTracked
      BY SessionBegins, CP!SessMeans, SessionMeans DEF AccountsInv, SessionsAreTracked
<1> QED  BY <1>1, AccountsStart, AccountsStep, PTL DEF Spec

-----------------------------------------------------------------------------
(* The proof module of the queues. *)
QP == INSTANCE QueuesProof WITH
    NoJob <- None, Capacity <- QueueCapacity, States <- DeadStates,
    caller <- v1, queueOf <- v2, done <- v3, table <- v4, created <- v5,
    ch <- v6, stop <- v7, worker <- v8, job <- v9, closed <- v10,
    senderClosed <- v11, closing <- v12, condemned <- v13,
    items <- v1, head <- v2, index <- v3,
    Workers <- PoolWorkers, QueueSize <- PoolSize,
    gen <- v1, shut <- v2, cut <- v3, tasks <- v4, active <- v5, sub <- v6,
    of <- v7, cancelled <- v8, result <- v9, runner <- v10, task <- v11,
    attempt <- v12, stopping <- v13,
    KindOf <- TimerKinds,
    serial <- v1, timers <- v2, byName <- v3, byScope <- v4, nameLoc <- v5,
    reg <- v6, errands <- v7, silenced <- v8, orphans <- v9,
    Tasks <- PoolTasks, NameOf <- PoolNames, Retries <- PoolRetries, MaxStarts <- 1,
    Uses <- TimerUses, Migrates <- TimerMigrates, MaxTimers <- MaxTimers

-----------------------------------------------------------------------------
(* The queues of jobs. *)
LEMMA JobsBegin == QP!KeyQueueParams /\ (Jobs!Init => QP!Init)
BY StepsParams DEF Jobs!KeyQueueParams, QP!KeyQueueParams, Jobs!Init, QP!Init, Jobs!Queues,
   QP!Queues,
   StepsParams

LEMMA JobsNext == Jobs!Next => QP!Next
BY DEF Jobs!Next, QP!Next, Jobs!Call, QP!Call, Jobs!CallerStep, QP!CallerStep, Jobs!Queues,
   QP!Queues, Jobs!WorkerStep, QP!WorkerStep, Jobs!Retire, QP!Retire, Jobs!CloseBegin,
   QP!CloseBegin, Jobs!CloseGoesOn, QP!CloseGoesOn, Jobs!GetKeyQueue, QP!GetKeyQueue,
   Jobs!Enqueue, QP!Enqueue, Jobs!EnqueueStopped, QP!EnqueueStopped, Jobs!Await, QP!Await,
   Jobs!TakeJob, QP!TakeJob, Jobs!FinishJob, QP!FinishJob, Jobs!SeeStop, QP!SeeStop,
   Jobs!Exit, QP!Exit, Jobs!CloseStep, QP!CloseStep, Jobs!CloseSender, QP!CloseSender,
   Jobs!CloseTable, QP!CloseTable, Jobs!CloseStops, QP!CloseStops, Jobs!CloseReturns,
   QP!CloseReturns, Jobs!Results, QP!Results, Jobs!Busy, QP!Busy, Jobs!Running, QP!Running

LEMMA JobsMean ==
    ASSUME QP!TypeOK /\ QP!UnprocessedIsTrue /\ QP!TableIsServed /\ QP!CloseEndsWorkers
    PROVE  Jobs!TypeOK /\ Jobs!UnprocessedIsTrue /\ Jobs!TableIsServed /\
           Jobs!CloseEndsWorkers
BY DEF Jobs!TypeOK, QP!TypeOK, Jobs!UnprocessedIsTrue, QP!UnprocessedIsTrue,
   Jobs!TableIsServed, QP!TableIsServed, Jobs!CloseEndsWorkers, QP!CloseEndsWorkers,
   Jobs!Returned, QP!Returned, Jobs!Results, QP!Results, Jobs!Queues, QP!Queues,
   Jobs!Running, QP!Running

JobsInv == part = "jobs" => QP!QueueInv

LEMMA JobsStart == Init => JobsInv
BY JobsBegin, QP!QueueStart DEF Init, JobsInv

LEMMA JobsStep == JobsInv /\ [Next]_<<part, v>> => JobsInv'
<1>1. ASSUME [Next]_<<part, v>>
      PROVE  part' = part /\ (part = "jobs" => [QP!Next]_(QP!vars))
      BY <1>1, PartMoves, JobsNext DEF v, after3, after8, after9, after10, after12, QP!vars
<1> QED  BY <1>1, JobsBegin, QP!QueueStep DEF JobsInv

(* SendQueueEventToPlayer, retireKeyQueue, Close, for every capacity and   *)
(* any calls: "unprocessed" is true of the job, a queue in the table is    *)
(* served, and a Close in time leaves no worker.                           *)
THEOREM HonestQueue == Spec => []QueueIsHonest
<1>1. JobsInv => QueueIsHonest
      BY JobsBegin, QP!QueueMeaning, JobsMean DEF JobsInv, QueueIsHonest
<1> QED  BY <1>1, JobsStart, JobsStep, PTL DEF Spec

-----------------------------------------------------------------------------
(* The dead-letter queue. *)
LEMMA DLQBegins == QP!M!MemoryDLQParams /\ (DLQ!Init => QP!M!Init)
BY StepsParams DEF DLQ!MemoryDLQParams, QP!M!MemoryDLQParams, DLQ!Init, QP!M!Init, StepsParams

LEMMA DLQNext == DLQ!Next => QP!M!Next
BY DEF DLQ!Next, QP!M!Next, DLQ!Record, QP!M!Record, DLQ!Overwrite, QP!M!Overwrite,
   DLQ!Push, QP!M!Push, DLQ!RemoveOldest, QP!M!RemoveOldest, DLQ!RemoveMiddle,
   QP!M!RemoveMiddle, DLQ!LiveLen, QP!M!LiveLen, DLQ!Without, QP!M!Without, DLQ!Live,
   QP!M!Live, DLQ!With, QP!M!With, DLQ!Reindex, QP!M!Reindex, DLQ!Cut, QP!M!Cut

LEMMA DLQMeans ==
    /\ QP!M!Abstract!Init => DLQ!Abstract!Init
    /\ QP!M!AbstractStep => DLQ!AbstractStep
BY DEF DLQ!Abstract!Init, QP!M!Abstract!Init, DLQ!Abstract!Next, QP!M!Abstract!Next,
   DLQ!Abstract!Record, QP!M!Abstract!Record, DLQ!Abstract!Push, QP!M!Abstract!Push,
   DLQ!Abstract!Remove, QP!M!Abstract!Remove, DLQ!Abstract!IdsIn, QP!M!Abstract!IdsIn,
   DLQ!Abstract!Cut, QP!M!Abstract!Cut, QP!M!AbstractStep, DLQ!AbstractStep, QP!M!Live,
   DLQ!Live

LettersInv == part = "dlq" => QP!DeadInv

LEMMA LettersStart == Init => LettersInv /\ (part = "dlq" => DLQ!Abstract!Init)
BY DLQBegins, DLQMeans, QP!DeadStart DEF Init, LettersInv

LEMMA LettersStep ==
    LettersInv /\ [Next]_<<part, v>> => LettersInv' /\ (part = "dlq" => DLQ!AbstractStep)
<1>1. ASSUME [Next]_<<part, v>>
      PROVE  part' = part /\ (part = "dlq" => [QP!M!Next]_(QP!M!vars))
      BY <1>1, PartMoves, DLQNext DEF v, QP!M!vars
<1> QED  BY <1>1, DLQBegins, QP!DeadStep, DLQMeans DEF LettersInv

(* Push, Remove, List of MemoryDLQ, for every capacity: the slice with its *)
(* dead head and its index does what the promised queue does.              *)
THEOREM SliceActsAsQueue == Spec => ImplementsDeadLetters
<1>1. LettersInv /\ [Next]_<<part, v>> => [part = "dlq" => DLQ!AbstractStep]_<<part, v>>
      BY LettersStep
<1> QED  BY <1>1, LettersStart, LettersStep, PTL DEF Spec, ImplementsDeadLetters

-----------------------------------------------------------------------------
(* The task pool, in one life. *)
LEMMA PoolBegins == QP!P!AsyncPoolParams /\ (Pool!APInit => QP!P!APInit)
BY StepsParams DEF Pool!AsyncPoolParams, QP!P!AsyncPoolParams, Pool!APInit, QP!P!APInit,
   Pool!Gens,
   QP!P!Gens, Pool!Names, QP!P!Names, StepsParams

LEMMA PoolGoes == Pool!APNext => QP!P!APNext
BY DEF Pool!APNext, QP!P!APNext, Pool!Submit, QP!P!Submit, Pool!End, QP!P!End, Pool!Names,
   QP!P!Names, Pool!Kill, QP!P!Kill, Pool!Loop, QP!P!Loop, Pool!RunItem, QP!P!RunItem,
   Pool!EndItem, QP!P!EndItem, Pool!Start, QP!P!Start, Pool!Stop, QP!P!Stop, Pool!Begin,
   QP!P!Begin, Pool!Register, QP!P!Register, Pool!Offer, QP!P!Offer, Pool!FindFull,
   QP!P!FindFull, Pool!Unblock, QP!P!Unblock, Pool!Reclaim, QP!P!Reclaim, Pool!work,
   QP!P!work, Pool!Works, QP!P!Works, Pool!CtxDone, QP!P!CtxDone, Pool!Ends, QP!P!Ends,
   Pool!Runs, QP!P!Runs, Pool!Unregister, QP!P!Unregister, Pool!Close, QP!P!Close, Pool!Cut,
   QP!P!Cut, Pool!DrainTasks, QP!P!DrainTasks, Pool!Wait, QP!P!Wait, Pool!Submits,
   QP!P!Submits, Pool!Room, QP!P!Room, Pool!Put, QP!P!Put, Pool!TakeBack, QP!P!TakeBack,
   Pool!Finish, QP!P!Finish

LEMMA PoolMeans ==
    ASSUME QP!P!APTypeOK /\ QP!P!AcceptedEndsOnce /\ QP!P!RefusedNeverRuns /\
           QP!P!KillReaches
    PROVE  Pool!APTypeOK /\ Pool!AcceptedEndsOnce /\ Pool!RefusedNeverRuns /\
           Pool!KillReaches
BY DEF Pool!APTypeOK, QP!P!APTypeOK, Pool!AcceptedEndsOnce, QP!P!AcceptedEndsOnce,
   Pool!RefusedNeverRuns, QP!P!RefusedNeverRuns, Pool!KillReaches, QP!P!KillReaches,
   Pool!Gens, QP!P!Gens, Pool!Names, QP!P!Names, Pool!AcceptedEnds, QP!P!AcceptedEnds,
   Pool!Held, QP!P!Held, Pool!CtxDone, QP!P!CtxDone, Pool!Settled, QP!P!Settled

PoolInv == part = "pool" => QP!PoolInv

LEMMA PoolStart == Init => PoolInv
BY PoolBegins, QP!PoolStart DEF Init, PoolInv

LEMMA PoolStep == PoolInv /\ [Next]_<<part, v>> => PoolInv'
<1>1. ASSUME [Next]_<<part, v>>
      PROVE  part' = part /\ (part = "pool" => [QP!P!APNext]_(QP!P!vars))
      BY <1>1, PartMoves, PoolGoes DEF v, after3, after8, after9, after10, after12,
         QP!P!vars, QP!P!work
<1> QED  BY <1>1, PoolBegins, QP!PoolStep DEF PoolInv

-----------------------------------------------------------------------------
(* The timers, without a cron. *)
LEMMA TimersBegin == QP!T!TimerParams /\ (Timers!Init => QP!T!Init)
BY StepsParams DEF Timers!TimerParams, QP!T!TimerParams, Timers!Init, QP!T!Init, Timers!Ids,
   QP!T!Ids,
   Timers!NoTimer, QP!T!NoTimer, Timers!NoRef, QP!T!NoRef, Timers!Idle, QP!T!Idle,
   StepsParams

LEMMA TimersGo == Timers!Next => QP!T!Next
BY ZenonT(60) DEF Timers!Next, QP!T!Next, Timers!Add, QP!T!Add, Timers!ImportCron,
   QP!T!ImportCron,
   Timers!FileCron, QP!T!FileCron, Timers!Register, QP!T!Register, Timers!CallStopper,
   QP!T!CallStopper, Timers!Ids, QP!T!Ids, Timers!StopHandle, QP!T!StopHandle,
   Timers!StopNamed, QP!T!StopNamed, Timers!StopScope, QP!T!StopScope, Timers!ImportTimer,
   QP!T!ImportTimer, Timers!Pop, QP!T!Pop, Timers!Run, QP!T!Run, Timers!StopAll,
   QP!T!StopAll, Timers!Close, QP!T!Close, Timers!Goes, QP!T!Goes, Timers!Idle, QP!T!Idle,
   Timers!Pair, QP!T!Pair, Timers!OldOne, QP!T!OldOne, Timers!File, QP!T!File,
   Timers!StopOne, QP!T!StopOne, Timers!NoRef, QP!T!NoRef, Timers!Drop, QP!T!Drop,
   Timers!Kind, QP!T!Kind, Timers!Refile, QP!T!Refile, Timers!Unregister, QP!T!Unregister,
   Timers!Live, QP!T!Live, Timers!tables, QP!T!tables, Timers!Sweep, QP!T!Sweep,
   Timers!Scoped, QP!T!Scoped

LEMMA TimersMean ==
    ASSUME QP!T!TSTypeOK /\ QP!T!ScopeReaches /\ QP!T!RegistryIsLive
    PROVE  Timers!TSTypeOK /\ Timers!ScopeReaches /\ Timers!RegistryIsLive
BY DEF Timers!TSTypeOK, QP!T!TSTypeOK, Timers!ScopeReaches, QP!T!ScopeReaches,
   Timers!RegistryIsLive, QP!T!RegistryIsLive, Timers!Ids, QP!T!Ids, Timers!NoRef,
   QP!T!NoRef, Timers!Live, QP!T!Live, Timers!Scoped, QP!T!Scoped, Timers!InTheMaking,
   QP!T!InTheMaking, Timers!Stopping, QP!T!Stopping, Timers!Own, QP!T!Own, Timers!Pair,
   QP!T!Pair, Timers!Kind, QP!T!Kind

TimersInv == part = "timers" => QP!TimersInv

LEMMA TimersStart == Init => TimersInv
BY TimersBegin, QP!TimersStart DEF Init, TimersInv

LEMMA TimersStep == TimersInv /\ [Next]_<<part, v>> => TimersInv'
<1>1. ASSUME [Next]_<<part, v>>
      PROVE  part' = part /\ (part = "timers" => [QP!T!Next]_(QP!T!vars))
      BY <1>1, PartMoves, TimersGo DEF v, after3, after8, QP!T!vars, QP!T!tables
<1> QED  BY <1>1, TimersBegin, QP!TimersStep DEF TimersInv

-----------------------------------------------------------------------------
(* The proof module of the cluster. *)
LP == INSTANCE ClusterProof WITH
    Procs <- TwoProcs, MaxFaults <- ListFaults,
    alive <- v1, granted <- v2, key <- v3, rev <- v4, floor <- v5,
    late <- v6, phase <- v7, again <- v8, tries <- v9, lease <- v10,
    fresh <- v11, ending <- v12, view <- v13, seen <- v14, lastRev <- v15,
    pos <- v16, gap <- v17, faults <- v18,
    Nodes <- SceneNodes, Home <- HomeOf, MaxMishaps <- TransferFaults,
    orderly <- v1, instance <- v2, life <- v3, route <- v4, member <- v5,
    objScene <- v6, ver <- v7, seq <- v8, wire <- v9, call <- v10, recv <- v11,
    transfers <- v12, mishaps <- v13, crossed <- v14,
    present <- v1, seats <- v2, crown <- v3, host <- v4, running <- v5, ready <- v6,
    offline <- v7, version <- v8, closed <- v9, watchers <- v10, pushed <- v11,
    got <- v12, errand <- v13, misses <- v14, watches <- v15,
    room <- v1, waits <- v2, ticking <- v3, destroyed <- v4, loopGen <- v5,
    lineage <- v6, loop <- v7, task <- v8, signalled <- v9, gauge <- v10,
    ops <- v11, calm <- v12

-----------------------------------------------------------------------------
(* The objects between scenes. *)
LEMMA TransfersBegin == LP!T!SceneTransferParams /\ (Transfers!STInit => LP!T!STInit)
BY StepsParams DEF Transfers!SceneTransferParams, LP!T!SceneTransferParams, Transfers!STInit,
   LP!T!STInit, Transfers!Idle, LP!T!Idle, Transfers!Waiting, LP!T!Waiting, StepsParams

LEMMA TransfersNext == Transfers!STNext => LP!T!STNext
<1>1. \A g, s : Transfers!Start(g, s) => LP!T!Start(g, s)
      BY DEF Transfers!Start, LP!T!Start, Transfers!Live, LP!T!Live, Transfers!Call,
         LP!T!Call, Transfers!table, LP!T!table, Transfers!held, LP!T!held
<1>2. \A g : Transfers!LeaveLocal(g) \/ Transfers!LetGo(g) => LP!T!LeaveLocal(g) \/ LP!T!LetGo(g)
      BY DEF Transfers!LeaveLocal, LP!T!LeaveLocal, Transfers!LetGo, LP!T!LetGo,
         Transfers!Live, LP!T!Live, Transfers!Leave, LP!T!Leave, Transfers!Unlocked,
         LP!T!Unlocked, Transfers!Call, LP!T!Call, Transfers!Returns, LP!T!Returns,
         Transfers!Idle, LP!T!Idle, Transfers!table, LP!T!table, Transfers!held,
         LP!T!held
<1>3. \A g : Transfers!CheckLocal(g) \/ Transfers!EnterLocal(g) => LP!T!CheckLocal(g) \/ LP!T!EnterLocal(g)
      BY DEF Transfers!CheckLocal, LP!T!CheckLocal, Transfers!EnterLocal,
         LP!T!EnterLocal, Transfers!Unlocked, LP!T!Unlocked, Transfers!Admits,
         LP!T!Admits, Transfers!Enter, LP!T!Enter, Transfers!Call, LP!T!Call,
         Transfers!Returns, LP!T!Returns, Transfers!Idle, LP!T!Idle, Transfers!table,
         LP!T!table, Transfers!held, LP!T!held
<1>4. \A g : Transfers!Lookup(g) \/ Transfers!Publish(g) => LP!T!Lookup(g) \/ LP!T!Publish(g)
      BY DEF Transfers!Lookup, LP!T!Lookup, Transfers!Publish, LP!T!Publish,
         Transfers!Call, LP!T!Call, Transfers!Returns, LP!T!Returns, Transfers!Idle,
         LP!T!Idle, Transfers!table, LP!T!table, Transfers!held, LP!T!held
<1>5. \A g : Transfers!TransferRemote(g) => LP!T!TransferRemote(g)
      BY <1>1, <1>2, <1>3, <1>4 DEF Transfers!TransferRemote, LP!T!TransferRemote
<1>6. \A n : Transfers!HandleRemoteTransfer(n) => LP!T!HandleRemoteTransfer(n)
      BY DEF Transfers!HandleRemoteTransfer, LP!T!HandleRemoteTransfer,
         Transfers!Receive, LP!T!Receive, Transfers!Accept, LP!T!Accept,
         Transfers!CheckRemote, LP!T!CheckRemote, Transfers!EnterRemote,
         LP!T!EnterRemote, Transfers!Rollback, LP!T!Rollback, Transfers!Live, LP!T!Live,
         Transfers!Unlocked, LP!T!Unlocked, Transfers!Admits, LP!T!Admits,
         Transfers!Enter, LP!T!Enter, Transfers!Recv, LP!T!Recv, Transfers!Waiting,
         LP!T!Waiting, Transfers!table, LP!T!table, Transfers!held, LP!T!held
<1>7. \A s : \/ Transfers!Expire(s) \/ Transfers!RefreshScene(s) \/ Transfers!Destroy(s)
            \/ Transfers!EndDestroy(s)
            => LP!T!Expire(s) \/ LP!T!RefreshScene(s) \/ LP!T!Destroy(s) \/ LP!T!EndDestroy(s)
      BY DEF Transfers!Expire, LP!T!Expire, Transfers!RefreshScene, LP!T!RefreshScene,
         Transfers!Destroy, LP!T!Destroy, Transfers!EndDestroy, LP!T!EndDestroy,
         Transfers!Live, LP!T!Live, Transfers!Leave, LP!T!Leave, Transfers!Unlocked,
         LP!T!Unlocked, Transfers!table, LP!T!table, Transfers!held, LP!T!held
<1>8. Transfers!Lose => LP!T!Lose
      BY DEF Transfers!Lose, LP!T!Lose, Transfers!table, LP!T!table, Transfers!held,
         LP!T!held
<1>9. (v14' = (v14 \/ Transfers!Crossing')) => v14' = (v14 \/ LP!T!Crossing')
      BY DEF Transfers!Crossing, LP!T!Crossing, Transfers!Committed, LP!T!Committed
<1> QED  BY <1>5, <1>6, <1>7, <1>8, <1>9 DEF Transfers!STNext, LP!T!STNext

LEMMA TransfersMean ==
    ASSUME LP!T!STTypeOK /\ LP!T!ObjectInOnePlace
    PROVE  Transfers!STTypeOK /\ Transfers!ObjectInOnePlace
BY DEF Transfers!STTypeOK, LP!T!STTypeOK, Transfers!ObjectInOnePlace, LP!T!ObjectInOnePlace,
   Transfers!Places, LP!T!Places, Transfers!Keeps, LP!T!Keeps, Transfers!Cardinality,
   LP!T!Cardinality

TransfersInv == part = "transfer" => LP!TransferInv

LEMMA TransfersStart == Init => TransfersInv
BY TransfersBegin, LP!TransferStart DEF Init, TransfersInv

LEMMA TransfersStep == TransfersInv /\ [Next]_<<part, v>> => TransfersInv'
<1>1. ASSUME [Next]_<<part, v>>
      PROVE  part' = part /\ (part = "transfer" => [LP!T!STNext]_(LP!T!vars))
      BY <1>1, PartMoves, TransfersNext DEF v, after3, after8, after9, after10, after12,
         after13, LP!T!vars, LP!T!table,
          LP!T!held
<1> QED  BY <1>1, TransfersBegin, LP!TransferStep DEF TransfersInv

(* TransferRemote, HandleRemoteTransfer, for any nodes, scenes, instances, *)
(* goroutines, transfers and faults: until two calls of a node cross, the  *)
(* object is not in two places and its manager knows where it is; and in   *)
(* good order it is always in one.                                         *)
THEOREM OnePlaceAlways == Spec => []ObjectInOnePlace
<1>1. TransfersInv => ObjectInOnePlace
      BY TransfersBegin, LP!TransferMeans, TransfersMean DEF TransfersInv, ObjectInOnePlace
<1> QED  BY <1>1, TransfersStart, TransfersStep, PTL DEF Spec

-----------------------------------------------------------------------------
(* The seats of a room and the watchers of its list. *)
LEMMA StateBegins == LP!K!StateRoomParams /\ (State!SRInit => LP!K!SRInit)
BY StepsParams DEF State!StateRoomParams, LP!K!StateRoomParams, State!SRInit, LP!K!SRInit,
   State!Empty,
   LP!K!Empty, State!Procs, LP!K!Procs, State!Idle, LP!K!Idle, State!Seat, LP!K!Seat,
   StepsParams

LEMMA StateNext == State!SRNext => LP!K!SRNext
BY ZenonT(60) DEF State!SRNext, LP!K!SRNext, State!Procs, LP!K!Procs, State!Begin, LP!K!Begin,
   State!Pushing, LP!K!Pushing, State!Operation, LP!K!Operation, State!FlushWatchers,
   LP!K!FlushWatchers, State!Close, LP!K!Close, State!Unwatch, LP!K!Unwatch, State!Goes,
   LP!K!Goes, State!roomVars, LP!K!roomVars, State!listVars, LP!K!listVars, State!Broadcast,
   LP!K!Broadcast, State!Record, LP!K!Record, State!Finish, LP!K!Finish, State!Delivers,
   LP!K!Delivers, State!Fails, LP!K!Fails, State!EnsureRoom, LP!K!EnsureRoom, State!Destroy,
   LP!K!Destroy, State!Arrangements, LP!K!Arrangements, State!ImportState, LP!K!ImportState, State!SetRunning, LP!K!SetRunning,
   State!Join, LP!K!Join, State!Leave, LP!K!Leave, State!Seat, LP!K!Seat, State!SetOffline,
   LP!K!SetOffline, State!SetReady, LP!K!SetReady, State!Watch, LP!K!Watch, State!Refused,
   LP!K!Refused, State!Takes, LP!K!Takes, State!Behind, LP!K!Behind, State!Empty,
   LP!K!Empty, State!Idle, LP!K!Idle, State!Changes, LP!K!Changes, State!SeatsOf,
   LP!K!SeatsOf, State!Reassign, LP!K!Reassign, State!Free, LP!K!Free, State!Seated,
   LP!K!Seated, State!Heirs, LP!K!Heirs, State!Min, LP!K!Min, State!Max, LP!K!Max,
   State!Cardinality, LP!K!Cardinality

LEMMA StateMeans ==
    ASSUME LP!K!SRTypeOK /\ LP!K!HostAndSeats /\ LP!K!MarkedWasDelivered
    PROVE  State!SRTypeOK /\ State!HostAndSeats /\ State!MarkedWasDelivered
BY DEF State!SRTypeOK, LP!K!SRTypeOK, State!HostAndSeats, LP!K!HostAndSeats,
   State!MarkedWasDelivered, LP!K!MarkedWasDelivered, State!Seat, LP!K!Seat, State!Procs,
   LP!K!Procs, State!SeatsOf, LP!K!SeatsOf, State!Free, LP!K!Free

SeatsInv == part = "state" => LP!KernelInv

LEMMA SeatsStart == Init => SeatsInv
BY StateBegins, LP!KernelStart DEF Init, SeatsInv

LEMMA SeatsStep == SeatsInv /\ [Next]_<<part, v>> => SeatsInv'
<1>1. ASSUME [Next]_<<part, v>>
      PROVE  part' = part /\ (part = "state" => [LP!K!SRNext]_(LP!K!vars))
      BY <1>1, PartMoves, StateNext DEF v, after3, after8, after9, after10, after12,
         after13, after14, LP!K!vars
<1> QED  BY <1>1, StateBegins, LP!KernelStep DEF SeatsInv

(* reassignHostLocked, healHostLocked, recordListPushed, for any players,  *)
(* bots, seats, watchers, callers and lost lists: a host exactly while a   *)
(* human sits, no empty seat in a match, and what is recorded as pushed to *)
(* a watcher was delivered to it.                                          *)
THEOREM SoundRoomList == Spec => []RoomListIsSound
<1>1. SeatsInv => RoomListIsSound
      BY StateBegins, LP!KernelMeans, StateMeans DEF SeatsInv, RoomListIsSound
<1> QED  BY <1>1, SeatsStart, SeatsStep, PTL DEF Spec

-----------------------------------------------------------------------------
(* The room of frames. *)
LEMMA FrameBegins == LP!F!FrameRoomParams /\ (Frame!FRInit => LP!F!FRInit)
BY StepsParams DEF Frame!FrameRoomParams, LP!F!FrameRoomParams, Frame!FRInit, LP!F!FRInit,
   Frame!EmptyRoom, LP!F!EmptyRoom, Frame!Gens, LP!F!Gens, Frame!NoJob, LP!F!NoJob,
   StepsParams

LEMMA FrameNext == Frame!FRNext => LP!F!FRNext
BY ZenonT(60) DEF Frame!FRNext, LP!F!FRNext, Frame!Join, LP!F!Join, Frame!Reconnect,
   LP!F!Reconnect,
   Frame!MarkDisconnected, LP!F!MarkDisconnected, Frame!Leave, LP!F!Leave, Frame!Frames,
   LP!F!Frames, Frame!Input, LP!F!Input, Frame!Destroy, LP!F!Destroy, Frame!ImportState,
   LP!F!ImportState, Frame!ImportAsNew, LP!F!ImportAsNew, Frame!Gens, LP!F!Gens,
   Frame!LoopTop, LP!F!LoopTop, Frame!LoopStops, LP!F!LoopStops, Frame!StepEmpty,
   LP!F!StepEmpty, Frame!StepWaits, LP!F!StepWaits, Frame!StepAdvances, LP!F!StepAdvances,
   Frame!Discard, LP!F!Discard, Frame!Commit, LP!F!Commit, Frame!Op, LP!F!Op, Frame!Fresh,
   LP!F!Fresh, Frame!EnsureStarted, LP!F!EnsureStarted, Frame!Back, LP!F!Back, Frame!loops,
   LP!F!loops, Frame!Without, LP!F!Without, Frame!Signal, LP!F!Signal, Frame!Importable,
   LP!F!Importable, Frame!Imported, LP!F!Imported, Frame!NoJob, LP!F!NoJob, Frame!Ticks,
   LP!F!Ticks, Frame!ToTop, LP!F!ToTop, Frame!Idle, LP!F!Idle, Frame!Ready, LP!F!Ready,
   Frame!StepIdle, LP!F!StepIdle, Frame!Waits, LP!F!Waits, Frame!Next1, LP!F!Next1,
   Frame!TimedOut, LP!F!TimedOut, Frame!Kept, LP!F!Kept, Frame!Committed, LP!F!Committed,
   Frame!DropInputs, LP!F!DropInputs, Frame!InCallback, LP!F!InCallback, Frame!Has,
   LP!F!Has, Frame!Silence, LP!F!Silence, Frame!Merged, LP!F!Merged, Frame!Trimmed,
   LP!F!Trimmed, Frame!Pruned, LP!F!Pruned, Frame!Max, LP!F!Max, Frame!Cardinality,
   LP!F!Cardinality

LEMMA FrameMeans ==
    ASSUME LP!F!FRTypeOK /\ LP!F!MembersAreOne /\ LP!F!RecoveryHasNoHole
    PROVE  Frame!FRTypeOK /\ Frame!MembersAreOne /\ Frame!RecoveryHasNoHole
BY DEF Frame!FRTypeOK, LP!F!FRTypeOK, Frame!MembersAreOne, LP!F!MembersAreOne,
   Frame!RecoveryHasNoHole, LP!F!RecoveryHasNoHole, Frame!Frames, LP!F!Frames, Frame!Gens,
   LP!F!Gens, Frame!InCallback, LP!F!InCallback, Frame!HasNoHole, LP!F!HasNoHole, Frame!Max,
   LP!F!Max, Frame!Cardinality, LP!F!Cardinality

FramesInv == part = "frame" => LP!FrameInv

LEMMA FramesStart == Init => FramesInv
BY FrameBegins, LP!FrameStart DEF Init, FramesInv

LEMMA FramesStep == FramesInv /\ [Next]_<<part, v>> => FramesInv'
<1>1. ASSUME [Next]_<<part, v>>
      PROVE  part' = part /\ (part = "frame" => [LP!F!FRNext]_(LP!F!vars))
      BY <1>1, PartMoves, FrameNext DEF v, after3, after8, after9, after10, LP!F!vars
<1> QED  BY <1>1, FrameBegins, LP!FrameStep DEF FramesInv

(* step, Join, Leave, Input, Reconnect, ImportState, for any players,      *)
(* limits, imports and generations: the members agree with their inputs,   *)
(* states and metric, and in good order a recovery pack has no hole.       *)
THEOREM WholeRooms == Spec => []RoomIsWhole
<1>1. FramesInv => RoomIsWhole
      BY FrameBegins, LP!FrameMeans, FrameMeans DEF FramesInv, RoomIsWhole
<1> QED  BY <1>1, FramesStart, FramesStep, PTL DEF Spec

-----------------------------------------------------------------------------
(* The list of the processes. *)
LEMMA ListingBegins == LP!DiscoveryParams /\ (Listing!DSInit => LP!DSInit)
BY StepsParams DEF Listing!DiscoveryParams, LP!DiscoveryParams, Listing!DSInit, LP!DSInit,
   StepsParams

LEMMA ListingNext == Listing!DSNext => LP!DSNext
BY DEF Listing!DSNext, LP!DSNext, Listing!Register, LP!Register, Listing!Registration,
   LP!Registration, Listing!LostEarly, LP!LostEarly, Listing!Stop, LP!Stop, Listing!Close,
   LP!Close, Listing!Crash, LP!Crash, Listing!Expire, LP!Expire, Listing!ExpireHeld,
   LP!ExpireHeld, Listing!Compact, LP!Compact, Listing!LateDelete, LP!LateDelete,
   Listing!Watching, LP!Watching, Listing!Drop, LP!Drop, Listing!Ended, LP!Ended,
   Listing!Goes, LP!Goes, Listing!etcd, LP!etcd, Listing!resolver, LP!resolver,
   Listing!Grant, LP!Grant, Listing!GiveUp, LP!GiveUp, Listing!Put, LP!Put,
   Listing!KeepAlive, LP!KeepAlive, Listing!Unput, LP!Unput, Listing!Revoke, LP!Revoke,
   Listing!Lost, LP!Lost, Listing!EndLive, LP!EndLive, Listing!Cleanup, LP!Cleanup,
   Listing!Loses, LP!Loses, Listing!Fault, LP!Fault, Listing!Ends, LP!Ends, Listing!Held,
   LP!Held, Listing!Expires, LP!Expires, Listing!NoFault, LP!NoFault, Listing!proc, LP!proc,
   Listing!Changes, LP!Changes, Listing!Read, LP!Read, Listing!Connect, LP!Connect,
   Listing!Deliver, LP!Deliver, Listing!Grants, LP!Grants, Listing!Failed, LP!Failed,
   Listing!DeleteKey, LP!DeleteKey, Listing!RevokeLease, LP!RevokeLease, Listing!EndsLease,
   LP!EndsLease, Listing!Present, LP!Present, Listing!Refresh, LP!Refresh,
   Listing!Untouched, LP!Untouched

LEMMA ListingMeans ==
    ASSUME LP!DSTypeOK /\ LP!LiveIsListed /\ LP!StaleIsTold
    PROVE  Listing!DSTypeOK /\ Listing!LiveIsListed /\ Listing!StaleIsTold
BY DEF Listing!DSTypeOK, LP!DSTypeOK, Listing!LiveIsListed, LP!LiveIsListed,
   Listing!StaleIsTold, LP!StaleIsTold, Listing!Present, LP!Present

ListingInv == part = "listing" => (LP!ListInv /\ LP!ToldInv)

LEMMA ListingStart == Init => ListingInv
BY ListingBegins, LP!ListStart, LP!ToldStart DEF Init, ListingInv

LEMMA ListingStep == ListingInv /\ [Next]_<<part, v>> => ListingInv'
<1>1. ASSUME [Next]_<<part, v>>
      PROVE  part' = part /\ (part = "listing" => [LP!DSNext]_(LP!vars))
      BY <1>1, PartMoves, ListingNext DEF v, after3, after8, after9, after10, after12,
         after13, after14, after15, after16, after17,
          LP!vars, LP!etcd, LP!proc, LP!resolver
<1> QED  BY <1>1, ListingBegins, LP!ListStep, LP!ToldStep DEF ListingInv

-----------------------------------------------------------------------------
(* The proof module of the queues, for the second pool and its timers. *)
AP == INSTANCE QueuesProof WITH
    NoJob <- None, Capacity <- QueueCapacity, States <- DeadStates,
    caller <- v1, queueOf <- v2, done <- v3, table <- v4, created <- v5,
    ch <- v6, stop <- v7, worker <- v8, job <- v9, closed <- v10,
    senderClosed <- v11, closing <- v12, condemned <- v13,
    items <- v1, head <- v2, index <- v3,
    Workers <- PoolWorkers, QueueSize <- PoolSize,
    gen <- v1, shut <- v2, cut <- v3, tasks <- v4, active <- v5, sub <- v6,
    of <- v7, cancelled <- v8, result <- v9, runner <- v10, task <- v11,
    attempt <- v12, stopping <- v13,
    KindOf <- TimerKinds,
    serial <- v1, timers <- v2, byName <- v3, byScope <- v4, nameLoc <- v5,
    reg <- v6, errands <- v7, silenced <- v8, orphans <- v9,
    Tasks <- AgainTasks, NameOf <- AgainNames, Retries <- AgainRetries, MaxStarts <- MaxStarts,
    Uses <- CronUses, Migrates <- CronMigrates, MaxTimers <- MaxCrons

-----------------------------------------------------------------------------
(* The task pool that is started again. *)
LEMMA RestartsBegins == AP!P!AsyncPoolParams /\ (Restarts!APInit => AP!P!APInit)
BY StepsParams DEF Restarts!AsyncPoolParams, AP!P!AsyncPoolParams, Restarts!APInit,
   AP!P!APInit,
   Restarts!Gens, AP!P!Gens, Restarts!Names, AP!P!Names, StepsParams

LEMMA RestartsGoes == Restarts!APNext => AP!P!APNext
BY DEF Restarts!APNext, AP!P!APNext, Restarts!Submit, AP!P!Submit, Restarts!End, AP!P!End,
   Restarts!Names, AP!P!Names, Restarts!Kill, AP!P!Kill, Restarts!Loop, AP!P!Loop,
   Restarts!RunItem, AP!P!RunItem, Restarts!EndItem, AP!P!EndItem, Restarts!Start,
   AP!P!Start, Restarts!Stop, AP!P!Stop, Restarts!Begin, AP!P!Begin, Restarts!Register,
   AP!P!Register, Restarts!Offer, AP!P!Offer, Restarts!FindFull, AP!P!FindFull,
   Restarts!Unblock, AP!P!Unblock, Restarts!Reclaim, AP!P!Reclaim, Restarts!work, AP!P!work,
   Restarts!Works, AP!P!Works, Restarts!CtxDone, AP!P!CtxDone, Restarts!Ends, AP!P!Ends,
   Restarts!Runs, AP!P!Runs, Restarts!Unregister, AP!P!Unregister, Restarts!Close,
   AP!P!Close, Restarts!Cut, AP!P!Cut, Restarts!DrainTasks, AP!P!DrainTasks, Restarts!Wait,
   AP!P!Wait, Restarts!Submits, AP!P!Submits, Restarts!Room, AP!P!Room, Restarts!Put,
   AP!P!Put, Restarts!TakeBack, AP!P!TakeBack, Restarts!Finish, AP!P!Finish

LEMMA RestartsMean ==
    ASSUME AP!P!APTypeOK /\ AP!P!AcceptedEndsOnce /\ AP!P!RefusedNeverRuns /\
           AP!P!KillReaches
    PROVE  Restarts!APTypeOK /\ Restarts!AcceptedEndsOnce /\ Restarts!RefusedNeverRuns /\
           Restarts!KillReaches
BY DEF Restarts!APTypeOK, AP!P!APTypeOK, Restarts!AcceptedEndsOnce, AP!P!AcceptedEndsOnce,
   Restarts!RefusedNeverRuns, AP!P!RefusedNeverRuns, Restarts!KillReaches, AP!P!KillReaches,
   Restarts!Gens, AP!P!Gens, Restarts!Names, AP!P!Names, Restarts!AcceptedEnds,
   AP!P!AcceptedEnds, Restarts!Held, AP!P!Held, Restarts!CtxDone, AP!P!CtxDone,
   Restarts!Settled, AP!P!Settled

RestartsInv == part = "restarts" => AP!PoolInv

LEMMA RestartsStart == Init => RestartsInv
BY RestartsBegins, AP!PoolStart DEF Init, RestartsInv

LEMMA RestartsStep == RestartsInv /\ [Next]_<<part, v>> => RestartsInv'
<1>1. ASSUME [Next]_<<part, v>>
      PROVE  part' = part /\ (part = "restarts" => [AP!P!APNext]_(AP!P!vars))
      BY <1>1, PartMoves, RestartsGoes DEF v, after3, after8, after9, after10, after12,
         AP!P!vars, AP!P!work
<1> QED  BY <1>1, RestartsBegins, AP!PoolStep DEF RestartsInv

(* Submit, reclaimIfClosed, Stop, Kill, for any tasks, names, workers,     *)
(* retries, starts and length of the channel: what was accepted has a      *)
(* result when the first Stop returns, what was refused never runs, and    *)
(* Kill finds what runs under its name.                                    *)
THEOREM AcceptedAlwaysEnd == Spec => []AcceptedTasksEnd
<1>1. PoolInv /\ RestartsInv => AcceptedTasksEnd
      BY PoolBegins, QP!PoolMeans, PoolMeans, RestartsBegins, AP!PoolMeans, RestartsMean
      DEF PoolInv, RestartsInv, AcceptedTasksEnd
<1> QED  BY <1>1, PoolStart, PoolStep, RestartsStart, RestartsStep, PTL DEF Spec

-----------------------------------------------------------------------------
(* The timers, with a cron among them. *)
LEMMA CronsBegin == AP!T!TimerParams /\ (Crons!Init => AP!T!Init)
BY StepsParams DEF Crons!TimerParams, AP!T!TimerParams, Crons!Init, AP!T!Init, Crons!Ids,
   AP!T!Ids,
   Crons!NoTimer, AP!T!NoTimer, Crons!NoRef, AP!T!NoRef, Crons!Idle, AP!T!Idle, StepsParams

LEMMA CronsGo == Crons!Next => AP!T!Next
BY ZenonT(60) DEF Crons!Next, AP!T!Next, Crons!Add, AP!T!Add, Crons!ImportCron,
   AP!T!ImportCron,
   Crons!FileCron, AP!T!FileCron, Crons!Register, AP!T!Register, Crons!CallStopper,
   AP!T!CallStopper, Crons!Ids, AP!T!Ids, Crons!StopHandle, AP!T!StopHandle,
   Crons!StopNamed, AP!T!StopNamed, Crons!StopScope, AP!T!StopScope, Crons!ImportTimer,
   AP!T!ImportTimer, Crons!Pop, AP!T!Pop, Crons!Run, AP!T!Run, Crons!StopAll, AP!T!StopAll,
   Crons!Close, AP!T!Close, Crons!Goes, AP!T!Goes, Crons!Idle, AP!T!Idle, Crons!Pair,
   AP!T!Pair, Crons!OldOne, AP!T!OldOne, Crons!File, AP!T!File, Crons!StopOne, AP!T!StopOne,
   Crons!NoRef, AP!T!NoRef, Crons!Drop, AP!T!Drop, Crons!Kind, AP!T!Kind, Crons!Refile,
   AP!T!Refile, Crons!Unregister, AP!T!Unregister, Crons!Live, AP!T!Live, Crons!tables,
   AP!T!tables, Crons!Sweep, AP!T!Sweep, Crons!Scoped, AP!T!Scoped

LEMMA CronsMean ==
    ASSUME AP!T!TSTypeOK /\ AP!T!ScopeReaches /\ AP!T!RegistryIsLive
    PROVE  Crons!TSTypeOK /\ Crons!ScopeReaches /\ Crons!RegistryIsLive
BY DEF Crons!TSTypeOK, AP!T!TSTypeOK, Crons!ScopeReaches, AP!T!ScopeReaches,
   Crons!RegistryIsLive, AP!T!RegistryIsLive, Crons!Ids, AP!T!Ids, Crons!NoRef, AP!T!NoRef,
   Crons!Live, AP!T!Live, Crons!Scoped, AP!T!Scoped, Crons!InTheMaking, AP!T!InTheMaking,
   Crons!Stopping, AP!T!Stopping, Crons!Own, AP!T!Own, Crons!Pair, AP!T!Pair, Crons!Kind,
   AP!T!Kind

CronsInv == part = "crons" => AP!TimersInv

LEMMA CronsStart == Init => CronsInv
BY CronsBegin, AP!TimersStart DEF Init, CronsInv

LEMMA CronsStep == CronsInv /\ [Next]_<<part, v>> => CronsInv'
<1>1. ASSUME [Next]_<<part, v>>
      PROVE  part' = part /\ (part = "crons" => [AP!T!Next]_(AP!T!vars))
      BY <1>1, PartMoves, CronsGo DEF v, after3, after8, AP!T!vars, AP!T!tables
<1> QED  BY <1>1, CronsBegin, AP!TimersStep DEF CronsInv

(* StopScope, StopAll, Close, ExportScope, ImportScope, for any            *)
(* goroutines, scopes, names, kinds and imports: no timer escapes the end  *)
(* of its scope, and a closure filed for migration belongs to a live one.  *)
THEOREM ReachedTimers == Spec => []TimersAreReached
<1>1. TimersInv /\ CronsInv => TimersAreReached
      BY TimersBegin, QP!TimersMean, TimersMean, CronsBegin, AP!TimersMean, CronsMean
      DEF TimersInv, CronsInv, TimersAreReached
<1> QED  BY <1>1, TimersStart, TimersStep, CronsStart, CronsStep, PTL DEF Spec

-----------------------------------------------------------------------------
(* The proof module of the cluster, for the second list. *)
RP == INSTANCE ClusterProof WITH
    Procs <- OneProc, MaxFaults <- RelistFaults,
    alive <- v1, granted <- v2, key <- v3, rev <- v4, floor <- v5,
    late <- v6, phase <- v7, again <- v8, tries <- v9, lease <- v10,
    fresh <- v11, ending <- v12, view <- v13, seen <- v14, lastRev <- v15,
    pos <- v16, gap <- v17, faults <- v18,
    Nodes <- SceneNodes, Home <- HomeOf, MaxMishaps <- TransferFaults,
    orderly <- v1, instance <- v2, life <- v3, route <- v4, member <- v5,
    objScene <- v6, ver <- v7, seq <- v8, wire <- v9, call <- v10, recv <- v11,
    transfers <- v12, mishaps <- v13, crossed <- v14,
    present <- v1, seats <- v2, crown <- v3, host <- v4, running <- v5, ready <- v6,
    offline <- v7, version <- v8, closed <- v9, watchers <- v10, pushed <- v11,
    got <- v12, errand <- v13, misses <- v14, watches <- v15,
    room <- v1, waits <- v2, ticking <- v3, destroyed <- v4, loopGen <- v5,
    lineage <- v6, loop <- v7, task <- v8, signalled <- v9, gauge <- v10,
    ops <- v11, calm <- v12

-----------------------------------------------------------------------------
(* The list, with other processes and failures. *)
LEMMA RelistingBegins == RP!DiscoveryParams /\ (Relisting!DSInit => RP!DSInit)
BY StepsParams DEF Relisting!DiscoveryParams, RP!DiscoveryParams, Relisting!DSInit, RP!DSInit,
   StepsParams

LEMMA RelistingNext == Relisting!DSNext => RP!DSNext
BY DEF Relisting!DSNext, RP!DSNext, Relisting!Register, RP!Register, Relisting!Registration,
   RP!Registration, Relisting!LostEarly, RP!LostEarly, Relisting!Stop, RP!Stop,
   Relisting!Close, RP!Close, Relisting!Crash, RP!Crash, Relisting!Expire, RP!Expire,
   Relisting!ExpireHeld, RP!ExpireHeld, Relisting!Compact, RP!Compact, Relisting!LateDelete,
   RP!LateDelete, Relisting!Watching, RP!Watching, Relisting!Drop, RP!Drop, Relisting!Ended,
   RP!Ended, Relisting!Goes, RP!Goes, Relisting!etcd, RP!etcd, Relisting!resolver,
   RP!resolver, Relisting!Grant, RP!Grant, Relisting!GiveUp, RP!GiveUp, Relisting!Put,
   RP!Put, Relisting!KeepAlive, RP!KeepAlive, Relisting!Unput, RP!Unput, Relisting!Revoke,
   RP!Revoke, Relisting!Lost, RP!Lost, Relisting!EndLive, RP!EndLive, Relisting!Cleanup,
   RP!Cleanup, Relisting!Loses, RP!Loses, Relisting!Fault, RP!Fault, Relisting!Ends,
   RP!Ends, Relisting!Held, RP!Held, Relisting!Expires, RP!Expires, Relisting!NoFault,
   RP!NoFault, Relisting!proc, RP!proc, Relisting!Changes, RP!Changes, Relisting!Read,
   RP!Read, Relisting!Connect, RP!Connect, Relisting!Deliver, RP!Deliver, Relisting!Grants,
   RP!Grants, Relisting!Failed, RP!Failed, Relisting!DeleteKey, RP!DeleteKey,
   Relisting!RevokeLease, RP!RevokeLease, Relisting!EndsLease, RP!EndsLease,
   Relisting!Present, RP!Present, Relisting!Refresh, RP!Refresh, Relisting!Untouched,
   RP!Untouched

LEMMA RelistingMeans ==
    ASSUME RP!DSTypeOK /\ RP!LiveIsListed /\ RP!StaleIsTold
    PROVE  Relisting!DSTypeOK /\ Relisting!LiveIsListed /\ Relisting!StaleIsTold
BY DEF Relisting!DSTypeOK, RP!DSTypeOK, Relisting!LiveIsListed, RP!LiveIsListed,
   Relisting!StaleIsTold, RP!StaleIsTold, Relisting!Present, RP!Present

RelistingInv == part = "relisting" => (RP!ListInv /\ RP!ToldInv)

LEMMA RelistingStart == Init => RelistingInv
BY RelistingBegins, RP!ListStart, RP!ToldStart DEF Init, RelistingInv

LEMMA RelistingStep == RelistingInv /\ [Next]_<<part, v>> => RelistingInv'
<1>1. ASSUME [Next]_<<part, v>>
      PROVE  part' = part /\ (part = "relisting" => [RP!DSNext]_(RP!vars))
      BY <1>1, PartMoves, RelistingNext DEF v, after3, after8, after9, after10, after12,
         after13, after14, after15, after16, after17,
          RP!vars, RP!etcd, RP!proc, RP!resolver
<1> QED  BY <1>1, RelistingBegins, RP!ListStep, RP!ToldStep DEF RelistingInv

(* Register, reregister, cleanupRegistration, watchLoop, for any processes *)
(* and any failures: who keeps its lease is listed under it, and a list    *)
(* that is stale is told so.                                               *)
THEOREM CurrentList == Spec => []ListIsCurrent
<1>1. ListingInv /\ RelistingInv => ListIsCurrent
      BY ListingBegins, LP!ToldTypes, LP!ListMeaning, ListingMeans,
         RelistingBegins, RP!ToldTypes, RP!ListMeaning, RelistingMeans
      DEF ListingInv, RelistingInv, LP!ToldInv, RP!ToldInv, ListIsCurrent
<1> QED  BY <1>1, ListingStart, ListingStep, RelistingStart, RelistingStep, PTL DEF Spec

-----------------------------------------------------------------------------
(* The proof module of the state of a game process, over the same state.   *)
(* Its theorems about a scene are not carried over: what stands for its    *)
(* parameters here are those of the part `scene'.                          *)
SP == INSTANCE GameStateProof WITH
    Handlers <- {"handler"}, Flushers <- Flushes, Evictors <- Evictions, Tiers <- StoreTiers,
    MaxSaves <- StoreSaves, MaxFaults <- StoreFaults,
    tier <- v1, mem <- v2, redis <- v3, mysql <- v4, dirty <- v5, online <- v6,
    pc <- v7, val <- v8, row <- v9, back <- v10, result <- v11, written <- v12,
    newest <- v13, faults <- v14, overlap <- v15,
    Nodes <- IdNodes, Limit <- IdLimit, Step <- IdStep,
    stored <- v1, loaded <- v2, hwm <- v3, ceiling <- v4,
    given <- v5, repeated <- v6, unsaved <- v7, forgot <- v8,
    Objects <- {a, b}, Callers <- {c1}, Places <- {3, 5, 7}, Radii <- {2, 4}, CellSize <- 1,
    ShardSize <- 4, Direct <- FALSE, Strays <- FALSE, MaxNested <- 2, MaxLost <- LostEvents,
    pos <- v1, radius <- v2, visible <- v3, maxR <- v4, held <- v5,
    batching <- v6, marked <- v7, pending <- v8, member <- v9, depth <- v10,
    open <- v11, batch <- v12, batchMu <- v13, client <- v14, call <- v15, lost <- v16

-----------------------------------------------------------------------------
(* The data store. *)
LEMMA StoreBegins == SP!StoreParams /\ (Store!Init => SP!Init)
BY StepsParams DEF SP!StoreParams, Store!DataStoreParams, SP!DataStoreParams, Store!Init,
   SP!Init, Store!Nothing,
   SP!Nothing, Store!Procs, SP!Procs, StepsParams

LEMMA StoreNext == Store!Next => SP!Next
<1>1. ASSUME NEW h
      PROVE  /\ Store!SaveBegin(h) => SP!SaveBegin(h)
             /\ Store!Enter(h) => SP!Enter(h)
             /\ Store!Flush(h) => SP!Flush(h)
             /\ Store!Leave(h) => SP!Leave(h)
             /\ Store!DeleteRow(h) => SP!DeleteRow(h)
             /\ Store!RemoveEntry(h) => SP!RemoveEntry(h)
      BY DEF Store!SaveBegin, SP!SaveBegin, Store!Enter, SP!Enter, Store!Flush, SP!Flush,
         Store!Leave, SP!Leave, Store!DeleteRow, SP!DeleteRow, Store!RemoveEntry,
         SP!RemoveEntry, Store!Go, SP!Go, Store!ViaMem, SP!ViaMem, Store!places, SP!places,
         Store!Snapshot, SP!Snapshot, Store!hands, SP!hands, Store!Persist, SP!Persist,
         Store!Alone, SP!Alone, Store!Nothing, SP!Nothing, Store!Unknown, SP!Unknown,
         Store!Take, SP!Take, Store!Procs, SP!Procs, Store!Writing, SP!Writing
<1>2. ASSUME NEW h
      PROVE  /\ Store!SavePut(h) => SP!SavePut(h)
             /\ Store!SaveMark(h) => SP!SaveMark(h)
             /\ Store!PersistRead(h) => SP!PersistRead(h)
             /\ Store!PersistExec(h) => SP!PersistExec(h)
             /\ Store!SetOffline(h) => SP!SetOffline(h)
      BY DEF Store!SavePut, SP!SavePut, Store!SaveMark, SP!SaveMark, Store!PersistRead,
         SP!PersistRead, Store!PersistExec, SP!PersistExec, Store!SetOffline, SP!SetOffline,
         Store!Go, SP!Go, Store!Source, SP!Source, Store!Nothing, SP!Nothing, Store!Take,
         SP!Take, Store!PersistFailed, SP!PersistFailed, Store!Fault, SP!Fault,
         Store!Persisted, SP!Persisted, Store!Snapshot, SP!Snapshot, Store!Return, SP!Return
<1>3. ASSUME NEW h
      PROVE  /\ Store!LoadSource(h) => SP!LoadSource(h)
             /\ Store!LoadDirtyTest(h) => SP!LoadDirtyTest(h)
             /\ Store!LoadReread(h) => SP!LoadReread(h)
             /\ Store!LoadFill(h) => SP!LoadFill(h)
             /\ Store!LoadMem(h) => SP!LoadMem(h)
      BY DEF Store!LoadSource, SP!LoadSource, Store!LoadDirtyTest, SP!LoadDirtyTest,
         Store!LoadReread, SP!LoadReread, Store!LoadFill, SP!LoadFill, Store!LoadMem,
         SP!LoadMem, Store!Nothing, SP!Nothing, Store!Return, SP!Return, Store!Go, SP!Go,
         Store!ReadRow, SP!ReadRow, Store!places, SP!places, Store!Persist, SP!Persist,
         Store!ViaMem, SP!ViaMem, Store!Alone, SP!Alone, Store!Snapshot, SP!Snapshot,
         Store!Evicting, SP!Evicting,
         Store!Take, SP!Take, Store!Procs, SP!Procs, Store!Writing, SP!Writing
<1>4. ASSUME NEW h
      PROVE  /\ Store!LoadCold(h) => SP!LoadCold(h)
             /\ Store!LoadColdSource(h) => SP!LoadColdSource(h)
             /\ Store!LoadRecheck(h) => SP!LoadRecheck(h)
             /\ Store!LoadFillMem(h) => SP!LoadFillMem(h)
      BY DEF Store!LoadCold, SP!LoadCold, Store!LoadColdSource, SP!LoadColdSource,
         Store!LoadRecheck, SP!LoadRecheck, Store!LoadFillMem, SP!LoadFillMem,
         Store!Nothing, SP!Nothing, Store!Go, SP!Go, Store!ReadRow, SP!ReadRow,
         Store!places, SP!places, Store!Return, SP!Return
<1>5. ASSUME NEW h
      PROVE  /\ Store!DeleteCache(h) => SP!DeleteCache(h)
             /\ Store!DeleteUnmark(h) => SP!DeleteUnmark(h)
             /\ Store!RemoveRow(h) => SP!RemoveRow(h)
             /\ Store!RemoveRedis(h) => SP!RemoveRedis(h)
             /\ Store!Evict(h) => SP!Evict(h)
             /\ Store!EvictExec(h) => SP!EvictExec(h)
      BY DEF Store!DeleteCache, SP!DeleteCache, Store!DeleteUnmark, SP!DeleteUnmark,
         Store!RemoveRow, SP!RemoveRow, Store!RemoveRedis, SP!RemoveRedis, Store!Evict,
         SP!Evict, Store!EvictExec, SP!EvictExec, Store!Nothing, SP!Nothing, Store!Go,
         SP!Go, Store!Fault, SP!Fault, Store!Unknown, SP!Unknown, Store!Take, SP!Take,
         Store!Snapshot, SP!Snapshot, Store!Alone, SP!Alone, Store!Procs, SP!Procs,
         Store!Writing, SP!Writing, Store!Unmarked, SP!Unmarked
<1>6. ASSUME NEW h, NEW memory, Store!LoadRedis(h, memory)
      PROVE  SP!LoadRedis(h, memory)
      BY <1>6 DEF Store!LoadRedis, SP!LoadRedis, Store!ViaMem, SP!ViaMem, Store!Nothing,
         SP!Nothing, Store!Return, SP!Return, Store!Snapshot, SP!Snapshot, Store!Go, SP!Go,
         Store!places, SP!places
<1> QED  BY <1>1, <1>2, <1>3, <1>4, <1>5, <1>6, ZenonT(60) DEF Store!Next, SP!Next,
         Store!Handle, SP!Handle, Store!Continue, SP!Continue, Store!Background,
         SP!Background

LEMMA StoreMeans ==
    ASSUME SP!DSTypeOK /\ SP!NewestIsSafe
    PROVE  Store!DSTypeOK /\ Store!NewestIsSafe
BY DEF Store!DSTypeOK, SP!DSTypeOK, Store!NewestIsSafe, SP!NewestIsSafe,
   Store!NewestIsHeld, SP!NewestIsHeld, Store!Values,
   SP!Values, Store!Procs, SP!Procs, Store!Unknown, SP!Unknown, Store!Detour, SP!Detour,
   Store!Source, SP!Source, Store!Snapshot, SP!Snapshot, Store!Nothing, SP!Nothing

LEMMA StoreLoads ==
    ASSUME SP!FreshLoads
    PROVE  Store!FreshLoads
BY DEF Store!FreshLoads, SP!FreshLoads, Store!Unknown, SP!Unknown, Store!Snapshot,
   SP!Snapshot

SavesInv == part = "store" => SP!StoreInv

LEMMA SavesStart == Init => SavesInv
BY StoreBegins, SP!StoreStart DEF Init, SavesInv

LEMMA SavesStep ==
    SavesInv /\ [Next]_<<part, v>> => SavesInv' /\ (part = "store" => Store!FreshLoads)
<1>1. ASSUME [Next]_<<part, v>>
      PROVE  part' = part /\ (part = "store" => [SP!Next]_(SP!vars))
      BY <1>1, PartMoves, StoreNext DEF v, after3, after8, after9, after10, after12,
         after13, after14, after15, SP!vars, SP!places, SP!hands
<1> QED  BY <1>1, StoreBegins, SP!StoreStep, SP!LoadsAreFresh, StoreLoads DEF SavesInv

(* Save, persistDirty, evictLRU, delMMO, for any flushes and evictions     *)
(* beside the requests of a key, any saves and faults: until calls meet    *)
(* that the store does not keep apart, the last saved value is never only  *)
(* where nobody will persist it from.                                      *)
THEOREM SavedIsSafe == Spec => []NewestIsSafe
<1>1. SavesInv => NewestIsSafe
      BY StoreBegins, SP!StoreMeaning, StoreMeans DEF SavesInv, NewestIsSafe
<1> QED  BY <1>1, SavesStart, SavesStep, PTL DEF Spec

(* getCache, LoadAll: a load of a cached key returns what the last         *)
(* completed save wrote, whatever flushes and failures come in between,    *)
(* until calls meet that the store does not keep apart.                    *)
THEOREM FreshLoad == Spec => LoadIsFresh
<1>1. SavesInv /\ [Next]_<<part, v>> => [part = "store" => Store!FreshLoads]_<<part, v>>
      BY SavesStep
<1> QED  BY <1>1, SavesStart, SavesStep, PTL DEF Spec, LoadIsFresh

-----------------------------------------------------------------------------
(* The numbers of objects. *)
LEMMA IdsBegin == SP!G!IdGeneratorParams /\ (Ids!IGInit => SP!G!IGInit)
BY StepsParams DEF Ids!IdGeneratorParams, SP!G!IdGeneratorParams, Ids!IGInit, SP!G!IGInit,
   StepsParams

LEMMA IdsGrowth ==
    ASSUME NEW n, NEW size
    PROVE  /\ Ids!Last(n) = SP!G!Last(n) /\ Ids!Reserved(n) = SP!G!Reserved(n)
           /\ Ids!Growth(Ids!Reserved(n), Ids!Last(n) + size)
                = SP!G!Growth(SP!G!Reserved(n), SP!G!Last(n) + size)
BY DEF Ids!Growth, SP!G!Growth, Ids!Padding, SP!G!Padding, Ids!Last, SP!G!Last,
       Ids!Reserved, SP!G!Reserved

LEMMA IdsGiveOut ==
    ASSUME NEW n, NEW counters
    PROVE  Ids!GiveOut(n, counters) <=> SP!G!GiveOut(n, counters)
BY DEF Ids!GiveOut, SP!G!GiveOut, Ids!Pack, SP!G!Pack

LEMMA IdsTake ==
    ASSUME NEW n, NEW size, Ids!Take(n, size)
    PROVE  SP!G!Take(n, size)
<1>1. Ids!Answered(n) <=> SP!G!Answered(n)
      BY IdsGrowth DEF Ids!Answered, SP!G!Answered, Ids!Remember, SP!G!Remember,
         Ids!GivesNothing, SP!G!GivesNothing
<1>2. Ids!NothingLeft(n, size) <=> SP!G!NothingLeft(n, size)
      BY IdsGrowth DEF Ids!NothingLeft, SP!G!NothingLeft
<1>3. Ids!Advanced(n, size) = SP!G!Advanced(n, size)
      BY IdsGrowth DEF Ids!Advanced, SP!G!Advanced
<1>4. Ids!FromSegment(n, size) <=> SP!G!FromSegment(n, size)
      BY <1>3, IdsGrowth, IdsGiveOut DEF Ids!FromSegment, SP!G!FromSegment, Ids!Remember,
         SP!G!Remember
<1>5. Ids!FromNewSegment(n, size) <=> SP!G!FromNewSegment(n, size)
      BY <1>3, IdsGrowth, IdsGiveOut DEF Ids!FromNewSegment, SP!G!FromNewSegment,
         Ids!Remember, SP!G!Remember, Ids!GivesNothing, SP!G!GivesNothing, Ids!Saved,
         SP!G!Saved, Ids!NotSaved, SP!G!NotSaved
<1> QED  BY <1>1, <1>2, <1>4, <1>5 DEF Ids!Take, SP!G!Take

LEMMA IdsNext == Ids!IGNext => SP!G!IGNext
BY IdsTake DEF Ids!IGNext, SP!G!IGNext, Ids!Next, SP!G!Next, Ids!Reserve, SP!G!Reserve,
   Ids!Restart, SP!G!Restart

LEMMA IdsMean ==
    ASSUME SP!G!WithinSegment /\ SP!G!IdsAreUnique
    PROVE  Ids!WithinSegment /\ Ids!IdsAreUnique
BY DEF Ids!WithinSegment, SP!G!WithinSegment, Ids!IdsAreUnique, SP!G!IdsAreUnique

NumbersInv == part = "ids" => (SP!IdInv /\ SP!G!WithinSegment)

LEMMA NumbersStart == Init => NumbersInv
BY IdsBegin, SP!IdStart DEF Init, NumbersInv

LEMMA NumbersStep == NumbersInv /\ [Next]_<<part, v>> => NumbersInv'
<1>1. ASSUME [Next]_<<part, v>>
      PROVE  part' = part /\ (part = "ids" => [SP!G!IGNext]_(SP!G!vars))
      BY <1>1, PartMoves, IdsNext DEF v, after3, SP!G!vars
<1> QED  BY <1>1, IdsBegin, SP!IdStep DEF NumbersInv

(* ensureLoaded, reserveSegment, make, for all nodes, segments, blocks and *)
(* limits: a number is handed out twice only by a node whose process ended *)
(* before its ceiling was in the store, and every process stays within the *)
(* segment it holds.                                                       *)
THEOREM UniqueIds == Spec => []IdsAreUnique
<1>1. NumbersInv => IdsAreUnique
      BY IdsBegin, SP!IdMeaning, IdsMean DEF NumbersInv, IdsAreUnique
<1> QED  BY <1>1, NumbersStart, NumbersStep, PTL DEF Spec

=============================================================================
