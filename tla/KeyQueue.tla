------------------------------ MODULE KeyQueue ------------------------------
(***************************************************************************)
(* The per-player serial send queue of the cross-node event bus            *)
(* (SendQueueEventToPlayer, internal/transport/event/crossnode.go), for    *)
(* one player: callers hand a job to the player's queue and block for its  *)
(* result; one worker goroutine per queue sends the jobs; an idle worker   *)
(* retires its queue, and Close stops them all.  Players share nothing but *)
(* the mutex of the queue table, so one player is enough.                  *)
(***************************************************************************)
EXTENDS Naturals, Sequences, FiniteSets

CONSTANTS
    Calls,      \* calls of SendQueueEventToPlayer, each with one job
    NoJob,      \* a worker that is not sending
    Capacity,   \* defaultKeyQueueCapacity
    MaxQueues   \* bound on the queues created for the player over time

KeyQueueParams ==
    Capacity \in Nat \ {0} /\ MaxQueues \in Nat \ {0} /\ NoJob \notin Calls

Queues == 1 .. MaxQueues

VARIABLES
    caller,     \* caller[c]: where call c stands, or what it returned
    queueOf,    \* queueOf[c]: the queue getKeyQueue gave it
    done,       \* done[c]: the result in the job's one-slot channel
    table,      \* keyQueues[uid]: the player's queue, 0 for none
    created,    \* queues created so far
    ch,         \* ch[q]: the queue's buffered channel
    stop,       \* stop[q]: the stop channel is closed
    worker,     \* worker[q]: the queue's goroutine
    job,        \* job[q]: the call whose job the worker is sending
    closed,     \* the bus is closed
    senderClosed, \* the reliable sender under it is closed
    closing,    \* progress of Close
    condemned   \* the queues Close took out of the table and still has to stop

vars == <<caller, queueOf, done, table, created, ch, stop, worker, job,
          closed, senderClosed, closing, condemned>>

Results  == {"sent", "failed", "senderClosed"}
Returned == Results \cup {"busClosed", "stopped", "unprocessed"}

Busy == {q \in Queues : worker[q] \in {"sending", "drainSending"}}
Running == {q \in Queues : worker[q] \notin {"none", "exited"}}

Init ==
    /\ caller = [c \in Calls |-> "idle"]
    /\ queueOf = [c \in Calls |-> 0]
    /\ done = [c \in Calls |-> "none"]
    /\ table = 0 /\ created = 0
    /\ ch = [q \in Queues |-> <<>>]
    /\ stop = [q \in Queues |-> FALSE]
    /\ worker = [q \in Queues |-> "none"]
    /\ job = [q \in Queues |-> NoJob]
    /\ closed = FALSE /\ senderClosed = FALSE
    /\ closing = "open" /\ condemned = {}

-----------------------------------------------------------------------------
(* Callers *)

(* The unlocked closed test.                                               *)
Call(c) ==
    /\ caller[c] = "idle"
    /\ caller' = [caller EXCEPT ![c] = IF closed THEN "busClosed" ELSE "entered"]
    /\ UNCHANGED <<queueOf, done, table, created, ch, stop, worker, job,
                   closed, senderClosed, closing, condemned>>

(* getKeyQueue, under keyQueuesMu: find the player's queue or start one.   *)
GetKeyQueue(c) ==
    /\ caller[c] = "entered"
    /\ \/ /\ closed
          /\ caller' = [caller EXCEPT ![c] = "busClosed"]
          /\ UNCHANGED <<queueOf, table, created, worker>>
       \/ /\ ~closed /\ table # 0
          /\ caller' = [caller EXCEPT ![c] = "enqueuing"]
          /\ queueOf' = [queueOf EXCEPT ![c] = table]
          /\ UNCHANGED <<table, created, worker>>
       \/ /\ ~closed /\ table = 0 /\ created < MaxQueues
          /\ created' = created + 1
          /\ table' = created + 1
          /\ caller' = [caller EXCEPT ![c] = "enqueuing"]
          /\ queueOf' = [queueOf EXCEPT ![c] = created + 1]
          /\ worker' = [worker EXCEPT ![created + 1] = "waiting"]
    /\ UNCHANGED <<done, ch, stop, job, closed, senderClosed, closing, condemned>>

(* The select of channel and stop: either branch when both are ready.      *)
Enqueue(c) ==
    /\ caller[c] = "enqueuing"
    /\ Len(ch[queueOf[c]]) < Capacity
    /\ ch' = [ch EXCEPT ![queueOf[c]] = Append(@, c)]
    /\ caller' = [caller EXCEPT ![c] = "awaiting"]
    /\ UNCHANGED <<queueOf, done, table, created, stop, worker, job,
                   closed, senderClosed, closing, condemned>>

EnqueueStopped(c) ==
    /\ caller[c] = "enqueuing" /\ stop[queueOf[c]]
    /\ caller' = [caller EXCEPT ![c] = "stopped"]
    /\ UNCHANGED <<queueOf, done, table, created, ch, stop, worker, job,
                   closed, senderClosed, closing, condemned>>

(* Mutation: the caller waits for stop instead of drained. *)
AwaitStop(c) ==
    /\ caller[c] = "awaiting"
    /\ \/ /\ done[c] # "none"
          /\ caller' = [caller EXCEPT ![c] = done[c]]
       \/ /\ done[c] = "none" /\ stop[queueOf[c]]
          /\ caller' = [caller EXCEPT ![c] = "unprocessed"]
    /\ UNCHANGED <<queueOf, done, table, created, ch, stop, worker, job,
                   closed, senderClosed, closing, condemned>>

(* The result, or the end of the queue's worker with no result.            *)
Await(c) ==
    /\ caller[c] = "awaiting"
    /\ \/ /\ done[c] # "none"
          /\ caller' = [caller EXCEPT ![c] = done[c]]
       \/ /\ done[c] = "none" /\ worker[queueOf[c]] = "exited"
          /\ caller' = [caller EXCEPT ![c] = "unprocessed"]
    /\ UNCHANGED <<queueOf, done, table, created, ch, stop, worker, job,
                   closed, senderClosed, closing, condemned>>

-----------------------------------------------------------------------------
(* The worker: runKeyQueue, drainKeyQueue, processQueuedSend *)

(* Take a job.  Once the reliable sender is closed SendSync refuses it at  *)
(* once (the lookup of the player's node may fail or find it local first); *)
(* otherwise the send takes its time.                                      *)
TakeJob(q) ==
    /\ worker[q] \in {"waiting", "draining"} /\ ch[q] # <<>>
    /\ ch' = [ch EXCEPT ![q] = Tail(@)]
    /\ IF senderClosed
       THEN /\ \E r \in Results : done' = [done EXCEPT ![Head(ch[q])] = r]
            /\ UNCHANGED <<worker, job>>
       ELSE /\ worker' = [worker EXCEPT ![q] = IF @ = "waiting" THEN "sending" ELSE "drainSending"]
            /\ job' = [job EXCEPT ![q] = Head(ch[q])]
            /\ UNCHANGED done
    /\ UNCHANGED <<caller, queueOf, table, created, stop, closed, senderClosed, closing, condemned>>

(* The send returns, fails or panics; the result always reaches the job.   *)
FinishJob(q) ==
    /\ q \in Busy
    /\ \E r \in {"sent", "failed"} : done' = [done EXCEPT ![job[q]] = r]
    /\ worker' = [worker EXCEPT ![q] = IF @ = "sending" THEN "waiting" ELSE "draining"]
    /\ job' = [job EXCEPT ![q] = NoJob]
    /\ UNCHANGED <<caller, queueOf, table, created, ch, stop, closed, senderClosed, closing, condemned>>

(* Mutation: the retired queue's stop channel stays open. *)
RetireSilently(q) ==
    /\ worker[q] = "waiting" /\ table = q /\ ch[q] = <<>>
    /\ table' = 0
    /\ worker' = [worker EXCEPT ![q] = "draining"]
    /\ UNCHANGED <<caller, queueOf, done, created, ch, stop, job, closed, senderClosed, closing, condemned>>

(* The idle timer: retireKeyQueue, under keyQueuesMu, if the queue is      *)
(* still the player's and empty.                                           *)
Retire(q) ==
    /\ worker[q] = "waiting" /\ table = q /\ ch[q] = <<>>
    /\ table' = 0
    /\ stop' = [stop EXCEPT ![q] = TRUE]
    /\ worker' = [worker EXCEPT ![q] = "draining"]
    /\ UNCHANGED <<caller, queueOf, done, created, ch, job, closed, senderClosed, closing, condemned>>

SeeStop(q) ==
    /\ worker[q] = "waiting" /\ stop[q]
    /\ worker' = [worker EXCEPT ![q] = "draining"]
    /\ UNCHANGED <<caller, queueOf, done, table, created, ch, stop, job,
                   closed, senderClosed, closing, condemned>>

(* The drain found the channel empty: close drained and leave.             *)
Exit(q) ==
    /\ worker[q] = "draining" /\ ch[q] = <<>>
    /\ worker' = [worker EXCEPT ![q] = "exited"]
    /\ UNCHANGED <<caller, queueOf, done, table, created, ch, stop, job,
                   closed, senderClosed, closing, condemned>>

-----------------------------------------------------------------------------
(* CrossNodeEventBus.Close, step by step *)

CloseStep(from, to) == closing = from /\ closing' = to

CloseBegin ==
    /\ CloseStep("open", "begun")
    /\ closed' = TRUE
    /\ UNCHANGED <<caller, queueOf, done, table, created, ch, stop, worker, job, senderClosed, condemned>>

(* The reliable sender goes first.                                         *)
CloseSender ==
    /\ CloseStep("begun", "senderClosed")
    /\ senderClosed' = TRUE
    /\ UNCHANGED <<caller, queueOf, done, table, created, ch, stop, worker, job, closed, condemned>>

(* Empty the table under keyQueuesMu, then close the stop channels.        *)
CloseTable ==
    /\ CloseStep("senderClosed", "stopping")
    /\ condemned' = {table} \ {0}
    /\ table' = 0
    /\ UNCHANGED <<caller, queueOf, done, created, ch, stop, worker, job, closed, senderClosed>>

CloseStops ==
    /\ CloseStep("stopping", "waiting")
    /\ stop' = [q \in Queues |-> stop[q] \/ q \in condemned]
    /\ condemned' = {}
    /\ UNCHANGED <<caller, queueOf, done, table, created, ch, worker, job, closed, senderClosed>>

(* keyQueueWg, at most keyQueueStopTimeout.                                *)
CloseReturns ==
    /\ \/ Running = {} /\ CloseStep("waiting", "ok")
       \/ CloseStep("waiting", "timeout")
    /\ UNCHANGED <<caller, queueOf, done, table, created, ch, stop, worker, job,
                   closed, senderClosed, condemned>>

-----------------------------------------------------------------------------
CallerStep(c) ==
    \/ GetKeyQueue(c) \/ Enqueue(c) \/ EnqueueStopped(c) \/ Await(c)

WorkerStep(q) ==
    \/ TakeJob(q) \/ FinishJob(q) \/ SeeStop(q) \/ Exit(q)

CloseGoesOn == CloseSender \/ CloseTable \/ CloseStops \/ CloseReturns

Next ==
    \/ \E c \in Calls : Call(c) \/ CallerStep(c)
    \/ \E q \in Queues : WorkerStep(q) \/ Retire(q)
    \/ CloseBegin \/ CloseGoesOn

Spec == Init /\ [][Next]_vars

(* Goroutines are scheduled, sends end (each is bounded by its retries).   *)
(* Whether an idle timer fires or the bus is closed is left open.          *)
FairSpec ==
    /\ Spec
    /\ \A c \in Calls : WF_vars(CallerStep(c))
    /\ \A q \in Queues : WF_vars(WorkerStep(q))
    /\ WF_vars(CloseGoesOn)

-----------------------------------------------------------------------------
(* Properties *)

(* Besides the types: a queue's channel never holds more than its capacity *)
(* (an enqueue waits), and the table names a queue that was created.       *)
TypeOK ==
    /\ caller \in [Calls -> {"idle", "entered", "enqueuing", "awaiting"} \cup Returned]
    /\ queueOf \in [Calls -> 0 .. MaxQueues]
    /\ done \in [Calls -> Results \cup {"none"}]
    /\ table \in 0 .. created /\ created \in 0 .. MaxQueues
    /\ ch \in [Queues -> Seq(Calls)] /\ \A q \in Queues : Len(ch[q]) <= Capacity
    /\ stop \in [Queues -> BOOLEAN]
    /\ worker \in [Queues -> {"none", "waiting", "sending", "draining", "drainSending", "exited"}]
    /\ job \in [Queues -> Calls \cup {NoJob}]
    /\ closed \in BOOLEAN /\ senderClosed \in BOOLEAN
    /\ closing \in {"open", "begun", "senderClosed", "stopping", "waiting", "ok", "timeout"}
    /\ condemned \subseteq Queues

(* SendQueueEventToPlayer's comment: waiting for drained, not for stop, is *)
(* what keeps a delivered job from being reported as unprocessed.  A call  *)
(* told that its job was not processed is right, then and for ever: no     *)
(* worker has it and no worker has a result for it.                        *)
UnprocessedIsTrue ==
    \A c \in Calls : caller[c] \in {"busClosed", "stopped", "unprocessed"}
        => done[c] = "none" /\ \A q \in Queues : job[q] # c

(* A queue in the table is being served: a caller is never handed a queue  *)
(* whose worker has left or is leaving (retireKeyQueue tests and removes   *)
(* under the mutex getKeyQueue takes).                                     *)
TableIsServed ==
    table # 0 => worker[table] \in {"waiting", "sending"} /\ ~stop[table]

(* Close returning in time means that no worker is left, and none starts.  *)
CloseEndsWorkers == closing = "ok" => Running = {} /\ table = 0

(* Every call returns, whatever retires, closes or fills the queue.  (The  *)
(* bound on created queues is the model's: a call kept out by it is not    *)
(* the code's.)                                                            *)
Waiting(c)  == caller[c] \in {"enqueuing", "awaiting"}
Answered(c) == caller[c] \in Returned
CallsReturn == \A c \in Calls : Waiting(c) ~> Answered(c)

(* SendQueueEventToPlayer's comment: "executed in order by a single        *)
(* worker, so that several goroutines do not wait for ACKs concurrently".  *)
SingleWorker == Cardinality(Busy) <= 1
=============================================================================
