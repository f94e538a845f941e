------------------------- MODULE CrossNodeDelivery -------------------------
(***************************************************************************)
(* Reliable cross-node delivery of one game node (the sender) to another   *)
(* (the receiver): internal/transport/event.                               *)
(*                                                                         *)
(* The sender runs one deliver() per message id: a loop of NATS            *)
(* request/reply attempts with a per-attempt timeout and backoff, then the *)
(* in-memory dead-letter queue, which an operator can retry or clear.  The *)
(* receiver handles its subject serially: deduplicate, dispatch, register, *)
(* reply.  The network loses requests and replies; a reply that arrives    *)
(* after its attempt was given up finds no inbox.                          *)
(***************************************************************************)
EXTENDS Sequences, FiniteSets, CrossNodeParams

VARIABLES
    pc,         \* pc[m]: where the delivery of message m stands
    mode,       \* mode[m]: started by Send ("async"), SendSync ("sync") or DLQ.Retry ("retry")
    evtOf,      \* evtOf[m]: the event m carries
    attempt,    \* attempt[m]: current attempt, from 1
    origin,     \* origin[m]: the dead letter a "retry" redelivers
    ctxDone,    \* ctxDone[m]: m's context is cancelled or past its deadline
    reply,      \* reply[m]: the ACK in the inbox of m's current attempt
    closed,     \* reliableSender.closed
    closing,    \* Close: "open", "waiting" on wg, returned "ok" or "timeout"
    live,       \* liveNodes holds the receiver
    up,         \* the receiver is subscribed
    wire,       \* requests on their way, in order
    seen,       \* the receiver's LocalDeduper
    forgot,     \* history: ids the deduper held, or should have, and lost
    handled,    \* history: handled[m] counts dispatches that ran to the end
    crashes,    \* history: receiver crashes so far
    dlq         \* MemoryDLQ, oldest first

sender   == <<pc, mode, evtOf, attempt, origin, ctxDone, reply>>
receiver == <<up, seen, forgot, handled, crashes>>
vars     == <<sender, receiver, closed, closing, live, wire, dlq>>

Modes    == {"async", "sync", "retry"}
Started  == {"starting", "attempting", "waiting", "backoff"}
Terminal == {"acked", "rejected", "canceled", "expired", "dead", "refused"}
Statuses == {"ok", "dup", "fail", "reject"}
Requests == [id : Ids, att : 1 .. MaxAttempts]

DeadLetters == {dlq[i] : i \in 1 .. Len(dlq)}

(* The pending table: ids between pending.add and the deferred remove.     *)
Pending == {m \in Ids : pc[m] \in {"attempting", "waiting", "backoff"}}

(* Goroutines counted by the sender's WaitGroup.                           *)
Tracked == {m \in Ids : mode[m] = "async" /\ pc[m] \in Started}

Init ==
    /\ pc = [m \in Ids |-> "unused"]
    /\ mode = [m \in Ids |-> "async"]
    /\ evtOf = [m \in Ids |-> None]
    /\ attempt = [m \in Ids |-> 0]
    /\ origin = [m \in Ids |-> None]
    /\ ctxDone = [m \in Ids |-> FALSE]
    /\ reply = [m \in Ids |-> None]
    /\ closed = FALSE /\ closing = "open"
    /\ live = TRUE /\ up = TRUE
    /\ wire = <<>> /\ dlq = <<>>
    /\ seen = {} /\ forgot = {}
    /\ handled = [m \in Ids |-> 0]
    /\ crashes = 0

-----------------------------------------------------------------------------
(* Starting a delivery *)

Begin(m, e, md, from, next) ==
    /\ pc[m] = "unused"
    /\ pc' = [pc EXCEPT ![m] = next]
    /\ mode' = [mode EXCEPT ![m] = md]
    /\ evtOf' = [evtOf EXCEPT ![m] = e]
    /\ origin' = [origin EXCEPT ![m] = from]
    /\ UNCHANGED <<attempt, ctxDone, reply, receiver, closed, closing, live, wire, dlq>>

(* doSendToNode then Send with cfg.Async: the first, unlocked closed test. *)
Send(m, e) ==
    /\ live /\ ~closed
    /\ Begin(m, e, "async", None, "sending")

(* Mutation: the second closed test is missing. *)
RegisterUnchecked(m) ==
    /\ pc[m] = "sending"
    /\ pc' = [pc EXCEPT ![m] = "starting"]
    /\ UNCHANGED <<mode, evtOf, attempt, origin, ctxDone, reply,
                   receiver, closed, closing, live, wire, dlq>>

(* Send under sendMu: the second closed test, then wg.Add.                 *)
Register(m) ==
    /\ pc[m] = "sending"
    /\ pc' = [pc EXCEPT ![m] = IF closed THEN "refused" ELSE "starting"]
    /\ UNCHANGED <<mode, evtOf, attempt, origin, ctxDone, reply,
                   receiver, closed, closing, live, wire, dlq>>

SendSync(m, e) ==
    /\ live /\ ~closed
    /\ Begin(m, e, "sync", None, "starting")

(* MemoryDLQ.Retry -> retryDeadLetter: a fresh id, no closed test.         *)
Retry(m, d) ==
    /\ d \in DeadLetters
    /\ Begin(m, evtOf[d], "retry", d, "starting")

(* MemoryDLQ.Push: a full queue drops its oldest record.                   *)
PushDead(m) ==
    dlq' = IF m \in DeadLetters THEN dlq
           ELSE Append(IF Len(dlq) >= DLQCapacity THEN Tail(dlq) ELSE dlq, m)

(* MemoryDLQ.Remove once the index has found the record: close the gap.    *)
DropAt(i) ==
    dlq' = [j \in 1 .. Len(dlq) - 1 |-> dlq[IF j < i THEN j ELSE j + 1]]

(* deliver up to the retry loop: pending.add, or straight to the dead letters. *)
Start(m) ==
    /\ pc[m] = "starting"
    /\ IF Cardinality(Pending) >= PendingLimit
       THEN /\ pc' = [pc EXCEPT ![m] = "dead"]
            /\ PushDead(m)
            /\ UNCHANGED attempt
       ELSE /\ pc' = [pc EXCEPT ![m] = "attempting"]
            /\ attempt' = [attempt EXCEPT ![m] = 1]
            /\ UNCHANGED dlq
    /\ UNCHANGED <<mode, evtOf, origin, ctxDone, reply, receiver, closed, closing, live, wire>>

-----------------------------------------------------------------------------
(* One attempt and its outcomes *)

(* A retryable failure: back off, or give up.  An exhausted delivery whose *)
(* last error is a deadline is returned without a dead letter.             *)
FailAttempt(m, deadline) ==
    /\ reply' = [reply EXCEPT ![m] = None]
    /\ IF attempt[m] < MaxAttempts
       THEN /\ pc' = [pc EXCEPT ![m] = "backoff"]
            /\ UNCHANGED dlq
       ELSE IF deadline
       THEN /\ pc' = [pc EXCEPT ![m] = "expired"]
            /\ UNCHANGED dlq
       ELSE /\ pc' = [pc EXCEPT ![m] = "dead"]
            /\ PushDead(m)
    /\ UNCHANGED <<mode, evtOf, attempt, origin, ctxDone, receiver, closed, closing, live>>

(* requestAck fails at once: node not live, no responder, not connected.   *)
RequestFails(m) ==
    /\ pc[m] = "attempting" /\ ~ctxDone[m]
    /\ FailAttempt(m, FALSE)
    /\ UNCHANGED wire

(* The request leaves; it reaches the receiver's subscription or is lost.  *)
Request(m) ==
    /\ pc[m] = "attempting" /\ ~ctxDone[m] /\ live
    /\ pc' = [pc EXCEPT ![m] = "waiting"]
    /\ \/ up /\ wire' = Append(wire, [id |-> m, att |-> attempt[m]])
       \/ UNCHANGED wire
    /\ UNCHANGED <<mode, evtOf, attempt, origin, ctxDone, reply, receiver, closed, closing, live, dlq>>

(* Mutation: a rejected redelivery is taken for a success. *)
AckSucceedsOnReject(m) ==
    /\ pc[m] = "waiting" /\ reply[m] \in {"ok", "dup", "reject"}
    /\ pc' = [pc EXCEPT ![m] = IF mode[m] = "retry" THEN "clearing"
                               ELSE IF reply[m] = "reject" THEN "rejected" ELSE "acked"]
    /\ reply' = [reply EXCEPT ![m] = None]
    /\ UNCHANGED <<mode, evtOf, attempt, origin, ctxDone, receiver, closed, closing, live, wire, dlq>>

(* The attempt's reply arrives in time.  A "retry" still has to remove the *)
(* record it redelivered.                                                  *)
AckSucceeds(m) ==
    /\ pc[m] = "waiting" /\ reply[m] \in {"ok", "dup", "reject"}
    /\ pc' = [pc EXCEPT ![m] = IF reply[m] = "reject" THEN "rejected"
                               ELSE IF mode[m] = "retry" THEN "clearing" ELSE "acked"]
    /\ reply' = [reply EXCEPT ![m] = None]
    /\ UNCHANGED <<mode, evtOf, attempt, origin, ctxDone, receiver, closed, closing, live, wire, dlq>>

AckFails(m) ==
    /\ pc[m] = "waiting" /\ reply[m] = "fail"
    /\ FailAttempt(m, FALSE)
    /\ UNCHANGED wire

(* Mutation: the request is bounded by the caller's context only. *)
AckTimeoutByCaller(m) ==
    /\ pc[m] = "waiting" /\ ctxDone[m]
    /\ FailAttempt(m, TRUE)
    /\ UNCHANGED wire

AckTimeout(m) ==
    /\ pc[m] = "waiting"
    /\ FailAttempt(m, TRUE)
    /\ UNCHANGED wire

BackoffOver(m) ==
    /\ pc[m] = "backoff"
    /\ pc' = [pc EXCEPT ![m] = "attempting"]
    /\ attempt' = [attempt EXCEPT ![m] = @ + 1]
    /\ UNCHANGED <<mode, evtOf, origin, ctxDone, reply, receiver, closed, closing, live, wire, dlq>>

(* MemoryDLQ.Retry after deliver returned nil: Remove the old record, if   *)
(* it is still there.                                                      *)
ClearRecord(m) ==
    /\ pc[m] = "clearing"
    /\ pc' = [pc EXCEPT ![m] = "acked"]
    /\ \/ \E i \in 1 .. Len(dlq) : dlq[i] = origin[m] /\ DropAt(i)
       \/ origin[m] \notin DeadLetters /\ UNCHANGED dlq
    /\ UNCHANGED <<mode, evtOf, attempt, origin, ctxDone, reply, receiver, closed, closing, live, wire>>

(* The caller's context ends; a background one ends only through stopCh.   *)
CtxEnds(m) ==
    /\ pc[m] \in Started /\ ~ctxDone[m]
    /\ mode[m] = "async" => closed
    /\ ctxDone' = [ctxDone EXCEPT ![m] = TRUE]
    /\ UNCHANGED <<pc, mode, evtOf, attempt, origin, reply, receiver, closed, closing, live, wire, dlq>>

(* retry.Do (and the request inside it) sees the context done.             *)
Cancel(m) ==
    /\ m \in Pending /\ ctxDone[m]
    /\ pc' = [pc EXCEPT ![m] = "canceled"]
    /\ reply' = [reply EXCEPT ![m] = None]
    /\ UNCHANGED <<mode, evtOf, attempt, origin, ctxDone, receiver, closed, closing, live, wire, dlq>>

-----------------------------------------------------------------------------
(* The receiver: onRemoteEvent runs to completion, one message at a time *)

(* The reply reaches the inbox of the attempt it answers, or nobody.       *)
Respond(r, status) ==
    \/ /\ pc[r.id] = "waiting" /\ attempt[r.id] = r.att
       /\ reply' = [reply EXCEPT ![r.id] = status]
    \/ UNCHANGED reply

(* LocalDeduper.Seen of a new id: insert, evict another one beyond capacity. *)
Seen(m) ==
    \/ /\ Cardinality(seen \cup {m}) <= DedupCapacity
       /\ seen' = seen \cup {m}
       /\ UNCHANGED forgot
    \/ /\ Cardinality(seen \cup {m}) > DedupCapacity
       /\ \E old \in seen \ {m} :
            /\ seen' = (seen \ {old}) \cup {m}
            /\ forgot' = forgot \cup {old}

(* Mutation: the id is registered before the dispatch, as Seen alone would do. *)
DispatchAfterSeen(r) ==
    /\ Seen(r.id)
    /\ \/ handled' = [handled EXCEPT ![r.id] = @ + 1] /\ Respond(r, "ok")
       \/ Respond(r, "fail") /\ UNCHANGED handled

(* Mutation: a successful dispatch is not registered. *)
DispatchUnregistered(r) ==
    /\ UNCHANGED <<seen, forgot>>
    /\ \/ handled' = [handled EXCEPT ![r.id] = @ + 1] /\ Respond(r, "ok")
       \/ Respond(r, "fail") /\ UNCHANGED handled

(* dispatchLocal: the handlers succeed, return an error, or panic (the     *)
(* NATS dispatcher recovers; nothing is registered and nothing answered).  *)
Dispatch(r) ==
    \/ /\ handled' = [handled EXCEPT ![r.id] = @ + 1]
       /\ Seen(r.id)
       /\ Respond(r, "ok")
    \/ /\ Respond(r, "fail")
       /\ UNCHANGED <<handled, seen, forgot>>

OnRemoteEvent ==
    /\ up /\ wire # <<>>
    /\ LET r == Head(wire) IN
       \/ /\ evtOf[r.id] \in BadEvents
          /\ Respond(r, "reject")
          /\ UNCHANGED <<handled, seen, forgot>>
       \/ /\ evtOf[r.id] \notin BadEvents /\ r.id \in seen
          /\ Respond(r, "dup")
          /\ UNCHANGED <<handled, seen, forgot>>
       \/ /\ evtOf[r.id] \notin BadEvents /\ r.id \notin seen
          /\ Dispatch(r)
    /\ wire' = Tail(wire)
    /\ UNCHANGED <<pc, mode, evtOf, attempt, origin, ctxDone, closed, closing, live, up, crashes, dlq>>

(* A deduper record passes its TTL.                                        *)
ExpireSeen(m) ==
    /\ m \in seen
    /\ seen' = seen \ {m}
    /\ forgot' = forgot \cup {m}
    /\ UNCHANGED <<sender, closed, closing, live, up, wire, handled, crashes, dlq>>

(* The receiver dies, possibly between the dispatch and the registration   *)
(* of the message it is handling.                                          *)
Crash ==
    /\ up /\ crashes < MaxCrashes
    /\ up' = FALSE /\ seen' = {} /\ wire' = <<>> /\ crashes' = crashes + 1
    /\ \/ /\ forgot' = forgot \cup seen
          /\ UNCHANGED handled
       \/ /\ wire # <<>>
          /\ evtOf[Head(wire).id] \notin BadEvents /\ Head(wire).id \notin seen
          /\ handled' = [handled EXCEPT ![Head(wire).id] = @ + 1]
          /\ forgot' = forgot \cup seen \cup {Head(wire).id}
    /\ UNCHANGED <<sender, closed, closing, live, dlq>>

Restart ==
    /\ ~up /\ up' = TRUE
    /\ UNCHANGED <<sender, seen, forgot, handled, crashes, closed, closing, live, wire, dlq>>

-----------------------------------------------------------------------------
(* Closing, the node directory and the operator *)

(* refreshLiveNodes: the directory may lag behind the receiver both ways.  *)
RefreshLiveNodes ==
    /\ live' \in BOOLEAN
    /\ UNCHANGED <<sender, receiver, closed, closing, wire, dlq>>

(* Close under sendMu: set closed, close stopCh, go wait on the WaitGroup. *)
Close ==
    /\ ~closed
    /\ closed' = TRUE /\ closing' = "waiting"
    /\ UNCHANGED <<sender, receiver, live, wire, dlq>>

CloseReturns ==
    /\ closing = "waiting"
    /\ \/ Tracked = {} /\ closing' = "ok"
       \/ closing' = "timeout"
    /\ UNCHANGED <<sender, receiver, closed, live, wire, dlq>>

(* MemoryDLQ.Remove by the operator.                                       *)
Remove(d) ==
    /\ \E i \in 1 .. Len(dlq) : dlq[i] = d /\ DropAt(i)
    /\ UNCHANGED <<sender, receiver, closed, closing, live, wire>>

-----------------------------------------------------------------------------
Deliver(m) ==
    \/ Register(m) \/ Start(m) \/ RequestFails(m) \/ Request(m)
    \/ AckSucceeds(m) \/ AckFails(m) \/ AckTimeout(m)
    \/ BackoffOver(m) \/ Cancel(m) \/ ClearRecord(m)

Next ==
    \/ \E m \in Ids, e \in Events : Send(m, e) \/ SendSync(m, e)
    \/ \E m, d \in Ids : Retry(m, d)
    \/ \E m \in Ids : Deliver(m) \/ CtxEnds(m) \/ ExpireSeen(m) \/ Remove(m)
    \/ OnRemoteEvent \/ Crash \/ Restart
    \/ RefreshLiveNodes \/ Close \/ CloseReturns

Spec == Init /\ [][Next]_vars

(* Goroutines are scheduled and their timers fire.                         *)
FairSpec == Spec /\ (\A m \in Ids : WF_vars(Deliver(m))) /\ WF_vars(CloseReturns)

-----------------------------------------------------------------------------
(* Properties *)

(* Besides the types: deliver never goes beyond retry.Do's MaxAttempts,    *)
(* and the receiver's crashes stay within the model's bound.               *)
TypeOK ==
    /\ pc \in [Ids -> {"unused", "sending", "clearing"} \cup Started \cup Terminal]
    /\ mode \in [Ids -> Modes]
    /\ evtOf \in [Ids -> Events \cup {None}]
    /\ attempt \in [Ids -> 0 .. MaxAttempts]
    /\ origin \in [Ids -> Ids \cup {None}]
    /\ ctxDone \in [Ids -> BOOLEAN]
    /\ reply \in [Ids -> Statuses \cup {None}]
    /\ closed \in BOOLEAN
    /\ closing \in {"open", "waiting", "ok", "timeout"}
    /\ live \in BOOLEAN /\ up \in BOOLEAN
    /\ wire \in Seq(Requests)
    /\ seen \subseteq Ids /\ forgot \subseteq Ids
    /\ handled \in [Ids -> Nat]
    /\ crashes \in 0 .. MaxCrashes
    /\ dlq \in Seq(Ids)

(* At-least-once: a delivery reported as acknowledged was dispatched to    *)
(* the receiver's handlers to the end, whatever was lost, repeated,        *)
(* evicted or crashed on the way (onRemoteEvent tests with Contains and    *)
(* registers with Seen only after a successful dispatch).                  *)
AckedWasHandled ==
    \A m \in Ids : pc[m] \in {"acked", "clearing"} => handled[m] > 0

(* A message is handled twice only if the receiver's deduper lost its id:  *)
(* to capacity, to its TTL or to a crash.                                  *)
DuplicateNeedsForgetting ==
    \A m \in Ids : handled[m] > 1 => m \in forgot

(* pending.add never lets the in-flight table grow past its limit, with    *)
(* any number of deliveries and manual retries started concurrently.       *)
PendingBounded == Cardinality(Pending) <= PendingLimit

(* Close() returning nil means no background delivery is running and none  *)
(* will start: Send's two closed tests leave no gap between wg.Add and Wait. *)
CloseWaited ==
    closing = "ok" => Tracked = {}

(* A dead letter disappears only by being displaced, as the oldest record  *)
(* of a full queue that stays full, by the operator's Remove, or because a *)
(* redelivery of it was handled.                                           *)
KeptStep ==
    \A d \in DeadLetters :
        d \notin DeadLetters' =>
            \/ d = Head(dlq) /\ Len(dlq) = DLQCapacity /\ Len(dlq') = DLQCapacity
            \/ Remove(d)
            \/ \E m \in Ids : origin[m] = d /\ pc[m] = "clearing" /\ handled[m] > 0

DeadLetterKept == [][KeptStep]_vars

(* Every delivery that was accepted comes to an end: acknowledged,         *)
(* rejected, cancelled, given up or dead-lettered.                         *)
DeliveryEnds ==
    \A m \in Ids : pc[m] # "unused" ~> pc[m] \in Terminal

(* The package comment's "exhausted retries go to the dead-letter queue",  *)
(* and toDeadLetter's "an event whose retries failed always leaves a       *)
(* trace": a delivery that used up its attempts is a dead letter.          *)
ExhaustedIsDeadLetter ==
    \A m \in Ids :
        (pc[m] \in {"dead", "expired"} /\ attempt[m] = MaxAttempts)
            => m \in DeadLetters
=============================================================================
