----------------------- MODULE CrossNodeDeliveryProof -----------------------
(***************************************************************************)
(* Proofs about CrossNodeDelivery for every value of its constants: types, *)
(* at-least-once, duplicates only after forgetting, the bounded in-flight  *)
(* table and what Close() promises.                                        *)
(***************************************************************************)
EXTENDS CrossNodeDelivery, FiniteSetTheorems, SequenceTheorems, TLAPS

(* Removing position i of the queue leaves a queue of the same messages.   *)
LEMMA DropAtType ==
    ASSUME TypeOK, NEW i \in 1 .. Len(dlq), DropAt(i)
    PROVE  dlq' \in Seq(Ids)
<1>1. \A j \in 1 .. Len(dlq) - 1 : dlq[IF j < i THEN j ELSE j + 1] \in Ids
  BY DEF TypeOK
<1>2. Len(dlq) - 1 \in Nat
  BY DEF TypeOK
<1>. QED  BY <1>1, <1>2, IsASeq DEF DropAt

LEMMA PushDeadType ==
    ASSUME TypeOK, NEW m \in Ids, PushDead(m)
    PROVE  dlq' \in Seq(Ids)
<1>1. CASE m \in DeadLetters
  BY <1>1 DEF TypeOK, PushDead
<1>2. CASE m \notin DeadLetters /\ Len(dlq) >= DLQCapacity
  <2>1. dlq # <<>>
    BY <1>2, ParamsOK DEF TypeOK
  <2>2. Tail(dlq) \in Seq(Ids)
    BY <2>1 DEF TypeOK
  <2>. QED  BY <1>2, <2>2 DEF PushDead
<1>3. CASE m \notin DeadLetters /\ ~(Len(dlq) >= DLQCapacity)
  BY <1>3 DEF TypeOK, PushDead
<1>. QED  BY <1>1, <1>2, <1>3

LEMMA FailAttemptType ==
    ASSUME TypeOK, NEW m \in Ids, NEW d \in BOOLEAN, FailAttempt(m, d)
    PROVE  /\ pc' \in [Ids -> {"unused", "sending", "clearing"} \cup Started \cup Terminal]
           /\ reply' \in [Ids -> Statuses \cup {None}]
           /\ dlq' \in Seq(Ids)
BY PushDeadType DEF TypeOK, FailAttempt, Started, Terminal

LEMMA BeginType ==
    ASSUME TypeOK, NEW m \in Ids, NEW e \in Events \cup {None}, NEW md \in Modes,
           NEW from \in Ids \cup {None}, NEW next \in {"sending", "starting"},
           Begin(m, e, md, from, next)
    PROVE  TypeOK'
BY DEF Begin, TypeOK, Started, receiver

LEMMA WireType ==
    ASSUME TypeOK, wire # <<>>
    PROVE  /\ Head(wire) \in Requests /\ Head(wire).id \in Ids
           /\ Tail(wire) \in Seq(Requests)
<1>1. wire \in Seq(Requests)
  BY DEF TypeOK
<1>2. Head(wire) \in Requests /\ Tail(wire) \in Seq(Requests)
  BY <1>1, HeadTailProperties, Zenon
<1>. QED  BY <1>2 DEF Requests

(* The attempt counter stays in range because only a failure with attempts *)
(* left leads to another one: the types need this to be inductive.         *)
AttemptsOK ==
    \A m \in Ids : /\ pc[m] \in {"attempting", "waiting", "backoff"} => attempt[m] >= 1
                   /\ pc[m] = "backoff" => attempt[m] < MaxAttempts

TypeInv == TypeOK /\ AttemptsOK

LEMMA TypeInit == Init => TypeInv
<1>. SUFFICES ASSUME Init PROVE TypeInv
  OBVIOUS
<1>1. <<>> \in Seq(Ids) /\ <<>> \in Seq(Requests)
  OBVIOUS
<1>2. 0 \in 0 .. MaxAttempts /\ 0 \in 0 .. MaxCrashes
  BY ParamsOK
<1>3. TypeOK
  BY <1>1, <1>2 DEF Init, TypeOK, Modes
<1>4. AttemptsOK
  BY DEF Init, AttemptsOK
<1>. QED  BY <1>3, <1>4 DEF TypeInv

LEMMA TypeStep == TypeInv /\ [Next]_vars => TypeOK'
<1>. SUFFICES ASSUME TypeOK, AttemptsOK, [Next]_vars PROVE TypeOK'
  BY DEF TypeInv
<1>. USE DEF TypeOK, sender, receiver, Started, Terminal
<1>1. ASSUME NEW m \in Ids, NEW e \in Events, Send(m, e) \/ SendSync(m, e)
      PROVE  TypeOK'
  <2>1. CASE Send(m, e)
    BY <2>1, BeginType DEF Send, Modes
  <2>2. CASE SendSync(m, e)
    BY <2>2, BeginType DEF SendSync, Modes
  <2>. QED  BY <1>1, <2>1, <2>2
<1>2. ASSUME NEW m \in Ids, NEW d \in Ids, Retry(m, d)
      PROVE  TypeOK'
  <2>1. evtOf[d] \in Events \cup {None}
    OBVIOUS
  <2>. QED  BY <1>2, <2>1, BeginType DEF Retry, Modes
<1>3. ASSUME NEW m \in Ids, Register(m)
      PROVE  TypeOK'
  BY <1>3 DEF Register
<1>4. ASSUME NEW m \in Ids, Start(m)
      PROVE  TypeOK'
  <2>1. 1 \in 0 .. MaxAttempts
    BY ParamsOK
  <2>2. dlq' \in Seq(Ids)
    BY <1>4, PushDeadType DEF Start
  <2>. QED  BY <1>4, <2>1, <2>2 DEF Start
<1>5. ASSUME NEW m \in Ids, RequestFails(m) \/ AckFails(m) \/ AckTimeout(m)
      PROVE  TypeOK'
  <2>1. /\ pc' \in [Ids -> {"unused", "sending", "clearing"} \cup Started \cup Terminal]
        /\ reply' \in [Ids -> Statuses \cup {None}]
        /\ dlq' \in Seq(Ids)
    BY <1>5, FailAttemptType DEF RequestFails, AckFails, AckTimeout
  <2>2. UNCHANGED <<mode, evtOf, attempt, origin, ctxDone, receiver, closed, closing, live, wire>>
    BY <1>5 DEF RequestFails, AckFails, AckTimeout, FailAttempt
  <2>. QED  BY <2>1, <2>2
<1>6. ASSUME NEW m \in Ids, Request(m)
      PROVE  TypeOK'
  <2>1. [id |-> m, att |-> attempt[m]] \in Requests
    BY <1>6, ParamsOK DEF Requests, Request, AttemptsOK
  <2>2. wire' \in Seq(Requests)
    <3>1. ASSUME NEW r \in Requests PROVE Append(wire, r) \in Seq(Requests)
      OBVIOUS
    <3>. QED  BY <1>6, <2>1, <3>1 DEF Request
  <2>. QED  BY <1>6, <2>2 DEF Request
<1>7. ASSUME NEW m \in Ids, AckSucceeds(m) \/ Cancel(m)
      PROVE  TypeOK'
  BY <1>7 DEF AckSucceeds, Cancel
<1>8. ASSUME NEW m \in Ids, BackoffOver(m)
      PROVE  TypeOK'
  <2>1. attempt[m] + 1 \in 0 .. MaxAttempts
    BY <1>8, ParamsOK DEF BackoffOver, AttemptsOK
  <2>. QED  BY <1>8, <2>1 DEF BackoffOver
<1>9. ASSUME NEW m \in Ids, ClearRecord(m)
      PROVE  TypeOK'
  <2>1. dlq' \in Seq(Ids)
    BY <1>9, DropAtType DEF ClearRecord
  <2>. QED  BY <1>9, <2>1 DEF ClearRecord
<1>10. ASSUME NEW m \in Ids, CtxEnds(m) \/ ExpireSeen(m)
      PROVE  TypeOK'
  BY <1>10 DEF CtxEnds, ExpireSeen
<1>11. ASSUME NEW m \in Ids, Remove(m)
      PROVE  TypeOK'
  <2>1. dlq' \in Seq(Ids)
    BY <1>11, DropAtType DEF Remove
  <2>. QED  BY <1>11, <2>1 DEF Remove
<1>12. CASE OnRemoteEvent
  <2>1. PICK r \in Requests : r = Head(wire)
    BY <1>12, WireType DEF OnRemoteEvent
  <2>2. r.id \in Ids /\ wire' \in Seq(Requests)
    BY <1>12, <2>1, WireType DEF OnRemoteEvent
  <2>3. reply' \in [Ids -> Statuses \cup {None}]
    <3>1. ASSUME NEW status \in Statuses, Respond(r, status)
          PROVE  reply' \in [Ids -> Statuses \cup {None}]
      BY <2>2, <3>1 DEF Respond
    <3>. QED  BY <1>12, <2>1, <3>1 DEF OnRemoteEvent, Dispatch, Statuses
  <2>4. seen' \subseteq Ids /\ forgot' \subseteq Ids /\ handled' \in [Ids -> Nat]
    <3>1. \/ UNCHANGED <<handled, seen, forgot>>
          \/ handled' = [handled EXCEPT ![r.id] = @ + 1] /\ Seen(r.id)
      BY <1>12, <2>1 DEF OnRemoteEvent, Dispatch
    <3>. QED  BY <2>2, <3>1 DEF Seen
  <2>. QED  BY <1>12, <2>2, <2>3, <2>4 DEF OnRemoteEvent
<1>13. CASE Crash
  <2>1. handled' \in [Ids -> Nat] /\ forgot' \subseteq Ids /\ <<>> \in Seq(Requests)
    BY <1>13, WireType DEF Crash
  <2>2. crashes' \in 0 .. MaxCrashes
    BY <1>13, ParamsOK DEF Crash
  <2>. QED  BY <1>13, <2>1, <2>2 DEF Crash
<1>14. CASE Restart \/ RefreshLiveNodes \/ Close \/ CloseReturns
  BY <1>14 DEF Restart, RefreshLiveNodes, Close, CloseReturns
<1>15. CASE UNCHANGED vars
  BY <1>15 DEF vars
<1>. QED
  BY <1>1, <1>2, <1>3, <1>4, <1>5, <1>6, <1>7, <1>8, <1>9, <1>10, <1>11,
     <1>12, <1>13, <1>14, <1>15 DEF Next, Deliver

LEMMA AttemptsStep == TypeInv /\ [Next]_vars => AttemptsOK'
<1>. SUFFICES ASSUME TypeOK, AttemptsOK, [Next]_vars PROVE AttemptsOK'
  BY DEF TypeInv
<1>. USE DEF AttemptsOK, sender, receiver
<1>1. pc \in [Ids -> {"unused", "sending", "clearing"} \cup Started \cup Terminal]
      /\ attempt \in [Ids -> 0 .. MaxAttempts]
  BY DEF TypeOK
<1>2. ASSUME NEW m \in Ids, NEW e \in Events, Send(m, e) \/ SendSync(m, e)
      PROVE  AttemptsOK'
  BY <1>1, <1>2 DEF Send, SendSync, Begin
<1>3. ASSUME NEW m \in Ids, NEW d \in Ids, Retry(m, d)
      PROVE  AttemptsOK'
  BY <1>1, <1>3 DEF Retry, Begin
<1>4. ASSUME NEW m \in Ids, Deliver(m)
      PROVE  AttemptsOK'
  <2>1. CASE Register(m) \/ Start(m)
    BY <1>1, <2>1 DEF Register, Start
  <2>2. CASE RequestFails(m) \/ AckFails(m) \/ AckTimeout(m)
    BY <1>1, <2>2 DEF RequestFails, AckFails, AckTimeout, FailAttempt
  <2>3. CASE Request(m) \/ AckSucceeds(m) \/ Cancel(m) \/ ClearRecord(m)
    BY <1>1, <2>3 DEF Request, AckSucceeds, Cancel, ClearRecord
  <2>4. CASE BackoffOver(m)
    BY <1>1, <2>4 DEF BackoffOver
  <2>. QED  BY <1>4, <2>1, <2>2, <2>3, <2>4 DEF Deliver
<1>5. ASSUME NEW m \in Ids, CtxEnds(m) \/ ExpireSeen(m) \/ Remove(m)
      PROVE  AttemptsOK'
  BY <1>1, <1>5 DEF CtxEnds, ExpireSeen, Remove
<1>6. CASE OnRemoteEvent \/ Crash \/ Restart \/ RefreshLiveNodes \/ Close \/ CloseReturns
  BY <1>1, <1>6 DEF OnRemoteEvent, Crash, Restart, RefreshLiveNodes, Close, CloseReturns
<1>7. CASE UNCHANGED vars
  BY <1>1, <1>7 DEF vars
<1>. QED  BY <1>2, <1>3, <1>4, <1>5, <1>6, <1>7 DEF Next

(* Type correctness: every variable keeps its type, the attempt counter    *)
(* never passes MaxAttempts.                                               *)
THEOREM TypeCorrect == Spec => []TypeOK
<1>1. Spec => []TypeInv
  <2>1. TypeInv /\ [Next]_vars => TypeInv'
    BY TypeStep, AttemptsStep DEF TypeInv
  <2>. QED  BY TypeInit, <2>1, PTL DEF Spec
<1>2. TypeInv => TypeOK
  BY DEF TypeInv
<1>. QED  BY <1>1, <1>2, PTL

-----------------------------------------------------------------------------
(* At-least-once and duplicates.  The reply and the deduper are the two    *)
(* witnesses of an earlier dispatch: both must be honest for the           *)
(* acknowledgement to be, and an id handled once must be in the deduper or *)
(* on the list of what it lost.                                            *)
Witnesses ==
    /\ \A m \in Ids : reply[m] \in {"ok", "dup"} => handled[m] > 0
    /\ \A m \in Ids : m \in seen => handled[m] > 0
    /\ \A m \in Ids : handled[m] > 0 => m \in seen \cup forgot

HandledInv == Witnesses /\ AckedWasHandled /\ DuplicateNeedsForgetting

LEMMA HandledInit == Init => HandledInv
BY ParamsOK DEF Init, HandledInv, Witnesses, AckedWasHandled, DuplicateNeedsForgetting

LEMMA HandledStep == TypeOK /\ HandledInv /\ [Next]_vars => HandledInv'
<1>. SUFFICES ASSUME TypeOK, HandledInv, [Next]_vars PROVE HandledInv'
  OBVIOUS
<1>. USE DEF HandledInv, Witnesses, AckedWasHandled, DuplicateNeedsForgetting, sender, receiver
<1>0. /\ pc \in [Ids -> {"unused", "sending", "clearing"} \cup Started \cup Terminal]
      /\ reply \in [Ids -> Statuses \cup {None}] /\ handled \in [Ids -> Nat]
  BY DEF TypeOK
<1>1. ASSUME NEW m \in Ids, NEW e, NEW md, NEW from, NEW next \in {"sending", "starting"},
             Begin(m, e, md, from, next)
      PROVE  HandledInv'
  BY <1>0, <1>1 DEF Begin
<1>2. ASSUME NEW m \in Ids, Deliver(m)
      PROVE  HandledInv'
  <2>1. CASE Register(m) \/ Start(m)
    BY <1>0, <2>1 DEF Register, Start
  <2>2. CASE RequestFails(m) \/ AckFails(m) \/ AckTimeout(m)
    BY <1>0, <2>2, ParamsOK DEF RequestFails, AckFails, AckTimeout, FailAttempt
  <2>3. CASE Request(m) \/ BackoffOver(m) \/ ClearRecord(m)
    BY <1>0, <2>3 DEF Request, BackoffOver, ClearRecord
  <2>4. CASE AckSucceeds(m)
    BY <1>0, <2>4, ParamsOK DEF AckSucceeds
  <2>5. CASE Cancel(m)
    BY <1>0, <2>5, ParamsOK DEF Cancel
  <2>. QED  BY <1>2, <2>1, <2>2, <2>3, <2>4, <2>5 DEF Deliver
<1>3. ASSUME NEW m \in Ids, CtxEnds(m) \/ ExpireSeen(m) \/ Remove(m)
      PROVE  HandledInv'
  BY <1>0, <1>3 DEF CtxEnds, ExpireSeen, Remove
<1>4. CASE OnRemoteEvent
  <2>1. PICK r \in Requests : r = Head(wire)
    BY <1>4, WireType DEF OnRemoteEvent
  <2>2. r.id \in Ids
    BY DEF Requests
  <2>3. CASE /\ Respond(r, "reject") \/ Respond(r, "fail")
             /\ UNCHANGED <<handled, seen, forgot>>
    BY <1>0, <1>4, <2>2, <2>3 DEF OnRemoteEvent, Respond
  <2>4. CASE /\ r.id \in seen /\ Respond(r, "dup")
             /\ UNCHANGED <<handled, seen, forgot>>
    BY <1>0, <1>4, <2>2, <2>4 DEF OnRemoteEvent, Respond
  <2>5. CASE /\ r.id \notin seen /\ Seen(r.id) /\ Respond(r, "ok")
             /\ handled' = [handled EXCEPT ![r.id] = @ + 1]
    <3>1. /\ \A m \in Ids : m # r.id => handled'[m] = handled[m]
          /\ handled'[r.id] = handled[r.id] + 1 /\ handled[r.id] \in Nat
      BY <1>0, <2>2, <2>5
    <3>2. /\ seen' \subseteq seen \cup {r.id} /\ r.id \in seen'
          /\ forgot \subseteq forgot'
          /\ \A m \in seen : m \in seen' \cup forgot'
      BY <2>5 DEF Seen
    <3>3. \A m \in Ids : reply'[m] = reply[m] \/ (m = r.id /\ reply'[m] = "ok")
      BY <1>0, <2>2, <2>5 DEF Respond
    <3>4. pc' = pc
      BY <1>4 DEF OnRemoteEvent
    <3>5. Witnesses'
      BY <3>1, <3>2, <3>3
    <3>6. AckedWasHandled'
      BY <3>1, <3>4
    <3>7. DuplicateNeedsForgetting'
      BY <2>5, <3>1, <3>2
    <3>. QED  BY <3>5, <3>6, <3>7
  <2>. QED  BY <1>4, <2>1, <2>3, <2>4, <2>5 DEF OnRemoteEvent, Dispatch
<1>5. CASE Crash
  <2>1. \/ UNCHANGED handled /\ forgot' = forgot \cup seen
        \/ \E h \in Ids : /\ handled' = [handled EXCEPT ![h] = @ + 1]
                          /\ h \notin seen
                          /\ forgot' = forgot \cup seen \cup {h}
    BY <1>5, WireType DEF Crash
  <2>. QED  BY <1>0, <1>5, <2>1 DEF Crash
<1>6. CASE Restart \/ RefreshLiveNodes \/ Close \/ CloseReturns
  BY <1>0, <1>6 DEF Restart, RefreshLiveNodes, Close, CloseReturns
<1>7. CASE UNCHANGED vars
  BY <1>0, <1>7 DEF vars
<1>. QED
  BY <1>1, <1>2, <1>3, <1>4, <1>5, <1>6, <1>7 DEF Next, Send, SendSync, Retry

(* At-least-once for every number of messages, attempts, capacities and    *)
(* crashes: an acknowledged delivery was dispatched to the end.            *)
THEOREM AcknowledgedWasHandled == Spec => []AckedWasHandled
<1>1. HandledInv => AckedWasHandled
  BY DEF HandledInv
<1>. QED  BY <1>1, TypeCorrect, HandledInit, HandledStep, PTL DEF Spec

(* A message handled twice is one whose id the receiver's deduper lost.    *)
THEOREM DuplicatesOnlyAfterForgetting == Spec => []DuplicateNeedsForgetting
<1>1. HandledInv => DuplicateNeedsForgetting
  BY DEF HandledInv
<1>. QED  BY <1>1, TypeCorrect, HandledInit, HandledStep, PTL DEF Spec

-----------------------------------------------------------------------------
(* The in-flight table: only Start adds to it, one id at a time and below  *)
(* the limit, so its cardinality stays defined and bounded.                *)
TableInv == IsFiniteSet(Pending) /\ PendingBounded

LEMMA TableInit == Init => TableInv
<1>. SUFFICES ASSUME Init PROVE TableInv
  OBVIOUS
<1>1. Pending = {}
  BY DEF Init, Pending
<1>. QED  BY <1>1, FS_EmptySet, ParamsOK DEF TableInv, PendingBounded

LEMMA TableShrinks ==
    ASSUME TableInv, Pending' \subseteq Pending
    PROVE  TableInv'
<1>1. IsFiniteSet(Pending') /\ Cardinality(Pending') <= Cardinality(Pending)
  BY FS_Subset DEF TableInv
<1>2. Cardinality(Pending) \in Nat /\ Cardinality(Pending') \in Nat
  BY <1>1, FS_CardinalityType DEF TableInv
<1>. QED  BY <1>1, <1>2, ParamsOK DEF TableInv, PendingBounded

LEMMA TableStep == TypeOK /\ TableInv /\ [Next]_vars => TableInv'
<1>. SUFFICES ASSUME TypeOK, TableInv, [Next]_vars PROVE TableInv'
  OBVIOUS
<1>0. pc \in [Ids -> {"unused", "sending", "clearing"} \cup Started \cup Terminal]
  BY DEF TypeOK
<1>1. ASSUME NEW m \in Ids, Start(m)
      PROVE  TableInv'
  <2>1. CASE Cardinality(Pending) >= PendingLimit
    <3>1. Pending' \subseteq Pending
      BY <1>0, <1>1, <2>1 DEF Start, Pending
    <3>. QED  BY <3>1, TableShrinks
  <2>2. CASE ~(Cardinality(Pending) >= PendingLimit)
    <3>1. Pending' = Pending \cup {m}
      BY <1>0, <1>1, <2>2 DEF Start, Pending
    <3>2. Cardinality(Pending) \in Nat
      BY FS_CardinalityType DEF TableInv
    <3>3. /\ IsFiniteSet(Pending')
          /\ \/ Cardinality(Pending') = Cardinality(Pending)
             \/ Cardinality(Pending') = Cardinality(Pending) + 1
      BY <3>1, FS_AddElement DEF TableInv
    <3>. QED  BY <2>2, <3>2, <3>3, ParamsOK DEF TableInv, PendingBounded
  <2>. QED  BY <2>1, <2>2
<1>2. ASSUME NEW m \in Ids, Deliver(m), ~Start(m)
      PROVE  Pending' \subseteq Pending
  BY <1>0, <1>2 DEF Deliver, Register, RequestFails, Request, AckSucceeds, AckFails, AckTimeout,
     FailAttempt, BackoffOver, Cancel, ClearRecord, Pending
<1>3. ASSUME NEW m \in Ids, NEW e, NEW md, NEW from, NEW next \in {"sending", "starting"},
             Begin(m, e, md, from, next)
      PROVE  Pending' \subseteq Pending
  BY <1>0, <1>3 DEF Begin, Pending
<1>4. ASSUME \/ \E m \in Ids : CtxEnds(m) \/ ExpireSeen(m) \/ Remove(m)
             \/ OnRemoteEvent \/ Crash \/ Restart
             \/ RefreshLiveNodes \/ Close \/ CloseReturns \/ UNCHANGED vars
      PROVE  Pending' \subseteq Pending
  <2>1. pc' = pc
    BY <1>4 DEF CtxEnds, ExpireSeen, Remove, OnRemoteEvent, Crash, Restart,
       RefreshLiveNodes, Close, CloseReturns, vars, sender
  <2>. QED  BY <2>1 DEF Pending
<1>. QED
  BY <1>1, <1>2, <1>3, <1>4, TableShrinks DEF Next, Send, SendSync, Retry

(* The in-flight table never exceeds its limit, however many deliveries    *)
(* and manual retries start concurrently.                                  *)
THEOREM TableBounded == Spec => []PendingBounded
<1>1. TableInv => PendingBounded
  BY DEF TableInv
<1>. QED  BY <1>1, TypeCorrect, TableInit, TableStep, PTL DEF Spec

-----------------------------------------------------------------------------
(* Close: `closed' is set before the wait starts and never reset, and a    *)
(* background delivery is only registered while it is unset.               *)
CloseInv == (closed <=> closing # "open") /\ CloseWaited

LEMMA CloseStep == TypeOK /\ CloseInv /\ [Next]_vars => CloseInv'
<1>. SUFFICES ASSUME TypeOK, CloseInv, [Next]_vars PROVE CloseInv'
  OBVIOUS
<1>. USE DEF CloseInv, CloseWaited, Tracked, Started, sender
<1>0. /\ pc \in [Ids -> {"unused", "sending", "clearing"} \cup Started \cup Terminal]
      /\ mode \in [Ids -> Modes] /\ closed \in BOOLEAN
  BY DEF TypeOK
<1>1. ASSUME NEW m \in Ids, NEW e, NEW from, Begin(m, e, "async", from, "sending")
      PROVE  CloseInv'
  BY <1>0, <1>1 DEF Begin
<1>2. ASSUME NEW m \in Ids, NEW e, NEW from, NEW md \in {"sync", "retry"},
             Begin(m, e, md, from, "starting")
      PROVE  CloseInv'
  BY <1>0, <1>2 DEF Begin
<1>3. ASSUME NEW m \in Ids, Register(m)
      PROVE  CloseInv'
  BY <1>0, <1>3 DEF Register
<1>4. ASSUME NEW m \in Ids, Deliver(m), ~Register(m)
      PROVE  CloseInv'
  <2>1. pc[m] \in Started \/ pc[m] = "clearing"
    BY <1>4 DEF Deliver, Start, RequestFails, Request, AckSucceeds, AckFails, AckTimeout,
       BackoffOver, Cancel, ClearRecord, Pending
  <2>2. /\ \A k \in Ids : k # m => pc'[k] = pc[k]
        /\ pc[m] = "clearing" => pc'[m] = "acked"
        /\ UNCHANGED <<mode, closed, closing>>
    BY <1>0, <1>4 DEF Deliver, Start, RequestFails, Request, AckSucceeds, AckFails, AckTimeout,
       FailAttempt, BackoffOver, Cancel, ClearRecord, Pending
  <2>. QED  BY <2>1, <2>2
<1>5. CASE Close \/ CloseReturns
  BY <1>0, <1>5 DEF Close, CloseReturns
<1>6. ASSUME \/ \E m \in Ids : CtxEnds(m) \/ ExpireSeen(m) \/ Remove(m)
             \/ OnRemoteEvent \/ Crash \/ Restart \/ RefreshLiveNodes \/ UNCHANGED vars
      PROVE  CloseInv'
  <2>1. UNCHANGED <<pc, mode, closed, closing>>
    BY <1>6 DEF CtxEnds, ExpireSeen, Remove, OnRemoteEvent, Crash, Restart, RefreshLiveNodes, vars
  <2>. QED  BY <2>1
<1>. QED
  BY <1>1, <1>2, <1>3, <1>4, <1>5, <1>6 DEF Next, Send, SendSync, Retry

(* Close() returning nil means that no background delivery runs, then or   *)
(* later.                                                                  *)
THEOREM CloseWaitsForAll == Spec => []CloseWaited
<1>1. Init => CloseInv
  BY DEF Init, CloseInv, CloseWaited
<1>2. CloseInv => CloseWaited
  BY DEF CloseInv
<1>. QED  BY <1>1, <1>2, TypeCorrect, CloseStep, PTL DEF Spec

-----------------------------------------------------------------------------
(* The dead letters.  The queue is never longer than its capacity, so a    *)
(* push displaces a record only from a full queue; a removal at i takes    *)
(* the record of position i and no other.                                  *)
CapacityInv == Len(dlq) <= DLQCapacity

LEMMA PushKeeps ==
    ASSUME TypeOK, CapacityInv, NEW m \in Ids, PushDead(m)
    PROVE  CapacityInv' /\ KeptStep
<1>0. Len(dlq) \in Nat /\ DLQCapacity \in Nat \ {0}
  BY ParamsOK DEF TypeOK
<1>1. CASE m \in DeadLetters
  BY <1>1 DEF PushDead, CapacityInv, KeptStep, DeadLetters
<1>2. CASE m \notin DeadLetters /\ Len(dlq) >= DLQCapacity
  <2>1. /\ Tail(dlq) \in Seq(Ids) /\ Len(Tail(dlq)) = Len(dlq) - 1
        /\ \A i \in 1 .. Len(dlq) - 1 : Tail(dlq)[i] = dlq[i + 1]
        /\ Head(dlq) = dlq[1]
    BY <1>0, <1>2 DEF TypeOK
  <2>2. dlq' = Append(Tail(dlq), m)
    BY <1>2 DEF PushDead
  <2>3. Len(dlq') = DLQCapacity /\ Len(dlq) = DLQCapacity
    <3>1. Len(dlq') = Len(Tail(dlq)) + 1
      BY <2>1, <2>2, AppendProperties
    <3>2. Len(dlq) = DLQCapacity
      BY <1>0, <1>2 DEF CapacityInv
    <3>. QED  BY <1>0, <2>1, <3>1, <3>2
  <2>4. \A i \in 1 .. Len(dlq) - 1 : dlq'[i] = dlq[i + 1]
    <3>1. \A i \in 1 .. Len(Tail(dlq)) : Append(Tail(dlq), m)[i] = Tail(dlq)[i]
      BY <2>1, AppendProperties
    <3>. QED  BY <2>1, <2>2, <3>1
  <2>5. ASSUME NEW k \in 1 .. Len(dlq), dlq[k] # Head(dlq)
        PROVE  dlq[k] \in DeadLetters'
    <3>1. k - 1 \in 1 .. Len(dlq') /\ dlq'[k - 1] = dlq[k]
      BY <1>0, <2>1, <2>3, <2>4, <2>5
    <3>. QED  BY <3>1 DEF DeadLetters
  <2>. QED  BY <1>0, <2>3, <2>5 DEF CapacityInv, KeptStep, DeadLetters
<1>3. CASE m \notin DeadLetters /\ Len(dlq) < DLQCapacity
  <2>1. dlq' = Append(dlq, m) /\ dlq \in Seq(Ids)
    BY <1>0, <1>3 DEF PushDead, TypeOK
  <2>2. Len(dlq') = Len(dlq) + 1 /\ \A i \in 1 .. Len(dlq) : dlq'[i] = dlq[i]
    BY <2>1
  <2>3. DeadLetters \subseteq DeadLetters'
    BY <1>0, <2>2 DEF DeadLetters
  <2>. QED  BY <1>0, <1>3, <2>2, <2>3 DEF CapacityInv, KeptStep
<1>. QED  BY <1>0, <1>1, <1>2, <1>3

LEMMA DropKeeps ==
    ASSUME TypeOK, CapacityInv, NEW i \in 1 .. Len(dlq), DropAt(i)
    PROVE  /\ CapacityInv'
           /\ \A d \in DeadLetters : d # dlq[i] => d \in DeadLetters'
<1>0. Len(dlq) \in Nat /\ DLQCapacity \in Nat \ {0}
  BY ParamsOK DEF TypeOK
<1>1. Len(dlq') = Len(dlq) - 1
  BY <1>0 DEF DropAt
<1>2. \A k \in 1 .. Len(dlq') : dlq'[k] = dlq[IF k < i THEN k ELSE k + 1]
  BY <1>0, <1>1 DEF DropAt
<1>3. ASSUME NEW k \in 1 .. Len(dlq), k # i
      PROVE  dlq[k] \in DeadLetters'
  <2>1. CASE k < i
    <3>1. k \in 1 .. Len(dlq') /\ dlq'[k] = dlq[k]
      BY <1>0, <1>1, <1>2, <2>1
    <3>. QED  BY <3>1 DEF DeadLetters
  <2>2. CASE k > i
    <3>1. k - 1 \in 1 .. Len(dlq') /\ dlq'[k - 1] = dlq[k]
      BY <1>0, <1>1, <1>2, <2>2
    <3>. QED  BY <3>1 DEF DeadLetters
  <2>. QED  BY <1>3, <2>1, <2>2
<1>4. \A d \in DeadLetters : d # dlq[i] => d \in DeadLetters'
  <2>. SUFFICES ASSUME NEW k \in 1 .. Len(dlq), dlq[k] # dlq[i]
                PROVE  dlq[k] \in DeadLetters'
    BY DEF DeadLetters
  <2>. QED  BY <1>3
<1>5. CapacityInv'
  BY <1>0, <1>1 DEF CapacityInv
<1>. QED  BY <1>4, <1>5

LEMMA DeadLetterStep ==
    TypeOK /\ AckedWasHandled /\ CapacityInv /\ [Next]_vars => CapacityInv' /\ [KeptStep]_vars
<1>. SUFFICES ASSUME TypeOK, AckedWasHandled, CapacityInv, [Next]_vars
              PROVE  CapacityInv' /\ KeptStep
  OBVIOUS
<1>1. ASSUME UNCHANGED dlq
      PROVE  CapacityInv' /\ KeptStep
  BY <1>1 DEF CapacityInv, KeptStep, DeadLetters
<1>2. ASSUME NEW m \in Ids, PushDead(m)
      PROVE  CapacityInv' /\ KeptStep
  BY <1>2, PushKeeps
<1>3. ASSUME NEW m \in Ids, ClearRecord(m)
      PROVE  CapacityInv' /\ KeptStep
  <2>1. CASE UNCHANGED dlq
    BY <1>1, <2>1
  <2>2. ASSUME NEW i \in 1 .. Len(dlq), dlq[i] = origin[m], DropAt(i)
        PROVE  CapacityInv' /\ KeptStep
    <3>1. pc[m] = "clearing" /\ handled[m] > 0
      BY <1>3 DEF ClearRecord, AckedWasHandled
    <3>. QED  BY <2>2, <3>1, DropKeeps DEF KeptStep
  <2>. QED  BY <1>3, <2>1, <2>2 DEF ClearRecord
<1>4. ASSUME NEW m \in Ids, Remove(m)
      PROVE  CapacityInv' /\ KeptStep
  <2>1. PICK i \in 1 .. Len(dlq) : dlq[i] = m /\ DropAt(i)
    BY <1>4 DEF Remove
  <2>. QED  BY <1>4, <2>1, DropKeeps DEF KeptStep
<1>5. ASSUME NEW m \in Ids, Deliver(m), ~ClearRecord(m)
      PROVE  UNCHANGED dlq \/ PushDead(m)
  BY <1>5 DEF Deliver, Register, Start, RequestFails, Request, AckSucceeds, AckFails, AckTimeout,
     FailAttempt, BackoffOver, Cancel
<1>6. ASSUME \/ \E m \in Ids, e \in Events : Send(m, e) \/ SendSync(m, e)
             \/ \E m, d \in Ids : Retry(m, d)
             \/ \E m \in Ids : CtxEnds(m) \/ ExpireSeen(m)
             \/ OnRemoteEvent \/ Crash \/ Restart
             \/ RefreshLiveNodes \/ Close \/ CloseReturns \/ UNCHANGED vars
      PROVE  UNCHANGED dlq
  BY <1>6 DEF Send, SendSync, Retry, Begin, CtxEnds, ExpireSeen, OnRemoteEvent, Crash, Restart,
     RefreshLiveNodes, Close, CloseReturns, vars
<1>. QED
  BY <1>1, <1>2, <1>3, <1>4, <1>5, <1>6 DEF Next

(* A dead letter leaves the queue only as the oldest record of a full one, *)
(* by the operator's Remove, or after a redelivery of it was handled.      *)
THEOREM DeadLettersAreKept == Spec => DeadLetterKept
<1>1. Init => CapacityInv
  BY ParamsOK DEF Init, CapacityInv
<1>2. Spec => []CapacityInv
  BY <1>1, TypeCorrect, AcknowledgedWasHandled, DeadLetterStep, PTL DEF Spec
<1>. QED
  BY <1>2, TypeCorrect, AcknowledgedWasHandled, DeadLetterStep, PTL DEF Spec, DeadLetterKept
=============================================================================
