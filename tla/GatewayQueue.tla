---------------------------- MODULE GatewayQueue ----------------------------
(***************************************************************************)
(* Admission of client connections by the gateway                          *)
(* (internal/transport/gateway/gwcore: session.go, queue.go): a connection *)
(* gets its session with its first frame, unless the gateway is full or    *)
(* limits the rate; then it waits, its first frame buffered, in a queue    *)
(* that one goroutine releases.  Every connection has its reader, and some *)
(* a watcher that waits for it to close and a timer.                       *)
(***************************************************************************)
EXTENDS Naturals, Sequences, FiniteSets, SequencesExt

CONSTANTS
    Conns,
    Loop,       \* the goroutine that releases queued connections
    Nil,        \* an empty slot of the queue
    MaxConns,   \* limit of sessions
    QueueCap,
    Patience,   \* the values patient may take
    MaxFrames,  \* bound: frames received altogether
    MaxFaults   \* bound: failing dials of the logic server

GatewayQueueParams ==
    /\ Loop \notin Conns /\ MaxConns \in Nat \ {0} /\ QueueCap \in Nat \ {0}
    /\ MaxFrames \in Nat /\ MaxFaults \in Nat /\ Patience \subseteq BOOLEAN

Actors  == Conns \cup {Loop}
Pending == [conn : Conns, frame : Nat \ {0}]   \* pendingConn
Steps   == {"idle", "admit", "over", "dial", "insert", "count", "return", "fail",
            "offer", "watch", "requeue"}

VARIABLES
    patient,    \* clients wait, silent, as long as it takes; no queue timer expires
    conn,       \* "new", "open" or "closed"
    sent,       \* frames received of every connection
    fwd,        \* frames forwarded to the logic server, in order
    items, pending, \* connQueue
    watch, armed,   \* entries with a watcher, entries with a running timer
    at,         \* what each reader and the release loop is doing
    hand,       \* the entry the release loop holds
    sessions, cleaning, \* the session table; removed from it and still counted
    counter,    \* currentConns
    stop,       \* how far Stop has come
    faults,
    locked, loopAlive, crashed  \* q.mu is never released; the loop; the process

queue   == <<items, pending>>
around  == <<watch, armed>>
table   == <<sessions, cleaning, counter>>
harm    == <<locked, loopAlive, crashed>>
vars    == <<patient, conn, sent, fwd, queue, around, at, hand, table, stop, faults, harm>>

Init ==
    /\ patient \in Patience
    /\ conn = [c \in Conns |-> "new"] /\ sent = [c \in Conns |-> 0] /\ fwd = [c \in Conns |-> <<>>]
    /\ items = <<>> /\ pending = {} /\ watch = {} /\ armed = {}
    /\ at = [a \in Actors |-> "idle"] /\ hand = Nil
    /\ sessions = {} /\ cleaning = {} /\ counter = 0
    /\ stop = "run" /\ faults = 0
    /\ locked = FALSE /\ loopAlive = TRUE /\ crashed = FALSE

Stopping == stop # "run"
Stopped  == stop \notin {"run", "gate"}      \* connQueue.stopped
Goto(a, step) == at' = [at EXCEPT ![a] = step]
Close(c) == conn' = [conn EXCEPT ![c] = "closed"]
Entry(c) == [conn |-> c, frame |-> sent[c]]

Waits(c) == c \in pending \/ at[c] # "idle" \/ (hand # Nil /\ hand.conn = c)

(* The connection and the frame an actor works for. *)
Work(a) == IF a = Loop THEN hand ELSE Entry(a)

-----------------------------------------------------------------------------
(* handleClient and admit, by the reader of c *)

Open(c) ==
    /\ conn[c] = "new" /\ stop \notin {"servers", "done"}
    /\ conn' = [conn EXCEPT ![c] = "open"]
    /\ UNCHANGED <<patient, sent, fwd, queue, around, at, hand, table, stop, faults, harm>>

Receive(c) ==
    /\ conn[c] = "open" /\ at[c] = "idle" /\ FoldFunction(+, 0, sent) < MaxFrames /\ ~locked
    /\ (patient => ~Waits(c))
    /\ sent' = [sent EXCEPT ![c] = @ + 1]
    /\ IF c \in pending THEN UNCHANGED at ELSE Goto(c, "admit")
    /\ UNCHANGED <<patient, conn, fwd, queue, around, hand, table, stop, faults, harm>>

ForwardKnown(c) ==
    /\ at[c] = "admit" /\ c \in sessions
    /\ fwd' = [fwd EXCEPT ![c] = Append(@, sent[c])]
    /\ Goto(c, "idle")
    /\ UNCHANGED <<patient, conn, sent, queue, around, hand, table, stop, faults, harm>>

RateLimited(c) ==
    /\ at[c] = "admit" /\ c \notin sessions
    /\ Goto(c, "offer")
    /\ UNCHANGED <<patient, conn, sent, fwd, queue, around, hand, table, stop, faults, harm>>

-----------------------------------------------------------------------------
(* createSession, by a reader or by the release loop (releasePending).  A   *)
(* place is reserved on the counter first and given back at the end.        *)

(* Mutation: the test of the limit and the reservation are two steps. *)
ReserveByLoad(a) ==
    /\ at[a] = "admit" /\ (a # Loop => a \notin sessions)
    /\ Goto(a, IF counter + 1 > MaxConns THEN "over" ELSE "dial")
    /\ counter' = IF counter + 1 > MaxConns THEN counter + 1 ELSE counter
    /\ UNCHANGED <<patient, conn, sent, fwd, queue, around, hand, sessions, cleaning, stop, faults, harm>>

Reserve(a) ==
    /\ at[a] = "admit" /\ (a # Loop => a \notin sessions)
    /\ counter' = counter + 1
    /\ Goto(a, IF counter + 1 > MaxConns THEN "over" ELSE "dial")
    /\ UNCHANGED <<patient, conn, sent, fwd, queue, around, hand, sessions, cleaning, stop, faults, harm>>

GiveUp(a) ==
    /\ at[a] \in {"over", "fail"}
    /\ counter' = counter - 1
    /\ Goto(a, IF a = Loop THEN "requeue" ELSE "offer")
    /\ UNCHANGED <<patient, conn, sent, fwd, queue, around, hand, sessions, cleaning, stop, faults, harm>>

(* Mutation: no test of the stop gate after the dial. *)
DialUngated(a) ==
    /\ at[a] = "dial"
    /\ Goto(a, IF Work(a).conn \in sessions THEN "return" ELSE "insert")
    /\ UNCHANGED <<patient, conn, sent, fwd, queue, around, hand, table, stop, faults, harm>>

(* The gate and wg.Add are one critical section of lifecycleMu. *)
Dial(a) ==
    /\ at[a] = "dial"
    /\ Goto(a, IF Work(a).conn \in sessions THEN "return" ELSE IF Stopping THEN "fail" ELSE "insert")
    /\ UNCHANGED <<patient, conn, sent, fwd, queue, around, hand, table, stop, faults, harm>>

DialFails(a) ==
    /\ at[a] = "dial" /\ Work(a).conn \notin sessions /\ faults < MaxFaults
    /\ faults' = faults + 1 /\ Goto(a, "fail")
    /\ UNCHANGED <<patient, conn, sent, fwd, queue, around, hand, table, stop, harm>>

Insert(a) ==
    /\ at[a] = "insert"
    /\ sessions' = sessions \cup {Work(a).conn}
    /\ Goto(a, IF Work(a).conn \in sessions THEN "return" ELSE "count")
    /\ UNCHANGED <<patient, conn, sent, fwd, queue, around, hand, cleaning, counter, stop, faults, harm>>

Count(a) ==
    /\ at[a] = "count"
    /\ counter' = counter + 1 /\ Goto(a, "return")
    /\ UNCHANGED <<patient, conn, sent, fwd, queue, around, hand, sessions, cleaning, stop, faults, harm>>

(* The reservation is given back and the frame forwarded. *)
Return(a) ==
    /\ at[a] = "return"
    /\ counter' = counter - 1 /\ Goto(a, "idle")
    /\ LET w == Work(a) IN
       fwd' = IF w.conn \in sessions THEN [fwd EXCEPT ![w.conn] = Append(@, w.frame)] ELSE fwd
    /\ hand' = IF a = Loop THEN Nil ELSE hand
    /\ UNCHANGED <<patient, conn, sent, queue, around, sessions, cleaning, stop, faults, harm>>

-----------------------------------------------------------------------------
(* tryQueue, and the ways out of the queue *)

Offer(c) ==
    /\ at[c] = "offer" /\ ~locked
    /\ IF Stopped \/ Len(items) >= QueueCap
       THEN Close(c) /\ Goto(c, "idle") /\ UNCHANGED queue
       ELSE /\ items' = Append(items, Entry(c)) /\ pending' = pending \cup {c}
            /\ Goto(c, "watch") /\ UNCHANGED conn
    /\ UNCHANGED <<patient, sent, fwd, around, hand, table, stop, faults, harm>>

(* Watcher and timer are set up after the entry is in the queue. *)
Watch(c) ==
    /\ at[c] = "watch" /\ Goto(c, "idle")
    /\ IF Stopping THEN UNCHANGED around
                   ELSE watch' = watch \cup {Entry(c)} /\ armed' = armed \cup {Entry(c)}
    /\ UNCHANGED <<patient, conn, sent, fwd, queue, hand, table, stop, faults, harm>>

(* remove.  The shortened slice loses its last element too: of a queue of   *)
(* one the write is out of range, before the entry leaves q.pending.        *)
Rest(p)   == RemoveFirst(items, p)
Panics(p) == p.conn \in pending /\ p \in ToSet(items) /\ Rest(p) = <<>>
Removed(p) ==
    /\ items' = IF p \notin ToSet(items) \/ p.conn \notin pending THEN items
                ELSE IF Panics(p) THEN <<>> ELSE [Rest(p) EXCEPT ![Len(Rest(p))] = Nil]
    /\ pending' = IF Panics(p) THEN pending ELSE pending \ {p.conn}

(* The watcher of an entry sees its connection closed. *)
WatcherRuns(p) ==
    /\ p \in watch /\ conn[p.conn] = "closed" /\ ~locked
    /\ Removed(p) /\ watch' = watch \ {p}
    /\ armed' = IF p.conn \in pending /\ ~Panics(p) THEN armed \ {p} ELSE armed
    /\ UNCHANGED <<patient, conn, sent, fwd, at, hand, table, stop, faults, harm>>

(* A panic in a timer's goroutine is not recovered. *)
TimerFires(p) ==
    /\ p \in armed /\ (patient => p.conn \notin pending) /\ ~locked
    /\ Removed(p) /\ armed' = armed \ {p}
    /\ crashed' = Panics(p)
    /\ IF p.conn \in pending /\ ~Panics(p) THEN Close(p.conn) ELSE UNCHANGED conn
    /\ UNCHANGED <<patient, sent, fwd, watch, at, hand, table, stop, faults, locked, loopAlive>>

(* refreshPositions panics at an empty slot and keeps the lock. *)
RefreshPanics ==
    /\ ~Stopped /\ ~locked /\ Nil \in ToSet(items)
    /\ locked' = TRUE
    /\ UNCHANGED <<patient, conn, sent, fwd, queue, around, at, hand, table, stop, faults, loopAlive, crashed>>

-----------------------------------------------------------------------------
(* The release loop *)

Dequeue ==
    /\ at[Loop] = "idle" /\ loopAlive /\ ~locked /\ items # <<>> /\ Head(items) # Nil
    /\ hand' = Head(items) /\ items' = Tail(items) /\ pending' = pending \ {Head(items).conn}
    /\ armed' = armed \ {Head(items)} /\ Goto(Loop, "admit")
    /\ UNCHANGED <<patient, conn, sent, fwd, watch, table, stop, faults, harm>>

DequeuePanics ==
    /\ at[Loop] = "idle" /\ loopAlive /\ ~locked /\ items # <<>> /\ Head(items) = Nil
    /\ items' = Tail(items) /\ loopAlive' = FALSE
    /\ UNCHANGED <<patient, conn, sent, fwd, pending, around, at, hand, table, stop, faults, locked, crashed>>

(* Mutation: a connection that could not be released is put at the tail, if there is room. *)
RequeueIfRoom ==
    /\ at[Loop] = "requeue" /\ ~locked
    /\ IF Stopped THEN Close(hand.conn) /\ UNCHANGED queue
       ELSE /\ UNCHANGED conn
            /\ IF Len(items) < QueueCap THEN items' = Append(items, hand) /\ pending' = pending \cup {hand.conn}
                                       ELSE UNCHANGED queue
    /\ armed' = armed \cup {hand} /\ hand' = Nil /\ Goto(Loop, "idle")
    /\ UNCHANGED <<patient, sent, fwd, watch, table, stop, faults, harm>>

(* Back to the head, whatever the capacity, with a new timer. *)
Requeue ==
    /\ at[Loop] = "requeue" /\ ~locked
    /\ IF Stopped THEN Close(hand.conn) /\ UNCHANGED queue
       ELSE items' = <<hand>> \o items /\ pending' = pending \cup {hand.conn} /\ UNCHANGED conn
    /\ armed' = armed \cup {hand} /\ hand' = Nil /\ Goto(Loop, "idle")
    /\ UNCHANGED <<patient, sent, fwd, watch, table, stop, faults, harm>>

-----------------------------------------------------------------------------
(* Clients, the end of a session, and Stop *)

ClientCloses(c) ==
    /\ conn[c] = "open" /\ (patient => ~Waits(c))
    /\ Close(c)
    /\ UNCHANGED <<patient, sent, fwd, queue, around, at, hand, table, stop, faults, harm>>

(* cleanup, of a closed connection or of a failing upstream *)
SessionEnds(c) ==
    /\ c \in sessions /\ c \notin cleaning /\ (patient => ~Waits(c))
    /\ sessions' = sessions \ {c} /\ cleaning' = cleaning \cup {c} /\ Close(c)
    /\ UNCHANGED <<patient, sent, fwd, queue, around, at, hand, counter, stop, faults, harm>>

SessionUncounted(c) ==
    /\ c \in cleaning
    /\ cleaning' = cleaning \ {c} /\ counter' = IF counter = 0 THEN 0 ELSE counter - 1
    /\ UNCHANGED <<patient, conn, sent, fwd, queue, around, at, hand, sessions, stop, faults, harm>>

StopGate ==
    /\ stop = "run" /\ stop' = "gate"
    /\ UNCHANGED <<patient, conn, sent, fwd, queue, around, at, hand, table, faults, harm>>

(* connQueue.stop: the entries before an empty slot are closed. *)
StopQueue ==
    /\ stop = "gate" /\ ~locked /\ stop' = "queue"
    /\ items' = <<>> /\ pending' = {}
    /\ LET reached == {i \in DOMAIN items : \A j \in 1 .. i : items[j] # Nil}
           gone    == {items[i] : i \in reached}
       IN /\ armed' = armed \ gone
          /\ conn' = [c \in Conns |-> IF \E p \in gone : p.conn = c THEN "closed" ELSE conn[c]]
    /\ UNCHANGED <<patient, sent, fwd, watch, at, hand, table, faults, harm>>

StopServers ==
    /\ stop = "queue" /\ stop' = "servers"
    /\ conn' = [c \in Conns |-> "closed"]
    /\ UNCHANGED <<patient, sent, fwd, queue, around, at, hand, table, faults, harm>>

(* wg.Wait: watchers, cleanups and the sessions that will have one *)
StopWaited ==
    /\ stop = "servers" /\ stop' = "done"
    /\ sessions = {} /\ cleaning = {} /\ watch = {}
    /\ \A a \in Actors : at[a] \notin {"insert", "count"}
    /\ UNCHANGED <<patient, conn, sent, fwd, queue, around, at, hand, table, faults, harm>>

-----------------------------------------------------------------------------
Reader(c) == ForwardKnown(c) \/ RateLimited(c) \/ Offer(c) \/ Watch(c)
Creation(a) == Reserve(a) \/ GiveUp(a) \/ Dial(a) \/ DialFails(a) \/ Insert(a) \/ Count(a) \/ Return(a)
LoopStep == Dequeue \/ DequeuePanics \/ Requeue

Next ==
    /\ ~crashed
    /\ \/ \E c \in Conns : Open(c) \/ Receive(c) \/ Reader(c) \/ ClientCloses(c)
       \/ \E c \in Conns : SessionEnds(c) \/ SessionUncounted(c)
       \/ \E a \in Actors : Creation(a)
       \/ \E p \in watch : WatcherRuns(p)
       \/ \E p \in armed : TimerFires(p)
       \/ LoopStep \/ RefreshPanics
       \/ StopGate \/ StopQueue \/ StopServers \/ StopWaited

Spec == Init /\ [][Next]_vars

-----------------------------------------------------------------------------
(* Types, and the length of the queue: one more than its capacity at most,  *)
(* when the connection in the loop's hand comes back (requeueHead).         *)
GQTypeOK ==
    /\ conn \in [Conns -> {"new", "open", "closed"}] /\ at \in [Actors -> Steps]
    /\ items \in Seq(Pending \cup {Nil}) /\ Len(items) <= QueueCap + 1
    /\ pending \subseteq Conns /\ sessions \subseteq Conns /\ cleaning \subseteq Conns
    /\ watch \subseteq Pending /\ armed \subseteq Pending /\ hand \in Pending \cup {Nil}
    /\ counter \in Nat

(* Never more sessions than MaxConns, whoever creates them at once: the     *)
(* counter is raised before the test (admit, releasePending).               *)
SessionsWithinLimit == Cardinality(sessions) <= MaxConns

(* With everybody at rest the counter is the number of sessions: a place is *)
(* neither lost nor given back twice (admit, createSession, cleanup).       *)
CountsExact ==
    cleaning = {} /\ (\A a \in Actors : at[a] \notin {"over", "dial", "insert", "count", "return", "fail"})
        => counter = Cardinality(sessions)

(* Stop returns when no session and no watcher is left, and none is made    *)
(* afterwards (lifecycleMu, stopping).                                      *)
StopLeavesNothing == stop = "done" => sessions = {} /\ cleaning = {} /\ watch = {}

(* A connection that waits is in the queue or in the hand of the loop, or   *)
(* closed: it is not forgotten (connQueue.offer, remove, requeueHead).      *)
WaitingIsQueued ==
    \A c \in pending : conn[c] = "open" =>
        \E i \in DOMAIN items : items[i] # Nil /\ items[i].conn = c

(* The same for clients that wait: only who leaves the queue breaks it. *)
PatientAreQueued == patient => WaitingIsQueued /\ loopAlive /\ ~locked /\ ~crashed

(* Frames of a connection reach the logic server in the order they came. *)
FirstFrameFirst ==
    \A c \in Conns : \A i, j \in DOMAIN fwd[c] : i < j => fwd[c][i] < fwd[c][j]

(* While the process runs its goroutines are scheduled and calls return.    *)
LoopRuns        == ~crashed /\ LoopStep
StopRuns        == ~crashed /\ StopQueue
ReaderRuns(c)   == ~crashed /\ Reader(c)
EndRuns(c)      == ~crashed /\ SessionEnds(c)
CleanupRuns(c)  == ~crashed /\ SessionUncounted(c)
CreationRuns(a) == ~crashed /\ Creation(a)

FairSpec ==
    /\ Spec
    /\ WF_vars(LoopRuns) /\ WF_vars(StopRuns)
    /\ \A c \in Conns : WF_vars(ReaderRuns(c)) /\ WF_vars(EndRuns(c)) /\ WF_vars(CleanupRuns(c))
    /\ \A a \in Actors : WF_vars(CreationRuns(a))

(* Every waiting client gets its session or is refused, as long as sessions *)
(* end now and then and nobody leaves the queue (start, requeueHead).       *)
Patient(c) == patient /\ c \in pending
Served(c)  == c \in sessions \/ conn[c] = "closed"
PatientAreServed == \A c \in Conns : Patient(c) ~> Served(c)
=============================================================================
