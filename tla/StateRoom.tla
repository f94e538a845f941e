----------------------------- MODULE StateRoom -----------------------------
(***************************************************************************)
(* The state-synchronised room kernel (pkg/domain/room/state_sync.go), for *)
(* one room.  Every operation tests `closed` in one critical section and   *)
(* works in a second; what it changed is pushed after the lock is gone:    *)
(* the room's state to its members (left out: a failed push of it is only  *)
(* logged), the list of rooms to the watchers of the lobby.  A push that   *)
(* succeeded is recorded in a critical section of its own; FlushWatchers,  *)
(* called by a timer, pushes again to those that are behind.               *)
(***************************************************************************)
EXTENDS Integers, FiniteSets, FiniteSetsExt

CONSTANTS
    Humans, Bots,   \* who may take a seat
    Seats,          \* number of seats: a seat's number is its team's
    Lobby,          \* watchers
    Callers,        \* goroutines in an operation
    Flusher,        \* the goroutine of the timer
    MaxVersion,     \* bound: changes
    MaxFaults,      \* bound: failed pushes
    MaxWatches,     \* bound: Watch and Unwatch
    None

StateRoomParams ==
    /\ Seats \in Nat \ {0} /\ {MaxVersion, MaxFaults, MaxWatches} \subseteq Nat
    /\ Humans \cap Bots = {} /\ None \notin Humans \cup Bots \cup Lobby
    /\ Flusher \notin Callers

VARIABLES
    present,    \* the room is in k.rooms
    seats,      \* seats[i]: who sits there
    crown,      \* seats marked IsHost
    host,       \* st.host
    running,    \* a match is on
    ready, offline,  \* seats so marked
    version,    \* k.version: of the list of rooms
    closed,
    watchers,
    pushed,     \* pushed[w]: the version recorded as delivered
    got,        \* got[w]: history, the versions delivered to w
    call,       \* call[c]: where goroutine c is
    faults, watches

vars == <<present, seats, crown, host, running, ready, offline, version,
          closed, watchers, pushed, got, call, faults, watches>>
roomVars == <<present, seats, crown, host, running, ready, offline>>
listVars == <<watchers, pushed, got>>

Seat == 1..Seats
Procs == Callers \cup {Flusher}
Idle == [pc |-> "idle", list |-> 0, todo |-> {}, at |-> None]
Empty == [i \in Seat |-> None]

SRInit ==
    /\ present = FALSE /\ seats = Empty /\ crown = {} /\ host = None
    /\ running = FALSE /\ ready = {} /\ offline = {}
    /\ version = 0 /\ closed = FALSE /\ watchers = {}
    /\ pushed = [w \in Lobby |-> 0] /\ got = [w \in Lobby |-> {}]
    /\ call = [c \in Procs |-> Idle] /\ faults = 0 /\ watches = 0

Goes(c, pc) == call' = [call EXCEPT ![c] = [Idle EXCEPT !.pc = pc]]

(* usable: the test of closed, before the operation takes the lock again.  *)
Begin(c) ==
    /\ call[c].pc = "idle" /\ ~closed
    /\ Goes(c, "usable")
    /\ UNCHANGED <<roomVars, version, closed, listVars, faults, watches>>

(* A change of the room, of the list of rooms, and what it is followed by. *)
Changes(c, next) ==
    /\ call[c].pc = "usable" /\ version < MaxVersion
    /\ version' = version + 1
    /\ Goes(c, next)
    /\ UNCHANGED <<closed, listVars, faults, watches>>

SeatsOf(s, ps) == {i \in DOMAIN s : s[i] \in ps}
Seated(p) == SeatsOf(seats, {p}) # {}
Free == SeatsOf(seats, {None})

(* An operation that is refused, or finds nothing to do.                   *)
Refused(c) ==
    /\ call[c].pc = "usable"
    /\ Goes(c, "idle")
    /\ UNCHANGED <<roomVars, version, closed, listVars, faults, watches>>

-----------------------------------------------------------------------------
(* The room *)

EnsureRoom(c) ==
    /\ Changes(c, "list") /\ ~present
    /\ present' = TRUE
    /\ UNCHANGED <<seats, crown, host, running, ready, offline>>

Join(c, p) ==
    /\ Changes(c, "list") /\ present /\ ~Seated(p) /\ ~running /\ Free # {}
    /\ seats' = [seats EXCEPT ![Min(Free)] = p]
    /\ IF host = None /\ p \in Humans
       THEN host' = p /\ crown' = crown \cup {Min(Free)}
       ELSE UNCHANGED <<host, crown>>
    /\ UNCHANGED <<present, running, ready, offline>>

(* reassignHostLocked: the human with the lowest seat.                     *)
Heirs(s) == SeatsOf(s, Humans)
Reassign(s) ==
    IF Heirs(s) = {} THEN host' = None /\ crown' = {}
    ELSE host' = s[Min(Heirs(s))] /\ crown' = {Min(Heirs(s))}

(* Mutation: any seated one is made the host.                              *)
LeaveToAnyone(c, p) ==
    /\ Changes(c, "list") /\ present /\ Seated(p) /\ ~running
    /\ LET i == Min(SeatsOf(seats, {p})) IN
        /\ seats' = [seats EXCEPT ![i] = None]
        /\ ready' = ready \ {i} /\ offline' = offline \ {i}
        /\ IF host = p THEN LET rest == SeatsOf(seats', Humans \cup Bots) IN
                IF rest = {} THEN host' = None /\ crown' = {}
                ELSE host' = seats'[Min(rest)] /\ crown' = {Min(rest)}
           ELSE UNCHANGED <<host, crown>>
    /\ UNCHANGED <<present, running>>

Leave(c, p) ==
    /\ Changes(c, "list") /\ present /\ Seated(p) /\ ~running
    /\ LET i == Min(SeatsOf(seats, {p})) IN
        /\ seats' = [seats EXCEPT ![i] = None]
        /\ ready' = ready \ {i} /\ offline' = offline \ {i}
        /\ IF host = p \/ i \in crown THEN Reassign(seats') ELSE UNCHANGED <<host, crown>>
    /\ UNCHANGED <<present, running>>

Destroy(c) ==
    /\ Changes(c, "list") /\ present
    /\ present' = FALSE /\ seats' = Empty /\ crown' = {} /\ host' = None
    /\ running' = FALSE /\ ready' = {} /\ offline' = {}

(* How players and bots may sit.                                           *)
Arrangements ==
    {s \in [Seat -> Humans \cup Bots \cup {None}] :
        \A i, j \in Seat : s[i] = s[j] /\ s[i] # None => i = j}

(* A state of another node: seats and host of some earlier moment, of a    *)
(* kernel that may have more seats than this one.  The match does not      *)
(* move.  healHostLocked keeps a host that still has a seat.               *)
ImportState(c) ==
    /\ Changes(c, "list")
    /\ present' = TRUE /\ running' = FALSE /\ ready' = {} /\ offline' = {}
    /\ seats' \in Arrangements
    /\ \E h \in Humans :
        IF SeatsOf(seats', {h}) # {}
        THEN host' = h /\ crown' = SeatsOf(seats', {h})
        ELSE Reassign(seats')

(* The list of rooms has a new version, but no one is told (FlushWatchers  *)
(* makes up for it).                                                       *)
SetOffline(c, i) ==
    /\ Changes(c, "idle") /\ present /\ seats[i] # None
    /\ offline' = IF i \in offline THEN offline \ {i} ELSE offline \cup {i}
    /\ ready' = IF i \in offline THEN ready ELSE ready \ {i}
    /\ UNCHANGED <<present, seats, crown, host, running>>

SetReady(c, i) ==
    /\ Changes(c, "list") /\ present /\ seats[i] # None /\ ~running
    /\ ready' = IF i \in ready THEN ready \ {i} ELSE ready \cup {i}
    /\ UNCHANGED <<present, seats, crown, host, running, offline>>

(* A match begins with every seat taken; its end clears the marks.         *)
SetRunning(c) ==
    /\ Changes(c, "list") /\ present
    /\ ~running => Free = {}
    /\ running' = ~running
    /\ IF running THEN ready' = {} /\ offline' = {} ELSE UNCHANGED <<ready, offline>>
    /\ UNCHANGED <<present, seats, crown, host>>

Close ==
    /\ ~closed
    /\ closed' = TRUE /\ watchers' = {} /\ pushed' = [w \in Lobby |-> 0]
    /\ present' = FALSE /\ seats' = Empty /\ crown' = {} /\ host' = None
    /\ running' = FALSE /\ ready' = {} /\ offline' = {}
    /\ UNCHANGED <<version, got, call, faults, watches>>

-----------------------------------------------------------------------------
(* The watchers of the lobby *)

(* The reply of Watch is the first list the watcher gets.                  *)
Watch(c, w) ==
    /\ call[c].pc = "usable" /\ watches < MaxWatches
    /\ watchers' = watchers \cup {w}
    /\ pushed' = [pushed EXCEPT ![w] = Max({version, @})]
    /\ got' = [got EXCEPT ![w] = @ \cup {version}]
    /\ Goes(c, "idle") /\ watches' = watches + 1
    /\ UNCHANGED <<roomVars, version, closed, faults>>

Unwatch(w) ==
    /\ w \in watchers /\ watches < MaxWatches
    /\ watchers' = watchers \ {w}
    /\ pushed' = [pushed EXCEPT ![w] = 0]
    /\ watches' = watches + 1
    /\ UNCHANGED <<roomVars, version, closed, got, call, faults>>

Takes(c, todo) ==
    call' = [call EXCEPT ![c] = [pc |-> "push", list |-> version, todo |-> todo, at |-> None]]

(* broadcastList: the list and the watchers of this moment.                *)
Broadcast(c) ==
    /\ call[c].pc = "list"
    /\ IF closed THEN Goes(c, "idle") ELSE Takes(c, watchers)
    /\ UNCHANGED <<roomVars, version, closed, listVars, faults, watches>>

Behind == {w \in watchers : pushed[w] < version}

(* FlushWatchers, by the timer: those that are behind.                     *)
FlushWatchers ==
    /\ call[Flusher].pc = "usable"
    /\ Takes(Flusher, Behind)
    /\ UNCHANGED <<roomVars, version, closed, listVars, faults, watches>>

Delivers(c, w) ==
    /\ call[c].pc = "push" /\ w \in call[c].todo
    /\ got' = [got EXCEPT ![w] = @ \cup {call[c].list}]
    /\ call' = [call EXCEPT ![c].pc = "record", ![c].at = w]
    /\ UNCHANGED <<roomVars, version, closed, watchers, pushed, faults, watches>>

(* Mutation: a version is recorded before it is delivered.                 *)
FailsRecorded(c, w) ==
    /\ call[c].pc = "push" /\ w \in call[c].todo /\ faults < MaxFaults
    /\ faults' = faults + 1
    /\ call' = [call EXCEPT ![c].pc = "record", ![c].at = w]
    /\ UNCHANGED <<roomVars, version, closed, listVars, watches>>

Fails(c, w) ==
    /\ call[c].pc = "push" /\ w \in call[c].todo /\ faults < MaxFaults
    /\ faults' = faults + 1
    /\ call' = [call EXCEPT ![c].todo = @ \ {w}]
    /\ UNCHANGED <<roomVars, version, closed, listVars, watches>>

(* recordListPushed: never back, and not of one that no longer watches.    *)
Record(c) ==
    /\ call[c].pc = "record"
    /\ LET w == call[c].at IN
        /\ pushed' = IF w \in watchers
                     THEN [pushed EXCEPT ![w] = Max({call[c].list, @})] ELSE pushed
        /\ call' = [call EXCEPT ![c].pc = "push", ![c].todo = @ \ {w}, ![c].at = None]
    /\ UNCHANGED <<roomVars, version, closed, watchers, got, faults, watches>>

Finish(c) ==
    /\ call[c].pc = "push" /\ call[c].todo = {}
    /\ Goes(c, "idle")
    /\ UNCHANGED <<roomVars, version, closed, listVars, faults, watches>>

-----------------------------------------------------------------------------
Operation(c) ==
    \/ EnsureRoom(c) \/ Destroy(c) \/ ImportState(c) \/ SetRunning(c)
    \/ \E p \in Humans \cup Bots : Join(c, p) \/ Leave(c, p)
    \/ \E i \in Seat : SetOffline(c, i) \/ SetReady(c, i)
    \/ \E w \in Lobby : Watch(c, w)
    \/ Refused(c)

Pushing(c) ==
    \/ Broadcast(c) \/ Record(c) \/ Finish(c)
    \/ \E w \in Lobby : Delivers(c, w) \/ Fails(c, w)

SRNext ==
    \/ \E c \in Procs : Begin(c) \/ Pushing(c)
    \/ \E c \in Callers : Operation(c)
    \/ FlushWatchers \/ Close
    \/ \E w \in Lobby : Unwatch(w)

SRSpec == SRInit /\ [][SRNext]_vars

(* The timer calls FlushWatchers again and again, and pushes return.       *)
SRFairSpec ==
    /\ SRSpec
    /\ \A c \in Procs : WF_vars(Pushing(c))
    /\ WF_vars(Begin(Flusher)) /\ WF_vars(FlushWatchers)

-----------------------------------------------------------------------------
(* Properties *)

SRTypeOK ==
    /\ seats \in [Seat -> Humans \cup Bots \cup {None}] /\ crown \subseteq Seat
    /\ host \in Humans \cup {None} /\ {present, running, closed} \subseteq BOOLEAN
    /\ ready \subseteq Seat /\ offline \subseteq Seat /\ version \in 0..MaxVersion
    /\ watchers \subseteq Lobby /\ pushed \in [Lobby -> 0..MaxVersion]
    /\ got \in [Lobby -> SUBSET (0..MaxVersion)]
    /\ \A c \in Procs : call[c].pc \in {"idle", "usable", "list", "push", "record"}

(* The file's first and second rule: there is a host exactly when a human  *)
(* has a seat, it is a human with a seat, its seat alone bears the mark,   *)
(* and no seat is empty while a match is on.                               *)
HostAndSeats ==
    /\ host = None <=> SeatsOf(seats, Humans) = {}
    /\ crown = SeatsOf(seats, {host}) \ Free
    /\ running => Free = {}

(* The third rule: a version is recorded for a watcher only once a list of *)
(* that version was delivered to it.                                       *)
MarkedWasDelivered == \A w \in watchers : pushed[w] = 0 \/ pushed[w] \in got[w]

(* The third rule: a watcher that a push missed, failed for, or was not    *)
(* made to, is brought to the current version in the end, unless the       *)
(* kernel is closed.                                                       *)
Watches(w) == w \in watchers
UpToDate(w) == closed \/ w \notin watchers \/ version \in got[w]
WatchersCatchUp == \A w \in Lobby : Watches(w) ~> UpToDate(w)

(* Close: a closed kernel keeps no rooms and no watchers.                  *)
ClosedIsEmpty == closed => ~present /\ watchers = {}
=============================================================================
