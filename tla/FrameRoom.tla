----------------------------- MODULE FrameRoom -----------------------------
(***************************************************************************)
(* A lockstep room (domain/room/frame/room.go).  A frame advances when     *)
(* every player's input for it is there; a player that stays silent for    *)
(* InputTimeoutTicks steps is given an empty one.  The frame number and    *)
(* the inputs are taken under the room's lock, the applier runs outside    *)
(* it, and its result is merged under the lock again: between the two,     *)
(* players come and go, the room is exported, imported or destroyed, and   *)
(* another tick loop may step the room.                                    *)
(*                                                                         *)
(* A player's state is the frame and the lineage of the result last merged *)
(* into it; payloads, hashes and pushes are left out.  An input is a pair  *)
(* <<frame, player>>.                                                      *)
(***************************************************************************)
EXTENDS Integers, FiniteSets, FiniteSetsExt

CONSTANTS
    Players,            \* player ids
    HistoryLimit,       \* frames kept for recovery
    SnapshotEvery,      \* frames between two snapshots
    InputTimeoutTicks,  \* silent steps before an empty input is filled in
    IdleTimeoutTicks,   \* frames without input before the room closes
    Retention,          \* frames a disconnected player is kept
    MaxInputLead,       \* how far ahead an input may be
    AutoDestroy,        \* cfg.AutoDestroyEmpty
    MaxFrame,           \* bound: the last frame of the model
    MaxGen,             \* bound: generations of the tick loop
    MaxOps,             \* bound: joins, leaves, ..., and late inputs
    None

FrameRoomParams ==
    /\ {HistoryLimit, SnapshotEvery, InputTimeoutTicks, IdleTimeoutTicks,
        Retention, MaxInputLead, MaxFrame, MaxGen} \subseteq Nat \ {0}
    /\ MaxOps \in Nat /\ SnapshotEvery <= HistoryLimit
    /\ AutoDestroy \in BOOLEAN /\ None \notin Players

VARIABLES
    room,       \* what ExportState copies: frame, players, pending, ...
    waits,      \* waits[p]: steps p has been silent (not exported)
    running,    \* the ticker exists
    destroyed,
    gen,        \* loopGen
    lineage,    \* 1 once a state was imported
    loop,       \* loop[g]: where the tick loop of generation g is
    job,        \* job[g]: the frame it has given to the applier
    signalled,  \* loops whose captured stop channel is closed
    gauge,      \* metrics.PlayerCount
    ops,        \* joins and so on so far
    calm        \* no export while the applier runs, no import over a room

vars == <<room, waits, running, destroyed, gen, lineage, loop, job, signalled,
          gauge, ops, calm>>
loops == <<loop, job, signalled>>

Gens == 1..MaxGen
Frames == 1..MaxFrame
NoJob == [frame |-> 0, gen |-> 0, lineage |-> 0, who |-> {}]

Fresh(p) == [frame |-> 0, lineage |-> lineage]

EmptyRoom ==
    [frame |-> 0, players |-> {}, online |-> {},
     gone |-> [p \in Players |-> 0],    \* DisconnectAtFrame
     input |-> [p \in Players |-> 0],   \* LastInputFrame
     state |-> [p \in Players |-> [frame |-> 0, lineage |-> 0]],
     pending |-> {}, history |-> {}, snap |-> None, progress |-> 0]

FRInit ==
    /\ room = EmptyRoom /\ waits = [p \in Players |-> 0]
    /\ running = FALSE /\ destroyed = FALSE /\ gen = 0 /\ lineage = 0
    /\ loop = [g \in Gens |-> "none"] /\ job = [g \in Gens |-> NoJob]
    /\ signalled = {} /\ gauge = 0 /\ ops = 0
    /\ calm \in BOOLEAN

InCallback == {g \in Gens : loop[g] = "apply"}

(* ensureStartedLocked: a new loop, unless one is running.                 *)
EnsureStarted(players) ==
    IF running \/ destroyed \/ players = {}
    THEN UNCHANGED <<running, gen, loop>>
    ELSE /\ gen < MaxGen
         /\ running' = TRUE /\ gen' = gen + 1
         /\ loop' = [loop EXCEPT ![gen + 1] = "top"]

(* close(stop.ch): the loops in their select hold that channel.            *)
Signal == signalled' = signalled \cup {g \in Gens : loop[g] = "select"}

DropInputs(pending, ps) == {i \in pending : i[2] \notin ps}

Without(r, ps) ==
    [r EXCEPT !.players = @ \ ps, !.online = @ \ ps,
              !.gone = [p \in Players |-> IF p \in ps THEN 0 ELSE @[p]],
              !.input = [p \in Players |-> IF p \in ps THEN 0 ELSE @[p]],
              !.state = [p \in Players |-> IF p \in ps THEN [frame |-> 0, lineage |-> 0]
                                                       ELSE @[p]],
              !.pending = DropInputs(@, ps)]

Op == ops < MaxOps /\ ops' = ops + 1

-----------------------------------------------------------------------------
(* The operations of the players *)

Join(p) ==
    /\ Op /\ ~destroyed /\ p \notin room.players
    /\ room' = [room EXCEPT !.players = @ \cup {p}, !.online = @ \cup {p},
                            !.state[p] = Fresh(p), !.progress = room.frame]
    /\ gauge' = gauge + 1
    /\ EnsureStarted(room.players \cup {p})
    /\ UNCHANGED <<waits, destroyed, lineage, job, signalled, calm>>

Back(p) == [room EXCEPT !.online = @ \cup {p}, !.gone[p] = 0,
                        !.pending = DropInputs(@, {p})]

(* A member that joins again, or reconnects: its old inputs are dropped.   *)
(* (Reconnect does not test destroyed, and an online member may call it.)  *)
Reconnect(p) ==
    /\ Op /\ p \in room.players
    /\ room' = Back(p)
    /\ UNCHANGED <<waits, running, destroyed, gen, lineage, loops,
                   gauge, calm>>

MarkDisconnected(p) ==
    /\ Op /\ p \in room.online
    /\ room' = [room EXCEPT !.online = @ \ {p}, !.gone[p] = room.frame]
    /\ UNCHANGED <<waits, running, destroyed, gen, lineage, loops,
                   gauge, calm>>

Leave(p) ==
    /\ Op /\ ~destroyed /\ p \in room.players
    /\ room' = Without(room, {p})
    /\ waits' = [waits EXCEPT ![p] = 0]
    /\ gauge' = gauge - 1
    /\ running' = (running /\ room.players # {p})
    /\ destroyed' = (AutoDestroy /\ room.players = {p})
    /\ IF destroyed' THEN Signal ELSE UNCHANGED signalled
    /\ UNCHANGED <<gen, lineage, loop, job, calm>>

(* An input is taken for a frame from the last completed one up to         *)
(* MaxInputLead ahead, once.  It also brings its player back online.       *)
Input(p, f) ==
    /\ ~destroyed /\ p \in room.players
    /\ f >= room.frame /\ f <= room.frame + MaxInputLead /\ f \in Frames
    /\ <<f, p>> \notin room.pending
    /\ room' = [room EXCEPT !.pending = @ \cup {<<f, p>>}, !.online = @ \cup {p},
                            !.gone[p] = 0, !.input[p] = f]
    /\ f = room.frame => ops < MaxOps
    /\ ops' = IF f = room.frame THEN ops + 1 ELSE ops
    /\ EnsureStarted(room.players)
    /\ UNCHANGED <<waits, destroyed, lineage, job, signalled, gauge, calm>>

(* destroyWithReason, from Service.Destroy or Service.Close.               *)
Destroy ==
    /\ Op /\ ~destroyed
    /\ destroyed' = TRUE /\ running' = FALSE /\ Signal
    /\ UNCHANGED <<room, waits, gen, lineage, loop, job, gauge, calm>>

(* A state is imported: ExportState's copy of a room.  It is taken to be   *)
(* this room's but for its lineage, and to be imported when it was made.   *)
Imported ==
    [room EXCEPT !.state = [p \in Players |->
        [frame |-> room.state[p].frame,
         lineage |-> IF p \in room.players THEN 1 ELSE 0]]]

Importable ==
    /\ running /\ lineage = 0 /\ gen + 2 <= MaxGen
    /\ calm => InCallback = {}

(* On a node that already runs such a room: its loop is told to end, and a *)
(* new one starts.                                                         *)
ImportState ==
    /\ Importable /\ ~calm
    /\ room' = Imported /\ lineage' = 1 /\ Signal /\ gen' = gen + 2
    /\ loop' = [loop EXCEPT ![gen + 2] = "top"]
    /\ UNCHANGED <<waits, running, destroyed, job, gauge, ops, calm>>

(* On a node that has none (Service.ImportState makes it); the room of the *)
(* node that was taken over leaves the model.                              *)
ImportAsNew ==
    /\ Importable
    /\ room' = Imported /\ lineage' = 1 /\ gen' = gen + 2
    /\ waits' = [p \in Players |-> 0]
    /\ gauge' = Cardinality(room.players)
    /\ loop' = [g \in Gens |-> IF g = gen + 2 THEN "top" ELSE "none"]
    /\ job' = [g \in Gens |-> NoJob] /\ signalled' = {}
    /\ UNCHANGED <<running, destroyed, ops, calm>>

-----------------------------------------------------------------------------
(* The tick loop *)

(* It reads the ticker, the stop channel and the generation, and ends if   *)
(* it is not the current one.                                              *)
LoopTop(g) ==
    /\ loop[g] = "top"
    /\ loop' = [loop EXCEPT ![g] = IF running /\ g = gen THEN "select" ELSE "gone"]
    /\ UNCHANGED <<room, waits, running, destroyed, gen, lineage, job, signalled, gauge, ops, calm>>

LoopStops(g) ==
    /\ loop[g] = "select" /\ g \in signalled
    /\ loop' = [loop EXCEPT ![g] = "gone"]
    /\ UNCHANGED <<room, waits, running, destroyed, gen, lineage, job, signalled, gauge, ops, calm>>

(* A tick: also of a ticker stopped meanwhile, whose channel may hold one. *)
Ticks(g) == loop[g] = "select"
ToTop(g) == loop' = [loop EXCEPT ![g] = "top"]

(* step finds the room destroyed, or empty.                                *)
StepEmpty(g) ==
    /\ Ticks(g)
    /\ destroyed \/ room.players = {}
    /\ running' = (running /\ destroyed)
    /\ destroyed' = (destroyed \/ AutoDestroy)
    /\ IF ~destroyed /\ AutoDestroy THEN Signal ELSE UNCHANGED signalled
    /\ ToTop(g)
    /\ UNCHANGED <<room, waits, gen, lineage, job, gauge, ops, calm>>

Next1 == room.frame + 1
Has(p, f) == <<f, p>> \in room.pending

(* Mutation: measured in frames since the player's last merged one, as     *)
(* before the counter of steps.                                            *)
SilenceInFrames(p) == IF Has(p, Next1) THEN 0 ELSE room.frame - room.state[p].frame

(* collectTimedOutLocked: one more silent step for each player without an  *)
(* input; those at the threshold are given an empty one.                   *)
Silence(p) == IF Has(p, Next1) THEN 0 ELSE waits[p] + 1

TimedOut == {p \in room.players : ~Has(p, Next1) /\ Silence(p) >= InputTimeoutTicks}
Ready == \A p \in room.players : Has(p, Next1) \/ p \in TimedOut

Waits == [p \in Players |->
            IF p \notin room.players THEN waits[p]
            ELSE IF Silence(p) > InputTimeoutTicks THEN InputTimeoutTicks ELSE Silence(p)]

(* shouldCloseForIdleLocked, after step has counted a waiting input as     *)
(* progress.                                                               *)
Idle == room.pending = {} /\ room.frame - room.progress >= IdleTimeoutTicks

(* The code gives up the lock before it closes the room.  It never comes   *)
(* to it: progress is the frame whenever a step asks (FrameRoomIdle.cfg).  *)
StepIdle == destroyed' = TRUE /\ running' = FALSE /\ Signal
            /\ UNCHANGED <<room, waits>>

(* Someone's input is missing: the empty ones are kept, no frame advances. *)
StepWaits(g) ==
    /\ Ticks(g) /\ ~destroyed /\ room.players # {}
    /\ Idle \/ ~Ready
    /\ IF Idle THEN StepIdle
       ELSE /\ waits' = Waits
            /\ room' = [room EXCEPT !.pending = @ \cup {<<Next1, p>> : p \in TimedOut},
                                    !.progress = room.frame]
            /\ UNCHANGED <<running, destroyed, signalled>>
    /\ ToTop(g)
    /\ UNCHANGED <<gen, lineage, job, gauge, ops, calm>>

(* All inputs are there: the frame number and the inputs are taken, and    *)
(* the applier is called without the lock.                                 *)
StepAdvances(g) ==
    /\ Ticks(g) /\ ~destroyed /\ room.players # {} /\ ~Idle /\ Ready
    /\ Next1 <= MaxFrame
    /\ waits' = Waits
    /\ room' = [room EXCEPT !.frame = Next1, !.progress = Next1,
                            !.pending = {i \in @ : i[1] # Next1}]
    /\ job' = [job EXCEPT ![g] = [frame |-> Next1, gen |-> gen, lineage |-> lineage,
                                  who |-> room.players]]
    /\ loop' = [loop EXCEPT ![g] = "apply"]
    /\ UNCHANGED <<running, destroyed, gen, lineage, signalled, gauge, ops, calm>>

(* Mutation: the generation of the loop is not compared.                   *)
KeptOfAnyLoop(g) == ~destroyed /\ room.frame = job[g].frame

(* Mutation: a result is dropped whose members have changed.              *)
KeptOfSameMembers(g) ==
    /\ ~destroyed /\ gen = job[g].gen /\ room.frame = job[g].frame
    /\ room.players = job[g].who

Kept(g) == ~destroyed /\ gen = job[g].gen /\ room.frame = job[g].frame

(* The result belongs to a room that is no more: it is dropped.            *)
Discard(g) ==
    /\ loop[g] = "apply" /\ ~Kept(g)
    /\ ToTop(g) /\ job' = [job EXCEPT ![g] = NoJob]
    /\ UNCHANGED <<room, waits, running, destroyed, gen, lineage, signalled, gauge, ops, calm>>

(* pruneDisconnectedLocked: members gone for Retention frames (not those   *)
(* that went at frame 0).                                                  *)
Pruned(r) ==
    {p \in r.players \ r.online : /\ r.gone[p] # 0
                                  /\ r.frame - Max({r.gone[p], r.input[p]}) >= Retention}

(* The merge: each player still here that the applier knew.                *)
Merged(r, g) ==
    [p \in Players |-> IF p \notin r.players THEN r.state[p]
                       ELSE IF p \in job[g].who
                            THEN [frame |-> job[g].frame, lineage |-> job[g].lineage]
                            ELSE [r.state[p] EXCEPT !.frame = job[g].frame]]

Trimmed(h) == {f \in h : f > Max(h) - HistoryLimit}

Committed(g) ==
    LET f == job[g].frame
        merged == [room EXCEPT !.state = Merged(room, g),
                               !.history = Trimmed(@ \cup {f})]
        kept == Without(merged, Pruned(merged))
    IN [kept EXCEPT !.snap = IF f % SnapshotEvery = 0 THEN f ELSE @]

Commit(g) ==
    /\ loop[g] = "apply" /\ Kept(g)
    /\ room' = Committed(g)
    /\ waits' = [p \in Players |-> IF p \in room'.players THEN waits[p] ELSE 0]
    /\ gauge' = gauge - Cardinality(room.players \ room'.players)
    /\ ToTop(g) /\ job' = [job EXCEPT ![g] = NoJob]
    /\ UNCHANGED <<running, destroyed, gen, lineage, signalled, ops, calm>>

-----------------------------------------------------------------------------
FRNext ==
    \/ \E p \in Players : Join(p) \/ Reconnect(p) \/ MarkDisconnected(p) \/ Leave(p)
    \/ \E p \in Players, f \in Frames : Input(p, f)
    \/ Destroy \/ ImportState \/ ImportAsNew
    \/ \E g \in Gens : LoopTop(g) \/ LoopStops(g) \/ StepEmpty(g) \/ StepWaits(g)
                        \/ StepAdvances(g) \/ Discard(g) \/ Commit(g)

FRSpec == FRInit /\ [][FRNext]_vars

(* The ticker goes on ticking, and the applier returns.                    *)
LoopRuns(g) == LoopTop(g) \/ LoopStops(g) \/ StepEmpty(g) \/ StepWaits(g)
                \/ StepAdvances(g) \/ Discard(g) \/ Commit(g)
FRFairSpec == FRSpec /\ \A g \in Gens : WF_vars(LoopRuns(g))

-----------------------------------------------------------------------------
(* Properties *)

FRTypeOK ==
    /\ room.frame \in 0..MaxFrame /\ room.players \subseteq Players
    /\ room.pending \subseteq ((0..(MaxFrame + 1)) \X Players)
    /\ room.history \subseteq Frames /\ room.snap \in Frames \cup {None}
    /\ waits \in [Players -> 0..InputTimeoutTicks]
    /\ gen \in 0..MaxGen /\ running \in BOOLEAN /\ destroyed \in BOOLEAN
    /\ loop \in [Gens -> {"none", "top", "select", "apply", "gone"}]
    /\ signalled \subseteq Gens

(* The comments of step's third phase: whatever happened while the applier *)
(* ran, only members have a presence, inputs or a state; a member's*)
(* state stems from the state the room has now; and the metric counts them.*)
MembersAreOne ==
    /\ room.online \subseteq room.players
    /\ \A i \in room.pending : i[2] \in room.players
    /\ \A p \in Players \ room.players : room.state[p].frame = 0
    /\ \A p \in room.players : room.state[p].lineage = lineage
    /\ gauge = Cardinality(room.players)

(* What a recovery pack is made of: the last snapshot (or the state now)   *)
(* and the frames of the history after it.                                 *)
HasNoHole(r) == r.snap # None => \A f \in (r.snap + 1)..r.frame : f \in r.history

(* Recovery and Reconnect, RecoveryPack: outside a callback, the pack runs *)
(* without a hole from its snapshot to RecoveredUntil, through imports too. *)
(* Where calm does not hold, an export or a second loop in the window of a *)
(* callback leaves a hole; and so does a room that is kept when it empties *)
(* in that window and is joined again (see the README).                    *)
RecoveryHasNoHole ==
    calm /\ AutoDestroy /\ running /\ InCallback = {} => HasNoHole(room)

(* collectTimedOutLocked: a silent player never locks the frame: a running *)
(* room with members comes to its next frame.                              *)
Stuck(f) == running /\ ~destroyed /\ room.players # {} /\ room.frame = f
FramesAdvance == \A f \in 0..(MaxFrame - 1) : Stuck(f) ~> ~Stuck(f)

(* Config.IdleTimeoutTicks: without any input for more than that many      *)
(* frames the room closes.                                                 *)
IdleRoomCloses ==
    running => \E p \in room.players : room.frame - room.input[p] <= IdleTimeoutTicks
=============================================================================
