---------------------------- MODULE RoomTakeover ----------------------------
(***************************************************************************)
(* One room and the nodes that may run it (domain/room): the master's      *)
(* registry of its owner with the state staged for a takeover, and on each *)
(* node the room module (EnsureRoom, JoinRoom, DestroyRoom), the takeover  *)
(* manager and the kernel's rooms.  The master runs every request in a     *)
(* goroutine of its own, the registry's operations are its critical        *)
(* sections; a call may be lost before or after the master has run it.     *)
(*                                                                         *)
(* Of a room's state only its line is kept: 1 in a room made afresh, and   *)
(* one more with every export it descends from.                            *)
(***************************************************************************)
EXTENDS Integers, FiniteSets

CONSTANTS
    Nodes, Callers,
    Home,           \* Home[c]: the node whose goroutine c is
    MaxTransfers,   \* bound on the transfers over time
    MaxFaults,      \* bound on lost calls and crashes
    None

ASSUME RoomParams ==
    /\ Home \in [Callers -> Nodes] /\ None \notin Nodes /\ IsFiniteSet(Nodes)
    /\ MaxTransfers \in Nat /\ MaxFaults \in Nat

Ids == 1 .. MaxTransfers
Lines == 0 .. MaxTransfers + 1
NoRoom == 0
Pack == [id : Ids, line : Lines]
NoPack == [id |-> 0, line |-> 0]

VARIABLES
    owner,      \* the registry's owner of the room
    staged,     \* the takeover state the registry holds for it
    xfer,       \* xfer[i]: the i-th transfer request
    room,       \* room[n]: the line of n's room, or NoRoom
    closing,    \* closing[n]: n's room is destroyed but still in the table
    pending,    \* pending[n]: n's pendingState
    imported,   \* imported[n]: its imported mark
    importing,  \* importing[n]: an Activate is under way
    pc,         \* where each caller is
    faults,
    gone,       \* transfers whose state was dropped, expired or died with a node
    imports     \* imports[i]: how often the state of i was imported

registry == <<owner, staged>>
history == <<gone, imports>>
manager == <<pending, imported>>
vars == <<owner, staged, xfer, room, closing, pending, imported, importing, pc, faults, gone, imports>>

Init ==
    /\ owner = None /\ staged = NoPack
    /\ xfer = [i \in Ids |-> [step |-> "none", from |-> None, to |-> None, line |-> 0]]
    /\ room = [n \in Nodes |-> NoRoom] /\ closing = [n \in Nodes |-> FALSE]
    /\ pending = [n \in Nodes |-> NoPack] /\ imported = [n \in Nodes |-> FALSE]
    /\ importing = [n \in Nodes |-> FALSE]
    /\ pc = [c \in Callers |-> "idle"] /\ faults = 0
    /\ gone = {} /\ imports = [i \in Ids |-> 0]

Step(c, from, to) == pc[c] = from /\ pc' = [pc EXCEPT ![c] = to]
Fault == faults < MaxFaults /\ faults' = faults + 1
NoFault == UNCHANGED faults
Id(pack) == {pack.id} \ {0}

-----------------------------------------------------------------------------
(* The registry's operations *)

Register(n) == owner' = (IF owner = None THEN n ELSE owner) /\ UNCHANGED staged

(* The owner leaves, and with it the state staged for the room.            *)
Unregister(n) ==
    IF owner = n
    THEN /\ owner' = None /\ staged' = NoPack
         /\ gone' = gone \cup Id(staged) /\ UNCHANGED imports
    ELSE UNCHANGED <<registry, history>>

(* The calls: executed, or lost before or after the master executes them.  *)
RegisterCall(n) ==
    \/ NoFault /\ Register(n)
    \/ Fault /\ (Register(n) \/ UNCHANGED registry)

UnregisterCall(n) ==
    \/ NoFault /\ Unregister(n)
    \/ Fault /\ (Unregister(n) \/ UNCHANGED <<registry, history>>)

-----------------------------------------------------------------------------
(* Module: rooms are made, entered and destroyed *)

(* EnsureRoom: the kernel's room first, then the registration.             *)
EnsureRoom(c) ==
    LET n == Home[c]
    IN  /\ Step(c, "idle", "ensure")
        /\ room' = [room EXCEPT ![n] = IF @ = NoRoom THEN 1 ELSE @]
        /\ UNCHANGED <<registry, xfer, closing, manager, importing, faults, history>>

(* Its registration; whether it is granted does not matter to EnsureRoom.  *)
EnsureRegister(c) ==
    /\ Step(c, "ensure", "activate")
    /\ RegisterCall(Home[c])
    /\ UNCHANGED <<xfer, room, closing, manager, importing, history>>

(* JoinRoom asks for the owner (EnsureOwner): a lost query reads as none.  *)
JoinFind(c) ==
    /\ \/ NoFault /\ owner = Home[c] /\ Step(c, "idle", "activate")
       \/ NoFault /\ owner = None /\ Step(c, "idle", "register")
       \/ NoFault /\ owner \notin {None, Home[c]} /\ pc[c] = "idle" /\ UNCHANGED pc
       \/ Fault /\ Step(c, "idle", "register")
    /\ UNCHANGED <<registry, xfer, room, closing, manager, importing, history>>

JoinRegister(c) ==
    /\ Step(c, "register", "recheck")
    /\ RegisterCall(Home[c])
    /\ UNCHANGED <<xfer, room, closing, manager, importing, history>>

(* It asks again: another owner takes the connection over, none at all     *)
(* means that this node serves.                                            *)
JoinRecheck(c) ==
    /\ \/ NoFault /\ owner \in {None, Home[c]} /\ Step(c, "recheck", "activate")
       \/ NoFault /\ owner \notin {None, Home[c]} /\ Step(c, "recheck", "idle")
       \/ Fault /\ Step(c, "recheck", "activate")
    /\ UNCHANGED <<registry, xfer, room, closing, manager, importing, history>>

(* Any operation on the kernel's room runs the takeover hook first.        *)
Operate(c) ==
    /\ Step(c, "idle", "activate")
    /\ UNCHANGED <<registry, xfer, room, closing, manager, importing, faults, history>>

(* Destroy marks the room; its callback unregisters it while it is still   *)
(* in the table; DestroyRoom unregisters it once more when it has left.    *)
Destroy(c) ==
    LET n == Home[c]
    IN  /\ room[n] # NoRoom
        /\ Step(c, "idle", IF closing[n] THEN "remove" ELSE "unregister")
        /\ closing' = [closing EXCEPT ![n] = TRUE]
        /\ UNCHANGED <<registry, xfer, room, manager, importing, faults, history>>

DestroyUnregister(c) ==
    /\ \/ Step(c, "unregister", "remove") \/ Step(c, "again", "idle")
    /\ UnregisterCall(Home[c])
    /\ UNCHANGED <<xfer, room, closing, manager, importing>>

DestroyRemove(c) ==
    /\ Step(c, "remove", "again")
    /\ room' = [room EXCEPT ![Home[c]] = NoRoom]
    /\ closing' = [closing EXCEPT ![Home[c]] = FALSE]
    /\ UNCHANGED <<registry, xfer, manager, importing, faults, history>>

-----------------------------------------------------------------------------
(* RoomTakeoverManager.Activate *)

(* The import slot is left; Activate returns.                              *)
Release(c, from) ==
    Step(c, from, "idle") /\ importing' = [importing EXCEPT ![Home[c]] = FALSE]

(* Mutation: something pending is taken for an import under way. *)
ActivateUnlessPending(c) ==
    LET n == Home[c]
    IN  /\ Step(c, "activate", IF importing[n] \/ pending[n] # NoPack THEN "idle" ELSE "owner")
        /\ importing' = [importing EXCEPT ![n] = @ \/ pending[n] = NoPack]
        /\ UNCHANGED <<registry, xfer, room, closing, manager, faults, history>>

(* Mutation: there is no import slot. *)
ActivateAlways(c) ==
    /\ Step(c, "activate", IF pending[Home[c]] # NoPack THEN "import" ELSE "owner")
    /\ importing' = [importing EXCEPT ![Home[c]] = TRUE]
    /\ UNCHANGED <<registry, xfer, room, closing, manager, faults, history>>

(* One Activate at a time; what is pending comes before anything new.      *)
Activate(c) ==
    LET n == Home[c]
    IN  /\ Step(c, "activate", IF importing[n] THEN "idle"
                               ELSE IF pending[n] # NoPack THEN "import" ELSE "owner")
        /\ importing' = [importing EXCEPT ![n] = TRUE]
        /\ UNCHANGED <<registry, xfer, room, closing, manager, faults, history>>

FindOwner(c) ==
    /\ \/ NoFault /\ owner = Home[c] /\ Step(c, "owner", "claim") /\ UNCHANGED importing
       \/ NoFault /\ owner # Home[c] /\ Release(c, "owner")
       \/ Fault /\ Release(c, "owner")
    /\ UNCHANGED <<registry, xfer, room, closing, manager, history>>

(* Mutation: the handler passes no expected owner. *)
ClaimAnyOwner(c) ==
    /\ owner' = Home[c] /\ staged' = NoPack
    /\ NoFault /\ Step(c, "claim", "import")
    /\ pending' = [pending EXCEPT ![Home[c]] = IF @ = NoPack THEN staged ELSE @]
    /\ UNCHANGED <<importing, history>>

(* Mutation: the claim reads the staged state and leaves it. *)
ClaimKeeps(c) ==
    /\ owner \in {None, Home[c]} /\ owner' = Home[c]
    /\ NoFault /\ Step(c, "claim", "import")
    /\ pending' = [pending EXCEPT ![Home[c]] = IF @ = NoPack THEN staged ELSE @]
    /\ UNCHANGED <<staged, importing, history>>

(* Granted: the state staged, if any, is now pending here; or its reply is *)
(* lost and the state with it.                                             *)
ClaimGranted(c) ==
    LET n == Home[c]
    IN  /\ owner \in {None, n} /\ owner' = n /\ staged' = NoPack
        /\ \/ /\ NoFault /\ Step(c, "claim", "import")
              /\ pending' = [pending EXCEPT ![n] = IF @ = NoPack THEN staged ELSE @]
              /\ UNCHANGED <<importing, history>>
           \/ /\ Fault /\ Release(c, "claim")
              /\ gone' = gone \cup Id(staged) /\ UNCHANGED <<pending, imports>>

ClaimRefused(c) ==
    /\ \/ NoFault /\ owner \notin {None, Home[c]}
       \/ Fault
    /\ Release(c, "claim")
    /\ UNCHANGED <<registry, pending, history>>

Claim(c) ==
    /\ ClaimGranted(c) \/ ClaimRefused(c)
    /\ UNCHANGED <<xfer, room, closing, imported>>

(* importPending, first half: the kernel takes the state over, once; a     *)
(* destroyed room refuses and it stays pending.                            *)
Import(c) ==
    LET n == Home[c]
    IN  /\ \/ pending[n] = NoPack /\ Release(c, "import") /\ UNCHANGED <<room, imported, imports>>
           \/ /\ pending[n] # NoPack /\ imported[n] /\ Step(c, "import", "claimed")
              /\ UNCHANGED <<room, imported, importing, imports>>
           \/ /\ pending[n] # NoPack /\ ~imported[n] /\ closing[n] /\ Release(c, "import")
              /\ UNCHANGED <<room, imported, imports>>
           \/ /\ pending[n] # NoPack /\ ~imported[n] /\ ~closing[n]
              /\ Step(c, "import", IF room[n] = NoRoom THEN "created" ELSE "claimed")
              /\ room' = [room EXCEPT ![n] = pending[n].line]
              /\ imported' = [imported EXCEPT ![n] = TRUE]
              /\ imports' = [imports EXCEPT ![pending[n].id] = @ + 1]
              /\ UNCHANGED importing
        /\ UNCHANGED <<registry, xfer, closing, pending, faults, gone>>

(* An import that made the room fires its creation callback.               *)
ImportCreated(c) ==
    /\ Step(c, "created", "claimed")
    /\ RegisterCall(Home[c])
    /\ UNCHANGED <<xfer, room, closing, manager, importing, history>>

(* Mutation: the mark outlives the pending state. *)
ImportRegisterKeepsMark(c) ==
    LET n == Home[c]
    IN  /\ Release(c, "claimed") /\ NoFault /\ Register(n)
        /\ pending' = [pending EXCEPT ![n] = NoPack]
        /\ UNCHANGED <<imported, xfer, room, closing, history>>

(* Second half: registered as the owner, the takeover is done; refused, it *)
(* stays pending, marked as imported.                                      *)
ImportRegister(c) ==
    LET n == Home[c]
    IN  /\ Release(c, "claimed")
        /\ \/ /\ NoFault /\ Register(n)
              /\ IF owner \in {None, n}
                 THEN /\ pending' = [pending EXCEPT ![n] = NoPack]
                      /\ imported' = [imported EXCEPT ![n] = FALSE]
                 ELSE UNCHANGED manager
           \/ Fault /\ (Register(n) \/ UNCHANGED registry) /\ UNCHANGED manager
        /\ UNCHANGED <<xfer, room, closing, history>>

-----------------------------------------------------------------------------
(* A transfer: node n exports its room and hands it to m *)

Transfer(i, n, m) ==
    /\ \A j \in Ids : (xfer[j].step = "none") <=> (j >= i)
    /\ n # m /\ room[n] # NoRoom /\ room[n] + 1 \in Lines
    /\ xfer' = [xfer EXCEPT ![i] = [step |-> "sent", from |-> n, to |-> m, line |-> room[n] + 1]]
    /\ UNCHANGED <<registry, room, closing, manager, importing, pc, faults, history>>

(* The master's handler stages the state,                                  *)
TransferSave(i) ==
    /\ xfer[i].step = "sent" /\ xfer' = [xfer EXCEPT ![i].step = "saved"]
    /\ staged' = [id |-> i, line |-> xfer[i].line]
    /\ gone' = gone \cup Id(staged)
    /\ UNCHANGED <<owner, room, closing, manager, importing, pc, faults, imports>>

(* and gives the room away if it still is the sender's.                    *)
TransferReassign(i) ==
    /\ xfer[i].step = "saved" /\ xfer' = [xfer EXCEPT ![i].step = "done"]
    /\ owner' = IF owner \in {None, xfer[i].from} THEN xfer[i].to ELSE owner
    /\ UNCHANGED <<staged, room, closing, manager, importing, pc, faults, history>>

(* The staged state outlives takeoverStateTTL.                             *)
Expire ==
    /\ staged # NoPack /\ staged' = NoPack /\ gone' = gone \cup Id(staged)
    /\ UNCHANGED <<owner, xfer, room, closing, manager, importing, pc, faults, imports>>

Crash(n) ==
    /\ Fault
    /\ room' = [room EXCEPT ![n] = NoRoom] /\ closing' = [closing EXCEPT ![n] = FALSE]
    /\ pending' = [pending EXCEPT ![n] = NoPack] /\ imported' = [imported EXCEPT ![n] = FALSE]
    /\ importing' = [importing EXCEPT ![n] = FALSE]
    /\ pc' = [c \in Callers |-> IF Home[c] = n THEN "idle" ELSE pc[c]]
    /\ gone' = IF imported[n] THEN gone ELSE gone \cup Id(pending[n])
    /\ UNCHANGED <<registry, xfer, imports>>

-----------------------------------------------------------------------------
Start(c) == EnsureRoom(c) \/ JoinFind(c) \/ Operate(c) \/ Destroy(c)

Continue(c) ==
    \/ EnsureRegister(c) \/ JoinRegister(c) \/ JoinRecheck(c)
    \/ DestroyUnregister(c) \/ DestroyRemove(c)
    \/ Activate(c) \/ FindOwner(c) \/ Claim(c)
    \/ Import(c) \/ ImportCreated(c) \/ ImportRegister(c)

Next ==
    \/ \E c \in Callers : Start(c) \/ Continue(c)
    \/ \E i \in Ids : TransferSave(i) \/ TransferReassign(i) \/ \E n, m \in Nodes : Transfer(i, n, m)
    \/ Expire \/ \E n \in Nodes : Crash(n)

Spec == Init /\ [][Next]_vars

(* A goroutine that runs goes on running.                                  *)
FairSpec == Spec /\ \A c \in Callers : WF_vars(Continue(c))

-----------------------------------------------------------------------------
(* Properties *)

InActivate == {"owner", "claim", "import", "created", "claimed"}

(* Besides the types: only a pending state is marked as imported           *)
(* (importPending deletes the state and its mark together).                *)
TypeOK ==
    /\ owner \in Nodes \cup {None} /\ staged \in Pack \cup {NoPack}
    /\ xfer \in [Ids -> [step : {"none", "sent", "saved", "done"}, from : Nodes \cup {None},
                         to : Nodes \cup {None}, line : Lines]]
    /\ room \in [Nodes -> Lines] /\ closing \in [Nodes -> BOOLEAN]
    /\ pending \in [Nodes -> Pack \cup {NoPack}] /\ imported \in [Nodes -> BOOLEAN]
    /\ importing \in [Nodes -> BOOLEAN]
    /\ pc \in [Callers -> {"idle", "ensure", "register", "recheck", "activate", "unregister",
                           "remove", "again"} \cup InActivate]
    /\ faults \in 0 .. MaxFaults /\ gone \subseteq Ids /\ imports \in [Ids -> Nat]
    /\ \A n \in Nodes : imported[n] => pending[n] # NoPack

(* acquireImport: at most one goroutine of a node is between it and        *)
(* releaseImport, however many joins and inputs start an Activate.         *)
SingleFlight ==
    \A c, d \in Callers : pc[c] \in InActivate =>
        importing[Home[c]] /\ (pc[d] \in InActivate /\ Home[d] = Home[c] => c = d)

Staging(i) == IF staged.id = i THEN 1 ELSE 0
Waiting(i) == {n \in Nodes : pending[n].id = i /\ ~imported[n]}
Lost(i) == IF i \in gone THEN 1 ELSE 0
Sent(i) == IF xfer[i].step \in {"saved", "done"} THEN 1 ELSE 0

(* ClaimWithState ("atomically") and pendingImport ("never imported        *)
(* twice"): from the moment it is staged a transferred state is in exactly *)
(* one place - staged, pending on one node, imported once, or lost to an   *)
(* expiry, a later transfer, a lost reply or a crash.                      *)
StateInOnePlace ==
    \A i \in Ids : Staging(i) + Cardinality(Waiting(i)) + Lost(i) + imports[i] = Sent(i)

(* Register, Reassign and the claim handler's comment ("any node could     *)
(* seize the room"): a room changes hands only by a transfer of its owner  *)
(* to that very node, or after its owner unregistered.                     *)
OwnerNotSeized ==
    [][owner # None /\ owner' \notin {None, owner} =>
          \E i \in Ids : xfer[i].step = "saved" /\ xfer[i].from = owner /\ xfer[i].to = owner']_vars

(* importPending's comment on retries: a node that keeps the room and goes *)
(* on operating it ends with nothing staged and nothing pending, whatever  *)
(* failed before.                                                          *)
TakeoverEnds ==
    \A n \in Nodes :
        <>[](owner = n) /\ []<>(\E c \in Callers : Home[c] = n /\ pc[c] = "activate")
            => <>[](staged = NoPack /\ pending[n] = NoPack)

(* maybeActivateTakeover's comment: claim and import happen "only if this  *)
(* node is the takeover's target".  A state is imported by the node it was *)
(* handed to.                                                              *)
ImportedByTarget ==
    [][\A n \in Nodes : imported'[n] /\ ~imported[n] => xfer[pending[n].id].to = n]_vars
=============================================================================
