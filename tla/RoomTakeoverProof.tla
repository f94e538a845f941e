-------------------------- MODULE RoomTakeoverProof --------------------------
(***************************************************************************)
(* For any nodes, goroutines, transfers and faults: the types, the single  *)
(* flight of Activate, and that no room is seized.  TypeOK and             *)
(* SingleFlight are inductive together.                                    *)
(***************************************************************************)
EXTENDS RoomTakeover, FiniteSetTheorems, TLAPS

Inv == TypeOK /\ SingleFlight

LEMMA PackTypes ==
    /\ NoPack \notin Pack
    /\ \A p \in Pack \cup {NoPack} : Id(p) \subseteq Ids /\ (p # NoPack => p.id \in Ids /\ p.line \in Lines)
    BY RoomParams DEF NoPack, Pack, Id, Ids

LEMMA Start0 == Init => Inv
<1> SUFFICES ASSUME Init PROVE Inv  OBVIOUS
<1>1. TypeOK
      BY RoomParams DEF Init, TypeOK, Lines, Ids, NoRoom
<1>2. SingleFlight  BY DEF Init, SingleFlight, InActivate
<1> QED  BY <1>1, <1>2 DEF Inv

-----------------------------------------------------------------------------
(* Types *)

LEMMA Calls ==
    ASSUME TypeOK, NEW n \in Nodes
    PROVE  /\ RegisterCall(n) => /\ owner' \in Nodes \cup {None} /\ staged' = staged
                                 /\ faults' \in 0 .. MaxFaults
           /\ UnregisterCall(n) => /\ owner' \in Nodes \cup {None} /\ staged' \in Pack \cup {NoPack}
                                   /\ faults' \in 0 .. MaxFaults
                                   /\ gone' \subseteq Ids /\ imports' = imports
<1>1. Fault \/ NoFault => faults' \in 0 .. MaxFaults
      BY RoomParams DEF TypeOK, Fault, NoFault
<1> QED  BY <1>1, PackTypes DEF TypeOK, RegisterCall, Register, UnregisterCall, Unregister,
                                registry, history

LEMMA TypesOfModule ==
    ASSUME TypeOK, NEW c \in Callers,
           \/ EnsureRoom(c) \/ EnsureRegister(c) \/ JoinFind(c) \/ JoinRegister(c) \/ JoinRecheck(c)
           \/ Operate(c) \/ Destroy(c) \/ DestroyUnregister(c) \/ DestroyRemove(c)
    PROVE  TypeOK'
<1> USE DEF TypeOK, Step, InActivate, manager
<1>0. Home[c] \in Nodes  BY RoomParams
<1>1. CASE EnsureRoom(c)
      <2>1. 1 \in Lines /\ NoRoom \in Lines  BY RoomParams DEF Lines, NoRoom
      <2> QED  BY <1>0, <1>1, <2>1 DEF EnsureRoom, registry, history
<1>2. CASE EnsureRegister(c)  BY <1>0, <1>2, Calls DEF EnsureRegister, history
<1>3. CASE JoinFind(c)
      <2>1. faults' \in 0 .. MaxFaults  BY <1>3, RoomParams DEF JoinFind, Fault, NoFault
      <2> QED  BY <1>3, <2>1 DEF JoinFind, registry, history
<1>4. CASE JoinRegister(c)  BY <1>0, <1>4, Calls DEF JoinRegister, history
<1>5. CASE JoinRecheck(c)
      <2>1. faults' \in 0 .. MaxFaults  BY <1>5, RoomParams DEF JoinRecheck, Fault, NoFault
      <2> QED  BY <1>5, <2>1 DEF JoinRecheck, registry, history
<1>6. CASE Operate(c)  BY <1>6 DEF Operate, registry, history
<1>7. CASE Destroy(c)  BY <1>0, <1>7 DEF Destroy, registry, history
<1>8. CASE DestroyUnregister(c)  BY <1>0, <1>8, Calls DEF DestroyUnregister
<1>9. CASE DestroyRemove(c)
      <2>1. NoRoom \in Lines  BY RoomParams DEF Lines, NoRoom
      <2> QED  BY <1>0, <1>9, <2>1 DEF DestroyRemove, registry, history
<1> QED  BY <1>1, <1>2, <1>3, <1>4, <1>5, <1>6, <1>7, <1>8, <1>9

LEMMA TypesOfActivate ==
    ASSUME TypeOK, NEW c \in Callers,
           \/ Activate(c) \/ FindOwner(c) \/ Claim(c) \/ Import(c) \/ ImportCreated(c) \/ ImportRegister(c)
    PROVE  TypeOK'
<1> USE DEF TypeOK, Step, InActivate, manager, Release
<1>0. Home[c] \in Nodes  BY RoomParams
<1>a. Fault \/ NoFault => faults' \in 0 .. MaxFaults  BY RoomParams DEF Fault, NoFault
<1>1. CASE Activate(c)  BY <1>0, <1>1 DEF Activate, registry, history
<1>2. CASE FindOwner(c)  BY <1>0, <1>a, <1>2 DEF FindOwner, registry, history
<1>3. CASE Claim(c)
      <2>1. CASE ClaimGranted(c)
            <3>1. pending' \in [Nodes -> Pack \cup {NoPack}]
                  <4>1. CASE pending' = [pending EXCEPT ![Home[c]] =
                                              IF @ = NoPack THEN staged ELSE @]
                        BY <1>0, <4>1
                  <4>2. CASE UNCHANGED pending  BY <4>2
                  <4> QED  BY <2>1, <4>1, <4>2 DEF ClaimGranted
            <3>2. \A n \in Nodes : pending[n] # NoPack => pending'[n] # NoPack
                  BY <1>0, <2>1 DEF ClaimGranted
            <3>3. owner' \in Nodes \cup {None} /\ staged' \in Pack \cup {NoPack}
                  BY <1>0, <2>1 DEF ClaimGranted
            <3>4. pc' \in [Callers -> {"idle", "ensure", "register", "recheck", "activate",
                                      "unregister", "remove", "again"} \cup InActivate]
                  BY <2>1 DEF ClaimGranted
            <3>5. importing' \in [Nodes -> BOOLEAN] /\ faults' \in 0 .. MaxFaults
                  BY <1>0, <1>a, <2>1 DEF ClaimGranted
            <3>6. gone' \subseteq Ids /\ imports' \in [Ids -> Nat]
                  BY <2>1, PackTypes DEF ClaimGranted, history
            <3>7. UNCHANGED <<xfer, room, closing, imported>>  BY <1>3 DEF Claim
            <3> QED  BY <3>1, <3>2, <3>3, <3>4, <3>5, <3>6, <3>7
      <2>2. CASE ClaimRefused(c)
            BY <1>0, <1>a, <1>3, <2>2 DEF Claim, ClaimRefused, registry, history
      <2> QED  BY <1>3, <2>1, <2>2 DEF Claim
<1>4. CASE Import(c)
      <2>1. pending[Home[c]] # NoPack => pending[Home[c]].id \in Ids /\ pending[Home[c]].line \in Lines
            BY <1>0, PackTypes
      <2>2. UNCHANGED <<owner, staged, xfer, closing, pending, faults, gone>>
            BY <1>4 DEF Import, registry
      <2>3. importing' \in [Nodes -> BOOLEAN]  BY <1>0, <1>4 DEF Import
      <2>4. pc' \in [Callers -> {"idle", "ensure", "register", "recheck", "activate",
                                "unregister", "remove", "again"} \cup InActivate]
            BY <1>4 DEF Import
      <2>5. CASE UNCHANGED <<room, imported, imports>>  BY <2>2, <2>3, <2>4, <2>5
      <2>6. CASE /\ pending[Home[c]] # NoPack
                 /\ room' = [room EXCEPT ![Home[c]] = pending[Home[c]].line]
                 /\ imported' = [imported EXCEPT ![Home[c]] = TRUE]
                 /\ imports' = [imports EXCEPT ![pending[Home[c]].id] = @ + 1]
            <3>1. room' \in [Nodes -> Lines] /\ imported' \in [Nodes -> BOOLEAN]
                  BY <1>0, <2>1, <2>6
            <3>2. imports' \in [Ids -> Nat]  BY <2>1, <2>6
            <3>3. \A n \in Nodes : imported'[n] => pending[n] # NoPack  BY <1>0, <2>6
            <3> QED  BY <2>2, <2>3, <2>4, <3>1, <3>2, <3>3
      <2> QED  BY <1>4, <2>5, <2>6 DEF Import
<1>5. CASE ImportCreated(c)  BY <1>0, <1>5, Calls DEF ImportCreated, history
<1>6. CASE ImportRegister(c)
      BY <1>0, <1>a, <1>6, PackTypes DEF ImportRegister, Register, registry, history
<1> QED  BY <1>1, <1>2, <1>3, <1>4, <1>5, <1>6

LEMMA TypesOfRest ==
    ASSUME TypeOK,
           \/ \E i \in Ids, n, m \in Nodes : Transfer(i, n, m)
           \/ \E i \in Ids : TransferSave(i) \/ TransferReassign(i)
           \/ Expire \/ \E n \in Nodes : Crash(n)
    PROVE  TypeOK'
<1> USE DEF TypeOK, InActivate, manager
<1>1. ASSUME NEW i \in Ids, NEW n \in Nodes, NEW m \in Nodes, Transfer(i, n, m) PROVE TypeOK'
      BY <1>1 DEF Transfer, registry, history
<1>2. ASSUME NEW i \in Ids, TransferSave(i) PROVE TypeOK'
      <2>1. staged' \in Pack  BY <1>2 DEF TransferSave, Pack
      <2>2. xfer' \in [Ids -> [step : {"none", "sent", "saved", "done"}, from : Nodes \cup {None},
                               to : Nodes \cup {None}, line : Lines]]
            <3>1. xfer' = [xfer EXCEPT ![i].step = "saved"]  BY <1>2 DEF TransferSave
            <3> QED  BY <3>1
      <2> QED  BY <1>2, <2>1, <2>2, PackTypes DEF TransferSave
<1>3. ASSUME NEW i \in Ids, TransferReassign(i) PROVE TypeOK'
      <2>2. xfer' \in [Ids -> [step : {"none", "sent", "saved", "done"}, from : Nodes \cup {None},
                               to : Nodes \cup {None}, line : Lines]]
            BY <1>3 DEF TransferReassign
      <2> QED  BY <1>3, <2>2 DEF TransferReassign, history
<1>4. CASE Expire  BY <1>4, PackTypes DEF Expire
<1>5. ASSUME NEW n \in Nodes, Crash(n) PROVE TypeOK'
      <2>1. faults' \in 0 .. MaxFaults  BY <1>5, RoomParams DEF Crash, Fault
      <2>2. NoRoom \in Lines  BY RoomParams DEF Lines, NoRoom
      <2> QED  BY <1>5, <2>1, <2>2, PackTypes DEF Crash, registry
<1> QED  BY <1>1, <1>2, <1>3, <1>4, <1>5

-----------------------------------------------------------------------------
(* Single flight *)

(* Moves outside Activate, and moves within it, leave the slots alone.     *)
LEMMA SlotsKept ==
    ASSUME TypeOK, SingleFlight, NEW c \in Callers, UNCHANGED importing,
           NEW a, NEW b, Step(c, a, b), b \in InActivate => a \in InActivate
    PROVE  SingleFlight'
    BY DEF TypeOK, SingleFlight, Step

LEMMA SlotReleased ==
    ASSUME TypeOK, SingleFlight, NEW c \in Callers, NEW a \in InActivate, Release(c, a)
    PROVE  SingleFlight'
    BY RoomParams DEF TypeOK, SingleFlight, Release, Step, InActivate

LEMMA SingleFlightStep ==
    ASSUME Inv, NEW c \in Callers, Start(c) \/ Continue(c) PROVE SingleFlight'
<1> USE DEF Inv
<1>1. CASE EnsureRoom(c)  BY <1>1, SlotsKept DEF EnsureRoom, InActivate
<1>2. CASE EnsureRegister(c)  BY <1>2, SlotsKept DEF EnsureRegister, InActivate
<1>3. CASE JoinFind(c)
      <2>1. CASE UNCHANGED pc  BY <1>3, <2>1 DEF JoinFind, SingleFlight
      <2>2. CASE Step(c, "idle", "activate")  BY <1>3, <2>2, SlotsKept DEF JoinFind, InActivate
      <2>3. CASE Step(c, "idle", "register")  BY <1>3, <2>3, SlotsKept DEF JoinFind, InActivate
      <2> QED  BY <1>3, <2>1, <2>2, <2>3 DEF JoinFind
<1>4. CASE JoinRegister(c)  BY <1>4, SlotsKept DEF JoinRegister, InActivate
<1>5. CASE JoinRecheck(c)
      <2>1. CASE Step(c, "recheck", "activate")  BY <1>5, <2>1, SlotsKept DEF JoinRecheck, InActivate
      <2>2. CASE Step(c, "recheck", "idle")  BY <1>5, <2>2, SlotsKept DEF JoinRecheck, InActivate
      <2> QED  BY <1>5, <2>1, <2>2 DEF JoinRecheck
<1>6. CASE Operate(c)  BY <1>6, SlotsKept DEF Operate, InActivate
<1>7. CASE Destroy(c)
      <2>1. CASE Step(c, "idle", "remove")  BY <1>7, <2>1, SlotsKept DEF Destroy, InActivate
      <2>2. CASE Step(c, "idle", "unregister")  BY <1>7, <2>2, SlotsKept DEF Destroy, InActivate
      <2> QED  BY <1>7, <2>1, <2>2 DEF Destroy
<1>8. CASE DestroyUnregister(c)
      <2>1. CASE Step(c, "unregister", "remove")  BY <1>8, <2>1, SlotsKept DEF DestroyUnregister, InActivate
      <2>2. CASE Step(c, "again", "idle")  BY <1>8, <2>2, SlotsKept DEF DestroyUnregister, InActivate
      <2> QED  BY <1>8, <2>1, <2>2 DEF DestroyUnregister
<1>9. CASE DestroyRemove(c)  BY <1>9, SlotsKept DEF DestroyRemove, InActivate
<1>10. CASE Activate(c)
      <2>1. CASE importing[Home[c]]
            <3>1. UNCHANGED importing  BY <1>10, <2>1, RoomParams DEF Activate, TypeOK
            <3>2. Step(c, "activate", "idle")  BY <1>10, <2>1 DEF Activate
            <3> QED  BY <3>1, <3>2, SlotsKept DEF InActivate
      <2>2. CASE ~importing[Home[c]]
            BY <1>10, <2>2, RoomParams DEF Activate, TypeOK, SingleFlight, Step, InActivate
      <2> QED  BY <2>1, <2>2
<1>11. CASE FindOwner(c)
      <2>1. CASE Release(c, "owner")  BY <2>1, SlotReleased DEF InActivate
      <2>2. CASE Step(c, "owner", "claim") /\ UNCHANGED importing  BY <2>2, SlotsKept DEF InActivate
      <2> QED  BY <1>11, <2>1, <2>2 DEF FindOwner
<1>12. CASE Claim(c)
      <2>1. CASE Release(c, "claim")  BY <2>1, SlotReleased DEF InActivate
      <2>2. CASE Step(c, "claim", "import") /\ UNCHANGED importing  BY <2>2, SlotsKept DEF InActivate
      <2> QED  BY <1>12, <2>1, <2>2 DEF Claim, ClaimGranted, ClaimRefused
<1>13. CASE Import(c)
      <2>1. CASE Release(c, "import")  BY <2>1, SlotReleased DEF InActivate
      <2>2. CASE Step(c, "import", "claimed") /\ UNCHANGED importing  BY <2>2, SlotsKept DEF InActivate
      <2>3. CASE Step(c, "import", "created") /\ UNCHANGED importing  BY <2>3, SlotsKept DEF InActivate
      <2> QED  BY <1>13, <2>1, <2>2, <2>3 DEF Import
<1>14. CASE ImportCreated(c)  BY <1>14, SlotsKept DEF ImportCreated, InActivate
<1>15. CASE ImportRegister(c)  BY <1>15, SlotReleased DEF ImportRegister, InActivate
<1> QED  BY <1>1, <1>2, <1>3, <1>4, <1>5, <1>6, <1>7, <1>8, <1>9, <1>10, <1>11, <1>12, <1>13,
            <1>14, <1>15 DEF Start, Continue

-----------------------------------------------------------------------------
(* The state of a transfer is in one place *)

(* A claim is made only while nothing is pending, and what the second half *)
(* of importPending clears has been imported.                              *)
Phases ==
    \A c \in Callers :
        /\ pc[c] \in {"owner", "claim"} => pending[Home[c]] = NoPack
        /\ pc[c] \in {"created", "claimed"} => imported[Home[c]]

LEMMA PhasesStep == Inv /\ Phases /\ [Next]_vars => Phases'
<1> SUFFICES ASSUME Inv, Phases, [Next]_vars PROVE Phases'  OBVIOUS
<1> USE DEF Inv
<1>0. /\ pc \in [Callers -> {"idle", "ensure", "register", "recheck", "activate", "unregister",
                             "remove", "again"} \cup InActivate]
      /\ pending \in [Nodes -> Pack \cup {NoPack}] /\ imported \in [Nodes -> BOOLEAN]
      /\ Home \in [Callers -> Nodes]
      BY RoomParams DEF TypeOK
<1>1. ASSUME NEW c \in Callers, UNCHANGED manager, NEW a, NEW b, Step(c, a, b),
             b \in {"owner", "claim"} => a \in {"owner", "claim"} \/ pending[Home[c]] = NoPack,
             b \in {"created", "claimed"} => a \in {"created", "claimed"} \/ imported[Home[c]]
      PROVE  Phases'
      BY <1>0, <1>1 DEF Phases, Step, manager
<1>2. ASSUME NEW c \in Callers, Start(c) PROVE Phases'
      <2>1. UNCHANGED manager  BY <1>2 DEF Start, EnsureRoom, JoinFind, Operate, Destroy
      <2>2. \/ UNCHANGED pc \/ Step(c, "idle", "ensure") \/ Step(c, "idle", "activate")
            \/ Step(c, "idle", "register") \/ Step(c, "idle", "remove") \/ Step(c, "idle", "unregister")
            BY <1>2 DEF Start, EnsureRoom, JoinFind, Operate, Destroy
      <2>3. CASE UNCHANGED pc  BY <2>1, <2>3 DEF Phases, manager
      <2> QED  BY <1>1, <2>1, <2>2, <2>3
<1>3. ASSUME NEW c \in Callers, Continue(c), UNCHANGED manager PROVE Phases'
      <2>1. \/ EnsureRegister(c) \/ JoinRegister(c) \/ JoinRecheck(c) \/ DestroyUnregister(c)
            \/ DestroyRemove(c) \/ FindOwner(c) \/ ImportCreated(c)
            => \E a, b : Step(c, a, b) /\ (b \in {"owner", "claim"} => a \in {"owner", "claim"})
                                     /\ (b \in {"created", "claimed"} => a \in {"created", "claimed"})
            BY DEF EnsureRegister, JoinRegister, JoinRecheck, DestroyUnregister, DestroyRemove,
                   FindOwner, Release, ImportCreated
      <2>2. Activate(c) => \E b : Step(c, "activate", b) /\ (b = "owner" => pending[Home[c]] = NoPack)
                                 /\ b \notin {"claim", "created", "claimed"}
            BY DEF Activate
      <2>3. Claim(c) => \E b : Step(c, "claim", b) /\ b \in {"idle", "import"}
            BY DEF Claim, ClaimGranted, ClaimRefused, Release
      <2>4. Import(c) => \E b : Step(c, "import", b) /\ (b \in {"created", "claimed"} => imported[Home[c]])
                               /\ b \notin {"owner", "claim"}
            BY <1>0, <1>3 DEF Import, Release, manager
      <2>5. ImportRegister(c) => Step(c, "claimed", "idle")  BY DEF ImportRegister, Release
      <2> QED  BY <1>1, <1>3, <2>1, <2>2, <2>3, <2>4, <2>5 DEF Continue
<1>4. ASSUME NEW c \in Callers, Continue(c), ~UNCHANGED manager PROVE Phases'
      <2>1. Claim(c) \/ Import(c) \/ ImportRegister(c)
            BY <1>4 DEF Continue, EnsureRegister, JoinRegister, JoinRecheck, DestroyUnregister,
                        DestroyRemove, Activate, FindOwner, ImportCreated
      <2>2. \A d \in Callers : d # c /\ Home[d] = Home[c] => pc[d] \notin InActivate
            BY <2>1 DEF SingleFlight, Claim, ClaimGranted, ClaimRefused, Import, ImportRegister,
                        Release, Step, InActivate
      <2>3. \A m \in Nodes : m # Home[c] => pending'[m] = pending[m] /\ imported'[m] = imported[m]
            BY <1>0, <2>1 DEF Claim, ClaimGranted, ClaimRefused, Import, ImportRegister, manager
      <2>4. \E a, b : Step(c, a, b) /\ b \notin {"owner", "claim"}
                     /\ (b \in {"created", "claimed"} => imported'[Home[c]])
            BY <1>0, <2>1 DEF Claim, ClaimGranted, ClaimRefused, Import, ImportRegister, Release
      <2> QED  BY <1>0, <2>2, <2>3, <2>4 DEF Phases, Step, InActivate
<1>5. ASSUME NEW n \in Nodes, Crash(n) PROVE Phases'
      BY <1>0, <1>5 DEF Crash, Phases
<1>6. CASE \/ \E i \in Ids, n, m \in Nodes : Transfer(i, n, m)
           \/ \E i \in Ids : TransferSave(i) \/ TransferReassign(i)
           \/ Expire \/ UNCHANGED vars
      <2>1. UNCHANGED <<pc, pending, imported>>
            BY <1>6 DEF Transfer, TransferSave, TransferReassign, Expire, vars, manager
      <2> QED  BY <2>1 DEF Phases
<1> QED  BY <1>2, <1>3, <1>4, <1>5, <1>6 DEF Next

-----------------------------------------------------------------------------
(* The count of places, id by id. *)
LEMMA Counts ==
    ASSUME NEW S \in SUBSET Nodes, NEW n \in Nodes
    PROVE  /\ Cardinality(S) \in Nat
           /\ n \notin S => Cardinality(S \cup {n}) = Cardinality(S) + 1
           /\ n \in S => Cardinality(S \ {n}) = Cardinality(S) - 1 /\ Cardinality(S) >= 1
<1>1. IsFiniteSet(S)  BY RoomParams, FS_Subset
<1>2. Cardinality(S) \in Nat  BY <1>1, FS_CardinalityType
<1>3. n \notin S => Cardinality(S \cup {n}) = Cardinality(S) + 1  BY <1>1, FS_AddElement
<1>4. ASSUME n \in S PROVE Cardinality(S \ {n}) = Cardinality(S) - 1 /\ Cardinality(S) >= 1
      <2>1. Cardinality(S \ {n}) = Cardinality(S) - 1  BY <1>1, <1>4, FS_RemoveElement
      <2>2. IsFiniteSet(S \ {n})  BY <1>1, FS_Subset
      <2>3. Cardinality(S \ {n}) \in Nat  BY <2>2, FS_CardinalityType
      <2> QED  BY <1>2, <2>1, <2>3
<1> QED  BY <1>2, <1>3, <1>4

Balanced(i) == Staging(i) + Cardinality(Waiting(i)) + Lost(i) + imports[i] = Sent(i)

LEMMA Unplaced ==
    ASSUME StateInOnePlace, UNCHANGED <<staged, pending, imported, gone, imports>>,
           \A i \in Ids : Sent(i)' = Sent(i)
    PROVE  StateInOnePlace'
<1> SUFFICES ASSUME NEW i \in Ids PROVE Balanced(i)'  BY DEF StateInOnePlace, Balanced
<1>1. Waiting(i)' = Waiting(i) /\ Staging(i)' = Staging(i) /\ Lost(i)' = Lost(i)
      BY DEF Waiting, Staging, Lost
<1>2. Balanced(i)  BY DEF StateInOnePlace, Balanced
<1> QED  BY <1>1, <1>2 DEF Balanced

(* What a step has to give for one id: the numbers before and after.       *)
LEMMA Numbers ==
    ASSUME TypeOK, NEW i \in Ids
    PROVE  /\ Staging(i) \in {0, 1} /\ Lost(i) \in {0, 1} /\ Sent(i) \in {0, 1}
           /\ Waiting(i) \in SUBSET Nodes /\ Cardinality(Waiting(i)) \in Nat /\ imports[i] \in Nat
<1>1. Waiting(i) \in SUBSET Nodes  BY DEF Waiting
<1>2. Cardinality(Waiting(i)) \in Nat
      <2>1. IsFiniteSet(Waiting(i))  BY <1>1, RoomParams, FS_Subset
      <2> QED  BY <2>1, FS_CardinalityType
<1> QED  BY <1>1, <1>2 DEF TypeOK, Staging, Lost, Sent

(* The state staged is dropped: it is counted as lost instead.             *)
LEMMA Dropped ==
    ASSUME TypeOK, NEW i \in Ids, Balanced(i), staged'.id # i, gone' = gone \cup Id(staged)
    PROVE  Staging(i)' + Lost(i)' = Staging(i) + Lost(i)
<1>1. CASE staged.id = i
      <2>1. Staging(i) = 1 /\ Staging(i)' = 0  BY <1>1 DEF Staging
      <2>2. Lost(i) = 0  BY <2>1, Numbers DEF Balanced
      <2>3. Lost(i)' = 1  BY <1>1 DEF Lost, Id, Ids
      <2> QED  BY <2>1, <2>2, <2>3
<1>2. CASE staged.id # i
      <2>1. Staging(i) = 0 /\ Staging(i)' = 0  BY <1>2 DEF Staging
      <2>2. Lost(i)' = Lost(i)  BY <1>2 DEF Lost, Id
      <2> QED  BY <2>1, <2>2, Numbers
<1> QED  BY <1>1, <1>2

LEMMA DroppedOnly ==
    ASSUME TypeOK, StateInOnePlace, staged' = NoPack, gone' = gone \cup Id(staged),
           UNCHANGED <<pending, imported, imports, xfer>>
    PROVE  StateInOnePlace'
<1> SUFFICES ASSUME NEW i \in Ids PROVE Balanced(i)'  BY DEF StateInOnePlace, Balanced
<1>1. Balanced(i)  BY DEF StateInOnePlace, Balanced
<1>2. staged'.id # i  BY DEF NoPack, Ids
<1>3. Staging(i)' + Lost(i)' = Staging(i) + Lost(i)  BY <1>1, <1>2, Dropped
<1>4. Waiting(i)' = Waiting(i) /\ Sent(i)' = Sent(i)  BY DEF Waiting, Sent
<1>5. Staging(i)' \in {0, 1} /\ Lost(i)' \in {0, 1}  BY DEF Staging, Lost
<1> QED  BY <1>1, <1>3, <1>4, <1>5, Numbers DEF Balanced

LEMMA PlacesOfClaim ==
    ASSUME Inv, Phases, StateInOnePlace, NEW c \in Callers, Claim(c) PROVE StateInOnePlace'
<1> DEFINE n == Home[c]
<1>0. n \in Nodes /\ TypeOK /\ UNCHANGED <<xfer, imported>>  BY RoomParams DEF Inv, Claim
<1>1. CASE ClaimRefused(c)
      BY <1>0, <1>1, Unplaced DEF ClaimRefused, registry, history, Claim, Sent
<1>2. CASE ClaimGranted(c) /\ gone' = gone \cup Id(staged) /\ UNCHANGED <<pending, imports>>
      BY <1>0, <1>2, DroppedOnly DEF ClaimGranted
<1>3. CASE /\ ClaimGranted(c) /\ Step(c, "claim", "import") /\ UNCHANGED history
           /\ pending' = [pending EXCEPT ![n] = IF @ = NoPack THEN staged ELSE @]
      <2>1. pending[n] = NoPack /\ ~imported[n]
            BY <1>0, <1>3 DEF Phases, Step, TypeOK
      <2>2. pending' = [pending EXCEPT ![n] = staged]  BY <1>0, <1>3, <2>1 DEF TypeOK
      <2>3. staged' = NoPack  BY <1>3 DEF ClaimGranted
      <2> SUFFICES ASSUME NEW i \in Ids PROVE Balanced(i)'  BY DEF StateInOnePlace, Balanced
      <2>4. Balanced(i)  BY DEF StateInOnePlace, Balanced
      <2>5. NoPack.id # i  BY DEF NoPack, Ids
      <2>6. Lost(i)' = Lost(i) /\ imports'[i] = imports[i] /\ Sent(i)' = Sent(i) /\ Staging(i)' = 0
            BY <1>0, <1>3, <2>3, <2>5 DEF Lost, Sent, Staging, history
      <2>7. CASE staged.id = i
            <3>1. n \notin Waiting(i) /\ Waiting(i)' = Waiting(i) \cup {n}
                  BY <1>0, <2>1, <2>2, <2>5, <2>7 DEF Waiting, TypeOK
            <3>2. Cardinality(Waiting(i)') = Cardinality(Waiting(i)) + 1
                  BY <1>0, <3>1, Counts, Numbers
            <3>3. Staging(i) = 1  BY <2>7 DEF Staging
            <3> QED  BY <1>0, <2>4, <2>6, <3>2, <3>3, Numbers DEF Balanced
      <2>8. CASE staged.id # i
            <3>1. Waiting(i)' = Waiting(i)
                  BY <1>0, <2>1, <2>2, <2>5, <2>8 DEF Waiting, TypeOK
            <3>2. Staging(i) = 0  BY <2>8 DEF Staging
            <3> QED  BY <1>0, <2>4, <2>6, <3>1, <3>2, Numbers DEF Balanced
      <2> QED  BY <2>7, <2>8
<1> QED  BY <1>1, <1>2, <1>3 DEF Claim, ClaimGranted

LEMMA PlacesOfImport ==
    ASSUME Inv, Phases, StateInOnePlace, NEW c \in Callers, Import(c) \/ ImportRegister(c)
    PROVE  StateInOnePlace'
<1> DEFINE n == Home[c]
<1>0. n \in Nodes /\ TypeOK /\ UNCHANGED <<xfer, staged, gone>>
      BY RoomParams DEF Inv, Import, ImportRegister, Register, registry, history
<1>1. CASE UNCHANGED <<pending, imported, imports>>
      BY <1>0, <1>1, Unplaced DEF Sent
<1>2. CASE ImportRegister(c) /\ pending' = [pending EXCEPT ![n] = NoPack]
                             /\ imported' = [imported EXCEPT ![n] = FALSE]
      <2>1. imported[n]  BY <1>2 DEF Phases, ImportRegister, Release, Step
      <2>2. UNCHANGED imports  BY <1>2 DEF ImportRegister, history
      <2> SUFFICES ASSUME NEW i \in Ids PROVE Balanced(i)'  BY DEF StateInOnePlace, Balanced
      <2>3. NoPack.id # i  BY DEF NoPack, Ids
      <2>4. Waiting(i)' = Waiting(i)  BY <1>0, <1>2, <2>1, <2>3 DEF Waiting, TypeOK
      <2>5. Balanced(i)  BY DEF StateInOnePlace, Balanced
      <2> QED  BY <1>0, <2>2, <2>4, <2>5 DEF Balanced, Staging, Lost, Sent
<1>3. CASE /\ Import(c) /\ pending[n] # NoPack /\ ~imported[n]
           /\ imported' = [imported EXCEPT ![n] = TRUE]
           /\ imports' = [imports EXCEPT ![pending[n].id] = @ + 1]
      <2>1. UNCHANGED pending  BY <1>3 DEF Import
      <2> SUFFICES ASSUME NEW i \in Ids PROVE Balanced(i)'  BY DEF StateInOnePlace, Balanced
      <2>2. Balanced(i)  BY DEF StateInOnePlace, Balanced
      <2>3. Lost(i)' = Lost(i) /\ Sent(i)' = Sent(i) /\ Staging(i)' = Staging(i)
            BY <1>0 DEF Lost, Sent, Staging
      <2>4. CASE pending[n].id = i
            <3>1. n \in Waiting(i) /\ Waiting(i)' = Waiting(i) \ {n}
                  BY <1>0, <1>3, <2>1, <2>4 DEF Waiting, TypeOK
            <3>2. Cardinality(Waiting(i)') = Cardinality(Waiting(i)) - 1
                  BY <1>0, <3>1, Counts, Numbers
            <3>3. imports'[i] = imports[i] + 1  BY <1>0, <1>3, <2>4 DEF TypeOK
            <3> QED  BY <1>0, <2>2, <2>3, <3>2, <3>3, Numbers DEF Balanced
      <2>5. CASE pending[n].id # i
            <3>1. Waiting(i)' = Waiting(i)
                  BY <1>0, <1>3, <2>1, <2>5 DEF Waiting, TypeOK
            <3>2. imports'[i] = imports[i]  BY <1>0, <1>3, <2>5 DEF TypeOK
            <3> QED  BY <2>2, <2>3, <3>1, <3>2 DEF Balanced
      <2> QED  BY <2>4, <2>5
<1> QED  BY <1>1, <1>2, <1>3 DEF Import, ImportRegister, manager, history

LEMMA PlacesOfSave ==
    ASSUME Inv, StateInOnePlace, NEW k \in Ids, TransferSave(k) PROVE StateInOnePlace'
<1> SUFFICES ASSUME NEW i \in Ids PROVE Balanced(i)'  BY DEF StateInOnePlace, Balanced
<1>0. TypeOK /\ Balanced(i) /\ staged'.id = k /\ gone' = gone \cup Id(staged)
      BY DEF Inv, StateInOnePlace, Balanced, TransferSave
<1>1. Waiting(i)' = Waiting(i) /\ imports'[i] = imports[i]
      BY DEF TransferSave, manager, Waiting
<1>2. CASE i = k
      <2>1. Sent(i) = 0 /\ Sent(i)' = 1  BY <1>0, <1>2 DEF TransferSave, Sent, TypeOK
      <2>2. Staging(i) = 0 /\ Lost(i) = 0 /\ Cardinality(Waiting(i)) = 0 /\ imports[i] = 0
            BY <1>0, <2>1, Numbers DEF Balanced
      <2>3. Staging(i)' = 1  BY <1>0, <1>2 DEF Staging
      <2>4. Lost(i)' = 0  BY <1>0, <2>2 DEF Lost, Staging, Id
      <2> QED  BY <1>1, <2>1, <2>2, <2>3, <2>4 DEF Balanced
<1>3. CASE i # k
      <2>1. Sent(i)' = Sent(i)  BY <1>0, <1>3 DEF TransferSave, Sent, TypeOK
      <2>2. Staging(i)' + Lost(i)' = Staging(i) + Lost(i)  BY <1>0, <1>3, Dropped
      <2>3. Staging(i)' \in {0, 1} /\ Lost(i)' \in {0, 1}  BY DEF Staging, Lost
      <2> QED  BY <1>0, <1>1, <2>1, <2>2, <2>3, Numbers DEF Balanced
<1> QED  BY <1>2, <1>3

LEMMA PlacesOfCrash ==
    ASSUME Inv, StateInOnePlace, NEW n \in Nodes, Crash(n) PROVE StateInOnePlace'
<1> SUFFICES ASSUME NEW i \in Ids PROVE Balanced(i)'  BY DEF StateInOnePlace, Balanced
<1>0. TypeOK /\ Balanced(i) /\ UNCHANGED <<staged, xfer, imports>>
      BY DEF Inv, StateInOnePlace, Balanced, Crash, registry
<1>1. Staging(i)' = Staging(i) /\ Sent(i)' = Sent(i)  BY <1>0 DEF Staging, Sent
<1>2. NoPack.id # i  BY DEF NoPack, Ids
<1>3. Waiting(i)' = Waiting(i) \ {n}  BY <1>0, <1>2 DEF Crash, Waiting, TypeOK
<1>4. CASE n \in Waiting(i)
      <2>1. pending[n].id = i /\ ~imported[n]  BY <1>4 DEF Waiting
      <2>2. Cardinality(Waiting(i)') = Cardinality(Waiting(i)) - 1 /\ Cardinality(Waiting(i)) >= 1
            BY <1>0, <1>3, <1>4, Counts, Numbers
      <2>3. Lost(i) = 0  BY <1>0, <2>2, Numbers DEF Balanced
      <2>4. Lost(i)' = 1  BY <2>1 DEF Crash, Lost, Id, Ids
      <2> QED  BY <1>0, <1>1, <2>2, <2>3, <2>4, Numbers DEF Balanced
<1>5. CASE n \notin Waiting(i)
      <2>1. Waiting(i)' = Waiting(i)  BY <1>3, <1>5
      <2>2. Lost(i)' = Lost(i)  BY <1>5 DEF Crash, Lost, Id, Waiting
      <2> QED  BY <1>0, <1>1, <2>1, <2>2 DEF Balanced
<1> QED  BY <1>4, <1>5

LEMMA PlacesStep == Inv /\ Phases /\ StateInOnePlace /\ [Next]_vars => StateInOnePlace'
<1> SUFFICES ASSUME Inv, Phases, StateInOnePlace, [Next]_vars PROVE StateInOnePlace'  OBVIOUS
<1>1. ASSUME NEW c \in Callers, DestroyUnregister(c) PROVE StateInOnePlace'
      <2>1. UNCHANGED <<xfer, pending, imported>>  BY <1>1 DEF DestroyUnregister, manager
      <2>2. CASE UNCHANGED <<staged, gone, imports>>  BY <2>1, <2>2, Unplaced DEF Sent
      <2>3. CASE staged' = NoPack /\ gone' = gone \cup Id(staged) /\ UNCHANGED imports
            BY <2>1, <2>3, DroppedOnly DEF Inv
      <2> QED  BY <1>1, <2>2, <2>3 DEF DestroyUnregister, UnregisterCall, Unregister, registry, history
<1>2. ASSUME NEW c \in Callers, Start(c) PROVE StateInOnePlace'
      BY <1>2, Unplaced DEF Start, EnsureRoom, JoinFind, Operate, Destroy, registry, manager, history, Sent
<1>3. ASSUME NEW c \in Callers, Continue(c) PROVE StateInOnePlace'
      <2>1. CASE \/ EnsureRegister(c) \/ JoinRegister(c) \/ ImportCreated(c)
            <3>1. UNCHANGED <<staged, pending, imported, gone, imports, xfer>>
                  BY <2>1 DEF EnsureRegister, JoinRegister, ImportCreated, RegisterCall, Register,
                              registry, manager, history
            <3> QED  BY <3>1, Unplaced DEF Sent
      <2>2. CASE JoinRecheck(c) \/ DestroyRemove(c) \/ Activate(c) \/ FindOwner(c)
            <3>1. UNCHANGED <<staged, pending, imported, gone, imports, xfer>>
                  BY <2>2 DEF JoinRecheck, DestroyRemove, Activate, FindOwner, registry, manager, history
            <3> QED  BY <3>1, Unplaced DEF Sent
      <2> QED  BY <1>1, <1>3, <2>1, <2>2, PlacesOfClaim, PlacesOfImport DEF Continue
<1>4. ASSUME NEW i \in Ids, NEW n \in Nodes, NEW m \in Nodes, Transfer(i, n, m) PROVE StateInOnePlace'
      <2>1. UNCHANGED <<staged, pending, imported, gone, imports>>
            BY <1>4 DEF Transfer, registry, manager, history
      <2>2. xfer[i].step = "none"  BY <1>4 DEF Transfer, Ids
      <2>3. \A j \in Ids : Sent(j)' = Sent(j)  BY <1>4, <2>2 DEF Transfer, Sent, Inv, TypeOK
      <2> QED  BY <2>1, <2>3, Unplaced
<1>5. ASSUME NEW i \in Ids, TransferReassign(i) PROVE StateInOnePlace'
      <2>1. UNCHANGED <<staged, pending, imported, gone, imports>>
            BY <1>5 DEF TransferReassign, manager, history
      <2>2. \A j \in Ids : Sent(j)' = Sent(j)  BY <1>5 DEF TransferReassign, Sent, Inv, TypeOK
      <2> QED  BY <2>1, <2>2, Unplaced
<1>6. CASE Expire
      <2>1. staged' = NoPack /\ gone' = gone \cup Id(staged) /\ UNCHANGED <<pending, imported, imports, xfer>>
            BY <1>6 DEF Expire, manager
      <2> QED  BY <2>1, DroppedOnly DEF Inv
<1>7. CASE UNCHANGED vars
      <2>1. UNCHANGED <<staged, pending, imported, gone, imports, xfer>>  BY <1>7 DEF vars
      <2> QED  BY <2>1, Unplaced DEF Sent
<1> QED  BY <1>2, <1>3, <1>4, <1>5, <1>6, <1>7, PlacesOfSave, PlacesOfCrash DEF Next

-----------------------------------------------------------------------------
LEMMA Induction == Inv /\ [Next]_vars => Inv'
<1> SUFFICES ASSUME Inv, [Next]_vars PROVE Inv'  OBVIOUS
<1> USE DEF Inv
<1>1. ASSUME NEW c \in Callers, Start(c) \/ Continue(c) PROVE Inv'
      <2>1. TypeOK'  BY <1>1, TypesOfModule, TypesOfActivate DEF Start, Continue
      <2>2. SingleFlight'  BY <1>1, SingleFlightStep
      <2> QED  BY <2>1, <2>2
<1>2. CASE \/ \E i \in Ids, n, m \in Nodes : Transfer(i, n, m)
           \/ \E i \in Ids : TransferSave(i) \/ TransferReassign(i)
           \/ Expire
      <2>1. UNCHANGED <<importing, pc>>  BY <1>2 DEF Transfer, TransferSave, TransferReassign, Expire
      <2>2. SingleFlight'  BY <2>1 DEF SingleFlight
      <2>3. TypeOK'  BY <1>2, TypesOfRest
      <2> QED  BY <2>2, <2>3
<1>3. ASSUME NEW n \in Nodes, Crash(n) PROVE Inv'
      <2>1. SingleFlight'
            BY <1>3, RoomParams DEF Crash, TypeOK, SingleFlight, InActivate
      <2>2. TypeOK'  BY <1>3, TypesOfRest
      <2> QED  BY <2>1, <2>2
<1>4. CASE UNCHANGED vars  BY <1>4 DEF vars, TypeOK, SingleFlight
<1> QED  BY <1>1, <1>2, <1>3, <1>4 DEF Next

(* Every variable keeps its type, and only what is pending is marked as    *)
(* imported.                                                               *)
THEOREM TypeCorrect == Spec => []TypeOK
<1>1. Inv => TypeOK  BY DEF Inv
<1> QED  BY Start0, Induction, <1>1, PTL DEF Spec

(* At most one Activate runs on a node, whatever fails (acquireImport).    *)
THEOREM ActivateIsSingleFlight == Spec => []SingleFlight
<1>1. Inv => SingleFlight  BY DEF Inv
<1> QED  BY Start0, Induction, <1>1, PTL DEF Spec

(* From the moment it is staged, the state of a transfer is in exactly one *)
(* place, and it is imported at most once (ClaimWithState, pendingImport). *)
THEOREM StateIsInOnePlace == Spec => []StateInOnePlace
<1>1. Init => Phases /\ StateInOnePlace
      <2> SUFFICES ASSUME Init PROVE Phases /\ StateInOnePlace  OBVIOUS
      <2>1. Phases  BY DEF Init, Phases
      <2>2. ASSUME NEW i \in Ids PROVE Balanced(i)
            <3>1. Waiting(i) = {}  BY DEF Init, Waiting, NoPack, Ids
            <3>2. Staging(i) = 0 /\ Lost(i) = 0 /\ Sent(i) = 0 /\ imports[i] = 0
                  BY DEF Init, Staging, Lost, Sent, NoPack, Ids
            <3>3. Cardinality({}) = 0  BY FS_EmptySet
            <3> QED  BY <3>1, <3>2, <3>3 DEF Balanced
      <2> QED  BY <2>1, <2>2 DEF StateInOnePlace, Balanced
<1> QED  BY Start0, Induction, <1>1, PhasesStep, PlacesStep, PTL DEF Spec

(* A room changes hands only by its owner's transfer or after it           *)
(* unregistered (Register, Reassign, ClaimWithState).                      *)
THEOREM NeverSeized == Spec => OwnerNotSeized
<1> DEFINE Given == owner # None /\ owner' \notin {None, owner} =>
              \E i \in Ids : xfer[i].step = "saved" /\ xfer[i].from = owner /\ xfer[i].to = owner'
<1>1. ASSUME [Next]_vars PROVE [Given]_vars
      <2> SUFFICES ASSUME Next, owner # None, owner' \notin {None, owner} PROVE Given
          BY <1>1
      <2>1. ASSUME NEW n PROVE Register(n) \/ Unregister(n) \/ RegisterCall(n) \/ UnregisterCall(n) => FALSE
            BY DEF Register, Unregister, RegisterCall, UnregisterCall, registry
      <2>2. ASSUME NEW c \in Callers, Start(c) PROVE FALSE
            BY <2>2 DEF Start, EnsureRoom, JoinFind, Operate, Destroy, registry
      <2>3. ASSUME NEW c \in Callers, Continue(c) PROVE FALSE
            <3>1. ~(EnsureRegister(c) \/ JoinRegister(c) \/ ImportCreated(c) \/ DestroyUnregister(c))
                  BY <2>1 DEF EnsureRegister, JoinRegister, ImportCreated, DestroyUnregister
            <3>2. ~(JoinRecheck(c) \/ DestroyRemove(c) \/ Activate(c) \/ FindOwner(c) \/ Import(c))
                  BY DEF JoinRecheck, DestroyRemove, Activate, FindOwner, Import, registry
            <3>3. ~Claim(c)  BY DEF Claim, ClaimGranted, ClaimRefused, registry
            <3>4. ~ImportRegister(c)  BY <2>1 DEF ImportRegister, registry
            <3> QED  BY <2>3, <3>1, <3>2, <3>3, <3>4 DEF Continue
      <2>4. ASSUME NEW i \in Ids, NEW n \in Nodes, NEW m \in Nodes, Transfer(i, n, m) PROVE FALSE
            BY <2>4 DEF Transfer, registry
      <2>5. ASSUME NEW i \in Ids, TransferReassign(i) PROVE Given
            BY <2>5 DEF TransferReassign
      <2>6. ASSUME (\E i \in Ids : TransferSave(i)) \/ Expire \/ \E n \in Nodes : Crash(n) PROVE FALSE
            BY <2>6 DEF TransferSave, Expire, Crash, registry
      <2> QED  BY <2>2, <2>3, <2>4, <2>5, <2>6 DEF Next
<1> QED  BY <1>1, PTL DEF Spec, OwnerNotSeized
=============================================================================
