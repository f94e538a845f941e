--------------------------- MODULE ConnectionsProof ---------------------------
(***************************************************************************)
(* The connections of a game process, for any number of them: the bags of  *)
(* an account, and a drain that operators begin and cancel as they like.   *)
(* And those of a gateway, which are admitted, wait and leave, and the     *)
(* sessions of the accounts that log in through them.                      *)
(***************************************************************************)
EXTENDS ConnectionBags, FiniteSetTheorems, SequenceTheorems, TLAPS

-----------------------------------------------------------------------------
(* A bag is named by the connection it was made for and its number, so a   *)
(* new one is none of those held; and a bag is moved, never copied.        *)
BagsOrNone == {NoBag} \union (Conns \X Nat)
Made(f) == \A k \in Conns : f[k] # NoBag => f[k][2] < made[f[k][1]]
Alone(f) == \A j, k \in Conns : f[j] = f[k] /\ f[j] # NoBag => j = k
Apart(f, g) == \A j, k \in Conns : f[j] = g[k] => f[j] = NoBag

BagMaps ==
    /\ bag \in [Conns -> BagsOrNone] /\ hand \in [Conns -> BagsOrNone]
    /\ parked \in [Conns -> BagsOrNone]
    /\ made \in [Conns -> Nat] /\ Made(bag) /\ Made(hand) /\ Made(parked)
Holders ==
    /\ Alone(bag) /\ Alone(hand) /\ Alone(parked)
    /\ Apart(bag, hand) /\ Apart(bag, parked) /\ Apart(hand, parked)
Labels ==
    /\ msg \in [Conns -> {"idle", "restore", "store", "ensure"}]
    /\ park \in [Conns -> {"none", "swap", "timer", "done"}]
    /\ made \in [Conns -> 0..MaxBags] /\ pending \in Conns \union {None}
    /\ settled \in [Conns -> BOOLEAN]
    /\ timer \in [Conns -> {"none", "set", "stopped", "fired"}]
    /\ del \in [Conns -> {"none", "find", "remove", "clear", "done"}]
    /\ \A k \in Conns : del[k] = "remove" => settled[k]

BagInv == Labels /\ BagMaps /\ Holders

(* What a holder gives up is no longer held, and nothing else changes.     *)
LEMMA Dropped ==
    ASSUME BagMaps, Holders, UNCHANGED made,
           NEW S \in SUBSET Conns, NEW T \in SUBSET Conns,
           bag' = [k \in Conns |-> IF k \in S THEN NoBag ELSE bag[k]],
           parked' = [k \in Conns |-> IF k \in T THEN NoBag ELSE parked[k]],
           hand' = hand
    PROVE  BagMaps' /\ Holders'
    BY DEF BagMaps, Holders, BagsOrNone, Made, Alone, Apart

(* The bag of one holder goes to another place.                            *)
LEMMA TakenOut ==
    ASSUME BagMaps, Holders, UNCHANGED <<made, bag>>, NEW k \in Conns, NEW r \in Conns,
           hand' = [hand EXCEPT ![k] = parked[r]], parked' = [parked EXCEPT ![r] = NoBag]
    PROVE  BagMaps' /\ Holders'
<1>1. BagMaps'  BY DEF BagMaps, BagsOrNone, Made
<1>2. Alone(bag)' /\ Alone(parked)' /\ Apart(bag, parked)'
      BY DEF BagMaps, Holders, Alone, Apart
<1>3. Alone(hand)' /\ Apart(bag, hand)' /\ Apart(hand, parked)'
      BY DEF BagMaps, Holders, Alone, Apart
<1> QED  BY <1>1, <1>2, <1>3 DEF Holders

LEMMA Stored ==
    ASSUME BagMaps, Holders, UNCHANGED <<made, parked>>, NEW k \in Conns,
           bag' = [bag EXCEPT ![k] = hand[k]], hand' = [hand EXCEPT ![k] = NoBag]
    PROVE  BagMaps' /\ Holders'
<1>1. BagMaps'  BY DEF BagMaps, BagsOrNone, Made
<1>2. Alone(hand)' /\ Alone(parked)' /\ Apart(hand, parked)'
      BY DEF BagMaps, Holders, Alone, Apart
<1>3. Alone(bag)' /\ Apart(bag, hand)' /\ Apart(bag, parked)'
      BY DEF BagMaps, Holders, Alone, Apart
<1> QED  BY <1>1, <1>2, <1>3 DEF Holders

LEMMA Parked ==
    ASSUME BagMaps, Holders, UNCHANGED <<made, hand>>, NEW k \in Conns,
           parked' = [parked EXCEPT ![k] = bag[k]], bag' = [bag EXCEPT ![k] = NoBag]
    PROVE  BagMaps' /\ Holders'
<1>1. BagMaps'  BY DEF BagMaps, BagsOrNone, Made
<1>2. Alone(hand)' /\ Alone(bag)' /\ Apart(bag, hand)'
      BY DEF BagMaps, Holders, Alone, Apart
<1>3. Alone(parked)' /\ Apart(hand, parked)' /\ Apart(bag, parked)'
      BY DEF BagMaps, Holders, Alone, Apart
<1> QED  BY <1>1, <1>2, <1>3 DEF Holders

(* Its number is that of no bag before.                                    *)
LEMMA NewlyMade ==
    ASSUME BagMaps, Holders, UNCHANGED <<parked, hand>>, NEW k \in Conns,
           bag' = [bag EXCEPT ![k] = <<k, made[k]>>], made' = [made EXCEPT ![k] = @ + 1]
    PROVE  BagMaps' /\ Holders'
<1>1. made[k] \in Nat /\ <<k, made[k]>> \in BagsOrNone /\ <<k, made[k]>> # NoBag
      BY DEF BagMaps, BagsOrNone, NoBag
<1>2. ASSUME NEW f \in [Conns -> BagsOrNone], Made(f), NEW j \in Conns
      PROVE  f[j] # <<k, made[k]>> /\ (f[j] # NoBag => f[j][2] < made'[f[j][1]])
      <2>1. CASE f[j] = NoBag  BY <1>1, <2>1
      <2>2. CASE f[j] \in Conns \X Nat /\ f[j] # NoBag
            BY <1>1, <1>2, <2>2 DEF BagMaps, Made
      <2> QED  BY <1>2, <2>1, <2>2 DEF BagsOrNone
<1>3. bag' \in [Conns -> BagsOrNone] /\ made' \in [Conns -> Nat]
      BY <1>1 DEF BagMaps
<1>4. Made(bag)'
      <2>1. made'[k] = made[k] + 1 /\ bag'[k][1] = k /\ bag'[k][2] = made[k]
            BY DEF BagMaps
      <2> QED  BY <1>1, <1>2, <2>1 DEF BagMaps, Made
<1>5. Made(hand)' /\ Made(parked)'  BY <1>2 DEF BagMaps, Made
<1>6. BagMaps'  BY <1>3, <1>4, <1>5 DEF BagMaps
<1>7. \A j \in Conns : bag[j] # <<k, made[k]>> /\ hand[j] # <<k, made[k]>> /\ parked[j] # <<k, made[k]>>
      BY <1>2 DEF BagMaps
<1>8. Holders'  BY <1>1, <1>7 DEF BagMaps, Holders, Alone, Apart
<1> QED  BY <1>6, <1>8

-----------------------------------------------------------------------------
LEMMA BagStart == ASSUME ConnectionBagsParams, Init PROVE BagInv
<1>1. Labels  BY DEF ConnectionBagsParams, Init, Labels
<1>2. BagMaps  BY DEF Init, BagMaps, BagsOrNone, Made
<1>3. Holders  BY DEF Init, Holders, Alone, Apart
<1> QED  BY <1>1, <1>2, <1>3 DEF BagInv

(* The flags, timers and positions take the values they may take.          *)
LEMMA LabelsKept == ASSUME ConnectionBagsParams, BagInv, Next PROVE Labels'
<1> USE DEF BagInv
<1>1. PICK k \in Conns :
          \/ Message(k) \/ FirstMessage(k) \/ RestoreTake(k) \/ RestoreNothing(k)
          \/ RestoreStore(k) \/ EnsureBag(k) \/ ParkTake(k) \/ ParkSwap(k) \/ ParkTimer(k)
          \/ GraceEnds(k) \/ DeleteBag(k) \/ DeleteFinds(k) \/ DeleteRemoves(k)
          \/ ClearByOwner(k) \/ ClearBag(k)
      BY DEF Next
<1>2. CASE Message(k) \/ FirstMessage(k) \/ RestoreNothing(k) \/ RestoreStore(k)
      BY <1>2 DEF Message, FirstMessage, RestoreNothing, RestoreStore, Goes, records, Labels
<1>3. CASE RestoreTake(k)
      BY <1>3 DEF RestoreTake, Settle, Goes, Labels
<1>4. CASE EnsureBag(k)
      <2>1. made' \in [Conns -> 0..MaxBags]
            <3>1. MaxBags \in Nat /\ made[k] \in 0..MaxBags  BY DEF ConnectionBagsParams, Labels
            <3>2. made[k] < MaxBags => made[k] + 1 \in 0..MaxBags  BY <3>1
            <3> QED  BY <1>4, <3>2 DEF EnsureBag, Labels
      <2> QED  BY <1>4, <2>1 DEF EnsureBag, Goes, records, Labels
<1>5. CASE ParkTake(k) \/ ParkTimer(k) \/ GraceEnds(k)
      BY <1>5 DEF ParkTake, ParkTimer, GraceEnds, Goes, msgs, Labels
<1>6. CASE ParkSwap(k)
      BY <1>6 DEF ParkSwap, Goes, msgs, Labels
<1>7. CASE DeleteBag(k) \/ ClearByOwner(k) \/ ClearBag(k)
      BY <1>7 DEF DeleteBag, ClearByOwner, ClearBag, Goes, msgs, records, Labels
<1>8. CASE DeleteFinds(k)
      <2>1. CASE pending = k  BY <1>8, <2>1 DEF DeleteFinds, Settle, Goes, msgs, Labels
      <2>2. CASE pending # k  BY <1>8, <2>2 DEF DeleteFinds, Goes, msgs, Labels
      <2> QED  BY <2>1, <2>2
<1>9. CASE DeleteRemoves(k)
      BY <1>9 DEF DeleteRemoves, Goes, msgs, Labels
<1> QED  BY <1>1, <1>2, <1>3, <1>4, <1>5, <1>6, <1>7, <1>8, <1>9

LEMMA HoldersKept == ASSUME ConnectionBagsParams, BagInv, Next PROVE BagMaps' /\ Holders'
<1> USE DEF BagInv
<1>1. PICK k \in Conns :
          \/ Message(k) \/ FirstMessage(k) \/ RestoreTake(k) \/ RestoreNothing(k)
          \/ RestoreStore(k) \/ EnsureBag(k) \/ ParkTake(k) \/ ParkSwap(k) \/ ParkTimer(k)
          \/ GraceEnds(k) \/ DeleteBag(k) \/ DeleteFinds(k) \/ DeleteRemoves(k)
          \/ ClearByOwner(k) \/ ClearBag(k)
      BY DEF Next
<1>2. CASE UNCHANGED <<bag, hand, parked, made>>
      BY <1>2 DEF BagMaps, Holders, Made, Alone, Apart
<1>3. CASE Message(k) \/ FirstMessage(k) \/ RestoreNothing(k) \/ ParkTimer(k)
      BY <1>2, <1>3 DEF Message, FirstMessage, RestoreNothing, ParkTimer, msgs, records
<1>4. CASE RestoreTake(k)
      <2>1. pending \in Conns  BY <1>4 DEF RestoreTake, Labels
      <2> QED  BY <1>4, <2>1, TakenOut DEF RestoreTake, Settle
<1>5. CASE RestoreStore(k)
      BY <1>5, Stored DEF RestoreStore, records
<1>6. CASE EnsureBag(k)
      BY <1>2, <1>6, NewlyMade DEF EnsureBag, records
<1>7. CASE ParkTake(k)
      BY <1>7, Parked DEF ParkTake, msgs
<1>8. ASSUME NEW S \in SUBSET Conns, NEW T \in SUBSET Conns, UNCHANGED <<made, hand>>,
             bag' = [j \in Conns |-> IF j \in S THEN NoBag ELSE bag[j]],
             parked' = [j \in Conns |-> IF j \in T THEN NoBag ELSE parked[j]]
      PROVE  BagMaps' /\ Holders'
      BY <1>8, Dropped
<1>9. /\ bag = [j \in Conns |-> bag[j]] /\ parked = [j \in Conns |-> parked[j]]
      /\ {} \in SUBSET Conns /\ {j \in Conns : j = pending} \in SUBSET Conns
      BY DEF BagMaps
<1>10. CASE ParkSwap(k) \/ DeleteRemoves(k)
      <2>1. /\ bag' = [j \in Conns |-> IF j \in {} THEN NoBag ELSE bag[j]]
            /\ parked' = [j \in Conns |-> IF j \in {i \in Conns : i = pending} THEN NoBag ELSE parked[j]]
            BY <1>9, <1>10 DEF ParkSwap, DeleteRemoves
      <2> QED  BY <1>8, <1>9, <1>10, <2>1 DEF ParkSwap, DeleteRemoves, msgs
<1>11. CASE GraceEnds(k)
      <2>1. /\ bag' = [j \in Conns |-> IF j \in {} THEN NoBag ELSE bag[j]]
            /\ parked' = [j \in Conns |-> IF j \in {k} THEN NoBag ELSE parked[j]]
            BY <1>9, <1>11 DEF GraceEnds
      <2>2. {k} \in SUBSET Conns /\ UNCHANGED <<made, hand>>  BY <1>11 DEF GraceEnds, msgs
      <2> QED  BY <1>8, <1>9, <2>1, <2>2
<1>12. CASE DeleteBag(k) \/ ClearBag(k)
      <2>1. /\ bag' = [j \in Conns |-> IF j \in {k} THEN NoBag ELSE bag[j]]
            /\ parked' = [j \in Conns |-> IF j \in {} THEN NoBag ELSE parked[j]]
            BY <1>9, <1>12 DEF DeleteBag, ClearBag, records
      <2>2. {k} \in SUBSET Conns /\ UNCHANGED <<made, hand>>
            BY <1>12 DEF DeleteBag, ClearBag, msgs
      <2> QED  BY <1>8, <1>9, <2>1, <2>2
<1>13. CASE ClearByOwner(k)
      <2>1. /\ bag' = [j \in Conns |-> IF j \in {} THEN NoBag ELSE bag[j]]
            /\ parked' = [j \in Conns |-> IF j \in {k} THEN NoBag ELSE parked[j]]
            BY <1>9, <1>13 DEF ClearByOwner
      <2>2. {k} \in SUBSET Conns /\ UNCHANGED <<made, hand>>  BY <1>13 DEF ClearByOwner, msgs
      <2> QED  BY <1>8, <1>9, <2>1, <2>2
<1>14. CASE DeleteFinds(k)
      BY <1>2, <1>14 DEF DeleteFinds, msgs
<1> QED  BY <1>1, <1>3, <1>4, <1>5, <1>6, <1>7, <1>10, <1>11, <1>12, <1>13, <1>14

LEMMA BagStep == ASSUME ConnectionBagsParams, BagInv, [Next]_vars PROVE BagInv'
<1>1. CASE UNCHANGED vars
      BY <1>1 DEF vars, msgs, records, BagInv, Labels, BagMaps, Holders, Made, Alone, Apart
<1>2. CASE Next  BY <1>2, LabelsKept, HoldersKept DEF BagInv
<1> QED  BY <1>1, <1>2

LEMMA BagMeaning == ASSUME BagInv PROVE CBTypeOK /\ BagHasOneHolder
<1> USE DEF BagInv
<1>1. ASSUME NEW f \in [Conns -> BagsOrNone], NEW k \in Conns
      PROVE  f[k] = NoBag \/ f[k] \in Conns \X Nat
      BY DEF BagsOrNone
<1>2. CBTypeOK  BY <1>1 DEF Labels, BagMaps, CBTypeOK
<1>3. BagHasOneHolder  BY DEF Holders, Alone, Apart, BagHasOneHolder
<1> QED  BY <1>2, <1>3

(* RestoreBag, EnsureBag, ParkBag, the timers, DeleteBag, ClearByOwner:    *)
(* however they meet, and however many connections an account has had, no  *)
(* bag is held twice.                                                      *)
THEOREM NoBagIsShared ==
    ASSUME ConnectionBagsParams PROVE Spec => []CBTypeOK /\ []BagHasOneHolder
<1>1. Init => BagInv  BY BagStart
<1>2. BagInv /\ [Next]_vars => BagInv'  BY BagStep
<1>3. BagInv => CBTypeOK /\ BagHasOneHolder  BY BagMeaning
<1> QED  BY <1>1, <1>2, <1>3, PTL DEF Spec

(* The records of an account do not end one another's grace, but for a     *)
(* deletion that is late.                                                  *)
LEMMA GraceOfOthers == ASSUME ConnectionBagsParams, BagInv, [Next]_vars PROVE GraceStep
<1> USE DEF BagInv, Labels
<1> SUFFICES ASSUME pending # None, pending' = None
             PROVE  \/ settled'[pending]
                    \/ del[pending] = "none" /\ del'[pending] = "clear"
                    \/ timer[pending] = "set" /\ timer'[pending] = "fired"
                    \/ \E k \in Conns \ {pending} :
                           settled[k] /\ del[k] = "remove" /\ del'[k] = "done"
    BY DEF GraceStep
<1>1. pending \in Conns  OBVIOUS
<1>2. PICK k \in Conns :
          RestoreTake(k) \/ GraceEnds(k) \/ DeleteRemoves(k) \/ ClearByOwner(k)
      BY DEF ConnectionBagsParams, Next, vars, records, Message, FirstMessage, RestoreNothing,
             RestoreStore, EnsureBag, ParkTake, ParkSwap, ParkTimer, DeleteBag, DeleteFinds,
             ClearBag
<1>3. CASE RestoreTake(k) \/ GraceEnds(k) \/ ClearByOwner(k)
      BY <1>1, <1>3 DEF RestoreTake, GraceEnds, ClearByOwner, Settle, Goes
<1>4. CASE DeleteRemoves(k)
      BY <1>1, <1>4 DEF DeleteRemoves, Goes
<1> QED  BY <1>2, <1>3, <1>4

(* ParkBag's timers and PendingBag.settled, for every pair of records: the *)
(* pending bag goes only by its own timer, a restore, a deletion of its    *)
(* connection or account, or by a DeleteBag whose own record, settled, was *)
(* replaced before DeleteBag came to remove it.                            *)
THEOREM GraceBelongsToItsBag == ASSUME ConnectionBagsParams PROVE Spec => GraceIsKept
<1>1. Init => BagInv  BY BagStart
<1>2. BagInv /\ [Next]_vars => BagInv'  BY BagStep
<1>3. BagInv /\ [Next]_vars => [GraceStep]_vars  BY GraceOfOthers
<1> QED  BY <1>1, <1>2, <1>3, PTL DEF Spec, GraceIsKept

-----------------------------------------------------------------------------
(* The drain of the node these connections are in. *)
CONSTANTS Operators, Peers, Options, MaxRuns, MaxCalls
VARIABLES
    op, calls, running, opts, mig, cancel, closedChs, draining, flowMu,
    heartbeat, registered, run, watched, cur, expired, conns, stopped
D == INSTANCE Drain WITH Conns <- Peers

(* Whoever ended the round that took the traffic away has not restored it  *)
(* yet; flowMu keeps the next round from taking it away meanwhile.  A      *)
(* cancel about to close a closed channel panics: it does not count.       *)
Cancelling(o) ==
    op[o] \in {"unflag", "close", "restore"} \/ (op[o] = "shut" /\ cancel \notin closedChs)
Restoring ==
    \/ \E o \in Operators : Cancelling(o)
    \/ \E r \in D!Runs : run[r] \in {"unflag", "unflagStop", "restore", "stop"}
Stripped == ~heartbeat \/ \E o \in Operators : op[o] = "strip"
Accounted == heartbeat = registered /\ (Stripped => running \/ stopped \/ Restoring)

Ops == {"idle", "drainFlow", "strip", "unflag", "close", "shut", "restore"}
Stages == {"none", "top", "wait", "checked", "empty", "finish", "kickTop",
           "kickWait", "unflag", "unflagStop", "restore", "stop", "gone"}
OpsOK ==
    /\ op \in [Operators -> Ops] /\ flowMu \in Operators \union {D!Nobody}
    /\ \A o \in Operators : op[o] = "strip" <=> flowMu = o
FlagsOK ==
    /\ running \in BOOLEAN /\ draining \in BOOLEAN /\ heartbeat \in BOOLEAN
    /\ registered \in BOOLEAN /\ expired \in BOOLEAN /\ stopped \in BOOLEAN
    /\ opts \in Options /\ mig \subseteq Peers /\ conns \subseteq Peers
    /\ calls \in 0 .. MaxCalls
RunsOK == run \in [D!Runs -> Stages] /\ cur \in [D!Runs -> Options]
ChannelsOK ==
    cancel \in Nat \ {0} /\ closedChs \subseteq 1 .. cancel /\ watched \in [D!Runs -> 0 .. cancel]

DrainInv == OpsOK /\ FlagsOK /\ RunsOK /\ ChannelsOK /\ Accounted

LEMMA DrainStart == ASSUME D!DrainParams, D!Init PROVE DrainInv
<1>1. OpsOK  BY DEF D!DrainParams, D!Init, D!Nobody, OpsOK, Ops
<1>2. FlagsOK
      <2>1. calls \in 0 .. MaxCalls  BY DEF D!DrainParams, D!Init
      <2> QED  BY <2>1 DEF D!Init, FlagsOK
<1>3. RunsOK  BY DEF D!Init, RunsOK, Stages
<1>4. ChannelsOK  BY DEF D!Init, ChannelsOK
<1>5. Accounted  BY DEF D!Init, Accounted, Stripped
<1> QED  BY <1>1, <1>2, <1>3, <1>4, <1>5 DEF DrainInv

(* What an operator's step does to the operators.                          *)
LEMMA OperatorKeeps ==
    ASSUME D!DrainParams, DrainInv, NEW o \in Operators,
           D!DrainBegin(o) \/ D!CancelBegin(o) \/ D!OperatorStep(o)
    PROVE  DrainInv'
<1> USE DEF DrainInv
<1>1. D!Nobody \notin Operators /\ D!Nobody = 0  BY DEF D!DrainParams, D!Nobody
<1>2. CASE D!DrainBegin(o)
      <2>1. OpsOK'  BY <1>2 DEF D!DrainBegin, D!OpStep, OpsOK, Ops
      <2>2. FlagsOK'
            <3>1. calls + 1 \in 0 .. MaxCalls
                  BY <1>2 DEF D!DrainParams, D!DrainBegin, FlagsOK
            <3> QED  BY <1>2, <3>1 DEF D!DrainBegin, D!traffic, FlagsOK
      <2>3. RunsOK'  BY <1>2 DEF D!DrainBegin, RunsOK
      <2>4. ChannelsOK'
            <3>1. cancel + 1 \in Nat \ {0} /\ 1 .. cancel \subseteq 1 .. (cancel + 1)
                  /\ 0 .. cancel \subseteq 0 .. (cancel + 1)
                  BY DEF ChannelsOK
            <3>2. CASE cancel' = cancel  BY <1>2, <3>2 DEF D!DrainBegin, ChannelsOK
            <3>3. CASE cancel' = cancel + 1  BY <1>2, <3>1, <3>3 DEF D!DrainBegin, ChannelsOK
            <3> QED  BY <1>2, <3>2, <3>3 DEF D!DrainBegin
      <2>5. Accounted'
            BY <1>2 DEF D!DrainBegin, D!OpStep, D!traffic, OpsOK, Accounted, Stripped,
                        Restoring, Cancelling
      <2> QED  BY <2>1, <2>2, <2>3, <2>4, <2>5
<1>3. CASE D!DrainTakeFlow(o)
      <2>1. OpsOK'  BY <1>1, <1>3 DEF D!DrainTakeFlow, D!OpStep, OpsOK, Ops
      <2>2. FlagsOK' /\ RunsOK' /\ ChannelsOK'
            BY <1>3 DEF D!DrainTakeFlow, D!drainer, D!traffic, FlagsOK, RunsOK, ChannelsOK
      <2>3. Accounted'
            BY <1>3 DEF D!DrainTakeFlow, D!OpStep, D!drainer, D!traffic, OpsOK, Accounted,
                        Stripped, Restoring, Cancelling
      <2> QED  BY <2>1, <2>2, <2>3
<1>4. CASE D!DrainStrip(o)
      <2>1. OpsOK'  BY <1>1, <1>4 DEF D!DrainStrip, D!OpStep, OpsOK, Ops
      <2>2. FlagsOK' /\ RunsOK' /\ ChannelsOK'
            BY <1>4 DEF D!DrainStrip, D!drainer, FlagsOK, RunsOK, ChannelsOK, Stages
      <2>3. running \/ stopped \/ Restoring
            BY <1>4 DEF D!DrainStrip, D!OpStep, Accounted, Stripped
      <2>4. Restoring => Restoring'
            BY <1>4 DEF D!DrainStrip, D!OpStep, D!drainer, OpsOK, RunsOK, Restoring,
                        Cancelling
      <2> QED  BY <1>4, <2>1, <2>2, <2>3, <2>4 DEF D!DrainStrip, D!drainer, Accounted
<1>5. CASE D!CancelBegin(o)
      <2>1. OpsOK'  BY <1>5 DEF D!CancelBegin, D!OpStep, OpsOK, Ops
      <2>2. calls + 1 \in 0 .. MaxCalls
            BY <1>5 DEF D!DrainParams, D!CancelBegin, FlagsOK
      <2>3. FlagsOK' /\ RunsOK' /\ ChannelsOK'
            BY <1>5, <2>2 DEF D!CancelBegin, D!traffic, FlagsOK, RunsOK, ChannelsOK
      <2>4. Accounted'
            BY <1>5 DEF D!CancelBegin, D!OpStep, D!traffic, OpsOK, Accounted, Restoring, Cancelling
      <2> QED  BY <2>1, <2>3, <2>4
<1>6. CASE D!CancelUnflag(o) \/ D!CancelSelect(o) \/ D!CancelClose(o)
      <2>1. OpsOK'
            BY <1>6 DEF D!CancelUnflag, D!CancelSelect, D!CancelClose, D!OpStep, OpsOK, Ops
      <2>2. FlagsOK' /\ RunsOK'
            BY <1>6 DEF D!CancelUnflag, D!CancelSelect, D!CancelClose, D!drainer, D!traffic,
                        FlagsOK, RunsOK
      <2>3. ChannelsOK'
            <3>1. cancel' = cancel /\ watched' = watched /\ closedChs' \subseteq closedChs \union {cancel}
                  BY <1>6 DEF D!CancelUnflag, D!CancelSelect, D!CancelClose, D!drainer
            <3>2. cancel \in 1 .. cancel  BY DEF ChannelsOK
            <3> QED  BY <3>1, <3>2 DEF ChannelsOK
      <2>4. Accounted'
            BY <1>6 DEF D!CancelUnflag, D!CancelSelect, D!CancelClose, D!OpStep, D!drainer,
                        D!traffic, OpsOK, Accounted, Stripped, Restoring, Cancelling
      <2> QED  BY <2>1, <2>2, <2>3, <2>4
<1>7. CASE D!CancelRestore(o)
      <2>1. OpsOK'  BY <1>7 DEF D!CancelRestore, D!OpStep, OpsOK, Ops
      <2>2. FlagsOK' /\ RunsOK' /\ ChannelsOK'
            BY <1>7 DEF D!CancelRestore, D!drainer, FlagsOK, RunsOK, ChannelsOK
      <2>3. Accounted'
            BY <1>1, <1>7 DEF D!CancelRestore, D!OpStep, OpsOK, Accounted, Stripped
      <2> QED  BY <2>1, <2>2, <2>3
<1> QED  BY <1>2, <1>3, <1>4, <1>5, <1>6, <1>7 DEF D!OperatorStep

LEMMA RunnerKeeps ==
    ASSUME D!DrainParams, DrainInv, NEW r \in D!Runs, D!RunnerStep(r)
    PROVE  DrainInv'
<1> USE DEF DrainInv
<1>1. CASE \/ D!RunSelect(r) \/ D!RunCancelled(r) \/ D!MigrateBatch(r) \/ D!Decide(r)
           \/ D!KickedAll(r) \/ D!KickBatch(r) \/ D!HardTimeout(r)
      <2>1. PICK from \in {"top", "wait", "checked", "kickTop", "kickWait"},
                 to \in Stages : run[r] = from /\ run' = [run EXCEPT ![r] = to]
            BY <1>1 DEF D!RunSelect, D!RunCancelled, D!MigrateBatch, D!Decide, D!KickedAll,
                        D!KickBatch, D!HardTimeout, D!RunStep, Stages
      <2>2. UNCHANGED <<op, calls, running, opts, cancel, closedChs, draining, flowMu,
                        heartbeat, registered, expired, stopped>>
            BY <1>1 DEF D!RunSelect, D!RunCancelled, D!MigrateBatch, D!Decide, D!KickedAll,
                        D!KickBatch, D!HardTimeout, D!drainer, D!traffic
      <2>3. mig' \subseteq Peers /\ conns' \subseteq Peers
            BY <1>1 DEF D!RunSelect, D!RunCancelled, D!MigrateBatch, D!Decide, D!KickedAll,
                        D!KickBatch, D!HardTimeout, D!drainer, D!Pending, FlagsOK
      <2>4. cur' = cur \/ cur' = [cur EXCEPT ![r] = opts]
            BY <1>1 DEF D!RunSelect, D!RunCancelled, D!MigrateBatch, D!Decide, D!KickedAll,
                        D!KickBatch, D!HardTimeout
      <2>5. watched' = watched \/ watched' = [watched EXCEPT ![r] = cancel]
            BY <1>1 DEF D!RunSelect, D!RunCancelled, D!MigrateBatch, D!Decide, D!KickedAll,
                        D!KickBatch, D!HardTimeout
      <2>6. OpsOK' /\ FlagsOK'  BY <2>2, <2>3 DEF OpsOK, FlagsOK
      <2>7. RunsOK'  BY <2>1, <2>2, <2>4 DEF RunsOK, FlagsOK
      <2>8. ChannelsOK'
            <3>1. cancel \in 0 .. cancel  BY DEF ChannelsOK
            <3> QED  BY <2>2, <2>5, <3>1 DEF ChannelsOK
      <2>9. Accounted'  BY <2>1, <2>2 DEF RunsOK, Accounted, Stripped, Restoring, Cancelling
      <2> QED  BY <2>6, <2>7, <2>8, <2>9
<1>2. CASE D!FinishBegin(r)
      <2>1. OpsOK' /\ FlagsOK' /\ ChannelsOK'
            BY <1>2 DEF D!FinishBegin, D!traffic, OpsOK, FlagsOK, ChannelsOK
      <2>2. RunsOK'  BY <1>2 DEF D!FinishBegin, RunsOK, Stages
      <2>3. Restoring'  BY <1>2 DEF D!FinishBegin, RunsOK, Restoring, Cancelling
      <2> QED  BY <1>2, <2>1, <2>2, <2>3 DEF D!FinishBegin, D!traffic, Accounted
<1>3. CASE D!FinishUnflag(r)
      <2>1. OpsOK' /\ FlagsOK' /\ ChannelsOK'
            BY <1>3 DEF D!FinishUnflag, D!drainer, D!traffic, OpsOK, FlagsOK, ChannelsOK
      <2>2. RunsOK'  BY <1>3 DEF D!FinishUnflag, D!RunStep, RunsOK, Stages
      <2>3. Restoring'  BY <1>3 DEF D!FinishUnflag, D!RunStep, RunsOK, Restoring, Cancelling
      <2> QED  BY <1>3, <2>1, <2>2, <2>3 DEF D!FinishUnflag, D!traffic, Accounted
<1>4. CASE D!FinishRestore(r)
      <2>1. OpsOK' /\ FlagsOK' /\ ChannelsOK'
            BY <1>4 DEF D!FinishRestore, D!drainer, D!traffic, OpsOK, FlagsOK, ChannelsOK
      <2>2. RunsOK'  BY <1>4 DEF D!FinishRestore, D!RunStep, RunsOK, Stages
      <2>3. CASE running
            <3>1. Accounted'
                  BY <1>4, <2>3 DEF D!FinishRestore, D!drainer, D!traffic, Accounted, Stripped
            <3> QED  BY <2>1, <2>2, <3>1
      <2>4. CASE ~running
            <3>1. D!Nobody \notin Operators  BY DEF D!DrainParams
            <3>2. ~Stripped' /\ heartbeat' = registered'
                  BY <1>4, <2>4, <3>1 DEF D!FinishRestore, OpsOK, Stripped
            <3>3. Accounted'  BY <3>2 DEF Accounted
            <3> QED  BY <2>1, <2>2, <3>3
      <2> QED  BY <2>1, <2>2, <2>3, <2>4
<1>5. CASE D!FinishStop(r)
      <2>1. OpsOK' /\ FlagsOK' /\ ChannelsOK'
            BY <1>5 DEF D!FinishStop, D!drainer, D!traffic, OpsOK, FlagsOK, ChannelsOK
      <2>2. RunsOK'  BY <1>5 DEF D!FinishStop, D!RunStep, RunsOK, Stages
      <2> QED  BY <1>5, <2>1, <2>2 DEF D!FinishStop, D!traffic, Accounted
<1> QED  BY <1>1, <1>2, <1>3, <1>4, <1>5 DEF D!RunnerStep

LEMMA DrainStep == ASSUME D!DrainParams, DrainInv, [D!Next]_(D!vars) PROVE DrainInv'
<1>1. CASE UNCHANGED D!vars
      BY <1>1 DEF D!vars, DrainInv, OpsOK, FlagsOK, RunsOK, ChannelsOK, Accounted,
                  Stripped, Restoring, Cancelling
<1>2. ASSUME NEW o \in Operators, D!DrainBegin(o) \/ D!CancelBegin(o) \/ D!OperatorStep(o)
      PROVE  DrainInv'
      BY <1>2, OperatorKeeps
<1>3. ASSUME NEW r \in D!Runs, D!RunnerStep(r) PROVE DrainInv'
      BY <1>3, RunnerKeeps
<1>4. CASE D!DeadlinePasses \/ \E k \in Peers : D!Message(k) \/ D!Disconnect(k)
      BY <1>4 DEF D!DeadlinePasses, D!Message, D!Disconnect, D!drainer, D!traffic, DrainInv,
                  OpsOK, FlagsOK, RunsOK, ChannelsOK, Accounted,
                  Stripped, Restoring, Cancelling
<1> QED  BY <1>1, <1>2, <1>3, <1>4 DEF D!Next

LEMMA DrainMeaning == ASSUME DrainInv PROVE D!TypeOK /\ D!NotHalfDead
<1> USE DEF DrainInv
<1>1. D!TypeOK
      BY DEF OpsOK, FlagsOK, RunsOK, ChannelsOK, Ops, Stages, D!TypeOK
<1>2. D!NotHalfDead
      BY DEF OpsOK, FlagsOK, RunsOK, Accounted, Stripped, Restoring, Cancelling, D!Settled, D!NotHalfDead
<1> QED  BY <1>1, <1>2

(* Drain, CancelDrain, finish: decided under d.mu, carried out under       *)
(* flowMu, by however many operators and rounds: once no call is under way *)
(* a node that is not draining is registered and has its heartbeat.        *)
THEOREM NeverHalfDead ==
    ASSUME D!DrainParams PROVE D!Spec => []D!TypeOK /\ []D!NotHalfDead
<1>1. D!Init => DrainInv  BY DrainStart
<1>2. DrainInv /\ [D!Next]_(D!vars) => DrainInv'  BY DrainStep
<1>3. DrainInv => D!TypeOK /\ D!NotHalfDead  BY DrainMeaning
<1> QED  BY <1>1, <1>2, <1>3, PTL DEF D!Spec

-----------------------------------------------------------------------------
(* The clients of a gateway and the queue they wait in.                    *)
(*                                                                         *)
(* The counter counts tokens: one for each session, for each that is being *)
(* cleaned up, and for each creation under way, but not for one between    *)
(* its insertion and its count, whose session has it.  Every step adds,    *)
(* removes or moves one token.  The limit is kept because a creation that  *)
(* goes on past its test has a token, as every session has.                *)

CONSTANTS Clients, Loop, Nil, MaxConns, QueueCap, Patience, MaxFrames, MaxFaults
VARIABLES patient, conn, sent, fwd, items, waiting, watch, armed, at, held, sessions,
          cleaning, counter, stop, faults, locked, loopAlive, crashed
G == INSTANCE GatewayQueue WITH Conns <- Clients, pending <- waiting, hand <- held

Tokens ==
    ({"session"} \X sessions) \cup ({"cleaning"} \X cleaning)
        \cup ({"creation"} \X {a \in G!Actors : at[a] \in {"over", "dial", "insert", "return", "fail"}})
Claims ==
    ({"session"} \X sessions)
        \cup ({"creation"} \X {a \in G!Actors : at[a] \in {"dial", "insert"}})

Counted == IsFiniteSet(Tokens) /\ counter = Cardinality(Tokens)
Limited == Cardinality(Claims) <= MaxConns

(* What the actors are at, and the queue with what the loop holds of it.   *)
Places ==
    /\ at \in [G!Actors -> G!Steps] /\ sent \in [Clients -> Nat]
    /\ \A c \in Clients : at[c] # "idle" => sent[c] > 0
    /\ at[Loop] # "idle" => held \in G!Pending /\ held # Nil
    /\ held \in G!Pending \cup {Nil}
Room(n) == Len(items) + n <= QueueCap + 1
Queued ==
    /\ items \in Seq(G!Pending \cup {Nil}) /\ Room(IF held = Nil THEN 0 ELSE 1)
    /\ waiting \subseteq Clients /\ armed \subseteq G!Pending /\ watch \subseteq G!Pending
    /\ conn \in [Clients -> {"new", "open", "closed"}]
Table == sessions \subseteq Clients /\ cleaning \subseteq Clients

Quiet ==
    stop = "done" => /\ sessions = {} /\ cleaning = {} /\ watch = {}
                     /\ \A a \in G!Actors : at[a] \notin {"insert", "count"}

AdmissionInv == Places /\ Queued /\ Table /\ Counted /\ Limited /\ Quiet

-----------------------------------------------------------------------------
(* Tokens *)

LEMMA TokenAdded ==
    ASSUME Counted, NEW t, t \notin Tokens, Tokens' = Tokens \cup {t}, counter' = counter + 1
    PROVE  Counted'
    BY FS_AddElement DEF Counted

LEMMA TokenRemoved ==
    ASSUME Counted, NEW t \in Tokens, Tokens' = Tokens \ {t}, counter' = counter - 1
    PROVE  Counted'
    BY FS_RemoveElement DEF Counted

LEMMA TokenMoved ==
    ASSUME Counted, NEW t \in Tokens, NEW u, u \notin Tokens, counter' = counter,
           Tokens' = (Tokens \ {t}) \cup {u}
    PROVE  Counted'
<1>1. IsFiniteSet(Tokens \ {t}) /\ Cardinality(Tokens \ {t}) = Cardinality(Tokens) - 1
      BY FS_RemoveElement DEF Counted
<1>2. u \notin Tokens \ {t} /\ Cardinality(Tokens) \in Nat  BY FS_CardinalityType DEF Counted
<1>3. IsFiniteSet((Tokens \ {t}) \cup {u})
      /\ Cardinality((Tokens \ {t}) \cup {u}) = Cardinality(Tokens \ {t}) + 1
      BY <1>1, <1>2, FS_AddElement
<1> QED  BY <1>1, <1>2, <1>3 DEF Counted

LEMMA TokensStay ==
    ASSUME Counted, Tokens' = Tokens, counter' = counter
    PROVE  Counted'
    BY DEF Counted

LEMMA ClaimsAreTokens == Claims \subseteq Tokens
    BY DEF Claims, Tokens

(* Who is allowed past the limit has a token, so there are fewer claims    *)
(* than the counter says.                                                  *)
LEMMA ClaimAdded ==
    ASSUME Counted, MaxConns \in Nat, counter + 1 <= MaxConns, NEW t, Claims' = Claims \cup {t}
    PROVE  Limited'
<1>1. IsFiniteSet(Claims) /\ Cardinality(Claims) <= counter
      BY ClaimsAreTokens, FS_Subset DEF Counted
<1>2. Cardinality(Claims) \in Nat /\ counter \in Nat  BY <1>1, FS_CardinalityType DEF Counted
<1>3. Cardinality(Claims \cup {t}) <= Cardinality(Claims) + 1 /\ IsFiniteSet(Claims \cup {t})
      BY <1>1, <1>2, FS_AddElement
<1>4. Cardinality(Claims \cup {t}) \in Nat  BY <1>3, FS_CardinalityType
<1> QED  BY <1>1, <1>2, <1>3, <1>4 DEF Limited

LEMMA ClaimsFewer ==
    ASSUME Counted, Limited, MaxConns \in Nat, Claims' \subseteq Claims
    PROVE  Limited'
<1>1. IsFiniteSet(Claims)  BY ClaimsAreTokens, FS_Subset DEF Counted
<1>2. Cardinality(Claims') <= Cardinality(Claims) /\ IsFiniteSet(Claims')  BY <1>1, FS_Subset
<1>3. Cardinality(Claims) \in Nat /\ Cardinality(Claims') \in Nat
      BY <1>1, <1>2, FS_CardinalityType
<1> QED  BY <1>2, <1>3 DEF Limited

LEMMA ClaimMoved ==
    ASSUME Counted, Limited, MaxConns \in Nat, NEW t \in Claims, NEW u,
           Claims' = (Claims \ {t}) \cup {u}
    PROVE  Limited'
<1>1. IsFiniteSet(Claims)  BY ClaimsAreTokens, FS_Subset DEF Counted
<1>2. IsFiniteSet(Claims \ {t}) /\ Cardinality(Claims \ {t}) = Cardinality(Claims) - 1
      BY <1>1, FS_RemoveElement
<1>3. Cardinality(Claims) \in Nat /\ Cardinality(Claims \ {t}) \in Nat
      BY <1>1, <1>2, FS_CardinalityType
<1>4. Cardinality((Claims \ {t}) \cup {u}) <= Cardinality(Claims \ {t}) + 1
      BY <1>2, <1>3, FS_AddElement
<1>5. IsFiniteSet((Claims \ {t}) \cup {u})  BY <1>2, FS_AddElement
<1>6. Cardinality((Claims \ {t}) \cup {u}) \in Nat  BY <1>5, FS_CardinalityType
<1> QED  BY <1>2, <1>3, <1>4, <1>6 DEF Limited

-----------------------------------------------------------------------------
(* createSession *)

Holding == {"over", "dial", "insert", "return", "fail"}
Claiming == {"dial", "insert"}

LEMMA ActorTokens ==
    ASSUME Places, NEW a \in G!Actors, NEW to \in G!Steps, G!Goto(a, to),
           UNCHANGED <<sessions, cleaning>>
    PROVE  /\ <<"creation", a>> \in Tokens <=> at[a] \in Holding
           /\ <<"creation", a>> \in Claims <=> at[a] \in Claiming
           /\ Tokens' = IF to \in Holding THEN Tokens \cup {<<"creation", a>>}
                                          ELSE Tokens \ {<<"creation", a>>}
           /\ Claims' = IF to \in Claiming THEN Claims \cup {<<"creation", a>>}
                                           ELSE Claims \ {<<"creation", a>>}
<1>1. at' = [at EXCEPT ![a] = to] /\ at \in [G!Actors -> G!Steps]  BY DEF Places, G!Goto
<1>2. \A b \in G!Actors : at'[b] = IF b = a THEN to ELSE at[b]  BY <1>1
<1>3. {b \in G!Actors : at'[b] \in Holding}
        = IF to \in Holding THEN {b \in G!Actors : at[b] \in Holding} \cup {a}
                            ELSE {b \in G!Actors : at[b] \in Holding} \ {a}
      BY <1>2
<1>4. {b \in G!Actors : at'[b] \in Claiming}
        = IF to \in Claiming THEN {b \in G!Actors : at[b] \in Claiming} \cup {a}
                             ELSE {b \in G!Actors : at[b] \in Claiming} \ {a}
      BY <1>2
<1> DEFINE H == {b \in G!Actors : at[b] \in Holding}
           C == {b \in G!Actors : at[b] \in Claiming}
           H2 == {b \in G!Actors : at'[b] \in Holding}
           C2 == {b \in G!Actors : at'[b] \in Claiming}
<1>5. /\ Tokens = ({"session"} \X sessions) \cup ({"cleaning"} \X cleaning) \cup ({"creation"} \X H)
      /\ Claims = ({"session"} \X sessions) \cup ({"creation"} \X C)
      /\ Tokens' = ({"session"} \X sessions) \cup ({"cleaning"} \X cleaning) \cup ({"creation"} \X H2)
      /\ Claims' = ({"session"} \X sessions) \cup ({"creation"} \X C2)
      BY DEF Tokens, Claims, Holding, Claiming
<1>6. a \in H <=> at[a] \in Holding  OBVIOUS
<1>7. a \in C <=> at[a] \in Claiming  OBVIOUS
<1> HIDE DEF H, C, H2, C2, Holding, Claiming
<1>8. H2 = IF to \in Holding THEN H \cup {a} ELSE H \ {a}  BY <1>3 DEF H, H2
<1>9. C2 = IF to \in Claiming THEN C \cup {a} ELSE C \ {a}  BY <1>4 DEF C, C2
<1>10. <<"creation", a>> \in Tokens <=> at[a] \in Holding  BY <1>5, <1>6
<1>11. <<"creation", a>> \in Claims <=> at[a] \in Claiming  BY <1>5, <1>7
<1>12. \A S, T : {"creation"} \X (S \cup T) = ({"creation"} \X S) \cup ({"creation"} \X T)
       OBVIOUS
<1>13. {"creation"} \X {a} = {<<"creation", a>>}  OBVIOUS
<1>14. Tokens' = IF to \in Holding THEN Tokens \cup {<<"creation", a>>}
                                   ELSE Tokens \ {<<"creation", a>>}
       <2>1. CASE to \in Holding  BY <2>1, <1>5, <1>8, <1>12, <1>13
       <2>2. CASE to \notin Holding  BY <2>2, <1>5, <1>8
       <2> QED  BY <2>1, <2>2
<1>15. Claims' = IF to \in Claiming THEN Claims \cup {<<"creation", a>>}
                                    ELSE Claims \ {<<"creation", a>>}
       <2>1. CASE to \in Claiming  BY <2>1, <1>5, <1>9, <1>12, <1>13
       <2>2. CASE to \notin Claiming  BY <2>2, <1>5, <1>9
       <2> QED  BY <2>1, <2>2
<1> QED  BY <1>10, <1>11, <1>14, <1>15

LEMMA WorkIsKnown ==
    ASSUME G!GatewayQueueParams, Places, NEW a \in G!Actors, at[a] # "idle"
    PROVE  /\ G!Work(a) \in G!Pending /\ G!Work(a).conn \in Clients
           /\ a # Loop => a \in Clients /\ G!Work(a) = [conn |-> a, frame |-> sent[a]]
<1>1. CASE a = Loop  BY <1>1 DEF Places, G!Work, G!Pending
<1>2. CASE a # Loop
      <2>1. a \in Clients /\ sent[a] \in Nat \ {0}  BY <1>2 DEF Places, G!Actors
      <2> QED  BY <1>2, <2>1 DEF G!Work, G!Entry, G!Pending
<1> QED  BY <1>1, <1>2

LEMMA PlacesGo ==
    ASSUME Places, NEW a \in G!Actors, at[a] # "idle",
           NEW to \in G!Steps, G!Goto(a, to), UNCHANGED sent,
           held' = held \/ (a = Loop /\ to = "idle" /\ held' = Nil)
    PROVE  Places'
<1>1. at' = [at EXCEPT ![a] = to]  BY DEF G!Goto
<1>2. at' \in [G!Actors -> G!Steps] /\ \A b \in G!Actors : at'[b] = IF b = a THEN to ELSE at[b]
      BY <1>1 DEF Places
<1>3. Loop \in G!Actors /\ Clients \subseteq G!Actors  BY DEF G!Actors
<1>4. held' \in G!Pending \cup {Nil} /\ (held # Nil => held' = held \/ held' = Nil)
      BY DEF Places
<1>5. at'[Loop] # "idle" => held' \in G!Pending /\ held' # Nil
      BY <1>2, <1>3, <1>4 DEF Places
<1>6. G!Pending' = G!Pending  BY DEF G!Pending
<1> QED  BY <1>2, <1>3, <1>4, <1>5, <1>6 DEF Places

LEMMA ActorGoes ==
    ASSUME G!GatewayQueueParams, Places, Queued, NEW a \in G!Actors, at[a] # "idle",
           NEW to \in G!Steps, G!Goto(a, to), UNCHANGED <<sent, items, waiting, armed, watch, conn>>,
           held' = held \/ (a = Loop /\ to = "idle" /\ held' = Nil)
    PROVE  Places' /\ Queued'
<1>1. Places'  BY PlacesGo
<1>2. Len(items) \in Nat /\ QueueCap \in Nat
      BY LenProperties DEF Queued, G!GatewayQueueParams
<1>3. held' = Nil \/ held' = held  OBVIOUS
<1>4. Room(IF held' = Nil THEN 0 ELSE 1)  BY <1>2, <1>3 DEF Queued, Room
<1> QED  BY <1>1, <1>4 DEF Queued, Room

(* A step of a that leaves the sessions alone: its token or its claim      *)
(* comes, goes or stays, and the counter with it.                          *)
LEMMA ActorCounts ==
    ASSUME Places, Counted, Limited, MaxConns \in Nat, NEW a \in G!Actors, NEW to \in G!Steps,
           G!Goto(a, to), UNCHANGED <<sessions, cleaning>>,
           \/ at[a] \notin Holding /\ to \in Holding /\ counter' = counter + 1
           \/ at[a] \in Holding /\ to \notin Holding /\ counter' = counter - 1
           \/ (at[a] \in Holding <=> to \in Holding) /\ counter' = counter,
           to \in Claiming => at[a] \in Claiming \/ counter + 1 <= MaxConns
    PROVE  Counted' /\ Limited'
<1> DEFINE t == <<"creation", a>>
<1>1. /\ t \in Tokens <=> at[a] \in Holding
      /\ t \in Claims <=> at[a] \in Claiming
      /\ Tokens' = IF to \in Holding THEN Tokens \cup {t} ELSE Tokens \ {t}
      /\ Claims' = IF to \in Claiming THEN Claims \cup {t} ELSE Claims \ {t}
      BY ActorTokens
<1> HIDE DEF t, Holding, Claiming
<1>2. ASSUME at[a] \notin Holding, to \in Holding, counter' = counter + 1
      PROVE  Counted'
      BY <1>1, <1>2, TokenAdded
<1>3. ASSUME at[a] \in Holding, to \notin Holding, counter' = counter - 1
      PROVE  Counted'
      BY <1>1, <1>3, TokenRemoved
<1>4. ASSUME at[a] \in Holding <=> to \in Holding, counter' = counter
      PROVE  Counted'
      <2>1. Tokens' = Tokens  BY <1>1, <1>4
      <2> QED  BY <1>4, <2>1, TokensStay
<1>5. Counted'  BY <1>2, <1>3, <1>4
<1>6. CASE to \notin Claiming
      <2>1. Claims' \subseteq Claims  BY <1>1, <1>6
      <2> QED  BY <1>5, <2>1, ClaimsFewer
<1>7. CASE to \in Claiming /\ at[a] \in Claiming
      <2>1. Claims' \subseteq Claims  BY <1>1, <1>7
      <2> QED  BY <1>5, <2>1, ClaimsFewer
<1>8. CASE to \in Claiming /\ counter + 1 <= MaxConns
      BY <1>1, <1>5, <1>8, ClaimAdded
<1> QED  BY <1>5, <1>6, <1>7, <1>8

(* Nothing is created after Stop has waited. *)
LEMMA ActorQuiet ==
    ASSUME Places, Quiet, NEW a \in G!Actors, NEW to \in G!Steps, G!Goto(a, to),
           UNCHANGED <<stop, sessions, cleaning, watch>>,
           to \in {"insert", "count"} => stop # "done"
    PROVE  Quiet'
<1>1. \A b \in G!Actors : at'[b] = IF b = a THEN to ELSE at[b]  BY DEF Places, G!Goto
<1> QED  BY <1>1 DEF Quiet

LEMMA InsertKeeps ==
    ASSUME G!GatewayQueueParams, AdmissionInv, NEW a \in G!Actors, G!Insert(a)
    PROVE  Table' /\ Counted' /\ Limited' /\ Quiet'
<1> DEFINE c == G!Work(a).conn
           t == <<"creation", a>>
           u == <<"session", c>>
<1>0. Places /\ Table /\ Counted /\ Limited /\ Quiet /\ MaxConns \in Nat
      BY DEF AdmissionInv, G!GatewayQueueParams
<1>1. at[a] = "insert" /\ sessions' = sessions \cup {c} /\ UNCHANGED <<counter, cleaning, stop, watch>>
      /\ G!Goto(a, IF c \in sessions THEN "return" ELSE "count")
      BY DEF G!Insert, G!around
<1>2. c \in Clients  BY <1>0, <1>1, WorkIsKnown
<1>3. Table'  BY <1>0, <1>1, <1>2 DEF Table
<1>4. stop # "done"  BY <1>0, <1>1 DEF Quiet
<1>5. Quiet'  BY <1>1, <1>4 DEF Quiet
<1>6. at[a] \in Holding /\ at[a] \in Claiming  BY <1>1 DEF Holding, Claiming
<1>7. CASE c \in sessions
      <2>1. G!Goto(a, "return") /\ sessions' = sessions  BY <1>1, <1>7
      <2>2. Counted' /\ Limited'
            BY <1>0, <1>1, <1>6, <2>1, ActorCounts DEF Holding, Claiming, G!Steps
      <2> QED  BY <1>3, <1>5, <2>2
<1>8. CASE c \notin sessions
      <2>1. at' = [at EXCEPT ![a] = "count"] /\ at \in [G!Actors -> G!Steps]
            BY <1>0, <1>1, <1>8 DEF G!Goto, Places
      <2>2. \A b \in G!Actors : at'[b] = IF b = a THEN "count" ELSE at[b]  BY <2>1
      <2> DEFINE H == {b \in G!Actors : at[b] \in Holding}
                 C == {b \in G!Actors : at[b] \in Claiming}
      <2>3. {b \in G!Actors : at'[b] \in Holding} = H \ {a}
            /\ {b \in G!Actors : at'[b] \in Claiming} = C \ {a}
            BY <2>2 DEF Holding, Claiming
      <2>4. a \in H /\ a \in C  BY <1>6
      <2>5. /\ Tokens = ({"session"} \X sessions) \cup ({"cleaning"} \X cleaning) \cup ({"creation"} \X H)
            /\ Claims = ({"session"} \X sessions) \cup ({"creation"} \X C)
            BY DEF Tokens, Claims, Holding, Claiming
      <2>6. /\ Tokens' = ({"session"} \X sessions') \cup ({"cleaning"} \X cleaning)
                            \cup ({"creation"} \X (H \ {a}))
            /\ Claims' = ({"session"} \X sessions') \cup ({"creation"} \X (C \ {a}))
            BY <1>1, <2>3 DEF Tokens, Claims, Holding, Claiming
      <2> HIDE DEF H, C, c
      <2>7. {"session"} \X sessions' = ({"session"} \X sessions) \cup {u}  BY <1>1
      <2>8. \A S : {"creation"} \X (S \ {a}) = ({"creation"} \X S) \ {t}  OBVIOUS
      <2>9. t \in Tokens /\ t \in Claims /\ u \notin Tokens  BY <1>8, <2>4, <2>5
      <2>10. Tokens' = (Tokens \ {t}) \cup {u} /\ Claims' = (Claims \ {t}) \cup {u}
             BY <2>5, <2>6, <2>7, <2>8
      <2>11. Counted'  BY <1>0, <1>1, <2>9, <2>10, TokenMoved
      <2>12. Limited'  BY <1>0, <2>9, <2>10, ClaimMoved
      <2> QED  BY <1>3, <1>5, <2>11, <2>12
<1> QED  BY <1>7, <1>8

LEMMA CreationKeeps ==
    ASSUME G!GatewayQueueParams, AdmissionInv, NEW a \in G!Actors, G!Creation(a)
    PROVE  AdmissionInv'
<1>0. /\ Places /\ Queued /\ Table /\ Counted /\ Limited /\ Quiet /\ MaxConns \in Nat
      BY DEF AdmissionInv, G!GatewayQueueParams
<1>1. ASSUME NEW to \in G!Steps, at[a] # "idle", G!Goto(a, to),
             UNCHANGED <<sent, items, waiting, armed, watch, conn, sessions, cleaning, stop>>,
             held' = held \/ (a = Loop /\ to = "idle" /\ held' = Nil),
             \/ at[a] \notin Holding /\ to \in Holding /\ counter' = counter + 1
             \/ at[a] \in Holding /\ to \notin Holding /\ counter' = counter - 1
             \/ (at[a] \in Holding <=> to \in Holding) /\ counter' = counter,
             to \in Claiming => at[a] \in Claiming \/ counter + 1 <= MaxConns,
             to \in {"insert", "count"} => stop # "done"
      PROVE  AdmissionInv'
      <2>1. Places' /\ Queued'  BY <1>0, <1>1, ActorGoes
      <2>2. Counted' /\ Limited'  BY <1>0, <1>1, ActorCounts
      <2>3. Quiet'  BY <1>0, <1>1, ActorQuiet
      <2>4. Table'  BY <1>0, <1>1 DEF Table
      <2> QED  BY <2>1, <2>2, <2>3, <2>4 DEF AdmissionInv
<1>2. CASE G!Reserve(a)
      <2> DEFINE to == IF counter + 1 > MaxConns THEN "over" ELSE "dial"
      <2>1. /\ at[a] = "admit" /\ counter' = counter + 1 /\ G!Goto(a, to)
            /\ UNCHANGED <<sent, items, waiting, armed, watch, conn, sessions, cleaning, stop, held>>
            BY <1>2 DEF G!Reserve, G!queue, G!around
      <2>2. counter \in Nat  BY <1>0, FS_CardinalityType DEF Counted
      <2>3. to \in Claiming => counter + 1 <= MaxConns  BY <1>0, <2>2 DEF Claiming
      <2>4. to \in G!Steps /\ to \in Holding /\ to \notin {"insert", "count"} /\ at[a] \notin Holding
            BY <2>1 DEF G!Steps, Holding
      <2> HIDE DEF to
      <2> QED  BY <1>1, <2>1, <2>3, <2>4
<1>3. CASE G!GiveUp(a)
      <2> DEFINE to == IF a = Loop THEN "requeue" ELSE "offer"
      <2>1. /\ at[a] \in {"over", "fail"} /\ counter' = counter - 1 /\ G!Goto(a, to)
            /\ UNCHANGED <<sent, items, waiting, armed, watch, conn, sessions, cleaning, stop, held>>
            BY <1>3 DEF G!GiveUp, G!queue, G!around
      <2>2. to \in G!Steps /\ to \notin Holding /\ to \notin Claiming /\ to \notin {"insert", "count"}
            BY DEF G!Steps, Holding, Claiming
      <2>3. at[a] \in Holding /\ at[a] # "idle"  BY <2>1 DEF Holding
      <2> HIDE DEF to
      <2> QED  BY <1>1, <2>1, <2>2, <2>3
<1>4. CASE G!Dial(a) \/ G!DialFails(a)
      <2>1. PICK to \in {"return", "fail", "insert"} :
            /\ at[a] = "dial" /\ G!Goto(a, to) /\ (to = "insert" => stop = "run")
            /\ UNCHANGED <<sent, items, waiting, armed, watch, conn, sessions, cleaning, counter, stop, held>>
            BY <1>4 DEF G!Dial, G!DialFails, G!queue, G!around, G!table, G!Stopping
      <2>2. to \in G!Steps /\ to \in Holding /\ at[a] \in Holding /\ at[a] \in Claiming /\ at[a] # "idle"
            BY <2>1 DEF G!Steps, Holding, Claiming
      <2> QED  BY <1>1, <2>1, <2>2
<1>5. CASE G!Insert(a)
      <2>1. /\ at[a] = "insert" /\ UNCHANGED <<sent, items, waiting, armed, watch, conn, held>>
            BY <1>5 DEF G!Insert, G!queue, G!around
      <2>2. PICK to \in {"return", "count"} : G!Goto(a, to)  BY <1>5 DEF G!Insert
      <2>3. Places' /\ Queued'  BY <1>0, <2>1, <2>2, ActorGoes DEF G!Steps
      <2>4. Table' /\ Counted' /\ Limited' /\ Quiet'  BY <1>5, InsertKeeps
      <2> QED  BY <2>3, <2>4 DEF AdmissionInv
<1>6. CASE G!Count(a)
      <2>1. /\ at[a] = "count" /\ counter' = counter + 1 /\ G!Goto(a, "return")
            /\ UNCHANGED <<sent, items, waiting, armed, watch, conn, sessions, cleaning, stop, held>>
            BY <1>6 DEF G!Count, G!queue, G!around
      <2> QED  BY <1>1, <2>1 DEF G!Steps, Holding, Claiming
<1>7. CASE G!Return(a)
      <2>1. /\ at[a] = "return" /\ counter' = counter - 1 /\ G!Goto(a, "idle")
            /\ held' = (IF a = Loop THEN Nil ELSE held)
            /\ UNCHANGED <<sent, items, waiting, armed, watch, conn, sessions, cleaning, stop>>
            BY <1>7 DEF G!Return, G!queue, G!around
      <2> QED  BY <1>1, <2>1 DEF G!Steps, Holding, Claiming
<1> QED  BY <1>2, <1>3, <1>4, <1>5, <1>6, <1>7 DEF G!Creation

-----------------------------------------------------------------------------
(* The queue *)

LEMMA SmallestIndex ==
    ASSUME NEW S \in SUBSET Nat, S # {}
    PROVE  G!Min(S) \in S
<1> DEFINE Less == OpToRel(<, Nat)
<1>1. IsWellFoundedOn(Less, Nat)  BY NatLessThanWellFounded
<1>2. Less = {ss \in Nat \X Nat : ss[1] < ss[2]}  BY DEF OpToRel
<1> HIDE DEF Less
<1>3. PICK x \in S : \A y \in S : ~ (<<y, x>> \in Less)  BY <1>1, WFMin
<1>4. ASSUME NEW y \in S PROVE x =< y
      <2>1. <<y, x>> \notin Less  BY <1>3
      <2>2. <<y, x>> \in Nat \X Nat  OBVIOUS
      <2>3. ~(y < x)  BY <2>1, <2>2, <1>2
      <2> QED  BY <2>3
<1> QED  BY <1>4 DEF G!Min

(* remove shortens the queue by one. *)
LEMMA RestIsShorter ==
    ASSUME NEW S, items \in Seq(S), NEW p, p \in G!ToSet(items)
    PROVE  G!Rest(p) \in Seq(S) /\ Len(G!Rest(p)) = Len(items) - 1
<1> DEFINE I == {i \in 1 .. Len(items) : items[i] = p}
           m == G!Min(I)
<1>1. Len(items) \in Nat /\ DOMAIN items = 1 .. Len(items)  BY LenProperties
<1>2. I # {} /\ I \in SUBSET Nat  BY <1>1 DEF G!ToSet
<1>3. m \in I  BY <1>2, SmallestIndex
<1>4. G!SelectInSeq(items, LAMBDA v : v = p) = m
      BY <1>2 DEF G!SelectInSeq
<1>5. \E i \in 1 .. Len(items) : items[i] = p  BY <1>2
<1>6. G!Rest(p) = G!RemoveAt(items, m)  BY <1>4, <1>5 DEF G!Rest, G!RemoveFirst
<1>7. m \in 1 .. Len(items)  BY <1>3
<1> HIDE DEF m, I
<1>8. m \in Int /\ m - 1 \in Int /\ m + 1 \in Int /\ Len(items) \in Int  BY <1>1, <1>7
<1>9. \A i \in 1 .. Len(items) : items[i] \in S  BY <1>1, ElementOfSeq
<1> DEFINE before == SubSeq(items, 1, m - 1)
           after == SubSeq(items, m + 1, Len(items))
<1>10. before \in Seq(S) /\ Len(before) = IF 1 <= m - 1 THEN m - 1 - 1 + 1 ELSE 0
       <2>1. \A i \in 1 .. m - 1 : items[i] \in S  BY <1>1, <1>7, <1>9
       <2> QED  BY <1>8, <2>1, SubSeqProperties
<1>11. after \in Seq(S) /\ Len(after) = IF m + 1 <= Len(items) THEN Len(items) - (m + 1) + 1 ELSE 0
       <2>1. \A i \in m + 1 .. Len(items) : items[i] \in S  BY <1>1, <1>7, <1>9
       <2> QED  BY <1>8, <2>1, SubSeqProperties
<1>12. G!Rest(p) = before \o after  BY <1>6 DEF G!RemoveAt
<1> HIDE DEF before, after
<1>13. G!Rest(p) \in Seq(S) /\ Len(G!Rest(p)) = Len(before) + Len(after)
       BY <1>10, <1>11, <1>12, ConcatProperties
<1>14. m >= 1 /\ m <= Len(items)  BY <1>1, <1>7
<1>15. Len(before) = m - 1  BY <1>8, <1>10, <1>14
<1>16. Len(after) = Len(items) - m  BY <1>8, <1>11, <1>14
<1>17. Len(before) + Len(after) = Len(items) - 1  BY <1>8, <1>15, <1>16
<1> QED  BY <1>13, <1>17

LEMMA RemovedKeeps ==
    ASSUME Queued, NEW p \in G!Pending, G!Removed(p)
    PROVE  /\ items' \in Seq(G!Pending \cup {Nil}) /\ Len(items') <= Len(items)
           /\ waiting' \subseteq Clients
<1> DEFINE S == G!Pending \cup {Nil}
<1>1. items \in Seq(S) /\ Len(items) \in Nat  BY LenProperties DEF Queued
<1>2. waiting' \subseteq Clients  BY DEF Queued, G!Removed
<1>3. CASE items' = items  BY <1>1, <1>2, <1>3
<1>4. CASE items' = <<>>  BY <1>1, <1>2, <1>4
<1>5. CASE items' # items /\ items' # <<>>
      <2>1. p \in G!ToSet(items) /\ items' = [G!Rest(p) EXCEPT ![Len(G!Rest(p))] = Nil]
            BY <1>5 DEF G!Removed
      <2>2. G!Rest(p) \in Seq(S) /\ Len(G!Rest(p)) = Len(items) - 1
            BY <1>1, <2>1, RestIsShorter
      <2>3. PICK r : r = G!Rest(p)  OBVIOUS
      <2>4. r \in Seq(S) /\ Len(r) = Len(items) - 1 /\ items' = [r EXCEPT ![Len(r)] = Nil]
            BY <2>1, <2>2, <2>3
      <2>5. r \in [1 .. Len(r) -> S] /\ Len(r) \in Nat  BY <2>4, LenProperties, ElementOfSeq
      <2>6. items' \in [1 .. Len(r) -> S]  BY <2>4, <2>5
      <2>7. items' \in Seq(S) /\ Len(items') = Len(r)  BY <2>5, <2>6, IsASeq, LenProperties
      <2> QED  BY <1>1, <1>2, <2>4, <2>7
<1> QED  BY <1>3, <1>4, <1>5

LEMMA HeldRoom ==
    ASSUME G!GatewayQueueParams, Queued, items' \in Seq(G!Pending \cup {Nil}),
           Len(items') <= Len(items), held' = held,
           waiting' \subseteq Clients, armed' \subseteq G!Pending, watch' \subseteq G!Pending,
           conn' \in [Clients -> {"new", "open", "closed"}]
    PROVE  Queued'
<1>1. Len(items) \in Nat /\ Len(items') \in Nat /\ QueueCap \in Nat
      BY LenProperties DEF Queued, G!GatewayQueueParams
<1>2. PICK h \in {0, 1} : h = IF held = Nil THEN 0 ELSE 1  OBVIOUS
<1>3. Len(items) + h <= QueueCap + 1  BY <1>2 DEF Queued, Room
<1>4. Len(items') + h <= QueueCap + 1  BY <1>1, <1>3
<1>5. Room(IF held = Nil THEN 0 ELSE 1)'  BY <1>2, <1>4 DEF Room
<1>6. G!Pending' = G!Pending  BY DEF G!Pending
<1> QED  BY <1>5, <1>6 DEF Queued

LEMMA TableAlone ==
    ASSUME Table, Counted, Limited, Quiet, UNCHANGED <<at, sessions, cleaning, counter>>
    PROVE  Table' /\ Counted' /\ Limited'
<1>1. Tokens' = Tokens /\ Claims' = Claims  BY DEF Tokens, Claims
<1> QED  BY <1>1, TokensStay DEF Table, Limited

(* A step of a reader or of the loop that has to do with the queue alone.  *)
LEMMA QueueSteps ==
    ASSUME Places, Table, Counted, Limited, MaxConns \in Nat, NEW a \in G!Actors, NEW to \in G!Steps,
           at[a] \notin Holding, to \notin Holding, G!Goto(a, to),
           UNCHANGED <<sessions, cleaning, counter>>
    PROVE  Table' /\ Counted' /\ Limited'
<1>1. to \notin Claiming  BY DEF Holding, Claiming
<1>2. Table'  BY DEF Table
<1> QED  BY <1>1, <1>2, ActorCounts

LEMMA ReaderKeeps ==
    ASSUME G!GatewayQueueParams, AdmissionInv, NEW c \in Clients, G!Reader(c)
    PROVE  AdmissionInv'
<1>0. /\ Places /\ Queued /\ Table /\ Counted /\ Limited /\ Quiet /\ MaxConns \in Nat
      /\ c \in G!Actors /\ c # Loop
      BY DEF AdmissionInv, G!GatewayQueueParams, G!Actors
<1>1. CASE G!ForwardKnown(c) \/ G!RateLimited(c)
      <2>1. PICK to \in {"idle", "offer"} : G!Goto(c, to)
            BY <1>1 DEF G!ForwardKnown, G!RateLimited
      <2>2. /\ at[c] = "admit"
            /\ UNCHANGED <<sent, items, waiting, armed, watch, conn, held, sessions, cleaning, counter, stop>>
            BY <1>1 DEF G!ForwardKnown, G!RateLimited, G!queue, G!around, G!table
      <2>3. to \in G!Steps /\ to \notin Holding /\ at[c] \notin Holding
            BY <2>2 DEF G!Steps, Holding
      <2>4. Places' /\ Queued'  BY <1>0, <2>1, <2>2, <2>3, ActorGoes
      <2>5. Table' /\ Counted' /\ Limited'  BY <1>0, <2>1, <2>2, <2>3, QueueSteps
      <2>6. Quiet'  BY <1>0, <2>1, <2>2, <2>3, ActorQuiet
      <2> QED  BY <2>4, <2>5, <2>6 DEF AdmissionInv
<1>2. CASE G!Offer(c)
      <2>1. PICK to \in {"idle", "watch"} : G!Goto(c, to)  BY <1>2 DEF G!Offer
      <2>2. /\ at[c] = "offer"
            /\ UNCHANGED <<sent, armed, watch, held, sessions, cleaning, counter, stop>>
            BY <1>2 DEF G!Offer, G!around, G!table
      <2>3. to \in G!Steps /\ to \notin Holding /\ at[c] \notin Holding
            BY <2>2 DEF G!Steps, Holding
      <2>4. Places'  BY <1>0, <2>1, <2>2, <2>3, PlacesGo
      <2>5. Table' /\ Counted' /\ Limited'  BY <1>0, <2>1, <2>2, <2>3, QueueSteps
      <2>6. Quiet'  BY <1>0, <2>1, <2>2, <2>3, ActorQuiet
      <2>7. CASE G!Close(c) /\ UNCHANGED <<items, waiting>>
            <3>1. conn' \in [Clients -> {"new", "open", "closed"}]
                  BY <1>0, <2>7 DEF G!Close, Queued
            <3>2. /\ items' \in Seq(G!Pending \cup {Nil}) /\ Len(items') <= Len(items)
                  /\ waiting' \subseteq Clients /\ armed' \subseteq G!Pending /\ watch' \subseteq G!Pending
                  BY <1>0, <2>2, <2>7, LenProperties DEF Queued
            <3>3. Queued'  BY <1>0, <2>2, <3>1, <3>2, HeldRoom
            <3> QED  BY <2>4, <2>5, <2>6, <3>3 DEF AdmissionInv
      <2>8. CASE Len(items) < QueueCap /\ items' = Append(items, G!Entry(c))
                 /\ waiting' = waiting \cup {c} /\ UNCHANGED conn
            <3>1. G!Work(c) \in G!Pending /\ G!Work(c) = G!Entry(c)
                  BY <1>0, <2>2, WorkIsKnown DEF G!Work
            <3>2. items \in Seq(G!Pending \cup {Nil}) /\ Len(items) \in Nat /\ QueueCap \in Nat
                  BY <1>0, LenProperties DEF Queued, G!GatewayQueueParams
            <3>3. items' \in Seq(G!Pending \cup {Nil}) /\ Len(items') = Len(items) + 1
                  BY <2>8, <3>1, <3>2, AppendProperties
            <3>4. PICK h \in {0, 1} : h = IF held = Nil THEN 0 ELSE 1  OBVIOUS
            <3>5. Len(items') + h <= QueueCap + 1  BY <2>8, <3>2, <3>3, <3>4
            <3>6. Room(IF held = Nil THEN 0 ELSE 1)'  BY <2>2, <3>4, <3>5 DEF Room
            <3>7. G!Pending' = G!Pending  BY DEF G!Pending
            <3>8. Queued'  BY <1>0, <2>2, <2>8, <3>3, <3>6, <3>7 DEF Queued
            <3> QED  BY <2>4, <2>5, <2>6, <3>8 DEF AdmissionInv
      <2>9. Len(items) \in Nat /\ QueueCap \in Nat
            BY <1>0, LenProperties DEF Queued, G!GatewayQueueParams
      <2>10. ~(Len(items) >= QueueCap) => Len(items) < QueueCap  BY <2>9
      <2> QED  BY <1>2, <2>7, <2>8, <2>10 DEF G!Offer, G!queue
<1>3. CASE G!Watch(c)
      <2>1. /\ at[c] = "watch" /\ G!Goto(c, "idle")
            /\ UNCHANGED <<sent, items, waiting, conn, held, sessions, cleaning, counter, stop>>
            /\ (stop # "run" => UNCHANGED <<watch, armed>>)
            /\ watch' \subseteq watch \cup {G!Entry(c)} /\ armed' \subseteq armed \cup {G!Entry(c)}
            BY <1>3 DEF G!Watch, G!queue, G!around, G!table, G!Stopping
      <2>2. "idle" \in G!Steps /\ "idle" \notin Holding /\ at[c] \notin Holding
            BY <2>1 DEF G!Steps, Holding
      <2>3. G!Entry(c) \in G!Pending  BY <1>0, <2>1, WorkIsKnown DEF G!Work
      <2>4. Places'  BY <1>0, <2>1, <2>2, PlacesGo
      <2>5. Table' /\ Counted' /\ Limited'  BY <1>0, <2>1, <2>2, QueueSteps
      <2>6. Quiet'
            <3>1. CASE stop = "done"  BY <1>0, <2>1, <2>2, <3>1, ActorQuiet
            <3>2. CASE stop # "done"  BY <2>1, <3>2 DEF Quiet
            <3> QED  BY <3>1, <3>2
      <2>7. /\ items' \in Seq(G!Pending \cup {Nil}) /\ Len(items') <= Len(items)
            /\ waiting' \subseteq Clients /\ armed' \subseteq G!Pending /\ watch' \subseteq G!Pending
            /\ conn' \in [Clients -> {"new", "open", "closed"}]
            BY <1>0, <2>1, <2>3, LenProperties DEF Queued
      <2>8. Queued'  BY <1>0, <2>1, <2>7, HeldRoom
      <2> QED  BY <2>4, <2>5, <2>6, <2>8 DEF AdmissionInv
<1> QED  BY <1>1, <1>2, <1>3 DEF G!Reader

LEMMA ReceiveKeeps ==
    ASSUME G!GatewayQueueParams, AdmissionInv, NEW c \in Clients, G!Receive(c)
    PROVE  AdmissionInv'
<1>0. /\ Places /\ Queued /\ Table /\ Counted /\ Limited /\ Quiet /\ MaxConns \in Nat
      /\ c \in G!Actors /\ c # Loop
      BY DEF AdmissionInv, G!GatewayQueueParams, G!Actors
<1>1. /\ at[c] = "idle" /\ sent' = [sent EXCEPT ![c] = @ + 1]
      /\ (at' = at \/ G!Goto(c, "admit"))
      /\ UNCHANGED <<conn, items, waiting, armed, watch, held, sessions, cleaning, counter, stop>>
      BY DEF G!Receive, G!queue, G!around, G!table
<1>2. sent' \in [Clients -> Nat] /\ sent'[c] > 0 /\ \A d \in Clients : d # c => sent'[d] = sent[d]
      BY <1>0, <1>1 DEF Places
<1>3. at' \in [G!Actors -> G!Steps] /\ \A b \in G!Actors : b # c => at'[b] = at[b]
      BY <1>0, <1>1 DEF Places, G!Goto, G!Steps
<1>4. Loop \in G!Actors /\ Clients \subseteq G!Actors /\ G!Pending' = G!Pending
      BY DEF G!Actors, G!Pending
<1>5. Places'
      <2>1. \A d \in Clients : at'[d] # "idle" => sent'[d] > 0
            BY <1>0, <1>2, <1>3, <1>4 DEF Places
      <2>2. at'[Loop] = at[Loop]  BY <1>0, <1>3, <1>4
      <2> QED  BY <1>0, <1>1, <1>2, <1>3, <1>4, <2>1, <2>2 DEF Places
<1>6. Queued'  BY <1>0, <1>1, <1>4 DEF Queued, Room
<1>7. Table' /\ Counted' /\ Limited' /\ Quiet'
      <2>1. CASE at' = at  BY <1>0, <1>1, <2>1, TableAlone DEF Quiet
      <2>2. CASE G!Goto(c, "admit")
            <3>1. "admit" \in G!Steps /\ "admit" \notin Holding /\ at[c] \notin Holding
                  BY <1>1 DEF G!Steps, Holding
            <3>2. Quiet'  BY <1>0, <1>1, <2>2, <3>1, ActorQuiet
            <3> QED  BY <1>0, <1>1, <2>2, <3>1, <3>2, QueueSteps
      <2> QED  BY <1>1, <2>1, <2>2
<1> QED  BY <1>5, <1>6, <1>7 DEF AdmissionInv

-----------------------------------------------------------------------------
(* The loop, the ways out of the queue, and Stop *)

(* A step that concerns the connections and the queue alone.               *)
LEMMA OutsideKeeps ==
    ASSUME G!GatewayQueueParams, AdmissionInv, items' \in Seq(G!Pending \cup {Nil}),
           Len(items') <= Len(items), waiting' \subseteq Clients, armed' \subseteq G!Pending,
           watch' \subseteq watch, conn' \in [Clients -> {"new", "open", "closed"}],
           UNCHANGED <<at, sent, held, sessions, cleaning, counter>>,
           stop' # "done" \/ UNCHANGED stop
    PROVE  AdmissionInv'
<1>0. Places /\ Queued /\ Table /\ Counted /\ Limited /\ Quiet  BY DEF AdmissionInv
<1>1. Places'  BY <1>0 DEF Places, G!Pending
<1>2. watch' \subseteq G!Pending  BY <1>0 DEF Queued
<1>3. Queued'  BY <1>0, <1>2, HeldRoom
<1>4. Table' /\ Counted' /\ Limited'  BY <1>0, TableAlone
<1>5. Quiet'  BY <1>0 DEF Quiet
<1> QED  BY <1>1, <1>3, <1>4, <1>5 DEF AdmissionInv

LEMMA LoopKeeps ==
    ASSUME G!GatewayQueueParams, AdmissionInv, G!LoopStep
    PROVE  AdmissionInv'
<1>0. /\ Places /\ Queued /\ Table /\ Counted /\ Limited /\ Quiet /\ MaxConns \in Nat
      /\ Loop \in G!Actors
      BY DEF AdmissionInv, G!GatewayQueueParams, G!Actors
<1>4. /\ items \in Seq(G!Pending \cup {Nil}) /\ Len(items) \in Nat /\ QueueCap \in Nat
      /\ G!Pending' = G!Pending
      BY <1>0, LenProperties DEF Queued, G!GatewayQueueParams, G!Pending
<1>1. CASE G!Dequeue
      <2>1. /\ at[Loop] = "idle" /\ items # <<>> /\ Head(items) # Nil /\ held' = Head(items)
            /\ items' = Tail(items) /\ waiting' = waiting \ {Head(items).conn}
            /\ armed' = armed \ {Head(items)} /\ G!Goto(Loop, "admit")
            /\ UNCHANGED <<conn, sent, watch, sessions, cleaning, counter, stop>>
            BY <1>1 DEF G!Dequeue, G!table
      <2>2. "admit" \in G!Steps /\ "admit" \notin Holding /\ at[Loop] \notin Holding
            BY <2>1 DEF G!Steps, Holding
      <2>3. Head(items) \in G!Pending
            <3>1. Head(items) \in G!Pending \cup {Nil}  BY <1>4, <2>1, HeadTailProperties
            <3> QED  BY <2>1, <3>1
      <2>4. Tail(items) \in Seq(G!Pending \cup {Nil}) /\ Len(Tail(items)) = Len(items) - 1
            BY <1>4, <2>1, HeadTailProperties
      <2>5. Places'
            <3>1. at' \in [G!Actors -> G!Steps] /\ \A b \in G!Actors : b # Loop => at'[b] = at[b]
                  BY <1>0, <2>1, <2>2 DEF Places, G!Goto
            <3>2. \A c \in Clients : c \in G!Actors /\ c # Loop
                  BY DEF G!Actors, G!GatewayQueueParams
            <3> QED  BY <1>0, <1>4, <2>1, <2>3, <3>1, <3>2 DEF Places
      <2>6. Len(items) <= QueueCap + 1
            <3>1. PICK h \in {0, 1} : h = IF held = Nil THEN 0 ELSE 1  OBVIOUS
            <3>2. Len(items) + h <= QueueCap + 1  BY <1>0, <3>1 DEF Queued, Room
            <3> QED  BY <1>4, <3>1, <3>2
      <2>7. Room(IF held = Nil THEN 0 ELSE 1)'
            <3>1. Len(items') + 1 <= QueueCap + 1  BY <1>4, <2>1, <2>4, <2>6
            <3>2. held' # Nil  BY <2>1
            <3> QED  BY <3>1, <3>2 DEF Room
      <2>8. Queued'  BY <1>0, <1>4, <2>1, <2>4, <2>7 DEF Queued
      <2>9. Table' /\ Counted' /\ Limited'  BY <1>0, <2>1, <2>2, QueueSteps
      <2>10. Quiet'  BY <1>0, <2>1, <2>2, ActorQuiet
      <2> QED  BY <2>5, <2>8, <2>9, <2>10 DEF AdmissionInv
<1>2. CASE G!DequeuePanics
      <2>1. /\ items # <<>> /\ items' = Tail(items)
            /\ UNCHANGED <<conn, sent, waiting, armed, watch, at, held, sessions, cleaning, counter, stop>>
            BY <1>2 DEF G!DequeuePanics, G!around, G!table
      <2>2. Tail(items) \in Seq(G!Pending \cup {Nil}) /\ Len(Tail(items)) = Len(items) - 1
            BY <1>4, <2>1, HeadTailProperties
      <2>3. Len(items') <= Len(items)  BY <1>4, <2>1, <2>2
      <2>4. /\ waiting' \subseteq Clients /\ armed' \subseteq G!Pending
            /\ conn' \in [Clients -> {"new", "open", "closed"}]
            BY <1>0, <2>1 DEF Queued
      <2> QED  BY <2>1, <2>2, <2>3, <2>4, OutsideKeeps
<1>3. CASE G!Requeue
      <2>1. /\ at[Loop] = "requeue" /\ G!Goto(Loop, "idle") /\ held' = Nil
            /\ armed' = armed \cup {held}
            /\ UNCHANGED <<sent, watch, sessions, cleaning, counter, stop>>
            BY <1>3 DEF G!Requeue, G!table
      <2>2. held \in G!Pending /\ held # Nil /\ held.conn \in Clients
            BY <1>0, <2>1 DEF Places, G!Pending
      <2>3. "idle" \in G!Steps /\ "idle" \notin Holding /\ at[Loop] \notin Holding
            BY <2>1 DEF G!Steps, Holding
      <2>4. Places'  BY <1>0, <2>1, <2>3, PlacesGo
      <2>5. Table' /\ Counted' /\ Limited'  BY <1>0, <2>1, <2>3, QueueSteps
      <2>6. Quiet'  BY <1>0, <2>1, <2>3, ActorQuiet
      <2>7. Len(items) + 1 <= QueueCap + 1  BY <1>0, <2>2 DEF Queued, Room
      <2>8. /\ items' \in Seq(G!Pending \cup {Nil}) /\ Len(items') <= Len(items) + 1
            /\ waiting' \subseteq Clients /\ conn' \in [Clients -> {"new", "open", "closed"}]
            <3>1. CASE G!Stopped
                  <4>1. items' = items /\ waiting' = waiting /\ G!Close(held.conn)
                        BY <1>3, <3>1 DEF G!Requeue, G!queue
                  <4> QED  BY <1>0, <1>4, <2>2, <4>1 DEF Queued, G!Close
            <3>2. CASE ~G!Stopped
                  <4>1. items' = <<held>> \o items /\ waiting' = waiting \cup {held.conn}
                        /\ conn' = conn
                        BY <1>3, <3>2 DEF G!Requeue
                  <4>2. <<held>> \in Seq(G!Pending \cup {Nil}) /\ Len(<<held>>) = 1  BY <2>2
                  <4>3. items' \in Seq(G!Pending \cup {Nil}) /\ Len(items') = 1 + Len(items)
                        BY <1>4, <4>1, <4>2, ConcatProperties
                  <4>4. Len(items') <= Len(items) + 1  BY <1>4, <4>3
                  <4>5. waiting' \subseteq Clients /\ conn' \in [Clients -> {"new", "open", "closed"}]
                        BY <1>0, <2>2, <4>1 DEF Queued
                  <4> QED  BY <4>3, <4>4, <4>5
            <3> QED  BY <3>1, <3>2
      <2>9. Len(items') \in Nat  BY <2>8, LenProperties
      <2>10. Len(items') + 0 <= QueueCap + 1  BY <1>4, <2>7, <2>8, <2>9
      <2>11. Room(IF held = Nil THEN 0 ELSE 1)'  BY <2>1, <2>10 DEF Room
      <2>12. Queued'  BY <1>0, <1>4, <2>1, <2>2, <2>8, <2>11 DEF Queued
      <2> QED  BY <2>4, <2>5, <2>6, <2>12 DEF AdmissionInv
<1> QED  BY <1>1, <1>2, <1>3 DEF G!LoopStep

LEMMA OutKeeps ==
    ASSUME G!GatewayQueueParams, AdmissionInv, NEW p \in G!Pending,
           G!WatcherRuns(p) \/ G!TimerFires(p)
    PROVE  AdmissionInv'
<1>0. Queued  BY DEF AdmissionInv
<1>1. /\ items' \in Seq(G!Pending \cup {Nil}) /\ Len(items') <= Len(items) /\ waiting' \subseteq Clients
      BY <1>0, RemovedKeeps DEF G!WatcherRuns, G!TimerFires
<1>2. /\ armed' \subseteq armed /\ watch' \subseteq watch
      /\ (conn' = conn \/ G!Close(p.conn))
      /\ UNCHANGED <<at, sent, held, sessions, cleaning, counter, stop>>
      BY DEF G!WatcherRuns, G!TimerFires, G!table
<1>3. conn' \in [Clients -> {"new", "open", "closed"}]
      BY <1>0, <1>2 DEF Queued, G!Close, G!Pending
<1>4. armed' \subseteq G!Pending  BY <1>0, <1>2 DEF Queued
<1> QED  BY <1>1, <1>2, <1>3, <1>4, OutsideKeeps

LEMMA ConnectionKeeps ==
    ASSUME G!GatewayQueueParams, AdmissionInv,
           \/ \E c \in Clients : G!Open(c) \/ G!ClientCloses(c)
           \/ G!RefreshPanics \/ G!StopGate \/ G!StopQueue \/ G!StopServers
    PROVE  AdmissionInv'
<1>0. Queued /\ items \in Seq(G!Pending \cup {Nil}) /\ Len(items) \in Nat /\ <<>> \in Seq(G!Pending \cup {Nil})
      BY LenProperties DEF AdmissionInv, Queued
<1>1. UNCHANGED <<at, sent, held, sessions, cleaning, counter, watch>> /\ armed' \subseteq armed
      /\ ((items' = items /\ waiting' = waiting) \/ (items' = <<>> /\ waiting' = {}))
      /\ (stop' # "done" \/ UNCHANGED stop)
      BY DEF G!Open, G!ClientCloses, G!RefreshPanics, G!StopGate, G!StopQueue, G!StopServers,
             G!queue, G!around, G!table
<1>2. conn' \in [Clients -> {"new", "open", "closed"}]
      BY <1>0 DEF Queued, G!Open, G!ClientCloses, G!RefreshPanics, G!StopGate, G!StopQueue,
         G!StopServers, G!Close
<1>3. items' \in Seq(G!Pending \cup {Nil}) /\ Len(items') <= Len(items)
      <2>1. CASE items' = items  BY <1>0, <2>1
      <2>2. CASE items' = <<>>
            <3>1. Len(items') = 0 /\ items' \in Seq(G!Pending \cup {Nil})  BY <2>2
            <3> QED  BY <1>0, <3>1
      <2> QED  BY <1>1, <2>1, <2>2
<1>4. waiting' \subseteq Clients /\ armed' \subseteq G!Pending  BY <1>0, <1>1 DEF Queued
<1> QED  BY <1>1, <1>2, <1>3, <1>4, OutsideKeeps

LEMMA SessionsKeep ==
    ASSUME G!GatewayQueueParams, AdmissionInv, NEW c \in Clients,
           G!SessionEnds(c) \/ G!SessionUncounted(c)
    PROVE  AdmissionInv'
<1>0. /\ Places /\ Queued /\ Table /\ Counted /\ Limited /\ Quiet /\ MaxConns \in Nat
      BY DEF AdmissionInv, G!GatewayQueueParams
<1>1. UNCHANGED <<sent, items, waiting, armed, watch, at, held, stop>>
      /\ (conn' = conn \/ G!Close(c))
      BY DEF G!SessionEnds, G!SessionUncounted, G!queue, G!around
<1>2. G!Pending' = G!Pending  BY DEF G!Pending
<1>3. Places'  BY <1>0, <1>1, <1>2 DEF Places
<1>4. conn' \in [Clients -> {"new", "open", "closed"}]  BY <1>0, <1>1 DEF Queued, G!Close
<1>5. Queued'  BY <1>0, <1>1, <1>2, <1>4 DEF Queued, Room
<1> DEFINE H == {"creation"} \X {a \in G!Actors : at[a] \in Holding}
           C == {"creation"} \X {a \in G!Actors : at[a] \in Claiming}
<1>6. /\ Tokens = ({"session"} \X sessions) \cup ({"cleaning"} \X cleaning) \cup H
      /\ Claims = ({"session"} \X sessions) \cup C
      /\ Tokens' = ({"session"} \X sessions') \cup ({"cleaning"} \X cleaning') \cup H
      /\ Claims' = ({"session"} \X sessions') \cup C
      BY <1>1 DEF Tokens, Claims, Holding, Claiming
<1>7. \A t \in H : t[1] = "creation"  OBVIOUS
<1> HIDE DEF H, C
<1>8. CASE G!SessionEnds(c)
      <2>1. /\ c \in sessions /\ c \notin cleaning /\ sessions' = sessions \ {c}
            /\ cleaning' = cleaning \cup {c} /\ counter' = counter
            BY <1>8 DEF G!SessionEnds
      <2>2. /\ {"session"} \X sessions' = ({"session"} \X sessions) \ {<<"session", c>>}
            /\ {"cleaning"} \X cleaning' = ({"cleaning"} \X cleaning) \cup {<<"cleaning", c>>}
            BY <2>1
      <2>3. <<"session", c>> \in Tokens /\ <<"cleaning", c>> \notin Tokens
            BY <1>6, <1>7, <2>1
      <2>4. <<"session", c>> \notin H /\ <<"session", c>> \notin {"cleaning"} \X cleaning
            BY <1>7
      <2>5. Tokens' = (Tokens \ {<<"session", c>>}) \cup {<<"cleaning", c>>}
            BY <1>6, <2>2, <2>4
      <2>6. Counted'  BY <1>0, <2>1, <2>3, <2>5, TokenMoved
      <2>7. Limited'
            <3>1. Claims' \subseteq Claims  BY <1>6, <2>2
            <3> QED  BY <1>0, <3>1, ClaimsFewer
      <2>8. Table'  BY <1>0, <2>1 DEF Table
      <2>9. Quiet'  BY <1>0, <1>1, <2>1 DEF Quiet
      <2> QED  BY <1>3, <1>5, <2>6, <2>7, <2>8, <2>9 DEF AdmissionInv
<1>9. CASE G!SessionUncounted(c)
      <2>1. /\ c \in cleaning /\ cleaning' = cleaning \ {c} /\ sessions' = sessions
            /\ counter' = (IF counter = 0 THEN 0 ELSE counter - 1)
            BY <1>9 DEF G!SessionUncounted
      <2>2. {"cleaning"} \X cleaning' = ({"cleaning"} \X cleaning) \ {<<"cleaning", c>>}
            BY <2>1
      <2>3. <<"cleaning", c>> \in Tokens  BY <1>6, <2>1
      <2>4. <<"cleaning", c>> \notin H /\ <<"cleaning", c>> \notin {"session"} \X sessions
            BY <1>7
      <2>5. Tokens' = Tokens \ {<<"cleaning", c>>}  BY <1>6, <2>1, <2>2, <2>4
      <2>6. counter # 0  BY <1>0, <2>3, FS_EmptySet DEF Counted
      <2>7. Counted'  BY <1>0, <2>1, <2>3, <2>5, <2>6, TokenRemoved
      <2>8. Limited'
            <3>1. Claims' \subseteq Claims  BY <1>6, <2>1
            <3> QED  BY <1>0, <3>1, ClaimsFewer
      <2>9. Table'  BY <1>0, <2>1 DEF Table
      <2>10. Quiet'  BY <1>0, <1>1, <2>1 DEF Quiet
      <2> QED  BY <1>3, <1>5, <2>7, <2>8, <2>9, <2>10 DEF AdmissionInv
<1> QED  BY <1>8, <1>9

LEMMA WaitedKeeps ==
    ASSUME G!GatewayQueueParams, AdmissionInv, G!StopWaited
    PROVE  AdmissionInv'
<1>0. Places /\ Queued /\ Table /\ Counted /\ Limited  BY DEF AdmissionInv
<1>1. UNCHANGED <<sent, conn, items, waiting, armed, watch, at, held, sessions, cleaning, counter>>
      BY DEF G!StopWaited, G!queue, G!around, G!table
<1>2. Places' /\ Queued'  BY <1>0, <1>1 DEF Places, Queued, Room, G!Pending
<1>3. Table' /\ Counted' /\ Limited'  BY <1>0, <1>1, TableAlone DEF AdmissionInv
<1>4. Quiet'  BY <1>1 DEF Quiet, G!StopWaited
<1> QED  BY <1>2, <1>3, <1>4 DEF AdmissionInv

-----------------------------------------------------------------------------
LEMMA AdmissionStart ==
    ASSUME G!GatewayQueueParams, G!Init
    PROVE  AdmissionInv
<1>1. /\ Tokens = {} /\ Claims = {}
      BY DEF G!Init, Tokens, Claims
<1>2. Counted /\ Limited
      BY <1>1, FS_EmptySet DEF G!Init, Counted, Limited, G!GatewayQueueParams
<1>3. Places  BY DEF G!Init, Places, G!Steps, G!Actors
<1>4. Queued
      <2>1. items = <<>> /\ held = Nil /\ <<>> \in Seq(G!Pending \cup {Nil}) /\ Len(<<>>) = 0
            BY DEF G!Init
      <2>2. 0 + 0 <= QueueCap + 1  BY DEF G!GatewayQueueParams
      <2>3. Room(IF held = Nil THEN 0 ELSE 1)  BY <2>1, <2>2 DEF Room
      <2> QED  BY <2>1, <2>3 DEF G!Init, Queued
<1>5. Table /\ Quiet  BY DEF G!Init, Table, Quiet
<1> QED  BY <1>2, <1>3, <1>4, <1>5 DEF AdmissionInv

LEMMA AdmissionStep ==
    ASSUME G!GatewayQueueParams, AdmissionInv, [G!Next]_(G!vars)
    PROVE  AdmissionInv'
<1>0. Places /\ Queued /\ Table /\ Counted /\ Limited /\ Quiet  BY DEF AdmissionInv
<1>1. CASE UNCHANGED G!vars
      <2>1. UNCHANGED <<sent, conn, items, waiting, armed, watch, at, held, sessions, cleaning, counter, stop>>
            BY <1>1 DEF G!vars, G!queue, G!around, G!table
      <2>2. Places' /\ Queued' /\ Quiet'  BY <1>0, <2>1 DEF Places, Queued, Room, Quiet, G!Pending
      <2>3. Table' /\ Counted' /\ Limited'  BY <1>0, <2>1, TableAlone
      <2> QED  BY <2>2, <2>3 DEF AdmissionInv
<1>2. CASE \E a \in G!Actors : G!Creation(a)  BY <1>2, CreationKeeps
<1>3. CASE \E c \in Clients : G!Reader(c)  BY <1>3, ReaderKeeps
<1>4. CASE \E c \in Clients : G!Receive(c)  BY <1>4, ReceiveKeeps
<1>5. CASE \/ \E c \in Clients : G!Open(c) \/ G!ClientCloses(c)
           \/ G!RefreshPanics \/ G!StopGate \/ G!StopQueue \/ G!StopServers
      BY <1>5, ConnectionKeeps
<1>6. CASE \E c \in Clients : G!SessionEnds(c) \/ G!SessionUncounted(c)  BY <1>6, SessionsKeep
<1>7. CASE (\E p \in watch : G!WatcherRuns(p)) \/ (\E p \in armed : G!TimerFires(p))
      <2>1. watch \subseteq G!Pending /\ armed \subseteq G!Pending  BY <1>0 DEF Queued
      <2> QED  BY <1>7, <2>1, OutKeeps
<1>8. CASE G!LoopStep  BY <1>8, LoopKeeps
<1>9. CASE G!StopWaited  BY <1>9, WaitedKeeps
<1> QED  BY <1>1, <1>2, <1>3, <1>4, <1>5, <1>6, <1>7, <1>8, <1>9 DEF G!Next

LEMMA AdmissionMeans ==
    ASSUME G!GatewayQueueParams, AdmissionInv
    PROVE  G!GQTypeOK /\ G!SessionsWithinLimit /\ G!CountsExact /\ G!StopLeavesNothing
<1>0. /\ Places /\ Queued /\ Table /\ Counted /\ Limited /\ Quiet
      /\ MaxConns \in Nat /\ QueueCap \in Nat
      BY DEF AdmissionInv, G!GatewayQueueParams
<1>1. \A S : G!Cardinality(S) = Cardinality(S)  BY DEF G!Cardinality, Cardinality
<1>2. IsFiniteSet({"session"} \X sessions)
      /\ Cardinality({"session"} \X sessions) <= Cardinality(Claims) /\ IsFiniteSet(Claims)
      <2>1. IsFiniteSet(Claims)  BY <1>0, ClaimsAreTokens, FS_Subset DEF Counted
      <2>2. ({"session"} \X sessions) \in SUBSET Claims  BY DEF Claims
      <2> QED  BY <2>1, <2>2, FS_Subset
<1>3. IsFiniteSet(sessions) /\ Cardinality(sessions) = Cardinality({"session"} \X sessions)
      <2> DEFINE f == [t \in {"session"} \X sessions |-> t[2]]
      <2>1. f \in [{"session"} \X sessions -> sessions]  OBVIOUS
      <2>2. \A s, t \in {"session"} \X sessions : f[s] = f[t] => s = t  OBVIOUS
      <2>3. \A c \in sessions : f[<<"session", c>>] = c  OBVIOUS
      <2>4. \A c \in sessions : \E t \in {"session"} \X sessions : f[t] = c  BY <2>3
      <2> HIDE DEF f
      <2>5. f \in Bijection({"session"} \X sessions, sessions)
            BY <2>1, <2>2, <2>4 DEF Bijection, Injection, Surjection, IsInjective
      <2>6. ExistsBijection({"session"} \X sessions, sessions)  BY <2>5 DEF ExistsBijection
      <2> QED  BY <1>2, <2>6, FS_Bijection
<1>4. G!SessionsWithinLimit
      <2>1. Cardinality(sessions) \in Nat /\ Cardinality(Claims) \in Nat
            BY <1>2, <1>3, FS_CardinalityType
      <2>2. Cardinality(sessions) <= MaxConns  BY <1>0, <1>2, <1>3, <2>1 DEF Limited
      <2> QED  BY <1>1, <2>2 DEF G!SessionsWithinLimit
<1>5. G!CountsExact
      <2> SUFFICES ASSUME cleaning = {},
                          \A a \in G!Actors : at[a] \notin {"over", "dial", "insert", "count", "return", "fail"}
                   PROVE  counter = Cardinality(sessions)
          BY <1>1 DEF G!CountsExact
      <2>1. Tokens = {"session"} \X sessions  BY DEF Tokens
      <2> QED  BY <1>0, <1>3, <2>1 DEF Counted
<1>6. G!StopLeavesNothing  BY <1>0 DEF Quiet, G!StopLeavesNothing
<1>7. G!GQTypeOK
      <2>1. Len(items) <= QueueCap + 1
            <3>1. PICK h \in {0, 1} : h = IF held = Nil THEN 0 ELSE 1  OBVIOUS
            <3>2. Len(items) + h <= QueueCap + 1  BY <1>0, <3>1 DEF Queued, Room
            <3>3. Len(items) \in Nat  BY <1>0, LenProperties DEF Queued
            <3> QED  BY <1>0, <3>1, <3>2, <3>3
      <2>2. counter \in Nat  BY <1>0, FS_CardinalityType DEF Counted
      <2> QED  BY <1>0, <2>1, <2>2 DEF Places, Queued, Table, G!GQTypeOK
<1> QED  BY <1>4, <1>5, <1>6, <1>7

(* admit, createSession, cleanup, Stop, for any clients, limit and length  *)
(* of the queue: never more sessions than the limit, a counter that is     *)
(* exact when everybody rests, and nothing left when Stop has returned.    *)
THEOREM PlacesAreKept ==
    ASSUME G!GatewayQueueParams
    PROVE  G!Spec => [](G!SessionsWithinLimit /\ G!CountsExact /\ G!StopLeavesNothing)
<1>1. G!Init => AdmissionInv  BY AdmissionStart
<1>2. AdmissionInv /\ [G!Next]_(G!vars) => AdmissionInv'  BY AdmissionStep
<1>3. AdmissionInv => G!SessionsWithinLimit /\ G!CountsExact /\ G!StopLeavesNothing
      BY AdmissionMeans
<1> QED  BY <1>1, <1>2, <1>3, PTL DEF G!Spec

-----------------------------------------------------------------------------
(* The sessions of a gateway.                                              *)
(*                                                                         *)
(* A session leaves the table once, goes through one cleanup and becomes   *)
(* one pending disconnect at most (SessOnce).  In calm behaviours a        *)
(* connection stays in the table as long as a handler is about it, so the  *)
(* indexes list who is there or about to be taken out (SessIndexed); and   *)
(* of two sessions of an account one is closed or about to be kicked by    *)
(* the other's reply (SessSingle).                                         *)

CONSTANTS Sockets, Accounts, Roles, MaxLogins, MaxCommands
VARIABLES calm, open, sess, begun, bound, idx, pidx, ownerOf, extra, kicked, reply, targets,
          clean, uid, ctl, hard, announced, cancelled, gone, stuck, stuckBind, logins, commands
S == INSTANCE GatewaySession WITH Conns <- Sockets, Owners <- Accounts, Players <- Roles,
                                  made <- begun

Replies == [step : {"idle", "bind", "kick", "tell"}, owner : Accounts \cup {None}]
Orders == [step : {"idle", "kick", "rest", "bind"}, conn : Sockets \cup {None},
           player : Roles \cup {None}]
SessTable ==
    /\ open \subseteq Sockets /\ sess \subseteq Sockets /\ calm \in BOOLEAN
    /\ begun \in [Sockets -> Nat] /\ gone \in [Sockets -> Nat]
    /\ bound \in [Sockets -> Accounts \cup {None}] /\ extra \in [Sockets -> Roles \cup {None}]
    /\ ownerOf \in [Sockets -> Accounts \cup {None}]
SessIndexes ==
    /\ idx \in [Accounts -> Seq(Sockets \cup {None})] /\ pidx \in [Roles -> Seq(Sockets)]
SessHandlers ==
    /\ kicked \in [Sockets -> BOOLEAN] /\ targets \in [Sockets -> SUBSET Sockets]
    /\ announced \in [Sockets -> BOOLEAN] /\ cancelled \in [Sockets -> BOOLEAN]
    /\ reply \in [Sockets -> Replies]
    /\ clean \in [Sockets -> {"idle", "index", "extras", "tell"}]
    /\ uid \in [Sockets -> Accounts \cup {None}] /\ hard \in [Sockets -> Accounts \cup {None}]
    /\ ctl \in Orders /\ stuck \subseteq Accounts
    /\ \A c \in Sockets : reply[c].step # "idle" => reply[c].owner \in Accounts
    /\ ctl.step # "idle" => ctl.conn \in Sockets
    /\ ctl.step = "bind" => ctl.player \in Roles
SessTypes == SessTable /\ SessIndexes /\ SessHandlers

(* The ends a connection was told of, and the one on its way, are no more  *)
(* than its sessions.                                                      *)
One(b) == IF b THEN 1 ELSE 0
Ends(c) == gone[c] + One(hard[c] # None) + One(clean[c] # "idle") + One(c \in sess)
SessOnce == \A c \in Sockets : Ends(c) <= begun[c] /\ (c \in sess => clean[c] = "idle")

(* Where a connection is when none ends in the middle of a handler about   *)
(* it: its account is the one it is cleaned up for and answered for.       *)
Involved(c) == reply[c].step # "idle" \/ ctl.conn = c
Untouched(c) == bound[c] = None /\ ownerOf[c] = None /\ extra[c] = None /\ clean[c] = "idle"
InIndex(c) == c \in sess \/ clean[c] = "index"
SessCalm ==
    \A c \in Sockets :
        /\ Involved(c) => c \in sess /\ c \in open
        /\ begun[c] <= 1 /\ (c \in open /\ c \notin sess => begun[c] = 0)
        /\ begun[c] = 0 => Untouched(c) /\ c \notin sess
        /\ c \in sess => ownerOf[c] = bound[c]
        /\ clean[c] # "idle" => c \notin open /\ uid[c] = bound[c]
        /\ extra[c] # None => c \in sess \/ clean[c] \in {"index", "extras"}
        /\ reply[c].step = "bind" => bound[c] \in {None, reply[c].owner}
        /\ reply[c].step \in {"kick", "tell"} => bound[c] = reply[c].owner
        /\ announced[c] => bound[c] # None
        /\ ctl.step \in {"idle", "bind"}

(* The indexes are exact all the time, if the sessions that cleanup has    *)
(* still to take out count as listed.                                      *)
Lists(s, set) == S!ToSet(s) = set /\ S!IsInjective(s)
InAccount(o) == {c \in Sockets : bound[c] = o /\ InIndex(c)}
SessIndexed ==
    /\ \A o \in Accounts : Lists(idx[o], InAccount(o))
    /\ \A p \in Roles : Lists(pidx[p], {c \in Sockets : extra[c] = p})

(* No end is forgotten once cleanup is through.                            *)
Told(c) == kicked[c] \/ gone[c] = 1 \/ hard[c] # None \/ cancelled[c]
SessTold ==
    \A c \in Sockets : announced[c] /\ c \notin sess /\ clean[c] = "idle" => Told(c)

(* Of two that contend for an account one is closed or about to be kicked. *)
Doomed(c) == c \notin open \/ \E d \in Sockets : c \in targets[d]
SessSingle ==
    /\ \A c \in Sockets : reply[c].step # "kick" => targets[c] = {}
    /\ \A o \in Accounts : \A x, y, z \in S!Contenders(o) : x = y \/ y = z \/ x = z
    /\ \A o \in Accounts : \A x, y \in InAccount(o) : x = y \/ Doomed(x) \/ Doomed(y)

SessInv ==
    SessTypes /\ SessOnce /\ (calm => SessCalm /\ SessIndexed /\ SessTold /\ SessSingle)

-----------------------------------------------------------------------------
(* What the operations do to a list. *)

LEMMA SmallestOne ==
    ASSUME NEW T \in SUBSET Nat, T # {}
    PROVE  S!Min(T) \in T
<1> DEFINE Less == OpToRel(<, Nat)
<1>1. IsWellFoundedOn(Less, Nat)  BY NatLessThanWellFounded
<1>2. Less = {ss \in Nat \X Nat : ss[1] < ss[2]}  BY DEF OpToRel
<1> HIDE DEF Less
<1>3. PICK x \in T : \A y \in T : ~ (<<y, x>> \in Less)  BY <1>1, WFMin
<1>4. ASSUME NEW y \in T PROVE x =< y
      <2>1. <<y, x>> \notin Less  BY <1>3
      <2>2. <<y, x>> \in Nat \X Nat  OBVIOUS
      <2>3. ~(y < x)  BY <2>1, <2>2, <1>2
      <2> QED  BY <2>3
<1> QED  BY <1>4 DEF S!Min

LEMMA RemovedAt ==
    ASSUME NEW T, NEW s \in Seq(T), NEW k \in 1 .. Len(s)
    PROVE  /\ S!RemoveAt(s, k) \in Seq(T) /\ Len(S!RemoveAt(s, k)) = Len(s) - 1
           /\ \A i \in 1 .. Len(s) - 1 : S!RemoveAt(s, k)[i] = IF i < k THEN s[i] ELSE s[i + 1]
<1>1. Len(s) \in Nat /\ DOMAIN s = 1 .. Len(s)  BY LenProperties
<1>2. \A i \in 1 .. Len(s) : s[i] \in T  BY <1>1, ElementOfSeq
<1>3. k \in Nat /\ k >= 1 /\ k <= Len(s)  BY <1>1
<1> DEFINE before == SubSeq(s, 1, k - 1)
           after == SubSeq(s, k + 1, Len(s))
<1>4. /\ before \in Seq(T) /\ Len(before) = (IF 1 <= k - 1 THEN k - 1 - 1 + 1 ELSE 0)
      /\ \A i \in 1 .. k - 1 - 1 + 1 : before[i] = s[1 + i - 1]
      <2>1. \A i \in 1 .. k - 1 : s[i] \in T  BY <1>1, <1>2, <1>3
      <2>2. k - 1 \in Int /\ 1 \in Int  BY <1>3
      <2> QED  BY <2>1, <2>2, SubSeqProperties
<1>5. /\ after \in Seq(T) /\ Len(after) = (IF k + 1 <= Len(s) THEN Len(s) - (k + 1) + 1 ELSE 0)
      /\ \A i \in 1 .. Len(s) - (k + 1) + 1 : after[i] = s[k + 1 + i - 1]
      <2>1. \A i \in k + 1 .. Len(s) : s[i] \in T  BY <1>1, <1>2, <1>3
      <2>2. k + 1 \in Int /\ Len(s) \in Int  BY <1>1, <1>3
      <2> QED  BY <2>1, <2>2, SubSeqProperties
<1>6. S!RemoveAt(s, k) = before \o after  BY DEF S!RemoveAt
<1> HIDE DEF before, after
<1>7. Len(before) = k - 1 /\ Len(after) = Len(s) - k
      <2>1. Len(before) = IF 1 <= k - 1 THEN k - 1 - 1 + 1 ELSE 0  BY <1>4
      <2>2. Len(after) = IF k + 1 <= Len(s) THEN Len(s) - (k + 1) + 1 ELSE 0  BY <1>5
      <2>3. k \in Int /\ Len(s) \in Int  BY <1>1, <1>3
      <2>4. Len(before) = k - 1  BY <1>3, <2>1, <2>3
      <2>5. Len(after) = Len(s) - k  BY <1>3, <2>2, <2>3
      <2> QED  BY <2>4, <2>5
<1>8. /\ S!RemoveAt(s, k) \in Seq(T) /\ Len(S!RemoveAt(s, k)) = Len(before) + Len(after)
      /\ \A i \in 1 .. Len(before) + Len(after) :
             (before \o after)[i] = IF i <= Len(before) THEN before[i] ELSE after[i - Len(before)]
      BY <1>4, <1>5, <1>6, ConcatProperties
<1>9. ASSUME NEW i \in 1 .. Len(s) - 1
      PROVE  S!RemoveAt(s, k)[i] = IF i < k THEN s[i] ELSE s[i + 1]
      <2>1. i \in 1 .. Len(before) + Len(after)  BY <1>1, <1>3, <1>7
      <2>2. CASE i < k
            <3>1. i <= Len(before) /\ i \in 1 .. k - 1 - 1 + 1 /\ 1 + i - 1 = i
                  BY <1>3, <1>7, <2>2
            <3> QED  BY <1>4, <1>6, <1>8, <2>1, <2>2, <3>1
      <2>3. CASE ~(i < k)
            <3>1. /\ ~(i <= Len(before)) /\ i - Len(before) \in 1 .. Len(s) - (k + 1) + 1
                  /\ k + 1 + (i - Len(before)) - 1 = i + 1
                  BY <1>1, <1>3, <1>7, <2>3
            <3> QED  BY <1>5, <1>6, <1>8, <2>1, <2>3, <3>1
      <2> QED  BY <2>2, <2>3
<1> QED  BY <1>1, <1>3, <1>7, <1>8, <1>9

LEMMA WithoutIs ==
    ASSUME NEW T, NEW s \in Seq(T), NEW c
    PROVE  \/ S!Without(s, c) = s /\ c \notin S!ToSet(s)
           \/ \E k \in 1 .. Len(s) : s[k] = c /\ S!Without(s, c) = S!RemoveAt(s, k)
<1> DEFINE I == {i \in 1 .. Len(s) : s[i] = c}
<1>1. Len(s) \in Nat /\ DOMAIN s = 1 .. Len(s)  BY LenProperties
<1>2. CASE I = {}
      <2>1. ~ \E i \in 1 .. Len(s) : s[i] = c  BY <1>2
      <2> QED  BY <1>1, <2>1 DEF S!Without, S!RemoveFirst, S!ToSet
<1>3. CASE I # {}
      <2>1. I \in SUBSET Nat  BY <1>1
      <2>2. S!Min(I) \in I  BY <1>3, <2>1, SmallestOne
      <2>3. S!SelectInSeq(s, LAMBDA v : v = c) = S!Min(I)  BY <1>3 DEF S!SelectInSeq
      <2>4. \E i \in 1 .. Len(s) : s[i] = c  BY <1>3
      <2>5. S!Without(s, c) = S!RemoveAt(s, S!Min(I))
            BY <2>3, <2>4 DEF S!Without, S!RemoveFirst
      <2> QED  BY <2>2, <2>5
<1> QED  BY <1>2, <1>3

LEMMA WithoutKeepsType ==
    ASSUME NEW T, NEW s \in Seq(T), NEW c
    PROVE  S!Without(s, c) \in Seq(T)
    BY WithoutIs, RemovedAt

LEMMA WithoutLists ==
    ASSUME NEW T, NEW s \in Seq(T), NEW c, NEW U, Lists(s, U)
    PROVE  Lists(S!Without(s, c), U \ {c})
<1>1. Len(s) \in Nat /\ DOMAIN s = 1 .. Len(s)  BY LenProperties
<1>2. CASE S!Without(s, c) = s /\ c \notin S!ToSet(s)  BY <1>2 DEF Lists
<1>3. ASSUME NEW k \in 1 .. Len(s), s[k] = c, S!Without(s, c) = S!RemoveAt(s, k)
      PROVE  Lists(S!Without(s, c), U \ {c})
      <2>1. PICK r : r = S!RemoveAt(s, k)  OBVIOUS
      <2>2. /\ r \in Seq(T) /\ Len(r) = Len(s) - 1
            /\ \A i \in 1 .. Len(s) - 1 : r[i] = IF i < k THEN s[i] ELSE s[i + 1]
            BY <2>1, RemovedAt
      <2>3. DOMAIN r = 1 .. Len(s) - 1  BY <2>2, LenProperties
      <2>4. \A i, j \in 1 .. Len(s) : s[i] = s[j] => i = j
            BY <1>1 DEF Lists, S!IsInjective
      <2>5. U = {s[i] : i \in 1 .. Len(s)}  BY <1>1 DEF Lists, S!ToSet
      <2>6. k \in Nat /\ k >= 1 /\ k <= Len(s)  BY <1>1
      <2>7. S!ToSet(r) \subseteq U \ {c}
            <3> SUFFICES ASSUME NEW i \in 1 .. Len(s) - 1 PROVE r[i] \in U \ {c}
                BY <2>3 DEF S!ToSet
            <3>1. CASE i < k
                  <4>1. i \in 1 .. Len(s) /\ r[i] = s[i] /\ i # k  BY <1>1, <2>2, <2>6, <3>1
                  <4> QED  BY <1>3, <2>4, <2>5, <4>1
            <3>2. CASE ~(i < k)
                  <4>1. i + 1 \in 1 .. Len(s) /\ r[i] = s[i + 1] /\ i + 1 # k
                        BY <1>1, <2>2, <2>6, <3>2
                  <4> QED  BY <1>3, <2>4, <2>5, <4>1
            <3> QED  BY <3>1, <3>2
      <2>8. U \ {c} \subseteq S!ToSet(r)
            <3> SUFFICES ASSUME NEW i \in 1 .. Len(s), s[i] # c PROVE s[i] \in S!ToSet(r)
                BY <2>5
            <3>1. CASE i < k
                  <4>1. i \in 1 .. Len(s) - 1 /\ r[i] = s[i]  BY <1>1, <2>2, <2>6, <3>1
                  <4> QED  BY <2>3, <4>1 DEF S!ToSet
            <3>2. CASE ~(i < k)
                  <4>0. i # k  BY <1>3
                  <4>1. i - 1 \in 1 .. Len(s) - 1 /\ ~(i - 1 < k) /\ (i - 1) + 1 = i
                        BY <1>1, <2>6, <3>2, <4>0
                  <4>2. r[i - 1] = s[i]  BY <2>2, <4>1
                  <4> QED  BY <2>3, <4>1, <4>2 DEF S!ToSet
            <3> QED  BY <3>1, <3>2
      <2>9. ASSUME NEW i \in 1 .. Len(s) - 1, NEW j \in 1 .. Len(s) - 1, r[i] = r[j]
            PROVE  i = j
            <3> DEFINE from(n) == IF n < k THEN n ELSE n + 1
            <3>1. from(i) \in 1 .. Len(s) /\ from(j) \in 1 .. Len(s)  BY <1>1, <2>6
            <3>2. r[i] = s[from(i)] /\ r[j] = s[from(j)]  BY <2>2
            <3>3. from(i) = from(j)  BY <2>4, <2>9, <3>1, <3>2
            <3> QED  BY <1>1, <2>6, <3>3
      <2>10. S!IsInjective(r)  BY <2>3, <2>9 DEF S!IsInjective
      <2> QED  BY <1>3, <2>1, <2>7, <2>8, <2>10 DEF Lists
<1> QED  BY <1>2, <1>3, WithoutIs

LEMMA AppendLists ==
    ASSUME NEW T, NEW s \in Seq(T), NEW c \in T, NEW U, Lists(s, U), c \notin U
    PROVE  Lists(Append(s, c), U \cup {c})
<1>1. Len(s) \in Nat /\ DOMAIN s = 1 .. Len(s)  BY LenProperties
<1>2. PICK r : r = Append(s, c)  OBVIOUS
<1>3. /\ r \in Seq(T) /\ Len(r) = Len(s) + 1
      /\ \A i \in 1 .. Len(s) : r[i] = s[i]
      /\ r[Len(s) + 1] = c
      BY <1>2, AppendProperties
<1>4. DOMAIN r = 1 .. Len(s) + 1  BY <1>3, LenProperties
<1>5. U = {s[i] : i \in 1 .. Len(s)}  BY <1>1 DEF Lists, S!ToSet
<1>6. \A i, j \in 1 .. Len(s) : s[i] = s[j] => i = j  BY <1>1 DEF Lists, S!IsInjective
<1>7. \A i \in 1 .. Len(s) + 1 : i \in 1 .. Len(s) \/ i = Len(s) + 1  BY <1>1
<1>8. \A i \in 1 .. Len(s) : i \in 1 .. Len(s) + 1  BY <1>1
<1>9. Len(s) + 1 \in 1 .. Len(s) + 1  BY <1>1
<1>10. S!ToSet(r) \subseteq U \cup {c}  BY <1>3, <1>4, <1>5, <1>7 DEF S!ToSet
<1>11. U \cup {c} \subseteq S!ToSet(r)
       <2>1. \A i \in 1 .. Len(s) : s[i] \in S!ToSet(r)  BY <1>3, <1>4, <1>8 DEF S!ToSet
       <2>2. c \in S!ToSet(r)  BY <1>3, <1>4, <1>9 DEF S!ToSet
       <2> QED  BY <1>5, <2>1, <2>2
<1>12. \A i \in 1 .. Len(s) : s[i] # c  BY <1>5
<1>13. \A i, j \in DOMAIN r : r[i] = r[j] => i = j
       BY <1>3, <1>4, <1>6, <1>7, <1>12
<1> QED  BY <1>2, <1>10, <1>11, <1>13 DEF Lists, S!IsInjective

LEMMA CutKeepsType ==
    ASSUME NEW T, NEW s \in Seq(T), NEW c, None \in T
    PROVE  S!Cut(s, c) \in Seq(T)
<1>1. PICK r : r = S!Without(s, c)  OBVIOUS
<1>2. r \in Seq(T)  BY <1>1, WithoutKeepsType
<1>3. r \in [1 .. Len(r) -> T] /\ Len(r) \in Nat  BY <1>2, LenProperties, ElementOfSeq
<1>4. S!Cut(s, c) = [r EXCEPT ![Len(r)] = None]  BY <1>1 DEF S!Cut
<1>5. S!Cut(s, c) \in [1 .. Len(r) -> T]  BY <1>3, <1>4
<1> QED  BY <1>3, <1>5, IsASeq

LEMMA SessIndexesKept ==
    ASSUME S!GatewaySessionParams, SessTypes, S!Next
    PROVE  SessIndexes'
<1>1. ASSUME NEW c \in Sockets, S!Create(c) PROVE SessIndexes'
      BY <1>1 DEF S!Create, S!index, S!events, S!panics, SessTypes, SessTable, SessIndexes,
         SessHandlers, Replies, Orders
<1>2. ASSUME NEW c \in Sockets, S!ClientCloses(c) PROVE SessIndexes'
      BY <1>2 DEF S!ClientCloses, S!index, S!events, S!panics, SessTypes, SessTable,
         SessIndexes, SessHandlers, Replies, Orders
<1>3. ASSUME NEW c \in Sockets, S!CleanBegin(c) PROVE SessIndexes'
      BY <1>3 DEF S!CleanBegin, S!index, S!events, S!panics, SessTypes, SessTable, SessIndexes,
         SessHandlers, Replies, Orders
<1>4. ASSUME NEW c \in Sockets, S!CleanIndex(c) PROVE SessIndexes'
      <2>1. ASSUME uid[c] # None PROVE S!Without(idx[uid[c]], c) \in Seq(Sockets \cup {None})
            BY <2>1, WithoutKeepsType DEF SessTypes, SessIndexes, SessHandlers
      <2> QED  BY <1>4, <2>1 DEF S!CleanIndex, SessTypes, SessIndexes
<1>5. ASSUME NEW c \in Sockets, S!CleanExtras(c) PROVE SessIndexes'
      <2>1. ASSUME extra[c] # None PROVE S!Without(pidx[extra[c]], c) \in Seq(Sockets)
            BY <2>1, WithoutKeepsType DEF SessTypes, SessIndexes, SessTable
      <2> QED  BY <1>5, <2>1 DEF S!CleanExtras, SessTypes, SessIndexes
<1>6. ASSUME NEW c \in Sockets, S!CleanTell(c) PROVE SessIndexes'
      BY <1>6 DEF S!CleanTell, S!index, S!events, S!panics, SessTypes, SessTable, SessIndexes,
         SessHandlers, Replies, Orders
<1>7. ASSUME NEW c \in Sockets, S!HardFires(c) PROVE SessIndexes'
      BY <1>7 DEF S!HardFires, S!index, S!events, S!panics, SessTypes, SessTable, SessIndexes,
         SessHandlers, Replies, Orders
<1>8. ASSUME NEW c \in Sockets, NEW o \in Accounts, S!ReplyLookup(c, o) PROVE SessIndexes'
      BY <1>8 DEF S!ReplyLookup, S!index, S!events, S!panics, SessTypes, SessTable, SessIndexes,
         SessHandlers, Replies, Orders
<1>9. ASSUME NEW c \in Sockets, S!ReplyKnown(c) PROVE SessIndexes'
      BY <1>9 DEF S!ReplyKnown, S!index, S!events, S!panics, SessTypes, SessTable, SessIndexes,
         SessHandlers, Replies, Orders
<1>10. ASSUME NEW c \in Sockets, S!ReplyPanics(c) PROVE SessIndexes'
      BY <1>10 DEF S!ReplyPanics, S!index, S!events, S!panics, SessTypes, SessTable,
         SessIndexes, SessHandlers, Replies, Orders
<1>11. ASSUME NEW c \in Sockets, S!ReplyBind(c) PROVE SessIndexes'
      <2>1. \A p \in Accounts : /\ Append(idx[p], c) \in Seq(Sockets \cup {None})
                                /\ S!Cut(idx[p], c) \in Seq(Sockets \cup {None})
            BY CutKeepsType, AppendProperties DEF SessTypes, SessIndexes
      <2> QED  BY <1>11, <2>1 DEF S!ReplyBind, SessTypes, SessIndexes
<1>12. ASSUME NEW c \in Sockets, S!ReplyKick(c) PROVE SessIndexes'
      BY <1>12 DEF S!ReplyKick, S!Kicked, S!index, S!events, S!panics, SessTypes, SessTable,
         SessIndexes, SessHandlers, Replies, Orders
<1>13. ASSUME NEW c \in Sockets, S!ReplyTell(c) PROVE SessIndexes'
      BY <1>13 DEF S!ReplyTell, S!index, S!events, S!panics, SessTypes, SessTable, SessIndexes,
         SessHandlers, Replies, Orders
<1>14. ASSUME NEW c \in Sockets, S!KickBegin(c) PROVE SessIndexes'
      BY <1>14 DEF S!KickBegin, S!Command, S!index, S!events, S!panics, SessTypes, SessTable,
         SessIndexes, SessHandlers, Replies, Orders
<1>15. ASSUME NEW c \in Sockets, NEW p \in Roles, S!BindPlayer(c, p) PROVE SessIndexes'
      BY <1>15 DEF S!BindPlayer, S!Command, S!Kicked, S!index, S!events, S!panics, SessTypes,
         SessTable, SessIndexes, SessHandlers, Replies, Orders
<1>16. ASSUME S!KickIndex PROVE SessIndexes'
      <2>1. \A p \in Accounts : S!Cut(idx[p], ctl.conn) \in Seq(Sockets \cup {None})
            BY CutKeepsType DEF SessTypes, SessIndexes
      <2> QED  BY <1>16, <2>1 DEF S!KickIndex, SessTypes, SessIndexes
<1>17. ASSUME S!KickPanics PROVE SessIndexes'
      BY <1>17 DEF S!KickPanics, S!Done, S!Idle, S!index, S!events, S!panics, SessTypes,
         SessTable, SessIndexes, SessHandlers, Replies, Orders
<1>18. ASSUME S!KickRest PROVE SessIndexes'
      <2>1. \A p \in Roles : S!Without(pidx[p], ctl.conn) \in Seq(Sockets)
            BY WithoutKeepsType DEF SessTypes, SessIndexes
      <2> QED  BY <1>18, <2>1 DEF S!KickRest, SessTypes, SessIndexes
<1>19. ASSUME S!AddExtra PROVE SessIndexes'
      <2>1. \A p \in Roles : /\ S!Without(pidx[p], ctl.conn) \in Seq(Sockets)
                              /\ pidx[p] \in Seq(Sockets)
            BY WithoutKeepsType DEF SessTypes, SessIndexes
      <2>2. ctl.conn \in Sockets  BY <1>19 DEF S!AddExtra, SessTypes, SessHandlers
      <2>3. \A p \in Roles : /\ Append(S!Without(pidx[p], ctl.conn), ctl.conn) \in Seq(Sockets)
                              /\ Append(pidx[p], ctl.conn) \in Seq(Sockets)
            BY <2>1, <2>2, AppendProperties
      <2> QED  BY <1>19, <2>1, <2>3 DEF S!AddExtra, SessTypes, SessIndexes
<1> QED  BY <1>1, <1>2, <1>3, <1>4, <1>5, <1>6, <1>7, <1>8, <1>9, <1>10, <1>11, <1>12, <1>13,
            <1>14, <1>15, <1>16, <1>17, <1>18, <1>19 DEF S!Next

LEMMA SessTableKept ==
    ASSUME S!GatewaySessionParams, SessTypes, S!Next
    PROVE  SessTable'
<1>1. ASSUME NEW c \in Sockets, S!Create(c) PROVE SessTable'
      BY <1>1 DEF S!Create, S!index, S!events, S!panics, SessTypes, SessTable, SessHandlers,
         Replies, Orders
<1>2. ASSUME NEW c \in Sockets, S!ClientCloses(c) PROVE SessTable'
      BY <1>2 DEF S!ClientCloses, S!index, S!events, S!panics, SessTypes, SessTable,
         SessHandlers, Replies, Orders
<1>3. ASSUME NEW c \in Sockets, S!CleanBegin(c) PROVE SessTable'
      BY <1>3 DEF S!CleanBegin, S!index, S!events, S!panics, SessTypes, SessTable, SessHandlers,
         Replies, Orders
<1>4. ASSUME NEW c \in Sockets, S!CleanIndex(c) PROVE SessTable'
      BY <1>4 DEF S!CleanIndex, S!index, S!events, S!panics, SessTypes, SessTable, SessHandlers,
         Replies, Orders
<1>5. ASSUME NEW c \in Sockets, S!CleanExtras(c) PROVE SessTable'
      BY <1>5 DEF S!CleanExtras, S!index, S!events, S!panics, SessTypes, SessTable,
         SessHandlers, Replies, Orders
<1>6. ASSUME NEW c \in Sockets, S!CleanTell(c) PROVE SessTable'
      BY <1>6 DEF S!CleanTell, S!index, S!events, S!panics, SessTypes, SessTable, SessHandlers,
         Replies, Orders
<1>7. ASSUME NEW c \in Sockets, S!HardFires(c) PROVE SessTable'
      BY <1>7 DEF S!HardFires, S!index, S!events, S!panics, SessTypes, SessTable, SessHandlers,
         Replies, Orders
<1>8. ASSUME NEW c \in Sockets, NEW o \in Accounts, S!ReplyLookup(c, o) PROVE SessTable'
      BY <1>8 DEF S!ReplyLookup, S!index, S!events, S!panics, SessTypes, SessTable,
         SessHandlers, Replies, Orders
<1>9. ASSUME NEW c \in Sockets, S!ReplyKnown(c) PROVE SessTable'
      BY <1>9 DEF S!ReplyKnown, S!index, S!events, S!panics, SessTypes, SessTable, SessHandlers,
         Replies, Orders
<1>10. ASSUME NEW c \in Sockets, S!ReplyPanics(c) PROVE SessTable'
      BY <1>10 DEF S!ReplyPanics, S!index, S!events, S!panics, SessTypes, SessTable,
         SessHandlers, Replies, Orders
<1>11. ASSUME NEW c \in Sockets, S!ReplyBind(c) PROVE SessTable'
      BY <1>11 DEF S!ReplyBind, S!index, S!events, S!panics, SessTypes, SessTable, SessHandlers,
         Replies, Orders
<1>12. ASSUME NEW c \in Sockets, S!ReplyKick(c) PROVE SessTable'
      BY <1>12 DEF S!ReplyKick, S!Kicked, S!index, S!events, S!panics, SessTypes, SessTable,
         SessHandlers, Replies, Orders
<1>13. ASSUME NEW c \in Sockets, S!ReplyTell(c) PROVE SessTable'
      BY <1>13 DEF S!ReplyTell, S!index, S!events, S!panics, SessTypes, SessTable, SessHandlers,
         Replies, Orders
<1>14. ASSUME NEW c \in Sockets, S!KickBegin(c) PROVE SessTable'
      BY <1>14 DEF S!KickBegin, S!Command, S!index, S!events, S!panics, SessTypes, SessTable,
         SessHandlers, Replies, Orders
<1>15. ASSUME NEW c \in Sockets, NEW p \in Roles, S!BindPlayer(c, p) PROVE SessTable'
      BY <1>15 DEF S!BindPlayer, S!Command, S!Kicked, S!index, S!events, S!panics, SessTypes,
         SessTable, SessHandlers, Replies, Orders
<1>16. ASSUME S!KickIndex PROVE SessTable'
      BY <1>16 DEF S!KickIndex, S!index, S!events, S!panics, SessTypes, SessTable, SessHandlers,
         Replies, Orders
<1>17. ASSUME S!KickPanics PROVE SessTable'
      BY <1>17 DEF S!KickPanics, S!Done, S!Idle, S!index, S!events, S!panics, SessTypes,
         SessTable, SessHandlers, Replies, Orders
<1>18. ASSUME S!KickRest PROVE SessTable'
      BY <1>18 DEF S!KickRest, S!Done, S!Idle, S!Kicked, S!index, S!events, S!panics, SessTypes,
         SessTable, SessHandlers, Replies, Orders
<1>19. ASSUME S!AddExtra PROVE SessTable'
      BY <1>19 DEF S!AddExtra, S!Done, S!Idle, S!index, S!events, S!panics, SessTypes,
         SessTable, SessHandlers, Replies, Orders
<1> QED  BY <1>1, <1>2, <1>3, <1>4, <1>5, <1>6, <1>7, <1>8, <1>9, <1>10, <1>11, <1>12, <1>13,
            <1>14, <1>15, <1>16, <1>17, <1>18, <1>19 DEF S!Next

LEMMA ReplyRests ==
    ASSUME SessTypes, NEW c \in Sockets, reply' = [reply EXCEPT ![c].step = "idle"]
    PROVE  /\ reply' \in [Sockets -> Replies]
           /\ \A d \in Sockets : reply'[d].step # "idle" => reply'[d].owner \in Accounts
    BY DEF SessTypes, SessHandlers, Replies

LEMMA SessHandlersKept ==
    ASSUME S!GatewaySessionParams, SessTypes, S!Next
    PROVE  SessHandlers'
<1>1. ASSUME NEW c \in Sockets, S!Create(c) PROVE SessHandlers'
      BY <1>1 DEF S!Create, S!index, S!events, S!panics, SessTypes, SessTable, SessHandlers,
         Replies, Orders
<1>2. ASSUME NEW c \in Sockets, S!ClientCloses(c) PROVE SessHandlers'
      BY <1>2 DEF S!ClientCloses, S!index, S!events, S!panics, SessTypes, SessTable,
         SessHandlers, Replies, Orders
<1>3. ASSUME NEW c \in Sockets, S!CleanBegin(c) PROVE SessHandlers'
      BY <1>3 DEF S!CleanBegin, S!index, S!events, S!panics, SessTypes, SessTable, SessHandlers,
         Replies, Orders
<1>4. ASSUME NEW c \in Sockets, S!CleanIndex(c) PROVE SessHandlers'
      BY <1>4 DEF S!CleanIndex, S!index, S!events, S!panics, SessTypes, SessTable, SessHandlers,
         Replies, Orders
<1>5. ASSUME NEW c \in Sockets, S!CleanExtras(c) PROVE SessHandlers'
      BY <1>5 DEF S!CleanExtras, S!index, S!events, S!panics, SessTypes, SessTable,
         SessHandlers, Replies, Orders
<1>6. ASSUME NEW c \in Sockets, S!CleanTell(c) PROVE SessHandlers'
      BY <1>6 DEF S!CleanTell, S!index, S!events, S!panics, SessTypes, SessTable, SessHandlers,
         Replies, Orders
<1>7. ASSUME NEW c \in Sockets, S!HardFires(c) PROVE SessHandlers'
      BY <1>7 DEF S!HardFires, S!index, S!events, S!panics, SessTypes, SessTable, SessHandlers,
         Replies, Orders
<1>8. ASSUME NEW c \in Sockets, NEW o \in Accounts, S!ReplyLookup(c, o) PROVE SessHandlers'
      BY <1>8 DEF S!ReplyLookup, S!index, S!events, S!panics, SessTypes, SessTable,
         SessHandlers, Replies, Orders
<1>9. ASSUME NEW c \in Sockets, S!ReplyKnown(c) PROVE SessHandlers'
      BY <1>9 DEF S!ReplyKnown, S!index, S!events, S!panics, SessTypes, SessTable, SessHandlers,
         Replies, Orders
<1>10. ASSUME NEW c \in Sockets, S!ReplyPanics(c) PROVE SessHandlers'
      <2>1. reply' = [reply EXCEPT ![c].step = "idle"] /\ bound[c] # None
            BY <1>10 DEF S!ReplyPanics
      <2>2. stuck' = stuck \cup {bound[c]}  BY <1>10 DEF S!ReplyPanics
      <2>3. stuck' \subseteq Accounts  BY <2>1, <2>2 DEF SessTypes, SessTable, SessHandlers
      <2>4. S!index' = S!index /\ S!events' = S!events  BY <1>10 DEF S!ReplyPanics
      <2> QED  BY <1>10, <2>1, <2>3, <2>4, ReplyRests
               DEF S!ReplyPanics, S!index, S!events, SessTypes, SessTable, SessHandlers
<1>11. ASSUME NEW c \in Sockets, S!ReplyBind(c) PROVE SessHandlers'
      <2>1. S!Oldest(reply[c].owner, c) \subseteq Sockets
            <3>1. idx[reply[c].owner] \in Seq(Sockets \cup {None})
                  BY <1>11 DEF S!ReplyBind, SessTypes, SessIndexes, SessHandlers
            <3>2. \A i \in DOMAIN idx[reply[c].owner] :
                     idx[reply[c].owner][i] \in Sockets \cup {None}
                  BY <3>1, LenProperties, ElementOfSeq
            <3> QED  BY <3>2 DEF S!Oldest
      <2> QED  BY <1>11, <2>1 DEF S!ReplyBind, S!events, S!panics, SessTypes, SessHandlers, Replies
<1>12. ASSUME NEW c \in Sockets, S!ReplyKick(c) PROVE SessHandlers'
      BY <1>12 DEF S!ReplyKick, S!Kicked, S!index, S!events, S!panics, SessTypes, SessTable,
         SessHandlers, Replies, Orders
<1>13. ASSUME NEW c \in Sockets, S!ReplyTell(c) PROVE SessHandlers'
      <2>1. reply' = [reply EXCEPT ![c].step = "idle"]  BY <1>13 DEF S!ReplyTell
      <2>2. hard' \in [Sockets -> Accounts \cup {None}] /\ cancelled' \in [Sockets -> BOOLEAN]
            /\ announced' \in [Sockets -> BOOLEAN]
            BY <1>13 DEF S!ReplyTell, SessTypes, SessHandlers
      <2> QED  BY <1>13, <2>1, <2>2, ReplyRests
               DEF S!ReplyTell, S!index, S!panics, SessTypes, SessHandlers
<1>14. ASSUME NEW c \in Sockets, S!KickBegin(c) PROVE SessHandlers'
      BY <1>14 DEF S!KickBegin, S!Command, S!index, S!events, S!panics, SessTypes, SessTable,
         SessHandlers, Replies, Orders
<1>15. ASSUME NEW c \in Sockets, NEW p \in Roles, S!BindPlayer(c, p) PROVE SessHandlers'
      BY <1>15 DEF S!BindPlayer, S!Command, S!Kicked, S!index, S!events, S!panics, SessTypes,
         SessTable, SessHandlers, Replies, Orders
<1>16. ASSUME S!KickIndex PROVE SessHandlers'
      BY <1>16 DEF S!KickIndex, S!index, S!events, S!panics, SessTypes, SessTable, SessHandlers,
         Replies, Orders
<1>17. ASSUME S!KickPanics PROVE SessHandlers'
      BY <1>17 DEF S!KickPanics, S!Done, S!Idle, S!index, S!events, S!panics, SessTypes,
         SessTable, SessHandlers, Replies, Orders
<1>18. ASSUME S!KickRest PROVE SessHandlers'
      BY <1>18 DEF S!KickRest, S!Done, S!Idle, S!Kicked, S!index, S!events, S!panics, SessTypes,
         SessTable, SessHandlers, Replies, Orders
<1>19. ASSUME S!AddExtra PROVE SessHandlers'
      BY <1>19 DEF S!AddExtra, S!Done, S!Idle, S!index, S!events, S!panics, SessTypes,
         SessTable, SessHandlers, Replies, Orders
<1> QED  BY <1>1, <1>2, <1>3, <1>4, <1>5, <1>6, <1>7, <1>8, <1>9, <1>10, <1>11, <1>12, <1>13,
            <1>14, <1>15, <1>16, <1>17, <1>18, <1>19 DEF S!Next

LEMMA SessOnceKept ==
    ASSUME S!GatewaySessionParams, SessTypes, SessOnce, S!Next
    PROVE  SessOnce'
<1>1. ASSUME NEW c \in Sockets, S!Create(c) PROVE SessOnce'
      BY <1>1 DEF S!Create, S!index, S!events, S!panics, SessTypes, SessTable, SessHandlers,
         Replies, Orders, SessOnce, Ends, One
<1>2. ASSUME NEW c \in Sockets, S!ClientCloses(c) PROVE SessOnce'
      BY <1>2 DEF S!ClientCloses, S!index, S!events, S!panics, SessTypes, SessTable,
         SessHandlers, Replies, Orders, SessOnce, Ends, One
<1>3. ASSUME NEW c \in Sockets, S!CleanBegin(c) PROVE SessOnce'
      BY <1>3 DEF S!CleanBegin, S!index, S!events, S!panics, SessTypes, SessTable, SessHandlers,
         Replies, Orders, SessOnce, Ends, One
<1>4. ASSUME NEW c \in Sockets, S!CleanIndex(c) PROVE SessOnce'
      BY <1>4 DEF S!CleanIndex, S!index, S!events, S!panics, SessTypes, SessTable, SessHandlers,
         Replies, Orders, SessOnce, Ends, One
<1>5. ASSUME NEW c \in Sockets, S!CleanExtras(c) PROVE SessOnce'
      BY <1>5 DEF S!CleanExtras, S!index, S!events, S!panics, SessTypes, SessTable,
         SessHandlers, Replies, Orders, SessOnce, Ends, One
<1>6. ASSUME NEW c \in Sockets, S!CleanTell(c) PROVE SessOnce'
      BY <1>6 DEF S!CleanTell, S!index, S!events, S!panics, SessTypes, SessTable, SessHandlers,
         Replies, Orders, SessOnce, Ends, One
<1>7. ASSUME NEW c \in Sockets, S!HardFires(c) PROVE SessOnce'
      BY <1>7 DEF S!HardFires, S!index, S!events, S!panics, SessTypes, SessTable, SessHandlers,
         Replies, Orders, SessOnce, Ends, One
<1>8. ASSUME NEW c \in Sockets, NEW o \in Accounts, S!ReplyLookup(c, o) PROVE SessOnce'
      BY <1>8 DEF S!ReplyLookup, S!index, S!events, S!panics, SessTypes, SessTable,
         SessHandlers, Replies, Orders, SessOnce, Ends, One
<1>9. ASSUME NEW c \in Sockets, S!ReplyKnown(c) PROVE SessOnce'
      BY <1>9 DEF S!ReplyKnown, S!index, S!events, S!panics, SessTypes, SessTable, SessHandlers,
         Replies, Orders, SessOnce, Ends, One
<1>10. ASSUME NEW c \in Sockets, S!ReplyPanics(c) PROVE SessOnce'
      BY <1>10 DEF S!ReplyPanics, S!index, S!events, S!panics, SessTypes, SessTable,
         SessHandlers, Replies, Orders, SessOnce, Ends, One
<1>11. ASSUME NEW c \in Sockets, S!ReplyBind(c) PROVE SessOnce'
      BY <1>11 DEF S!ReplyBind, S!index, S!events, S!panics, SessTypes, SessTable, SessHandlers,
         Replies, Orders, SessOnce, Ends, One
<1>12. ASSUME NEW c \in Sockets, S!ReplyKick(c) PROVE SessOnce'
      BY <1>12 DEF S!ReplyKick, S!Kicked, S!index, S!events, S!panics, SessTypes, SessTable,
         SessHandlers, Replies, Orders, SessOnce, Ends, One
<1>13. ASSUME NEW c \in Sockets, S!ReplyTell(c) PROVE SessOnce'
      BY <1>13 DEF S!ReplyTell, S!index, S!events, S!panics, SessTypes, SessTable, SessHandlers,
         Replies, Orders, SessOnce, Ends, One
<1>14. ASSUME NEW c \in Sockets, S!KickBegin(c) PROVE SessOnce'
      BY <1>14 DEF S!KickBegin, S!Command, S!index, S!events, S!panics, SessTypes, SessTable,
         SessHandlers, Replies, Orders, SessOnce, Ends, One
<1>15. ASSUME NEW c \in Sockets, NEW p \in Roles, S!BindPlayer(c, p) PROVE SessOnce'
      BY <1>15 DEF S!BindPlayer, S!Command, S!Kicked, S!index, S!events, S!panics, SessTypes,
         SessTable, SessHandlers, Replies, Orders, SessOnce, Ends, One
<1>16. ASSUME S!KickIndex PROVE SessOnce'
      BY <1>16 DEF S!KickIndex, S!index, S!events, S!panics, SessTypes, SessTable, SessHandlers,
         Replies, Orders, SessOnce, Ends, One
<1>17. ASSUME S!KickPanics PROVE SessOnce'
      BY <1>17 DEF S!KickPanics, S!Done, S!Idle, S!index, S!events, S!panics, SessTypes,
         SessTable, SessHandlers, Replies, Orders, SessOnce, Ends, One
<1>18. ASSUME S!KickRest PROVE SessOnce'
      BY <1>18 DEF S!KickRest, S!Done, S!Idle, S!Kicked, S!index, S!events, S!panics, SessTypes,
         SessTable, SessHandlers, Replies, Orders, SessOnce, Ends, One
<1>19. ASSUME S!AddExtra PROVE SessOnce'
      BY <1>19 DEF S!AddExtra, S!Done, S!Idle, S!index, S!events, S!panics, SessTypes,
         SessTable, SessHandlers, Replies, Orders, SessOnce, Ends, One
<1> QED  BY <1>1, <1>2, <1>3, <1>4, <1>5, <1>6, <1>7, <1>8, <1>9, <1>10, <1>11, <1>12, <1>13,
            <1>14, <1>15, <1>16, <1>17, <1>18, <1>19 DEF S!Next

LEMMA SessCalmKept ==
    ASSUME S!GatewaySessionParams, SessTypes, SessOnce, SessCalm, calm, S!Next
    PROVE  SessCalm'
<1>1. ASSUME NEW c \in Sockets, S!Create(c) PROVE SessCalm'
      BY <1>1 DEF S!Create, S!index, S!events, S!panics, SessTypes, SessTable, SessHandlers,
         Replies, Orders, SessOnce, Ends, One, SessCalm, Involved, Untouched, S!MayEnd,
         S!GatewaySessionParams
<1>2. ASSUME NEW c \in Sockets, S!ClientCloses(c) PROVE SessCalm'
      BY <1>2 DEF S!ClientCloses, S!index, S!events, S!panics, SessTypes, SessTable,
         SessHandlers, Replies, Orders, SessOnce, Ends, One, SessCalm, Involved, Untouched,
         S!MayEnd, S!GatewaySessionParams
<1>3. ASSUME NEW c \in Sockets, S!CleanBegin(c) PROVE SessCalm'
      BY <1>3 DEF S!CleanBegin, S!index, S!events, S!panics, SessTypes, SessTable, SessHandlers,
         Replies, Orders, SessOnce, Ends, One, SessCalm, Involved, Untouched, S!MayEnd,
         S!GatewaySessionParams
<1>4. ASSUME NEW c \in Sockets, S!CleanIndex(c) PROVE SessCalm'
      BY <1>4 DEF S!CleanIndex, S!index, S!events, S!panics, SessTypes, SessTable, SessHandlers,
         Replies, Orders, SessOnce, Ends, One, SessCalm, Involved, Untouched, S!MayEnd,
         S!GatewaySessionParams
<1>5. ASSUME NEW c \in Sockets, S!CleanExtras(c) PROVE SessCalm'
      BY <1>5 DEF S!CleanExtras, S!index, S!events, S!panics, SessTypes, SessTable,
         SessHandlers, Replies, Orders, SessOnce, Ends, One, SessCalm, Involved, Untouched,
         S!MayEnd, S!GatewaySessionParams
<1>6. ASSUME NEW c \in Sockets, S!CleanTell(c) PROVE SessCalm'
      BY <1>6 DEF S!CleanTell, S!index, S!events, S!panics, SessTypes, SessTable, SessHandlers,
         Replies, Orders, SessOnce, Ends, One, SessCalm, Involved, Untouched, S!MayEnd,
         S!GatewaySessionParams
<1>7. ASSUME NEW c \in Sockets, S!HardFires(c) PROVE SessCalm'
      BY <1>7 DEF S!HardFires, S!index, S!events, S!panics, SessTypes, SessTable, SessHandlers,
         Replies, Orders, SessOnce, Ends, One, SessCalm, Involved, Untouched, S!MayEnd,
         S!GatewaySessionParams
<1>8. ASSUME NEW c \in Sockets, NEW o \in Accounts, S!ReplyLookup(c, o) PROVE SessCalm'
      BY <1>8 DEF S!ReplyLookup, S!index, S!events, S!panics, SessTypes, SessTable,
         SessHandlers, Replies, Orders, SessOnce, Ends, One, SessCalm, Involved, Untouched,
         S!MayEnd, S!GatewaySessionParams
<1>9. ASSUME NEW c \in Sockets, S!ReplyKnown(c) PROVE SessCalm'
      BY <1>9 DEF S!ReplyKnown, S!index, S!events, S!panics, SessTypes, SessTable, SessHandlers,
         Replies, Orders, SessOnce, Ends, One, SessCalm, Involved, Untouched, S!MayEnd,
         S!GatewaySessionParams
<1>10. ASSUME NEW c \in Sockets, S!ReplyPanics(c) PROVE SessCalm'
      BY <1>10 DEF S!ReplyPanics, S!index, S!events, S!panics, SessTypes, SessTable,
         SessHandlers, Replies, Orders, SessOnce, Ends, One, SessCalm, Involved, Untouched,
         S!MayEnd, S!GatewaySessionParams
<1>11. ASSUME NEW c \in Sockets, S!ReplyBind(c) PROVE SessCalm'
      BY <1>11 DEF S!ReplyBind, S!index, S!events, S!panics, SessTypes, SessTable, SessHandlers,
         Replies, Orders, SessOnce, Ends, One, SessCalm, Involved, Untouched, S!MayEnd,
         S!GatewaySessionParams
<1>12. ASSUME NEW c \in Sockets, S!ReplyKick(c) PROVE SessCalm'
      BY <1>12 DEF S!ReplyKick, S!Kicked, S!index, S!events, S!panics, SessTypes, SessTable,
         SessHandlers, Replies, Orders, SessOnce, Ends, One, SessCalm, Involved, Untouched,
         S!MayEnd, S!GatewaySessionParams
<1>13. ASSUME NEW c \in Sockets, S!ReplyTell(c) PROVE SessCalm'
      BY <1>13 DEF S!ReplyTell, S!index, S!events, S!panics, SessTypes, SessTable, SessHandlers,
         Replies, Orders, SessOnce, Ends, One, SessCalm, Involved, Untouched, S!MayEnd,
         S!GatewaySessionParams
<1>14. ASSUME NEW c \in Sockets, S!KickBegin(c) PROVE SessCalm'
      BY <1>14 DEF S!KickBegin, S!Command, S!index, S!events, S!panics, SessTypes, SessTable,
         SessHandlers, Replies, Orders, SessOnce, Ends, One, SessCalm, Involved, Untouched,
         S!MayEnd, S!GatewaySessionParams
<1>15. ASSUME NEW c \in Sockets, NEW p \in Roles, S!BindPlayer(c, p) PROVE SessCalm'
      BY <1>15 DEF S!BindPlayer, S!Command, S!Kicked, S!index, S!events, S!panics, SessTypes,
         SessTable, SessHandlers, Replies, Orders, SessOnce, Ends, One, SessCalm, Involved,
         Untouched, S!MayEnd, S!GatewaySessionParams
<1>16. ASSUME S!KickIndex PROVE SessCalm'
      BY <1>16 DEF S!KickIndex, S!index, S!events, S!panics, SessTypes, SessTable, SessHandlers,
         Replies, Orders, SessOnce, Ends, One, SessCalm, Involved, Untouched, S!MayEnd,
         S!GatewaySessionParams
<1>17. ASSUME S!KickPanics PROVE SessCalm'
      BY <1>17 DEF S!KickPanics, S!Done, S!Idle, S!index, S!events, S!panics, SessTypes,
         SessTable, SessHandlers, Replies, Orders, SessOnce, Ends, One, SessCalm, Involved,
         Untouched, S!MayEnd, S!GatewaySessionParams
<1>18. ASSUME S!KickRest PROVE SessCalm'
      BY <1>18 DEF S!KickRest, S!Done, S!Idle, S!Kicked, S!index, S!events, S!panics, SessTypes,
         SessTable, SessHandlers, Replies, Orders, SessOnce, Ends, One, SessCalm, Involved,
         Untouched, S!MayEnd, S!GatewaySessionParams
<1>19. ASSUME S!AddExtra PROVE SessCalm'
      BY <1>19 DEF S!AddExtra, S!Done, S!Idle, S!index, S!events, S!panics, SessTypes,
         SessTable, SessHandlers, Replies, Orders, SessOnce, Ends, One, SessCalm, Involved,
         Untouched, S!MayEnd, S!GatewaySessionParams
<1> QED  BY <1>1, <1>2, <1>3, <1>4, <1>5, <1>6, <1>7, <1>8, <1>9, <1>10, <1>11, <1>12, <1>13,
            <1>14, <1>15, <1>16, <1>17, <1>18, <1>19 DEF S!Next

LEMMA SessToldKept ==
    ASSUME S!GatewaySessionParams, SessTypes, SessOnce, SessOnce', SessTypes', SessCalm, SessCalm', SessTold, calm, S!Next
    PROVE  SessTold'
<1>1. ASSUME NEW c \in Sockets, S!Create(c) PROVE SessTold'
      BY <1>1 DEF S!Create, S!index, S!events, S!panics, SessTypes, SessTable, SessHandlers,
         Replies, Orders, SessOnce, Ends, One, SessCalm, Involved, Untouched, SessTold, Told
<1>2. ASSUME NEW c \in Sockets, S!ClientCloses(c) PROVE SessTold'
      BY <1>2 DEF S!ClientCloses, S!index, S!events, S!panics, SessTypes, SessTable,
         SessHandlers, Replies, Orders, SessOnce, Ends, One, SessCalm, Involved, Untouched,
         SessTold, Told
<1>3. ASSUME NEW c \in Sockets, S!CleanBegin(c) PROVE SessTold'
      BY <1>3 DEF S!CleanBegin, S!index, S!events, S!panics, SessTypes, SessTable, SessHandlers,
         Replies, Orders, SessOnce, Ends, One, SessCalm, Involved, Untouched, SessTold, Told
<1>4. ASSUME NEW c \in Sockets, S!CleanIndex(c) PROVE SessTold'
      BY <1>4 DEF S!CleanIndex, S!index, S!events, S!panics, SessTypes, SessTable, SessHandlers,
         Replies, Orders, SessOnce, Ends, One, SessCalm, Involved, Untouched, SessTold, Told
<1>5. ASSUME NEW c \in Sockets, S!CleanExtras(c) PROVE SessTold'
      BY <1>5 DEF S!CleanExtras, S!index, S!events, S!panics, SessTypes, SessTable,
         SessHandlers, Replies, Orders, SessOnce, Ends, One, SessCalm, Involved, Untouched,
         SessTold, Told
<1>6. ASSUME NEW c \in Sockets, S!CleanTell(c) PROVE SessTold'
      BY <1>6 DEF S!CleanTell, S!index, S!events, S!panics, SessTypes, SessTable, SessHandlers,
         Replies, Orders, SessOnce, Ends, One, SessCalm, Involved, Untouched, SessTold, Told
<1>7. ASSUME NEW c \in Sockets, S!HardFires(c) PROVE SessTold'
      <2>1. gone'[c] = gone[c] + 1 /\ gone[c] \in Nat /\ begun'[c] = begun[c] /\ begun[c] <= 1
            BY <1>7 DEF S!HardFires, SessTypes, SessTable, SessCalm
      <2>2. gone'[c] <= begun[c] /\ begun[c] \in Nat
            <3>1. \A b : One(b) \in Nat  BY DEF One
            <3>2. gone'[c] + One(hard'[c] # None) + One(clean'[c] # "idle") + One(c \in sess') <= begun'[c]
                  BY DEF SessOnce, Ends
            <3>3. gone'[c] \in Nat /\ begun'[c] \in Nat  BY DEF SessTypes, SessTable
            <3> DEFINE x == One(hard'[c] # None)
                       y == One(clean'[c] # "idle")
                       z == One(c \in sess')
            <3>4. x \in Nat /\ y \in Nat /\ z \in Nat  BY <3>1
            <3>5. gone'[c] + x + y + z <= begun'[c]  BY <3>2
            <3> HIDE DEF x, y, z
            <3> QED  BY <2>1, <3>3, <3>4, <3>5
      <2>3. gone'[c] = 1  BY <2>1, <2>2
      <2>4. \A d \in Sockets : d # c => hard'[d] = hard[d] /\ gone'[d] = gone[d]
            BY <1>7 DEF S!HardFires, SessTypes, SessTable, SessHandlers
      <2>5. UNCHANGED <<announced, cancelled, kicked, sess, clean>>  BY <1>7 DEF S!HardFires
      <2> QED  BY <2>3, <2>4, <2>5 DEF SessTold, Told
<1>8. ASSUME NEW c \in Sockets, NEW o \in Accounts, S!ReplyLookup(c, o) PROVE SessTold'
      BY <1>8 DEF S!ReplyLookup, S!index, S!events, S!panics, SessTypes, SessTable,
         SessHandlers, Replies, Orders, SessOnce, Ends, One, SessCalm, Involved, Untouched,
         SessTold, Told
<1>9. ASSUME NEW c \in Sockets, S!ReplyKnown(c) PROVE SessTold'
      BY <1>9 DEF S!ReplyKnown, S!index, S!events, S!panics, SessTypes, SessTable, SessHandlers,
         Replies, Orders, SessOnce, Ends, One, SessCalm, Involved, Untouched, SessTold, Told
<1>10. ASSUME NEW c \in Sockets, S!ReplyPanics(c) PROVE SessTold'
      BY <1>10 DEF S!ReplyPanics, S!index, S!events, S!panics, SessTypes, SessTable,
         SessHandlers, Replies, Orders, SessOnce, Ends, One, SessCalm, Involved, Untouched,
         SessTold, Told
<1>11. ASSUME NEW c \in Sockets, S!ReplyBind(c) PROVE SessTold'
      BY <1>11 DEF S!ReplyBind, S!index, S!events, S!panics, SessTypes, SessTable, SessHandlers,
         Replies, Orders, SessOnce, Ends, One, SessCalm, Involved, Untouched, SessTold, Told
<1>12. ASSUME NEW c \in Sockets, S!ReplyKick(c) PROVE SessTold'
      BY <1>12 DEF S!ReplyKick, S!Kicked, S!index, S!events, S!panics, SessTypes, SessTable,
         SessHandlers, Replies, Orders, SessOnce, Ends, One, SessCalm, Involved, Untouched,
         SessTold, Told
<1>13. ASSUME NEW c \in Sockets, S!ReplyTell(c) PROVE SessTold'
      BY <1>13 DEF S!ReplyTell, S!index, S!events, S!panics, SessTypes, SessTable, SessHandlers,
         Replies, Orders, SessOnce, Ends, One, SessCalm, Involved, Untouched, SessTold, Told
<1>14. ASSUME NEW c \in Sockets, S!KickBegin(c) PROVE SessTold'
      BY <1>14 DEF S!KickBegin, S!Command, S!index, S!events, S!panics, SessTypes, SessTable,
         SessHandlers, Replies, Orders, SessOnce, Ends, One, SessCalm, Involved, Untouched,
         SessTold, Told
<1>15. ASSUME NEW c \in Sockets, NEW p \in Roles, S!BindPlayer(c, p) PROVE SessTold'
      BY <1>15 DEF S!BindPlayer, S!Command, S!Kicked, S!index, S!events, S!panics, SessTypes,
         SessTable, SessHandlers, Replies, Orders, SessOnce, Ends, One, SessCalm, Involved,
         Untouched, SessTold, Told
<1>16. ASSUME S!KickIndex PROVE SessTold'
      BY <1>16 DEF S!KickIndex, S!index, S!events, S!panics, SessTypes, SessTable, SessHandlers,
         Replies, Orders, SessOnce, Ends, One, SessCalm, Involved, Untouched, SessTold, Told
<1>17. ASSUME S!KickPanics PROVE SessTold'
      BY <1>17 DEF S!KickPanics, S!Done, S!Idle, S!index, S!events, S!panics, SessTypes,
         SessTable, SessHandlers, Replies, Orders, SessOnce, Ends, One, SessCalm, Involved,
         Untouched, SessTold, Told
<1>18. ASSUME S!KickRest PROVE SessTold'
      BY <1>18 DEF S!KickRest, S!Done, S!Idle, S!Kicked, S!index, S!events, S!panics, SessTypes,
         SessTable, SessHandlers, Replies, Orders, SessOnce, Ends, One, SessCalm, Involved,
         Untouched, SessTold, Told
<1>19. ASSUME S!AddExtra PROVE SessTold'
      BY <1>19 DEF S!AddExtra, S!Done, S!Idle, S!index, S!events, S!panics, SessTypes,
         SessTable, SessHandlers, Replies, Orders, SessOnce, Ends, One, SessCalm, Involved,
         Untouched, SessTold, Told
<1> QED  BY <1>1, <1>2, <1>3, <1>4, <1>5, <1>6, <1>7, <1>8, <1>9, <1>10, <1>11, <1>12, <1>13,
            <1>14, <1>15, <1>16, <1>17, <1>18, <1>19 DEF S!Next

LEMMA SameLists ==
    ASSUME SessIndexed, idx' = idx, pidx' = pidx, extra' = extra,
           \A o \in Accounts : InAccount(o)' = InAccount(o)
    PROVE  SessIndexed'
    BY DEF SessIndexed, Lists

LEMMA SessIndexedKept ==
    ASSUME S!GatewaySessionParams, SessTypes, SessOnce, SessCalm, SessIndexed, calm, S!Next
    PROVE  SessIndexed'
<1>1. ASSUME NEW c \in Sockets, S!Create(c) PROVE SessIndexed'
      <2>1. Untouched(c) /\ c \notin sess
            BY <1>1 DEF S!Create, SessTypes, SessTable, SessCalm
      <2>2. bound' = bound /\ extra' = extra /\ idx' = idx /\ pidx' = pidx /\ clean' = clean
            /\ sess' = sess \cup {c}
            BY <1>1, <2>1 DEF S!Create, SessTypes, SessTable, Untouched
      <2>3. \A o \in Accounts : InAccount(o)' = InAccount(o)
            BY <2>1, <2>2 DEF InAccount, InIndex, Untouched, S!GatewaySessionParams
      <2> QED  BY <2>2, <2>3, SameLists
<1>2. ASSUME NEW c \in Sockets, S!ClientCloses(c) PROVE SessIndexed'
      <2>1. /\ idx' = idx /\ pidx' = pidx /\ extra' = extra
            /\ \A o1 \in Accounts : InAccount(o1)' = InAccount(o1)
            BY <1>2 DEF S!ClientCloses, S!index, S!events, S!panics,
               SessTypes, SessTable, SessHandlers, SessOnce, SessCalm, Untouched, InAccount, InIndex
      <2> QED  BY <2>1, SameLists
<1>3. ASSUME NEW c \in Sockets, S!CleanBegin(c) PROVE SessIndexed'
      <2>1. /\ idx' = idx /\ pidx' = pidx /\ extra' = extra
            /\ \A o1 \in Accounts : InAccount(o1)' = InAccount(o1)
            BY <1>3 DEF S!CleanBegin, S!index, S!events, S!panics,
               SessTypes, SessTable, SessHandlers, SessOnce, SessCalm, Untouched, InAccount, InIndex
      <2> QED  BY <2>1, SameLists
<1>4. ASSUME NEW c \in Sockets, S!CleanIndex(c) PROVE SessIndexed'
      <2>1. /\ clean[c] = "index" /\ uid[c] = bound[c] /\ c \notin sess
            /\ pidx' = pidx /\ extra' = extra /\ bound' = bound /\ sess' = sess
            /\ \A x \in Sockets : InIndex(x)' <=> x # c /\ InIndex(x)
            BY <1>4 DEF S!CleanIndex, InIndex, SessTypes, SessHandlers, SessOnce, SessCalm
      <2>2. \A o \in Accounts : InAccount(o)' = InAccount(o) \ {c}
            BY <2>1 DEF InAccount
      <2>3. \A o \in Accounts : o # bound[c] => c \notin InAccount(o)  BY DEF InAccount
      <2>4. ASSUME NEW o \in Accounts PROVE Lists(idx'[o], InAccount(o)')
            <3>1. idx[o] \in Seq(Sockets \cup {None}) /\ Lists(idx[o], InAccount(o))
                  BY DEF SessTypes, SessIndexes, SessIndexed
            <3>2. CASE o = bound[c]
                  <4>1. idx'[o] = S!Without(idx[o], c)
                        BY <1>4, <2>1, <3>2 DEF S!CleanIndex, SessTypes, SessIndexes,
                           S!GatewaySessionParams
                  <4> QED  BY <2>2, <3>1, <4>1, WithoutLists
            <3>3. CASE o # bound[c]
                  <4>1. idx'[o] = idx[o]
                        BY <1>4, <2>1, <3>3 DEF S!CleanIndex, SessTypes, SessIndexes
                  <4>2. InAccount(o)' = InAccount(o)  BY <2>2, <2>3, <3>3
                  <4> QED  BY <3>1, <4>1, <4>2
            <3> QED  BY <3>2, <3>3
      <2> QED  BY <2>1, <2>4 DEF SessIndexed
<1>5. ASSUME NEW c \in Sockets, S!CleanExtras(c) PROVE SessIndexed'
      <2>1. /\ idx' = idx /\ bound' = bound /\ sess' = sess
            /\ \A x \in Sockets : InIndex(x)' <=> InIndex(x)
            /\ \A x \in Sockets : extra'[x] = IF x = c THEN None ELSE extra[x]
            BY <1>5 DEF S!CleanExtras, InIndex, SessTypes, SessTable, SessHandlers
      <2>2. \A o \in Accounts : InAccount(o)' = InAccount(o)  BY <2>1 DEF InAccount
      <2> DEFINE Having(p) == {x \in Sockets : extra[x] = p}
                 Now(p) == {x \in Sockets : extra'[x] = p}
      <2>3. \A p \in Roles : Now(p) = Having(p) \ {c} /\ (p # extra[c] => Now(p) = Having(p))
            BY <2>1 DEF S!GatewaySessionParams
      <2>4. \A p \in Roles : pidx[p] \in Seq(Sockets) /\ Lists(pidx[p], Having(p))
            BY DEF SessTypes, SessIndexes, SessIndexed
      <2> HIDE DEF Having, Now
      <2>5. ASSUME NEW p \in Roles PROVE Lists(pidx'[p], Now(p))
            <3>1. CASE p = extra[c]
                  <4>1. pidx'[p] = S!Without(pidx[p], c)
                        BY <1>5, <3>1 DEF S!CleanExtras, SessTypes, SessIndexes,
                           S!GatewaySessionParams
                  <4> QED  BY <2>3, <2>4, <4>1, WithoutLists
            <3>2. CASE p # extra[c]
                  <4>1. pidx'[p] = pidx[p]  BY <1>5, <3>2 DEF S!CleanExtras, SessTypes, SessIndexes
                  <4> QED  BY <2>3, <2>4, <3>2, <4>1
            <3> QED  BY <3>1, <3>2
      <2> QED  BY <2>1, <2>2, <2>5 DEF SessIndexed, Now
<1>6. ASSUME NEW c \in Sockets, S!CleanTell(c) PROVE SessIndexed'
      <2>1. /\ idx' = idx /\ pidx' = pidx /\ extra' = extra
            /\ \A o1 \in Accounts : InAccount(o1)' = InAccount(o1)
            BY <1>6 DEF S!CleanTell, S!index, S!events, S!panics,
               SessTypes, SessTable, SessHandlers, SessOnce, SessCalm, Untouched, InAccount, InIndex
      <2> QED  BY <2>1, SameLists
<1>7. ASSUME NEW c \in Sockets, S!HardFires(c) PROVE SessIndexed'
      <2>1. /\ idx' = idx /\ pidx' = pidx /\ extra' = extra
            /\ \A o1 \in Accounts : InAccount(o1)' = InAccount(o1)
            BY <1>7 DEF S!HardFires, S!index, S!events, S!panics,
               SessTypes, SessTable, SessHandlers, SessOnce, SessCalm, Untouched, InAccount, InIndex
      <2> QED  BY <2>1, SameLists
<1>8. ASSUME NEW c \in Sockets, NEW o \in Accounts, S!ReplyLookup(c, o) PROVE SessIndexed'
      <2>1. /\ idx' = idx /\ pidx' = pidx /\ extra' = extra
            /\ \A o1 \in Accounts : InAccount(o1)' = InAccount(o1)
            BY <1>8 DEF S!ReplyLookup, S!index, S!events, S!panics,
               SessTypes, SessTable, SessHandlers, SessOnce, SessCalm, Untouched, InAccount, InIndex
      <2> QED  BY <2>1, SameLists
<1>9. ASSUME NEW c \in Sockets, S!ReplyKnown(c) PROVE SessIndexed'
      <2>1. /\ idx' = idx /\ pidx' = pidx /\ extra' = extra
            /\ \A o1 \in Accounts : InAccount(o1)' = InAccount(o1)
            BY <1>9 DEF S!ReplyKnown, S!index, S!events, S!panics,
               SessTypes, SessTable, SessHandlers, SessOnce, SessCalm, Untouched, InAccount, InIndex
      <2> QED  BY <2>1, SameLists
<1>10. ASSUME NEW c \in Sockets, S!ReplyPanics(c) PROVE SessIndexed'
      <2>1. /\ idx' = idx /\ pidx' = pidx /\ extra' = extra
            /\ \A o1 \in Accounts : InAccount(o1)' = InAccount(o1)
            BY <1>10 DEF S!ReplyPanics, S!index, S!events, S!panics,
               SessTypes, SessTable, SessHandlers, SessOnce, SessCalm, Untouched, InAccount, InIndex
      <2> QED  BY <2>1, SameLists
<1>11. ASSUME NEW c \in Sockets, S!ReplyBind(c) PROVE SessIndexed'
      <2>0. PICK o \in Accounts : o = reply[c].owner
            BY <1>11 DEF S!ReplyBind, SessTypes, SessHandlers
      <2>1. /\ bound[c] = None /\ c \in sess /\ pidx' = pidx /\ extra' = extra
            /\ bound' = [bound EXCEPT ![c] = o] /\ sess' = sess /\ clean' = clean
            BY <1>11, <2>0 DEF S!ReplyBind, SessTypes, SessHandlers, SessCalm, Involved
      <2>2. \A x \in Sockets : InIndex(x)' <=> InIndex(x)  BY <2>1 DEF InIndex
      <2>3. \A p \in Accounts :
                /\ c \notin InAccount(p)
                /\ InAccount(p)' = IF p = o THEN InAccount(p) \cup {c} ELSE InAccount(p)
            BY <2>1, <2>2 DEF InAccount, InIndex, SessTypes, SessTable, S!GatewaySessionParams
      <2>4. \A p \in Accounts : idx'[p] = IF p = o THEN Append(idx[o], c) ELSE idx[p]
            BY <1>11, <2>0, <2>1 DEF S!ReplyBind, S!GatewaySessionParams
      <2>5. ASSUME NEW p \in Accounts PROVE Lists(idx'[p], InAccount(p)')
            <3>1. idx[p] \in Seq(Sockets \cup {None}) /\ Lists(idx[p], InAccount(p))
                  BY DEF SessTypes, SessIndexes, SessIndexed
            <3> QED  BY <2>3, <2>4, <3>1, AppendLists
      <2> QED  BY <2>1, <2>5 DEF SessIndexed
<1>12. ASSUME NEW c \in Sockets, S!ReplyKick(c) PROVE SessIndexed'
      <2>1. /\ idx' = idx /\ pidx' = pidx /\ extra' = extra
            /\ \A o1 \in Accounts : InAccount(o1)' = InAccount(o1)
            BY <1>12 DEF S!ReplyKick, S!Kicked, S!index, S!events, S!panics,
               SessTypes, SessTable, SessHandlers, SessOnce, SessCalm, Untouched, InAccount, InIndex
      <2> QED  BY <2>1, SameLists
<1>13. ASSUME NEW c \in Sockets, S!ReplyTell(c) PROVE SessIndexed'
      <2>1. /\ idx' = idx /\ pidx' = pidx /\ extra' = extra
            /\ \A o1 \in Accounts : InAccount(o1)' = InAccount(o1)
            BY <1>13 DEF S!ReplyTell, S!index, S!events, S!panics,
               SessTypes, SessTable, SessHandlers, SessOnce, SessCalm, Untouched, InAccount, InIndex
      <2> QED  BY <2>1, SameLists
<1>14. ASSUME NEW c \in Sockets, S!KickBegin(c) PROVE SessIndexed'
      BY <1>14 DEF S!KickBegin, SessTypes, SessHandlers, SessCalm
<1>15. ASSUME NEW c \in Sockets, NEW p \in Roles, S!BindPlayer(c, p) PROVE SessIndexed'
      <2>1. /\ idx' = idx /\ pidx' = pidx /\ extra' = extra
            /\ \A o1 \in Accounts : InAccount(o1)' = InAccount(o1)
            BY <1>15 DEF S!BindPlayer, S!Command, S!Kicked, S!index, S!events, S!panics,
               SessTypes, SessTable, SessHandlers, SessOnce, SessCalm, Untouched, InAccount, InIndex
      <2> QED  BY <2>1, SameLists
<1>16. ASSUME S!KickIndex PROVE SessIndexed'
      BY <1>16 DEF S!KickIndex, SessTypes, SessHandlers, SessCalm
<1>17. ASSUME S!KickPanics PROVE SessIndexed'
      BY <1>17 DEF S!KickPanics, SessTypes, SessHandlers, SessCalm
<1>18. ASSUME S!KickRest PROVE SessIndexed'
      BY <1>18 DEF S!KickRest, SessTypes, SessHandlers, SessCalm
<1>19. ASSUME S!AddExtra PROVE SessIndexed'
      <2>0. PICK c \in Sockets, p \in Roles : c = ctl.conn /\ p = ctl.player
            BY <1>19 DEF S!AddExtra, SessTypes, SessHandlers
      <2>1. /\ extra' = [extra EXCEPT ![c] = p] /\ idx' = idx
            /\ bound' = bound /\ sess' = sess /\ clean' = clean
            BY <1>19, <2>0 DEF S!AddExtra
      <2>2. \A o \in Accounts : InAccount(o)' = InAccount(o)  BY <2>1 DEF InAccount, InIndex
      <2> DEFINE Having(q) == {x \in Sockets : extra[x] = q}
                 Now(q) == {x \in Sockets : extra'[x] = q}
                 Left(q) == IF q = extra[c] THEN S!Without(pidx[q], c) ELSE pidx[q]
      <2>3. \A q \in Roles : /\ Now(q) = (Having(q) \ {c}) \cup (IF q = p THEN {c} ELSE {})
                             /\ q # extra[c] => c \notin Having(q)
            BY <2>1 DEF SessTypes, SessTable
      <2>4. \A q \in Roles : pidx[q] \in Seq(Sockets) /\ Lists(pidx[q], Having(q))
            BY DEF SessTypes, SessIndexes, SessIndexed
      <2>5. \A q \in Roles : pidx'[q] = IF q = p THEN Append(Left(q), c) ELSE Left(q)
            BY <1>19, <2>0 DEF S!AddExtra
      <2> HIDE DEF Having, Now
      <2>6. ASSUME NEW q \in Roles PROVE Left(q) \in Seq(Sockets) /\ Lists(Left(q), Having(q) \ {c})
            <3>1. CASE q = extra[c]  BY <2>4, <3>1, WithoutLists, WithoutKeepsType
            <3>2. CASE q # extra[c]
                  <4>1. Having(q) \ {c} = Having(q)  BY <2>3, <3>2
                  <4> QED  BY <2>4, <3>2, <4>1
            <3> QED  BY <3>1, <3>2
      <2> HIDE DEF Left
      <2>7. ASSUME NEW q \in Roles PROVE Lists(pidx'[q], Now(q))
            <3>1. CASE q = p
                  <4>1. Now(q) = (Having(q) \ {c}) \cup {c} /\ pidx'[q] = Append(Left(q), c)
                        BY <2>3, <2>5, <3>1
                  <4>2. PICK H : H = Having(q) \ {c}  OBVIOUS
                  <4>3. c \notin H /\ Left(q) \in Seq(Sockets) /\ Lists(Left(q), H)
                        BY <2>6, <4>2
                  <4>4. Lists(Append(Left(q), c), H \cup {c})  BY <4>3, AppendLists
                  <4> QED  BY <4>1, <4>2, <4>4
            <3>2. CASE q # p
                  <4>1. Now(q) = Having(q) \ {c} /\ pidx'[q] = Left(q)  BY <2>3, <2>5, <3>2
                  <4> QED  BY <2>6, <4>1
            <3> QED  BY <3>1, <3>2
      <2> QED  BY <2>1, <2>2, <2>7 DEF SessIndexed, Now
<1> QED  BY <1>1, <1>2, <1>3, <1>4, <1>5, <1>6, <1>7, <1>8, <1>9, <1>10, <1>11, <1>12, <1>13,
            <1>14, <1>15, <1>16, <1>17, <1>18, <1>19 DEF S!Next

LEMMA StaysSingle ==
    ASSUME SessSingle,
           \A c \in Sockets : reply'[c].step # "kick" => targets'[c] = {},
           \A o \in Accounts : S!Contenders(o)' \subseteq S!Contenders(o),
           \A o \in Accounts : InAccount(o)' \subseteq InAccount(o),
           \A c \in Sockets : Doomed(c) => Doomed(c)'
    PROVE  SessSingle'
<1>1. ASSUME NEW o \in Accounts, NEW x \in S!Contenders(o)', NEW y \in S!Contenders(o)',
             NEW z \in S!Contenders(o)'
      PROVE  x = y \/ y = z \/ x = z
      BY DEF SessSingle
<1>2. ASSUME NEW o \in Accounts, NEW x \in InAccount(o)', NEW y \in InAccount(o)'
      PROVE  x = y \/ Doomed(x)' \/ Doomed(y)'
      <2>1. x \in InAccount(o) /\ y \in InAccount(o)  OBVIOUS
      <2>2. x = y \/ Doomed(x) \/ Doomed(y)  BY <2>1 DEF SessSingle
      <2>3. x \in Sockets /\ y \in Sockets  BY <2>1 DEF InAccount
      <2> QED  BY <2>2, <2>3
<1> QED  BY <1>1, <1>2 DEF SessSingle

LEMMA OldestIsTheOther ==
    ASSUME S!GatewaySessionParams, SessTypes, SessIndexed, SessSingle,
           NEW o \in Accounts, NEW c \in S!Contenders(o), NEW y \in InAccount(o), y # c
    PROVE  y \in S!Oldest(o, c)
<1>1. S!ToSet(idx[o]) = InAccount(o) /\ S!IsInjective(idx[o])  BY DEF SessIndexed, Lists
<1>2. PICK k \in DOMAIN idx[o] : idx[o][k] = y  BY <1>1 DEF S!ToSet
<1>3. y \in Sockets /\ y # None  BY DEF InAccount, S!GatewaySessionParams
<1> DEFINE others == {i \in DOMAIN idx[o] : idx[o][i] \notin {None, c}}
<1>4. k \in others  BY <1>2, <1>3
<1>5. ASSUME NEW j \in others PROVE j = k
      <2>1. idx[o][j] \in InAccount(o) /\ idx[o][j] # c  BY <1>1 DEF S!ToSet
      <2>2. InAccount(o) \subseteq S!Contenders(o)  BY DEF InAccount, InIndex, S!Contenders
      <2>3. idx[o][j] = y  BY <2>1, <2>2 DEF SessSingle
      <2> QED  BY <1>1, <1>2, <2>3 DEF S!IsInjective
<1>6. k \in Nat
      <2>1. idx[o] \in Seq(Sockets \cup {None})  BY DEF SessTypes, SessIndexes
      <2> QED  BY <1>2, <2>1, LenProperties
<1>7. k \in {i \in others : \A j \in others : i <= j}  BY <1>4, <1>5, <1>6
<1> QED  BY <1>2, <1>7 DEF S!Oldest

LEMMA SessSingleKept ==
    ASSUME S!GatewaySessionParams, SessTypes, SessOnce, SessCalm, SessIndexed, SessSingle, calm, S!Next
    PROVE  SessSingle'
<1>1. ASSUME NEW c \in Sockets, S!Create(c) PROVE SessSingle'
      <2>1. \A x \in Sockets : reply'[x].step # "kick" => targets'[x] = {}
            BY <1>1 DEF S!Create, S!index, S!events, S!panics, SessTypes, SessHandlers, Replies,
               SessSingle
      <2>2. \A o1 \in Accounts : /\ S!Contenders(o1)' \subseteq S!Contenders(o1)
                                /\ InAccount(o1)' \subseteq InAccount(o1)
            BY <1>1 DEF S!Create, S!index, S!events, S!panics, SessTypes, SessTable,
               SessHandlers, Replies, SessOnce, SessCalm, Untouched, S!Contenders,
               InAccount, InIndex, S!GatewaySessionParams
      <2>3. \A x \in Sockets : Doomed(x) => Doomed(x)'
            BY <1>1 DEF S!Create, S!index, S!events, S!panics, SessTypes, SessTable,
               SessHandlers, Doomed
      <2> QED  BY <2>1, <2>2, <2>3, StaysSingle
<1>2. ASSUME NEW c \in Sockets, S!ClientCloses(c) PROVE SessSingle'
      <2>1. \A x \in Sockets : reply'[x].step # "kick" => targets'[x] = {}
            BY <1>2 DEF S!ClientCloses, S!index, S!events, S!panics, SessTypes, SessHandlers,
               Replies, SessSingle
      <2>2. \A o1 \in Accounts : /\ S!Contenders(o1)' \subseteq S!Contenders(o1)
                                /\ InAccount(o1)' \subseteq InAccount(o1)
            BY <1>2 DEF S!ClientCloses, S!index, S!events, S!panics, SessTypes, SessTable,
               SessHandlers, Replies, SessOnce, SessCalm, Untouched, S!Contenders,
               InAccount, InIndex, S!GatewaySessionParams
      <2>3. \A x \in Sockets : Doomed(x) => Doomed(x)'
            BY <1>2 DEF S!ClientCloses, S!index, S!events, S!panics, SessTypes, SessTable,
               SessHandlers, Doomed
      <2> QED  BY <2>1, <2>2, <2>3, StaysSingle
<1>3. ASSUME NEW c \in Sockets, S!CleanBegin(c) PROVE SessSingle'
      <2>1. \A x \in Sockets : reply'[x].step # "kick" => targets'[x] = {}
            BY <1>3 DEF S!CleanBegin, S!index, S!events, S!panics, SessTypes, SessHandlers,
               Replies, SessSingle
      <2>2. \A o1 \in Accounts : /\ S!Contenders(o1)' \subseteq S!Contenders(o1)
                                /\ InAccount(o1)' \subseteq InAccount(o1)
            BY <1>3 DEF S!CleanBegin, S!index, S!events, S!panics, SessTypes, SessTable,
               SessHandlers, Replies, SessOnce, SessCalm, Untouched, S!Contenders,
               InAccount, InIndex, S!GatewaySessionParams
      <2>3. \A x \in Sockets : Doomed(x) => Doomed(x)'
            BY <1>3 DEF S!CleanBegin, S!index, S!events, S!panics, SessTypes, SessTable,
               SessHandlers, Doomed
      <2> QED  BY <2>1, <2>2, <2>3, StaysSingle
<1>4. ASSUME NEW c \in Sockets, S!CleanIndex(c) PROVE SessSingle'
      <2>1. \A x \in Sockets : reply'[x].step # "kick" => targets'[x] = {}
            BY <1>4 DEF S!CleanIndex, S!index, S!events, S!panics, SessTypes, SessHandlers,
               Replies, SessSingle
      <2>2. \A o1 \in Accounts : /\ S!Contenders(o1)' \subseteq S!Contenders(o1)
                                /\ InAccount(o1)' \subseteq InAccount(o1)
            BY <1>4 DEF S!CleanIndex, S!index, S!events, S!panics, SessTypes, SessTable,
               SessHandlers, Replies, SessOnce, SessCalm, Untouched, S!Contenders,
               InAccount, InIndex, S!GatewaySessionParams
      <2>3. \A x \in Sockets : Doomed(x) => Doomed(x)'
            BY <1>4 DEF S!CleanIndex, S!index, S!events, S!panics, SessTypes, SessTable,
               SessHandlers, Doomed
      <2> QED  BY <2>1, <2>2, <2>3, StaysSingle
<1>5. ASSUME NEW c \in Sockets, S!CleanExtras(c) PROVE SessSingle'
      <2>1. \A x \in Sockets : reply'[x].step # "kick" => targets'[x] = {}
            BY <1>5 DEF S!CleanExtras, S!index, S!events, S!panics, SessTypes, SessHandlers,
               Replies, SessSingle
      <2>2. \A o1 \in Accounts : /\ S!Contenders(o1)' \subseteq S!Contenders(o1)
                                /\ InAccount(o1)' \subseteq InAccount(o1)
            BY <1>5 DEF S!CleanExtras, S!index, S!events, S!panics, SessTypes, SessTable,
               SessHandlers, Replies, SessOnce, SessCalm, Untouched, S!Contenders,
               InAccount, InIndex, S!GatewaySessionParams
      <2>3. \A x \in Sockets : Doomed(x) => Doomed(x)'
            BY <1>5 DEF S!CleanExtras, S!index, S!events, S!panics, SessTypes, SessTable,
               SessHandlers, Doomed
      <2> QED  BY <2>1, <2>2, <2>3, StaysSingle
<1>6. ASSUME NEW c \in Sockets, S!CleanTell(c) PROVE SessSingle'
      <2>1. \A x \in Sockets : reply'[x].step # "kick" => targets'[x] = {}
            BY <1>6 DEF S!CleanTell, S!index, S!events, S!panics, SessTypes, SessHandlers,
               Replies, SessSingle
      <2>2. \A o1 \in Accounts : /\ S!Contenders(o1)' \subseteq S!Contenders(o1)
                                /\ InAccount(o1)' \subseteq InAccount(o1)
            BY <1>6 DEF S!CleanTell, S!index, S!events, S!panics, SessTypes, SessTable,
               SessHandlers, Replies, SessOnce, SessCalm, Untouched, S!Contenders,
               InAccount, InIndex, S!GatewaySessionParams
      <2>3. \A x \in Sockets : Doomed(x) => Doomed(x)'
            BY <1>6 DEF S!CleanTell, S!index, S!events, S!panics, SessTypes, SessTable,
               SessHandlers, Doomed
      <2> QED  BY <2>1, <2>2, <2>3, StaysSingle
<1>7. ASSUME NEW c \in Sockets, S!HardFires(c) PROVE SessSingle'
      <2>1. \A x \in Sockets : reply'[x].step # "kick" => targets'[x] = {}
            BY <1>7 DEF S!HardFires, S!index, S!events, S!panics, SessTypes, SessHandlers,
               Replies, SessSingle
      <2>2. \A o1 \in Accounts : /\ S!Contenders(o1)' \subseteq S!Contenders(o1)
                                /\ InAccount(o1)' \subseteq InAccount(o1)
            BY <1>7 DEF S!HardFires, S!index, S!events, S!panics, SessTypes, SessTable,
               SessHandlers, Replies, SessOnce, SessCalm, Untouched, S!Contenders,
               InAccount, InIndex, S!GatewaySessionParams
      <2>3. \A x \in Sockets : Doomed(x) => Doomed(x)'
            BY <1>7 DEF S!HardFires, S!index, S!events, S!panics, SessTypes, SessTable,
               SessHandlers, Doomed
      <2> QED  BY <2>1, <2>2, <2>3, StaysSingle
<1>8. ASSUME NEW c \in Sockets, NEW o \in Accounts, S!ReplyLookup(c, o) PROVE SessSingle'
      <2>1. \A x \in Sockets : reply'[x].step # "kick" => targets'[x] = {}
            BY <1>8 DEF S!ReplyLookup, SessTypes, SessHandlers, Replies, SessSingle
      <2>2. \A q \in Accounts : \A x \in Sockets :
                 x \in S!Contenders(q)' => x \in S!Contenders(q) \/ (x = c /\ q = o)
            BY <1>8 DEF S!ReplyLookup, S!index, S!Contenders, SessTypes, SessHandlers, Replies
      <2>3. \A q \in Accounts : S!Contenders(q) \subseteq Sockets  BY DEF S!Contenders
      <2>4. S!Contenders(o)' \subseteq S!Contenders(o) \cup {c}
            /\ \A q \in Accounts : q # o => S!Contenders(q)' \subseteq S!Contenders(q)
            BY <2>2 DEF S!Contenders
      <2>5. \A d, e \in S!Contenders(o) \ {c} : d = e  BY <1>8 DEF S!ReplyLookup
      <2>6. ASSUME NEW q \in Accounts, NEW x \in S!Contenders(q)', NEW y \in S!Contenders(q)',
                   NEW z \in S!Contenders(q)'
            PROVE  x = y \/ y = z \/ x = z
            BY <2>4, <2>5 DEF SessSingle
      <2>7. \A q \in Accounts : InAccount(q)' = InAccount(q)
            BY <1>8 DEF S!ReplyLookup, S!index, InAccount, InIndex
      <2>8. \A x \in Sockets : Doomed(x)' = Doomed(x)  BY <1>8 DEF S!ReplyLookup, Doomed
      <2>9. ASSUME NEW q \in Accounts, NEW x \in InAccount(q), NEW y \in InAccount(q)
            PROVE  x = y \/ Doomed(x)' \/ Doomed(y)'
            BY <2>8 DEF SessSingle, InAccount
      <2> QED  BY <2>1, <2>6, <2>7, <2>9 DEF SessSingle
<1>9. ASSUME NEW c \in Sockets, S!ReplyKnown(c) PROVE SessSingle'
      <2>1. \A x \in Sockets : reply'[x].step # "kick" => targets'[x] = {}
            BY <1>9 DEF S!ReplyKnown, S!index, S!events, S!panics, SessTypes, SessHandlers,
               Replies, SessSingle
      <2>2. \A o1 \in Accounts : /\ S!Contenders(o1)' \subseteq S!Contenders(o1)
                                /\ InAccount(o1)' \subseteq InAccount(o1)
            BY <1>9 DEF S!ReplyKnown, S!index, S!events, S!panics, SessTypes, SessTable,
               SessHandlers, Replies, SessOnce, SessCalm, Untouched, S!Contenders,
               InAccount, InIndex, S!GatewaySessionParams
      <2>3. \A x \in Sockets : Doomed(x) => Doomed(x)'
            BY <1>9 DEF S!ReplyKnown, S!index, S!events, S!panics, SessTypes, SessTable,
               SessHandlers, Doomed
      <2> QED  BY <2>1, <2>2, <2>3, StaysSingle
<1>10. ASSUME NEW c \in Sockets, S!ReplyPanics(c) PROVE SessSingle'
      <2>1. \A x \in Sockets : reply'[x].step # "kick" => targets'[x] = {}
            BY <1>10 DEF S!ReplyPanics, S!index, S!events, S!panics, SessTypes, SessHandlers,
               Replies, SessSingle
      <2>2. \A o1 \in Accounts : /\ S!Contenders(o1)' \subseteq S!Contenders(o1)
                                /\ InAccount(o1)' \subseteq InAccount(o1)
            BY <1>10 DEF S!ReplyPanics, S!index, S!events, S!panics, SessTypes, SessTable,
               SessHandlers, Replies, SessOnce, SessCalm, Untouched, S!Contenders,
               InAccount, InIndex, S!GatewaySessionParams
      <2>3. \A x \in Sockets : Doomed(x) => Doomed(x)'
            BY <1>10 DEF S!ReplyPanics, S!index, S!events, S!panics, SessTypes, SessTable,
               SessHandlers, Doomed
      <2> QED  BY <2>1, <2>2, <2>3, StaysSingle
<1>11. ASSUME NEW c \in Sockets, S!ReplyBind(c) PROVE SessSingle'
      <2>0. PICK o \in Accounts : o = reply[c].owner
            BY <1>11 DEF S!ReplyBind, SessTypes, SessHandlers
      <2>1. /\ bound[c] = None /\ c \in sess /\ reply[c] = [step |-> "bind", owner |-> o]
            /\ bound' = [bound EXCEPT ![c] = o] /\ sess' = sess /\ clean' = clean
            /\ open' = open /\ reply' = [reply EXCEPT ![c].step = "kick"]
            /\ targets' = [targets EXCEPT ![c] = S!Oldest(o, c)] /\ targets[c] = {}
            BY <1>11, <2>0
            DEF S!ReplyBind, SessTypes, SessHandlers, Replies, SessCalm, Involved, SessSingle
      <2>2. c \in S!Contenders(o)  BY <2>1 DEF S!Contenders
      <2>3. \A x \in Sockets : reply'[x].step # "kick" => targets'[x] = {}
            BY <2>1 DEF SessTypes, SessHandlers, Replies, SessSingle
      <2>4. \A q \in Accounts : S!Contenders(q)' \subseteq S!Contenders(q)
            BY <2>1 DEF S!Contenders, SessTypes, SessTable, SessHandlers, Replies
      <2>5. ASSUME NEW q \in Accounts, NEW x \in S!Contenders(q)', NEW y \in S!Contenders(q)',
                   NEW z \in S!Contenders(q)'
            PROVE  x = y \/ y = z \/ x = z
            BY <2>4 DEF SessSingle
      <2>6. \A q \in Accounts : \A x \in Sockets :
                x \in InAccount(q)' => x \in InAccount(q) \/ (x = c /\ q = o)
            BY <2>1 DEF InAccount, InIndex, SessTypes, SessTable
      <2>7. \A x \in Sockets : Doomed(x) => Doomed(x)'
            BY <2>1 DEF Doomed, SessTypes, SessHandlers
      <2>8. \A y \in Sockets : y \in InAccount(o) /\ y # c => Doomed(y)'
            <3> SUFFICES ASSUME NEW y \in InAccount(o), y # c PROVE Doomed(y)'
                OBVIOUS
            <3>1. y \in S!Oldest(o, c)  BY <2>2, OldestIsTheOther
            <3>2. targets'[c] = S!Oldest(o, c)  BY <2>1 DEF SessTypes, SessHandlers
            <3> QED  BY <3>1, <3>2 DEF Doomed
      <2>9. ASSUME NEW q \in Accounts, NEW x \in InAccount(q)', NEW y \in InAccount(q)'
            PROVE  x = y \/ Doomed(x)' \/ Doomed(y)'
            <3>1. x \in Sockets /\ y \in Sockets  BY DEF InAccount
            <3>2. CASE x \in InAccount(q) /\ y \in InAccount(q)
                  BY <2>7, <3>1, <3>2 DEF SessSingle
            <3>3. CASE x \notin InAccount(q)  BY <2>6, <2>8, <3>1, <3>3
            <3>4. CASE y \notin InAccount(q)  BY <2>6, <2>8, <3>1, <3>4
            <3> QED  BY <3>2, <3>3, <3>4
      <2> QED  BY <2>3, <2>5, <2>9 DEF SessSingle
<1>12. ASSUME NEW c \in Sockets, S!ReplyKick(c) PROVE SessSingle'
      <2>1. \A x \in Sockets : reply'[x].step # "kick" => targets'[x] = {}
            BY <1>12 DEF S!ReplyKick, SessTypes, SessHandlers, Replies, SessSingle
      <2>2. \A o \in Accounts : /\ S!Contenders(o)' \subseteq S!Contenders(o)
                               /\ InAccount(o)' \subseteq InAccount(o)
            <3>1. \A x \in Sockets : reply'[x].step = "bind" => reply'[x] = reply[x]
                  BY <1>12 DEF S!ReplyKick, SessTypes, SessHandlers, Replies
            <3> QED  BY <1>12, <3>1 DEF S!ReplyKick, S!index, S!Contenders, InAccount, InIndex
      <2>3. \A x \in Sockets : Doomed(x) => Doomed(x)'
            BY <1>12 DEF S!ReplyKick, S!Kicked, SessTypes, SessTable, SessHandlers, Doomed
      <2> QED  BY <2>1, <2>2, <2>3, StaysSingle
<1>13. ASSUME NEW c \in Sockets, S!ReplyTell(c) PROVE SessSingle'
      <2>1. \A x \in Sockets : reply'[x].step # "kick" => targets'[x] = {}
            BY <1>13 DEF S!ReplyTell, S!index, S!events, S!panics, SessTypes, SessHandlers,
               Replies, SessSingle
      <2>2. \A o1 \in Accounts : /\ S!Contenders(o1)' \subseteq S!Contenders(o1)
                                /\ InAccount(o1)' \subseteq InAccount(o1)
            BY <1>13 DEF S!ReplyTell, S!index, S!events, S!panics, SessTypes, SessTable,
               SessHandlers, Replies, SessOnce, SessCalm, Untouched, S!Contenders,
               InAccount, InIndex, S!GatewaySessionParams
      <2>3. \A x \in Sockets : Doomed(x) => Doomed(x)'
            BY <1>13 DEF S!ReplyTell, S!index, S!events, S!panics, SessTypes, SessTable,
               SessHandlers, Doomed
      <2> QED  BY <2>1, <2>2, <2>3, StaysSingle
<1>14. ASSUME NEW c \in Sockets, S!KickBegin(c) PROVE SessSingle'
      BY <1>14 DEF S!KickBegin, SessTypes, SessHandlers, SessCalm
<1>15. ASSUME NEW c \in Sockets, NEW p \in Roles, S!BindPlayer(c, p) PROVE SessSingle'
      <2>1. \A x \in Sockets : reply'[x].step # "kick" => targets'[x] = {}
            BY <1>15 DEF S!BindPlayer, S!Command, S!Kicked, S!index, S!events, S!panics,
               SessTypes, SessHandlers, Replies, SessSingle
      <2>2. \A o1 \in Accounts : /\ S!Contenders(o1)' \subseteq S!Contenders(o1)
                                /\ InAccount(o1)' \subseteq InAccount(o1)
            BY <1>15 DEF S!BindPlayer, S!Command, S!Kicked, S!index, S!events, S!panics,
               SessTypes, SessTable, SessHandlers, Replies, SessOnce, SessCalm, Untouched,
               S!Contenders,
               InAccount, InIndex, S!GatewaySessionParams
      <2>3. \A x \in Sockets : Doomed(x) => Doomed(x)'
            BY <1>15 DEF S!BindPlayer, S!Command, S!Kicked, S!index, S!events, S!panics,
               SessTypes, SessTable, SessHandlers, Doomed
      <2> QED  BY <2>1, <2>2, <2>3, StaysSingle
<1>16. ASSUME S!KickIndex PROVE SessSingle'
      BY <1>16 DEF S!KickIndex, SessTypes, SessHandlers, SessCalm
<1>17. ASSUME S!KickPanics PROVE SessSingle'
      BY <1>17 DEF S!KickPanics, SessTypes, SessHandlers, SessCalm
<1>18. ASSUME S!KickRest PROVE SessSingle'
      BY <1>18 DEF S!KickRest, SessTypes, SessHandlers, SessCalm
<1>19. ASSUME S!AddExtra PROVE SessSingle'
      <2>1. \A x \in Sockets : reply'[x].step # "kick" => targets'[x] = {}
            BY <1>19 DEF S!AddExtra, S!Done, S!Idle, S!index, S!events, S!panics, SessTypes,
               SessHandlers, Replies, SessSingle
      <2>2. \A o1 \in Accounts : /\ S!Contenders(o1)' \subseteq S!Contenders(o1)
                                /\ InAccount(o1)' \subseteq InAccount(o1)
            BY <1>19 DEF S!AddExtra, S!Done, S!Idle, S!index, S!events, S!panics, SessTypes,
               SessTable, SessHandlers, Replies, SessOnce, SessCalm, Untouched, S!Contenders,
               InAccount, InIndex, S!GatewaySessionParams
      <2>3. \A x \in Sockets : Doomed(x) => Doomed(x)'
            BY <1>19 DEF S!AddExtra, S!Done, S!Idle, S!index, S!events, S!panics, SessTypes,
               SessTable, SessHandlers, Doomed
      <2> QED  BY <2>1, <2>2, <2>3, StaysSingle
<1> QED  BY <1>1, <1>2, <1>3, <1>4, <1>5, <1>6, <1>7, <1>8, <1>9, <1>10, <1>11, <1>12, <1>13,
            <1>14, <1>15, <1>16, <1>17, <1>18, <1>19 DEF S!Next

LEMMA SameSize == \A T : S!Cardinality(T) = Cardinality(T)
    BY DEF S!Cardinality, Cardinality

LEMMA SessStart == S!GatewaySessionParams /\ S!Init => SessInv
<1> SUFFICES ASSUME S!GatewaySessionParams, S!Init PROVE SessInv
    OBVIOUS
<1>1. SessTypes
      <2>1. SessTable  BY DEF S!Init, SessTable
      <2>2. SessIndexes
            <3>1. <<>> \in Seq(Sockets \cup {None}) /\ <<>> \in Seq(Sockets)  OBVIOUS
            <3> QED  BY <3>1 DEF S!Init, SessIndexes
      <2>3. SessHandlers  BY DEF S!Init, S!Idle, SessHandlers, Replies, Orders
      <2> QED  BY <2>1, <2>2, <2>3 DEF SessTypes
<1>2. SessOnce  BY DEF S!Init, SessOnce, Ends, One
<1>3. SessCalm
      BY DEF S!Init, S!Idle, SessCalm, Involved, Untouched, S!GatewaySessionParams
<1>4. SessIndexed
      <2>1. Lists(<<>>, {})  BY DEF Lists, S!ToSet, S!IsInjective
      <2>2. \A o \in Accounts : InAccount(o) = {}
            BY DEF S!Init, InAccount, S!GatewaySessionParams
      <2>3. \A p \in Roles : {c \in Sockets : extra[c] = p} = {}
            BY DEF S!Init, S!GatewaySessionParams
      <2>4. \A o \in Accounts : idx[o] = <<>>  BY DEF S!Init
      <2>5. \A p \in Roles : pidx[p] = <<>>  BY DEF S!Init
      <2> QED  BY <2>1, <2>2, <2>3, <2>4, <2>5 DEF SessIndexed
<1>5. SessTold  BY DEF S!Init, SessTold
<1>6. SessSingle
      <2>1. \A o \in Accounts : InAccount(o) = {} /\ S!Contenders(o) = {}
            BY DEF S!Init, InAccount, S!Contenders, S!GatewaySessionParams
      <2>2. \A c \in Sockets : targets[c] = {}  BY DEF S!Init
      <2> QED  BY <2>1, <2>2 DEF SessSingle
<1> QED  BY <1>1, <1>2, <1>3, <1>4, <1>5, <1>6 DEF SessInv

LEMMA SessStep == S!GatewaySessionParams /\ SessInv /\ [S!Next]_(S!vars) => SessInv'
<1> SUFFICES ASSUME S!GatewaySessionParams, SessInv, [S!Next]_(S!vars) PROVE SessInv'
    OBVIOUS
<1>1. CASE S!Next
      <2>1. SessTypes'
            BY <1>1, SessTableKept, SessIndexesKept, SessHandlersKept DEF SessInv, SessTypes
      <2>2. SessOnce'  BY <1>1, SessOnceKept DEF SessInv
      <2>3. calm' = calm
            <3> USE DEF S!Create, S!ClientCloses, S!CleanBegin, S!CleanIndex, S!CleanExtras,
                        S!CleanTell, S!HardFires, S!ReplyLookup, S!ReplyKnown, S!ReplyPanics,
                        S!ReplyBind, S!ReplyKick, S!ReplyTell, S!KickBegin, S!BindPlayer,
                        S!KickIndex, S!KickPanics, S!KickRest, S!AddExtra
            <3> QED  BY <1>1, Zenon DEF S!Next
      <2>4. ASSUME calm PROVE SessCalm' /\ SessIndexed' /\ SessTold' /\ SessSingle'
            <3>1. SessCalm /\ SessIndexed /\ SessTold /\ SessSingle /\ SessTypes /\ SessOnce
                  BY <2>4 DEF SessInv
            <3>2. SessCalm'  BY <1>1, <2>4, <3>1, SessCalmKept
            <3>3. SessIndexed'  BY <1>1, <2>4, <3>1, SessIndexedKept
            <3>4. SessTold'  BY <1>1, <2>1, <2>2, <2>4, <3>1, <3>2, SessToldKept
            <3>5. SessSingle'  BY <1>1, <2>4, <3>1, SessSingleKept
            <3> QED  BY <3>2, <3>3, <3>4, <3>5
      <2> QED  BY <2>1, <2>2, <2>3, <2>4 DEF SessInv
<1>2. CASE UNCHANGED S!vars
      <2> USE <1>2 DEF S!vars, S!index, S!events, S!panics
      <2>1. SessTypes'
            BY DEF SessInv, SessTypes, SessTable, SessIndexes, SessHandlers
      <2>2. SessOnce'  BY DEF SessInv, SessOnce, Ends
      <2>3. calm' = calm  OBVIOUS
      <2>4. SessCalm => SessCalm'  BY DEF SessCalm, Involved, Untouched
      <2>5. \A o \in Accounts : InAccount(o)' = InAccount(o)  BY DEF InAccount, InIndex
      <2>6. SessIndexed => SessIndexed'  BY <2>5, SameLists
      <2>7. SessTold => SessTold'  BY DEF SessTold, Told
      <2>8. SessSingle => SessSingle'
            <3>1. \A o \in Accounts : S!Contenders(o)' = S!Contenders(o)  BY DEF S!Contenders
            <3>2. \A c \in Sockets : Doomed(c)' = Doomed(c)  BY DEF Doomed
            <3>3. SessSingle => \A c \in Sockets : reply'[c].step # "kick" => targets'[c] = {}
                  BY DEF SessSingle
            <3> QED  BY <2>5, <3>1, <3>2, <3>3, StaysSingle
      <2> QED  BY <2>1, <2>2, <2>3, <2>4, <2>6, <2>7, <2>8 DEF SessInv
<1> QED  BY <1>1, <1>2

LEMMA SessMeans ==
    ASSUME S!GatewaySessionParams, SessInv
    PROVE  S!GSTypeOK /\ S!DisconnectOnce /\ S!IndexExact /\ S!EndIsTold /\ S!SingleSession
<1>1. SessTypes /\ SessOnce  BY DEF SessInv
<1>2. S!GSTypeOK
      <2>1. \A o \in Accounts : S!ToSet(idx[o]) \subseteq Sockets \cup {None}
            <3> SUFFICES ASSUME NEW o \in Accounts
                         PROVE  S!ToSet(idx[o]) \subseteq Sockets \cup {None}
                OBVIOUS
            <3>1. idx[o] \in Seq(Sockets \cup {None})  BY <1>1 DEF SessTypes, SessIndexes
            <3> QED  BY <3>1, LenProperties, ElementOfSeq DEF S!ToSet
      <2>2. \A p \in Roles : S!ToSet(pidx[p]) \subseteq Sockets
            <3> SUFFICES ASSUME NEW p \in Roles PROVE S!ToSet(pidx[p]) \subseteq Sockets
                OBVIOUS
            <3>1. pidx[p] \in Seq(Sockets)  BY <1>1 DEF SessTypes, SessIndexes
            <3> QED  BY <3>1, LenProperties, ElementOfSeq DEF S!ToSet
      <2> QED  BY <1>1, <2>1, <2>2 DEF S!GSTypeOK, SessTypes, SessTable, SessHandlers
<1>3. S!DisconnectOnce
      <2> SUFFICES ASSUME NEW c \in Sockets PROVE gone[c] <= begun[c]
          BY DEF S!DisconnectOnce
      <2>1. gone[c] \in Nat /\ begun[c] \in Nat  BY <1>1 DEF SessTypes, SessTable
      <2> DEFINE x == One(hard[c] # None)
                 y == One(clean[c] # "idle")
                 z == One(c \in sess)
      <2>2. x \in Nat /\ y \in Nat /\ z \in Nat  BY DEF One
      <2>3. gone[c] + x + y + z <= begun[c]  BY <1>1 DEF SessOnce, Ends
      <2> HIDE DEF x, y, z
      <2> QED  BY <2>1, <2>2, <2>3
<1>4. ASSUME calm, S!AtRest
      PROVE  /\ SessCalm /\ SessIndexed /\ SessTold /\ SessSingle
             /\ \A c \in Sockets : reply[c].step = "idle" /\ clean[c] = "idle"
             /\ \A c \in Sockets : c \in sess => c \in open
             /\ \A o \in Accounts : InAccount(o) = {c \in sess : bound[c] = o}
      BY <1>1, <1>4 DEF SessInv, S!AtRest, InAccount, InIndex, SessTypes, SessTable
<1>5. S!IndexExact
      <2> SUFFICES ASSUME calm, S!AtRest
                   PROVE  /\ \A o \in Accounts : Lists(idx[o], {c \in sess : bound[c] = o})
                          /\ \A p \in Roles : Lists(pidx[p], {c \in sess : extra[c] = p})
                          /\ \A c \in Sockets : c \in sess => ownerOf[c] = bound[c]
          BY DEF S!IndexExact, Lists
      <2>1. \A o \in Accounts : Lists(idx[o], {c \in sess : bound[c] = o})
            BY <1>4 DEF SessIndexed
      <2>2. \A p \in Roles : {c \in Sockets : extra[c] = p} = {c \in sess : extra[c] = p}
            BY <1>1, <1>4 DEF SessCalm, SessTypes, SessTable, S!GatewaySessionParams
      <2>3. \A p \in Roles : Lists(pidx[p], {c \in sess : extra[c] = p})
            BY <1>4, <2>2 DEF SessIndexed
      <2> QED  BY <1>4, <2>1, <2>3 DEF SessCalm
<1>6. S!EndIsTold  BY <1>4 DEF S!EndIsTold, SessTold, Told
<1>7. S!SingleSession
      <2> SUFFICES ASSUME calm, S!AtRest, NEW o \in Accounts
                   PROVE  Cardinality({c \in sess : bound[c] = o}) <= 1
          BY SameSize DEF S!SingleSession
      <2>1. \A c \in Sockets : targets[c] = {}  BY <1>4 DEF SessSingle
      <2>2. \A x, y \in InAccount(o) : x = y
            <3> SUFFICES ASSUME NEW x \in InAccount(o), NEW y \in InAccount(o) PROVE x = y
                OBVIOUS
            <3>0. /\ SessSingle /\ InAccount(o) = {c \in sess : bound[c] = o}
                  /\ sess \subseteq Sockets /\ \A c \in Sockets : c \in sess => c \in open
                  BY <1>1, <1>4 DEF SessTypes, SessTable
            <3>1. x \in open /\ y \in open  BY <3>0
            <3> QED  BY <2>1, <3>0, <3>1 DEF SessSingle, Doomed
      <2>3. InAccount(o) = {} \/ \E x : InAccount(o) = {x}  BY <2>2
      <2>4. Cardinality(InAccount(o)) <= 1
            <3>1. CASE InAccount(o) = {}  BY <3>1, FS_EmptySet
            <3>2. ASSUME NEW x, InAccount(o) = {x} PROVE Cardinality(InAccount(o)) <= 1
                  <4>1. Cardinality({x}) = 1  BY FS_Singleton
                  <4> QED  BY <3>2, <4>1
            <3> QED  BY <2>3, <3>1, <3>2
      <2> QED  BY <1>4, <2>4
<1> QED  BY <1>2, <1>3, <1>5, <1>6, <1>7

(* createSession, makeUpstreamHandler, cleanup, for any connections,       *)
(* accounts, logins and commands: a session ends once, and while no        *)
(* connection ends in the middle of a handler about it the indexes are     *)
(* exact at rest, an end is told, and an account has one session.          *)
THEOREM SessionsAreKept ==
    ASSUME S!GatewaySessionParams
    PROVE  S!Spec => [](S!DisconnectOnce /\ S!IndexExact /\ S!EndIsTold /\ S!SingleSession)
<1>1. S!Init => SessInv  BY SessStart
<1>2. SessInv /\ [S!Next]_(S!vars) => SessInv'  BY SessStep
<1>3. SessInv => S!DisconnectOnce /\ S!IndexExact /\ S!EndIsTold /\ S!SingleSession
      BY SessMeans
<1> QED  BY <1>1, <1>2, <1>3, PTL DEF S!Spec
=============================================================================
