--------------------------- MODULE ConnectionBags ---------------------------
(***************************************************************************)
(* The bags of a game process (app/connection.go): each connection of an   *)
(* account has a bag with what the business keeps for its session.  When a *)
(* connection breaks its bag is parked under the account, for a grace      *)
(* period; the next message that names the account takes it over.  The two *)
(* maps are concurrent maps, and a bag on its way from one to the other is *)
(* in the hands of a goroutine.                                            *)
(***************************************************************************)
EXTENDS Naturals

CONSTANTS
    Conns,      \* the connections of one account, in this process
    None,
    MaxBags     \* bound: bags made for a connection

ConnectionBagsParams == None \notin Conns /\ MaxBags \in Nat \ {0}

VARIABLES
    msg,        \* a message of k in BeforeDispatch: the step it is at
    park,       \* ParkBag of k, once its disconnect event has come
    bag, made,  \* connBags[k]; how many bags were made for k
    hand,       \* the bag RestoreBag has taken and not yet stored
    pending,    \* pendingBags[account]: the connection it was parked from, or None
    parked,     \* the bag in the record of k
    settled, timer, \* its flag and its timer
    del         \* DeleteBag of k, or ClearByOwner that found its record

msgs == <<msg, hand>>
records == <<pending, parked, settled, timer>>
vars == <<msgs, park, bag, made, records, del>>

NoBag == <<>>

Init ==
    /\ msg = [k \in Conns |-> "idle"] /\ park = [k \in Conns |-> "none"]
    /\ bag = [k \in Conns |-> NoBag] /\ made = [k \in Conns |-> 0] /\ hand = bag
    /\ pending = None /\ parked = bag
    /\ settled = [k \in Conns |-> FALSE] /\ timer = [k \in Conns |-> "none"]
    /\ del = [k \in Conns |-> "none"]

Goes(pc, k, from, to) == pc[k] = from /\ pc' = [pc EXCEPT ![k] = to]

-----------------------------------------------------------------------------
(* The record of connection r is over. *)
Settle(r) ==
    /\ settled' = [settled EXCEPT ![r] = TRUE]
    /\ timer' = [timer EXCEPT ![r] = IF @ = "set" THEN "stopped" ELSE @]

(* A message of k that names the account.  The frames of a connection are  *)
(* handled one by one; some may be left when its end is handled.           *)
Message(k) ==
    /\ Goes(msg, k, "idle", "restore")
    /\ UNCHANGED <<hand, park, bag, made, records, del>>

(* The session is not bound to the account yet: nothing to restore.        *)
FirstMessage(k) ==
    /\ made[k] = 0
    /\ Goes(msg, k, "idle", "ensure")
    /\ UNCHANGED <<hand, park, bag, made, records, del>>

(* Mutation: the record is read and deleted in two steps. *)
RestoreReads(k) ==
    /\ pending # None
    /\ Goes(msg, k, "restore", "store")
    /\ hand' = [hand EXCEPT ![k] = parked[pending]]
    /\ UNCHANGED <<park, bag, made, del, records>>

(* RestoreBag takes the pending record out (LoadAndDelete), ...            *)
RestoreTake(k) ==
    /\ pending # None
    /\ Goes(msg, k, "restore", "store")
    /\ hand' = [hand EXCEPT ![k] = parked[pending]]
    /\ Settle(pending)
    /\ pending' = None /\ parked' = [parked EXCEPT ![pending] = NoBag]
    /\ UNCHANGED <<park, bag, made, del>>

RestoreNothing(k) ==
    /\ pending = None
    /\ Goes(msg, k, "restore", "ensure")
    /\ UNCHANGED <<hand, park, bag, made, records, del>>

(* ... and stores its bag over the one the connection has.                 *)
RestoreStore(k) ==
    /\ Goes(msg, k, "store", "ensure")
    /\ bag' = [bag EXCEPT ![k] = hand[k]] /\ hand' = [hand EXCEPT ![k] = NoBag]
    /\ UNCHANGED <<park, made, records, del>>

EnsureBag(k) ==
    /\ Goes(msg, k, "ensure", "idle")
    /\ IF bag[k] = NoBag
       THEN /\ made[k] < MaxBags /\ made' = [made EXCEPT ![k] = @ + 1]
            /\ bag' = [bag EXCEPT ![k] = <<k, made[k]>>]
       ELSE UNCHANGED <<bag, made>>
    /\ UNCHANGED <<hand, park, records, del>>

-----------------------------------------------------------------------------
(* The disconnect event of k: ParkBag takes the bag, ...                   *)
ParkTake(k) ==
    /\ made[k] > 0
    /\ Goes(park, k, "none", IF bag[k] = NoBag THEN "done" ELSE "swap")
    /\ parked' = [parked EXCEPT ![k] = bag[k]] /\ bag' = [bag EXCEPT ![k] = NoBag]
    /\ UNCHANGED <<msgs, made, pending, settled, timer, del>>

(* ... publishes the record in place of an older one, whose timer it stops *)
(* if that has been set, ...                                               *)
ParkSwap(k) ==
    /\ Goes(park, k, "swap", "timer")
    /\ pending' = k
    /\ timer' = [j \in Conns |-> IF j = pending /\ timer[j] = "set" THEN "stopped" ELSE timer[j]]
    /\ parked' = [j \in Conns |-> IF j = pending THEN NoBag ELSE parked[j]]
    /\ UNCHANGED <<msgs, bag, made, settled, del>>

(* ... and starts its own timer, to stop it again if the record has been   *)
(* settled meanwhile.                                                      *)
ParkTimer(k) ==
    /\ Goes(park, k, "timer", "done")
    /\ timer' = [timer EXCEPT ![k] = IF settled[k] THEN "stopped" ELSE "set"]
    /\ UNCHANGED <<msgs, bag, made, pending, parked, settled, del>>

(* Mutation: whatever record is pending goes. *)
GraceEndsAnyway(k) ==
    /\ Goes(timer, k, "set", "fired")
    /\ pending' = None
    /\ parked' = [parked EXCEPT ![k] = NoBag]
    /\ UNCHANGED <<msgs, park, bag, made, settled, del>>

(* The grace is over: the record goes, if it is still the pending one.     *)
GraceEnds(k) ==
    /\ Goes(timer, k, "set", "fired")
    /\ pending' = (IF pending = k THEN None ELSE pending)
    /\ parked' = [parked EXCEPT ![k] = NoBag]
    /\ UNCHANGED <<msgs, park, bag, made, settled, del>>

-----------------------------------------------------------------------------
(* DeleteBag, for a kick (Kick, ClearConn): the bag goes, then Range finds *)
(* the record that was parked from this connection, ...                    *)
DeleteBag(k) ==
    /\ Goes(del, k, "none", "find") /\ bag' = [bag EXCEPT ![k] = NoBag]
    /\ UNCHANGED <<msgs, park, made, records>>

DeleteFinds(k) ==
    /\ Goes(del, k, "find", IF pending = k THEN "remove" ELSE "done")
    /\ IF pending = k THEN Settle(k) ELSE UNCHANGED <<settled, timer>>
    /\ UNCHANGED <<msgs, park, bag, made, pending, parked>>

(* ... and what is pending by then is removed, whatever its connection.    *)
DeleteRemoves(k) ==
    /\ Goes(del, k, "remove", "done")
    /\ pending' = None
    /\ parked' = [j \in Conns |-> IF j = pending THEN NoBag ELSE parked[j]]
    /\ UNCHANGED <<msgs, park, bag, made, settled, timer>>

(* ClearByOwner (ClearConnByAccount) takes the pending record out, which   *)
(* it does not mark settled, and then the bag of its connection.           *)
ClearByOwner(k) ==
    /\ pending = k
    /\ Goes(del, k, "none", "clear")
    /\ pending' = None
    /\ timer' = [timer EXCEPT ![k] = IF @ = "set" THEN "stopped" ELSE @]
    /\ parked' = [parked EXCEPT ![k] = NoBag]
    /\ UNCHANGED <<msgs, park, bag, made, settled>>

ClearBag(k) ==
    /\ Goes(del, k, "clear", "done") /\ bag' = [bag EXCEPT ![k] = NoBag]
    /\ UNCHANGED <<msgs, park, made, records>>

Next == \E k \in Conns :
    \/ Message(k) \/ FirstMessage(k) \/ RestoreTake(k) \/ RestoreNothing(k)
    \/ RestoreStore(k) \/ EnsureBag(k)
    \/ ParkTake(k) \/ ParkSwap(k) \/ ParkTimer(k) \/ GraceEnds(k)
    \/ DeleteBag(k) \/ DeleteFinds(k) \/ DeleteRemoves(k) \/ ClearByOwner(k) \/ ClearBag(k)

Spec == Init /\ [][Next]_vars

-----------------------------------------------------------------------------
(* Properties *)

CBTypeOK ==
    /\ msg \in [Conns -> {"idle", "restore", "store", "ensure"}]
    /\ park \in [Conns -> {"none", "swap", "timer", "done"}]
    /\ \A f \in {bag, hand, parked} : \A k \in Conns : f[k] = NoBag \/ f[k] \in Conns \X Nat
    /\ made \in [Conns -> 0..MaxBags] /\ pending \in Conns \cup {None}
    /\ settled \in [Conns -> BOOLEAN]
    /\ timer \in [Conns -> {"none", "set", "stopped", "fired"}]
    /\ del \in [Conns -> {"none", "find", "remove", "clear", "done"}]

(* A bag is the state of one session: however the messages of a new        *)
(* connection, the parking of older ones and the timers meet, no two       *)
(* connections, records or goroutines hold the same bag.                   *)
BagHasOneHolder ==
    LET Places == {"map", "hand", "record"} \X Conns
        In(p) == CASE p[1] = "map" -> bag[p[2]] [] p[1] = "hand" -> hand[p[2]]
                   [] p[1] = "record" -> parked[p[2]]
    IN  \A p, q \in Places : In(p) # NoBag /\ p # q => In(p) # In(q)

(* ParkBag and PendingBag.settled: the bag of a broken connection waits    *)
(* for the player until it is restored, parked over, deleted with its      *)
(* connection or account, or until its own grace is over.  The timer of an *)
(* earlier record, which may be set only after that record has been        *)
(* replaced, does not end it.  But a DeleteBag that found an earlier       *)
(* record, replaced before it was removed, takes this one.                 *)
GraceStep ==
    pending # None /\ pending' = None =>
        \/ settled'[pending]
        \/ del[pending] = "none" /\ del'[pending] = "clear"
        \/ timer[pending] = "set" /\ timer'[pending] = "fired"
        \/ \E k \in Conns \ {pending} : settled[k] /\ del[k] = "remove" /\ del'[k] = "done"
GraceIsKept == [][GraceStep]_vars
=============================================================================
