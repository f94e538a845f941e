--------------------------- MODULE PlayerPresence ---------------------------
(***************************************************************************)
(* Where one player is: what his messages and the end of a connection do   *)
(* at the game process (the BeforeDispatch hook and the disconnect handler *)
(* of app/game.go) to his location at the master (Directory), to the       *)
(* node's own note of it and to the data layer's mark.  Every node runs a  *)
(* gateway and a game process ("all" mode: only there do the gateway's     *)
(* events reach the game); a message and a disconnect are handled by       *)
(* different goroutines.                                                   *)
(***************************************************************************)
EXTENDS Directory

CONSTANTS
    Player,             \* the player, his account
    Conns, Homes,       \* connections, and the ways they may be spread over the nodes
    DisconnectGrace,    \* does the gateway delay the disconnect event?
    MaxFaults,          \* bound: RPCs to the master that fail
    MaxKicks            \* bound: kicks by the business

PresenceParams ==
    /\ Player \in Uids /\ Homes \subseteq [Conns -> Nodes]
    /\ DisconnectGrace \in BOOLEAN /\ MaxFaults \in Nat /\ MaxKicks \in Nat

VARIABLES
    home,       \* the node of each connection
    link,       \* the gateway's session: "off", "open", "down" (soft), "over"
    bound,      \* is it bound to the account?
    msg,        \* the message being handled: its step
    leave,      \* the disconnect handler: its step
    local,      \* localPlayers of the cross-node bus of each node
    online,     \* the data layer's mark of the player
    faults, kicks

here == <<local, online>>
gateway == <<link, bound>>
vars == <<directory, home, gateway, msg, leave, here, faults, kicks>>

Init ==
    /\ DirectoryInit
    /\ home \in Homes
    /\ link = [k \in Conns |-> "off"] /\ bound = [k \in Conns |-> FALSE]
    /\ msg = [k \in Conns |-> "idle"] /\ leave = [k \in Conns |-> "none"]
    /\ local = [n \in Nodes |-> FALSE] /\ online = local
    /\ faults = 0 /\ kicks = 0

Goes(pc, k, from, to) == pc[k] = from /\ pc' = [pc EXCEPT ![k] = to]

-----------------------------------------------------------------------------
(* The gateway of k's node, as far as the game sees it (GatewaySession)    *)

Open(k) ==
    /\ Goes(link, k, "off", "open")
    /\ UNCHANGED <<directory, home, bound, msg, leave, here, faults, kicks>>

(* A frame is forwarded.  One that names the account is registered first.  *)
Send(k) ==
    /\ link[k] = "open"
    /\ Goes(msg, k, "idle", IF bound[k] THEN "register" ELSE "login")
    /\ UNCHANGED <<directory, home, gateway, leave, here, faults, kicks>>

(* The login is answered: the gateway binds the session, kicks the other   *)
(* ones of the account and cancels the disconnects that wait.              *)
LoggedIn(k) ==
    LET Others == {j \in Conns \ {k} : home[j] = home[k] /\ bound[j]} IN
    /\ link[k] = "open" /\ Goes(msg, k, "login", "idle")
    /\ bound' = [bound EXCEPT ![k] = TRUE]
    /\ link' = [j \in Conns |-> IF j \in Others /\ link[j] # "off" THEN "over" ELSE link[j]]
    /\ UNCHANGED <<directory, home, leave, here, faults, kicks>>

(* It was another message, or the login failed.                            *)
NotLoggedIn(k) ==
    /\ Goes(msg, k, "login", "idle")
    /\ UNCHANGED <<directory, home, gateway, leave, here, faults, kicks>>

(* The session ends: its disconnect event is delayed or comes at once; one *)
(* that was never bound ends unheard.                                      *)
Ends(k) ==
    /\ Goes(link, k, "open", IF bound[k] /\ DisconnectGrace THEN "down" ELSE "over")
    /\ leave' = [leave EXCEPT ![k] = IF bound[k] /\ ~DisconnectGrace THEN "offline" ELSE @]
    /\ UNCHANGED <<directory, home, bound, msg, here, faults, kicks>>

HardDisconnect(k) ==
    /\ Goes(link, k, "down", "over") /\ leave' = [leave EXCEPT ![k] = "offline"]
    /\ UNCHANGED <<directory, home, bound, msg, here, faults, kicks>>

(* Game.KickConn: the gateway closes a kicked session without an event.    *)
KickConn(k) ==
    /\ kicks < MaxKicks /\ kicks' = kicks + 1
    /\ Goes(link, k, "open", "over")
    /\ UNCHANGED <<directory, home, bound, msg, leave, here, faults>>

-----------------------------------------------------------------------------
(* A message of k *)

(* Mutation: a player the data layer holds online is not registered again. *)
EnterOnce(k) ==
    /\ Goes(msg, k, "register", "local")
    /\ IF online[home[k]] THEN UNCHANGED directory ELSE RegisterPlayer(Player, home[k])
    /\ UNCHANGED <<home, gateway, leave, here, faults, kicks>>

(* OnPlayerEnter: on every message the player is registered at the master  *)
(* and, once that has answered, noted here.                                *)
Enter(k) ==
    /\ Goes(msg, k, "register", "local") /\ RegisterPlayer(Player, home[k])
    /\ UNCHANGED <<home, gateway, leave, here, faults, kicks>>

(* The registration fails, or its answer is lost; nobody looks.            *)
EnterFails(k) ==
    /\ Goes(msg, k, "register", "online") /\ faults < MaxFaults /\ faults' = faults + 1
    /\ UNCHANGED directory \/ RegisterPlayer(Player, home[k])
    /\ UNCHANGED <<home, gateway, leave, here, kicks>>

Entered(k) ==
    /\ Goes(msg, k, "local", "online") /\ local' = [local EXCEPT ![home[k]] = TRUE]
    /\ UNCHANGED <<directory, home, gateway, leave, online, faults, kicks>>

(* The player is marked online; then the handler runs.                     *)
SetOnline(k) ==
    /\ Goes(msg, k, "online", "idle") /\ online' = [online EXCEPT ![home[k]] = TRUE]
    /\ UNCHANGED <<directory, home, gateway, leave, local, faults, kicks>>

-----------------------------------------------------------------------------
(* The disconnect handler of k, after it has parked the bag                *)
(* (ConnectionBags) and flushed the data (DataStore)                       *)

SetOffline(k) ==
    /\ Goes(leave, k, "offline", "remove") /\ online' = [online EXCEPT ![home[k]] = FALSE]
    /\ UNCHANGED <<directory, home, gateway, msg, local, faults, kicks>>

(* OnPlayerLeave: the master forgets the player if he is still here, and   *)
(* then so does the node; ...                                              *)
Leave(k) ==
    /\ Goes(leave, k, "remove", "forget") /\ RemovePlayer(Player, home[k])
    /\ UNCHANGED <<home, gateway, msg, here, faults, kicks>>

Forget(k) ==
    /\ Goes(leave, k, "forget", "done") /\ local' = [local EXCEPT ![home[k]] = FALSE]
    /\ UNCHANGED <<directory, home, gateway, msg, online, faults, kicks>>

(* ... an error is logged and ends the handler.                            *)
LeaveFails(k) ==
    /\ Goes(leave, k, "remove", "done") /\ faults < MaxFaults /\ faults' = faults + 1
    /\ UNCHANGED directory \/ RemovePlayer(Player, home[k])
    /\ UNCHANGED <<home, gateway, msg, here, kicks>>

-----------------------------------------------------------------------------
Message(k) ==
    Enter(k) \/ EnterFails(k) \/ Entered(k) \/ SetOnline(k) \/ LoggedIn(k) \/ NotLoggedIn(k)

Disconnect(k) ==
    HardDisconnect(k) \/ SetOffline(k) \/ Leave(k) \/ LeaveFails(k) \/ Forget(k)

Next == \E k \in Conns :
    Open(k) \/ Send(k) \/ Ends(k) \/ KickConn(k) \/ Message(k) \/ Disconnect(k)

Spec == Init /\ [][Next]_vars

(* The goroutines of messages and disconnects go on and the gateway's      *)
(* timer fires; an open client beats.                                      *)
Fairness == \A k \in Conns :
    WF_vars(Message(k)) /\ WF_vars(Disconnect(k)) /\ WF_vars(Send(k))
FairSpec == Spec /\ Fairness

-----------------------------------------------------------------------------
(* Properties *)

PPTypeOK ==
    /\ DirectoryTypeOK /\ home \in Homes
    /\ link \in [Conns -> {"off", "open", "down", "over"}] /\ bound \in [Conns -> BOOLEAN]
    /\ msg \in [Conns -> {"idle", "login", "register", "local", "online"}]
    /\ leave \in [Conns -> {"none", "offline", "remove", "forget", "done"}]
    /\ local \in [Nodes -> BOOLEAN] /\ online \in [Nodes -> BOOLEAN]

(* registerCrossNodePlayer ("lazy, idempotent"): the disconnect handler of *)
(* an old connection may run after messages of a new one and take the      *)
(* player off the directory and off line.  A connection that is the only   *)
(* one left and goes on beating has him located at its node again, and     *)
(* marked and noted there, for good.                                       *)
OnlyOne(k) == link[k] = "open" /\ bound[k] /\ \A j \in Conns \ {k} : link[j] \in {"off", "over"}
Located(k) == players[Player] = home[k] /\ online[home[k]] /\ local[home[k]]
PresentIsLocated == \A k \in Conns : <>[]OnlyOne(k) => <>[]Located(k)

(* unregisterCrossNodePlayer: with every connection gone and nothing being *)
(* handled, no node and not the master believe the player to be there.     *)
Departed == \A k \in Conns :
    link[k] \in {"off", "over"} /\ msg[k] = "idle" /\ leave[k] \in {"none", "done"}
DepartedIsForgotten ==
    Departed => players[Player] = None /\ \A n \in Nodes : ~local[n] /\ ~online[n]
=============================================================================
