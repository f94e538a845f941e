--------------------------- MODULE SceneTransfer ---------------------------
(***************************************************************************)
(* How an object moves from scene to scene within a process and between    *)
(* processes (mmo/scenemanager.go, cluster.go, transport/remotexfer.go).   *)
(* A scene lives at one node, which keeps it registered in a shared table  *)
(* of routes, for a time that runs out.  The source publishes an           *)
(* instruction and lets go of the object; the target, if it still has the  *)
(* scene, takes it in.  Messages are sent once and may be lost.            *)
(***************************************************************************)
EXTENDS Naturals, FiniteSets

CONSTANTS
    Nodes, Scenes, None,
    Home,           \* the node of a scene
    Callers, At,    \* the goroutines that call TransferRemote, and their nodes
    Instances,      \* numbers of instances the object may be in; 0 is the default one
    MaxTransfers,   \* bound: calls of TransferRemote
    MaxFaults       \* bound: lost messages, scenes destroyed, routes expired

SceneTransferParams ==
    /\ None \notin Nodes \union Scenes /\ Home \in [Scenes -> Nodes] /\ At \in [Callers -> Nodes]
    /\ Instances \subseteq Nat /\ MaxTransfers \in Nat /\ MaxFaults \in Nat

VARIABLES
    orderly,    \* nothing is lost or destroyed, and an object that has arrived
                \* is not sent on before its source has let go of it
    instance,   \* of the object
    life,       \* of a scene: "live" (in its manager's table), "ending" or "gone"
    route,      \* the scenes registered with their nodes
    member,     \* the scenes that hold the object (Scene.instanceOf)
    objScene,   \* where each manager believes it to be
    ver, seq,   \* xferVer of the object, or 0, and xferSeq
    wire,       \* instructions on their way
    call,       \* TransferRemote, of each goroutine
    recv,       \* HandleRemoteTransfer at each node
    transfers, faults,
    crossed     \* calls of one node have met, and one had sent the object (a history)

table == <<life, route>>
held == <<member, objScene, ver>>
vars == <<orderly, instance, table, held, seq, wire, call, recv, transfers, faults, crossed>>

Idle == [pc |-> "idle", src |-> None, dst |-> None]
Waiting == [pc |-> "idle", dst |-> None, version |-> 0]

STInit ==
    /\ orderly \in BOOLEAN /\ instance \in Instances
    /\ life = [s \in Scenes |-> "live"] /\ route = Scenes
    /\ \E s \in Scenes :
        /\ member = {s}
        /\ objScene = [n \in Nodes |-> IF n = Home[s] THEN s ELSE None]
    /\ ver = [n \in Nodes |-> 0] /\ seq = ver
    /\ wire = {} /\ call = [g \in Callers |-> Idle] /\ recv = [n \in Nodes |-> Waiting]
    /\ transfers = 0 /\ faults = 0 /\ crossed = FALSE

Call(g, to) == call' = [call EXCEPT ![g] = to]
Recv(n, to) == recv' = [recv EXCEPT ![n] = to]
Returns(g) == Call(g, Idle)
Live(s) == life[s] = "live"

-----------------------------------------------------------------------------
(* What a scene does under its lock and the manager's *)

Unlocked(s) ==
    /\ \A g \in Callers : call[g].pc = "set" => call[g].dst # s
    /\ \A n \in Nodes : recv[n].pc = "set" => recv[n].dst # s

(* EnterOwnerTypeInstance refuses an object that the scene or another one  *)
(* of the manager has; then it is entered, the manager's lock taken anew.  *)
Admits(s) == s \notin member /\ objScene[Home[s]] \in {None, s}
Enter(s) ==
    /\ member' = member \union {s}
    /\ objScene' = [objScene EXCEPT ![Home[s]] = s]

(* Mutation: the version of an object that is gone is remembered.          *)
LeaveRemembers(s) ==
    /\ Unlocked(s)
    /\ member' = member \ {s}
    /\ objScene' = [objScene EXCEPT ![Home[s]] = IF @ = s THEN None ELSE @]
    /\ UNCHANGED ver

Leave(s) ==
    /\ Unlocked(s)
    /\ member' = member \ {s}
    /\ objScene' = [objScene EXCEPT ![Home[s]] = IF @ = s THEN None ELSE @]
    /\ ver' = [ver EXCEPT ![Home[s]] = 0]

-----------------------------------------------------------------------------
(* TransferRemote, by a goroutine of a node; the calls of one node hold no *)
(* lock between finding the scene of the object and letting go of it.      *)

Start(g, s) ==
    /\ call[g].pc = "idle" /\ objScene[At[g]] # None /\ transfers < MaxTransfers
    /\ orderly => \A h \in Callers : call[h].pc = "idle"
    /\ Call(g, [pc |-> IF Live(s) /\ Home[s] = At[g] THEN "local" ELSE "lookup",
                src |-> objScene[At[g]], dst |-> s])
    /\ transfers' = transfers + 1
    /\ UNCHANGED <<orderly, instance, table, held, seq, wire, recv, faults>>

(* Transfer, TransferTo: the object leaves one scene and enters the other; *)
(* within one scene it only moves.                                         *)
LeaveLocal(g) ==
    /\ call[g].pc = "local"
    /\ IF Live(call[g].src) /\ Live(call[g].dst) /\ call[g].src # call[g].dst
       THEN Leave(call[g].src) /\ Call(g, [call[g] EXCEPT !.pc = "check"])
       ELSE UNCHANGED held /\ Returns(g)
    /\ UNCHANGED <<orderly, instance, table, seq, wire, recv, transfers, faults>>

CheckLocal(g) ==
    /\ call[g].pc = "check" /\ Unlocked(call[g].dst)
    /\ IF Admits(call[g].dst) THEN Call(g, [call[g] EXCEPT !.pc = "set"]) ELSE Returns(g)
    /\ UNCHANGED <<orderly, instance, table, held, seq, wire, recv, transfers, faults>>

EnterLocal(g) ==
    /\ call[g].pc = "set" /\ Enter(call[g].dst) /\ Returns(g)
    /\ UNCHANGED <<orderly, instance, table, ver, seq, wire, recv, transfers, faults>>

(* A scene that is not registered, or that was thought to be elsewhere, is *)
(* not sent to.  The lookup may fail.                                      *)
Lookup(g) ==
    /\ call[g].pc = "lookup"
    /\ \/ call[g].dst \in route /\ Home[call[g].dst] # At[g]
          /\ Call(g, [call[g] EXCEPT !.pc = "publish"])
       \/ Returns(g)
    /\ UNCHANGED <<orderly, instance, table, held, seq, wire, recv, transfers, faults>>

(* Mutation: the error of Publish is overlooked.                           *)
PublishBlindly(g) ==
    /\ call[g].pc = "publish" /\ seq' = [seq EXCEPT ![At[g]] = @ + 1]
    /\ Call(g, [call[g] EXCEPT !.pc = "leave"])
    /\ \/ /\ instance # 0
          /\ wire' = wire \union {[src |-> At[g], dst |-> call[g].dst, version |-> seq'[At[g]]]}
       \/ UNCHANGED wire
    /\ UNCHANGED <<orderly, instance, table, held, recv, transfers, faults>>

(* The version is taken first.  PublishRemoteTransfer refuses the default  *)
(* instance, or fails.                                                     *)
Publish(g) ==
    /\ call[g].pc = "publish" /\ seq' = [seq EXCEPT ![At[g]] = @ + 1]
    /\ \/ /\ instance # 0
          /\ wire' = wire \union {[src |-> At[g], dst |-> call[g].dst, version |-> seq'[At[g]]]}
          /\ Call(g, [call[g] EXCEPT !.pc = "leave"])
       \/ UNCHANGED wire /\ Returns(g)
    /\ UNCHANGED <<orderly, instance, table, held, recv, transfers, faults>>

LetGo(g) ==
    /\ call[g].pc = "leave" /\ Leave(call[g].src) /\ Returns(g)
    /\ UNCHANGED <<orderly, instance, table, seq, wire, recv, transfers, faults>>

TransferRemote(g) ==
    \/ \E s \in Scenes : Start(g, s)
    \/ LeaveLocal(g) \/ CheckLocal(g) \/ EnterLocal(g)
    \/ Lookup(g) \/ Publish(g) \/ LetGo(g)

-----------------------------------------------------------------------------
(* HandleRemoteTransfer at node n; its errors are logged *)

Receive(n) ==
    /\ recv[n].pc = "idle"
    /\ \E m \in wire :
        /\ Home[m.dst] = n /\ wire' = wire \ {m}
        /\ IF Live(m.dst)
           THEN Recv(n, [pc |-> "accept", dst |-> m.dst, version |-> m.version])
           ELSE UNCHANGED recv
    /\ UNCHANGED <<orderly, instance, table, held, seq, call, transfers, faults>>

(* acceptXferVersion *)
Accept(n) ==
    /\ recv[n].pc = "accept"
    /\ IF ver[n] # 0 /\ recv[n].version <= ver[n]
       THEN UNCHANGED ver /\ Recv(n, Waiting)
       ELSE /\ ver' = [ver EXCEPT ![n] = recv[n].version]
            /\ Recv(n, [recv[n] EXCEPT !.pc = "check"])
    /\ UNCHANGED <<orderly, instance, table, member, objScene, seq, wire, call, transfers, faults>>

CheckRemote(n) ==
    /\ recv[n].pc = "check" /\ Unlocked(recv[n].dst)
    /\ Recv(n, [recv[n] EXCEPT !.pc = IF Admits(recv[n].dst) THEN "set" ELSE "rollback"])
    /\ UNCHANGED <<orderly, instance, table, held, seq, wire, call, transfers, faults>>

EnterRemote(n) ==
    /\ recv[n].pc = "set" /\ Enter(recv[n].dst) /\ Recv(n, Waiting)
    /\ UNCHANGED <<orderly, instance, table, ver, seq, wire, call, transfers, faults>>

(* rollbackXferVersion *)
Rollback(n) ==
    /\ recv[n].pc = "rollback" /\ Recv(n, Waiting)
    /\ ver' = [ver EXCEPT ![n] = IF @ = recv[n].version THEN 0 ELSE @]
    /\ UNCHANGED <<orderly, instance, table, member, objScene, seq, wire, call, transfers, faults>>

HandleRemoteTransfer(n) ==
    Receive(n) \/ Accept(n) \/ CheckRemote(n) \/ EnterRemote(n) \/ Rollback(n)

-----------------------------------------------------------------------------
(* The table of routes, and what goes wrong *)

Expire(s) ==
    /\ s \in route /\ route' = route \ {s} /\ faults < MaxFaults /\ faults' = faults + 1
    /\ UNCHANGED <<orderly, instance, life, held, seq, wire, call, recv, transfers>>

(* refreshSceneRoutes lists the node's scenes under the lock and registers *)
(* them one after the other: by then a scene may be out of the table.      *)
RefreshScene(s) ==
    /\ s \notin route /\ route' = route \union {s}
    /\ UNCHANGED <<orderly, instance, life, held, seq, wire, call, recv, transfers, faults>>

(* DestroyScene, of a scene the business has emptied: first it is out of   *)
(* the table, ...                                                          *)
Destroy(s) ==
    /\ ~orderly /\ Live(s) /\ s \notin member /\ faults < MaxFaults /\ faults' = faults + 1
    /\ life' = [life EXCEPT ![s] = "ending"]
    /\ UNCHANGED <<orderly, instance, route, held, seq, wire, call, recv, transfers>>

(* ... then its route is, unless that fails, and its members leave.        *)
EndDestroy(s) ==
    /\ life[s] = "ending" /\ life' = [life EXCEPT ![s] = "gone"]
    /\ route' = route \ {s} \/ UNCHANGED route
    /\ IF s \in member THEN Leave(s) ELSE UNCHANGED held
    /\ UNCHANGED <<orderly, instance, seq, wire, call, recv, transfers, faults>>

Lose ==
    /\ ~orderly /\ faults < MaxFaults /\ faults' = faults + 1
    /\ \E m \in wire : wire' = wire \ {m}
    /\ UNCHANGED <<orderly, instance, table, held, seq, call, recv, transfers>>

(* A call finds, or has found, the object where another call of the node   *)
(* has sent it away or taken it out.                                       *)
Committed(g) == call[g].pc \in {"leave", "check", "set"}
Crossing == \E g, h \in Callers :
    g # h /\ At[g] = At[h] /\ Committed(g) /\ call[h].pc # "idle"

STNext ==
    /\ \/ \E g \in Callers : TransferRemote(g)
       \/ \E n \in Nodes : HandleRemoteTransfer(n)
       \/ \E s \in Scenes : Expire(s) \/ RefreshScene(s) \/ Destroy(s) \/ EndDestroy(s)
       \/ Lose
    /\ crossed' = (crossed \/ Crossing')
STSpec == STInit /\ [][STNext]_vars

-----------------------------------------------------------------------------
(* Properties *)

STTypeOK ==
    /\ instance \in Instances /\ {route, member} \subseteq SUBSET Scenes
    /\ life \in [Scenes -> {"live", "ending", "gone"}]
    /\ objScene \in [Nodes -> Scenes \union {None}]
    /\ \A n \in Nodes : ver[n] \in Nat /\ seq[n] \in Nat
    /\ \A m \in wire : m.src \in Nodes /\ m.dst \in Scenes /\ m.version \in Nat \ {0}
    /\ \A g \in Callers :
        call[g].pc \in {"idle", "local", "check", "set", "lookup", "publish", "leave"}
    /\ \A n \in Nodes : recv[n].pc \in {"idle", "accept", "check", "set", "rollback"}

(* The scenes that have the object and keep it, the instructions that      *)
(* carry it, and the goroutines that have it in hand.                      *)
Keeps(s) == \A g \in Callers : call[g].pc # "leave" \/ call[g].src # s
Places ==
    {<<"scene", s>> : s \in {s \in member : Keeps(s)}}
    \union {<<"wire", m>> : m \in wire}
    \union {<<"moving", g>> : g \in {g \in Callers : call[g].pc \in {"check", "set"}}}
    \union {<<"entering", n>> : n \in {n \in Nodes : recv[n].pc \in {"accept", "check", "set"}}}

(* TransferRemote, HandleRemoteTransfer ("an instruction must not be       *)
(* carried out twice"): however transfers, refusals, expired routes and    *)
(* lost messages meet, the object is not in two places, on its way         *)
(* included, and a manager believes it to be where it is, as long as no    *)
(* call of a node met one that had sent the object; and if all is orderly  *)
(* it is always in one place.                                              *)
ObjectInOnePlace ==
    /\ ~crossed =>
        /\ Cardinality(Places) <= 1
        /\ \A s \in Scenes : s \in member <=> objScene[Home[s]] = s
    /\ orderly => ~crossed /\ Places # {}

(* The comments of TransferRemote mean to exclude that the object vanishes *)
(* "out of thin air".                                                      *)
NeverLost == Places # {}
=============================================================================
