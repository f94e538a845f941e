------------------------------ MODULE Directory ------------------------------
(***************************************************************************)
(* The master's directory of nodes and players (State of                   *)
(* domain/master/state/state.go): each operation is one critical section   *)
(* of s.mu.  Callbacks run outside it and belong to the modules that use   *)
(* the directory.                                                          *)
(***************************************************************************)
EXTENDS Integers, FiniteSets

CONSTANTS
    Nodes,      \* node ids
    Types,      \* node types
    Tags,       \* business tags
    Uids,       \* player ids
    None        \* no node

ASSUME DirectoryParams == None \notin Nodes \cup Types /\ IsFiniteSet(Nodes)

Meta == [type : Types, tags : SUBSET Tags]
NoMeta == [type |-> None, tags |-> {}]

VARIABLES
    nodes,          \* nodes[n]: the registration of n, or NoMeta
    byType, byTag,  \* the two indexes on it
    players,        \* players[u]: the node u is located at, or None
    nodePlayers,    \* the reverse index of players
    gauge           \* the nodes metric, per type

registry == <<nodes, byType, byTag, gauge>>
location == <<players, nodePlayers>>
directory == <<nodes, byType, byTag, players, nodePlayers, gauge>>

Registered(n) == nodes[n] # NoMeta

DirectoryInit ==
    /\ nodes = [n \in Nodes |-> NoMeta]
    /\ byType = [t \in Types |-> {}] /\ byTag = [g \in Tags |-> {}]
    /\ players = [u \in Uids |-> None] /\ nodePlayers = [n \in Nodes |-> {}]
    /\ gauge = [t \in Types |-> 0]

(* f with n moved from the sets named by old to those named by new. *)
Reindex(f, n, old, new) ==
    [x \in DOMAIN f |-> (IF x \in old THEN f[x] \ {n} ELSE f[x])
                            \cup (IF x \in new THEN {n} ELSE {})]

Step(b) == IF b THEN 1 ELSE 0

(* The metric: one more of the new type, one less of the old. *)
Recount(old, new) ==
    [t \in Types |-> gauge[t] - Step(t \in old) + Step(t \in new)]

TypesOf(m) == IF m = NoMeta THEN {} ELSE {m.type}

(* Mutation: only the tags of a node registered anew are taken out. *)
RegisterNodeKeepsType(n, meta) ==
    /\ nodes' = [nodes EXCEPT ![n] = meta]
    /\ byType' = Reindex(byType, n, {}, {meta.type})
    /\ byTag' = Reindex(byTag, n, nodes[n].tags, meta.tags)
    /\ gauge' = Recount(TypesOf(nodes[n]), {meta.type})
    /\ UNCHANGED location

(* A registration replaces the one before it, in both indexes and in the   *)
(* metric.                                                                 *)
RegisterNode(n, meta) ==
    /\ nodes' = [nodes EXCEPT ![n] = meta]
    /\ byType' = Reindex(byType, n, TypesOf(nodes[n]), {meta.type})
    /\ byTag' = Reindex(byTag, n, nodes[n].tags, meta.tags)
    /\ gauge' = Recount(TypesOf(nodes[n]), {meta.type})
    /\ UNCHANGED location

(* A registered node leaves, and with it the locations of its players.     *)
RemoveNode(n) ==
    /\ Registered(n)
    /\ nodes' = [nodes EXCEPT ![n] = NoMeta]
    /\ byType' = Reindex(byType, n, TypesOf(nodes[n]), {})
    /\ byTag' = Reindex(byTag, n, nodes[n].tags, {})
    /\ gauge' = Recount(TypesOf(nodes[n]), {})
    /\ players' = [u \in Uids |-> IF u \in nodePlayers[n] THEN None ELSE players[u]]
    /\ nodePlayers' = [nodePlayers EXCEPT ![n] = {}]

(* Mutation: only a player that was nowhere is entered in the reverse index. *)
RegisterPlayerOnce(u, n) ==
    /\ players' = [players EXCEPT ![u] = n]
    /\ nodePlayers' = Reindex(nodePlayers, u, {players[u]},
                              IF players[u] = None THEN {n} ELSE {})
    /\ UNCHANGED registry

(* A player that moves leaves the reverse index of its old node.           *)
RegisterPlayer(u, n) ==
    /\ players' = [players EXCEPT ![u] = n]
    /\ nodePlayers' = Reindex(nodePlayers, u, {players[u]}, {n})
    /\ UNCHANGED registry

(* Node n gives up the player: only if it is located there.  (An empty     *)
(* node id would remove unconditionally; no caller passes one.)            *)
RemovePlayer(u, n) ==
    /\ IF players[u] = n
       THEN /\ players' = [players EXCEPT ![u] = None]
            /\ nodePlayers' = Reindex(nodePlayers, u, {n}, {})
       ELSE UNCHANGED location
    /\ UNCHANGED registry

DirectoryNext ==
    \/ \E n \in Nodes : RemoveNode(n) \/ \E meta \in Meta : RegisterNode(n, meta)
    \/ \E u \in Uids, n \in Nodes : RegisterPlayer(u, n) \/ RemovePlayer(u, n)

DirectorySpec == DirectoryInit /\ [][DirectoryNext]_directory

-----------------------------------------------------------------------------
(* Properties *)

DirectoryTypeOK ==
    /\ nodes \in [Nodes -> Meta \cup {NoMeta}]
    /\ byType \in [Types -> SUBSET Nodes] /\ byTag \in [Tags -> SUBSET Nodes]
    /\ players \in [Uids -> Nodes \cup {None}] /\ nodePlayers \in [Nodes -> SUBSET Uids]
    /\ gauge \in [Types -> Int]

(* RegisterNode's and RegisterPlayer's comments on ghosts and negative     *)
(* counts: every index is the exact inverse of the map it indexes, and the *)
(* metric counts the nodes of each type, through every re-registration     *)
(* under another type or other tags, removal and move of a player.         *)
IndexConsistent ==
    /\ \A t \in Types : byType[t] = {n \in Nodes : nodes[n].type = t}
    /\ \A g \in Tags : byTag[g] = {n \in Nodes : g \in nodes[n].tags}
    /\ \A n \in Nodes : nodePlayers[n] = {u \in Uids : players[u] = n}
    /\ \A t \in Types : gauge[t] = Cardinality(byType[t])

(* RemoveNodeWithReason's comment: PlayerNode must not go on answering a   *)
(* node that is gone.  No location survives the removal of its node.       *)
PlayersGoWithNode ==
    [][\A n \in Nodes : Registered(n) /\ ~Registered(n)' =>
          \A u \in Uids : players'[u] # n]_directory
=============================================================================
