--------------------------- MODULE NodeHealthProof ---------------------------
(***************************************************************************)
(* For any sets of nodes, types, tags and players: the directory's indexes *)
(* are exact whatever the detector, the nodes and their requests do.  The  *)
(* argument is by refinement: every step of NodeHealth is a step of        *)
(* Directory or leaves the directory alone, so what holds of Directory's   *)
(* small specification holds of the whole.                                 *)
(***************************************************************************)
EXTENDS NodeHealth, FiniteSetTheorems, TLAPS

LEMMA MetaTypes ==
    /\ \A m \in Meta : TypesOf(m) = {m.type} /\ m # NoMeta /\ m.type \in Types /\ m.tags \in SUBSET Tags
    /\ TypesOf(NoMeta) = {} /\ NoMeta.type = None /\ NoMeta.tags = {}
    BY DirectoryParams DEF Meta, NoMeta, TypesOf

(* Adding or removing one element changes the cardinality by what the      *)
(* metric counts.                                                          *)
LEMMA CountMoves ==
    ASSUME NEW S \in SUBSET Nodes, NEW n \in Nodes, NEW wasIn \in BOOLEAN, NEW isIn \in BOOLEAN,
           wasIn <=> n \in S
    PROVE  LET T == (IF wasIn THEN S \ {n} ELSE S) \cup (IF isIn THEN {n} ELSE {})
           IN  Cardinality(T) = Cardinality(S) - Step(wasIn) + Step(isIn)
<1> DEFINE T == (IF wasIn THEN S \ {n} ELSE S) \cup (IF isIn THEN {n} ELSE {})
<1>1. IsFiniteSet(S) /\ Cardinality(S) \in Nat
      BY DirectoryParams, FS_Subset, FS_CardinalityType
<1>2. CASE wasIn = isIn
      <2>1. T = S  BY <1>2
      <2>2. Step(wasIn) = Step(isIn) /\ Step(wasIn) \in Int  BY <1>2 DEF Step
      <2> QED  BY <2>1, <2>2, <1>1
<1>3. CASE wasIn /\ ~isIn
      <2>1. T = S \ {n} /\ n \in S  BY <1>3
      <2>2. Cardinality(S \ {n}) = Cardinality(S) - 1
            BY <2>1, <1>1, FS_RemoveElement
      <2>3. Step(wasIn) = 1 /\ Step(isIn) = 0  BY <1>3 DEF Step
      <2>4. Cardinality(T) = Cardinality(S) - 1  BY <2>1, <2>2
      <2>5. Cardinality(S) - 1 = Cardinality(S) - Step(wasIn) + Step(isIn)
            BY <2>3, <1>1
      <2> QED  BY <2>4, <2>5
<1>4. CASE ~wasIn /\ isIn
      <2>1. T = S \cup {n} /\ n \notin S  BY <1>4
      <2>2. Cardinality(S \cup {n}) = Cardinality(S) + 1
            BY <2>1, <1>1, FS_AddElement
      <2>3. Step(wasIn) = 0 /\ Step(isIn) = 1  BY <1>4 DEF Step
      <2> QED  BY <2>1, <2>2, <2>3, <1>1
<1> QED  BY <1>2, <1>3, <1>4

DInv == DirectoryTypeOK /\ IndexConsistent

(* A change of n's registration: the two indexes and the metric follow it. *)
LEMMA RegistryStep ==
    ASSUME DInv, NEW n \in Nodes, NEW meta \in Meta \cup {NoMeta},
           nodes' = [nodes EXCEPT ![n] = meta],
           byType' = Reindex(byType, n, TypesOf(nodes[n]), TypesOf(meta)),
           byTag' = Reindex(byTag, n, nodes[n].tags, meta.tags),
           gauge' = Recount(TypesOf(nodes[n]), TypesOf(meta))
    PROVE  /\ nodes' \in [Nodes -> Meta \cup {NoMeta}]
           /\ byType' \in [Types -> SUBSET Nodes] /\ byTag' \in [Tags -> SUBSET Nodes]
           /\ gauge' \in [Types -> Int]
           /\ \A t \in Types : byType'[t] = {m \in Nodes : nodes'[m].type = t}
           /\ \A g \in Tags : byTag'[g] = {m \in Nodes : g \in nodes'[m].tags}
           /\ \A t \in Types : gauge'[t] = Cardinality(byType'[t])
<1>1. /\ nodes \in [Nodes -> Meta \cup {NoMeta}]
      /\ byType \in [Types -> SUBSET Nodes] /\ byTag \in [Tags -> SUBSET Nodes]
      /\ gauge \in [Types -> Int]
      BY DEF DInv, DirectoryTypeOK
<1>2. /\ \A t \in Types : byType[t] = {m \in Nodes : nodes[m].type = t}
      /\ \A g \in Tags : byTag[g] = {m \in Nodes : g \in nodes[m].tags}
      /\ \A t \in Types : gauge[t] = Cardinality(byType[t])
      BY DEF DInv, IndexConsistent
<1>3. nodes' \in [Nodes -> Meta \cup {NoMeta}]  BY <1>1
<1>4. \A m \in Meta \cup {NoMeta}, t \in Types : t \in TypesOf(m) <=> m.type = t
      BY MetaTypes, DirectoryParams
<1>5. byType' \in [Types -> SUBSET Nodes] /\ \A t \in Types : byType'[t] =
        (IF t \in TypesOf(nodes[n]) THEN byType[t] \ {n} ELSE byType[t])
            \cup (IF t \in TypesOf(meta) THEN {n} ELSE {})
      BY <1>1 DEF Reindex
<1>6. byTag' \in [Tags -> SUBSET Nodes] /\ \A g \in Tags : byTag'[g] =
        (IF g \in nodes[n].tags THEN byTag[g] \ {n} ELSE byTag[g])
            \cup (IF g \in meta.tags THEN {n} ELSE {})
      BY <1>1 DEF Reindex
<1>7. \A t \in Types : byType'[t] = {m \in Nodes : nodes'[m].type = t}
      <2> SUFFICES ASSUME NEW t \in Types, NEW m \in Nodes
                   PROVE  m \in byType'[t] <=> nodes'[m].type = t
          BY <1>5
      <2>1. CASE m = n  BY <2>1, <1>1, <1>2, <1>4, <1>5
      <2>2. CASE m # n  BY <2>2, <1>1, <1>2, <1>5
      <2> QED  BY <2>1, <2>2
<1>8. \A g \in Tags : byTag'[g] = {m \in Nodes : g \in nodes'[m].tags}
      <2> SUFFICES ASSUME NEW g \in Tags, NEW m \in Nodes
                   PROVE  m \in byTag'[g] <=> g \in nodes'[m].tags
          BY <1>6
      <2>1. CASE m = n  BY <2>1, <1>1, <1>2, <1>6
      <2>2. CASE m # n  BY <2>2, <1>1, <1>2, <1>6
      <2> QED  BY <2>1, <2>2
<1>9. gauge' \in [Types -> Int] /\ \A t \in Types : gauge'[t] = Cardinality(byType'[t])
      <2>2. gauge' = [t \in Types |-> gauge[t] - Step(t \in TypesOf(nodes[n]))
                                            + Step(t \in TypesOf(meta))]
            BY DEF Recount
      <2>3. gauge' \in [Types -> Int]
            <3>1. ASSUME NEW t \in Types
                  PROVE gauge[t] - Step(t \in TypesOf(nodes[n])) + Step(t \in TypesOf(meta)) \in Int
                  <4>1. /\ Step(t \in TypesOf(nodes[n])) \in Int
                        /\ Step(t \in TypesOf(meta)) \in Int
                        BY DEF Step
                  <4> QED  BY <4>1, <1>1
            <3> QED  BY <2>2, <3>1
      <2>4. ASSUME NEW t \in Types PROVE gauge'[t] = Cardinality(byType'[t])
            <3>1. byType[t] \in SUBSET Nodes /\ (t \in TypesOf(nodes[n]) <=> n \in byType[t])
                  BY <1>1, <1>2, <1>4
            <3> DEFINE a == t \in TypesOf(nodes[n])
                       b == t \in TypesOf(meta)
            <3>2. a \in BOOLEAN /\ b \in BOOLEAN  OBVIOUS
            <3>3. Cardinality((IF a THEN byType[t] \ {n} ELSE byType[t])
                                \cup (IF b THEN {n} ELSE {}))
                    = Cardinality(byType[t]) - Step(a) + Step(b)
                  <4> HIDE DEF a, b
                  <4>1. a <=> n \in byType[t]  BY <3>1 DEF a
                  <4> QED  BY <3>1, <3>2, <4>1, CountMoves
            <3>4. byType'[t] = (IF a THEN byType[t] \ {n} ELSE byType[t])
                                  \cup (IF b THEN {n} ELSE {})
                  BY <1>5
            <3>5. gauge'[t] = gauge[t] - Step(a) + Step(b)  BY <2>2
            <3> QED  BY <3>3, <3>4, <3>5, <1>2
      <2> QED  BY <2>3, <2>4
<1> QED  BY <1>3, <1>5, <1>6, <1>7, <1>8, <1>9

(* A move of player u: the reverse index follows it. *)
LEMMA LocationStep ==
    ASSUME DInv, NEW u \in Uids, NEW n \in Nodes \cup {None},
           players' = [players EXCEPT ![u] = n],
           nodePlayers' = Reindex(nodePlayers, u, {players[u]}, {n})
    PROVE  /\ players' \in [Uids -> Nodes \cup {None}]
           /\ nodePlayers' \in [Nodes -> SUBSET Uids]
           /\ \A m \in Nodes : nodePlayers'[m] = {v \in Uids : players'[v] = m}
<1>1. players \in [Uids -> Nodes \cup {None}] /\ nodePlayers \in [Nodes -> SUBSET Uids]
      BY DEF DInv, DirectoryTypeOK
<1>2. \A m \in Nodes : nodePlayers[m] = {v \in Uids : players[v] = m}
      BY DEF DInv, IndexConsistent
<1>3. players' \in [Uids -> Nodes \cup {None}]  BY <1>1
<1>4. nodePlayers' \in [Nodes -> SUBSET Uids] /\ \A m \in Nodes : nodePlayers'[m] =
        (IF m = players[u] THEN nodePlayers[m] \ {u} ELSE nodePlayers[m])
            \cup (IF m = n THEN {u} ELSE {})
      BY <1>1 DEF Reindex
<1>5. ASSUME NEW m \in Nodes, NEW v \in Uids
      PROVE  v \in nodePlayers'[m] <=> players'[v] = m
      <2>1. players'[v] = IF v = u THEN n ELSE players[v]  BY <1>1
      <2>2. nodePlayers[m] = {w \in Uids : players[w] = m}  BY <1>2
      <2>3. v \in nodePlayers[m] <=> players[v] = m  BY <2>2
      <2>4. v \in nodePlayers'[m] <=>
              (v \in nodePlayers[m] /\ ~(m = players[u] /\ v = u)) \/ (m = n /\ v = u)
            <3>1. nodePlayers'[m] = (IF m = players[u] THEN nodePlayers[m] \ {u} ELSE nodePlayers[m])
                                        \cup (IF m = n THEN {u} ELSE {})
                  BY <1>4
            <3> QED  BY <3>1
      <2> QED  BY <2>1, <2>3, <2>4
<1> QED  BY <1>3, <1>4, <1>5

LEMMA DirectoryStart == DirectoryInit => DInv
<1> SUFFICES ASSUME DirectoryInit PROVE DInv  OBVIOUS
<1> USE DEF DirectoryInit
<1>1. DirectoryTypeOK  BY DEF DirectoryTypeOK
<1>2. \A t \in Types : byType[t] = {n \in Nodes : nodes[n].type = t}
      BY DirectoryParams, MetaTypes
<1>3. \A g \in Tags : byTag[g] = {n \in Nodes : g \in nodes[n].tags}  BY MetaTypes
<1>4. \A n \in Nodes : nodePlayers[n] = {u \in Uids : players[u] = n}  BY DirectoryParams
<1>5. \A t \in Types : gauge[t] = Cardinality(byType[t])  BY FS_EmptySet
<1> QED  BY <1>1, <1>2, <1>3, <1>4, <1>5 DEF DInv, IndexConsistent

LEMMA DirectoryStep == DInv /\ [DirectoryNext]_directory => DInv'
<1> SUFFICES ASSUME DInv, [DirectoryNext]_directory PROVE DInv'  OBVIOUS
<1> USE DEF DInv
<1>1. ASSUME NEW n \in Nodes, RemoveNode(n) PROVE DInv'
      <2>1. /\ nodes' = [nodes EXCEPT ![n] = NoMeta]
            /\ byType' = Reindex(byType, n, TypesOf(nodes[n]), TypesOf(NoMeta))
            /\ byTag' = Reindex(byTag, n, nodes[n].tags, NoMeta.tags)
            /\ gauge' = Recount(TypesOf(nodes[n]), TypesOf(NoMeta))
            BY <1>1, MetaTypes DEF RemoveNode
      <2>2. /\ players' = [u \in Uids |-> IF u \in nodePlayers[n] THEN None ELSE players[u]]
            /\ nodePlayers' = [nodePlayers EXCEPT ![n] = {}]
            BY <1>1 DEF RemoveNode
      <2>3. /\ players \in [Uids -> Nodes \cup {None}] /\ nodePlayers \in [Nodes -> SUBSET Uids]
            /\ \A m \in Nodes : nodePlayers[m] = {u \in Uids : players[u] = m}
            BY DEF DirectoryTypeOK, IndexConsistent
      <2>4. players' \in [Uids -> Nodes \cup {None}] /\ nodePlayers' \in [Nodes -> SUBSET Uids]
            BY <2>2, <2>3
      <2>5. \A m \in Nodes : nodePlayers'[m] = {u \in Uids : players'[u] = m}
            BY <2>2, <2>3, DirectoryParams
      <2>6. NoMeta \in Meta \cup {NoMeta}  OBVIOUS
      <2> QED  BY <2>1, <2>4, <2>5, <2>6, RegistryStep DEF DirectoryTypeOK, IndexConsistent
<1>2. ASSUME NEW n \in Nodes, NEW meta \in Meta, RegisterNode(n, meta) PROVE DInv'
      <2>1. /\ nodes' = [nodes EXCEPT ![n] = meta]
            /\ byType' = Reindex(byType, n, TypesOf(nodes[n]), TypesOf(meta))
            /\ byTag' = Reindex(byTag, n, nodes[n].tags, meta.tags)
            /\ gauge' = Recount(TypesOf(nodes[n]), TypesOf(meta))
            BY <1>2, MetaTypes DEF RegisterNode
      <2>2. UNCHANGED <<players, nodePlayers>>  BY <1>2 DEF RegisterNode, location
      <2>3. /\ players' \in [Uids -> Nodes \cup {None}] /\ nodePlayers' \in [Nodes -> SUBSET Uids]
            /\ \A m \in Nodes : nodePlayers'[m] = {u \in Uids : players'[u] = m}
            BY <2>2 DEF DirectoryTypeOK, IndexConsistent
      <2>4. meta \in Meta \cup {NoMeta}  OBVIOUS
      <2> QED  BY <2>1, <2>3, <2>4, RegistryStep DEF DirectoryTypeOK, IndexConsistent
<1>3. ASSUME UNCHANGED registry,
             /\ players' \in [Uids -> Nodes \cup {None}]
             /\ nodePlayers' \in [Nodes -> SUBSET Uids]
             /\ \A m \in Nodes : nodePlayers'[m] = {v \in Uids : players'[v] = m}
      PROVE  DInv'
      BY <1>3 DEF registry, DirectoryTypeOK, IndexConsistent
<1>4. ASSUME NEW u \in Uids, NEW n \in Nodes, RegisterPlayer(u, n) PROVE DInv'
      <2>1. n \in Nodes \cup {None}  OBVIOUS
      <2> QED  BY <1>3, <1>4, <2>1, LocationStep DEF RegisterPlayer
<1>5. ASSUME NEW u \in Uids, NEW n \in Nodes, RemovePlayer(u, n) PROVE DInv'
      <2>1. CASE players[u] = n
            <3>1. /\ players' = [players EXCEPT ![u] = None]
                  /\ nodePlayers' = Reindex(nodePlayers, u, {players[u]}, {})
                  BY <1>5, <2>1 DEF RemovePlayer
            <3>2. Reindex(nodePlayers, u, {players[u]}, {}) = Reindex(nodePlayers, u, {players[u]}, {None})
                  BY DirectoryParams DEF DirectoryTypeOK, Reindex
            <3>3. None \in Nodes \cup {None}  OBVIOUS
            <3> QED  BY <1>3, <1>5, <3>1, <3>2, <3>3, LocationStep DEF RemovePlayer
      <2>2. CASE players[u] # n
            <3>1. UNCHANGED <<players, nodePlayers>>  BY <1>5, <2>2 DEF RemovePlayer, location
            <3>2. UNCHANGED registry  BY <1>5 DEF RemovePlayer
            <3> QED  BY <1>3, <3>1, <3>2 DEF DirectoryTypeOK, IndexConsistent
      <2> QED  BY <2>1, <2>2
<1>6. CASE UNCHANGED directory
      BY <1>6 DEF directory, DirectoryTypeOK, IndexConsistent
<1> QED  BY <1>1, <1>2, <1>4, <1>5, <1>6 DEF DirectoryNext

-----------------------------------------------------------------------------
(* The whole is a refinement of the directory: what the nodes, the         *)
(* handlers and the detector do to it are its own operations.              *)
LEMMA HealthStep == [Next]_vars => [DirectoryNext]_directory
<1> SUFFICES ASSUME [Next]_vars PROVE [DirectoryNext]_directory  OBVIOUS
<1>1. ASSUME NEW n \in Nodes, NodeStep(n) PROVE [DirectoryNext]_directory
      BY <1>1 DEF NodeStep, RegisterFails, Drain, Crash, Register, PlayerSeen, PlayerGone,
                  DirectoryNext
<1>2. ASSUME NEW n \in Nodes, Heartbeat(n) \/ HandlerStep(n) PROVE UNCHANGED directory
      BY <1>2 DEF Heartbeat, HeartbeatKnown, HeartbeatUnknown, HandlerStep, Track, Untrack,
                  HeartbeatTaken, vars
<1>3. ASSUME ScanStep PROVE [DirectoryNext]_directory
      BY <1>3 DEF ScanStep, Scan, Evict, EvictUntrack, DirectoryNext
<1>4. CASE Tick  BY <1>4 DEF Tick
<1>5. CASE UNCHANGED vars  BY <1>5 DEF vars
<1> QED  BY <1>1, <1>2, <1>3, <1>4, <1>5 DEF Next

(* Spec implements Directory's specification: no interleaving of handlers, *)
(* scans, crashes and drains does to the directory what its operations     *)
(* under s.mu do not.                                                      *)
THEOREM ImplementsDirectory == Spec => DirectorySpec
<1>1. Init => DirectoryInit  BY DEF Init
<1> QED  BY <1>1, HealthStep, PTL DEF Spec, DirectorySpec

(* Every index is the exact inverse of its map and the metric counts, for  *)
(* any nodes, types, tags and players (RegisterNode's comments).           *)
THEOREM IndexesAreExact == Spec => []IndexConsistent
<1>1. DInv => IndexConsistent  BY DEF DInv
<1>2. DirectorySpec => []DInv  BY DirectoryStart, DirectoryStep, PTL DEF DirectorySpec
<1> QED  BY <1>1, <1>2, ImplementsDirectory, PTL

(* A removed node takes every location at it with it                       *)
(* (RemoveNodeWithReason's comment).                                       *)
THEOREM NoLocationSurvives == Spec => PlayersGoWithNode
<1> DEFINE Gone == \A n \in Nodes : Registered(n) /\ ~Registered(n)' =>
                        \A u \in Uids : players'[u] # n
<1>1. ASSUME DInv, [DirectoryNext]_directory PROVE [Gone]_directory
      <2>1. SUFFICES ASSUME NEW n \in Nodes, NEW u \in Uids, Registered(n), ~Registered(n)',
                            DirectoryNext
                     PROVE  players'[u] # n
            BY <1>1
      <2>2. ASSUME NEW m \in Nodes, RemoveNode(m) PROVE players'[u] # n
            <3>1. nodes \in [Nodes -> Meta \cup {NoMeta}]  BY <1>1 DEF DInv, DirectoryTypeOK
            <3>2. m = n  BY <2>1, <2>2, <3>1 DEF RemoveNode, Registered
            <3>3. players'[u] = IF u \in nodePlayers[n] THEN None ELSE players[u]
                  BY <2>2, <3>2 DEF RemoveNode
            <3>4. u \in nodePlayers[n] <=> players[u] = n  BY <1>1 DEF DInv, IndexConsistent
            <3> QED  BY <3>3, <3>4, DirectoryParams
      <2>3. ASSUME NEW m \in Nodes, NEW meta \in Meta, RegisterNode(m, meta) PROVE FALSE
            <3>1. nodes \in [Nodes -> Meta \cup {NoMeta}]  BY <1>1 DEF DInv, DirectoryTypeOK
            <3> QED  BY <2>1, <2>3, <3>1, MetaTypes DEF RegisterNode, Registered
      <2>4. ASSUME NEW v \in Uids, NEW m \in Nodes, RegisterPlayer(v, m) \/ RemovePlayer(v, m)
            PROVE  FALSE
            BY <2>1, <2>4 DEF RegisterPlayer, RemovePlayer, registry, Registered
      <2> QED  BY <2>1, <2>2, <2>3, <2>4 DEF DirectoryNext
<1>2. DirectorySpec => []DInv  BY DirectoryStart, DirectoryStep, PTL DEF DirectorySpec
<1> QED  BY <1>1, <1>2, ImplementsDirectory, PTL DEF DirectorySpec, PlayersGoWithNode

-----------------------------------------------------------------------------
(* The types, with what they rest on: regs is a function.                  *)
HealthInv == DInv /\ TypeOK /\ regs \in [Nodes -> Nat]

LEMMA NodeKeepsTypes ==
    ASSUME HealthInv, DirectoryTypeOK', NEW n \in Nodes, NodeStep(n)
    PROVE  TypeOK' /\ regs' \in [Nodes -> Nat]
<1> USE HealthParams DEF HealthInv, TypeOK, scan, detector
<1>1. ASSUME regs[n] < MaxRegs[n], regs' = [regs EXCEPT ![n] = @ + 1]
      PROVE  regs' \in [Nodes -> Nat] /\ \A m \in Nodes : regs'[m] \in 0 .. MaxRegs[m]
      BY <1>1
<1>2. ASSUME NEW meta \in Meta, Register(n, meta) PROVE TypeOK' /\ regs' \in [Nodes -> Nat]
      BY <1>1, <1>2 DEF Register, RpcStep
<1>3. CASE RegisterFails(n)  BY <1>1, <1>3 DEF RegisterFails
<1>4. CASE Drain(n)  BY <1>4 DEF Drain, RpcStep
<1>5. CASE Crash(n)  BY <1>5 DEF Crash
<1>6. ASSUME NEW u \in Uids, PlayerSeen(u, n) \/ PlayerGone(u, n)
      PROVE  TypeOK' /\ regs' \in [Nodes -> Nat]
      BY <1>6 DEF PlayerSeen, PlayerGone, health
<1> QED  BY <1>2, <1>3, <1>4, <1>5, <1>6 DEF NodeStep

LEMMA MasterKeepsTypes ==
    ASSUME HealthInv, DirectoryTypeOK',
           (\E n \in Nodes : Heartbeat(n) \/ HandlerStep(n)) \/ ScanStep \/ Tick
    PROVE  TypeOK' /\ regs' \in [Nodes -> Nat]
<1> USE HealthParams DEF HealthInv, TypeOK, scan, detector
<1>1. ASSUME NEW n \in Nodes, Heartbeat(n) \/ HandlerStep(n)
      PROVE  TypeOK' /\ regs' \in [Nodes -> Nat]
      <2>1. CASE Heartbeat(n)
            BY <2>1 DEF Heartbeat, HeartbeatKnown, HeartbeatUnknown, RpcStep, vars, health
      <2>2. CASE Track(n)  BY <2>2 DEF Track, RpcStep
      <2>3. CASE Untrack(n)  BY <2>3 DEF Untrack, RpcStep
      <2>4. CASE HeartbeatTaken(n)  BY <2>4 DEF HeartbeatTaken, RpcStep
      <2> QED  BY <1>1, <2>1, <2>2, <2>3, <2>4 DEF HandlerStep
<1>2. CASE Scan  BY <1>2 DEF Scan
<1>3. ASSUME NEW n \in Nodes, Evict(n) \/ EvictUntrack(n)
      PROVE  TypeOK' /\ regs' \in [Nodes -> Nat]
      BY <1>3 DEF Evict, EvictUntrack
<1>4. CASE Tick  BY <1>4 DEF Tick
<1> QED  BY <1>1, <1>2, <1>3, <1>4 DEF ScanStep

(* Only a live node beats, and never while its registration or its leave   *)
(* is being handled; what the detector and a scan hold are nodes.          *)
THEOREM OnlyTheLivingBeat == Spec => []TypeOK
<1>1. Init => HealthInv
      <2> SUFFICES ASSUME Init PROVE HealthInv  OBVIOUS
      <2>1. DInv  BY DirectoryStart DEF Init
      <2>2. TypeOK /\ regs \in [Nodes -> Nat]
            BY <2>1, HealthParams DEF Init, TypeOK, DInv
      <2> QED  BY <2>1, <2>2 DEF HealthInv
<1>2. HealthInv /\ [Next]_vars => HealthInv'
      <2> SUFFICES ASSUME HealthInv, [Next]_vars PROVE HealthInv'  OBVIOUS
      <2>1. DInv'  BY HealthStep, DirectoryStep DEF HealthInv
      <2>2. DirectoryTypeOK'  BY <2>1 DEF DInv
      <2>3. CASE UNCHANGED vars
            BY <2>1, <2>3 DEF vars, health, HealthInv, TypeOK, DInv
      <2> QED  BY <2>1, <2>2, <2>3, NodeKeepsTypes, MasterKeepsTypes DEF Next, HealthInv
<1>3. HealthInv => TypeOK  BY DEF HealthInv
<1> QED  BY <1>1, <1>2, <1>3, PTL DEF Spec
=============================================================================
