----------------------------- MODULE NodeHealth -----------------------------
(***************************************************************************)
(* Who is alive: the master's failure detector (failover/health.go), wired *)
(* to the directory by setupMasterHealth (app/master_server.go), and the   *)
(* nodes that register, beat, drain and crash.  The directory and the      *)
(* detector have locks of their own, so every handler that touches both    *)
(* does it in two steps, with others in between.                           *)
(***************************************************************************)
EXTENDS Directory

CONSTANTS
    DeadAge,    \* ticks of silence that make a node dead; one makes it suspect
    MaxRegs     \* MaxRegs[n]: bound on the registrations of n over time

ASSUME HealthParams == DeadAge \in Nat /\ DeadAge > 1 /\ MaxRegs \in [Nodes -> Nat]

VARIABLES
    track,      \* track[n]: the detector's entry for n
    silence,    \* silence[n]: ticks since its last heartbeat
    rpc,        \* rpc[n]: the second step the handler of n's request has left
    doomed,     \* dead nodes the current Scan has yet to report
    evicting,   \* the node whose removal it has yet to tell the detector
    up, beating,    \* the node's process and its heartbeat reporter
    regs        \* registrations made

detector == <<track, silence>>
scan == <<doomed, evicting>>
health == <<track, silence, rpc, doomed, evicting, up, beating, regs>>
vars == <<directory, health>>

Init ==
    /\ DirectoryInit
    /\ track = [n \in Nodes |-> "none"] /\ silence = [n \in Nodes |-> 0]
    /\ rpc = [n \in Nodes |-> "idle"]
    /\ doomed = {} /\ evicting = None
    /\ up = [n \in Nodes |-> FALSE] /\ beating = [n \in Nodes |-> FALSE]
    /\ regs = [n \in Nodes |-> 0]

RpcStep(n, from, to) == rpc[n] = from /\ rpc' = [rpc EXCEPT ![n] = to]

-----------------------------------------------------------------------------
(* Node n *)

(* Start up, or go back into service after a drain: register first.        *)
Register(n, meta) ==
    /\ ~beating[n]
    /\ regs[n] < MaxRegs[n] /\ regs' = [regs EXCEPT ![n] = @ + 1]
    /\ RpcStep(n, "idle", "track")
    /\ up' = [up EXCEPT ![n] = TRUE]
    /\ RegisterNode(n, meta)
    /\ UNCHANGED <<detector, scan, beating>>

(* The registration fails; the node logs it and beats all the same.        *)
RegisterFails(n) ==
    /\ ~beating[n] /\ rpc[n] = "idle"
    /\ regs[n] < MaxRegs[n] /\ regs' = [regs EXCEPT ![n] = @ + 1]
    /\ up' = [up EXCEPT ![n] = TRUE] /\ beating' = [beating EXCEPT ![n] = TRUE]
    /\ UNCHANGED <<directory, detector, rpc, scan>>

(* Mutation: the node deregisters before it stops its reporter. *)
DrainRemovesFirst(n) ==
    /\ up[n] /\ beating[n]
    /\ RemoveNode(n) /\ RpcStep(n, "idle", "untrack")
    /\ UNCHANGED <<detector, scan, up, beating, regs>>

(* Drain: stop the reporter, deregister.                                   *)
Drain(n) ==
    /\ up[n] /\ beating[n] /\ beating' = [beating EXCEPT ![n] = FALSE]
    /\ \/ RemoveNode(n) /\ RpcStep(n, "idle", "untrack")
       \/ ~Registered(n) /\ rpc[n] = "idle" /\ UNCHANGED <<directory, rpc>>
    /\ UNCHANGED <<detector, scan, up, regs>>

Crash(n) ==
    /\ up[n]
    /\ up' = [up EXCEPT ![n] = FALSE] /\ beating' = [beating EXCEPT ![n] = FALSE]
    /\ UNCHANGED <<directory, detector, rpc, scan, regs>>

(* A message of one of n's players, or the last one's end.                 *)
PlayerSeen(u, n) == up[n] /\ RegisterPlayer(u, n) /\ UNCHANGED health
PlayerGone(u, n) == up[n] /\ RemovePlayer(u, n) /\ UNCHANGED health

-----------------------------------------------------------------------------
(* The master's handlers *)

(* The registration callback; then the node starts to beat.                *)
Track(n) ==
    /\ RpcStep(n, "track", "idle")
    /\ IF track[n] = "none"
       THEN track' = [track EXCEPT ![n] = "alive"] /\ silence' = [silence EXCEPT ![n] = 0]
       ELSE UNCHANGED detector
    /\ beating' = [beating EXCEPT ![n] = up[n]]
    /\ UNCHANGED <<directory, scan, up, regs>>

Untrack(n) ==
    /\ RpcStep(n, "untrack", "idle")
    /\ track' = [track EXCEPT ![n] = "none"] /\ silence' = [silence EXCEPT ![n] = 0]
    /\ UNCHANGED <<directory, scan, up, beating, regs>>

(* A heartbeat of a node the directory knows goes on to the detector.      *)
HeartbeatKnown(n) ==
    /\ up[n] /\ beating[n] /\ Registered(n)
    /\ RpcStep(n, "idle", "known")
    /\ UNCHANGED <<directory, detector, scan, up, beating, regs>>

(* Any other is answered Known = false; the reporter of a game node has no *)
(* onStale callback, so nothing follows.                                   *)
HeartbeatUnknown(n) ==
    /\ up[n] /\ beating[n] /\ ~Registered(n) /\ rpc[n] = "idle"
    /\ UNCHANGED vars

(* Detector.Heartbeat; an unknown entry is made.                           *)
HeartbeatTaken(n) ==
    /\ RpcStep(n, "known", "idle")
    /\ track' = [track EXCEPT ![n] = "alive"] /\ silence' = [silence EXCEPT ![n] = 0]
    /\ UNCHANGED <<directory, scan, up, beating, regs>>

-----------------------------------------------------------------------------
(* Time and the detector's Scan *)

Tick ==
    /\ silence' = [n \in Nodes |-> IF track[n] = "none" \/ silence[n] = DeadAge
                                   THEN silence[n] ELSE silence[n] + 1]
    /\ UNCHANGED <<directory, track, rpc, scan, up, beating, regs>>

(* Mutation: only a node that was suspect before is found dead. *)
ScanSuspectsOnly ==
    /\ doomed = {} /\ evicting = None
    /\ \E n \in Nodes : track[n] = "alive" /\ silence[n] = 1
    /\ track' = [n \in Nodes |-> IF track[n] = "alive" /\ silence[n] >= 1 THEN "suspect"
                                 ELSE track[n]]
    /\ UNCHANGED <<directory, silence, rpc, scan, up, beating, regs>>

Scan ==
    LET dead == {n \in Nodes : track[n] \in {"alive", "suspect"} /\ silence[n] = DeadAge}
        suspect == {n \in Nodes : track[n] = "alive" /\ silence[n] >= 1} \ dead
    IN  /\ doomed = {} /\ evicting = None
        /\ dead \cup suspect # {}
        /\ track' = [n \in Nodes |-> IF n \in dead THEN "dead"
                                     ELSE IF n \in suspect THEN "suspect" ELSE track[n]]
        /\ doomed' = dead
        /\ UNCHANGED <<directory, silence, rpc, evicting, up, beating, regs>>

(* The OnNodeDown callback: remove the node, whatever it did since the     *)
(* scan; the removal's own callback is the next step.                      *)
Evict(n) ==
    /\ n \in doomed /\ evicting = None
    /\ doomed' = doomed \ {n}
    /\ \/ RemoveNode(n) /\ evicting' = n
       \/ ~Registered(n) /\ UNCHANGED <<directory, evicting>>
    /\ UNCHANGED <<detector, rpc, up, beating, regs>>

EvictUntrack(n) ==
    /\ evicting = n /\ evicting' = None
    /\ track' = [track EXCEPT ![n] = "none"] /\ silence' = [silence EXCEPT ![n] = 0]
    /\ UNCHANGED <<directory, rpc, doomed, up, beating, regs>>

-----------------------------------------------------------------------------
NodeStep(n) ==
    \/ RegisterFails(n) \/ Drain(n) \/ Crash(n)
    \/ \E meta \in Meta : Register(n, meta)
    \/ \E u \in Uids : PlayerSeen(u, n) \/ PlayerGone(u, n)

Heartbeat(n) == HeartbeatKnown(n) \/ HeartbeatUnknown(n)
HandlerStep(n) == Track(n) \/ Untrack(n) \/ HeartbeatTaken(n)
ScanStep == Scan \/ \E n \in Nodes : Evict(n) \/ EvictUntrack(n)

Next ==
    \/ \E n \in Nodes : NodeStep(n) \/ Heartbeat(n) \/ HandlerStep(n)
    \/ ScanStep \/ Tick

Spec == Init /\ [][Next]_vars

(* The clock runs, the detector's ticker fires, handlers finish, and a     *)
(* reporter that runs keeps beating.                                       *)
FairSpec ==
    /\ Spec /\ WF_vars(Tick) /\ WF_vars(ScanStep)
    /\ \A n \in Nodes : WF_vars(HandlerStep(n)) /\ WF_vars(Heartbeat(n))

-----------------------------------------------------------------------------
(* Properties *)

(* Besides the types: only a live node beats, and never while its request  *)
(* to register or to leave is being handled (the reporter starts after the *)
(* one and stops before the other).                                        *)
TypeOK ==
    /\ DirectoryTypeOK
    /\ track \in [Nodes -> {"none", "alive", "suspect", "dead"}]
    /\ silence \in [Nodes -> 0 .. DeadAge]
    /\ rpc \in [Nodes -> {"idle", "track", "untrack", "known"}]
    /\ doomed \subseteq Nodes /\ evicting \in Nodes \cup {None}
    /\ up \in [Nodes -> BOOLEAN] /\ beating \in [Nodes -> BOOLEAN]
    /\ \A n \in Nodes : beating[n] => up[n] /\ rpc[n] \in {"idle", "known"}
    /\ \A n \in Nodes : regs[n] \in 0 .. MaxRegs[n]

(* The detector's purpose: a node that died after its only registration is *)
(* taken out of the directory, and every location at it with it, whatever  *)
(* heartbeats, scans and other nodes' requests overlap.  (A node that      *)
(* registers again while its old entry is being removed can be left        *)
(* registered and untracked.)                                              *)
DeadIsEvicted ==
    \A n \in Nodes : <>[](~up[n] /\ regs[n] = 1) => <>[]~Registered(n)

(* server/health.go's answer to a heartbeat it does not know: "the node    *)
(* will go through onStale and register again".  A node that keeps beating *)
(* is registered in the end.                                               *)
AliveRejoins ==
    \A n \in Nodes : <>[](up[n] /\ beating[n]) => <>[]Registered(n)
=============================================================================
