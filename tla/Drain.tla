-------------------------------- MODULE Drain --------------------------------
(***************************************************************************)
(* Draining a game node for a rolling restart (internal/app/drain.go):     *)
(* operators call Drain and CancelDrain, each Drain starts an orchestrating*)
(* goroutine that migrates, then kicks, the node's connections and         *)
(* finishes.  The steps are the code's lock regions: d.mu is held within   *)
(* one step, flowMu from one step to another.  The registration RPCs to    *)
(* the master succeed.                                                     *)
(***************************************************************************)
EXTENDS Naturals, FiniteSets

CONSTANTS
    Operators,      \* concurrent callers of the admin endpoints
    Conns,          \* connection ids
    Options,        \* what Drain may be called with: mode and stop
    MaxRuns,        \* bound on the orchestrating goroutines over time
    MaxCalls        \* bound on the calls of Drain and CancelDrain over time

Nobody == 0

DrainParams ==
    /\ MaxRuns \in Nat \ {0} /\ MaxCalls \in Nat /\ Nobody \notin Operators
    /\ Options \subseteq [mode : {"grace", "migrate", "hybrid"}, stop : BOOLEAN]
    /\ Options # {}

Runs == 1 .. MaxRuns

VARIABLES
    op,         \* op[o]: where the operator's call stands
    calls,      \* calls made
    running, opts, mig, cancel, \* the Drainer's fields; cancel names a channel
    closedChs,  \* the cancel channels that were closed
    draining,   \* the atomic mirror Game.Draining() reads
    flowMu,     \* who holds flowMu: an operator, a run, or 0
    heartbeat, registered,  \* the node's traffic
    run,        \* run[r]: where the orchestrating goroutine stands
    watched,    \* watched[r]: the channel its current select waits on
    cur,        \* cur[r]: the options it last read
    expired,    \* the grace deadline has passed
    conns,      \* live connections (connMgr)
    stopped     \* Game.Stop ran

drainer == <<running, opts, mig, cancel>>
traffic == <<heartbeat, registered>>
vars == <<op, calls, running, opts, mig, cancel, closedChs, draining, flowMu,
          heartbeat, registered, run, watched, cur, expired, conns, stopped>>

Pending == conns \ mig
(* connections minus migrated ones, not below zero. *)
Remaining == IF Cardinality(conns) > Cardinality(mig)
             THEN Cardinality(conns) - Cardinality(mig) ELSE 0

Active == {r \in Runs : run[r] \notin {"none", "gone"}}

Init ==
    /\ op = [o \in Operators |-> "idle"] /\ calls = 0
    /\ running = FALSE /\ opts \in Options /\ mig = {} /\ cancel = 1
    /\ closedChs = {} /\ draining = FALSE /\ flowMu = Nobody
    /\ heartbeat = TRUE /\ registered = TRUE
    /\ run = [r \in Runs |-> "none"] /\ watched = [r \in Runs |-> 0]
    /\ cur = [r \in Runs |-> opts] /\ expired = FALSE
    /\ conns \in SUBSET Conns
    /\ stopped = FALSE

OpStep(o, from, to) == op[o] = from /\ op' = [op EXCEPT ![o] = to]
RunStep(r, from, to) == run[r] = from /\ run' = [run EXCEPT ![r] = to]

-----------------------------------------------------------------------------
(* Drain *)

(* Under d.mu: a running drain only takes the new options; otherwise a new *)
(* round starts, on a fresh cancel channel if the last one was closed.     *)
DrainBegin(o) ==
    /\ op[o] = "idle"
    /\ calls < MaxCalls /\ calls' = calls + 1
    /\ opts' \in Options /\ expired' = FALSE
    /\ \/ /\ running
          /\ UNCHANGED <<op, running, mig, cancel, draining>>
       \/ /\ ~running
          /\ OpStep(o, "idle", "drainFlow")
          /\ running' = TRUE /\ mig' = {} /\ draining' = TRUE
          /\ cancel' = IF cancel \in closedChs THEN cancel + 1 ELSE cancel
    /\ UNCHANGED <<closedChs, flowMu, traffic, run, watched, cur, conns, stopped>>

(* Mutation: the running test under flowMu is missing. *)
DrainTakeFlowBlind(o) ==
    /\ OpStep(o, "drainFlow", "strip")
    /\ flowMu = Nobody /\ flowMu' = o
    /\ UNCHANGED <<calls, drainer, closedChs, draining, traffic, run, watched, cur,
                   expired, conns, stopped>>

(* Under flowMu: a round cancelled meanwhile is left to CancelDrain.       *)
DrainTakeFlow(o) ==
    /\ flowMu = Nobody
    /\ IF running
       THEN OpStep(o, "drainFlow", "strip") /\ flowMu' = o
       ELSE OpStep(o, "drainFlow", "idle") /\ UNCHANGED flowMu
    /\ UNCHANGED <<calls, drainer, closedChs, draining, traffic, run, watched, cur,
                   expired, conns, stopped>>

(* Stop the heartbeat, deregister, release flowMu, start the goroutine.    *)
DrainStrip(o) ==
    /\ OpStep(o, "strip", "idle")
    /\ heartbeat' = FALSE /\ registered' = FALSE
    /\ flowMu' = Nobody
    /\ \E r \in Runs :
         /\ run[r] = "none" /\ \A q \in 1 .. r - 1 : run[q] # "none"
         /\ run' = [run EXCEPT ![r] = "top"]
    /\ UNCHANGED <<calls, drainer, closedChs, draining, watched, cur, expired, conns, stopped>>

-----------------------------------------------------------------------------
(* CancelDrain *)

CancelBegin(o) ==
    /\ calls < MaxCalls /\ calls' = calls + 1
    /\ running
    /\ OpStep(o, "idle", "unflag")
    /\ running' = FALSE
    /\ UNCHANGED <<opts, mig, cancel, closedChs, draining, flowMu, traffic, run,
                   watched, cur, expired, conns, stopped>>

(* d.mu is released by now.                                                *)
CancelUnflag(o) ==
    /\ OpStep(o, "unflag", "close")
    /\ draining' = FALSE
    /\ UNCHANGED <<calls, drainer, closedChs, flowMu, traffic, run, watched, cur,
                   expired, conns, stopped>>

(* The select: nothing to do if the channel d.cancel names now is closed.  *)
CancelSelect(o) ==
    /\ OpStep(o, "close", IF cancel \in closedChs THEN "restore" ELSE "shut")
    /\ UNCHANGED <<calls, drainer, closedChs, draining, flowMu, traffic, run,
                   watched, cur, expired, conns, stopped>>

(* The close of the channel d.cancel names by then.  One that another      *)
(* cancel closed meanwhile panics, and the call ends there (net/http       *)
(* recovers for the admin endpoint).                                       *)
CancelClose(o) ==
    /\ OpStep(o, "shut", IF cancel \in closedChs THEN "idle" ELSE "restore")
    /\ closedChs' = closedChs \cup {cancel}
    /\ UNCHANGED <<calls, drainer, draining, flowMu, traffic, run, watched, cur,
                   expired, conns, stopped>>

(* Under flowMu: register again, restart the heartbeat.                    *)
CancelRestore(o) ==
    /\ OpStep(o, "restore", "idle")
    /\ flowMu = Nobody
    /\ heartbeat' = TRUE /\ registered' = TRUE
    /\ UNCHANGED <<calls, drainer, closedChs, draining, flowMu, run, watched, cur,
                   expired, conns, stopped>>

-----------------------------------------------------------------------------
(* Drainer.run *)

(* Enter the select: d.cancel is read afresh each time around.             *)
RunSelect(r) ==
    /\ \/ RunStep(r, "top", "wait") \/ RunStep(r, "kickTop", "kickWait")
    /\ run[r] = "kickTop" => Remaining > 0
    /\ watched' = [watched EXCEPT ![r] = cancel]
    /\ UNCHANGED <<op, calls, drainer, closedChs, draining, flowMu, traffic, cur,
                   expired, conns, stopped>>

RunCancelled(r) ==
    /\ run[r] \in {"wait", "kickWait"} /\ watched[r] \in closedChs
    /\ run' = [run EXCEPT ![r] = "gone"]
    /\ UNCHANGED <<op, calls, drainer, closedChs, draining, flowMu, traffic,
                   watched, cur, expired, conns, stopped>>

(* A tick: switch some pending connections to the target; the switch of    *)
(* the others fails.                                                       *)
MigrateBatch(r) ==
    /\ RunStep(r, "wait", "checked")
    /\ IF opts.mode = "grace" THEN UNCHANGED mig
       ELSE \E S \in SUBSET Pending : mig' = mig \cup S
    /\ cur' = [cur EXCEPT ![r] = opts]
    /\ UNCHANGED <<op, calls, running, opts, cancel, closedChs, draining, flowMu,
                   traffic, watched, expired, conns, stopped>>

(* Mutation: the grace deadline ends the wait in migrate mode only. *)
DecideWaitsOn(r) ==
    /\ \/ Remaining = 0 /\ RunStep(r, "checked", "empty")
       \/ /\ Remaining > 0 /\ ~(expired /\ opts.mode = "migrate")
          /\ RunStep(r, "checked", "top")
       \/ /\ Remaining > 0 /\ expired /\ opts.mode = "migrate"
          /\ RunStep(r, "checked", "finish")
    /\ UNCHANGED <<op, calls, drainer, closedChs, draining, flowMu, traffic,
                   watched, cur, expired, conns, stopped>>

(* Nothing remaining: finish.  Grace over: read the options again, then    *)
(* kick, or finish in migrate mode.  Otherwise wait for the next tick.     *)
Decide(r) ==
    /\ \/ Remaining = 0 /\ RunStep(r, "checked", "empty") /\ UNCHANGED cur
       \/ Remaining > 0 /\ ~expired /\ RunStep(r, "checked", "top") /\ UNCHANGED cur
       \/ /\ Remaining > 0 /\ expired
          /\ cur' = [cur EXCEPT ![r] = opts]
          /\ RunStep(r, "checked", IF opts.mode = "migrate" THEN "finish" ELSE "kickTop")
    /\ UNCHANGED <<op, calls, drainer, closedChs, draining, flowMu, traffic,
                   watched, expired, conns, stopped>>

KickedAll(r) ==
    /\ Remaining = 0 /\ RunStep(r, "kickTop", "empty")
    /\ UNCHANGED <<op, calls, drainer, closedChs, draining, flowMu, traffic,
                   watched, cur, expired, conns, stopped>>

(* KickConn takes the connection out of connMgr; d.mig is left alone.      *)
KickBatch(r) ==
    /\ RunStep(r, "kickWait", "kickTop")
    /\ \E S \in (SUBSET Pending) \ {{}} : conns' = conns \ S
    /\ UNCHANGED <<op, calls, drainer, closedChs, draining, flowMu, traffic,
                   watched, cur, expired, stopped>>

HardTimeout(r) ==
    /\ RunStep(r, "kickWait", "finish")
    /\ UNCHANGED <<op, calls, drainer, closedChs, draining, flowMu, traffic,
                   watched, cur, expired, conns, stopped>>

(* finish, under d.mu, then the unlocked draining.Store(false).            *)
FinishBegin(r) ==
    /\ run[r] \in {"empty", "finish"}
    /\ run' = [run EXCEPT ![r] = IF cur[r].stop THEN "unflagStop" ELSE "unflag"]
    /\ running' = FALSE
    /\ UNCHANGED <<op, calls, opts, mig, cancel, closedChs, draining, flowMu,
                   traffic, watched, cur, expired, conns, stopped>>

FinishUnflag(r) ==
    /\ RunStep(r, "unflag", "restore") \/ RunStep(r, "unflagStop", "stop")
    /\ draining' = FALSE
    /\ UNCHANGED <<op, calls, drainer, closedChs, flowMu, traffic, watched, cur,
                   expired, conns, stopped>>

(* Under flowMu: unless a new round began, restore the traffic.            *)
FinishRestore(r) ==
    /\ RunStep(r, "restore", "gone")
    /\ flowMu = Nobody
    /\ IF running THEN UNCHANGED traffic ELSE heartbeat' = TRUE /\ registered' = TRUE
    /\ UNCHANGED <<op, calls, drainer, closedChs, draining, flowMu, watched, cur,
                   expired, conns, stopped>>

FinishStop(r) ==
    /\ RunStep(r, "stop", "gone")
    /\ stopped' = TRUE
    /\ UNCHANGED <<op, calls, drainer, closedChs, draining, flowMu, traffic,
                   watched, cur, expired, conns>>

-----------------------------------------------------------------------------
(* The node's surroundings *)

DeadlinePasses ==
    /\ running /\ ~expired /\ expired' = TRUE
    /\ UNCHANGED <<op, calls, drainer, closedChs, draining, flowMu, traffic, run,
                   watched, cur, conns, stopped>>

(* A message of connection k reaches BeforeDispatch.  While draining it is *)
(* refused, and switched to the target and counted as migrated if there is *)
(* one; otherwise the connection is (or becomes) one of the node's.        *)
Message(k) ==
    /\ IF draining
       THEN /\ running /\ opts.mode # "grace"
            /\ mig' = mig \cup {k}
            /\ UNCHANGED conns
       ELSE conns' = conns \cup {k} /\ UNCHANGED mig
    /\ UNCHANGED <<op, calls, running, opts, cancel, closedChs, draining, flowMu,
                   traffic, run, watched, cur, expired, stopped>>

Disconnect(k) ==
    /\ k \in conns /\ conns' = conns \ {k}
    /\ UNCHANGED <<op, calls, drainer, closedChs, draining, flowMu, traffic, run,
                   watched, cur, expired, stopped>>

-----------------------------------------------------------------------------
OperatorStep(o) ==
    \/ DrainTakeFlow(o) \/ DrainStrip(o)
    \/ CancelUnflag(o) \/ CancelSelect(o) \/ CancelClose(o) \/ CancelRestore(o)

RunnerStep(r) ==
    \/ RunSelect(r) \/ RunCancelled(r) \/ MigrateBatch(r) \/ Decide(r)
    \/ KickedAll(r) \/ KickBatch(r) \/ HardTimeout(r)
    \/ FinishBegin(r) \/ FinishUnflag(r) \/ FinishRestore(r) \/ FinishStop(r)

Next ==
    /\ ~stopped
    /\ \/ \E o \in Operators : DrainBegin(o) \/ CancelBegin(o) \/ OperatorStep(o)
       \/ \E r \in Runs : RunnerStep(r)
       \/ DeadlinePasses
       \/ \E k \in Conns : Message(k) \/ Disconnect(k)

Spec == Init /\ [][Next]_vars

OperatorRuns(o) == ~stopped /\ OperatorStep(o)
RunnerRuns(r)   == ~stopped /\ RunnerStep(r)
TimesOut(r)     == ~stopped /\ HardTimeout(r)
GraceRunsOut    == ~stopped /\ DeadlinePasses

(* Goroutines are scheduled and timers fire; between a kick tick and the   *)
(* hard timeout a select does not always take the tick.                    *)
FairSpec ==
    /\ Spec
    /\ \A o \in Operators : WF_vars(OperatorRuns(o))
    /\ \A r \in Runs : WF_vars(RunnerRuns(r)) /\ SF_vars(TimesOut(r))
    /\ WF_vars(GraceRunsOut)

-----------------------------------------------------------------------------
(* Properties *)

(* Besides the types: an operator between stopping the traffic and its     *)
(* last test holds flowMu, so at most one is there.                        *)
TypeOK ==
    /\ op \in [Operators -> {"idle", "drainFlow", "strip", "unflag", "close", "shut",
                          "restore"}]
    /\ calls \in 0 .. MaxCalls
    /\ running \in BOOLEAN /\ opts \in Options /\ mig \subseteq Conns
    /\ cancel \in Nat /\ closedChs \subseteq 1 .. cancel
    /\ draining \in BOOLEAN /\ flowMu \in Operators \cup {Nobody}
    /\ \A o \in Operators : op[o] = "strip" <=> flowMu = o
    /\ heartbeat \in BOOLEAN /\ registered \in BOOLEAN
    /\ run \in [Runs -> {"none", "top", "wait", "checked", "empty", "finish", "kickTop",
                         "kickWait", "unflag", "unflagStop", "restore", "stop", "gone"}]
    /\ watched \in [Runs -> 0 .. cancel] /\ cur \in [Runs -> Options]
    /\ expired \in BOOLEAN /\ conns \subseteq Conns /\ stopped \in BOOLEAN

(* No call of Drain, CancelDrain or finish is under way.                   *)
Settled ==
    /\ \A o \in Operators : op[o] = "idle"
    /\ \A r \in Runs : run[r] \notin {"unflag", "unflagStop", "restore", "stop"}

(* flowMu's comment: drain and cancel "end up in the right order (never    *)
(* stripped, or restored) and do not stop half dead, heartbeat stopped and *)
(* node unregistered".  A node that is not draining has its traffic.       *)
NotHalfDead == Settled /\ ~running /\ ~stopped => heartbeat /\ registered

(* Drain's comment on the cancel channel: a new round must not find it     *)
(* closed and "do nothing".  A running drain has a goroutine working on it.*)
RunningIsOrchestrated == Settled /\ running /\ ~stopped => Active # {}

(* A drain nobody cancels ends, whatever connects, leaves or fails to      *)
(* migrate: the grace deadline and the hard timeout see to it, unless a    *)
(* stop of the round before takes the process down.  (A cancel may leave   *)
(* the next round without a goroutine: RunningIsOrchestrated.)             *)
NoCancel == \A o \in Operators : op[o] \notin {"unflag", "close", "shut"}

Ended == ~running \/ stopped
DrainEnds == []NoCancel => (running ~> Ended)
=============================================================================
