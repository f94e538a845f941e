----------------------------- MODULE Discovery -----------------------------
(***************************************************************************)
(* Service discovery over etcd (transport/etcd, app/discovery.go,          *)
(* app/node_registry.go).  The processes of one node, one after another,   *)
(* register its key under a lease they keep alive, register it again when  *)
(* the lease is lost, and take it away when they stop; a resolver reads    *)
(* the key and reads it again when its watch reports a change.  Leases,    *)
(* revisions and compaction are etcd's.  Every call of it may fail, with   *)
(* or without effect.                                                      *)
(***************************************************************************)
EXTENDS Naturals

CONSTANTS
    Procs,
    Attempts,   \* maxAttempts of Register
    MaxFaults   \* bound: failed calls, crashes, lost channels and leases, compactions

DiscoveryParams == Attempts \in Nat \ {0} /\ MaxFaults \in Nat

VARIABLES
    alive, granted,  \* leases; they are numbered
    key,             \* the lease the key is bound to, 0 if there is no key
    rev, floor,      \* revision of the key; the oldest that is not compacted
    late,            \* "due": a Delete that failed is on its way; "done": it came
    phase, again,    \* where a process stands, and whether it registers again
    tries,
    lease, fresh,    \* the lease it keeps alive, and that of the attempt
    ending,          \* its registration is withdrawn, or its client closed
    view,            \* where the resolver's watch stands
    seen,            \* its list holds the node
    lastRev, pos,    \* the last revision it was told of; the next one it is told
    gap,             \* its list may be stale without more to be told
    faults

etcd == <<alive, granted, key, rev, floor, late>>
proc == <<phase, again, tries, lease, fresh, ending>>
resolver == <<view, seen, lastRev, pos, gap>>
vars == <<etcd, proc, resolver, faults>>

DSInit ==
    /\ alive = {} /\ granted = 0 /\ key = 0 /\ rev = 0 /\ floor = 1 /\ late = "no"
    /\ phase = [p \in Procs |-> "off"] /\ again = [p \in Procs |-> FALSE]
    /\ tries = [p \in Procs |-> 0] /\ lease = tries /\ fresh = tries
    /\ ending = [p \in Procs |-> "no"]
    /\ view = "list" /\ seen = FALSE /\ lastRev = 0 /\ pos = 1 /\ gap = FALSE
    /\ faults = 0

-----------------------------------------------------------------------------
Present == key # 0
Fault == faults < MaxFaults /\ faults' = faults + 1
NoFault == UNCHANGED faults

Changes(k) ==
    key' = k /\ rev' = IF Present \/ k # 0 THEN rev + 1 ELSE rev
Untouched == UNCHANGED etcd

EndsLease(l) ==
    /\ alive' = alive \ {l}
    /\ IF key = l THEN Changes(0) ELSE UNCHANGED <<key, rev>>
    /\ UNCHANGED <<granted, floor, late>>

(* A Delete, which does not ask whose lease the key is bound to. *)
DeleteKey ==
    \/ NoFault /\ Changes(0) /\ UNCHANGED <<alive, granted, floor, late>>
    \/ Fault /\ Changes(0) /\ UNCHANGED <<alive, granted, floor, late>>
    \/ Fault /\ UNCHANGED <<alive, granted, key, rev, floor>>
       /\ late' \in {late, IF late = "no" THEN "due" ELSE late}

RevokeLease(l) ==
    \/ NoFault /\ EndsLease(l)
    \/ Fault /\ (EndsLease(l) \/ Untouched)

Expires(l) == l \in alive /\ EndsLease(l) /\ UNCHANGED <<proc, resolver>>
Held(l) == \E p \in Procs :
    \/ phase[p] = "live" /\ lease[p] = l
    \/ phase[p] \in {"put", "keepalive"} /\ fresh[p] = l
Expire == (\E l \in alive : ~Held(l) /\ Expires(l)) /\ NoFault
ExpireHeld == (\E l \in alive : Held(l) /\ Expires(l)) /\ Fault

Compact ==
    /\ floor <= rev /\ floor' = rev + 1 /\ Fault
    /\ UNCHANGED <<alive, granted, key, rev, late, proc, resolver>>
LateDelete ==
    /\ late = "due" /\ late' = "done" /\ Changes(0)
    /\ UNCHANGED <<alive, granted, floor, proc, resolver, faults>>

-----------------------------------------------------------------------------
Goes(p, to) == phase' = [phase EXCEPT ![p] = to]
Ended(p) == phase[p] \in {"off", "done", "refused", "dead"}

(* The process of the node starts when there is no other. *)
Register(p) ==
    /\ phase[p] = "off" /\ \A q \in Procs : Ended(q) /\ Goes(p, "grant")
    /\ UNCHANGED <<etcd, again, tries, lease, fresh, ending, resolver, faults>>

(* A round that failed: reregister tries for ever, Register a few times. *)
Failed(p) ==
    /\ tries' = [tries EXCEPT ![p] = IF again[p] THEN @ ELSE @ + 1]
    /\ Goes(p, IF ~again[p] /\ tries[p] + 1 = Attempts THEN "refused" ELSE "grant")

Grants(p) ==
    granted' = granted + 1 /\ alive' = alive \union {granted + 1}

Grant(p) ==
    /\ phase[p] = "grant" /\ ending[p] = "no"
    /\ \/ /\ NoFault /\ Grants(p) /\ fresh' = [fresh EXCEPT ![p] = granted + 1]
          /\ Goes(p, "put") /\ UNCHANGED tries
       \/ /\ Fault /\ (Grants(p) \/ UNCHANGED <<granted, alive>>)
          /\ Failed(p) /\ UNCHANGED fresh
    /\ UNCHANGED <<key, rev, floor, late, again, lease, ending, resolver>>

GiveUp(p) ==
    /\ phase[p] = "grant" /\ ending[p] # "no"
    /\ Goes(p, IF ~again[p] THEN "refused" ELSE IF ending[p] = "stop" THEN "delete" ELSE "done")
    /\ UNCHANGED <<etcd, again, tries, lease, fresh, ending, resolver, faults>>

(* Mutation: a key that is still there is taken for registered. *)
PutIfAbsent(p) ==
    /\ phase[p] = "put"
    /\ \/ /\ fresh[p] \in alive /\ NoFault /\ Goes(p, "keepalive")
          /\ IF Present THEN UNCHANGED <<key, rev>> ELSE Changes(fresh[p])
       \/ /\ fresh[p] \notin alive /\ NoFault /\ UNCHANGED <<key, rev>> /\ Goes(p, "revoke")
    /\ UNCHANGED <<alive, granted, floor, late, again, tries, lease, fresh, ending, resolver>>

Put(p) ==
    /\ phase[p] = "put"
    /\ \/ /\ fresh[p] \in alive /\ Changes(fresh[p])
          /\ \/ NoFault /\ Goes(p, "keepalive")
             \/ Fault /\ Goes(p, "revoke")
       \/ /\ Fault \/ (fresh[p] \notin alive /\ NoFault)
          /\ UNCHANGED <<key, rev>> /\ Goes(p, "revoke")
    /\ UNCHANGED <<alive, granted, floor, late, again, tries, lease, fresh, ending, resolver>>

KeepAlive(p) ==
    /\ phase[p] = "keepalive"
    /\ \/ NoFault /\ Goes(p, "live") /\ lease' = [lease EXCEPT ![p] = fresh[p]]
       \/ Fault /\ Goes(p, IF again[p] THEN "revoke" ELSE "unput") /\ UNCHANGED lease
    /\ UNCHANGED <<etcd, again, tries, fresh, ending, resolver>>

(* Only Register deletes the key of an attempt that failed. *)
Unput(p) ==
    /\ phase[p] = "unput" /\ DeleteKey /\ Goes(p, "revoke")
    /\ UNCHANGED <<again, tries, lease, fresh, ending, resolver>>

Revoke(p) ==
    /\ phase[p] = "revoke" /\ RevokeLease(fresh[p]) /\ Failed(p)
    /\ UNCHANGED <<again, lease, fresh, ending, resolver>>

(* Mutation: the loop ends with its channel. *)
LostEnds(p) ==
    /\ phase[p] = "live" /\ lease[p] \notin alive /\ Goes(p, "lost")
    /\ UNCHANGED <<etcd, again, tries, lease, fresh, ending, resolver, faults>>

(* The channel was closed, or reports a lease that is gone. *)
Loses(p) ==
    /\ phase[p] = "live" /\ Goes(p, "grant") /\ again' = [again EXCEPT ![p] = TRUE]
    /\ UNCHANGED <<etcd, tries, lease, fresh, ending, resolver>>
Lost(p) == lease[p] \notin alive /\ Loses(p) /\ NoFault
LostEarly(p) == lease[p] \in alive /\ Loses(p) /\ Fault

EndLive(p) ==
    /\ phase[p] = "live" /\ ending[p] # "no"
    /\ Goes(p, IF ending[p] = "stop" THEN "delete" ELSE "done")
    /\ UNCHANGED <<etcd, again, tries, lease, fresh, ending, resolver, faults>>

Cleanup(p) ==
    /\ \/ phase[p] = "delete" /\ DeleteKey /\ Goes(p, "release")
       \/ phase[p] = "release" /\ RevokeLease(lease[p]) /\ Goes(p, "done")
    /\ UNCHANGED <<again, tries, lease, fresh, ending, resolver>>

Ends(p, how) ==
    /\ ~Ended(p) /\ ending[p] = "no" /\ ending' = [ending EXCEPT ![p] = how]
    /\ UNCHANGED <<etcd, phase, again, tries, lease, fresh, resolver, faults>>
Stop(p) == (phase[p] = "live" \/ again[p]) /\ Ends(p, "stop")
Close(p) == Ends(p, "close")
Crash(p) ==
    /\ ~Ended(p) /\ Goes(p, "dead") /\ Fault
    /\ UNCHANGED <<etcd, again, tries, lease, fresh, ending, resolver>>

Registration(p) ==
    \/ Grant(p) \/ GiveUp(p) \/ Put(p) \/ KeepAlive(p) \/ Unput(p) \/ Revoke(p)
    \/ Lost(p) \/ EndLive(p) \/ Cleanup(p)

-----------------------------------------------------------------------------
(* refresh: what is read now, or what was read before. *)
Refresh(to) ==
    /\ view' = to
    /\ \/ NoFault /\ seen' = Present /\ gap' = FALSE
       \/ Fault /\ gap' = TRUE /\ UNCHANGED seen
    /\ UNCHANGED <<etcd, proc, lastRev, pos>>

(* start reads before it watches, and onReset before the watch is there. *)
Read ==
    \/ view = "list" /\ Refresh("connect")
    \/ view = "read" /\ Refresh("watch")
    \/ view = "reset" /\ Refresh("connect")

(* Mutation: a new watch always begins with what comes next. *)
ConnectLatest ==
    /\ view = "connect" /\ view' = "watch" /\ pos' = rev + 1
    /\ gap' = (gap \/ (lastRev = 0 /\ seen # Present))
    /\ UNCHANGED <<etcd, proc, seen, lastRev, faults>>

(* Without a revision a watch begins with what comes next. *)
Connect ==
    /\ view = "connect" /\ view' = "watch"
    /\ \/ lastRev = 0 /\ pos' = rev + 1 /\ gap' = (gap \/ seen # Present)
       \/ lastRev > 0 /\ pos' = lastRev + 1 /\ UNCHANGED gap
    /\ UNCHANGED <<etcd, proc, seen, lastRev, faults>>

Deliver ==
    /\ view = "watch" /\ pos <= rev
    /\ \/ /\ pos >= floor /\ view' = "read"
          /\ \E r \in pos..rev : lastRev' = r /\ pos' = r + 1
       \/ pos < floor /\ view' = "reset" /\ lastRev' = 0 /\ UNCHANGED pos
    /\ UNCHANGED <<etcd, proc, seen, gap, faults>>

(* The channel is closed; after a pause there is another. *)
Drop ==
    /\ view = "watch" /\ view' = "connect" /\ Fault
    /\ UNCHANGED <<etcd, proc, seen, lastRev, pos, gap>>

Watching == Read \/ Connect \/ Deliver

DSNext ==
    \/ \E p \in Procs :
        \/ Register(p) \/ Registration(p) \/ LostEarly(p)
        \/ Stop(p) \/ Close(p) \/ Crash(p)
    \/ Expire \/ ExpireHeld \/ Compact \/ LateDelete
    \/ Watching \/ Drop
DSSpec == DSInit /\ [][DSNext]_vars
DSFairSpec ==
    /\ DSSpec /\ \A p \in Procs : WF_vars(Registration(p))
    /\ WF_vars(Expire) /\ WF_vars(Watching)

-----------------------------------------------------------------------------
(* Properties *)

DSTypeOK ==
    /\ alive \subseteq 1..granted /\ key \in alive \union {0} /\ floor \in 1..rev+1
    /\ \A p \in Procs : tries[p] \in 0..Attempts /\ {lease[p], fresh[p]} \subseteq 0..granted
    /\ late \in {"no", "due", "done"} /\ seen \in BOOLEAN /\ gap \in BOOLEAN /\ lastRev \in 0..rev /\ pos \in 1..rev+1

(* tryGrantAndPut, reregister, cleanupRegistration: the loop looks at its  *)
(* lease and never at its key, so the key has to be bound to that lease.   *)
(* It is, unless a Delete took effect after it had failed.                 *)
LiveIsListed == late # "done" =>
    \A p \in Procs : phase[p] = "live" /\ lease[p] \in alive => key = lease[p]

(* watchLoop, refresh: a list that is stale is going to be told so, but    *)
(* for what changed while no watch was there and no revision was known, or *)
(* for a read that failed.                                                 *)
StaleIsTold ==
    ~gap /\ seen # Present =>
        \/ view \in {"list", "read", "reset"}
        \/ view = "watch" /\ pos <= rev
        \/ view = "connect" /\ (lastRev = 0 \/ lastRev < rev)

(* What comes about once calls, failures and crashes end: the key is there *)
(* exactly if a process runs, and the list is as the key is.               *)
Listed == late # "done" => (Present <=> \E p \in Procs : ~Ended(p))
ListIsRight == seen = Present
ListIsExcused == gap \/ ListIsRight

(* "否则服务发现列表会长期停留在过期快照上": that a list is read again so that it *)
(* is never left stale.  Between the read and the watch it can be.         *)
EndsRight == <>[]ListIsRight
============================================================================
