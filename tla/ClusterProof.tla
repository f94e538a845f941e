------------------------------ MODULE ClusterProof ------------------------------
(***************************************************************************)
(* How the processes of a cluster know of each other, how an object passes *)
(* between their scenes, and the rooms that run on them.                   *)
(*                                                                         *)
(* Discovery: for any succession of processes and any failures, until a    *)
(* Delete takes effect after it has failed, a process whose lease is alive *)
(* is listed under it.  The argument: one process at a time has a say      *)
(* (Alone), and between its Put and the loss of its lease only it changes  *)
(* the key (Bound).                                                        *)
(*                                                                         *)
(* SceneTransfer: for any nodes, scenes, goroutines, transfers and faults  *)
(* the object is in one place, until calls of one node cross.  There is    *)
(* one token, kept by a scene, carried by an instruction or held by a      *)
(* goroutine; an action hands it on (Carried) or at most loses it (Fewer). *)
(*                                                                         *)
(* StateRoom, FrameRoom: for any players, seats, watchers, limits and      *)
(* generations a host sits in his room and a watcher's record is what it   *)
(* was told; only members have a state, and a recovery has no hole.        *)
(***************************************************************************)
EXTENDS Discovery, FiniteSetTheorems, WellFoundedInduction, TLAPS

CONSTANTS Nodes, Scenes, None, Home, Movers, MoverAt, Instances, MaxTransfers, MaxMishaps
VARIABLES orderly, instance, life, route, member, objScene, ver, seq, wire,
          call, recv, transfers, mishaps, crossed
T == INSTANCE SceneTransfer WITH
    Callers <- Movers, At <- MoverAt, MaxFaults <- MaxMishaps, faults <- mishaps


Phases == {"off", "grant", "put", "keepalive", "unput", "revoke", "live", "delete", "release",
           "done", "refused", "dead"}
ProcsOK ==
    /\ phase \in [Procs -> Phases] /\ lease \in [Procs -> Nat] /\ fresh \in [Procs -> Nat]

Alone == \A p, q \in Procs : p # q => Ended(p) \/ Ended(q)

Bound == \A p \in Procs :
    /\ phase[p] = "live" /\ lease[p] \in alive => key = lease[p]
    /\ phase[p] = "keepalive" /\ fresh[p] \in alive => key = fresh[p]

ListInv == ProcsOK /\ granted \in Nat /\ Alone /\ (late # "done" => Bound)

-----------------------------------------------------------------------------
(* A step of p that keeps it from the ended ones leaves it alone.          *)
LEMMA StaysAlone ==
    ASSUME ListInv, NEW p \in Procs, NEW to \in Phases, ~Ended(p), Goes(p, to)
    PROVE  Alone' /\ phase' \in [Procs -> Phases]
    BY DEF ListInv, ProcsOK, Alone, Ended, Goes

(* Whatever p does to the key away from "live" and "keepalive", nobody is  *)
(* bound.                                                                  *)
LEMMA NobodyBound ==
    ASSUME ListInv, NEW p \in Procs, ~Ended(p), NEW to \in Phases, Goes(p, to),
           to \notin {"live", "keepalive"}
    PROVE  Bound'
    BY DEF ListInv, ProcsOK, Alone, Bound, Ended, Goes

(* The end of a lease unbinds who held it. *)
LEMMA EndKeepsBound ==
    ASSUME ListInv, NEW l \in alive, EndsLease(l), UNCHANGED proc
    PROVE  ListInv'
    BY DEF ListInv, ProcsOK, Alone, Bound, Ended, EndsLease, Changes, proc

LEMMA RegistrationKeeps ==
    ASSUME ListInv, NEW p \in Procs,
           Registration(p) \/ LostEarly(p) \/ Crash(p)
    PROVE  ListInv'
<1>1. CASE Grant(p)
      <2>1. PICK to \in {"put", "refused", "grant"} : Goes(p, to)
            BY <1>1 DEF Grant, Failed
      <2>2. ~Ended(p)  BY <1>1 DEF Grant, Ended
      <2>3. Alone' /\ phase' \in [Procs -> Phases]  BY <2>1, <2>2, StaysAlone DEF Phases
      <2>4. Bound'  BY <2>1, <2>2, NobodyBound DEF Phases
      <2>5. granted' \in Nat /\ UNCHANGED <<late, lease>> /\ fresh' \in [Procs -> Nat]
            BY <1>1 DEF Grant, Grants, ListInv, ProcsOK
      <2> QED  BY <2>3, <2>4, <2>5 DEF ListInv, ProcsOK
<1>2. CASE Put(p)
      <2>1. ~Ended(p)  BY <1>2 DEF Put, Ended
      <2>2. PICK to \in {"keepalive", "revoke"} : Goes(p, to)  BY <1>2 DEF Put
      <2>3. Alone' /\ phase' \in [Procs -> Phases]  BY <2>1, <2>2, StaysAlone DEF Phases
      <2>4. Bound'
            <3>1. CASE to = "revoke"  BY <2>1, <2>2, <3>1, NobodyBound DEF Phases
            <3>2. CASE to = "keepalive"
                  <4>1. key' = fresh[p] /\ UNCHANGED <<alive, lease, fresh>>
                        BY <1>2, <2>2, <3>2 DEF Put, Goes, Changes, ListInv, ProcsOK
                  <4> QED  BY <2>1, <2>2, <3>2, <4>1 DEF ListInv, ProcsOK, Alone, Bound,
                  Ended, Goes
            <3> QED  BY <3>1, <3>2
      <2> QED  BY <1>2, <2>3, <2>4 DEF Put, ListInv, ProcsOK
<1>3. CASE KeepAlive(p)
      <2>1. ~Ended(p)  BY <1>3 DEF KeepAlive, Ended
      <2>2. PICK to \in {"live", "revoke", "unput"} : Goes(p, to)  BY <1>3 DEF KeepAlive
      <2>3. Alone' /\ phase' \in [Procs -> Phases]  BY <2>1, <2>2, StaysAlone DEF Phases
      <2>4. late # "done" => Bound'
            <3>1. CASE to # "live"  BY <2>1, <2>2, <3>1, NobodyBound DEF Phases
            <3>2. CASE to = "live"
                  <4>1. lease' = [lease EXCEPT ![p] = fresh[p]] /\ UNCHANGED <<alive, key, fresh>>
                        BY <1>3, <2>2, <3>2 DEF KeepAlive, Goes, ListInv, ProcsOK, etcd
                  <4>2. phase[p] = "keepalive"  BY <1>3 DEF KeepAlive
                  <4> QED  BY <2>1, <2>2, <3>2, <4>1, <4>2 DEF ListInv, ProcsOK, Alone,
                  Bound, Ended, Goes
            <3> QED  BY <3>1, <3>2
      <2>5. UNCHANGED <<granted, late, fresh>> /\ lease' \in [Procs -> Nat]
            BY <1>3 DEF KeepAlive, etcd, ListInv, ProcsOK
      <2> QED  BY <2>3, <2>4, <2>5 DEF ListInv, ProcsOK
<1>4. CASE Unput(p) \/ Revoke(p) \/ Cleanup(p)
      <2>1. ~Ended(p)  BY <1>4 DEF Unput, Revoke, Cleanup, Ended
      <2>2. PICK to \in {"revoke", "refused", "grant", "release", "done"} : Goes(p, to)
            BY <1>4 DEF Unput, Revoke, Cleanup, Failed
      <2>3. Alone' /\ phase' \in [Procs -> Phases]  BY <2>1, <2>2, StaysAlone DEF Phases
      <2>4. Bound'  BY <2>1, <2>2, NobodyBound DEF Phases
      <2>5. UNCHANGED <<granted, lease, fresh>> /\ (late = "done" => late' = "done")
            BY <1>4 DEF Unput, Revoke, Cleanup, DeleteKey, RevokeLease, EndsLease, Untouched,
                        etcd, ListInv
      <2> QED  BY <2>3, <2>4, <2>5 DEF ListInv, ProcsOK
<1>5. CASE GiveUp(p) \/ Lost(p) \/ LostEarly(p) \/ EndLive(p) \/ Crash(p)
      <2>1. ~Ended(p)  BY <1>5 DEF GiveUp, Lost, LostEarly, Loses, EndLive, Crash, Ended
      <2>2. PICK to \in {"refused", "delete", "done", "grant", "dead"} : Goes(p, to)
            BY <1>5 DEF GiveUp, Lost, LostEarly, Loses, EndLive, Crash
      <2>3. Alone' /\ phase' \in [Procs -> Phases]  BY <2>1, <2>2, StaysAlone DEF Phases
      <2>4. Bound'  BY <2>1, <2>2, NobodyBound DEF Phases
      <2>5. UNCHANGED <<granted, lease, fresh, late>>
            BY <1>5 DEF GiveUp, Lost, LostEarly, Loses, EndLive, Crash, etcd
      <2> QED  BY <2>3, <2>4, <2>5 DEF ListInv, ProcsOK
<1> QED  BY <1>1, <1>2, <1>3, <1>4, <1>5 DEF Registration

LEMMA ListStart == ASSUME DSInit PROVE ListInv
<1>1. ProcsOK  BY DEF DSInit, ProcsOK, Phases
<1>2. Alone /\ Bound  BY DEF DSInit, Alone, Bound, Ended
<1> QED  BY <1>1, <1>2 DEF DSInit, ListInv

LEMMA ListStep == ASSUME ListInv, [DSNext]_vars PROVE ListInv'
<1>1. CASE UNCHANGED vars
      BY <1>1 DEF vars, etcd, proc, ListInv, ProcsOK, Alone, Bound, Ended
<1>2. ASSUME NEW p \in Procs, Register(p) PROVE ListInv'
      BY <1>2 DEF Register, Goes, Phases, etcd, ListInv, ProcsOK, Alone, Bound, Ended
<1>3. ASSUME NEW p \in Procs, Registration(p) \/ LostEarly(p) \/ Crash(p) PROVE ListInv'
      BY <1>3, RegistrationKeeps
<1>4. ASSUME NEW p \in Procs, Stop(p) \/ Close(p) PROVE ListInv'
      BY <1>4 DEF Stop, Close, Ends, etcd, ListInv, ProcsOK, Alone, Bound, Ended
<1>5. CASE Expire \/ ExpireHeld
      BY <1>5, EndKeepsBound DEF Expire, ExpireHeld, Expires
<1>6. CASE Compact
      BY <1>6 DEF Compact, proc, ListInv, ProcsOK, Alone, Bound, Ended
<1>7. CASE LateDelete
      BY <1>7 DEF LateDelete, proc, ListInv, ProcsOK, Alone, Ended
<1>8. CASE Watching \/ Drop
      BY <1>8 DEF Watching, Read, Refresh, Connect, Deliver, Drop, etcd, proc,
                  ListInv, ProcsOK, Alone, Bound, Ended
<1> QED  BY <1>1, <1>2, <1>3, <1>4, <1>5, <1>6, <1>7, <1>8 DEF DSNext

LEMMA ListMeaning == ASSUME ListInv PROVE LiveIsListed
BY DEF ListInv, Bound, LiveIsListed

-----------------------------------------------------------------------------
(* Register, startKeepAliveLoop, reregister, cleanupRegistration: the loop *)
(* looks at its lease and never at its key, and yet, whatever calls fail,  *)
(* with or without effect, and however often the lease is lost, a process  *)
(* whose lease is alive has the key bound to it.                           *)
THEOREM LiveProcessIsListed == DSSpec => []LiveIsListed
<1>1. DSInit => ListInv  BY ListStart
<1>2. ListInv /\ [DSNext]_vars => ListInv'  BY ListStep
<1>3. ListInv => LiveIsListed  BY ListMeaning
<1> QED  BY <1>1, <1>2, <1>3, PTL DEF DSSpec

-----------------------------------------------------------------------------
(* Who has used up its attempts has given up, and no process knows of a    *)
(* lease that was not granted.                                             *)
ProcNumbers ==
    /\ phase \in [Procs -> Phases] /\ tries \in [Procs -> Nat]
    /\ lease \in [Procs -> Nat] /\ fresh \in [Procs -> Nat]
    /\ \A p \in Procs : /\ tries[p] < Attempts \/ (tries[p] = Attempts /\ phase[p] = "refused")
                        /\ lease[p] <= granted /\ fresh[p] <= granted

EtcdOK ==
    /\ alive \subseteq 1..granted /\ key \in alive \union {0} /\ floor \in 1..rev+1
    /\ granted \in Nat /\ rev \in Nat /\ late \in {"no", "due", "done"}

(* A watch that was told of a revision goes on behind it.                  *)
ResolverOK ==
    /\ view \in {"list", "read", "reset", "connect", "watch"}
    /\ seen \in BOOLEAN /\ gap \in BOOLEAN
    /\ lastRev \in 0..rev /\ pos \in 1..rev+1
    /\ lastRev = 0 \/ pos = lastRev + 1

ToldInv == EtcdOK /\ ProcNumbers /\ ResolverOK /\ StaleIsTold

LEMMA ToldTypes == ASSUME DiscoveryParams, ToldInv PROVE DSTypeOK
<1>1. Attempts \in Nat  BY DEF DiscoveryParams
<1>2. ASSUME NEW p \in Procs
      PROVE  tries[p] \in 0..Attempts /\ {lease[p], fresh[p]} \subseteq 0..granted
      <2>1. tries[p] \in Nat /\ lease[p] \in Nat /\ fresh[p] \in Nat /\ granted \in Nat
            BY DEF ToldInv, ProcNumbers, EtcdOK
      <2>2. tries[p] <= Attempts /\ lease[p] <= granted /\ fresh[p] <= granted
            BY <1>1, <2>1 DEF ToldInv, ProcNumbers
      <2>3. tries[p] \in 0..Attempts  BY <1>1, <2>1, <2>2
      <2>4. lease[p] \in 0..granted /\ fresh[p] \in 0..granted  BY <2>1, <2>2
      <2> QED  BY <2>3, <2>4
<1> QED  BY <1>2 DEF ToldInv, EtcdOK, ResolverOK, DSTypeOK

(* A change of who is listed has a revision of its own, so whoever watches *)
(* is told.                                                                *)
LEMMA ChangeIsTold ==
    ASSUME EtcdOK, ResolverOK, StaleIsTold, UNCHANGED resolver,
           rev' \in {rev, rev + 1}, rev' = rev => Present' = Present
    PROVE  ResolverOK' /\ StaleIsTold'
<1>1. PICK next \in Nat : rev' = next /\ rev <= next  BY DEF EtcdOK
<1>2. /\ rev \in Nat /\ lastRev \in 0..rev /\ pos \in 1..rev+1
      BY DEF EtcdOK, ResolverOK
<1>3. UNCHANGED <<view, seen, lastRev, pos, gap>>  BY DEF resolver
<1>4. StaleIsTold'
      <2>1. CASE rev' = rev  BY <1>3, <2>1 DEF StaleIsTold
      <2>2. CASE rev' = rev + 1  BY <1>2, <1>3, <2>2 DEF ResolverOK, StaleIsTold
      <2> QED  BY <2>1, <2>2
<1>5. lastRev \in 0..next /\ pos \in 1..next+1  BY <1>1, <1>2
<1> QED  BY <1>1, <1>3, <1>4, <1>5 DEF ResolverOK

(* etcd's side of the calls of it that change its keys or end a lease.     *)
LEMMA EtcdAnswers ==
    ASSUME EtcdOK,
           \/ \E l \in Nat : l # 0 /\ EndsLease(l)
           \/ DeleteKey
           \/ key' \in alive /\ Changes(key') /\ UNCHANGED <<alive, granted, floor, late>>
    PROVE  /\ EtcdOK' /\ granted' = granted
           /\ rev' \in {rev, rev + 1} /\ (rev' = rev => Present' = Present)
<1> USE DEF EtcdOK, Present
<1>1. CASE \E l \in Nat : l # 0 /\ EndsLease(l)  BY <1>1 DEF EndsLease, Changes
<1>2. CASE DeleteKey
      <2>1. CASE Changes(0) /\ UNCHANGED <<alive, granted, floor, late>>
            BY <2>1 DEF Changes
      <2>2. CASE /\ UNCHANGED <<alive, granted, key, rev, floor>>
                 /\ late' \in {late, IF late = "no" THEN "due" ELSE late}
            BY <2>2
      <2> QED  BY <1>2, <2>1, <2>2 DEF DeleteKey
<1>3. CASE key' \in alive /\ Changes(key') /\ UNCHANGED <<alive, granted, floor, late>>
      BY <1>3 DEF Changes
<1> QED  BY <1>1, <1>2, <1>3

(* A round that failed leaves the process with an attempt, or refused.     *)
LEMMA FailedKeepsNumbers ==
    ASSUME DiscoveryParams, ProcNumbers, NEW p \in Procs, ~Ended(p), Failed(p),
           UNCHANGED <<granted, lease>>, granted \in Nat, fresh' = fresh
    PROVE  ProcNumbers'
<1>1. Attempts \in Nat /\ tries[p] \in Nat /\ tries[p] < Attempts
      BY DEF DiscoveryParams, ProcNumbers, Ended
<1>2. CASE again[p]
      BY <1>1, <1>2 DEF Failed, Goes, ProcNumbers, Phases
<1>3. CASE ~again[p]
      BY <1>1, <1>3 DEF Failed, Goes, ProcNumbers, Phases
<1> QED  BY <1>2, <1>3

(* So does any other step that ends no round and grants nothing.           *)
LEMMA StepKeepsNumbers ==
    ASSUME ProcNumbers, NEW p \in Procs, ~Ended(p), NEW to \in Phases, Goes(p, to),
           UNCHANGED <<granted, tries, fresh>>,
           lease' = lease \/ lease' = [lease EXCEPT ![p] = fresh[p]]
    PROVE  ProcNumbers'
    BY DEF ProcNumbers, Ended, Goes

-----------------------------------------------------------------------------
(* The steps that leave etcd and the processes' numbers alone.             *)
LEMMA OthersKeepNumbers ==
    ASSUME EtcdOK, ProcNumbers, UNCHANGED <<granted, phase, tries, lease, fresh>>
    PROVE  ProcNumbers'
    BY DEF EtcdOK, ProcNumbers

(* A call of a process that fails, or that etcd answers, keeps them both.  *)
LEMMA RegistrationIsTold ==
    ASSUME DiscoveryParams, ToldInv, NEW p \in Procs,
           Registration(p) \/ LostEarly(p) \/ Crash(p)
    PROVE  ToldInv'
<1> USE DEF ToldInv
<1>1. CASE Grant(p)
      <2>1. ~Ended(p) /\ UNCHANGED resolver /\ UNCHANGED <<key, rev, floor, late, lease>>
            BY <1>1 DEF Grant, Ended
      <2>2. granted \in Nat  BY DEF EtcdOK
      <2>3. CASE UNCHANGED <<granted, alive>> /\ Failed(p) /\ UNCHANGED fresh
            <3>1. ProcNumbers'  BY <2>1, <2>2, <2>3, FailedKeepsNumbers
            <3>2. EtcdOK'  BY <2>1, <2>3 DEF EtcdOK
            <3> QED  BY <2>1, <3>1, <3>2 DEF resolver, ResolverOK, StaleIsTold, Present
      <2>4. CASE Grants(p)
            <3>1. PICK more \in Nat : granted' = more /\ more = granted + 1 /\ alive' = alive \union {more}
                  BY <2>2, <2>4 DEF Grants
            <3>2. EtcdOK'
                  <4>1. alive \union {more} \subseteq 1..more  BY <2>2, <3>1 DEF EtcdOK
                  <4> QED  BY <2>1, <3>1, <4>1 DEF EtcdOK
            <3>3. ProcNumbers'
                  <4>1. CASE Goes(p, "put") /\ UNCHANGED tries /\ fresh' = [fresh EXCEPT ![p] = more]
                        <5>1. \A q \in Procs : lease[q] <= more /\ fresh'[q] <= more /\ fresh'[q] \in Nat
                              BY <2>2, <3>1, <4>1 DEF ProcNumbers
                        <5>2. phase' \in [Procs -> Phases]
                              BY <4>1 DEF ProcNumbers, Goes, Phases
                        <5>3. \A q \in Procs : tries'[q] < Attempts
                                             \/ (tries'[q] = Attempts /\ phase'[q] = "refused")
                              BY <2>1, <4>1 DEF ProcNumbers, Goes, Ended
                        <5> QED  BY <2>1, <3>1, <4>1, <5>1, <5>2, <5>3 DEF ProcNumbers
                  <4>2. CASE Failed(p) /\ UNCHANGED fresh
                        <5>1. Attempts \in Nat /\ tries[p] \in Nat /\ tries[p] < Attempts
                              BY <2>1 DEF DiscoveryParams, ProcNumbers, Ended
                        <5>2. \A q \in Procs : lease'[q] <= more /\ fresh'[q] <= more
                              BY <2>1, <2>2, <3>1, <4>2 DEF ProcNumbers
                        <5>3. /\ phase' \in [Procs -> Phases] /\ tries' \in [Procs -> Nat]
                              /\ \A q \in Procs : tries'[q] < Attempts
                                                  \/ (tries'[q] = Attempts /\ phase'[q] = "refused")
                              BY <4>2, <5>1 DEF Failed, Goes, ProcNumbers, Phases
                        <5> QED  BY <2>1, <3>1, <4>2, <5>2, <5>3 DEF ProcNumbers
                  <4> QED  BY <1>1, <3>1, <4>1, <4>2 DEF Grant
            <3> QED  BY <2>1, <3>2, <3>3 DEF resolver, ResolverOK, StaleIsTold, Present
      <2> QED  BY <1>1, <2>3, <2>4 DEF Grant
<1>2. CASE Put(p)
      <2>1. ~Ended(p) /\ UNCHANGED resolver /\ UNCHANGED <<alive, granted, floor, late, tries, lease, fresh>>
            BY <1>2 DEF Put, Ended
      <2>2. PICK to \in {"keepalive", "revoke"} : Goes(p, to)  BY <1>2 DEF Put
      <2>3. ProcNumbers'  BY <2>1, <2>2, StepKeepsNumbers DEF Phases
      <2>4. CASE UNCHANGED <<key, rev>>
            BY <2>1, <2>3, <2>4 DEF EtcdOK, resolver, ResolverOK, StaleIsTold, Present
      <2>5. CASE fresh[p] \in alive /\ Changes(fresh[p])
            <3>1. key' \in alive /\ Changes(key')  BY <2>5 DEF Changes
            <3>2. EtcdOK' /\ rev' \in {rev, rev + 1} /\ (rev' = rev => Present' = Present)
                  BY <2>1, <3>1, EtcdAnswers
            <3>3. ResolverOK' /\ StaleIsTold'  BY <2>1, <3>2, ChangeIsTold
            <3> QED  BY <2>3, <3>2, <3>3
      <2> QED  BY <1>2, <2>4, <2>5 DEF Put
<1>3. CASE KeepAlive(p) \/ GiveUp(p) \/ Lost(p) \/ LostEarly(p) \/ EndLive(p) \/ Crash(p)
      <2>1. /\ ~Ended(p) /\ UNCHANGED resolver /\ UNCHANGED etcd /\ UNCHANGED <<tries, fresh>>
            /\ lease' = lease \/ lease' = [lease EXCEPT ![p] = fresh[p]]
            BY <1>3 DEF KeepAlive, GiveUp, Lost, LostEarly, Loses, EndLive, Crash, Ended
      <2>2. PICK to \in {"live", "revoke", "unput", "refused", "delete", "done", "grant", "dead"} :
                Goes(p, to)
            BY <1>3 DEF KeepAlive, GiveUp, Lost, LostEarly, Loses, EndLive, Crash
      <2>3. ProcNumbers'  BY <2>1, <2>2, StepKeepsNumbers DEF Phases, etcd
      <2> QED  BY <2>1, <2>3 DEF etcd, EtcdOK, resolver, ResolverOK, StaleIsTold, Present
<1>4. CASE Unput(p) \/ Cleanup(p) \/ Revoke(p)
      <2>1. ~Ended(p) /\ UNCHANGED resolver /\ UNCHANGED <<lease, fresh>>
            BY <1>4 DEF Unput, Cleanup, Revoke, Ended
      <2>2. \/ UNCHANGED etcd
            \/ EndsLease(fresh[p]) \/ EndsLease(lease[p]) \/ DeleteKey
            BY <1>4 DEF Unput, Cleanup, Revoke, RevokeLease, Untouched
      <2>3. /\ EtcdOK' /\ granted' = granted
            /\ rev' \in {rev, rev + 1} /\ (rev' = rev => Present' = Present)
            <3>1. CASE UNCHANGED etcd  BY <3>1 DEF etcd, EtcdOK, Present
            <3>2. CASE DeleteKey  BY <3>2, EtcdAnswers
            <3>3. ASSUME NEW l \in Nat, EndsLease(l)
                  PROVE  /\ EtcdOK' /\ granted' = granted
                         /\ rev' \in {rev, rev + 1} /\ (rev' = rev => Present' = Present)
                  <4>1. CASE l # 0  BY <3>3, <4>1, EtcdAnswers
                  <4>2. CASE l = 0
                        BY <3>3, <4>2 DEF EndsLease, Changes, EtcdOK, Present
                  <4> QED  BY <4>1, <4>2
            <3>4. fresh[p] \in Nat /\ lease[p] \in Nat  BY DEF ProcNumbers
            <3> QED  BY <2>2, <3>1, <3>2, <3>3, <3>4
      <2>4. ResolverOK' /\ StaleIsTold'  BY <2>1, <2>3, ChangeIsTold
      <2>5. ProcNumbers'
            <3>1. granted \in Nat  BY DEF EtcdOK
            <3>2. CASE Unput(p) \/ Cleanup(p)
                  <4>1. PICK to \in {"revoke", "release", "done"} : Goes(p, to)
                        BY <3>2 DEF Unput, Cleanup
                  <4>2. UNCHANGED tries  BY <3>2 DEF Unput, Cleanup
                  <4> QED  BY <2>1, <2>3, <4>1, <4>2, StepKeepsNumbers DEF Phases
            <3>3. CASE Revoke(p)
                  BY <2>1, <2>3, <3>1, <3>3, FailedKeepsNumbers DEF Revoke
            <3> QED  BY <1>4, <3>2, <3>3
      <2> QED  BY <2>3, <2>4, <2>5
<1> QED  BY <1>1, <1>2, <1>3, <1>4 DEF Registration

(* What the resolver does itself.                                          *)
LEMMA ResolverIsTold ==
    ASSUME ToldInv, Watching \/ Drop
    PROVE  ToldInv'
<1> USE DEF ToldInv
<1>1. UNCHANGED etcd /\ UNCHANGED proc
      BY DEF Watching, Read, Refresh, Connect, Deliver, Drop
<1>2. EtcdOK' /\ ProcNumbers'  BY <1>1 DEF etcd, proc, EtcdOK, ProcNumbers
<1>3. rev \in Nat /\ rev' = rev /\ Present' = Present /\ lastRev \in 0..rev /\ pos \in 1..rev+1
      BY <1>1 DEF etcd, EtcdOK, ResolverOK, Present
<1> SUFFICES ResolverOK' /\ StaleIsTold'  BY <1>2
<1>4. CASE Read
      BY <1>3, <1>4 DEF Read, Refresh, ResolverOK, StaleIsTold, Present
<1>5. CASE Connect
      <2>1. CASE lastRev = 0 /\ pos' = rev + 1 /\ gap' = (gap \/ seen # Present)
            <3>1. rev + 1 \in 1..rev+1 /\ UNCHANGED <<seen, lastRev>> /\ view' = "watch"
                  BY <1>3, <1>5 DEF Connect
            <3>2. ResolverOK'  BY <1>3, <2>1, <3>1 DEF ResolverOK
            <3>3. StaleIsTold'
                  BY <1>3, <2>1, <3>1 DEF ResolverOK, StaleIsTold
            <3> QED  BY <3>2, <3>3
      <2>2. CASE lastRev > 0 /\ pos' = lastRev + 1 /\ UNCHANGED gap
            BY <1>3, <1>5, <2>2 DEF Connect, ResolverOK, StaleIsTold
      <2> QED  BY <1>5, <2>1, <2>2 DEF Connect
<1>6. CASE Deliver
      <2>1. CASE view' = "read"
            <3>1. PICK r \in pos..rev : lastRev' = r /\ pos' = r + 1
                  BY <1>6, <2>1 DEF Deliver
            <3>2. r \in 0..rev /\ r + 1 \in 1..rev+1  BY <1>3, <3>1
            <3> QED  BY <1>3, <1>6, <2>1, <3>1, <3>2 DEF Deliver, ResolverOK, StaleIsTold
      <2>2. CASE view' = "reset" /\ lastRev' = 0 /\ UNCHANGED pos
            BY <1>3, <1>6, <2>2 DEF Deliver, ResolverOK, StaleIsTold
      <2> QED  BY <1>6, <2>1, <2>2 DEF Deliver
<1>7. CASE Drop
      BY <1>3, <1>7 DEF Drop, ResolverOK, StaleIsTold
<1> QED  BY <1>4, <1>5, <1>6, <1>7 DEF Watching

LEMMA ToldStart == ASSUME DiscoveryParams, DSInit PROVE ToldInv
<1>1. EtcdOK  BY DEF DSInit, EtcdOK
<1>2. ResolverOK /\ StaleIsTold
      <2>1. 0 \in 0..0 /\ 1 \in 1..0+1  OBVIOUS
      <2> QED  BY <2>1 DEF DSInit, ResolverOK, StaleIsTold, Present
<1>3. ProcNumbers  BY DEF DiscoveryParams, DSInit, ProcNumbers, Phases
<1> QED  BY <1>1, <1>2, <1>3 DEF ToldInv

LEMMA ToldStep == ASSUME DiscoveryParams, ToldInv, [DSNext]_vars PROVE ToldInv'
<1>1. CASE UNCHANGED vars
      BY <1>1 DEF vars, etcd, proc, resolver, ToldInv, EtcdOK, ProcNumbers, ResolverOK,
                  StaleIsTold, Present
<1>2. ASSUME NEW p \in Procs, Registration(p) \/ LostEarly(p) \/ Crash(p) PROVE ToldInv'
      BY <1>2, RegistrationIsTold
<1>3. ASSUME NEW p \in Procs, Register(p) PROVE ToldInv'
      <2>1. ProcNumbers'
            BY <1>3 DEF Register, Goes, Ended, etcd, ToldInv, ProcNumbers, Phases
      <2> QED  BY <1>3, <2>1 DEF Register, etcd, resolver, ToldInv, EtcdOK, ResolverOK,
                                 StaleIsTold, Present
<1>4. ASSUME NEW p \in Procs, Stop(p) \/ Close(p) PROVE ToldInv'
      BY <1>4 DEF Stop, Close, Ends, etcd, resolver, ToldInv, EtcdOK, ProcNumbers, ResolverOK,
                  StaleIsTold, Present
<1>5. CASE Expire \/ ExpireHeld
      <2>1. PICK l \in alive : EndsLease(l) /\ UNCHANGED <<proc, resolver>>
            BY <1>5 DEF Expire, ExpireHeld, Expires
      <2>2. l \in Nat /\ l # 0  BY <2>1 DEF ToldInv, EtcdOK
      <2>3. /\ EtcdOK' /\ granted' = granted
            /\ rev' \in {rev, rev + 1} /\ (rev' = rev => Present' = Present)
            BY <2>1, <2>2, EtcdAnswers DEF ToldInv
      <2>4. ResolverOK' /\ StaleIsTold'  BY <2>1, <2>3, ChangeIsTold DEF ToldInv
      <2>5. ProcNumbers'  BY <2>1, <2>3, OthersKeepNumbers DEF proc, ToldInv
      <2> QED  BY <2>3, <2>4, <2>5 DEF ToldInv
<1>6. CASE Compact
      <2>1. EtcdOK'  BY <1>6 DEF Compact, ToldInv, EtcdOK
      <2> QED  BY <1>6, <2>1 DEF Compact, proc, resolver, ToldInv, ProcNumbers, ResolverOK,
                                 StaleIsTold, Present
<1>7. CASE LateDelete
      <2>1. UNCHANGED <<alive, granted, floor, proc, resolver>> /\ Changes(0) /\ late' = "done"
            BY <1>7 DEF LateDelete
      <2>2. /\ EtcdOK'
            /\ rev' \in {rev, rev + 1} /\ (rev' = rev => Present' = Present)
            BY <2>1 DEF Changes, ToldInv, EtcdOK, Present
      <2>3. ResolverOK' /\ StaleIsTold'  BY <2>1, <2>2, ChangeIsTold DEF ToldInv
      <2>4. ProcNumbers'  BY <2>1, OthersKeepNumbers DEF proc, ToldInv
      <2> QED  BY <2>2, <2>3, <2>4 DEF ToldInv
<1>8. CASE Watching \/ Drop  BY <1>8, ResolverIsTold
<1> QED  BY <1>1, <1>2, <1>3, <1>4, <1>5, <1>6, <1>7, <1>8 DEF DSNext

(* watchLoop, refresh, handleWatchResponse: whatever is compacted, however *)
(* often the channel is closed and whichever process changes the key, a    *)
(* list that is stale is going to be told so, but for the two gaps.        *)
THEOREM StaleListIsTold == ASSUME DiscoveryParams PROVE DSSpec => []StaleIsTold
<1>1. DSInit => ToldInv  BY ToldStart
<1>2. ToldInv /\ [DSNext]_vars => ToldInv'  BY ToldStep
<1>3. ToldInv => StaleIsTold  BY DEF ToldInv
<1> QED  BY <1>1, <1>2, <1>3, PTL DEF DSSpec

(* Register gives up after its attempts, no process acts for a lease that  *)
(* was not granted, and no watch is ahead of what it was told.             *)
THEOREM NumbersAreGranted == ASSUME DiscoveryParams PROVE DSSpec => []DSTypeOK
<1>1. DSInit => ToldInv  BY ToldStart
<1>2. ToldInv /\ [DSNext]_vars => ToldInv'  BY ToldStep
<1>3. ToldInv => DSTypeOK  BY ToldTypes
<1> QED  BY <1>1, <1>2, <1>3, PTL DEF DSSpec

-----------------------------------------------------------------------------
(* Objects between scenes. *)
CallPhases == {"idle", "local", "check", "set", "lookup", "publish", "leave"}
RecvPhases == {"idle", "accept", "check", "set", "rollback"}
Asks(g) == call[g].pc \in {"local", "lookup", "publish"}
Moving(g) == call[g].pc \in {"check", "set"}
Entering(n) == recv[n].pc \in {"accept", "check", "set"}
Busy(g) == call[g].pc # "idle"

TransferTypes ==
    /\ orderly \in BOOLEAN /\ crossed \in BOOLEAN /\ instance \in Instances
    /\ life \in [Scenes -> {"live", "ending", "gone"}] /\ route \subseteq Scenes
    /\ member \subseteq Scenes /\ objScene \in [Nodes -> Scenes \union {None}]
    /\ ver \in [Nodes -> Nat] /\ seq \in [Nodes -> Nat]
    /\ wire \subseteq [src : Nodes, dst : Scenes, version : Nat \ {0}]
    /\ call \in [Movers -> [pc : CallPhases, src : Scenes \union {None}, dst : Scenes \union {None}]]
    /\ recv \in [Nodes -> [pc : RecvPhases, dst : Scenes \union {None}, version : Nat]]

(* A goroutine leads from a scene of its node; what arrives is for one;    *)
(* and a manager speaks of its own scenes only.                            *)
Homes ==
    /\ \A g \in Movers :
        /\ Busy(g) => {call[g].src, call[g].dst} \subseteq Scenes /\ Home[call[g].src] = MoverAt[g]
        /\ call[g].pc \in {"local", "check", "set"} => Home[call[g].dst] = MoverAt[g]
        /\ call[g].pc = "publish" => Home[call[g].dst] # MoverAt[g]
    /\ \A n \in Nodes :
        /\ recv[n].pc # "idle" => recv[n].dst \in Scenes /\ Home[recv[n].dst] = n
        /\ objScene[n] # None => Home[objScene[n]] = n

(* As long as no calls of a node have crossed:                             *)
(* scenes and managers agree on who has the object; ...                    *)
Agrees == \A s \in Scenes : s \in member <=> objScene[Home[s]] = s

(* ... there is one token, and while calls are on their way to letting go  *)
(* of the object, the token is where they found it, at one node; ...       *)
OnePlace == \A x, y \in T!Places : x = y
Asked ==
    /\ \A g \in Movers : Asks(g) => T!Places \subseteq {<<"scene", call[g].src>>}
    /\ \A g, h \in Movers : Asks(g) /\ Asks(h) => MoverAt[g] = MoverAt[h]

(* ... and between the check and the entry, outside the manager's lock,    *)
(* the object has come nowhere else.                                       *)
HandsFree ==
    /\ \A g \in Movers : call[g].pc = "set" => objScene[MoverAt[g]] = None
    /\ \A n \in Nodes : recv[n].pc = "set" => objScene[n] = None

Straight == ~T!Crossing /\ Agrees /\ OnePlace /\ Asked /\ HandsFree

(* When nothing is lost: there is one call at a time, a scene whose object *)
(* is on its way takes it in only after the source has let go, and no      *)
(* version waits for an object that is not there, so that nothing that     *)
(* arrives is refused.                                                     *)
InOrder ==
    /\ T!Places # {} /\ \A s \in Scenes : T!Live(s)
    /\ \A g, h \in Movers : Busy(g) /\ Busy(h) => g = h
    /\ \A g \in Movers : call[g].pc = "leave" =>
        ~Entering(MoverAt[g]) /\ \A m \in wire : Home[m.dst] # MoverAt[g]
    /\ \A n \in Nodes : ver[n] # 0 => recv[n].pc \in {"check", "set"} \/ objScene[n] # None

TransferInv == /\ TransferTypes /\ Homes
               /\ ~crossed => Straight
               /\ orderly => ~crossed /\ InOrder

-----------------------------------------------------------------------------
(* Types, step by step. *)
Calls == [pc : CallPhases, src : Scenes \union {None}, dst : Scenes \union {None}]
Recvs == [pc : RecvPhases, dst : Scenes \union {None}, version : Nat]
Letters == [src : Nodes, dst : Scenes, version : Nat \ {0}]
TypedHeld ==
    member \subseteq Scenes /\ objScene \in [Nodes -> Scenes \union {None}] /\ ver \in [Nodes -> Nat]

LEMMA HeldTyped ==
    ASSUME T!SceneTransferParams, TransferTypes, NEW s \in Scenes
    PROVE  /\ T!Leave(s) => TypedHeld'
           /\ (T!Enter(s) /\ UNCHANGED ver) => TypedHeld'
           /\ UNCHANGED T!held => TypedHeld'
<1>1. Home[s] \in Nodes  BY DEF T!SceneTransferParams
<1>2. ASSUME T!Leave(s) PROVE TypedHeld'
      <2>1. member' \subseteq Scenes  BY <1>2 DEF TransferTypes, T!Leave
      <2>2. objScene' \in [Nodes -> Scenes \union {None}]  BY <1>2 DEF TransferTypes, T!Leave
      <2>3. ver' \in [Nodes -> Nat]  BY <1>2 DEF TransferTypes, T!Leave
      <2> QED  BY <2>1, <2>2, <2>3 DEF TypedHeld
<1>3. ASSUME T!Enter(s), UNCHANGED ver PROVE TypedHeld'
      BY <1>3 DEF TransferTypes, T!Enter, TypedHeld
<1>4. ASSUME UNCHANGED T!held PROVE TypedHeld'  BY <1>4 DEF TransferTypes, T!held, TypedHeld
<1> QED  BY <1>2, <1>3, <1>4

LEMMA TypedKept == ASSUME T!SceneTransferParams, TransferInv, T!STNext PROVE TransferTypes'
<1>1. /\ TransferTypes /\ Homes /\ Home \in [Scenes -> Nodes] /\ MoverAt \in [Movers -> Nodes]
      BY DEF T!SceneTransferParams, TransferInv
<1>2. /\ TypedHeld /\ wire \subseteq Letters /\ call \in [Movers -> Calls] /\ recv \in [Nodes -> Recvs]
      BY <1>1 DEF TransferTypes, TypedHeld, Letters, Calls, Recvs
<1>h. seq' \in [Nodes -> Nat] /\ crossed' \in BOOLEAN
      <2>1. CASE \E g \in Movers : T!Publish(g)  BY <1>1, <2>1 DEF T!STNext, T!Publish, TransferTypes
      <2>2. CASE ~\E g \in Movers : T!Publish(g)
            <3>1. seq' = seq
                  BY <2>2 DEF T!STNext, T!TransferRemote, T!HandleRemoteTransfer, T!Start, T!LeaveLocal,
                     T!CheckLocal, T!EnterLocal, T!Lookup, T!LetGo, T!Receive, T!Accept, T!CheckRemote,
                     T!EnterRemote, T!Rollback, T!Expire, T!Destroy, T!EndDestroy, T!RefreshScene, T!Lose
            <3> QED  BY <1>1, <3>1 DEF T!STNext, TransferTypes
      <2> QED  BY <2>1, <2>2
<1>a. ASSUME UNCHANGED <<orderly, instance, T!table>>, TypedHeld', wire' \subseteq Letters,
             call' \in [Movers -> Calls], recv' \in [Nodes -> Recvs]
      PROVE  TransferTypes'
      BY <1>1, <1>a, <1>h DEF TransferTypes, TypedHeld, Letters, Calls, Recvs, T!table
<1>b. ASSUME NEW g \in Movers, NEW p \in CallPhases PROVE [call[g] EXCEPT !.pc = p] \in Calls
      BY <1>2 DEF Calls
<1>c. T!Idle \in Calls /\ T!Waiting \in Recvs
      BY DEF T!Idle, T!Waiting, Calls, Recvs, CallPhases, RecvPhases
<1>d. ASSUME NEW g \in Movers, NEW to \in Calls, T!Call(g, to) PROVE call' \in [Movers -> Calls]
      BY <1>2, <1>d DEF T!Call
<1>e. ASSUME NEW n \in Nodes, NEW to \in Recvs, T!Recv(n, to) PROVE recv' \in [Nodes -> Recvs]
      BY <1>2, <1>e DEF T!Recv
<1>f. ASSUME NEW n \in Nodes, NEW p \in RecvPhases PROVE [recv[n] EXCEPT !.pc = p] \in Recvs
      BY <1>2 DEF Recvs
<1>g. /\ \A p \in {"idle", "local", "check", "set", "lookup", "publish", "leave"} : p \in CallPhases
      /\ \A p \in {"idle", "accept", "check", "set", "rollback"} : p \in RecvPhases
      BY DEF CallPhases, RecvPhases
<1>3. ASSUME NEW g \in Movers, T!TransferRemote(g) PROVE TransferTypes'
      <2>0. UNCHANGED <<orderly, instance, T!table, recv>>
            BY <1>3 DEF T!TransferRemote, T!Start, T!LeaveLocal, T!CheckLocal,
               T!EnterLocal, T!Lookup, T!Publish, T!LetGo
      <2>1. ASSUME NEW s \in Scenes, T!Start(g, s) PROVE TransferTypes'
            <3>1. objScene[MoverAt[g]] \in Scenes  BY <1>1, <1>2, <2>1 DEF T!Start, TypedHeld
            <3>2. [pc |-> IF T!Live(s) /\ Home[s] = MoverAt[g] THEN "local" ELSE "lookup",
                   src |-> objScene[MoverAt[g]], dst |-> s] \in Calls
                  BY <3>1 DEF Calls, CallPhases
            <3> QED  BY <1>2, <1>a, <1>d, <2>0, <2>1, <3>2, HeldTyped, <1>1 DEF T!Start,
            TransferInv, TransferTypes, TypedHeld, T!held
      <2>2. CASE T!LeaveLocal(g)
            <3>1. call[g].src \in Scenes  BY <1>1, <2>2 DEF T!LeaveLocal, Homes, Busy
            <3>2. TypedHeld'  BY <1>1, <2>2, <3>1, HeldTyped DEF T!LeaveLocal
            <3>3. call' \in [Movers -> Calls]
                  BY <1>b, <1>c, <1>d, <1>g, <2>2 DEF T!LeaveLocal, T!Returns
            <3> QED  BY <1>2, <1>a, <2>0, <2>2, <3>2, <3>3 DEF T!LeaveLocal
      <2>3. CASE T!CheckLocal(g) \/ T!Lookup(g)
            <3>2. TypedHeld' /\ UNCHANGED wire
                  BY <1>2, <2>3 DEF T!CheckLocal, T!Lookup, T!held, TypedHeld
            <3>3. call' \in [Movers -> Calls]
                  BY <1>b, <1>c, <1>d, <1>g, <2>3 DEF T!CheckLocal, T!Lookup, T!Returns
            <3> QED  BY <1>2, <1>a, <2>0, <3>2, <3>3
      <2>4. CASE T!EnterLocal(g)
            <3>1. call[g].dst \in Scenes  BY <1>1, <2>4 DEF T!EnterLocal, Homes, Busy
            <3>2. TypedHeld' /\ UNCHANGED wire  BY <1>1, <2>4, <3>1, HeldTyped DEF T!EnterLocal
            <3>3. call' \in [Movers -> Calls]  BY <1>c, <1>d, <2>4 DEF T!EnterLocal, T!Returns
            <3> QED  BY <1>2, <1>a, <2>0, <3>2, <3>3
      <2>5. CASE T!Publish(g)
            <3>1. call[g].dst \in Scenes  BY <1>1, <2>5 DEF T!Publish, Homes, Busy
            <3>2. TypedHeld'  BY <1>2, <2>5 DEF T!Publish, T!held, TypedHeld
            <3>3. call' \in [Movers -> Calls]
                  BY <1>b, <1>c, <1>d, <1>g, <2>5 DEF T!Publish, T!Returns
            <3>4. seq'[MoverAt[g]] \in Nat \ {0}  BY <1>1, <2>5 DEF T!Publish, TransferTypes
            <3>5. [src |-> MoverAt[g], dst |-> call[g].dst, version |-> seq'[MoverAt[g]]] \in Letters
                  BY <1>1, <3>1, <3>4 DEF Letters
            <3>6. wire' \subseteq Letters  BY <1>2, <2>5, <3>5 DEF T!Publish
            <3> QED  BY <1>2, <1>a, <2>0, <3>2, <3>3, <3>6
      <2>6. CASE T!LetGo(g)
            <3>1. call[g].src \in Scenes  BY <1>1, <2>6 DEF T!LetGo, Homes, Busy
            <3>2. TypedHeld' /\ UNCHANGED wire  BY <1>1, <2>6, <3>1, HeldTyped DEF T!LetGo
            <3>3. call' \in [Movers -> Calls]  BY <1>c, <1>d, <2>6 DEF T!LetGo, T!Returns
            <3> QED  BY <1>2, <1>a, <2>0, <3>2, <3>3
      <2> QED  BY <1>3, <2>1, <2>2, <2>3, <2>4, <2>5, <2>6 DEF T!TransferRemote
<1>4. ASSUME NEW n \in Nodes, T!HandleRemoteTransfer(n) PROVE TransferTypes'
      <2>0. UNCHANGED <<orderly, instance, T!table, call>> /\ wire' \subseteq wire
            BY <1>4 DEF T!HandleRemoteTransfer, T!Receive, T!Accept, T!CheckRemote,
               T!EnterRemote, T!Rollback
      <2>1. CASE T!Receive(n)
            <3>1. PICK m \in wire : \/ T!Recv(n, [pc |-> "accept", dst |-> m.dst, version |-> m.version])
                                    \/ UNCHANGED recv
                  BY <2>1 DEF T!Receive
            <3>2. [pc |-> "accept", dst |-> m.dst, version |-> m.version] \in Recvs
                  BY <1>2 DEF Letters, Recvs, RecvPhases
            <3> QED  BY <1>2, <1>a, <1>e, <2>0, <2>1, <3>1, <3>2 DEF T!Receive, TypedHeld,
            T!held
      <2>2. CASE T!Accept(n)
            <3>1. recv[n].version \in Nat  BY <1>2 DEF Recvs
            <3>2. TypedHeld'  BY <1>2, <2>2, <3>1 DEF T!Accept, TypedHeld
            <3> QED  BY <1>2, <1>a, <1>c, <1>e, <1>f, <1>g, <2>0, <2>2, <3>2 DEF T!Accept
      <2>3. CASE T!CheckRemote(n)
            BY <1>2, <1>a, <1>e, <1>f, <1>g, <2>0, <2>3 DEF T!CheckRemote, TypedHeld, T!held
      <2>4. CASE T!EnterRemote(n)
            <3>1. recv[n].dst \in Scenes  BY <1>1, <2>4 DEF T!EnterRemote, Homes, Busy
            <3>2. TypedHeld'  BY <1>1, <2>4, <3>1, HeldTyped DEF T!EnterRemote
            <3> QED  BY <1>2, <1>a, <1>c, <1>e, <2>0, <2>4, <3>2 DEF T!EnterRemote
      <2>5. CASE T!Rollback(n)
            <3>2. TypedHeld'  BY <1>2, <2>5 DEF T!Rollback, TypedHeld
            <3> QED  BY <1>2, <1>a, <1>c, <1>e, <2>0, <2>5, <3>2 DEF T!Rollback
      <2> QED  BY <1>4, <2>1, <2>2, <2>3, <2>4, <2>5 DEF T!HandleRemoteTransfer
<1>5. ASSUME NEW s \in Scenes, T!Expire(s) \/ T!RefreshScene(s) \/ T!Destroy(s) PROVE TransferTypes'
      BY <1>1, <1>5, <1>h DEF T!Expire, T!RefreshScene, T!Destroy, TransferTypes, T!held
<1>6. ASSUME NEW s \in Scenes, T!EndDestroy(s) PROVE TransferTypes'
      <2>1. TypedHeld'  BY <1>1, <1>6, HeldTyped DEF T!EndDestroy
      <2>2. life' \in [Scenes -> {"live", "ending", "gone"}] /\ route' \subseteq Scenes
            BY <1>1, <1>6 DEF T!EndDestroy, TransferTypes
      <2> QED  BY <1>1, <1>6, <1>h, <2>1, <2>2 DEF T!EndDestroy, TransferTypes, TypedHeld
<1>8. CASE T!Lose
      <2>1. wire' \subseteq wire /\ UNCHANGED <<orderly, instance, T!table, T!held, call, recv>>
            BY <1>8 DEF T!Lose
      <2> QED  BY <1>2, <1>a, <2>1 DEF TypedHeld, T!held
<1> QED  BY <1>3, <1>4, <1>5, <1>6, <1>8 DEF T!STNext

LEMMA HomesKept == ASSUME T!SceneTransferParams, TransferInv, T!STNext PROVE Homes'
<1>1. /\ TransferTypes /\ Homes /\ None \notin Scenes
      /\ Home \in [Scenes -> Nodes] /\ MoverAt \in [Movers -> Nodes]
      BY DEF T!SceneTransferParams, TransferInv
<1> DEFINE Speaks(n) == objScene[n] # None => Home[objScene[n]] = n
           Led(g) == /\ Busy(g) => /\ {call[g].src, call[g].dst} \subseteq Scenes
                                    /\ Home[call[g].src] = MoverAt[g]
                     /\ call[g].pc \in {"local", "check", "set"} => Home[call[g].dst] = MoverAt[g]
                     /\ call[g].pc = "publish" => Home[call[g].dst] # MoverAt[g]
           Taken(n) == recv[n].pc # "idle" => recv[n].dst \in Scenes /\ Home[recv[n].dst] = n
<1>a. /\ Homes <=> (\A g \in Movers : Led(g)) /\ \A n \in Nodes : Taken(n) /\ Speaks(n)
      /\ Homes' <=> (\A g \in Movers : Led(g)') /\ \A n \in Nodes : Taken(n)' /\ Speaks(n)'
      BY DEF Homes
<1>b. \A n \in Nodes : Speaks(n)'
      <2>1. ASSUME NEW s \in Scenes, T!Leave(s) \/ T!Enter(s) PROVE \A n \in Nodes : Speaks(n)'
            <3>1. objScene' \in [Nodes -> Scenes \union {None}]
                  /\ \A n \in Nodes : objScene'[n] \in {None, objScene[n]} \/ (n = Home[s] /\ objScene'[n] = s)
                  BY <1>1, <2>1 DEF T!Leave, T!Enter, TransferTypes
            <3> QED  BY <1>1, <3>1 DEF Homes
      <2>2. CASE objScene' = objScene  BY <1>1, <2>2 DEF Homes
      <2>3. \/ objScene' = objScene
            \/ \E g \in Movers : \/ Busy(g) /\ T!Leave(call[g].src)
                                 \/ Busy(g) /\ T!Enter(call[g].dst)
            \/ \E n \in Nodes : recv[n].pc # "idle" /\ T!Enter(recv[n].dst)
            \/ \E s \in Scenes : T!Leave(s)
            <3>1. ASSUME NEW g \in Movers, T!TransferRemote(g)
                  PROVE  \/ objScene' = objScene
                         \/ Busy(g) /\ (T!Leave(call[g].src) \/ T!Enter(call[g].dst))
                  BY <3>1 DEF T!TransferRemote, T!Start, T!LeaveLocal, T!CheckLocal, T!EnterLocal,
                     T!Lookup, T!Publish, T!LetGo, T!held, Busy
            <3>2. ASSUME NEW n \in Nodes, T!HandleRemoteTransfer(n)
                  PROVE  objScene' = objScene \/ (recv[n].pc # "idle" /\ T!Enter(recv[n].dst))
                  BY <3>2 DEF T!HandleRemoteTransfer, T!Receive, T!Accept, T!CheckRemote,
                     T!EnterRemote, T!Rollback, T!held
            <3> QED  BY <3>1, <3>2 DEF T!STNext, T!Expire, T!RefreshScene, T!Destroy, T!EndDestroy,
                     T!Lose, T!held
      <2>4. /\ \A g \in Movers : Busy(g) => call[g].src \in Scenes /\ call[g].dst \in Scenes
            /\ \A n \in Nodes : recv[n].pc # "idle" => recv[n].dst \in Scenes
            BY <1>1 DEF Homes
      <2> HIDE DEF Speaks
      <2> QED  BY <2>1, <2>2, <2>3, <2>4
<1>2. ASSUME NEW g \in Movers, T!TransferRemote(g)
      PROVE  (\A h \in Movers : Led(h)') /\ \A n \in Nodes : Taken(n)'
      <2>1. recv' = recv /\ \A h \in Movers : h # g => call'[h] = call[h]
            BY <1>1, <1>2 DEF T!TransferRemote, T!Start, T!LeaveLocal, T!CheckLocal,
               T!EnterLocal, T!Lookup,
               T!Publish, T!LetGo, T!Returns, T!Call, TransferTypes
      <2> DEFINE o == objScene[MoverAt[g]]
      <2>2. \/ call'[g].pc = "idle"
            \/ /\ call'[g].src = call[g].src /\ call'[g].dst = call[g].dst
               /\ call[g].pc # "idle" /\ (call'[g].pc \in {"check", "set"} => call[g].pc \in {"local", "check"})
               /\ call'[g].pc # "local" /\ (call'[g].pc = "publish" => Home[call[g].dst] # MoverAt[g])
            \/ /\ call'[g].src = o /\ call'[g].dst \in Scenes /\ o # None
               /\ call'[g].pc = "lookup" \/ (call'[g].pc = "local" /\ Home[call'[g].dst] = MoverAt[g])
            <3> USE <1>1 DEF TransferTypes, T!Returns, T!Call, T!Idle
            <3>1. CASE \E s \in Scenes : T!Start(g, s)  BY <3>1 DEF T!Start
            <3>2. CASE T!LeaveLocal(g) \/ T!CheckLocal(g) \/ T!EnterLocal(g)
                  BY <3>2 DEF T!LeaveLocal, T!CheckLocal, T!EnterLocal
            <3>3. CASE T!Lookup(g) \/ T!Publish(g) \/ T!LetGo(g)
                  BY <3>3 DEF T!Lookup, T!Publish, T!LetGo
            <3> QED  BY <1>2, <3>1, <3>2, <3>3 DEF T!TransferRemote
      <2>3. o # None => o \in Scenes /\ Home[o] = MoverAt[g]
            BY <1>1 DEF TransferTypes, Homes
      <2>4. Led(g)'
            <3> HIDE DEF o
            <3> QED  BY <1>1, <2>2, <2>3 DEF Homes, Busy
      <2>5. \A h \in Movers : h # g => Led(h)'  BY <1>1, <2>1 DEF Homes, Busy
      <2>6. \A n \in Nodes : Taken(n)'  BY <1>1, <2>1 DEF Homes
      <2> HIDE DEF Led, Taken
      <2> QED  BY <2>4, <2>5, <2>6
<1>3. ASSUME NEW n \in Nodes, T!HandleRemoteTransfer(n)
      PROVE  (\A g \in Movers : Led(g)') /\ \A m \in Nodes : Taken(m)'
      <2>1. call' = call /\ \A m \in Nodes : m # n => recv'[m] = recv[m]
            BY <1>1, <1>3 DEF T!HandleRemoteTransfer, T!Receive, T!Accept, T!CheckRemote,
               T!EnterRemote, T!Rollback,
               T!Recv, TransferTypes
      <2>2. \/ recv'[n].pc = "idle"
            \/ recv'[n].dst = recv[n].dst /\ recv[n].pc # "idle"
            \/ recv'[n].dst \in Scenes /\ Home[recv'[n].dst] = n
            <3> USE <1>1 DEF TransferTypes, T!Recv, T!Waiting
            <3>1. CASE T!Receive(n)  BY <3>1 DEF T!Receive
            <3>2. CASE T!Accept(n) \/ T!CheckRemote(n)  BY <3>2 DEF T!Accept, T!CheckRemote
            <3>3. CASE T!EnterRemote(n) \/ T!Rollback(n)  BY <3>3 DEF T!EnterRemote, T!Rollback
            <3> QED  BY <1>3, <3>1, <3>2, <3>3 DEF T!HandleRemoteTransfer
      <2> QED  BY <1>1, <2>1, <2>2 DEF Homes, Busy
<1>4. ASSUME UNCHANGED <<call, recv>>
      PROVE  (\A g \in Movers : Led(g)') /\ \A n \in Nodes : Taken(n)'
      BY <1>1, <1>4 DEF Homes, Busy
<1>5. (\A g \in Movers : Led(g)') /\ \A n \in Nodes : Taken(n)'
      <2> HIDE DEF Led, Taken
      <2> QED  BY <1>2, <1>3, <1>4 DEF T!STNext, T!Expire, T!RefreshScene, T!Destroy, T!EndDestroy, T!Lose
<1> QED  BY <1>a, <1>b, <1>5

(* Entering and leaving keep a manager's belief true. *)
LEMMA AgreeKept ==
    ASSUME T!SceneTransferParams, TransferInv, Straight, T!STNext PROVE Agrees' /\ HandsFree'
<1>1. /\ TransferTypes /\ Homes /\ Agrees /\ OnePlace /\ HandsFree /\ None \notin Scenes
      /\ Home \in [Scenes -> Nodes] /\ MoverAt \in [Movers -> Nodes]
      BY DEF T!SceneTransferParams, TransferInv, Straight
<1>2. ASSUME NEW s \in Scenes, T!Leave(s),
             \A g \in Movers : call'[g].pc = "set" => call[g].pc = "set",
             \A n \in Nodes : recv'[n].pc = "set" => recv[n].pc = "set"
      PROVE  Agrees' /\ HandsFree'
      <2>1. /\ objScene'[Home[s]] = (IF objScene[Home[s]] = s THEN None ELSE objScene[Home[s]])
            /\ \A n \in Nodes : n # Home[s] => objScene'[n] = objScene[n]
            BY <1>1, <1>2 DEF T!Leave, TransferTypes
      <2>2. member' = member \ {s}  BY <1>2 DEF T!Leave
      <2>3. Agrees'  BY <1>1, <2>1, <2>2 DEF Agrees
      <2>4. ASSUME NEW n \in Nodes, objScene[n] = None PROVE objScene'[n] = None
            <3>1. CASE n = Home[s]  BY <2>1, <2>4, <3>1
            <3>2. CASE n # Home[s]  BY <2>1, <2>4, <3>2
            <3> QED  BY <3>1, <3>2
      <2> QED  BY <1>1, <1>2, <2>3, <2>4 DEF HandsFree
<1>3. ASSUME NEW n \in Nodes, NEW s \in Scenes, Home[s] = n, T!Enter(s), objScene[n] = None,
             \A g \in Movers : call'[g].pc = "set" => call[g].pc = "set" /\ MoverAt[g] # n,
             \A m \in Nodes : recv'[m].pc = "set" => recv[m].pc = "set" /\ m # n
      PROVE  Agrees' /\ HandsFree'
      <2>1. objScene'[n] = s /\ \A m \in Nodes : m # n => objScene'[m] = objScene[m]
            BY <1>1, <1>3 DEF T!Enter, TransferTypes
      <2>2. member' = member \union {s}  BY <1>3 DEF T!Enter
      <2>3. Agrees'  BY <1>1, <1>3, <2>1, <2>2 DEF Agrees
      <2>4. HandsFree'  BY <1>1, <1>3, <2>1 DEF HandsFree
      <2> QED  BY <2>3, <2>4
<1>a. ASSUME NEW g \in Movers, call[g].pc = "set"
      PROVE  /\ \A h \in Movers : call[h].pc = "set" => h = g
             /\ \A n \in Nodes : recv[n].pc # "set"
      <2>1. /\ \A h \in Movers : call[h].pc = "set" => <<"moving", h>> \in T!Places
            /\ \A n \in Nodes : recv[n].pc = "set" => <<"entering", n>> \in T!Places
            BY DEF T!Places
      <2>2. \A x \in T!Places : x = <<"moving", g>>  BY <1>1, <1>a, <2>1 DEF OnePlace
      <2>3. \A h \in Movers : <<"moving", h>> = <<"moving", g>> => h = g  OBVIOUS
      <2>4. \A n \in Nodes : <<"entering", n>> # <<"moving", g>>  OBVIOUS
      <2> QED  BY <2>1, <2>2, <2>3, <2>4
<1>b. ASSUME NEW n \in Nodes, recv[n].pc = "set"
      PROVE  /\ \A h \in Movers : call[h].pc # "set"
             /\ \A m \in Nodes : recv[m].pc = "set" => m = n
      <2>1. \A h \in Movers : call[h].pc # "set"  BY <1>a, <1>b
      <2>2. \A m \in Nodes : recv[m].pc = "set" => <<"entering", m>> \in T!Places
            BY DEF T!Places
      <2>3. \A m \in Nodes : recv[m].pc = "set" => <<"entering", m>> = <<"entering", n>>
            BY <1>1, <1>b, <2>2 DEF OnePlace
      <2>4. \A m \in Nodes : <<"entering", m>> = <<"entering", n>> => m = n  OBVIOUS
      <2> QED  BY <2>1, <2>3, <2>4
<1>4. ASSUME UNCHANGED <<member, objScene>>,
             \A g \in Movers : call'[g].pc = "set" => call[g].pc = "set" \/ objScene[MoverAt[g]] = None,
             \A n \in Nodes : recv'[n].pc = "set" => recv[n].pc = "set" \/ objScene[n] = None
      PROVE  Agrees' /\ HandsFree'
      BY <1>1, <1>4 DEF Agrees, HandsFree
<1>5. ASSUME NEW s \in Scenes, T!Admits(s) PROVE objScene[Home[s]] = None
      BY <1>1, <1>5 DEF T!Admits, Agrees
<1>6. ASSUME NEW g \in Movers, T!TransferRemote(g) PROVE Agrees' /\ HandsFree'
      <2> USE DEF T!Returns, T!Call, T!Idle
      <2>1. CASE \/ (\E s \in Scenes : T!Start(g, s)) \/ T!Lookup(g) \/ T!Publish(g)
                 \/ T!LeaveLocal(g) /\ UNCHANGED T!held
            <3>1. UNCHANGED <<member, objScene, recv>>
                  BY <2>1 DEF T!Start, T!Lookup, T!Publish, T!LeaveLocal, T!held
            <3>2. \A h \in Movers : h # g => call'[h] = call[h]
                  BY <1>1, <2>1 DEF T!Start, T!Lookup, T!Publish, T!LeaveLocal, TransferTypes
            <3>3. call'[g].pc # "set"
                  <4>1. CASE \E s \in Scenes : T!Start(g, s)
                        BY <1>1, <4>1 DEF T!Start, TransferTypes
                  <4>2. CASE T!Lookup(g) \/ T!Publish(g)
                        BY <1>1, <4>2 DEF T!Lookup, T!Publish, TransferTypes
                  <4>3. CASE T!LeaveLocal(g)  BY <1>1, <4>3 DEF T!LeaveLocal, TransferTypes
                  <4> QED  BY <2>1, <4>1, <4>2, <4>3
            <3> QED  BY <1>4, <3>1, <3>2, <3>3
      <2>2. CASE T!CheckLocal(g)
            <3>1. call[g].dst \in Scenes /\ Home[call[g].dst] = MoverAt[g]
                  BY <1>1, <2>2 DEF T!CheckLocal, Homes, Busy
            <3>2. T!Admits(call[g].dst) => objScene[MoverAt[g]] = None  BY <1>5, <3>1
            <3>3. call'[g].pc = "set" => T!Admits(call[g].dst)
                  BY <1>1, <2>2 DEF T!CheckLocal, TransferTypes
            <3> QED  BY <1>1, <1>4, <2>2, <3>2, <3>3 DEF T!CheckLocal, T!held, TransferTypes
      <2>3. CASE T!EnterLocal(g)
            <3>1. call[g].pc = "set" /\ call[g].dst \in Scenes /\ Home[call[g].dst] = MoverAt[g]
                  BY <1>1, <2>3 DEF T!EnterLocal, Homes, Busy
            <3>2. objScene[MoverAt[g]] = None /\ MoverAt[g] \in Nodes  BY <1>1, <3>1 DEF HandsFree
            <3>3. /\ recv' = recv /\ call'[g].pc = "idle" /\ T!Enter(call[g].dst)
                  /\ \A h \in Movers : h # g => call'[h] = call[h]
                  BY <1>1, <2>3 DEF T!EnterLocal, TransferTypes
            <3> QED  BY <1>3, <1>a, <3>1, <3>2, <3>3
      <2>4. CASE (T!LeaveLocal(g) \/ T!LetGo(g)) /\ T!Leave(call[g].src)
            <3>1. call[g].src \in Scenes  BY <1>1, <2>4 DEF T!LeaveLocal, T!LetGo, Homes, Busy
            <3>2. recv' = recv /\ call'[g].pc # "set"
                  BY <1>1, <2>4 DEF T!LeaveLocal, T!LetGo, TransferTypes
            <3>3. \A h \in Movers : h # g => call'[h] = call[h]
                  BY <1>1, <2>4 DEF T!LeaveLocal, T!LetGo, TransferTypes
            <3> QED  BY <1>2, <2>4, <3>1, <3>2, <3>3
      <2> QED  BY <1>6, <2>1, <2>2, <2>3, <2>4 DEF T!TransferRemote, T!LeaveLocal, T!LetGo
<1>7. ASSUME NEW n \in Nodes, T!HandleRemoteTransfer(n) PROVE Agrees' /\ HandsFree'
      <2> USE DEF T!Recv, T!Waiting
      <2>1. CASE T!Receive(n) \/ T!Accept(n) \/ T!Rollback(n)
            <3>1. UNCHANGED <<member, objScene, call>>
                  BY <2>1 DEF T!Receive, T!Accept, T!Rollback, T!held
            <3>2. recv'[n].pc # "set"  BY <1>1, <2>1 DEF T!Receive, T!Accept, T!Rollback,
            TransferTypes
            <3>3. \A m \in Nodes : m # n => recv'[m] = recv[m]
                  BY <1>1, <2>1 DEF T!Receive, T!Accept, T!Rollback, TransferTypes
            <3> QED  BY <1>4, <3>1, <3>2, <3>3
      <2>2. CASE T!CheckRemote(n)
            <3>1. recv[n].dst \in Scenes /\ Home[recv[n].dst] = n
                  BY <1>1, <2>2 DEF T!CheckRemote, Homes, Busy
            <3>2. T!Admits(recv[n].dst) => objScene[n] = None  BY <1>5, <3>1
            <3>3. recv'[n].pc = "set" => T!Admits(recv[n].dst)
                  BY <1>1, <2>2 DEF T!CheckRemote, TransferTypes
            <3> QED  BY <1>1, <1>4, <2>2, <3>2, <3>3 DEF T!CheckRemote, T!held, TransferTypes
      <2>3. CASE T!EnterRemote(n)
            <3>1. recv[n].pc = "set" /\ recv[n].dst \in Scenes /\ Home[recv[n].dst] = n
                  BY <1>1, <2>3 DEF T!EnterRemote, Homes, Busy
            <3>2. objScene[n] = None  BY <1>1, <3>1 DEF HandsFree
            <3>3. /\ call' = call /\ recv'[n].pc = "idle" /\ T!Enter(recv[n].dst)
                  /\ \A m \in Nodes : m # n => recv'[m] = recv[m]
                  BY <1>1, <2>3 DEF T!EnterRemote, TransferTypes
            <3> QED  BY <1>3, <1>b, <3>1, <3>2, <3>3
      <2> QED  BY <1>7, <2>1, <2>2, <2>3 DEF T!HandleRemoteTransfer
<1>8. ASSUME NEW s \in Scenes, T!EndDestroy(s) PROVE Agrees' /\ HandsFree'
      BY <1>1, <1>2, <1>4, <1>8 DEF T!EndDestroy, T!held
<1>9. CASE (\E s \in Scenes : T!Expire(s) \/ T!RefreshScene(s) \/ T!Destroy(s)) \/ T!Lose
      BY <1>4, <1>9 DEF T!Expire, T!Destroy, T!RefreshScene, T!Lose, T!held
<1> QED  BY <1>6, <1>7, <1>8, <1>9 DEF T!STNext

-----------------------------------------------------------------------------
(* What is a place, point by point. *)
PlacesRead ==
    /\ \A s : <<"scene", s>> \in T!Places <=> s \in member /\ T!Keeps(s)
    /\ \A m : <<"wire", m>> \in T!Places <=> m \in wire
    /\ \A g \in Movers : <<"moving", g>> \in T!Places <=> Moving(g)
    /\ \A n \in Nodes : <<"entering", n>> \in T!Places <=> Entering(n)
    /\ \A x \in T!Places : \/ \E s \in member : x = <<"scene", s>>
                           \/ \E m \in wire : x = <<"wire", m>>
                           \/ \E g \in Movers : x = <<"moving", g>>
                           \/ \E n \in Nodes : x = <<"entering", n>>

LEMMA PlacesAre == PlacesRead /\ PlacesRead'
<1>1. PlacesRead  BY DEF PlacesRead, T!Places, T!Keeps, Moving, Entering
<1>2. PlacesRead'  BY DEF PlacesRead, T!Places, T!Keeps, Moving, Entering
<1> QED  BY <1>1, <1>2

(* Where an action adds at most the place b. *)
LEMMA AtMost ==
    ASSUME NEW b,
           \A s \in member' : T!Keeps(s)' => <<"scene", s>> = b \/ (s \in member /\ T!Keeps(s)),
           \A m \in wire' : <<"wire", m>> = b \/ m \in wire,
           \A g \in Movers : Moving(g)' => <<"moving", g>> = b \/ Moving(g),
           \A n \in Nodes : Entering(n)' => <<"entering", n>> = b \/ Entering(n)
    PROVE  T!Places' \subseteq T!Places \union {b}
<1>1. PlacesRead /\ PlacesRead'  BY PlacesAre
<1>2. ASSUME NEW x \in T!Places' PROVE x \in T!Places \union {b}
      <2>1. CASE \E s \in member' : x = <<"scene", s>>
            <3>1. PICK s \in member' : x = <<"scene", s>>  BY <2>1
            <3>2. T!Keeps(s)'  BY <1>1, <1>2, <3>1 DEF PlacesRead
            <3> QED  BY <1>1, <3>1, <3>2 DEF PlacesRead
      <2>2. CASE \E m \in wire' : x = <<"wire", m>>  BY <1>1, <2>2 DEF PlacesRead
      <2>3. CASE \E g \in Movers : x = <<"moving", g>>
            BY <1>1, <1>2, <2>3 DEF PlacesRead
      <2>4. CASE \E n \in Nodes : x = <<"entering", n>>
            BY <1>1, <1>2, <2>4 DEF PlacesRead
      <2> QED  BY <1>1, <1>2, <2>1, <2>2, <2>3, <2>4 DEF PlacesRead
<1> QED  BY <1>2

(* ... and none at all. *)
LEMMA Fewer ==
    ASSUME \A s \in member' : T!Keeps(s)' => s \in member /\ T!Keeps(s),
           wire' \subseteq wire,
           \A g \in Movers : Moving(g)' => Moving(g),
           \A n \in Nodes : Entering(n)' => Entering(n)
    PROVE  T!Places' \subseteq T!Places
<1>1. PlacesRead /\ PlacesRead'  BY PlacesAre
<1>2. ASSUME NEW x \in T!Places' PROVE x \in T!Places
      <2>1. CASE \E s \in member' : x = <<"scene", s>>
            <3>1. PICK s \in member' : x = <<"scene", s>>  BY <2>1
            <3>2. T!Keeps(s)'  BY <1>1, <1>2, <3>1 DEF PlacesRead
            <3> QED  BY <1>1, <3>1, <3>2 DEF PlacesRead
      <2>2. CASE \E m \in wire' : x = <<"wire", m>>  BY <1>1, <2>2 DEF PlacesRead
      <2>3. CASE \E g \in Movers : x = <<"moving", g>>  BY <1>1, <1>2, <2>3 DEF PlacesRead
      <2>4. CASE \E n \in Nodes : x = <<"entering", n>>  BY <1>1, <1>2, <2>4 DEF PlacesRead
      <2> QED  BY <1>1, <1>2, <2>1, <2>2, <2>3, <2>4 DEF PlacesRead
<1> QED  BY <1>2

LEMMA FewerKeeps ==
    ASSUME OnePlace, Asked, T!Places' \subseteq T!Places,
           \A g \in Movers : Asks(g)' => Asks(g) /\ call'[g].src = call[g].src
    PROVE  OnePlace' /\ Asked'
    BY DEF OnePlace, Asked

(* The object is carried from the place a, where it alone is, to b, and    *)
(* nobody asks for it any more.                                            *)
LEMMA Carried ==
    ASSUME NEW a, NEW b, T!Places \subseteq {a}, T!Places' \subseteq T!Places \union {b}, a \notin T!Places',
           \A g \in Movers : ~Asks(g)'
    PROVE  OnePlace' /\ Asked'
    BY DEF OnePlace, Asked

LEMMA NobodyAsks ==
    ASSUME OnePlace, Asked, NEW a \in T!Places, \A s \in Scenes : a # <<"scene", s>>, Homes
    PROVE  T!Places \subseteq {a} /\ \A g \in Movers : ~Asks(g)
<1>1. \A g \in Movers : Asks(g) => call[g].src \in Scenes  BY DEF Homes, Asks, Busy
<1> QED  BY <1>1 DEF OnePlace, Asked

(* TransferRemote, by one goroutine, changes nothing of the others. *)
LEMMA CallsElsewhere ==
    ASSUME TransferTypes, NEW g \in Movers, T!TransferRemote(g)
    PROVE  recv' = recv /\ \A h \in Movers : h # g => call'[h] = call[h]
    BY DEF T!TransferRemote, T!Start, T!LeaveLocal, T!CheckLocal, T!EnterLocal, T!Lookup,
       T!Publish, T!LetGo,
       T!Returns, T!Call, TransferTypes

LEMMA OneKept ==
    ASSUME T!SceneTransferParams, TransferInv, Straight, T!STNext, ~T!Crossing'
    PROVE  OnePlace' /\ Asked'
<1>1. /\ TransferTypes /\ Homes /\ Agrees /\ OnePlace /\ Asked /\ None \notin Scenes
      /\ Home \in [Scenes -> Nodes] /\ MoverAt \in [Movers -> Nodes]
      BY DEF T!SceneTransferParams, TransferInv, Straight
<1>2. PlacesRead /\ PlacesRead'  BY PlacesAre
<1>3. member \subseteq Scenes /\ call \in [Movers -> Calls] /\ recv \in [Nodes -> Recvs]
      BY <1>1 DEF TransferTypes, Calls, Recvs
<1>c. ASSUME NEW g \in Movers, call'[g].pc \in {"leave", "check", "set"}
      PROVE  \A h \in Movers : h # g /\ MoverAt[h] = MoverAt[g] => call'[h].pc = "idle"
      BY <1>c DEF T!Crossing, T!Committed
<1>s. \A a, b : /\ <<"moving", a>> # <<"scene", b>> /\ <<"entering", a>> # <<"scene", b>>
                /\ <<"wire", a>> # <<"scene", b>>
      OBVIOUS
<1>4. ASSUME NEW g \in Movers, NEW s \in Scenes, T!Start(g, s) PROVE OnePlace' /\ Asked'
      <2> DEFINE o == objScene[MoverAt[g]]
      <2>1. /\ call[g].pc = "idle" /\ o # None /\ UNCHANGED <<T!held, wire, recv>>
            /\ call'[g].pc \in {"local", "lookup"} /\ call'[g].src = o
            /\ \A h \in Movers : h # g => call'[h] = call[h]
            BY <1>3, <1>4 DEF T!Start, T!Call
      <2>2. o \in Scenes /\ Home[o] = MoverAt[g] /\ o \in member
            BY <1>1, <2>1 DEF Agrees, Homes, TransferTypes
      <2>3. T!Keeps(o)
            <3>1. SUFFICES ASSUME NEW h \in Movers, call[h].pc = "leave", call[h].src = o PROVE FALSE
                  BY DEF T!Keeps
            <3>2. h # g /\ MoverAt[h] = MoverAt[g]  BY <1>1, <2>1, <2>2, <3>1 DEF Homes, Busy
            <3>3. call'[h].pc = "leave" /\ call'[g].pc # "idle"  BY <2>1, <3>1, <3>2
            <3> QED  BY <3>2, <3>3 DEF T!Crossing, T!Committed
      <2>4. T!Places = {<<"scene", o>>}
            <3>1. <<"scene", o>> \in T!Places  BY <1>2, <2>2, <2>3 DEF PlacesRead
            <3> QED  BY <1>1, <3>1 DEF OnePlace
      <2>5. T!Places' \subseteq T!Places
            <3>1. \A t \in member' : T!Keeps(t)' => t \in member /\ T!Keeps(t)
                  BY <1>1, <1>3, <2>1 DEF T!Keeps, T!held
            <3>2. (\A h \in Movers : Moving(h)' => Moving(h)) /\ \A m \in Nodes : Entering(m)' => Entering(m)
                  BY <2>1 DEF Moving, Entering
            <3> QED  BY <2>1, <3>1, <3>2, Fewer DEF T!held
      <2>6. ASSUME NEW h \in Movers, Asks(h)' PROVE call'[h].src = o /\ MoverAt[h] = MoverAt[g]
            <3>1. CASE h = g  BY <2>1, <3>1
            <3>2. CASE h # g
                  <4>1. Asks(h) /\ call'[h].src = call[h].src  BY <2>1, <2>6, <3>2 DEF Asks
                  <4>2. <<"scene", o>> = <<"scene", call[h].src>>  BY <1>1, <2>4, <4>1 DEF Asked
                  <4>3. Home[call[h].src] = MoverAt[h]  BY <1>1, <4>1 DEF Homes, Asks, Busy
                  <4> QED  BY <2>2, <4>1, <4>2, <4>3
            <3> QED  BY <3>1, <3>2
      <2>7. Asked'  BY <2>4, <2>5, <2>6 DEF Asked
      <2> QED  BY <1>1, <2>5, <2>7 DEF OnePlace
<1>5. ASSUME NEW g \in Movers, T!LeaveLocal(g) PROVE OnePlace' /\ Asked'
      <2>0. /\ recv' = recv /\ wire' = wire /\ call[g].pc = "local" /\ ~Asks(g)'
            /\ \A h \in Movers : h # g => call'[h] = call[h]
            /\ call[g].src \in Scenes
            <3>1. recv' = recv /\ wire' = wire /\ call[g].pc = "local"  BY <1>5 DEF T!LeaveLocal
            <3>2. call'[g].pc \in {"check", "idle"}
                  BY <1>3, <1>5 DEF T!LeaveLocal, T!Call, T!Returns, T!Idle, Calls
            <3>3. \A h \in Movers : h # g => call'[h] = call[h]
                  BY <1>1, <1>5, CallsElsewhere DEF T!TransferRemote
            <3>4. call[g].src \in Scenes  BY <1>1, <3>1 DEF Homes, Busy
            <3> QED  BY <3>1, <3>2, <3>3, <3>4 DEF Asks
      <2>1. CASE T!Leave(call[g].src) /\ T!Call(g, [call[g] EXCEPT !.pc = "check"])
            <3> DEFINE a == <<"scene", call[g].src>>  b == <<"moving", g>>
            <3>0. call'[g].pc = "check"  BY <1>3, <2>1 DEF T!Call, Calls
            <3>1. T!Places \subseteq {a} /\ \A h \in Movers : h # g => ~Asks(h)
                  BY <1>1, <1>c, <2>0, <3>0 DEF Asked, Asks
            <3>2. member' = member \ {call[g].src}  BY <2>1 DEF T!Leave
            <3>3. a \notin T!Places'  BY <1>2, <3>2 DEF PlacesRead
            <3>4. \A s \in member' : T!Keeps(s)' => <<"scene", s>> = b \/ (s \in member /\ T!Keeps(s))
                  BY <1>1, <1>3, <2>0, <3>2 DEF T!Keeps
            <3>5. /\ \A h \in Movers : Moving(h)' => <<"moving", h>> = b \/ Moving(h)
                  /\ \A m \in Nodes : Entering(m)' => <<"entering", m>> = b \/ Entering(m)
                  BY <2>0 DEF Moving, Entering
            <3>6. T!Places' \subseteq T!Places \union {b}
                  <4> HIDE DEF b
                  <4> QED  BY <2>0, <3>4, <3>5, AtMost
            <3>7. \A h \in Movers : ~Asks(h)'  BY <2>0, <3>1 DEF Asks
            <3> HIDE DEF a, b
            <3> QED  BY <3>1, <3>3, <3>6, <3>7, Carried
      <2>2. CASE UNCHANGED T!held /\ T!Returns(g)
            <3>1. call'[g].pc = "idle"  BY <1>3, <2>2 DEF T!Returns, T!Call, T!Idle
            <3>2. \A s \in member' : T!Keeps(s)' => s \in member /\ T!Keeps(s)
                  BY <1>1, <1>3, <2>0, <2>2 DEF T!Keeps, T!held
            <3>3. (\A h \in Movers : Moving(h)' => Moving(h)) /\ \A m \in Nodes : Entering(m)' => Entering(m)
                  BY <2>0, <3>1 DEF Moving, Entering
            <3>4. T!Places' \subseteq T!Places  BY <2>0, <3>2, <3>3, Fewer
            <3>5. \A h \in Movers : Asks(h)' => Asks(h) /\ call'[h].src = call[h].src
                  BY <2>0 DEF Asks
            <3> QED  BY <1>1, <3>4, <3>5, FewerKeeps
      <2> QED  BY <1>5, <2>1, <2>2 DEF T!LeaveLocal
<1>6. ASSUME NEW g \in Movers, T!CheckLocal(g) \/ T!Lookup(g) \/ T!LetGo(g) PROVE OnePlace' /\ Asked'
      <2>1. /\ recv' = recv /\ wire' = wire /\ \A h \in Movers : h # g => call'[h] = call[h]
            /\ Moving(g)' => Moving(g)
            /\ Asks(g)' => Asks(g) /\ call'[g].src = call[g].src
            BY <1>3, <1>6 DEF T!CheckLocal, T!Lookup, T!LetGo, T!Call, T!Returns, T!Idle,
               Asks, Moving, Calls
      <2>2. \A s \in member' : T!Keeps(s)' => s \in member /\ T!Keeps(s)
            <3>1. CASE T!CheckLocal(g) \/ T!Lookup(g)
                  <4>1. member' = member /\ call[g].pc # "leave"
                        BY <3>1 DEF T!CheckLocal, T!Lookup, T!held
                  <4> QED  BY <1>1, <1>3, <2>1, <4>1 DEF T!Keeps
            <3>2. CASE T!LetGo(g)
                  <4>1. member' = member \ {call[g].src}  BY <3>2 DEF T!LetGo, T!Leave
                  <4> QED  BY <1>1, <1>3, <2>1, <4>1 DEF T!Keeps
            <3> QED  BY <1>6, <3>1, <3>2
      <2>3. (\A h \in Movers : Moving(h)' => Moving(h)) /\ \A m \in Nodes : Entering(m)' => Entering(m)
            BY <2>1 DEF Moving, Entering
      <2>4. T!Places' \subseteq T!Places  BY <2>1, <2>2, <2>3, Fewer
      <2>5. \A h \in Movers : Asks(h)' => Asks(h) /\ call'[h].src = call[h].src
            BY <2>1 DEF Asks
      <2> QED  BY <1>1, <2>4, <2>5, FewerKeeps
<1>7. ASSUME NEW g \in Movers, T!EnterLocal(g) PROVE OnePlace' /\ Asked'
      <2> DEFINE a == <<"moving", g>>  b == <<"scene", call[g].dst>>
      <2>1. /\ call[g].pc = "set" /\ call'[g].pc = "idle" /\ UNCHANGED <<wire, recv>>
            /\ \A h \in Movers : h # g => call'[h] = call[h]
            /\ member' = member \union {call[g].dst}
            BY <1>3, <1>7 DEF T!EnterLocal, T!Enter, T!Returns, T!Call, T!Idle
      <2>2. a \in T!Places /\ a \notin T!Places'  BY <1>2, <2>1 DEF PlacesRead, Moving
      <2>3. T!Places \subseteq {a} /\ \A h \in Movers : ~Asks(h)  BY <1>1, <1>s, <2>2, NobodyAsks
      <2>4. \A s \in member' : T!Keeps(s)' => <<"scene", s>> = b \/ (s \in member /\ T!Keeps(s))
            BY <1>1, <1>3, <2>1 DEF T!Keeps
      <2>5. /\ \A h \in Movers : Moving(h)' => <<"moving", h>> = b \/ Moving(h)
            /\ \A m \in Nodes : Entering(m)' => <<"entering", m>> = b \/ Entering(m)
            BY <2>1 DEF Moving, Entering
      <2>6. T!Places' \subseteq T!Places \union {b}
            <3> HIDE DEF b
            <3> QED  BY <2>1, <2>4, <2>5, AtMost
      <2>7. \A h \in Movers : ~Asks(h)'  BY <2>1, <2>3 DEF Asks
      <2> HIDE DEF a, b
      <2> QED  BY <2>2, <2>3, <2>6, <2>7, Carried
<1>8. ASSUME NEW g \in Movers, T!Publish(g) PROVE OnePlace' /\ Asked'
      <2>0. /\ recv' = recv /\ member' = member /\ call[g].pc = "publish" /\ ~Asks(g)'
            /\ \A h \in Movers : h # g => call'[h] = call[h]
            /\ call[g].src \in Scenes /\ Home[call[g].src] = MoverAt[g]
            <3>1. recv' = recv /\ member' = member /\ call[g].pc = "publish"
                  BY <1>8 DEF T!Publish, T!held
            <3>2. call'[g].pc \in {"leave", "idle"}
                  BY <1>3, <1>8 DEF T!Publish, T!Call, T!Returns, T!Idle, Calls
            <3>3. \A h \in Movers : h # g => call'[h] = call[h]
                  BY <1>1, <1>8, CallsElsewhere DEF T!TransferRemote
            <3>4. call[g].src \in Scenes /\ Home[call[g].src] = MoverAt[g]  BY <1>1, <3>1 DEF Homes, Busy
            <3> QED  BY <3>1, <3>2, <3>3, <3>4 DEF Asks
      <2>1. CASE ~T!Returns(g)
            <3> DEFINE msg == [src |-> MoverAt[g], dst |-> call[g].dst, version |-> seq'[MoverAt[g]]]
                       a == <<"scene", call[g].src>>  b == <<"wire", msg>>
            <3>1. /\ call'[g].pc = "leave" /\ call'[g].src = call[g].src
                  /\ wire' = wire \union {msg}
                  BY <1>3, <1>8, <2>1 DEF T!Publish, T!Call, Calls
            <3>2. T!Places \subseteq {a} /\ \A h \in Movers : h # g => ~Asks(h)
                  BY <1>1, <1>c, <2>0, <3>1 DEF Asked, Asks
            <3>3. a \notin T!Places'  BY <1>2, <2>0, <3>1 DEF PlacesRead, T!Keeps
            <3>4. \A s \in member' : T!Keeps(s)' => <<"scene", s>> = b \/ (s \in member /\ T!Keeps(s))
                  BY <1>1, <1>3, <2>0 DEF T!Keeps
            <3>5. /\ \A h \in Movers : Moving(h)' => <<"moving", h>> = b \/ Moving(h)
                  /\ \A m \in Nodes : Entering(m)' => <<"entering", m>> = b \/ Entering(m)
                  BY <2>0, <3>1 DEF Moving, Entering
            <3>6. \A m \in wire' : <<"wire", m>> = b \/ m \in wire  BY <3>1
            <3>7. T!Places' \subseteq T!Places \union {b}
                  <4> HIDE DEF b
                  <4> QED  BY <2>0, <3>4, <3>5, <3>6, AtMost
            <3>8. \A h \in Movers : ~Asks(h)'  BY <2>0, <3>2 DEF Asks
            <3> HIDE DEF a, b
            <3> QED  BY <3>2, <3>3, <3>7, <3>8, Carried
      <2>2. CASE T!Returns(g)
            <3>1. call'[g].pc = "idle"  BY <1>3, <2>2 DEF T!Returns, T!Call, T!Idle
            <3>2. wire' = wire
                  <4>1. ~T!Call(g, [call[g] EXCEPT !.pc = "leave"])
                        BY <1>3, <3>1 DEF T!Call, Calls
                  <4> QED  BY <1>8, <4>1 DEF T!Publish
            <3>3. \A s \in member' : T!Keeps(s)' => s \in member /\ T!Keeps(s)
                  BY <1>1, <1>3, <2>0 DEF T!Keeps
            <3>4. (\A h \in Movers : Moving(h)' => Moving(h)) /\ \A m \in Nodes : Entering(m)' => Entering(m)
                  BY <2>0, <3>1 DEF Moving, Entering
            <3>5. T!Places' \subseteq T!Places  BY <3>2, <3>3, <3>4, Fewer
            <3>6. \A h \in Movers : Asks(h)' => Asks(h) /\ call'[h].src = call[h].src
                  BY <2>0 DEF Asks
            <3> QED  BY <1>1, <3>5, <3>6, FewerKeeps
      <2> QED  BY <2>1, <2>2
<1>9. ASSUME NEW n \in Nodes, T!HandleRemoteTransfer(n) PROVE OnePlace' /\ Asked'
      <2>0. call' = call /\ \A m \in Nodes : m # n => recv'[m] = recv[m]
            BY <1>3, <1>9 DEF T!HandleRemoteTransfer, T!Receive, T!Accept, T!CheckRemote,
               T!EnterRemote, T!Rollback, T!Recv
      <2>1. ASSUME member' = member, wire' \subseteq wire, Entering(n)' => Entering(n)
            PROVE  OnePlace' /\ Asked'
            <3>1. \A s \in member' : T!Keeps(s)' => s \in member /\ T!Keeps(s)
                  BY <2>0, <2>1 DEF T!Keeps
            <3>2. (\A h \in Movers : Moving(h)' => Moving(h)) /\ \A m \in Nodes : Entering(m)' => Entering(m)
                  BY <2>0, <2>1 DEF Moving, Entering
            <3>3. T!Places' \subseteq T!Places  BY <2>1, <3>1, <3>2, Fewer
            <3>4. \A h \in Movers : Asks(h)' => Asks(h) /\ call'[h].src = call[h].src
                  BY <2>0 DEF Asks
            <3> QED  BY <1>1, <3>3, <3>4, FewerKeeps
      <2>2. CASE T!Receive(n)
            <3>1. member' = member  BY <2>2 DEF T!Receive, T!held
            <3>2. PICK m \in wire : /\ Home[m.dst] = n /\ wire' = wire \ {m}
                                    /\ \/ T!Live(m.dst)
                                       \/ UNCHANGED recv
                  BY <2>2 DEF T!Receive
            <3>3. CASE UNCHANGED recv  BY <2>1, <3>1, <3>2, <3>3 DEF Entering
            <3>4. CASE ~UNCHANGED recv
                  <4> DEFINE a == <<"wire", m>>  b == <<"entering", n>>
                  <4>1. a \in T!Places /\ a \notin T!Places'  BY <1>2, <3>2 DEF PlacesRead
                  <4>2. T!Places \subseteq {a} /\ \A h \in Movers : ~Asks(h)
                        BY <1>1, <1>s, <4>1, NobodyAsks
                  <4>3. \A s \in member' : T!Keeps(s)' => <<"scene", s>> = b \/ (s \in member /\ T!Keeps(s))
                        BY <2>0, <3>1 DEF T!Keeps
                  <4>4. /\ \A h \in Movers : Moving(h)' => <<"moving", h>> = b \/ Moving(h)
                        /\ \A k \in Nodes : Entering(k)' => <<"entering", k>> = b \/ Entering(k)
                        BY <2>0 DEF Moving, Entering
                  <4>5. \A k \in wire' : <<"wire", k>> = b \/ k \in wire  BY <3>2
                  <4>6. T!Places' \subseteq T!Places \union {b}
                        <5> HIDE DEF b
                        <5> QED  BY <4>3, <4>4, <4>5, AtMost
                  <4>7. \A h \in Movers : ~Asks(h)'  BY <2>0, <4>2 DEF Asks
                  <4> HIDE DEF a, b
                  <4> QED  BY <4>1, <4>2, <4>6, <4>7, Carried
            <3> QED  BY <3>3, <3>4
      <2>3. CASE T!Accept(n) \/ T!CheckRemote(n) \/ T!Rollback(n)
            <3>1. member' = member /\ wire' = wire
                  BY <2>3 DEF T!Accept, T!CheckRemote, T!Rollback, T!held
            <3>2. Entering(n)' => Entering(n)
                  BY <1>3, <2>3 DEF T!Accept, T!CheckRemote, T!Rollback, T!Recv, T!Waiting,
                     Entering, Recvs
            <3> QED  BY <2>1, <3>1, <3>2
      <2>4. CASE T!EnterRemote(n)
            <3> DEFINE a == <<"entering", n>>  b == <<"scene", recv[n].dst>>
            <3>1. /\ recv[n].pc = "set" /\ recv'[n].pc = "idle" /\ UNCHANGED wire
                  /\ member' = member \union {recv[n].dst}
                  BY <1>3, <2>4 DEF T!EnterRemote, T!Enter, T!Recv, T!Waiting
            <3>2. a \in T!Places /\ a \notin T!Places'  BY <1>2, <3>1 DEF PlacesRead, Entering
            <3>3. T!Places \subseteq {a} /\ \A h \in Movers : ~Asks(h)
                  BY <1>1, <1>s, <3>2, NobodyAsks
            <3>4. \A s \in member' : T!Keeps(s)' => <<"scene", s>> = b \/ (s \in member /\ T!Keeps(s))
                  BY <2>0, <3>1 DEF T!Keeps
            <3>5. /\ \A h \in Movers : Moving(h)' => <<"moving", h>> = b \/ Moving(h)
                  /\ \A m \in Nodes : Entering(m)' => <<"entering", m>> = b \/ Entering(m)
                  BY <2>0, <3>1 DEF Moving, Entering
            <3>6. T!Places' \subseteq T!Places \union {b}
                  <4> HIDE DEF b
                  <4> QED  BY <3>1, <3>4, <3>5, AtMost
            <3>7. \A h \in Movers : ~Asks(h)'  BY <2>0, <3>3 DEF Asks
            <3> HIDE DEF a, b
            <3> QED  BY <3>2, <3>3, <3>6, <3>7, Carried
      <2> QED  BY <1>9, <2>2, <2>3, <2>4 DEF T!HandleRemoteTransfer
<1>10. ASSUME UNCHANGED <<call, recv>>, wire' \subseteq wire, member' \subseteq member
       PROVE  OnePlace' /\ Asked'
       <2>1. \A s \in member' : T!Keeps(s)' => s \in member /\ T!Keeps(s)  BY <1>10 DEF T!Keeps
       <2>2. (\A h \in Movers : Moving(h)' => Moving(h)) /\ \A m \in Nodes : Entering(m)' => Entering(m)
             BY <1>10 DEF Moving, Entering
       <2>3. T!Places' \subseteq T!Places  BY <1>10, <2>1, <2>2, Fewer
       <2>4. \A h \in Movers : Asks(h)' => Asks(h) /\ call'[h].src = call[h].src
             BY <1>10 DEF Asks
       <2> QED  BY <1>1, <2>3, <2>4, FewerKeeps
<1>11. ASSUME NEW s \in Scenes, T!Expire(s) \/ T!RefreshScene(s) \/ T!Destroy(s) \/ T!EndDestroy(s)
       PROVE  OnePlace' /\ Asked'
       BY <1>10, <1>11 DEF T!Expire, T!RefreshScene, T!Destroy, T!EndDestroy, T!Leave, T!held
<1>12. CASE T!Lose  BY <1>10, <1>12 DEF T!Lose, T!held
<1> QED  BY <1>4, <1>5, <1>6, <1>7, <1>8, <1>9, <1>11, <1>12 DEF T!STNext, T!TransferRemote

(* While all is in order, a node that has the object in hand holds it      *)
(* nowhere: it is neither refused nor taken for an old one.                *)
LEMMA HandsAreFree ==
    ASSUME T!SceneTransferParams, TransferInv, orderly, NEW n \in Nodes,
           Entering(n) \/ \E g \in Movers : MoverAt[g] = n /\ Moving(g)
    PROVE  /\ objScene[n] = None /\ \A g \in Movers : MoverAt[g] = n => call[g].pc # "leave"
           /\ \A s \in Scenes : Home[s] = n => s \notin member /\ T!Admits(s)
<1>1. /\ TransferTypes /\ Homes /\ Agrees /\ OnePlace /\ InOrder /\ None \notin Scenes
      BY DEF T!SceneTransferParams, TransferInv, Straight
<1>2. PlacesRead  BY PlacesAre
<1>3. \A g \in Movers : MoverAt[g] = n => call[g].pc # "leave"
      <2>1. SUFFICES ASSUME NEW g \in Movers, MoverAt[g] = n, call[g].pc = "leave" PROVE FALSE
            OBVIOUS
      <2>2. ~Entering(n)  BY <1>1, <2>1 DEF InOrder
      <2>3. PICK h \in Movers : Moving(h)  BY <2>2
      <2>4. Busy(g) /\ Busy(h)  BY <2>1, <2>3 DEF Busy, Moving
      <2>5. g = h  BY <1>1, <2>4 DEF InOrder
      <2> QED  BY <2>1, <2>3, <2>5 DEF Moving
<1>4. objScene[n] = None
      <2> DEFINE o == objScene[n]
      <2>1. SUFFICES ASSUME o # None PROVE FALSE  OBVIOUS
      <2>2. o \in Scenes /\ Home[o] = n  BY <1>1, <2>1 DEF Homes, TransferTypes
      <2>3. o \in member  BY <1>1, <2>2 DEF Agrees
      <2>4. T!Keeps(o)
            <3>1. \A g \in Movers : call[g].pc = "leave" => Home[call[g].src] # n
                  BY <1>1, <1>3 DEF Homes, Busy
            <3> QED  BY <2>2, <3>1 DEF T!Keeps
      <2>5. <<"scene", o>> \in T!Places  BY <1>2, <2>3, <2>4 DEF PlacesRead
      <2>6. \/ <<"entering", n>> \in T!Places
            \/ \E g \in Movers : <<"moving", g>> \in T!Places
            BY <1>2 DEF PlacesRead
      <2> QED  BY <1>1, <2>5, <2>6 DEF OnePlace
<1>5. ASSUME NEW s \in Scenes, Home[s] = n PROVE s \notin member /\ T!Admits(s)
      <2>1. s # None  BY <1>1
      <2> QED  BY <1>1, <1>4, <1>5, <2>1 DEF Agrees, T!Admits
<1> QED  BY <1>3, <1>4, <1>5

LEMMA NoneLost ==
    ASSUME T!Places # {}, \A s \in member : T!Keeps(s) => s \in member' /\ T!Keeps(s)',
           wire \subseteq wire',
           \A g \in Movers : Moving(g) => Moving(g)',
           \A n \in Nodes : Entering(n) => Entering(n)'
    PROVE  T!Places' # {}
<1>1. PlacesRead /\ PlacesRead'  BY PlacesAre
<1>2. PICK x \in T!Places : TRUE  OBVIOUS
<1>3. CASE \E s \in member : x = <<"scene", s>>
      <2>1. PICK s \in member : x = <<"scene", s>>  BY <1>3
      <2>2. T!Keeps(s)  BY <1>1, <1>2, <2>1 DEF PlacesRead
      <2> QED  BY <1>1, <2>2 DEF PlacesRead
<1>4. CASE \E m \in wire : x = <<"wire", m>>  BY <1>1, <1>4 DEF PlacesRead
<1>5. CASE \E g \in Movers : x = <<"moving", g>>  BY <1>1, <1>2, <1>5 DEF PlacesRead
<1>6. CASE \E n \in Nodes : x = <<"entering", n>>  BY <1>1, <1>2, <1>6 DEF PlacesRead
<1> QED  BY <1>1, <1>2, <1>3, <1>4, <1>5, <1>6 DEF PlacesRead

LEMMA CallerKept ==
    ASSUME T!SceneTransferParams, TransferInv, orderly, NEW g \in Movers, T!TransferRemote(g)
    PROVE  InOrder'
<1>1. /\ TransferTypes /\ Homes /\ Agrees /\ OnePlace /\ Asked /\ InOrder /\ Home \in [Scenes -> Nodes]
      /\ None \notin Scenes /\ MoverAt \in [Movers -> Nodes]
      BY DEF T!SceneTransferParams, TransferInv, Straight
<1> DEFINE n == MoverAt[g]
<1>n. n \in Nodes  BY <1>1
<1> HIDE DEF n
<1>2. PlacesRead /\ PlacesRead'  BY PlacesAre
<1>3. /\ member \subseteq Scenes /\ call \in [Movers -> Calls]
      /\ objScene \in [Nodes -> Scenes \union {None}] /\ ver \in [Nodes -> Nat]
      BY <1>1 DEF TransferTypes, Calls
<1>4. recv' = recv /\ \A h \in Movers : h # g => call'[h] = call[h]  BY <1>1, CallsElsewhere
<1>5. \A s \in Scenes : T!Live(s)'
      <2>1. life' = life
            BY DEF T!TransferRemote, T!Start, T!LeaveLocal, T!CheckLocal, T!EnterLocal,
               T!Lookup, T!Publish, T!LetGo, T!table
      <2> QED  BY <1>1, <2>1 DEF InOrder, T!Live
<1>6. \A h, k \in Movers : Busy(h)' /\ Busy(k)' => h = k
      <2>1. CASE ~Busy(g)
            <3>1. \A h \in Movers : ~Busy(h)
                  BY <2>1 DEF T!TransferRemote, T!Start, T!LeaveLocal, T!CheckLocal,
                     T!EnterLocal, T!Lookup, T!Publish, T!LetGo, Busy
            <3> QED  BY <1>4, <3>1 DEF Busy
      <2>2. CASE Busy(g)
            <3>1. \A h \in Movers : h # g => ~Busy(h)  BY <1>1, <2>2 DEF InOrder
            <3> QED  BY <1>4, <3>1 DEF Busy
      <2> QED  BY <2>1, <2>2
<1>7. ASSUME T!Places' # {},
             call'[g].pc = "leave" => ~Entering(n) /\ \A m \in wire' : Home[m.dst] # n,
             Busy(g) \/ wire' = wire,
             \A m \in Nodes : ver'[m] # 0 => \/ ver'[m] = ver[m] /\ objScene'[m] = objScene[m]
                                             \/ objScene'[m] # None
      PROVE  InOrder'
      <2>1. ASSUME NEW h \in Movers, call'[h].pc = "leave"
            PROVE  ~Entering(MoverAt[h])' /\ \A k \in wire' : Home[k.dst] # MoverAt[h]
            <3>1. CASE h = g  BY <1>4, <1>7, <2>1, <3>1 DEF Entering, n
            <3>2. CASE h # g
                  <4>1. call[h].pc = "leave" /\ Busy(h)  BY <1>4, <2>1, <3>2 DEF Busy
                  <4>2. ~Busy(g)  BY <1>1, <3>2, <4>1 DEF InOrder
                  <4> QED  BY <1>1, <1>4, <1>7, <4>1, <4>2 DEF InOrder, Entering
            <3> QED  BY <3>1, <3>2
      <2>2. \A m \in Nodes : ver'[m] # 0 => recv'[m].pc \in {"check", "set"} \/ objScene'[m] # None
            BY <1>1, <1>4, <1>7 DEF InOrder
      <2> QED  BY <1>5, <1>6, <1>7, <2>1, <2>2 DEF InOrder
<1>y. call[g].pc # "idle" => Busy(g)  BY DEF Busy
<1>8. ASSUME NEW s \in Scenes, T!Start(g, s) PROVE InOrder'
      <2>1. /\ call[g].pc = "idle" /\ call'[g].pc \notin {"leave", "check", "set"}
            /\ UNCHANGED <<member, objScene, ver, wire>>
            BY <1>3, <1>8 DEF T!Start, T!Call, T!held
      <2>2. \A t \in member : T!Keeps(t) => t \in member' /\ T!Keeps(t)'
            BY <1>1, <1>3, <1>4, <2>1 DEF T!Keeps
      <2>3. (\A h \in Movers : Moving(h) => Moving(h)') /\ \A m \in Nodes : Entering(m) => Entering(m)'
            BY <1>4, <2>1 DEF Moving, Entering
      <2>4. T!Places' # {}  BY <1>1, <2>1, <2>2, <2>3, NoneLost DEF InOrder
      <2> QED  BY <1>7, <1>y, <2>1, <2>4
<1>9. ASSUME NEW s \in Scenes, Home[s] = n, T!Leave(s), UNCHANGED wire, call'[g].pc # "leave", T!Places' # {}
      PROVE  InOrder'
      <2>1. /\ ver'[n] = 0
            /\ \A m \in Nodes : m # n => ver'[m] = ver[m] /\ objScene'[m] = objScene[m]
            BY <1>1, <1>3, <1>9 DEF T!Leave
      <2> QED  BY <1>7, <1>y, <1>9, <2>1
<1>10. CASE T!LeaveLocal(g)
      <2>1. call[g].pc = "local" /\ call[g].src \in Scenes /\ Home[call[g].src] = n /\ wire' = wire
            BY <1>1, <1>10 DEF T!LeaveLocal, Homes, Busy, n
      <2>2. CASE T!Leave(call[g].src) /\ T!Call(g, [call[g] EXCEPT !.pc = "check"])
            <3>1. call'[g].pc = "check"  BY <1>3, <2>2 DEF T!Call, Calls
            <3>2. <<"moving", g>> \in T!Places'  BY <1>2, <3>1 DEF PlacesRead, Moving
            <3> QED  BY <1>9, <2>1, <2>2, <3>1, <3>2
      <2>3. CASE UNCHANGED T!held /\ T!Returns(g)
            <3>1. call'[g].pc = "idle" /\ UNCHANGED <<member, objScene, ver>>
                  BY <1>3, <2>3 DEF T!Returns, T!Call, T!Idle, T!held
            <3>2. \A t \in member : T!Keeps(t) => t \in member' /\ T!Keeps(t)'
                  BY <1>1, <1>3, <1>4, <3>1 DEF T!Keeps
            <3>3. (\A h \in Movers : Moving(h) => Moving(h)') /\ \A m \in Nodes : Entering(m) => Entering(m)'
                  BY <1>4, <2>1, <3>1 DEF Moving, Entering
            <3>4. T!Places' # {}  BY <1>1, <2>1, <3>2, <3>3, NoneLost DEF InOrder
            <3> QED  BY <1>7, <1>y, <2>1, <3>1, <3>4
      <2> QED  BY <1>10, <2>2, <2>3 DEF T!LeaveLocal
<1>11. CASE T!CheckLocal(g) \/ T!Lookup(g)
      <2>1. UNCHANGED <<member, objScene, ver, wire>> /\ call[g].pc \in {"check", "lookup"}
            BY <1>11 DEF T!CheckLocal, T!Lookup, T!held
      <2>2. call'[g].pc # "leave" /\ (Moving(g) => Moving(g)')
            <3>1. CASE T!CheckLocal(g)
                  <4>1. call[g].pc = "check" /\ call[g].dst \in Scenes /\ Home[call[g].dst] = n
                        BY <1>1, <3>1 DEF T!CheckLocal, Homes, Busy, n
                  <4>2. T!Admits(call[g].dst)  BY <4>1, HandsAreFree, <1>n DEF Moving, n
                  <4>3. call'[g].pc = "set"  BY <1>3, <3>1, <4>2 DEF T!CheckLocal, T!Call, Calls
                  <4> QED  BY <4>3 DEF Moving
            <3>2. CASE T!Lookup(g)
                  <4>1. call[g].pc = "lookup" /\ call'[g].pc \in {"publish", "idle"}
                        BY <1>3, <3>2 DEF T!Lookup, T!Call, Calls, T!Returns, T!Idle
                  <4> QED  BY <4>1 DEF Moving
            <3> QED  BY <1>11, <3>1, <3>2
      <2>3. \A t \in member : T!Keeps(t) => t \in member' /\ T!Keeps(t)'
            BY <1>1, <1>3, <1>4, <2>1, <2>2 DEF T!Keeps
      <2>4. (\A h \in Movers : Moving(h) => Moving(h)') /\ \A m \in Nodes : Entering(m) => Entering(m)'
            BY <1>4, <2>2 DEF Moving, Entering
      <2>5. T!Places' # {}  BY <1>1, <2>1, <2>3, <2>4, NoneLost DEF InOrder
      <2> QED  BY <1>7, <1>y, <2>1, <2>2, <2>5
<1>12. CASE T!EnterLocal(g)
      <2>1. /\ call[g].pc = "set" /\ call'[g].pc = "idle" /\ UNCHANGED <<wire, ver>>
            /\ call[g].dst \in Scenes /\ Home[call[g].dst] = n
            /\ member' = member \union {call[g].dst}
            BY <1>1, <1>3, <1>12 DEF T!EnterLocal, T!Enter, T!Returns, T!Call, T!Idle, Homes, Busy, n
      <2>a. \A h \in Movers : h # g => call'[h].pc = "idle"
            BY <1>1, <1>4, <2>1 DEF InOrder, Busy
      <2>2. <<"scene", call[g].dst>> \in T!Places'  BY <1>2, <2>1, <2>a DEF PlacesRead, T!Keeps
      <2>3. objScene'[n] = call[g].dst /\ \A m \in Nodes : m # n => objScene'[m] = objScene[m]
            BY <1>3, <1>12, <1>n, <2>1 DEF T!EnterLocal, T!Enter
      <2> QED  BY <1>1, <1>7, <1>y, <2>1, <2>2, <2>3
<1>13. CASE T!Publish(g)
      <2>1. /\ call[g].pc = "publish" /\ UNCHANGED <<member, objScene, ver>> /\ Home[call[g].dst] # n
            /\ call[g].src \in Scenes
            BY <1>1, <1>13 DEF T!Publish, Homes, Busy, T!held, n
      <2> DEFINE msg == [src |-> MoverAt[g], dst |-> call[g].dst, version |-> seq'[MoverAt[g]]]
      <2>2. CASE wire' = wire \union {msg} /\ T!Call(g, [call[g] EXCEPT !.pc = "leave"])
            <3>1. T!Places \subseteq {<<"scene", call[g].src>>}  BY <1>1, <2>1 DEF Asked, Asks
            <3>a. ~Entering(n)
                  <4>1. Entering(n) => <<"entering", n>> \in T!Places  BY <1>2, <1>n DEF PlacesRead
                  <4> QED  BY <3>1, <4>1
            <3>b. ASSUME NEW m \in wire PROVE FALSE
                  <4>1. <<"wire", m>> \in T!Places  BY <1>2 DEF PlacesRead
                  <4> QED  BY <3>1, <4>1
            <3>2. wire = {} /\ ~Entering(n)  BY <3>a, <3>b
            <3>3. <<"wire", msg>> \in T!Places'
                  <4>1. msg \in wire'  BY <2>2
                  <4> HIDE DEF msg
                  <4> QED  BY <1>2, <4>1 DEF PlacesRead
            <3>4. \A m \in wire' : Home[m.dst] # n  BY <2>1, <2>2, <3>2
            <3> QED  BY <1>7, <1>y, <2>1, <3>2, <3>3, <3>4
      <2>3. CASE wire' = wire /\ T!Returns(g)
            <3>1. call'[g].pc = "idle"  BY <1>3, <2>3 DEF T!Returns, T!Call, T!Idle
            <3>2. \A t \in member : T!Keeps(t) => t \in member' /\ T!Keeps(t)'
                  BY <1>1, <1>3, <1>4, <2>1, <3>1 DEF T!Keeps
            <3>3. (\A h \in Movers : Moving(h) => Moving(h)') /\ \A m \in Nodes : Entering(m) => Entering(m)'
                  BY <1>4, <2>1, <3>1 DEF Moving, Entering
            <3>4. T!Places' # {}  BY <1>1, <2>3, <3>2, <3>3, NoneLost DEF InOrder
            <3> QED  BY <1>7, <1>y, <2>1, <2>3, <3>1, <3>4
      <2> QED  BY <1>13, <2>2, <2>3 DEF T!Publish
<1>14. CASE T!LetGo(g)
      <2>1. /\ call[g].pc = "leave" /\ call[g].src \in Scenes /\ Home[call[g].src] = n /\ wire' = wire
            /\ T!Leave(call[g].src) /\ call'[g].pc = "idle"
            BY <1>1, <1>3, <1>14 DEF T!LetGo, Homes, Busy, n, T!Returns, T!Call, T!Idle
      <2>2. member' = member \ {call[g].src}  BY <2>1 DEF T!Leave
      <2>3. \A t \in member : T!Keeps(t) => t \in member' /\ T!Keeps(t)'
            BY <1>1, <1>3, <1>4, <2>1, <2>2 DEF T!Keeps
      <2>4. (\A h \in Movers : Moving(h) => Moving(h)') /\ \A m \in Nodes : Entering(m) => Entering(m)'
            BY <1>4, <2>1 DEF Moving, Entering
      <2>5. T!Places' # {}  BY <1>1, <2>1, <2>3, <2>4, NoneLost DEF InOrder
      <2> QED  BY <1>9, <2>1, <2>5
<1> QED  BY <1>8, <1>10, <1>11, <1>12, <1>13, <1>14 DEF T!TransferRemote

LEMMA ReceiverKept ==
    ASSUME T!SceneTransferParams, TransferInv, orderly, NEW n \in Nodes, T!HandleRemoteTransfer(n)
    PROVE  InOrder'
<1>1. /\ TransferTypes /\ Homes /\ Agrees /\ OnePlace /\ InOrder /\ None \notin Scenes
      /\ Home \in [Scenes -> Nodes] /\ MoverAt \in [Movers -> Nodes]
      BY DEF T!SceneTransferParams, TransferInv, Straight
<1> DEFINE LetsGo == \E g \in Movers : MoverAt[g] = n /\ call[g].pc = "leave"
<1>2. PlacesRead /\ PlacesRead'  BY PlacesAre
<1>3. /\ member \subseteq Scenes /\ recv \in [Nodes -> Recvs]
      /\ objScene \in [Nodes -> Scenes \union {None}] /\ ver \in [Nodes -> Nat]
      /\ wire \subseteq Letters
      BY <1>1 DEF TransferTypes, Recvs, Letters
<1>4. /\ UNCHANGED <<call, life>> /\ wire' \subseteq wire
      /\ \A m \in Nodes : m # n => recv'[m] = recv[m]
      BY <1>3 DEF T!HandleRemoteTransfer, T!Receive, T!Accept, T!CheckRemote,
         T!EnterRemote, T!Rollback, T!Recv, T!table
<1>5. /\ \A s \in Scenes : T!Live(s)'
      /\ \A h, k \in Movers : Busy(h)' /\ Busy(k)' => h = k
      BY <1>1, <1>4 DEF InOrder, T!Live, Busy
<1>6. ASSUME T!Places' # {}, Entering(n)' => ~LetsGo,
             ver'[n] # 0 => recv'[n].pc \in {"check", "set"} \/ objScene'[n] # None,
             \A m \in Nodes : m # n => ver'[m] = ver[m] /\ objScene'[m] = objScene[m]
      PROVE  InOrder'
      <2>1. ASSUME NEW h \in Movers, call'[h].pc = "leave"
            PROVE  ~Entering(MoverAt[h])' /\ \A k \in wire' : Home[k.dst] # MoverAt[h]
            <3>1. ~Entering(MoverAt[h]) /\ \A k \in wire : Home[k.dst] # MoverAt[h]
                  BY <1>1, <1>4, <2>1 DEF InOrder
            <3>2. CASE MoverAt[h] = n  BY <1>4, <1>6, <2>1, <3>1, <3>2 DEF Entering
            <3>3. CASE MoverAt[h] # n  BY <1>1, <1>4, <3>1, <3>3 DEF Entering
            <3> QED  BY <3>2, <3>3
      <2>2. ASSUME NEW m \in Nodes, ver'[m] # 0
            PROVE  recv'[m].pc \in {"check", "set"} \/ objScene'[m] # None
            <3>1. CASE m = n  BY <1>6, <2>2, <3>1
            <3>2. CASE m # n  BY <1>1, <1>4, <1>6, <2>2, <3>2 DEF InOrder
            <3> QED  BY <3>1, <3>2
      <2> QED  BY <1>5, <1>6, <2>1, <2>2 DEF InOrder
<1>7. ASSUME member' = member, wire' = wire, Entering(n) => Entering(n)'
      PROVE  T!Places' # {}
      <2>1. \A s \in member : T!Keeps(s) => s \in member' /\ T!Keeps(s)'
            BY <1>4, <1>7 DEF T!Keeps
      <2>2. (\A h \in Movers : Moving(h) => Moving(h)') /\ \A m \in Nodes : Entering(m) => Entering(m)'
            BY <1>4, <1>7 DEF Moving, Entering
      <2> QED  BY <1>1, <1>7, <2>1, <2>2, NoneLost DEF InOrder
<1>8. CASE T!Receive(n)
      <2>1. PICK m \in wire :
               /\ Home[m.dst] = n
               /\ IF T!Live(m.dst)
                  THEN T!Recv(n, [pc |-> "accept", dst |-> m.dst, version |-> m.version])
                  ELSE UNCHANGED recv
            BY <1>8 DEF T!Receive
      <2>2. m.dst \in Scenes  BY <1>3 DEF Letters
      <2>3. T!Live(m.dst)  BY <1>1, <2>2 DEF InOrder
      <2>4. recv'[n].pc = "accept"  BY <1>3, <2>1, <2>3 DEF T!Recv
      <2>5. <<"entering", n>> \in T!Places'  BY <1>2, <2>4 DEF PlacesRead, Entering
      <2>6. ~LetsGo  BY <1>1, <2>1 DEF InOrder, LetsGo
      <2>7. recv[n].pc = "idle" /\ UNCHANGED <<ver, objScene>>  BY <1>8 DEF T!Receive, T!held
      <2>8. ver'[n] # 0 => objScene'[n] # None  BY <1>1, <2>7 DEF InOrder
      <2> QED  BY <1>6, <2>5, <2>6, <2>7, <2>8
<1>9. CASE T!Accept(n)
      <2>1. recv[n].pc = "accept" /\ UNCHANGED <<member, objScene, wire>>  BY <1>9 DEF T!Accept
      <2>2. objScene[n] = None /\ ~LetsGo  BY <2>1, HandsAreFree DEF Entering
      <2>3. ver[n] = 0  BY <1>1, <2>1, <2>2 DEF InOrder
      <2>4. /\ ver' = [ver EXCEPT ![n] = recv[n].version]
            /\ T!Recv(n, [recv[n] EXCEPT !.pc = "check"])
            BY <1>9, <2>3 DEF T!Accept
      <2>5. recv'[n].pc = "check" /\ \A m \in Nodes : m # n => ver'[m] = ver[m]
            BY <1>3, <2>4 DEF T!Recv, Recvs
      <2>6. T!Places' # {}  BY <1>7, <2>1, <2>5 DEF Entering
      <2> QED  BY <1>6, <2>1, <2>2, <2>5, <2>6
<1>10. CASE T!CheckRemote(n)
      <2>1. /\ recv[n].pc = "check" /\ UNCHANGED <<member, objScene, ver, wire>>
            /\ recv[n].dst \in Scenes /\ Home[recv[n].dst] = n
            BY <1>1, <1>10 DEF T!CheckRemote, T!held, Homes
      <2>2. T!Admits(recv[n].dst) /\ ~LetsGo  BY <2>1, HandsAreFree DEF Entering
      <2>3. recv'[n].pc = "set"  BY <1>3, <1>10, <2>2 DEF T!CheckRemote, T!Recv, Recvs
      <2>4. T!Places' # {}  BY <1>7, <2>1, <2>3 DEF Entering
      <2> QED  BY <1>6, <2>1, <2>2, <2>3, <2>4
<1>11. CASE T!EnterRemote(n)
      <2>1. /\ recv[n].pc = "set" /\ recv'[n].pc = "idle" /\ UNCHANGED ver
            /\ recv[n].dst \in Scenes /\ Home[recv[n].dst] = n
            /\ member' = member \union {recv[n].dst}
            BY <1>1, <1>3, <1>11 DEF T!EnterRemote, T!Enter, T!Recv, T!Waiting, Homes
      <2>2. ~LetsGo  BY <2>1, HandsAreFree DEF Entering
      <2>3. <<"scene", recv[n].dst>> \in T!Places'
            <3>1. \A g \in Movers : call'[g].pc = "leave" => call'[g].src # recv[n].dst
                  BY <1>1, <1>4, <2>1, <2>2 DEF Homes, Busy
            <3> QED  BY <1>2, <1>4, <2>1, <3>1 DEF PlacesRead, T!Keeps
      <2>4. objScene'[n] = recv[n].dst /\ \A m \in Nodes : m # n => objScene'[m] = objScene[m]
            BY <1>3, <1>11, <2>1 DEF T!EnterRemote, T!Enter
      <2> QED  BY <1>1, <1>6, <2>1, <2>2, <2>3, <2>4
<1>12. CASE T!Rollback(n)
      <2>1. /\ recv[n].pc = "rollback" /\ recv'[n].pc = "idle" /\ UNCHANGED <<member, objScene, wire>>
            /\ ver'[n] \in {0, ver[n]} /\ \A m \in Nodes : m # n => ver'[m] = ver[m]
            BY <1>3, <1>12 DEF T!Rollback, T!Recv, T!Waiting
      <2>2. T!Places' # {}  BY <1>7, <2>1 DEF Entering
      <2>3. ver'[n] # 0 => objScene'[n] # None  BY <1>1, <2>1 DEF InOrder
      <2> QED  BY <1>6, <2>1, <2>2, <2>3 DEF Entering
<1> QED  BY <1>8, <1>9, <1>10, <1>11, <1>12 DEF T!HandleRemoteTransfer

LEMMA OrderKept ==
    ASSUME T!SceneTransferParams, TransferInv, T!STNext PROVE (orderly => ~crossed /\ InOrder)'
<1>1. orderly' = orderly
      BY DEF T!STNext, T!TransferRemote, T!HandleRemoteTransfer, T!Start, T!LeaveLocal,
         T!CheckLocal, T!EnterLocal,
         T!Lookup, T!Publish, T!LetGo, T!Receive, T!Accept, T!CheckRemote, T!EnterRemote,
         T!Rollback, T!Expire, T!RefreshScene,
         T!Destroy, T!EndDestroy, T!Lose
<1>2. SUFFICES ASSUME orderly PROVE ~crossed' /\ InOrder'  BY <1>1
<1>3. InOrder  BY <1>2 DEF TransferInv
<1>4. ASSUME UNCHANGED <<life, member, objScene, ver, wire, call, recv>> PROVE InOrder'
      <2>1. T!Places' = T!Places  BY <1>4 DEF T!Places, T!Keeps
      <2> QED  BY <1>3, <1>4, <2>1 DEF InOrder, T!Live, Entering, Busy
<1>5. ASSUME NEW s \in Scenes, T!Expire(s) \/ T!RefreshScene(s) PROVE InOrder'
      BY <1>4, <1>5 DEF T!Expire, T!RefreshScene, T!held
<1>7. ~T!Lose /\ \A s \in Scenes : ~T!Destroy(s) /\ ~T!EndDestroy(s)
      BY <1>2, <1>3 DEF T!Lose, T!Destroy, T!EndDestroy, InOrder, T!Live
<1>8. InOrder'  BY <1>2, <1>5, <1>7, CallerKept, ReceiverKept DEF T!STNext
<1>9. ~T!Crossing'  BY <1>8 DEF InOrder, T!Crossing, T!Committed, Busy
<1> QED  BY <1>2, <1>8, <1>9 DEF TransferInv, T!STNext

(* From the start, by every step, and what it means. *)
LEMMA TransferStart == ASSUME T!SceneTransferParams, T!STInit PROVE TransferInv
<1>1. PICK s \in Scenes : /\ member = {s}
                          /\ objScene = [n \in Nodes |-> IF n = Home[s] THEN s ELSE None]
      BY DEF T!STInit
<1>2. Home \in [Scenes -> Nodes] /\ None \notin Scenes  BY DEF T!SceneTransferParams
<1>3. /\ \A g \in Movers : call[g] = T!Idle
      /\ \A n \in Nodes : recv[n] = T!Waiting /\ ver[n] = 0
      BY DEF T!STInit
<1>4. TransferTypes
      <2>1. T!Idle \in Calls /\ T!Waiting \in Recvs
            BY DEF T!Idle, T!Waiting, Calls, Recvs, CallPhases, RecvPhases
      <2>2. call \in [Movers -> Calls] /\ recv \in [Nodes -> Recvs]  BY <2>1 DEF T!STInit
      <2>3. objScene \in [Nodes -> Scenes \union {None}]  BY <1>1
      <2> QED  BY <1>1, <2>2, <2>3 DEF T!STInit, TransferTypes, Calls, Recvs
<1>5. (\A g \in Movers : call[g].pc = "idle") /\ \A n \in Nodes : recv[n].pc = "idle"
      BY <1>3 DEF T!Idle, T!Waiting
<1>6. Homes  BY <1>1, <1>5 DEF Homes, Busy
<1>8. Agrees  BY <1>1, <1>2 DEF Agrees
<1>9. T!Places = {<<"scene", s>>}
      <2>1. PlacesRead  BY PlacesAre
      <2>2. wire = {} /\ T!Keeps(s)  BY <1>2, <1>5 DEF T!STInit, T!Keeps
      <2>3. <<"scene", s>> \in T!Places  BY <1>1, <2>1, <2>2 DEF PlacesRead
      <2>4. ASSUME NEW x \in T!Places PROVE x = <<"scene", s>>
            <3>1. /\ \A g \in Movers : <<"moving", g>> \notin T!Places
                  /\ \A n \in Nodes : <<"entering", n>> \notin T!Places
                  BY <1>5, <2>1 DEF PlacesRead, Moving, Entering
            <3> QED  BY <1>1, <2>1, <2>2, <2>4, <3>1 DEF PlacesRead
      <2> QED  BY <2>3, <2>4
<1>10. OnePlace /\ Asked /\ HandsFree  BY <1>5, <1>9 DEF OnePlace, Asked, HandsFree, Asks
<1>11. InOrder
      <2>1. \A t \in Scenes : T!Live(t)  BY DEF T!STInit, T!Live
      <2> QED  BY <1>3, <1>5, <1>9, <2>1 DEF InOrder, Busy
<1>12. ~crossed /\ ~T!Crossing  BY <1>5 DEF T!STInit, T!Crossing, T!Committed
<1> QED  BY <1>4, <1>6, <1>8, <1>10, <1>11, <1>12 DEF TransferInv, Straight

LEMMA TransferStep == ASSUME T!SceneTransferParams, TransferInv, [T!STNext]_(T!vars) PROVE TransferInv'
<1>1. CASE T!STNext
      <2>1. TransferTypes' /\ Homes'  BY <1>1, TypedKept, HomesKept
      <2>2. ASSUME ~crossed' PROVE Straight'
            <3>1. ~crossed /\ ~T!Crossing'  BY <1>1, <2>2 DEF T!STNext, TransferInv, TransferTypes
            <3>2. Straight  BY <3>1 DEF TransferInv
            <3>3. Agrees' /\ HandsFree' /\ OnePlace' /\ Asked'
                  BY <1>1, <3>1, <3>2, AgreeKept, OneKept
            <3> QED  BY <3>1, <3>3 DEF Straight
      <2>3. (orderly => ~crossed /\ InOrder)'  BY <1>1, OrderKept
      <2> QED  BY <2>1, <2>2, <2>3 DEF TransferInv
<1>2. CASE UNCHANGED T!vars
      <2>1. UNCHANGED <<orderly, instance, life, route, member, objScene, ver, seq, wire, call, recv, crossed>>
            BY <1>2 DEF T!vars, T!table, T!held
      <2>2. T!Places' = T!Places /\ (T!Crossing <=> T!Crossing')
            BY <2>1 DEF T!Places, T!Keeps, T!Crossing, T!Committed
      <2>3. TransferTypes' /\ Homes'  BY <2>1 DEF TransferInv, TransferTypes, Homes, Busy
      <2>4. (~crossed => Straight)'
            BY <2>1, <2>2 DEF TransferInv, Straight, Agrees, OnePlace, Asked, HandsFree, Asks
      <2>5. (orderly => ~crossed /\ InOrder)'
            BY <2>1, <2>2 DEF TransferInv, InOrder, T!Live, Busy, Entering
      <2> QED  BY <2>3, <2>4, <2>5 DEF TransferInv
<1> QED  BY <1>1, <1>2

LEMMA TransferMeans == ASSUME T!SceneTransferParams, TransferInv PROVE T!STTypeOK /\ T!ObjectInOnePlace
<1>1. TransferTypes /\ (~crossed => Agrees /\ OnePlace) /\ (orderly => ~crossed /\ InOrder)
      BY DEF TransferInv, Straight
<1>2. T!STTypeOK
      <2>1. \A n \in Nodes : ver[n] \in Nat /\ seq[n] \in Nat  BY <1>1 DEF TransferTypes
      <2>2. \A m \in wire : m.src \in Nodes /\ m.dst \in Scenes /\ m.version \in Nat \ {0}
            BY <1>1 DEF TransferTypes
      <2>3. /\ \A g \in Movers : call[g].pc \in CallPhases
            /\ \A n \in Nodes : recv[n].pc \in RecvPhases
            BY <1>1 DEF TransferTypes
      <2> QED  BY <1>1, <2>1, <2>2, <2>3 DEF T!STTypeOK, TransferTypes, CallPhases, RecvPhases
<1>c. \A S : T!Cardinality(S) = Cardinality(S)  BY DEF T!Cardinality, Cardinality
<1>3. ~crossed => T!Cardinality(T!Places) <= 1
      <2>0. SUFFICES ASSUME ~crossed PROVE T!Cardinality(T!Places) <= 1  OBVIOUS
      <2>1. CASE T!Places = {}  BY <1>c, <2>1, FS_EmptySet
      <2>2. CASE T!Places # {}
            <3>1. PICK x \in T!Places : TRUE  BY <2>2
            <3>2. T!Places = {x}  BY <1>1, <2>0, <3>1 DEF OnePlace
            <3>3. Cardinality({x}) = 1  BY FS_Singleton
            <3> QED  BY <1>c, <3>2, <3>3
      <2> QED  BY <2>1, <2>2
<1>4. orderly => ~crossed /\ T!Places # {}  BY <1>1 DEF InOrder
<1> QED  BY <1>1, <1>2, <1>3, <1>4 DEF T!ObjectInOnePlace, Agrees

(* TransferRemote, HandleRemoteTransfer ("an instruction must not be       *)
(* carried out twice"): for any nodes, scenes, goroutines, transfers and   *)
(* faults, until a call meets another of its node that has sent the object *)
(* the object is not in two places, its way included, and a manager        *)
(* believes it to be where it is; and in good order it is in one.          *)
THEOREM ObjectKeepsOnePlace ==
    ASSUME T!SceneTransferParams PROVE T!STSpec => [](T!STTypeOK /\ T!ObjectInOnePlace)
<1>1. TransferInv => T!STTypeOK /\ T!ObjectInOnePlace  BY TransferMeans
<1> QED  BY <1>1, TransferStart, TransferStep, PTL DEF T!STSpec

-----------------------------------------------------------------------------
(* The room on one node: its seats, and the watchers of the list of rooms. *)

CONSTANTS Humans, Bots, Seats, Lobby, Guests, Flusher, MaxVersion, MaxMisses, MaxWatches
VARIABLES present, seats, crown, host, running, ready, offline, version, closed,
          watchers, pushed, got, errand, misses, watches
K == INSTANCE StateRoom WITH
    Callers <- Guests, MaxFaults <- MaxMisses, call <- errand, faults <- misses

Sitters == Humans \cup Bots \cup {None}

Errands == [pc : {"idle", "usable", "list", "push", "record"}, list : 0..MaxVersion,
            todo : SUBSET Lobby, at : Lobby \cup {None}]
KernelTypes == K!SRTypeOK /\ errand \in [K!Procs -> Errands]

(* Nobody has two seats, and a host has one. *)
SeatedOnce(s) == \A i, j \in K!Seat : s[i] = s[j] /\ s[i] # None => i = j
HostSits == host # None => \E i \in K!Seat : seats[i] = host

(* What is recorded for a watcher, or about to be, has been delivered.     *)
Delivered ==
    /\ \A w \in Lobby : pushed[w] = 0 \/ pushed[w] \in got[w]
    /\ \A c \in K!Procs :
        errand[c].pc = "record" => errand[c].at \in Lobby /\ errand[c].list \in got[errand[c].at]

SeatInv == SeatedOnce(seats) /\ HostSits /\ K!HostAndSeats
KernelInv == KernelTypes /\ SeatInv /\ Delivered

LEMMA SmallestSeat ==
    ASSUME NEW S \in SUBSET Nat, S # {}
    PROVE  K!Min(S) \in S /\ \A y \in S : K!Min(S) =< y
<1> DEFINE Less == OpToRel(<, Nat)
<1>1. IsWellFoundedOn(Less, Nat)  BY NatLessThanWellFounded
<1>2. Less = {ss \in Nat \X Nat : ss[1] < ss[2]}  BY DEF OpToRel
<1> HIDE DEF Less
<1>3. PICK x \in S : \A y \in S : ~ (<<y, x>> \in Less)  BY <1>1, WFMin
<1>4. ASSUME NEW y \in S PROVE x =< y
      <2>1. <<y, x>> \notin Less  BY <1>3
      <2>2. <<y, x>> \in Nat \X Nat  OBVIOUS
      <2>3. ~(y < x)  BY <2>1, <2>2, <1>2
      <2> QED  BY <2>3
<1> QED  BY <1>4 DEF K!Min

LEMMA SeatFacts ==
    ASSUME NEW s \in [K!Seat -> Sitters], NEW ps
    PROVE  /\ K!SeatsOf(s, ps) = {i \in K!Seat : s[i] \in ps}
           /\ K!SeatsOf(s, ps) # {} => K!Min(K!SeatsOf(s, ps)) \in K!SeatsOf(s, ps)
<1>1. K!SeatsOf(s, ps) = {i \in K!Seat : s[i] \in ps}  BY DEF K!SeatsOf
<1>2. K!SeatsOf(s, ps) \in SUBSET Nat  BY <1>1 DEF K!Seat
<1> HIDE DEF K!SeatsOf
<1> QED  BY <1>1, <1>2, SmallestSeat

(* The host and the mark that reassignHostLocked gives them are right for  *)
(* any seats.                                                              *)
LEMMA Reassigned ==
    ASSUME K!StateRoomParams, NEW s \in [K!Seat -> Sitters], SeatedOnce(s), seats' = s,
           K!Reassign(s), running' => \A i \in K!Seat : s[i] # None
    PROVE  SeatInv' /\ seats' \in [K!Seat -> Sitters] /\ crown' \subseteq K!Seat
           /\ host' \in Humans \cup {None}
<1> DEFINE h == K!Min(K!Heirs(s))
<1>1. K!Heirs(s) = {i \in K!Seat : s[i] \in Humans}  BY SeatFacts DEF K!Heirs
<1>2. K!Heirs(s) # {} => h \in K!Heirs(s)  BY SeatFacts DEF K!Heirs
<1>3. None \notin Humans  BY DEF K!StateRoomParams
<1>4. K!Free' = {i \in K!Seat : s[i] = None}
      BY SeatFacts DEF K!Free, K!SeatsOf
<1>5. K!SeatsOf(seats', Humans) = K!Heirs(s)  BY DEF K!Heirs
<1>6. K!SeatsOf(seats', {host'}) = {i \in K!Seat : s[i] = host'}  BY SeatFacts
<1>7. CASE K!Heirs(s) = {}
      <2>1. host' = None /\ crown' = {}  BY <1>7 DEF K!Reassign
      <2> QED  BY <2>1, <1>1, <1>4, <1>5, <1>6, <1>7 DEF SeatInv, SeatedOnce, HostSits, K!HostAndSeats
<1>8. CASE K!Heirs(s) # {}
      <2>1. host' = s[h] /\ crown' = {h}  BY <1>8 DEF K!Reassign
      <2>2. h \in K!Seat /\ s[h] \in Humans  BY <1>1, <1>2, <1>8
      <2>3. \A i \in K!Seat : s[i] = host' <=> i = h  BY <2>1, <2>2, <1>3 DEF SeatedOnce
      <2> HIDE DEF h
      <2> QED  BY <2>1, <2>2, <2>3, <1>3, <1>4, <1>5, <1>6, <1>8 DEF SeatInv, SeatedOnce, HostSits, K!HostAndSeats
<1> QED  BY <1>7, <1>8

SeatTypes ==
    /\ seats \in [K!Seat -> Sitters] /\ crown \subseteq K!Seat /\ host \in Humans \cup {None}
    /\ ready \subseteq K!Seat /\ offline \subseteq K!Seat /\ {present, running} \subseteq BOOLEAN
RoomKept == SeatTypes /\ SeatInv

LEMMA SeatsAlone ==
    ASSUME RoomKept, UNCHANGED <<seats, crown, host, running>>
    PROVE  SeatInv'
    BY DEF RoomKept, SeatInv, SeatedOnce, HostSits, K!HostAndSeats, K!SeatsOf, K!Free, K!Seat

LEMMA JoinKeeps ==
    ASSUME K!StateRoomParams, RoomKept, NEW c, NEW p \in Humans \cup Bots, K!Join(c, p)
    PROVE  RoomKept'
<1> DEFINE m == K!Min(K!Free)
<1>0. SeatTypes  BY DEF RoomKept
<1>1. K!Free = {i \in K!Seat : seats[i] = None}
      BY <1>0, SeatFacts DEF K!Free, SeatTypes
<1>2. K!Free # {} /\ ~running /\ seats' = [seats EXCEPT ![m] = p]
      BY DEF K!Join
<1>3. m \in K!Seat /\ seats[m] = None
      BY <1>0, <1>1, <1>2, SeatFacts DEF K!Free, SeatTypes
<1>4. \A i \in K!Seat : seats[i] # p
      BY <1>0, SeatFacts DEF K!Join, K!Seated, SeatTypes
<1>5. /\ host = None /\ p \in Humans => host' = p /\ crown' = crown \cup {m}
      /\ ~(host = None /\ p \in Humans) => host' = host /\ crown' = crown
      /\ UNCHANGED <<present, running, ready, offline>>
      BY DEF K!Join
<1>6. None \notin Humans \cup Bots  BY DEF K!StateRoomParams
<1> HIDE DEF m
<1>7. \A i \in K!Seat : seats'[i] = IF i = m THEN p ELSE seats[i]
      BY <1>0, <1>2, <1>3 DEF SeatTypes
<1>8. SeatTypes'  BY <1>0, <1>2, <1>3, <1>5 DEF SeatTypes, Sitters
<1>9. SeatedOnce(seats')  BY <1>7, <1>4, <1>6 DEF RoomKept, SeatInv, SeatedOnce
<1>10. /\ \A i \in K!Seat : host = None => seats[i] \notin Humans
       /\ crown = {i \in K!Seat : seats[i] = host /\ seats[i] # None}
       /\ host # None => \E i \in K!Seat : seats[i] = host
       /\ (\A i \in K!Seat : seats[i] \notin Humans) => host = None
       BY <1>0, <1>1, SeatFacts DEF RoomKept, SeatInv, HostSits, K!HostAndSeats, SeatTypes
<1>11. /\ host' = None => \A i \in K!Seat : seats'[i] \notin Humans
       /\ (\A i \in K!Seat : seats'[i] \notin Humans) => host' = None
       /\ host' # None => \E i \in K!Seat : seats'[i] = host'
       BY <1>0, <1>3, <1>5, <1>6, <1>7, <1>10 DEF SeatTypes
<1>12. crown' = {i \in K!Seat : seats'[i] = host' /\ seats'[i] # None}
       BY <1>0, <1>3, <1>4, <1>5, <1>6, <1>7, <1>10 DEF SeatTypes
<1>13. /\ K!SeatsOf(seats', Humans) = {i \in K!Seat : seats'[i] \in Humans}
       /\ K!SeatsOf(seats', {host'}) = {i \in K!Seat : seats'[i] = host'}
       /\ K!Free' = {i \in K!Seat : seats'[i] = None}
       BY <1>8, SeatFacts DEF SeatTypes, K!Free, K!SeatsOf
<1>14. K!HostAndSeats'
       BY <1>2, <1>5, <1>11, <1>12, <1>13 DEF K!HostAndSeats
<1> QED  BY <1>8, <1>9, <1>11, <1>14 DEF RoomKept, SeatInv, HostSits

LEMMA LeaveKeeps ==
    ASSUME K!StateRoomParams, RoomKept, NEW c, NEW p \in Humans \cup Bots, K!Leave(c, p)
    PROVE  RoomKept'
<1> DEFINE m == K!Min(K!SeatsOf(seats, {p}))
<1>0. SeatTypes  BY DEF RoomKept
<1>1. ~running /\ seats' = [seats EXCEPT ![m] = None] /\ UNCHANGED <<present, running>>
      /\ ready' = ready \ {m} /\ offline' = offline \ {m}
      BY DEF K!Leave
<1>2. m \in K!Seat /\ seats[m] = p
      BY <1>0, SeatFacts DEF K!Leave, K!Seated, SeatTypes
<1>3. IF host = p \/ m \in crown THEN K!Reassign(seats') ELSE UNCHANGED <<host, crown>>
      BY DEF K!Leave
<1>4. None \notin Humans \cup Bots  BY DEF K!StateRoomParams
<1> HIDE DEF m
<1>5. \A i \in K!Seat : seats'[i] = IF i = m THEN None ELSE seats[i]
      BY <1>0, <1>1, <1>2 DEF SeatTypes
<1>6. seats' \in [K!Seat -> Sitters] /\ ready' \subseteq K!Seat /\ offline' \subseteq K!Seat
      BY <1>0, <1>1, <1>2 DEF SeatTypes, Sitters
<1>7. SeatedOnce(seats')  BY <1>5 DEF RoomKept, SeatInv, SeatedOnce
<1>8. CASE host = p \/ m \in crown
      <2>1. K!Reassign(seats')  BY <1>3, <1>8
      <2>2. PICK s : s = seats'  OBVIOUS
      <2>3. SeatInv' /\ crown' \subseteq K!Seat /\ host' \in Humans \cup {None}
            BY <2>1, <2>2, <1>1, <1>6, <1>7, Reassigned
      <2> QED  BY <2>3, <1>0, <1>1, <1>6 DEF RoomKept, SeatTypes
<1>9. CASE ~(host = p \/ m \in crown)
      <2>1. UNCHANGED <<host, crown>>  BY <1>3, <1>9
      <2>2. /\ \A i \in K!Seat : host = None => seats[i] \notin Humans
            /\ crown = {i \in K!Seat : seats[i] = host /\ seats[i] # None}
            /\ host # None => \E i \in K!Seat : seats[i] = host
            BY <1>0, SeatFacts DEF RoomKept, SeatInv, HostSits, K!HostAndSeats, SeatTypes, K!Free
      <2>3. /\ host' = None => \A i \in K!Seat : seats'[i] \notin Humans
            /\ host' # None => \E i \in K!Seat : seats'[i] = host'
            /\ crown' = {i \in K!Seat : seats'[i] = host' /\ seats'[i] # None}
            BY <2>1, <2>2, <1>0, <1>2, <1>4, <1>5, <1>9 DEF SeatTypes
      <2>4. (\A i \in K!Seat : seats'[i] \notin Humans) => host' = None
            BY <2>1, <2>3, <1>0 DEF SeatTypes
      <2>5. /\ K!SeatsOf(seats', Humans) = {i \in K!Seat : seats'[i] \in Humans}
            /\ K!SeatsOf(seats', {host'}) = {i \in K!Seat : seats'[i] = host'}
            /\ K!Free' = {i \in K!Seat : seats'[i] = None}
            BY <1>6, SeatFacts DEF K!Free, K!SeatsOf
      <2>6. K!HostAndSeats'
            BY <2>3, <2>4, <2>5, <1>1 DEF K!HostAndSeats
      <2> QED  BY <2>1, <2>3, <2>6, <1>0, <1>1, <1>6, <1>7 DEF RoomKept, SeatInv, HostSits, SeatTypes
<1> QED  BY <1>8, <1>9

LEMMA EmptiedKeeps ==
    ASSUME K!StateRoomParams, seats' = K!Empty, crown' = {}, host' = None, running' = FALSE,
           ready' = {}, offline' = {}, present' = FALSE
    PROVE  RoomKept'
<1>1. seats' \in [K!Seat -> Sitters] /\ \A i \in K!Seat : seats'[i] = None
      BY DEF K!Empty, Sitters
<1>2. /\ K!SeatsOf(seats', Humans) = {i \in K!Seat : seats'[i] \in Humans}
      /\ K!SeatsOf(seats', {host'}) = {i \in K!Seat : seats'[i] = host'}
      /\ K!Free' = {i \in K!Seat : seats'[i] = None}
      BY <1>1, SeatFacts DEF K!Free, K!SeatsOf
<1>3. K!HostAndSeats' /\ HostSits'
      BY <1>1, <1>2 DEF K!HostAndSeats, HostSits, K!StateRoomParams
<1> QED  BY <1>1, <1>3 DEF RoomKept, SeatTypes, SeatInv, SeatedOnce

LEMMA ImportKeeps ==
    ASSUME K!StateRoomParams, RoomKept, NEW c, K!ImportState(c)
    PROVE  RoomKept'
<1>1. PICK h \in Humans :
        /\ seats' \in K!Arrangements
        /\ IF K!SeatsOf(seats', {h}) # {}
           THEN host' = h /\ crown' = K!SeatsOf(seats', {h})
           ELSE K!Reassign(seats')
      BY DEF K!ImportState
<1>2. present' = TRUE /\ running' = FALSE /\ ready' = {} /\ offline' = {}
      BY DEF K!ImportState
<1>3. None \notin Humans \cup Bots  BY DEF K!StateRoomParams
<1>4. seats' \in [K!Seat -> Sitters]  BY <1>1 DEF K!Arrangements, Sitters
<1>5. SeatedOnce(seats')  BY <1>1 DEF SeatedOnce, K!Arrangements
<1>6. CASE K!SeatsOf(seats', {h}) = {}
      <2>1. K!Reassign(seats')  BY <1>1, <1>6
      <2>2. PICK s : s = seats'  OBVIOUS
      <2>3. SeatInv' /\ crown' \subseteq K!Seat /\ host' \in Humans \cup {None}
            BY <2>1, <2>2, <1>2, <1>4, <1>5, Reassigned
      <2> QED  BY <2>3, <1>2, <1>4 DEF RoomKept, SeatTypes
<1>7. CASE K!SeatsOf(seats', {h}) # {}
      <2>1. host' = h /\ crown' = K!SeatsOf(seats', {h})  BY <1>1, <1>7
      <2>2. /\ K!SeatsOf(seats', Humans) = {i \in K!Seat : seats'[i] \in Humans}
            /\ K!SeatsOf(seats', {h}) = {i \in K!Seat : seats'[i] = h}
            /\ K!Free' = {i \in K!Seat : seats'[i] = None}
            BY <1>4, SeatFacts DEF K!Free, K!SeatsOf
      <2>3. K!HostAndSeats' /\ HostSits' /\ crown' \subseteq K!Seat
            BY <2>1, <2>2, <1>2, <1>3, <1>7 DEF K!HostAndSeats, HostSits
      <2> QED  BY <2>1, <2>3, <1>2, <1>4, <1>5 DEF RoomKept, SeatTypes, SeatInv
<1> QED  BY <1>6, <1>7

LEMMA MatchKeeps ==
    ASSUME RoomKept, NEW c, K!SetRunning(c)
    PROVE  RoomKept'
<1>1. UNCHANGED <<present, seats, crown, host>> /\ running' \in BOOLEAN
      /\ (running' => K!Free = {}) /\ (ready' = ready \/ ready' = {})
      /\ (offline' = offline \/ offline' = {})
      BY DEF K!SetRunning, RoomKept, SeatTypes
<1>2. SeatTypes'  BY <1>1 DEF RoomKept, SeatTypes
<1>3. K!Free' = K!Free /\ \A ps : K!SeatsOf(seats', ps) = K!SeatsOf(seats, ps)
      BY <1>1 DEF K!Free, K!SeatsOf
<1> QED  BY <1>1, <1>2, <1>3 DEF RoomKept, SeatInv, SeatedOnce, HostSits, K!HostAndSeats

-----------------------------------------------------------------------------
ListTypes ==
    /\ version \in 0..MaxVersion /\ watchers \subseteq Lobby /\ closed \in BOOLEAN
    /\ pushed \in [Lobby -> 0..MaxVersion] /\ got \in [Lobby -> SUBSET (0..MaxVersion)]
    /\ errand \in [K!Procs -> Errands]

LEMMA KernelParts ==
    KernelInv <=> RoomKept /\ ListTypes /\ Delivered
BY DEF KernelInv, KernelTypes, K!SRTypeOK, RoomKept, SeatTypes, ListTypes, Errands, Sitters

LEMMA IdleTo ==
    ASSUME NEW pc
    PROVE  [K!Idle EXCEPT !.pc = pc] = [pc |-> pc, list |-> 0, todo |-> {}, at |-> None]
    BY DEF K!Idle

(* A goroutine goes elsewhere with empty hands. *)
LEMMA GoesOn ==
    ASSUME K!StateRoomParams, ListTypes, Delivered, NEW c \in K!Procs,
           NEW to \in {"idle", "usable", "list"},
           K!Goes(c, to), UNCHANGED <<pushed, got>>
    PROVE  Delivered' /\ errand' \in [K!Procs -> Errands]
<1>1. 0 \in 0..MaxVersion  BY DEF K!StateRoomParams
<1>2. errand' = [errand EXCEPT ![c] = [pc |-> to, list |-> 0, todo |-> {}, at |-> None]]
      BY IdleTo DEF K!Goes
<1>3. errand' \in [K!Procs -> Errands]  BY <1>1, <1>2 DEF ListTypes, Errands
<1>4. \A d \in K!Procs : errand'[d].pc = "record" => errand'[d] = errand[d]
      BY <1>2 DEF ListTypes
<1> QED  BY <1>3, <1>4 DEF Delivered

LEMMA ChangeKeeps ==
    ASSUME K!StateRoomParams, ListTypes, Delivered, NEW c \in K!Procs,
           NEW to \in {"idle", "usable", "list"}, K!Changes(c, to)
    PROVE  ListTypes' /\ Delivered'
<1>1. K!Goes(c, to) /\ UNCHANGED <<watchers, pushed, got, closed>>
      /\ version < MaxVersion /\ version' = version + 1
      BY DEF K!Changes, K!listVars
<1>2. version' \in 0..MaxVersion  BY <1>1 DEF ListTypes, K!StateRoomParams
<1>3. Delivered' /\ errand' \in [K!Procs -> Errands]  BY <1>1, GoesOn
<1> QED  BY <1>1, <1>2, <1>3 DEF ListTypes

LEMMA LargerOf ==
    ASSUME NEW x \in Nat, NEW y \in Nat
    PROVE  K!Max({x, y}) \in {x, y}
<1>1. \E z \in {x, y} : \A w \in {x, y} : z >= w  OBVIOUS
<1> QED  BY <1>1 DEF K!Max

LEMMA WatchKeeps ==
    ASSUME K!StateRoomParams, ListTypes, Delivered, NEW c \in K!Procs, NEW w \in Lobby,
           K!Watch(c, w)
    PROVE  ListTypes' /\ Delivered'
<1> DEFINE m == K!Max({version, pushed[w]})
<1>1. /\ K!Goes(c, "idle") /\ UNCHANGED <<version, closed>> /\ watchers' = watchers \cup {w}
      /\ pushed' = [pushed EXCEPT ![w] = m]
      /\ got' = [got EXCEPT ![w] = got[w] \cup {version}]
      BY DEF K!Watch
<1>2. m \in {version, pushed[w]}  BY LargerOf DEF ListTypes, K!StateRoomParams
<1> HIDE DEF m
<1>3. pushed' \in [Lobby -> 0..MaxVersion] /\ got' \in [Lobby -> SUBSET (0..MaxVersion)]
      BY <1>1, <1>2 DEF ListTypes
<1>4. errand' = [errand EXCEPT ![c] = [pc |-> "idle", list |-> 0, todo |-> {}, at |-> None]]
      BY <1>1, IdleTo DEF K!Goes
<1>5. errand' \in [K!Procs -> Errands]  BY <1>4 DEF ListTypes, Errands, K!StateRoomParams
<1>6. \A x \in Lobby : pushed'[x] = 0 \/ pushed'[x] \in got'[x]
      BY <1>1, <1>2 DEF ListTypes, Delivered
<1>7. \A x \in Lobby : got[x] \subseteq got'[x]  BY <1>1 DEF ListTypes
<1>8. \A d \in K!Procs : errand'[d].pc = "record" => errand'[d] = errand[d]
      BY <1>4 DEF ListTypes
<1>9. Delivered'  BY <1>6, <1>7, <1>8 DEF Delivered
<1> QED  BY <1>1, <1>3, <1>5, <1>9 DEF ListTypes

LEMMA UnwatchKeeps ==
    ASSUME K!StateRoomParams, ListTypes, Delivered, NEW w, K!Unwatch(w)
    PROVE  ListTypes' /\ Delivered'
    BY DEF K!Unwatch, ListTypes, Delivered, K!StateRoomParams

LEMMA TakesKeeps ==
    ASSUME ListTypes, Delivered, NEW c \in K!Procs, NEW ws \in SUBSET Lobby, K!Takes(c, ws),
           UNCHANGED <<version, closed, watchers, pushed, got>>
    PROVE  ListTypes' /\ Delivered'
<1>1. errand' = [errand EXCEPT ![c] = [pc |-> "push", list |-> version, todo |-> ws, at |-> None]]
      BY DEF K!Takes
<1>2. errand' \in [K!Procs -> Errands]  BY <1>1 DEF ListTypes, Errands
<1>3. \A d \in K!Procs : errand'[d].pc = "record" => errand'[d] = errand[d]
      BY <1>1 DEF ListTypes
<1> QED  BY <1>2, <1>3 DEF ListTypes, Delivered

(* A goroutine that is done with a watcher. *)
LEMMA OneLess ==
    ASSUME NEW f \in [K!Procs -> Errands], NEW c \in K!Procs, NEW w, NEW g,
           g = [f EXCEPT ![c].pc = "push", ![c].todo = @ \ {w}, ![c].at = None]
    PROVE  g \in [K!Procs -> Errands]
<1>1. PICK e \in Errands : e = f[c]  OBVIOUS
<1>2. [[e EXCEPT !.pc = "push"] EXCEPT !.todo = e.todo \ {w}] \in Errands
      BY DEF Errands
<1> QED  BY <1>1, <1>2 DEF Errands

LEMMA PushKeeps ==
    ASSUME K!StateRoomParams, ListTypes, Delivered, NEW c \in K!Procs, K!Pushing(c)
    PROVE  ListTypes' /\ Delivered'
<1>0. errand[c] \in Errands  BY DEF ListTypes
<1>1. CASE K!Broadcast(c)
      <2>1. UNCHANGED <<version, closed, watchers, pushed, got>>
            BY <1>1 DEF K!Broadcast, K!listVars
      <2>2. CASE closed
            <3>1. K!Goes(c, "idle")  BY <1>1, <2>2 DEF K!Broadcast
            <3>2. Delivered' /\ errand' \in [K!Procs -> Errands]  BY <2>1, <3>1, GoesOn
            <3> QED  BY <2>1, <3>2 DEF ListTypes
      <2>3. CASE ~closed
            <3>1. K!Takes(c, watchers)  BY <1>1, <2>3 DEF K!Broadcast
            <3>2. watchers \in SUBSET Lobby  BY DEF ListTypes
            <3> QED  BY <2>1, <3>1, <3>2, TakesKeeps
      <2> QED  BY <2>2, <2>3
<1>2. CASE K!Record(c)
      <2> DEFINE w == errand[c].at
                 m == K!Max({errand[c].list, pushed[w]})
      <2>1. /\ w \in Lobby /\ errand[c].list \in got[w] /\ errand[c].pc = "record"
            BY <1>2 DEF K!Record, Delivered
      <2>2. /\ pushed' = IF w \in watchers THEN [pushed EXCEPT ![w] = m] ELSE pushed
            /\ errand' = [errand EXCEPT ![c].pc = "push", ![c].todo = @ \ {w}, ![c].at = None]
            /\ UNCHANGED <<version, closed, watchers, got>>
            BY <1>2 DEF K!Record
      <2>3. m \in {errand[c].list, pushed[w]} /\ errand[c].list \in 0..MaxVersion
            BY <2>1, <1>0, LargerOf DEF ListTypes, Errands, K!StateRoomParams
      <2> HIDE DEF m, w
      <2>4. pushed' \in [Lobby -> 0..MaxVersion]  BY <2>1, <2>2, <2>3 DEF ListTypes
      <2>5. \A x \in Lobby : pushed'[x] = 0 \/ pushed'[x] \in got'[x]
            BY <2>1, <2>2, <2>3 DEF ListTypes, Delivered
      <2>6. errand'[c].pc = "push" /\ \A d \in K!Procs : d # c => errand'[d] = errand[d]
            BY <2>2 DEF ListTypes, Errands
      <2>7. errand' \in [K!Procs -> Errands]  BY <2>2, OneLess DEF ListTypes
      <2>8. \A d \in K!Procs : errand'[d].pc = "record" => errand'[d] = errand[d]
            BY <2>6
      <2> QED  BY <2>2, <2>4, <2>5, <2>7, <2>8 DEF ListTypes, Delivered
<1>3. CASE K!Finish(c)
      <2>1. K!Goes(c, "idle") /\ UNCHANGED <<version, closed, watchers, pushed, got>>
            BY <1>3 DEF K!Finish, K!listVars
      <2>2. Delivered' /\ errand' \in [K!Procs -> Errands]  BY <2>1, GoesOn
      <2> QED  BY <2>1, <2>2 DEF ListTypes
<1>4. ASSUME NEW w \in Lobby, K!Delivers(c, w) PROVE ListTypes' /\ Delivered'
      <2>1. /\ got' = [got EXCEPT ![w] = got[w] \cup {errand[c].list}]
            /\ errand' = [errand EXCEPT ![c].pc = "record", ![c].at = w]
            /\ UNCHANGED <<version, closed, watchers, pushed>>
            BY <1>4 DEF K!Delivers
      <2>2. errand'[c].at = w /\ errand'[c].list = errand[c].list
            BY <2>1 DEF ListTypes, Errands
      <2>3. errand' \in [K!Procs -> Errands]  BY <2>1 DEF ListTypes, Errands
      <2>4. got' \in [Lobby -> SUBSET (0..MaxVersion)]
            BY <2>1, <1>0 DEF ListTypes, Errands
      <2>5. \A x \in Lobby : got[x] \subseteq got'[x]  BY <2>1 DEF ListTypes
      <2>6. errand[c].list \in got'[w]  BY <2>1 DEF ListTypes
      <2>7. \A d \in K!Procs : d # c => errand'[d] = errand[d]  BY <2>1 DEF ListTypes
      <2>8. \A x \in Lobby : pushed'[x] = 0 \/ pushed'[x] \in got'[x]
            BY <2>1, <2>5 DEF Delivered
      <2>9. ASSUME NEW d \in K!Procs, errand'[d].pc = "record"
            PROVE  errand'[d].at \in Lobby /\ errand'[d].list \in got'[errand'[d].at]
            BY <2>2, <2>5, <2>6, <2>7, <2>9 DEF Delivered
      <2>10. Delivered'  BY <2>8, <2>9 DEF Delivered
      <2> QED  BY <2>1, <2>3, <2>4, <2>10 DEF ListTypes
<1>5. ASSUME NEW w \in Lobby, K!Fails(c, w) PROVE ListTypes' /\ Delivered'
      <2>1. /\ errand[c].pc = "push" /\ UNCHANGED <<version, closed, watchers, pushed, got>>
            /\ errand' = [errand EXCEPT ![c].todo = @ \ {w}]
            BY <1>5 DEF K!Fails, K!listVars
      <2>2. errand'[c].pc = "push" /\ \A d \in K!Procs : d # c => errand'[d] = errand[d]
            BY <2>1, <1>0 DEF ListTypes, Errands
      <2>3. errand' \in [K!Procs -> Errands]  BY <2>1 DEF ListTypes, Errands
      <2>4. \A d \in K!Procs : errand'[d].pc = "record" => errand'[d] = errand[d]
            BY <2>2
      <2> QED  BY <2>1, <2>3, <2>4 DEF ListTypes, Delivered
<1> QED  BY <1>1, <1>2, <1>3, <1>4, <1>5 DEF K!Pushing

-----------------------------------------------------------------------------
LEMMA KernelStart ==
    ASSUME K!StateRoomParams, K!SRInit
    PROVE  KernelInv
<1>1. seats = K!Empty /\ crown = {} /\ host = None /\ running = FALSE /\ ready = {}
      /\ offline = {} /\ present = FALSE
      BY DEF K!SRInit
<1>2. seats \in [K!Seat -> Sitters] /\ \A i \in K!Seat : seats[i] = None
      BY <1>1 DEF K!Empty, Sitters
<1>3. K!SeatsOf(seats, Humans) = {i \in K!Seat : seats[i] \in Humans}
      /\ K!SeatsOf(seats, {host}) = {i \in K!Seat : seats[i] = host}
      /\ K!Free = {i \in K!Seat : seats[i] = None}
      BY <1>2, SeatFacts DEF K!Free
<1>4. RoomKept
      BY <1>1, <1>2, <1>3 DEF RoomKept, SeatTypes, SeatInv, SeatedOnce, HostSits,
         K!HostAndSeats, K!StateRoomParams
<1>5. ListTypes /\ Delivered
      <2>1. errand = [c \in K!Procs |-> [pc |-> "idle", list |-> 0, todo |-> {}, at |-> None]]
            BY DEF K!SRInit, K!Idle
      <2>2. 0 \in 0..MaxVersion  BY DEF K!StateRoomParams
      <2>3. errand \in [K!Procs -> Errands]  BY <2>1, <2>2 DEF Errands
      <2>4. \A c \in K!Procs : errand[c].pc = "idle"  BY <2>1
      <2> QED  BY <2>2, <2>3, <2>4 DEF K!SRInit, ListTypes, Delivered
<1> QED  BY <1>4, <1>5, KernelParts

LEMMA KernelStep ==
    ASSUME K!StateRoomParams, KernelInv, [K!SRNext]_(K!vars)
    PROVE  KernelInv'
<1>0. RoomKept /\ ListTypes /\ Delivered  BY KernelParts
<1> SUFFICES RoomKept' /\ ListTypes' /\ Delivered'
    BY DEF KernelInv, KernelTypes, K!SRTypeOK, RoomKept, SeatTypes, ListTypes, Errands, Sitters
<1>1. ASSUME UNCHANGED K!roomVars PROVE RoomKept'
      <2>1. UNCHANGED <<present, seats, crown, host, running, ready, offline>>
            BY <1>1 DEF K!roomVars
      <2>2. SeatInv'  BY <1>0, <2>1, SeatsAlone
      <2> QED  BY <1>0, <2>1, <2>2 DEF RoomKept, SeatTypes
<1>2. CASE UNCHANGED K!vars
      <2>1. UNCHANGED K!roomVars /\ UNCHANGED <<version, closed, watchers, pushed, got, errand>>
            BY <1>2 DEF K!vars, K!roomVars
      <2> QED  BY <1>0, <1>1, <2>1 DEF ListTypes, Delivered
<1>3. ASSUME NEW c \in K!Procs, K!Begin(c) PROVE RoomKept' /\ ListTypes' /\ Delivered'
      <2>1. K!Goes(c, "usable") /\ UNCHANGED K!roomVars
            /\ UNCHANGED <<version, closed, watchers, pushed, got>>
            BY <1>3 DEF K!Begin, K!listVars
      <2>2. Delivered' /\ errand' \in [K!Procs -> Errands]  BY <1>0, <2>1, GoesOn
      <2> QED  BY <1>0, <1>1, <2>1, <2>2 DEF ListTypes
<1>4. ASSUME NEW c \in K!Procs, K!Pushing(c) PROVE RoomKept' /\ ListTypes' /\ Delivered'
      <2>1. UNCHANGED K!roomVars
            BY <1>4 DEF K!Pushing, K!Broadcast, K!Record, K!Finish, K!Delivers, K!Fails
      <2> QED  BY <1>0, <1>1, <1>4, <2>1, PushKeeps
<1>5. ASSUME NEW c \in Guests, K!Operation(c) PROVE RoomKept' /\ ListTypes' /\ Delivered'
      <2>0. c \in K!Procs  BY DEF K!Procs
      <2>1. ASSUME NEW to \in {"idle", "list"}, K!Changes(c, to) PROVE ListTypes' /\ Delivered'
            BY <1>0, <2>0, <2>1, ChangeKeeps
      <2>2. CASE K!EnsureRoom(c)
            <3>1. K!Changes(c, "list") /\ present' = TRUE
                  /\ UNCHANGED <<seats, crown, host, running, ready, offline>>
                  BY <2>2 DEF K!EnsureRoom
            <3>2. SeatInv'  BY <1>0, <3>1, SeatsAlone
            <3>3. RoomKept'  BY <1>0, <3>1, <3>2 DEF RoomKept, SeatTypes
            <3> QED  BY <2>1, <3>1, <3>3
      <2>3. CASE K!Destroy(c)
            BY <2>1, <2>3, EmptiedKeeps DEF K!Destroy
      <2>4. CASE K!ImportState(c)
            BY <1>0, <2>1, <2>4, ImportKeeps DEF K!ImportState
      <2>5. CASE K!SetRunning(c)
            BY <1>0, <2>1, <2>5, MatchKeeps DEF K!SetRunning
      <2>6. ASSUME NEW p \in Humans \cup Bots, K!Join(c, p)
            PROVE  RoomKept' /\ ListTypes' /\ Delivered'
            BY <1>0, <2>1, <2>6, JoinKeeps DEF K!Join
      <2>7. ASSUME NEW p \in Humans \cup Bots, K!Leave(c, p)
            PROVE  RoomKept' /\ ListTypes' /\ Delivered'
            BY <1>0, <2>1, <2>7, LeaveKeeps DEF K!Leave
      <2>8. ASSUME NEW i \in K!Seat, K!SetOffline(c, i) \/ K!SetReady(c, i)
            PROVE  RoomKept' /\ ListTypes' /\ Delivered'
            <3>1. PICK to \in {"idle", "list"} : K!Changes(c, to)
                  BY <2>8 DEF K!SetOffline, K!SetReady
            <3>2. UNCHANGED <<present, seats, crown, host, running>>
                  /\ ready' \subseteq ready \cup {i} /\ offline' \subseteq offline \cup {i}
                  BY <2>8 DEF K!SetOffline, K!SetReady
            <3>3. SeatInv'  BY <1>0, <3>2, SeatsAlone
            <3>4. RoomKept'  BY <1>0, <3>2, <3>3 DEF RoomKept, SeatTypes
            <3> QED  BY <2>1, <3>1, <3>4
      <2>9. ASSUME NEW w \in Lobby, K!Watch(c, w) PROVE RoomKept' /\ ListTypes' /\ Delivered'
            BY <1>0, <1>1, <2>0, <2>9, WatchKeeps DEF K!Watch
      <2>10. CASE K!Refused(c)
            <3>1. K!Goes(c, "idle") /\ UNCHANGED K!roomVars
                  /\ UNCHANGED <<version, closed, watchers, pushed, got>>
                  BY <2>10 DEF K!Refused, K!listVars
            <3>2. Delivered' /\ errand' \in [K!Procs -> Errands]  BY <1>0, <2>0, <3>1, GoesOn
            <3> QED  BY <1>0, <1>1, <3>1, <3>2 DEF ListTypes
      <2> QED  BY <1>5, <2>2, <2>3, <2>4, <2>5, <2>6, <2>7, <2>8, <2>9, <2>10 DEF K!Operation
<1>6. CASE K!FlushWatchers
      <2>1. K!Takes(Flusher, K!Behind) /\ UNCHANGED K!roomVars
            /\ UNCHANGED <<version, closed, watchers, pushed, got>>
            BY <1>6 DEF K!FlushWatchers, K!listVars
      <2>2. Flusher \in K!Procs /\ K!Behind \in SUBSET Lobby
            BY <1>0 DEF K!Procs, K!Behind, ListTypes
      <2> QED  BY <1>0, <1>1, <2>1, <2>2, TakesKeeps
<1>7. CASE K!Close
      <2>1. RoomKept'  BY <1>7, EmptiedKeeps DEF K!Close
      <2>2. ListTypes' /\ Delivered'
            BY <1>0, <1>7 DEF K!Close, ListTypes, Delivered, K!StateRoomParams
      <2> QED  BY <2>1, <2>2
<1>8. ASSUME NEW w \in Lobby, K!Unwatch(w) PROVE RoomKept' /\ ListTypes' /\ Delivered'
      BY <1>0, <1>1, <1>8, UnwatchKeeps DEF K!Unwatch
<1> QED  BY <1>2, <1>3, <1>4, <1>5, <1>6, <1>7, <1>8 DEF K!SRNext

LEMMA KernelMeans ==
    ASSUME KernelInv
    PROVE  K!SRTypeOK /\ K!HostAndSeats /\ K!MarkedWasDelivered
    BY DEF KernelInv, KernelTypes, SeatInv, Delivered, K!SRTypeOK, K!MarkedWasDelivered

(* Join, Leave, ImportState, Destroy, recordListPushed, for any players,   *)
(* seats, watchers and goroutines: a host exactly while a human has a      *)
(* seat, whose seat alone bears the mark; no empty seat during a match;    *)
(* what is recorded for a watcher was delivered to it.                     *)
THEOREM KernelIsSound ==
    ASSUME K!StateRoomParams
    PROVE  K!SRSpec => [](K!SRTypeOK /\ K!HostAndSeats /\ K!MarkedWasDelivered)
<1>1. K!SRInit => KernelInv  BY KernelStart
<1>2. KernelInv /\ [K!SRNext]_(K!vars) => KernelInv'  BY KernelStep
<1> QED  BY <1>1, <1>2, KernelMeans, PTL DEF K!SRSpec

-----------------------------------------------------------------------------
(* The frame-synchronised room.                                            *)
(*                                                                         *)
(* A result that is kept is one of the current generation, and so of the   *)
(* state the room has now: an import starts a generation.  While a state   *)
(* is exported outside the callbacks only, and an empty room is destroyed, *)
(* one loop at most is under way and its frame is the room's last: so the  *)
(* history lacks no frame but the one in the applier's hands.              *)

CONSTANTS Fighters, HistoryLimit, SnapshotEvery, InputTimeoutTicks, IdleTimeoutTicks,
          Retention, MaxInputLead, AutoDestroy, MaxFrame, MaxGen, MaxOps
VARIABLES room, waits, ticking, destroyed, loopGen, lineage, loop, task, signalled, gauge,
          ops, calm
F == INSTANCE FrameRoom WITH
    Players <- Fighters, running <- ticking, gen <- loopGen, job <- task

Presence == [frame : 0..MaxFrame, lineage : {0, 1}]
RoomRecs ==
    [frame : 0..MaxFrame, players : SUBSET Fighters, online : SUBSET Fighters,
     gone : [Fighters -> Nat], input : [Fighters -> Nat], state : [Fighters -> Presence],
     pending : SUBSET ((0..(MaxFrame + 1)) \X Fighters), history : SUBSET F!Frames,
     snap : F!Frames \cup {None}, progress : Nat]
Tasks == [frame : 0..MaxFrame, gen : 0..MaxGen, lineage : {0, 1}, who : SUBSET Fighters]

RoomOK ==
    room \in RoomRecs /\ room.history \subseteq 1..room.frame /\ lineage \in {0, 1}
MembersOK ==
    IsFiniteSet(room.players) /\ F!MembersAreOne
LoopsOK ==
    /\ loopGen \in 0..MaxGen /\ ticking \in BOOLEAN /\ destroyed \in BOOLEAN
    /\ loop \in [F!Gens -> {"none", "top", "select", "apply", "gone"}]
    /\ task \in [F!Gens -> Tasks] /\ signalled \subseteq F!Gens /\ calm \in BOOLEAN
    /\ waits \in [Fighters -> 0..InputTimeoutTicks]
TasksOK ==
    \A g \in F!Gens : loop[g] = "apply" =>
        /\ task[g].frame \in F!Frames /\ task[g].gen =< loopGen
        /\ task[g].gen = loopGen => task[g].lineage = lineage

WholeInv == RoomOK /\ MembersOK /\ LoopsOK /\ TasksOK

(* What is known of a room without a hole. *)
Active(g) == loop[g] \in {"top", "select", "apply"}
OneLoop ==
    /\ \A g \in F!Gens : Active(g) => g = loopGen
    /\ \A g \in F!Gens : loop[g] = "apply" =>
           task[g].frame = room.frame /\ task[g].gen = loopGen
    /\ ticking \/ destroyed \/ loopGen = 0
    /\ ~(ticking /\ destroyed)
Covered ==
    ~destroyed /\ room.snap # None =>
        /\ room.snap =< room.frame /\ room.snap % SnapshotEvery = 0
        /\ room.frame =< room.snap + SnapshotEvery
        /\ F!InCallback = {} => room.frame < room.snap + SnapshotEvery
        /\ \A f \in (room.snap + 1)..room.frame :
               f \in room.history \/ (f = room.frame /\ F!InCallback # {})
HoleInv == calm /\ AutoDestroy => OneLoop /\ Covered

FrameInv == WholeInv /\ HoleInv

-----------------------------------------------------------------------------

(* The operations of the players *)

(* Whoever leaves the loops and their tasks alone keeps what is known.     *)
LEMMA LoopsStay ==
    ASSUME F!FrameRoomParams, LoopsOK, TasksOK, UNCHANGED <<task, calm, lineage>>,
           loop' = loop, loopGen' = loopGen, waits' \in [Fighters -> 0..InputTimeoutTicks],
           ticking' \in BOOLEAN, destroyed' \in BOOLEAN, signalled' \subseteq F!Gens
    PROVE  LoopsOK' /\ TasksOK'
    BY DEF LoopsOK, TasksOK

LEMMA SignalTypes == ASSUME LoopsOK, F!Signal PROVE signalled' \subseteq F!Gens
    BY DEF LoopsOK, F!Signal

LEMMA LoopStarts ==
    ASSUME F!FrameRoomParams, LoopsOK, TasksOK, NEW ps, F!EnsureStarted(ps),
           UNCHANGED <<waits, destroyed, task, signalled, calm, lineage>>
    PROVE  LoopsOK' /\ TasksOK'
<1>1. CASE UNCHANGED <<ticking, loopGen, loop>>
      BY <1>1 DEF LoopsOK, TasksOK
<1>2. CASE /\ loopGen < MaxGen /\ ticking' = TRUE /\ loopGen' = loopGen + 1
           /\ loop' = [loop EXCEPT ![loopGen + 1] = "top"]
      <2>1. loopGen \in Nat /\ MaxGen \in Nat /\ loopGen' \in 0..MaxGen
            BY <1>2 DEF LoopsOK, F!FrameRoomParams
      <2>2. loop' \in [F!Gens -> {"none", "top", "select", "apply", "gone"}]
            BY <1>2 DEF LoopsOK
      <2>3. LoopsOK'  BY <1>2, <2>1, <2>2 DEF LoopsOK
      <2>4. TasksOK'
            <3> SUFFICES ASSUME NEW g \in F!Gens, loop'[g] = "apply"
                         PROVE  /\ task[g].frame \in F!Frames /\ task[g].gen =< loopGen'
                                /\ task[g].gen # loopGen'
                BY DEF TasksOK
            <3>1. loop[g] = "apply"  BY <1>2 DEF LoopsOK
            <3>2. task[g].gen \in Nat  BY DEF LoopsOK, Tasks
            <3>3. task[g].gen =< loopGen /\ task[g].frame \in F!Frames  BY <3>1 DEF TasksOK
            <3> QED  BY <1>2, <2>1, <3>2, <3>3
      <2> QED  BY <2>3, <2>4
<1> QED  BY <1>1, <1>2 DEF F!EnsureStarted

(* The room of a step that changes only these fields.                      *)
LEMMA MembersKept ==
    ASSUME RoomOK, MembersOK, RoomOK', UNCHANGED <<gauge, lineage>>,
           room'.players = room.players, room'.online \subseteq room.players,
           \A i \in room'.pending : i[2] \in room.players, room'.state = room.state
    PROVE  MembersOK'
    BY DEF MembersOK, F!MembersAreOne

LEMMA SameCount == \A S : F!Cardinality(S) = Cardinality(S)
    BY DEF F!Cardinality, Cardinality

LEMMA FrameJoins ==
    ASSUME F!FrameRoomParams, WholeInv, NEW p \in Fighters, F!Join(p)
    PROVE  WholeInv'
<1> USE DEF WholeInv
<1>0. /\ p \notin room.players /\ gauge' = gauge + 1 /\ lineage' = lineage
      /\ room' = [room EXCEPT !.players = @ \cup {p}, !.online = @ \cup {p},
                              !.state[p] = F!Fresh(p), !.progress = room.frame]
      BY DEF F!Join
<1>1. room \in RoomRecs /\ lineage \in {0, 1} /\ room.frame \in Nat
      /\ room.history \subseteq 1..room.frame
      BY DEF RoomOK, RoomRecs
<1>2. F!Fresh(p) \in Presence /\ F!Fresh(p).frame = 0 /\ F!Fresh(p).lineage = lineage
      <2>1. 0 \in 0..MaxFrame  BY DEF F!FrameRoomParams
      <2> QED  BY <1>1, <2>1 DEF F!Fresh, Presence
<1> DEFINE newcomer == F!Fresh(p)
<1>3. /\ room'.players = room.players \cup {p} /\ room'.online = room.online \cup {p}
      /\ room'.pending = room.pending /\ room'.frame = room.frame
      /\ room'.history = room.history /\ room'.snap = room.snap
      /\ room'.state = [room.state EXCEPT ![p] = newcomer]
      BY <1>0, <1>1 DEF RoomRecs
<1>4. RoomOK'
      <2>1. [room.state EXCEPT ![p] = newcomer] \in [Fighters -> Presence]
            BY <1>1, <1>2 DEF RoomRecs
      <2> DEFINE st == [room.state EXCEPT ![p] = newcomer]
      <2>2. room' = [room EXCEPT !.players = @ \cup {p}, !.online = @ \cup {p},
                                 !.state = st, !.progress = room.frame]
            BY <1>0, <1>1 DEF RoomRecs
      <2> HIDE DEF st
      <2>3. room' \in RoomRecs  BY <1>1, <2>1, <2>2 DEF RoomRecs, st
      <2> QED  BY <1>0, <1>1, <1>3, <2>3 DEF RoomOK
<1>5. MembersOK'
      <2>0. IsFiniteSet(room.players)  BY DEF MembersOK
      <2>1. /\ IsFiniteSet(room'.players)
            /\ Cardinality(room'.players) = Cardinality(room.players) + 1
            BY <2>0, <1>0, <1>3, FS_AddElement
      <2>2. gauge' = F!Cardinality(room'.players)
            BY <1>0, <2>1, SameCount DEF MembersOK, F!MembersAreOne
      <2>3. \A q \in Fighters : room'.state[q] = IF q = p THEN newcomer ELSE room.state[q]
            BY <1>1, <1>3 DEF RoomRecs
      <2>4. \A q \in Fighters \ room'.players : room'.state[q].frame = 0
            BY <1>3, <2>3 DEF MembersOK, F!MembersAreOne
      <2>5. \A q \in room'.players : room'.state[q].lineage = lineage'
            BY <1>0, <1>1, <1>2, <1>3, <2>3 DEF MembersOK, F!MembersAreOne, RoomRecs
      <2>6. room'.online \subseteq room'.players /\ \A i \in room'.pending : i[2] \in room'.players
            BY <1>3 DEF MembersOK, F!MembersAreOne
      <2> QED  BY <2>1, <2>2, <2>4, <2>5, <2>6 DEF MembersOK, F!MembersAreOne
<1>6. LoopsOK' /\ TasksOK'  BY LoopStarts DEF F!Join
<1> QED  BY <1>4, <1>5, <1>6

LEMMA FramePresence ==
    ASSUME F!FrameRoomParams, WholeInv, NEW p \in Fighters,
           F!Reconnect(p) \/ F!MarkDisconnected(p)
    PROVE  WholeInv'
<1> USE DEF WholeInv
<1>0. UNCHANGED <<waits, ticking, destroyed, loopGen, lineage, loop, task, signalled, gauge, calm>>
      BY DEF F!Reconnect, F!MarkDisconnected, F!loops
<1>1. room \in RoomRecs /\ lineage \in {0, 1} /\ room.frame \in Nat
      /\ room.history \subseteq 1..room.frame
      BY DEF RoomOK, RoomRecs
<1>2. LoopsOK' /\ TasksOK'  BY <1>0 DEF LoopsOK, TasksOK
<1>3. CASE F!Reconnect(p)
      <2>1. room' = F!Back(p) /\ p \in room.players  BY <1>3 DEF F!Reconnect
      <2>2. room' \in RoomRecs  BY <1>1, <2>1 DEF RoomRecs, F!Back, F!DropInputs
      <2>3. /\ room'.players = room.players /\ room'.online = room.online \cup {p}
            /\ room'.pending \subseteq room.pending /\ room'.frame = room.frame
            /\ room'.history = room.history /\ room'.state = room.state
            BY <1>1, <2>1 DEF RoomRecs, F!Back, F!DropInputs
      <2>4. RoomOK'  BY <1>0, <1>1, <2>2, <2>3 DEF RoomOK
      <2>5. MembersOK'
            BY <1>0, <2>1, <2>3, <2>4, MembersKept DEF MembersOK, F!MembersAreOne
      <2> QED  BY <1>2, <2>4, <2>5
<1>4. CASE F!MarkDisconnected(p)
      <2>1. room' = [room EXCEPT !.online = @ \ {p}, !.gone[p] = room.frame]
            BY <1>4 DEF F!MarkDisconnected
      <2>2. room' \in RoomRecs  BY <1>1, <2>1 DEF RoomRecs
      <2>3. /\ room'.players = room.players /\ room'.online \subseteq room.online
            /\ room'.pending = room.pending /\ room'.frame = room.frame
            /\ room'.history = room.history /\ room'.state = room.state
            BY <1>1, <2>1 DEF RoomRecs
      <2>4. RoomOK'  BY <1>0, <1>1, <2>2, <2>3 DEF RoomOK
      <2>5. MembersOK'  BY <1>0, <2>3, <2>4, MembersKept DEF MembersOK, F!MembersAreOne
      <2> QED  BY <1>2, <2>4, <2>5
<1> QED  BY <1>3, <1>4

LEMMA WithoutFields ==
    ASSUME NEW r \in RoomRecs, NEW S, NEW w, w = F!Without(r, S), F!FrameRoomParams
    PROVE  /\ w \in RoomRecs /\ w.players = r.players \ S /\ w.online = r.online \ S
           /\ w.pending = {i \in r.pending : i[2] \notin S} /\ w.frame = r.frame
           /\ w.history = r.history /\ w.snap = r.snap
           /\ \A p \in Fighters : w.state[p] = IF p \in S THEN [frame |-> 0, lineage |-> 0]
                                               ELSE r.state[p]
<1>1. [frame |-> 0, lineage |-> 0] \in Presence  BY DEF Presence, F!FrameRoomParams
<1>2. w \in RoomRecs  BY <1>1 DEF RoomRecs, F!Without, F!DropInputs
<1> QED  BY <1>2 DEF RoomRecs, F!Without, F!DropInputs

LEMMA FrameLeaves ==
    ASSUME F!FrameRoomParams, WholeInv, NEW p \in Fighters, F!Leave(p)
    PROVE  WholeInv'
<1> USE DEF WholeInv
<1>0. /\ p \in room.players /\ room' = F!Without(room, {p}) /\ gauge' = gauge - 1
      /\ waits' = [waits EXCEPT ![p] = 0] /\ ticking' = (ticking /\ room.players # {p})
      /\ destroyed' = (AutoDestroy /\ room.players = {p})
      /\ UNCHANGED <<loopGen, lineage, loop, task, calm>>
      /\ F!Signal \/ signalled' = signalled
      BY DEF F!Leave
<1>1. room \in RoomRecs /\ lineage \in {0, 1} /\ room.history \subseteq 1..room.frame
      BY DEF RoomOK
<1>2. /\ room' \in RoomRecs /\ room'.players = room.players \ {p}
      /\ room'.online = room.online \ {p} /\ room'.frame = room.frame
      /\ room'.pending = {i \in room.pending : i[2] \notin {p}}
      /\ room'.history = room.history
      /\ \A q \in Fighters : room'.state[q] = IF q \in {p} THEN [frame |-> 0, lineage |-> 0]
                                              ELSE room.state[q]
      BY <1>0, <1>1, WithoutFields
<1>3. RoomOK'  BY <1>0, <1>1, <1>2 DEF RoomOK
<1>4. MembersOK'
      <2> DEFINE ps == room.players
      <2>0. IsFiniteSet(ps) /\ p \in ps  BY <1>0 DEF MembersOK
      <2> HIDE DEF ps
      <2>1. IsFiniteSet(ps \ {p}) /\ Cardinality(ps \ {p}) = Cardinality(ps) - 1
            BY <2>0, FS_RemoveElement
      <2>2. gauge' = F!Cardinality(room'.players) /\ IsFiniteSet(room'.players)
            BY <1>0, <1>2, <2>1, SameCount DEF ps, MembersOK, F!MembersAreOne
      <2>3. ASSUME NEW q \in Fighters \ room'.players PROVE room'.state[q].frame = 0
            <3>1. CASE q = p  BY <1>2, <3>1
            <3>2. CASE q # p  BY <1>2, <3>2 DEF MembersOK, F!MembersAreOne
            <3> QED  BY <3>1, <3>2
      <2>4. \A q \in room'.players : room'.state[q].lineage = lineage'
            BY <1>0, <1>1, <1>2 DEF MembersOK, F!MembersAreOne, RoomRecs
      <2>5. room'.online \subseteq room'.players /\ \A i \in room'.pending : i[2] \in room'.players
            BY <1>2 DEF MembersOK, F!MembersAreOne
      <2> QED  BY <2>2, <2>3, <2>4, <2>5 DEF MembersOK, F!MembersAreOne
<1>5. LoopsOK' /\ TasksOK'
      <2>1. waits' \in [Fighters -> 0..InputTimeoutTicks]
            BY <1>0 DEF LoopsOK, F!FrameRoomParams
      <2>2. signalled' \subseteq F!Gens  BY <1>0, SignalTypes DEF LoopsOK
      <2>3. ticking' \in BOOLEAN /\ destroyed' \in BOOLEAN  BY <1>0
      <2> QED  BY <1>0, <2>1, <2>2, <2>3, LoopsStay
<1> QED  BY <1>3, <1>4, <1>5

LEMMA FrameTakesInput ==
    ASSUME F!FrameRoomParams, WholeInv, NEW p \in Fighters, NEW f \in F!Frames, F!Input(p, f)
    PROVE  WholeInv'
<1> USE DEF WholeInv
<1>0. /\ p \in room.players /\ UNCHANGED <<lineage, gauge>>
      /\ room' = [room EXCEPT !.pending = @ \cup {<<f, p>>}, !.online = @ \cup {p},
                              !.gone[p] = 0, !.input[p] = f]
      BY DEF F!Input
<1>1. /\ room \in RoomRecs /\ lineage \in {0, 1} /\ room.history \subseteq 1..room.frame
      /\ f \in Nat /\ f \in 0..(MaxFrame + 1)
      BY DEF RoomOK, F!Frames, F!FrameRoomParams
<1>2. /\ room'.players = room.players /\ room'.online = room.online \cup {p}
      /\ room'.pending = room.pending \cup {<<f, p>>} /\ room'.frame = room.frame
      /\ room'.history = room.history /\ room'.state = room.state
      BY <1>0, <1>1 DEF RoomRecs
<1>3. room' \in RoomRecs
      <2>1. <<f, p>> \in (0..(MaxFrame + 1)) \X Fighters  BY <1>1
      <2> QED  BY <1>0, <1>1, <2>1 DEF RoomRecs
<1>4. RoomOK'  BY <1>0, <1>1, <1>2, <1>3 DEF RoomOK
<1>5. MembersOK'
      <2>1. \A i \in room'.pending : i[2] \in room.players
            BY <1>0, <1>2 DEF MembersOK, F!MembersAreOne
      <2> QED  BY <1>0, <1>2, <1>4, <2>1, MembersKept DEF MembersOK, F!MembersAreOne
<1>6. LoopsOK' /\ TasksOK'  BY LoopStarts DEF F!Input
<1> QED  BY <1>4, <1>5, <1>6

LEMMA FrameImported ==
    ASSUME F!FrameRoomParams, WholeInv, F!ImportState \/ F!ImportAsNew
    PROVE  WholeInv'
<1> USE DEF WholeInv
<1>0. /\ room' = F!Imported /\ lineage' = 1 /\ loopGen' = loopGen + 2 /\ loopGen + 2 <= MaxGen
      /\ UNCHANGED <<ticking, destroyed, calm>>
      BY DEF F!ImportState, F!ImportAsNew, F!Importable
<1>1. /\ room \in RoomRecs /\ lineage \in {0, 1} /\ room.history \subseteq 1..room.frame
      /\ room.state \in [Fighters -> Presence]
      BY DEF RoomOK, RoomRecs
<1> DEFINE st == [p \in Fighters |-> [frame |-> room.state[p].frame,
                                     lineage |-> IF p \in room.players THEN 1 ELSE 0]]
<1>2. st \in [Fighters -> Presence]  BY <1>1 DEF Presence
<1>3. room' = [room EXCEPT !.state = st]  BY <1>0 DEF F!Imported
<1>4. \A p \in Fighters : /\ st[p].frame = room.state[p].frame
                          /\ p \in room.players => st[p].lineage = 1
      OBVIOUS
<1> HIDE DEF st
<1>5. /\ room' \in RoomRecs /\ room'.state = st /\ room'.players = room.players
      /\ room'.online = room.online /\ room'.pending = room.pending
      /\ room'.history = room.history /\ room'.frame = room.frame
      BY <1>1, <1>2, <1>3 DEF RoomRecs
<1>6. RoomOK'  BY <1>0, <1>1, <1>5 DEF RoomOK
<1>7. MembersOK'
      <2>1. gauge' = F!Cardinality(room.players)
            BY DEF F!ImportState, F!ImportAsNew, MembersOK, F!MembersAreOne
      <2>2. room.players \subseteq Fighters  BY <1>1 DEF RoomRecs
      <2>3. \A p \in room.players : st[p].lineage = lineage'  BY <1>0, <1>4, <2>2
      <2>4. \A p \in Fighters \ room.players : st[p].frame = 0
            BY <1>4 DEF MembersOK, F!MembersAreOne
      <2> QED  BY <1>5, <2>1, <2>3, <2>4 DEF MembersOK, F!MembersAreOne
<1>8. loopGen \in Nat /\ MaxGen \in Nat /\ loopGen' \in 0..MaxGen /\ loopGen + 2 \in F!Gens
      BY <1>0 DEF LoopsOK, F!Gens, F!FrameRoomParams
<1>9. CASE F!ImportState
      <2>1. /\ loop' = [loop EXCEPT ![loopGen + 2] = "top"] /\ F!Signal
            /\ UNCHANGED <<waits, task>>
            BY <1>9 DEF F!ImportState
      <2>2. loop' \in [F!Gens -> {"none", "top", "select", "apply", "gone"}]
            BY <2>1 DEF LoopsOK
      <2>3. LoopsOK'  BY <1>0, <1>8, <2>1, <2>2, SignalTypes DEF LoopsOK
      <2>4. ASSUME NEW g \in F!Gens, loop'[g] = "apply"
            PROVE  task[g].frame \in F!Frames /\ task[g].gen < loopGen'
            <3>1. loop[g] = "apply"  BY <2>1, <2>4 DEF LoopsOK
            <3>2. task[g].gen \in Nat  BY DEF LoopsOK, Tasks
            <3>3. task[g].gen =< loopGen /\ task[g].frame \in F!Frames  BY <3>1 DEF TasksOK
            <3> QED  BY <1>0, <1>8, <3>2, <3>3
      <2>5. ASSUME NEW g \in F!Gens PROVE task[g].gen \in Nat  BY DEF LoopsOK, Tasks
      <2>6. \A g \in F!Gens : task[g].gen < loopGen' =>
                task[g].gen =< loopGen' /\ task[g].gen # loopGen'
            BY <1>0, <1>8, <2>5
      <2>7. TasksOK'  BY <2>1, <2>4, <2>6 DEF TasksOK
      <2> QED  BY <1>6, <1>7, <2>3, <2>7
<1>10. CASE F!ImportAsNew
      <2>1. /\ waits' = [p \in Fighters |-> 0] /\ signalled' = {}
            /\ loop' = [g \in F!Gens |-> IF g = loopGen + 2 THEN "top" ELSE "none"]
            /\ task' = [g \in F!Gens |-> F!NoJob]
            BY <1>0, <1>10 DEF F!ImportAsNew
      <2>2. F!NoJob \in Tasks  BY DEF F!NoJob, Tasks, F!FrameRoomParams
      <2>3. LoopsOK'  BY <1>0, <1>8, <2>1, <2>2 DEF LoopsOK, F!FrameRoomParams
      <2>4. TasksOK'  BY <2>1 DEF TasksOK
      <2> QED  BY <1>6, <1>7, <2>3, <2>4
<1> QED  BY <1>9, <1>10

-----------------------------------------------------------------------------
(* The tick loop *)

(* A step of the loop g to another place than the applier.                 *)
LEMMA LoopGoes ==
    ASSUME F!FrameRoomParams, LoopsOK, TasksOK, NEW g \in F!Gens,
           NEW to \in {"top", "select", "gone"}, loop' = [loop EXCEPT ![g] = to],
           UNCHANGED <<loopGen, lineage, calm>>,
           task' \in [F!Gens -> Tasks], \A h \in F!Gens \ {g} : task'[h] = task[h],
           waits' \in [Fighters -> 0..InputTimeoutTicks],
           ticking' \in BOOLEAN, destroyed' \in BOOLEAN, signalled' \subseteq F!Gens
    PROVE  LoopsOK' /\ TasksOK'
<1>1. LoopsOK'  BY DEF LoopsOK
<1>2. ASSUME NEW h \in F!Gens, loop'[h] = "apply"
      PROVE  h # g /\ loop[h] = "apply" /\ task'[h] = task[h]
      BY <1>2 DEF LoopsOK
<1> QED  BY <1>1, <1>2 DEF TasksOK

LEMMA RoomStays ==
    ASSUME RoomOK, MembersOK, UNCHANGED <<room, lineage, gauge>> PROVE RoomOK' /\ MembersOK'
    BY DEF RoomOK, MembersOK, F!MembersAreOne

LEMMA WaitTypes ==
    ASSUME F!FrameRoomParams, LoopsOK
    PROVE  F!Waits \in [Fighters -> 0..InputTimeoutTicks]
<1>1. InputTimeoutTicks \in Nat  BY DEF F!FrameRoomParams
<1>2. ASSUME NEW p \in Fighters
      PROVE  (IF p \notin room.players THEN waits[p]
              ELSE IF F!Silence(p) > InputTimeoutTicks THEN InputTimeoutTicks
                   ELSE F!Silence(p)) \in 0..InputTimeoutTicks
      <2>1. waits[p] \in 0..InputTimeoutTicks  BY DEF LoopsOK
      <2>2. F!Silence(p) \in Nat  BY <1>1, <2>1 DEF F!Silence
      <2> QED  BY <1>1, <2>1, <2>2
<1> QED  BY <1>2 DEF F!Waits

LEMMA FrameLoops ==
    ASSUME F!FrameRoomParams, WholeInv, NEW g \in F!Gens,
           \/ F!LoopTop(g) \/ F!LoopStops(g) \/ F!StepEmpty(g)
           \/ F!Discard(g) \/ F!Destroy
    PROVE  WholeInv'
<1> USE DEF WholeInv
<1>0. UNCHANGED <<room, lineage, gauge, waits, loopGen, calm>>
      BY DEF F!LoopTop, F!LoopStops, F!StepEmpty, F!Discard, F!Destroy
<1>1. RoomOK' /\ MembersOK'  BY <1>0, RoomStays
<1>2. waits' \in [Fighters -> 0..InputTimeoutTicks] /\ task \in [F!Gens -> Tasks]
      BY <1>0 DEF LoopsOK
<1>3. CASE F!LoopTop(g) \/ F!LoopStops(g)
      <2>1. /\ UNCHANGED <<task, ticking, destroyed, signalled>>
            /\ \E to \in {"select", "gone"} : loop' = [loop EXCEPT ![g] = to]
            BY <1>3 DEF F!LoopTop, F!LoopStops
      <2> QED  BY <1>0, <1>1, <1>2, <2>1, LoopGoes DEF LoopsOK
<1>4. CASE F!StepEmpty(g)
      <2>1. /\ UNCHANGED task /\ loop' = [loop EXCEPT ![g] = "top"]
            /\ ticking' = (ticking /\ destroyed) /\ destroyed' = (destroyed \/ AutoDestroy)
            BY <1>4 DEF F!StepEmpty, F!ToTop
      <2>2. signalled' \subseteq F!Gens  BY <1>4, SignalTypes DEF F!StepEmpty, LoopsOK
      <2> QED  BY <1>0, <1>1, <1>2, <2>1, <2>2, LoopGoes
<1>5. CASE F!Discard(g)
      <2>1. /\ UNCHANGED <<ticking, destroyed, signalled>>
            /\ loop' = [loop EXCEPT ![g] = "top"] /\ task' = [task EXCEPT ![g] = F!NoJob]
            BY <1>5 DEF F!Discard, F!ToTop
      <2>2. F!NoJob \in Tasks  BY DEF F!NoJob, Tasks, F!FrameRoomParams
      <2>3. task' \in [F!Gens -> Tasks] /\ \A h \in F!Gens \ {g} : task'[h] = task[h]
            BY <1>2, <2>1, <2>2
      <2> QED  BY <1>0, <1>1, <1>2, <2>1, <2>3, LoopGoes DEF LoopsOK
<1>6. CASE F!Destroy
      <2>1. UNCHANGED <<loop, task>> /\ destroyed' = TRUE /\ ticking' = FALSE /\ F!Signal
            BY <1>6 DEF F!Destroy
      <2> QED  BY <1>0, <1>1, <1>2, <2>1, SignalTypes, LoopsStay
<1> QED  BY <1>3, <1>4, <1>5, <1>6

LEMMA FrameWaits ==
    ASSUME F!FrameRoomParams, WholeInv, NEW g \in F!Gens, F!StepWaits(g)
    PROVE  WholeInv'
<1> USE DEF WholeInv
<1>0. /\ UNCHANGED <<loopGen, lineage, task, gauge, calm>> /\ loop' = [loop EXCEPT ![g] = "top"]
      BY DEF F!StepWaits, F!ToTop
<1>1. task' \in [F!Gens -> Tasks] /\ \A h \in F!Gens \ {g} : task'[h] = task[h]
      BY <1>0 DEF LoopsOK
<1>2. CASE F!Idle
      <2>1. UNCHANGED <<room, waits>> /\ destroyed' = TRUE /\ ticking' = FALSE /\ F!Signal
            BY <1>2 DEF F!StepWaits, F!StepIdle
      <2>2. RoomOK' /\ MembersOK'  BY <1>0, <2>1, RoomStays
      <2>3. waits' \in [Fighters -> 0..InputTimeoutTicks]  BY <2>1 DEF LoopsOK
      <2> QED  BY <1>0, <1>1, <2>1, <2>2, <2>3, SignalTypes, LoopGoes
<1>3. CASE ~F!Idle
      <2> DEFINE more == {<<F!Next1, p>> : p \in F!TimedOut}
      <2>1. /\ UNCHANGED <<ticking, destroyed, signalled>> /\ waits' = F!Waits
            /\ room' = [room EXCEPT !.pending = @ \cup more, !.progress = room.frame]
            BY <1>3 DEF F!StepWaits
      <2>2. /\ room \in RoomRecs /\ lineage \in {0, 1} /\ room.history \subseteq 1..room.frame
            /\ room.frame \in 0..MaxFrame /\ MaxFrame \in Nat /\ room.players \subseteq Fighters
            BY DEF RoomOK, RoomRecs, F!FrameRoomParams
      <2>3. F!Next1 \in 0..(MaxFrame + 1) /\ room.frame \in Nat  BY <2>2 DEF F!Next1
      <2>4. F!TimedOut \subseteq room.players  BY DEF F!TimedOut
      <2>5. /\ more \subseteq (0..(MaxFrame + 1)) \X Fighters
            /\ \A i \in more : i[2] \in room.players
            BY <2>2, <2>3, <2>4
      <2> HIDE DEF more
      <2>6. /\ room' \in RoomRecs /\ room'.players = room.players
            /\ room'.online = room.online /\ room'.pending = room.pending \cup more
            /\ room'.state = room.state /\ room'.frame = room.frame
            /\ room'.history = room.history
            BY <2>1, <2>2, <2>3, <2>5 DEF RoomRecs
      <2>7. RoomOK'  BY <1>0, <2>2, <2>6 DEF RoomOK
      <2>8. MembersOK'
            BY <1>0, <2>5, <2>6, <2>7, MembersKept DEF MembersOK, F!MembersAreOne
      <2>9. waits' \in [Fighters -> 0..InputTimeoutTicks]  BY <2>1, WaitTypes
      <2> QED  BY <1>0, <1>1, <2>1, <2>7, <2>8, <2>9, LoopGoes DEF LoopsOK
<1> QED  BY <1>2, <1>3

LEMMA AdvanceFields ==
    ASSUME F!FrameRoomParams, RoomOK, NEW g \in F!Gens, F!StepAdvances(g)
    PROVE  /\ room.frame \in Nat /\ F!Next1 = room.frame + 1 /\ F!Next1 \in F!Frames
           /\ room' \in RoomRecs /\ room'.players = room.players
           /\ room'.online = room.online /\ room'.pending \subseteq room.pending
           /\ room'.state = room.state /\ room'.frame = F!Next1
           /\ room'.history = room.history /\ room'.snap = room.snap
<1>1. /\ room' = [room EXCEPT !.frame = F!Next1, !.progress = F!Next1,
                              !.pending = {i \in @ : i[1] # F!Next1}]
      /\ F!Next1 <= MaxFrame
      BY DEF F!StepAdvances
<1>2. room \in RoomRecs /\ room.frame \in 0..MaxFrame /\ MaxFrame \in Nat
      BY DEF RoomOK, RoomRecs, F!FrameRoomParams
<1>3. F!Next1 \in 0..MaxFrame /\ F!Next1 \in Nat /\ F!Next1 \in F!Frames
      BY <1>1, <1>2 DEF F!Next1, F!Frames
<1>4. F!Next1 = room.frame + 1  BY DEF F!Next1
<1> DEFINE n == F!Next1
<1>5. /\ room' = [room EXCEPT !.frame = n, !.progress = n, !.pending = {i \in @ : i[1] # n}]
      /\ n \in 0..MaxFrame /\ n \in Nat
      BY <1>1, <1>3
<1> HIDE DEF n
<1>6. /\ room' \in RoomRecs /\ room'.players = room.players
      /\ room'.online = room.online /\ room'.pending \subseteq room.pending
      /\ room'.state = room.state /\ room'.frame = n
      /\ room'.history = room.history /\ room'.snap = room.snap
      BY <1>2, <1>5 DEF RoomRecs
<1> QED  BY <1>2, <1>3, <1>4, <1>6 DEF n

LEMMA FrameAdvances ==
    ASSUME F!FrameRoomParams, WholeInv, NEW g \in F!Gens, F!StepAdvances(g)
    PROVE  WholeInv'
<1> USE DEF WholeInv
<1>1. /\ room \in RoomRecs /\ lineage \in {0, 1} /\ room.history \subseteq 1..room.frame
      /\ room.players \subseteq Fighters
      BY DEF RoomOK, RoomRecs
<1>2. /\ room.frame \in Nat /\ F!Next1 = room.frame + 1 /\ F!Next1 \in F!Frames
      /\ room' \in RoomRecs /\ room'.players = room.players
      /\ room'.online = room.online /\ room'.pending \subseteq room.pending
      /\ room'.state = room.state /\ room'.frame = F!Next1
      /\ room'.history = room.history
      BY AdvanceFields
<1> DEFINE new == [frame |-> F!Next1, gen |-> loopGen, lineage |-> lineage, who |-> room.players]
<1>3. /\ UNCHANGED <<ticking, destroyed, loopGen, lineage, signalled, gauge, calm>>
      /\ loop' = [loop EXCEPT ![g] = "apply"] /\ waits' = F!Waits
      /\ task' = [task EXCEPT ![g] = new]
      BY DEF F!StepAdvances
<1>4. RoomOK'
      <2>1. 1..room.frame \subseteq 1..(room.frame + 1)  BY <1>2
      <2> QED  BY <1>1, <1>2, <1>3, <2>1 DEF RoomOK
<1>5. MembersOK'
      BY <1>2, <1>3, <1>4, MembersKept DEF MembersOK, F!MembersAreOne
<1>6. /\ new \in Tasks /\ new.frame \in F!Frames /\ new.gen = loopGen /\ new.lineage = lineage
      <2>1. F!Next1 \in 0..MaxFrame  BY <1>2 DEF F!Frames, F!FrameRoomParams
      <2> QED  BY <1>1, <1>2, <2>1 DEF Tasks, LoopsOK
<1> HIDE DEF new
<1>7. LoopsOK'  BY <1>3, <1>6, WaitTypes DEF LoopsOK
<1>8. ASSUME NEW h \in F!Gens, loop'[h] = "apply"
      PROVE  /\ task'[h].frame \in F!Frames /\ task'[h].gen =< loopGen'
             /\ task'[h].gen = loopGen' => task'[h].lineage = lineage'
      <2>1. loopGen \in Nat  BY DEF LoopsOK
      <2>2. CASE h = g  BY <1>3, <1>6, <2>1, <2>2 DEF LoopsOK
      <2>3. CASE h # g
            <3>1. task'[h] = task[h] /\ loop[h] = "apply"  BY <1>3, <1>8, <2>3 DEF LoopsOK
            <3> QED  BY <1>3, <3>1 DEF TasksOK
      <2> QED  BY <2>2, <2>3
<1>9. TasksOK'  BY <1>8 DEF TasksOK
<1> QED  BY <1>4, <1>5, <1>7, <1>9

(* The room after a merge: the history and the snapshot take the frame,    *)
(* and the members that were gone too long leave with all they had.        *)
LEMMA CommitFields ==
    ASSUME F!FrameRoomParams, WholeInv, NEW g \in F!Gens, F!Commit(g)
    PROVE  /\ task[g].frame = room.frame /\ room.frame \in F!Frames
           /\ task[g].gen = loopGen /\ task[g].lineage = lineage
           /\ room' \in RoomRecs /\ room'.frame = room.frame
           /\ room'.history = F!Trimmed(room.history \cup {room.frame})
           /\ room'.snap = IF room.frame % SnapshotEvery = 0 THEN room.frame ELSE room.snap
           /\ \E out \in SUBSET room.players :
                 /\ room'.players = room.players \ out /\ room'.online = room.online \ out
                 /\ room'.pending = {i \in room.pending : i[2] \notin out}
                 /\ \A p \in out : room'.state[p].frame = 0
                 /\ \A p \in Fighters \ out :
                       IF p \in room.players THEN room'.state[p].lineage = lineage
                       ELSE room'.state[p] = room.state[p]
<1> DEFINE f == room.frame
<1>0. loop[g] = "apply" /\ F!Kept(g) /\ room' = F!Committed(g)  BY DEF F!Commit
<1>1. task[g].frame = f /\ task[g].gen = loopGen /\ f \in F!Frames /\ task[g].lineage = lineage
      BY <1>0 DEF F!Kept, WholeInv, TasksOK
<1>2. /\ room \in RoomRecs /\ lineage \in {0, 1} /\ f \in 0..MaxFrame
      /\ room.state \in [Fighters -> Presence] /\ room.history \subseteq F!Frames
      BY DEF WholeInv, RoomOK, RoomRecs
<1> DEFINE st == F!Merged(room, g)
           hist == F!Trimmed(room.history \cup {f})
           merged == [room EXCEPT !.state = st, !.history = hist]
           out == F!Pruned(merged)
           kept == F!Without(merged, out)
<1>3. room' = [kept EXCEPT !.snap = IF f % SnapshotEvery = 0 THEN f ELSE @]
      BY <1>0, <1>1 DEF F!Committed
<1>4. st \in [Fighters -> Presence]
      <2>1. ASSUME NEW p \in Fighters
            PROVE  (IF p \notin room.players THEN room.state[p]
                    ELSE IF p \in task[g].who
                         THEN [frame |-> task[g].frame, lineage |-> task[g].lineage]
                         ELSE [room.state[p] EXCEPT !.frame = task[g].frame]) \in Presence
            <3>1. room.state[p] \in Presence  BY <1>2
            <3>2. [frame |-> f, lineage |-> lineage] \in Presence  BY <1>2 DEF Presence
            <3>3. [room.state[p] EXCEPT !.frame = f] \in Presence  BY <1>2, <3>1 DEF Presence
            <3> QED  BY <1>1, <3>1, <3>2, <3>3
      <2> QED  BY <2>1 DEF F!Merged
<1>5. \A p \in Fighters : IF p \in room.players THEN st[p].lineage = lineage
                          ELSE st[p] = room.state[p]
      <2> SUFFICES ASSUME NEW p \in Fighters
                   PROVE  IF p \in room.players THEN st[p].lineage = lineage
                          ELSE st[p] = room.state[p]
          OBVIOUS
      <2>1. st[p] = IF p \notin room.players THEN room.state[p]
                    ELSE IF p \in task[g].who
                         THEN [frame |-> task[g].frame, lineage |-> task[g].lineage]
                         ELSE [room.state[p] EXCEPT !.frame = task[g].frame]
            BY DEF F!Merged
      <2>2. room.state[p] \in Presence  BY <1>2
      <2>3. p \in room.players => room.state[p].lineage = lineage
            BY DEF WholeInv, MembersOK, F!MembersAreOne
      <2>4. [room.state[p] EXCEPT !.frame = task[g].frame].lineage = room.state[p].lineage
            BY <2>2 DEF Presence
      <2> QED  BY <1>1, <2>1, <2>3, <2>4
<1>6. hist \subseteq F!Frames  BY <1>1, <1>2 DEF F!Trimmed
<1> HIDE DEF st, hist
<1>7. /\ merged \in RoomRecs /\ merged.players = room.players /\ merged.online = room.online
      /\ merged.pending = room.pending /\ merged.frame = f /\ merged.history = hist
      /\ merged.snap = room.snap /\ merged.state = st
      BY <1>2, <1>4, <1>6 DEF RoomRecs
<1>8. out \subseteq room.players  BY <1>7 DEF F!Pruned
<1> HIDE DEF merged, out
<1>9. /\ kept \in RoomRecs /\ kept.players = room.players \ out /\ kept.online = room.online \ out
      /\ kept.pending = {i \in room.pending : i[2] \notin out} /\ kept.frame = f
      /\ kept.history = hist /\ kept.snap = room.snap
      /\ \A p \in Fighters : kept.state[p] = IF p \in out THEN [frame |-> 0, lineage |-> 0]
                                             ELSE st[p]
      BY <1>7, WithoutFields
<1> HIDE DEF kept
<1>10. /\ room' \in RoomRecs /\ room'.players = kept.players /\ room'.online = kept.online
       /\ room'.pending = kept.pending /\ room'.frame = kept.frame
       /\ room'.history = kept.history /\ room'.state = kept.state
       /\ room'.snap = IF f % SnapshotEvery = 0 THEN f ELSE kept.snap
       BY <1>1, <1>3, <1>9 DEF RoomRecs
<1>11. room.players \subseteq Fighters  BY <1>2 DEF RoomRecs
<1>12. \A p \in out : room'.state[p].frame = 0  BY <1>8, <1>9, <1>10, <1>11
<1>13. \A p \in Fighters \ out : IF p \in room.players THEN room'.state[p].lineage = lineage
                                 ELSE room'.state[p] = room.state[p]
       BY <1>5, <1>9, <1>10
<1>14. room'.players = room.players \ out /\ room'.online = room.online \ out
       /\ room'.pending = {i \in room.pending : i[2] \notin out}
       /\ room'.history = hist /\ room'.frame = room.frame
       /\ room'.snap = IF f % SnapshotEvery = 0 THEN f ELSE room.snap
       BY <1>9, <1>10
<1> QED  BY <1>1, <1>8, <1>10, <1>12, <1>13, <1>14 DEF hist

LEMMA FrameCommits ==
    ASSUME F!FrameRoomParams, WholeInv, NEW g \in F!Gens, F!Commit(g)
    PROVE  WholeInv'
<1>1. /\ task[g].frame = room.frame /\ room.frame \in F!Frames
      /\ room' \in RoomRecs /\ room'.frame = room.frame
      /\ room'.history = F!Trimmed(room.history \cup {room.frame})
      BY CommitFields
<1>2. PICK out \in SUBSET room.players :
          /\ room'.players = room.players \ out /\ room'.online = room.online \ out
          /\ room'.pending = {i \in room.pending : i[2] \notin out}
          /\ \A p \in out : room'.state[p].frame = 0
          /\ \A p \in Fighters \ out :
                IF p \in room.players THEN room'.state[p].lineage = lineage
                ELSE room'.state[p] = room.state[p]
      BY CommitFields
<1>3. /\ UNCHANGED <<ticking, destroyed, loopGen, lineage, signalled, calm>>
      /\ loop' = [loop EXCEPT ![g] = "top"] /\ task' = [task EXCEPT ![g] = F!NoJob]
      /\ waits' = [p \in Fighters |-> IF p \in room'.players THEN waits[p] ELSE 0]
      /\ gauge' = gauge - F!Cardinality(room.players \ room'.players)
      BY DEF F!Commit, F!ToTop
<1>4. RoomOK'
      <2>1. room.frame \in 1..room.frame  BY <1>1 DEF F!Frames
      <2>2. room.history \subseteq 1..room.frame /\ lineage \in {0, 1}
            BY DEF WholeInv, RoomOK
      <2>3. room'.history \subseteq 1..room.frame  BY <1>1, <2>1, <2>2 DEF F!Trimmed
      <2> QED  BY <1>1, <1>3, <2>2, <2>3 DEF RoomOK
<1>5. MembersOK'
      <2> DEFINE ps == room.players
      <2>1. IsFiniteSet(ps) /\ out \subseteq ps /\ ps \subseteq Fighters
            BY DEF WholeInv, MembersOK, RoomOK, RoomRecs
      <2> HIDE DEF ps
      <2>2. /\ IsFiniteSet(ps \ out) /\ IsFiniteSet(out) /\ ps \ (ps \ out) = out
            /\ Cardinality(ps \ out) = Cardinality(ps) - Cardinality(out)
            <3>1. ps \cap out = out /\ ps \ (ps \ out) = out  BY <2>1
            <3>2. /\ IsFiniteSet(ps \ out)
                  /\ Cardinality(ps \ out) = Cardinality(ps) - Cardinality(ps \cap out)
                  BY <2>1, FS_Difference
            <3>3. IsFiniteSet(out)  BY <2>1, FS_Subset
            <3> QED  BY <3>1, <3>2, <3>3
      <2>3. gauge' = F!Cardinality(ps) - F!Cardinality(out)
            BY <1>2, <1>3, <2>2 DEF ps, WholeInv, MembersOK, F!MembersAreOne
      <2>4. gauge' = F!Cardinality(room'.players) /\ IsFiniteSet(room'.players)
            BY <1>2, <2>2, <2>3, SameCount DEF ps
      <2>5. ASSUME NEW p \in Fighters \ room'.players PROVE room'.state[p].frame = 0
            <3>1. CASE p \in out  BY <1>2, <3>1
            <3>2. CASE p \notin out
                  BY <1>2, <3>2 DEF WholeInv, MembersOK, F!MembersAreOne
            <3> QED  BY <3>1, <3>2
      <2>6. \A p \in room'.players : room'.state[p].lineage = lineage'
            BY <1>2, <1>3, <2>1 DEF ps
      <2>7. room'.online \subseteq room'.players /\ \A i \in room'.pending : i[2] \in room'.players
            BY <1>2 DEF WholeInv, MembersOK, F!MembersAreOne
      <2> QED  BY <2>4, <2>5, <2>6, <2>7 DEF MembersOK, F!MembersAreOne
<1>6. LoopsOK' /\ TasksOK'
      <2>1. F!NoJob \in Tasks  BY DEF F!NoJob, Tasks, F!FrameRoomParams
      <2>2. task' \in [F!Gens -> Tasks] /\ \A h \in F!Gens \ {g} : task'[h] = task[h]
            BY <1>3, <2>1 DEF WholeInv, LoopsOK
      <2>3. waits' \in [Fighters -> 0..InputTimeoutTicks]
            BY <1>3 DEF WholeInv, LoopsOK, F!FrameRoomParams
      <2> QED  BY <1>3, <2>2, <2>3, LoopGoes DEF WholeInv, LoopsOK
<1> QED  BY <1>4, <1>5, <1>6 DEF WholeInv

LEMMA WholeStart ==
    ASSUME F!FrameRoomParams, F!FRInit
    PROVE  WholeInv
<1>1. 0 \in 0..MaxFrame /\ 0 \in 0..MaxGen /\ 0 \in 0..InputTimeoutTicks /\ 0 \in Nat
      BY DEF F!FrameRoomParams
<1>2. room = F!EmptyRoom /\ lineage = 0 /\ gauge = 0  BY DEF F!FRInit
<1>3. [frame |-> 0, lineage |-> 0] \in Presence  BY <1>1 DEF Presence
<1>4. /\ room \in RoomRecs /\ room.players = {} /\ room.online = {} /\ room.pending = {}
      /\ room.history = {} /\ \A p \in Fighters : room.state[p] = [frame |-> 0, lineage |-> 0]
      BY <1>1, <1>2, <1>3 DEF F!EmptyRoom, RoomRecs
<1>5. MembersOK
      <2>1. gauge = F!Cardinality(room.players) /\ IsFiniteSet(room.players)
            BY <1>2, <1>4, FS_EmptySet, SameCount
      <2> QED  BY <1>4, <2>1 DEF MembersOK, F!MembersAreOne
<1>6. F!NoJob \in Tasks  BY <1>1 DEF F!NoJob, Tasks
<1>7. LoopsOK /\ TasksOK  BY <1>1, <1>6 DEF F!FRInit, LoopsOK, TasksOK
<1> QED  BY <1>2, <1>4, <1>5, <1>7 DEF WholeInv, RoomOK

LEMMA WholeStep ==
    ASSUME F!FrameRoomParams, WholeInv, [F!FRNext]_(F!vars)
    PROVE  WholeInv'
<1>1. CASE UNCHANGED F!vars
      BY <1>1 DEF F!vars, WholeInv, RoomOK, MembersOK, F!MembersAreOne, LoopsOK, TasksOK
<1>2. ASSUME NEW p \in Fighters, F!Join(p) \/ F!Reconnect(p) \/ F!MarkDisconnected(p) \/ F!Leave(p)
      PROVE  WholeInv'
      BY <1>2, FrameJoins, FramePresence, FrameLeaves
<1>3. ASSUME NEW p \in Fighters, NEW f \in F!Frames, F!Input(p, f) PROVE WholeInv'
      BY <1>3, FrameTakesInput
<1>4. CASE F!ImportState \/ F!ImportAsNew  BY <1>4, FrameImported
<1>5. CASE F!Destroy
      <2>1. 1 \in F!Gens  BY DEF F!Gens, F!FrameRoomParams
      <2> QED  BY <1>5, <2>1, FrameLoops
<1>6. ASSUME NEW g \in F!Gens,
             \/ F!LoopTop(g) \/ F!LoopStops(g) \/ F!StepEmpty(g) \/ F!StepWaits(g)
             \/ F!StepAdvances(g) \/ F!Discard(g) \/ F!Commit(g)
      PROVE  WholeInv'
      BY <1>6, FrameLoops, FrameWaits, FrameAdvances, FrameCommits
<1> QED  BY <1>1, <1>2, <1>3, <1>4, <1>5, <1>6 DEF F!FRNext

-----------------------------------------------------------------------------
(* The pack of a recovery *)

LEMMA NextMultiple ==
    ASSUME NEW a \in Nat, NEW n \in Nat \ {0}, a % n = 0
    PROVE  (a + n) % n = 0
<1> DEFINE q == a \div n
           c == (a + n) \div n
           r == (a + n) % n
           k == q + 1 - c
<1>1. q \in Int /\ a = n * q  OBVIOUS
<1>2. c \in Int /\ r \in 0..(n - 1) /\ a + n = n * c + r  OBVIOUS
<1> HIDE DEF q, c, r
<1>3. k \in Int /\ n * k = r  BY <1>1, <1>2
<1> HIDE DEF k
<1>4. ~(k >= 1)
      <2> SUFFICES ASSUME k >= 1 PROVE FALSE  OBVIOUS
      <2>1. n * k >= n  BY <1>3
      <2> QED  BY <1>2, <1>3, <2>1
<1>5. ~(k <= -1)
      <2> SUFFICES ASSUME k <= -1 PROVE FALSE  OBVIOUS
      <2>1. n * k <= -n  BY <1>3
      <2> QED  BY <1>2, <1>3, <2>1
<1>6. k = 0  BY <1>3, <1>4, <1>5
<1> QED  BY <1>2, <1>3, <1>6 DEF r

LEMMA LastFrame ==
    ASSUME NEW f \in Nat, NEW H, H \subseteq 1..f, f \in H
    PROVE  F!Max(H) = f
<1>1. \A y \in H : y \in Nat /\ y <= f /\ f >= y  OBVIOUS
<1> DEFINE m == F!Max(H)
<1>2. m \in H /\ \A y \in H : m >= y  BY <1>1 DEF F!Max
<1> HIDE DEF m
<1>3. m >= f /\ m <= f /\ m \in Nat  BY <1>1, <1>2
<1> QED  BY <1>3 DEF m

(* The room of a step that is no merge has the same pack.                  *)
LEMMA SamePack ==
    ASSUME F!FrameRoomParams, RoomOK, NEW p \in Fighters, NEW f \in F!Frames, NEW g \in F!Gens,
           \/ F!Join(p) \/ F!Reconnect(p) \/ F!MarkDisconnected(p) \/ F!Leave(p)
           \/ F!Input(p, f) \/ F!ImportAsNew \/ F!StepWaits(g)
    PROVE  /\ room'.frame = room.frame /\ room'.history = room.history
           /\ room'.snap = room.snap
<1>0. room \in RoomRecs  BY DEF RoomOK
<1>1. CASE F!Join(p)  BY <1>0, <1>1 DEF F!Join, RoomRecs
<1>2. CASE F!Reconnect(p)  BY <1>0, <1>2 DEF F!Reconnect, F!Back, RoomRecs
<1>3. CASE F!MarkDisconnected(p)  BY <1>0, <1>3 DEF F!MarkDisconnected, RoomRecs
<1>4. CASE F!Leave(p)  BY <1>0, <1>4, WithoutFields DEF F!Leave
<1>5. CASE F!Input(p, f)  BY <1>0, <1>5 DEF F!Input, RoomRecs
<1>6. CASE F!ImportAsNew  BY <1>0, <1>6 DEF F!ImportAsNew, F!Imported, RoomRecs
<1>7. CASE F!StepWaits(g)  BY <1>0, <1>7 DEF F!StepWaits, F!StepIdle, RoomRecs
<1> QED  BY <1>1, <1>2, <1>3, <1>4, <1>5, <1>6, <1>7

LEMMA StaysCovered ==
    ASSUME Covered, destroyed' \/ (~destroyed /\ F!InCallback' = F!InCallback),
           room'.frame = room.frame, room'.history = room.history, room'.snap = room.snap
    PROVE  Covered'
<1>1. CASE destroyed'  BY <1>1 DEF Covered
<1>2. CASE ~destroyed /\ F!InCallback' = F!InCallback
      BY <1>2 DEF Covered
<1> QED  BY <1>1, <1>2

LEMMA GoodOperations ==
    ASSUME F!FrameRoomParams, WholeInv, OneLoop, Covered, AutoDestroy, NEW p \in Fighters,
           NEW f \in F!Frames,
           \/ F!Join(p) \/ F!Reconnect(p) \/ F!MarkDisconnected(p) \/ F!Leave(p)
           \/ F!Input(p, f)
    PROVE  OneLoop' /\ Covered'
<1>0. /\ room'.frame = room.frame /\ room'.history = room.history /\ room'.snap = room.snap
      /\ task' = task
      <2>1. 1 \in F!Gens  BY DEF F!Gens, F!FrameRoomParams
      <2> QED  BY <2>1, SamePack
               DEF WholeInv, F!Join, F!Reconnect, F!MarkDisconnected, F!Leave, F!Input, F!loops
<1>1. CASE F!Join(p) \/ F!Input(p, f)
      <2>1. UNCHANGED destroyed /\ ~destroyed /\ \E ps : F!EnsureStarted(ps)
            BY <1>1 DEF F!Join, F!Input
      <2>2. CASE UNCHANGED <<ticking, loopGen, loop>>
            <3>1. OneLoop'  BY <1>0, <2>1, <2>2 DEF OneLoop, Active
            <3>2. F!InCallback' = F!InCallback  BY <2>2 DEF F!InCallback
            <3> QED  BY <1>0, <2>1, <3>1, <3>2, StaysCovered
      <2>3. CASE /\ ~ticking /\ ticking' = TRUE /\ loopGen' = loopGen + 1
                 /\ loop' = [loop EXCEPT ![loopGen + 1] = "top"]
            <3>1. loopGen = 0 /\ loopGen' = 1  BY <2>1, <2>3 DEF OneLoop
            <3>2. \A h \in F!Gens : ~Active(h)  BY <3>1 DEF OneLoop, F!Gens
            <3>3. \A h \in F!Gens : loop'[h] = IF h = 1 THEN "top" ELSE loop[h]
                  BY <2>3, <3>1 DEF WholeInv, LoopsOK
            <3>4. OneLoop'  BY <2>1, <2>3, <3>1, <3>2, <3>3 DEF OneLoop, Active
            <3>5. F!InCallback' = F!InCallback  BY <3>2, <3>3 DEF F!InCallback, Active
            <3> QED  BY <1>0, <2>1, <3>4, <3>5, StaysCovered
      <2> QED  BY <2>1, <2>2, <2>3 DEF F!EnsureStarted
<1>2. CASE F!Reconnect(p) \/ F!MarkDisconnected(p)
      <2>1. UNCHANGED <<ticking, destroyed, loopGen, loop>>
            BY <1>2 DEF F!Reconnect, F!MarkDisconnected, F!loops
      <2>2. OneLoop'  BY <1>0, <2>1 DEF OneLoop, Active
      <2>3. F!InCallback' = F!InCallback  BY <2>1 DEF F!InCallback
      <2> QED  BY <1>0, <2>1, <2>2, <2>3, StaysCovered DEF Covered
<1>3. CASE F!Leave(p)
      <2>1. /\ UNCHANGED <<loopGen, loop>> /\ ~destroyed
            /\ ticking' = (ticking /\ room.players # {p})
            /\ destroyed' = (AutoDestroy /\ room.players = {p})
            BY <1>3 DEF F!Leave
      <2>2. OneLoop'  BY <1>0, <2>1 DEF OneLoop, Active
      <2>3. F!InCallback' = F!InCallback  BY <2>1 DEF F!InCallback
      <2> QED  BY <1>0, <2>1, <2>2, <2>3, StaysCovered
<1> QED  BY <1>1, <1>2, <1>3

LEMMA GoodImport ==
    ASSUME F!FrameRoomParams, WholeInv, OneLoop, Covered, calm,
           F!ImportState \/ F!ImportAsNew
    PROVE  OneLoop' /\ Covered'
<1>1. F!ImportAsNew  BY DEF F!ImportState
<1>2. /\ ticking /\ F!InCallback = {} /\ loopGen' = loopGen + 2
      /\ loop' = [g \in F!Gens |-> IF g = loopGen + 2 THEN "top" ELSE "none"]
      /\ UNCHANGED <<ticking, destroyed>>
      BY <1>1 DEF F!ImportAsNew, F!Importable
<1>3. OneLoop'  BY <1>2 DEF OneLoop, Active
<1>4. F!InCallback' = {}  BY <1>2 DEF F!InCallback
<1>5. /\ room'.frame = room.frame /\ room'.history = room.history /\ room'.snap = room.snap
      <2>1. room \in RoomRecs  BY DEF WholeInv, RoomOK
      <2> QED  BY <1>1, <2>1 DEF F!ImportAsNew, F!Imported, RoomRecs
<1> QED  BY <1>2, <1>3, <1>4, <1>5, StaysCovered DEF OneLoop

LEMMA GoodEnds ==
    ASSUME F!FrameRoomParams, WholeInv, OneLoop, Covered, AutoDestroy, NEW g \in F!Gens,
           \/ F!LoopTop(g) \/ F!LoopStops(g) \/ F!StepEmpty(g) \/ F!StepWaits(g)
           \/ F!Discard(g) \/ F!Destroy
    PROVE  OneLoop' /\ Covered'
<1>0. loopGen' = loopGen
      BY DEF F!LoopTop, F!LoopStops, F!StepEmpty, F!StepWaits, F!Discard, F!Destroy
<1>1. CASE F!LoopTop(g) \/ F!LoopStops(g)
      <2>1. /\ UNCHANGED <<room, task, ticking, destroyed>> /\ loop[g] \in {"top", "select"}
            /\ \E to \in {"select", "gone"} : loop' = [loop EXCEPT ![g] = to]
            BY <1>1 DEF F!LoopTop, F!LoopStops
      <2>2. \A h \in F!Gens : /\ loop'[h] = "apply" <=> loop[h] = "apply"
                              /\ Active(h)' => Active(h)
            BY <2>1 DEF WholeInv, LoopsOK, Active
      <2>3. OneLoop'  BY <1>0, <2>1, <2>2 DEF OneLoop
      <2>4. F!InCallback' = F!InCallback  BY <2>2 DEF F!InCallback
      <2>5. Covered'  BY <2>1, <2>4 DEF Covered
      <2> QED  BY <2>3, <2>5
<1>2. CASE F!StepEmpty(g) \/ F!Discard(g) \/ F!Destroy
      <2>1. /\ room' = room /\ destroyed' /\ ~ticking'
            /\ \A h \in F!Gens : loop'[h] = "apply" => loop[h] = "apply" /\ task'[h] = task[h]
            /\ \A h \in F!Gens : Active(h)' => Active(h)
            <3>1. CASE F!StepEmpty(g)
                  <4>1. /\ UNCHANGED <<room, task>> /\ loop[g] = "select"
                        /\ loop' = [loop EXCEPT ![g] = "top"]
                        /\ ticking' = (ticking /\ destroyed)
                        /\ destroyed' = (destroyed \/ AutoDestroy)
                        BY <3>1 DEF F!StepEmpty, F!ToTop, F!Ticks
                  <4> QED  BY <4>1 DEF WholeInv, LoopsOK, Active, OneLoop
            <3>2. CASE F!Discard(g)
                  <4>1. /\ UNCHANGED <<room, ticking, destroyed>> /\ loop[g] = "apply"
                        /\ ~F!Kept(g) /\ loop' = [loop EXCEPT ![g] = "top"]
                        /\ task' = [task EXCEPT ![g] = F!NoJob]
                        BY <3>2 DEF F!Discard, F!ToTop
                  <4>2. destroyed  BY <4>1 DEF F!Kept, OneLoop
                  <4> QED  BY <4>1, <4>2 DEF WholeInv, LoopsOK, Active, OneLoop
            <3>3. CASE F!Destroy
                  BY <3>3 DEF F!Destroy, Active
            <3> QED  BY <1>2, <3>1, <3>2, <3>3
      <2>2. OneLoop'  BY <1>0, <2>1 DEF OneLoop
      <2>3. Covered'  BY <2>1 DEF Covered
      <2> QED  BY <2>2, <2>3
<1>3. CASE F!StepWaits(g)
      <2>1. /\ UNCHANGED task /\ loop[g] = "select" /\ loop' = [loop EXCEPT ![g] = "top"]
            /\ ~destroyed
            /\ UNCHANGED <<ticking, destroyed>> \/ (destroyed' = TRUE /\ ticking' = FALSE)
            BY <1>3 DEF F!StepWaits, F!StepIdle, F!ToTop, F!Ticks
      <2>2. /\ room'.frame = room.frame /\ room'.history = room.history
            /\ room'.snap = room.snap
            <3>1. room \in RoomRecs  BY DEF WholeInv, RoomOK
            <3> QED  BY <1>3, <3>1 DEF F!StepWaits, F!StepIdle, RoomRecs
      <2>3. \A h \in F!Gens : /\ loop'[h] = "apply" <=> loop[h] = "apply"
                              /\ Active(h)' => Active(h)
            BY <2>1 DEF WholeInv, LoopsOK, Active
      <2>4. OneLoop'  BY <1>0, <2>1, <2>2, <2>3 DEF OneLoop
      <2>5. F!InCallback' = F!InCallback  BY <2>3 DEF F!InCallback
      <2> QED  BY <2>1, <2>2, <2>4, <2>5, StaysCovered
<1> QED  BY <1>1, <1>2, <1>3

LEMMA GoodAdvance ==
    ASSUME F!FrameRoomParams, WholeInv, OneLoop, Covered, NEW g \in F!Gens, F!StepAdvances(g)
    PROVE  OneLoop' /\ Covered'
<1>0. RoomOK  BY DEF WholeInv
<1>1. /\ room.frame \in Nat /\ F!Next1 = room.frame + 1
      /\ room'.frame = F!Next1 /\ room'.history = room.history /\ room'.snap = room.snap
      BY <1>0, AdvanceFields
<1>2. /\ UNCHANGED <<ticking, destroyed, loopGen>> /\ ~destroyed /\ loop[g] = "select"
      /\ loop' = [loop EXCEPT ![g] = "apply"]
      /\ task' = [task EXCEPT ![g] = [frame |-> F!Next1, gen |-> loopGen,
                                      lineage |-> lineage, who |-> room.players]]
      BY DEF F!StepAdvances, F!Ticks
<1>3. g = loopGen  BY <1>2 DEF OneLoop, Active
<1>4. F!InCallback = {}  BY <1>2, <1>3 DEF F!InCallback, OneLoop, Active
<1>5. \A h \in F!Gens : loop'[h] = IF h = g THEN "apply" ELSE loop[h]
      BY <1>2 DEF WholeInv, LoopsOK
<1>6. task'[g].frame = F!Next1 /\ task'[g].gen = loopGen
      BY <1>2 DEF WholeInv, LoopsOK
<1>7. OneLoop'  BY <1>1, <1>2, <1>3, <1>4, <1>5, <1>6 DEF OneLoop, Active, F!InCallback
<1>8. F!InCallback' # {}  BY <1>5 DEF F!InCallback
<1>9. Covered'
      <2> SUFFICES ASSUME room.snap # None
                   PROVE  /\ room.snap =< room.frame + 1 /\ room.snap % SnapshotEvery = 0
                          /\ room.frame + 1 =< room.snap + SnapshotEvery
                          /\ \A f \in (room.snap + 1)..(room.frame + 1) :
                                 f \in room.history \/ f = room.frame + 1
          BY <1>1, <1>2, <1>8 DEF Covered
      <2>1. /\ room.snap =< room.frame /\ room.snap % SnapshotEvery = 0
            /\ room.frame < room.snap + SnapshotEvery
            /\ \A f \in (room.snap + 1)..room.frame : f \in room.history
            BY <1>2, <1>4 DEF Covered
      <2>2. room.snap \in Nat /\ SnapshotEvery \in Nat
            BY <1>0 DEF RoomOK, RoomRecs, F!Frames, F!FrameRoomParams
      <2>3. /\ room.snap =< room.frame + 1
            /\ room.frame + 1 =< room.snap + SnapshotEvery
            BY <1>1, <2>1, <2>2
      <2>4. ASSUME NEW f \in (room.snap + 1)..(room.frame + 1), f # room.frame + 1
            PROVE  f \in room.history
            <3>1. f \in (room.snap + 1)..room.frame  BY <1>1, <2>2, <2>4
            <3> QED  BY <2>1, <3>1
      <2> QED  BY <2>1, <2>3, <2>4
<1> QED  BY <1>7, <1>9

LEMMA GoodCommit ==
    ASSUME F!FrameRoomParams, WholeInv, OneLoop, Covered, NEW g \in F!Gens, F!Commit(g)
    PROVE  OneLoop' /\ Covered'
<1> DEFINE f == room.frame
           H == room.history \cup {f}
           s == room.snap
<1>0. /\ f \in F!Frames /\ room'.frame = f /\ room'.history = F!Trimmed(H)
      /\ room'.snap = IF f % SnapshotEvery = 0 THEN f ELSE s
      BY CommitFields
<1>1. /\ UNCHANGED <<ticking, destroyed, loopGen>> /\ ~destroyed /\ loop[g] = "apply"
      /\ loop' = [loop EXCEPT ![g] = "top"] /\ task' = [task EXCEPT ![g] = F!NoJob]
      BY DEF F!Commit, F!ToTop, F!Kept
<1>2. g = loopGen /\ \A h \in F!Gens : Active(h) => h = g  BY <1>1 DEF OneLoop, Active
<1>3. \A h \in F!Gens : loop'[h] = IF h = g THEN "top" ELSE loop[h]
      BY <1>1 DEF WholeInv, LoopsOK
<1>4. \A h \in F!Gens : loop'[h] # "apply" /\ (Active(h)' => Active(h))
      BY <1>1, <1>2, <1>3 DEF Active
<1>5. OneLoop'  BY <1>1, <1>4 DEF OneLoop
<1>6. F!InCallback' = {}  BY <1>4 DEF F!InCallback
<1>7. /\ f \in Nat /\ SnapshotEvery \in Nat \ {0} /\ HistoryLimit \in Nat
      /\ SnapshotEvery <= HistoryLimit /\ H \subseteq 1..f /\ f \in H
      BY <1>0 DEF WholeInv, RoomOK, F!Frames, F!FrameRoomParams
<1>8. F!Trimmed(H) = {x \in H : x > f - HistoryLimit}
      BY <1>7, LastFrame DEF F!Trimmed
<1>9. Covered'
      <2>1. CASE f % SnapshotEvery = 0
            <3>1. room'.snap = f /\ (f + 1)..f = {}  BY <1>0, <1>7, <2>1
            <3> HIDE DEF f
            <3>2. f =< f /\ f =< f + SnapshotEvery /\ f < f + SnapshotEvery  BY <1>7
            <3> QED  BY <1>0, <2>1, <3>1, <3>2 DEF Covered
      <2>2. CASE f % SnapshotEvery # 0
            <3> SUFFICES ASSUME s # None
                         PROVE  /\ s =< f /\ s % SnapshotEvery = 0
                                /\ f =< s + SnapshotEvery /\ f < s + SnapshotEvery
                                /\ \A x \in (s + 1)..f : x \in F!Trimmed(H)
                BY <1>0, <2>2 DEF Covered
            <3>1. s \in Nat
                  BY DEF WholeInv, RoomOK, RoomRecs, F!Frames, F!FrameRoomParams
            <3>2. /\ s =< f /\ s % SnapshotEvery = 0 /\ f =< s + SnapshotEvery
                  /\ \A x \in (s + 1)..f : x \in H
                  BY <1>1 DEF Covered
            <3> HIDE DEF f, H, s
            <3>3. f # s + SnapshotEvery  BY <1>7, <2>2, <3>1, <3>2, NextMultiple
            <3>4. f < s + SnapshotEvery  BY <1>7, <3>1, <3>2, <3>3
            <3>5. \A x \in (s + 1)..f : x > f - HistoryLimit  BY <1>7, <3>1, <3>4
            <3> QED  BY <1>8, <3>2, <3>4, <3>5
      <2> QED  BY <2>1, <2>2
<1> QED  BY <1>5, <1>9

LEMMA HoleStep ==
    ASSUME F!FrameRoomParams, FrameInv, [F!FRNext]_(F!vars)
    PROVE  HoleInv'
<1>1. calm' = calm
      BY DEF F!FRNext, F!vars, F!Join, F!Reconnect, F!MarkDisconnected, F!Leave, F!Input,
             F!Destroy, F!ImportState, F!ImportAsNew, F!LoopTop, F!LoopStops, F!StepEmpty,
             F!StepWaits, F!StepAdvances, F!Discard, F!Commit
<1> SUFFICES ASSUME calm, AutoDestroy PROVE OneLoop' /\ Covered'  BY <1>1 DEF HoleInv
<1>2. WholeInv /\ OneLoop /\ Covered  BY DEF FrameInv, HoleInv
<1>3. CASE UNCHANGED F!vars
      BY <1>2, <1>3 DEF F!vars, OneLoop, Active, Covered, F!InCallback
<1>4. 1 \in F!Gens /\ 1 \in F!Frames  BY DEF F!Gens, F!Frames, F!FrameRoomParams
<1>5. ASSUME NEW p \in Fighters, F!Join(p) \/ F!Reconnect(p) \/ F!MarkDisconnected(p) \/ F!Leave(p)
      PROVE  OneLoop' /\ Covered'
      BY <1>2, <1>4, <1>5, GoodOperations
<1>6. ASSUME NEW p \in Fighters, NEW f \in F!Frames, F!Input(p, f) PROVE OneLoop' /\ Covered'
      BY <1>2, <1>6, GoodOperations
<1>7. CASE F!ImportState \/ F!ImportAsNew  BY <1>2, <1>7, GoodImport
<1>8. CASE F!Destroy  BY <1>2, <1>4, <1>8, GoodEnds
<1>9. ASSUME NEW g \in F!Gens,
             \/ F!LoopTop(g) \/ F!LoopStops(g) \/ F!StepEmpty(g) \/ F!StepWaits(g)
             \/ F!StepAdvances(g) \/ F!Discard(g) \/ F!Commit(g)
      PROVE  OneLoop' /\ Covered'
      BY <1>2, <1>9, GoodEnds, GoodAdvance, GoodCommit
<1> QED  BY <1>3, <1>5, <1>6, <1>7, <1>8, <1>9 DEF F!FRNext

LEMMA FrameStart ==
    ASSUME F!FrameRoomParams, F!FRInit PROVE FrameInv
<1>1. WholeInv  BY WholeStart
<1>2. loopGen = 0 /\ \A g \in F!Gens : loop[g] = "none"  BY DEF F!FRInit
<1>3. OneLoop  BY <1>2 DEF OneLoop, Active, F!FRInit
<1>4. room.snap = None  BY DEF F!FRInit, F!EmptyRoom
<1> QED  BY <1>1, <1>3, <1>4 DEF FrameInv, HoleInv, Covered

LEMMA FrameStep ==
    ASSUME F!FrameRoomParams, FrameInv, [F!FRNext]_(F!vars) PROVE FrameInv'
    BY WholeStep, HoleStep DEF FrameInv

LEMMA FrameMeans ==
    ASSUME F!FrameRoomParams, FrameInv
    PROVE  F!FRTypeOK /\ F!MembersAreOne /\ F!RecoveryHasNoHole
<1>1. RoomOK /\ MembersOK /\ LoopsOK  BY DEF FrameInv, WholeInv
<1>2. F!FRTypeOK  BY <1>1 DEF RoomOK, RoomRecs, LoopsOK, F!FRTypeOK
<1>3. F!MembersAreOne  BY <1>1 DEF MembersOK
<1>4. F!RecoveryHasNoHole
      <2> SUFFICES ASSUME calm, AutoDestroy, ticking, F!InCallback = {}, room.snap # None
                   PROVE  \A f \in (room.snap + 1)..room.frame : f \in room.history
          BY DEF F!RecoveryHasNoHole, F!HasNoHole
      <2>1. Covered /\ ~destroyed  BY DEF FrameInv, HoleInv, OneLoop
      <2> QED  BY <2>1 DEF Covered
<1> QED  BY <1>2, <1>3, <1>4

(* step, Join, Leave, Input, ImportState, for any players, limits and      *)
(* generations: whatever happens while the applier runs, only members have *)
(* a presence, inputs or a state of the room's own, and the metric counts  *)
(* them.                                                                   *)
THEOREM RoomsAreWhole == ASSUME F!FrameRoomParams PROVE F!FRSpec => []F!MembersAreOne
<1>1. F!FRInit => FrameInv  BY FrameStart
<1>2. FrameInv /\ [F!FRNext]_(F!vars) => FrameInv'  BY FrameStep
<1>3. FrameInv => F!MembersAreOne  BY FrameMeans
<1> QED  BY <1>1, <1>2, <1>3, PTL DEF F!FRSpec

(* Recovery, RecoveryPack, for any of them: outside a callback the frames  *)
(* of the pack follow its snapshot without a hole.                         *)
THEOREM PacksAreWhole == ASSUME F!FrameRoomParams PROVE F!FRSpec => []F!RecoveryHasNoHole
<1>1. F!FRInit => FrameInv  BY FrameStart
<1>2. FrameInv /\ [F!FRNext]_(F!vars) => FrameInv'  BY FrameStep
<1>3. FrameInv => F!RecoveryHasNoHole  BY FrameMeans
<1> QED  BY <1>1, <1>2, <1>3, PTL DEF F!FRSpec
================================================================================
