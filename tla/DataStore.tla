----------------------------- MODULE DataStore -----------------------------
(***************************************************************************)
(* The write-behind store of player data (internal/domain/data), for one   *)
(* key: process memory, Redis, MySQL and the dirty mark, used by handlers  *)
(* of requests, by the periodic flush and by the LRU eviction that other   *)
(* keys of the shard cause.  A value is the number of the save that wrote  *)
(* it.  Two of the storage tiers persist: "cached" (TierRedisMySQL: Redis  *)
(* first, MySQL behind) and "snapshot" (TierSnapshot: memory first while   *)
(* the player is online, Redis first while he is not).                     *)
(***************************************************************************)
EXTENDS Integers, FiniteSets

CONSTANTS
    Handlers,   \* goroutines of requests, which save, load, delete and leave
    Flushers,   \* goroutines of the periodic flush
    Evictors,   \* goroutines whose writes of other keys overfill the shard
    Tiers,      \* the tiers the key's schema may declare
    MaxSaves, MaxFaults  \* bounds: saves, failed calls of Redis and MySQL

Procs == Handlers \cup Flushers \cup Evictors

DataStoreParams ==
    /\ Tiers \subseteq {"cached", "snapshot"}
    /\ MaxSaves \in Nat \ {0} /\ MaxFaults \in Nat
    /\ Handlers \cap Flushers = {} /\ Handlers \cap Evictors = {} /\ Flushers \cap Evictors = {}

VARIABLES
    tier,       \* getTier of the key
    mem,        \* the shard's entry in process memory
    redis,      \* the key in Redis
    mysql,      \* the row in MySQL
    dirty,      \* the key's dirty mark
    online,     \* the player is in the store's online set
    pc,         \* where each goroutine stands
    val,        \* the value it is to write to MySQL
    row,        \* the row a load has read
    back,       \* where persistDirty, called on the way, returns to
    result,     \* what a handler's last load returned
    written,    \* saves so far
    newest,     \* the last value saved; Unknown after a failed delete
    faults,
    overlap     \* calls have met that the store does not keep apart (a history)

places == <<mem, redis, mysql, dirty, online>>
hands  == <<pc, val, row, back, result>>
vars   == <<tier, places, hands, written, newest, faults, overlap>>

Nothing == 0        \* no entry, no row, not found
Unknown == -1       \* a delete failed half way and its caller has to repeat it
Values  == 0 .. MaxSaves

Snapshot == tier = "snapshot"
ViaMem   == Snapshot /\ online

(* From the clearing of a dirty mark or of an entry to the end of the call *)
(* to MySQL that goes with it.  Calls meet when a write of the key begins, *)
(* or its entry is evicted, while another write of it is under way; when   *)
(* the entry is evicted before a save has marked it; and when a load of    *)
(* the memory misses the entry because it is being evicted.                *)
Writing == {"read", "exec", "evict", "deleted", "uncached", "removed", "removedDirty"}
Alone(p) == \A q \in Procs \ {p} : pc[q] \notin Writing
Evicting == \E p \in Evictors : pc[p] # "idle"
Unmarked == \E h \in Handlers : pc[h] = "mark"

Init ==
    /\ tier \in Tiers /\ mem = Nothing /\ mysql = 1 /\ dirty = FALSE /\ online = FALSE
    /\ redis \in (IF tier = "cached" THEN {Nothing, 1} ELSE {Nothing})
    /\ pc = [p \in Procs |-> "idle"] /\ val = [p \in Procs |-> Nothing]
    /\ row = [h \in Handlers |-> Nothing]
    /\ back = [p \in Procs |-> "idle"] /\ result = [h \in Handlers |-> 1]
    /\ written = 1 /\ newest = 1 /\ faults = 0 /\ overlap = FALSE

Go(p, to) == pc' = [pc EXCEPT ![p] = to]
Take(p, v) == val' = [val EXCEPT ![p] = v]
ReadRow(h, v) == row' = [row EXCEPT ![h] = v]
Return(h, v) ==
    /\ result' = [result EXCEPT ![h] = v]
    /\ pc' = [pc EXCEPT ![h] = "idle"] /\ row' = [row EXCEPT ![h] = Nothing]

(* A call to Redis or MySQL fails.                                         *)
Fault == faults < MaxFaults /\ faults' = faults + 1

-----------------------------------------------------------------------------
(* Save, SetOnline *)

(* The online set is asked before the value is written.                    *)
SaveBegin(h) ==
    /\ pc[h] = "idle" /\ written < MaxSaves
    /\ Go(h, IF ViaMem THEN "putMem" ELSE "putRedis")
    /\ UNCHANGED <<tier, overlap, places, val, row, back, result, written, newest, faults>>

SavePut(h) ==
    /\ pc[h] \in {"putMem", "putRedis"}
    /\ IF pc[h] = "putMem" THEN mem' = written + 1 /\ UNCHANGED redis
                           ELSE redis' = written + 1 /\ UNCHANGED mem
    /\ written' = written + 1 /\ newest' = written + 1
    /\ Go(h, "mark")
    /\ UNCHANGED <<tier, overlap, mysql, dirty, online, val, row, back, result, faults>>

SaveMark(h) ==
    /\ pc[h] = "mark"
    /\ dirty' = TRUE
    /\ Go(h, "idle")
    /\ UNCHANGED <<tier, overlap, mem, redis, mysql, online, val, row, back, result, written, newest, faults>>

Enter(h) ==
    /\ pc[h] = "idle" /\ Snapshot /\ ~online
    /\ online' = TRUE
    /\ UNCHANGED <<tier, overlap, mem, redis, mysql, dirty, hands, written, newest, faults>>

-----------------------------------------------------------------------------
(* persistDirty: the mark is cleared first, then the value is read, then   *)
(* written to MySQL; a failure puts the mark back.                         *)

Persist(p, to) ==
    /\ dirty
    /\ dirty' = FALSE
    /\ back' = [back EXCEPT ![p] = to]
    /\ IF Snapshot /\ mem # Nothing THEN Go(p, "exec") /\ Take(p, mem)
                                 ELSE Go(p, "read") /\ UNCHANGED val
    /\ overlap' = (overlap \/ ~Alone(p))
    /\ UNCHANGED <<tier, mem, redis, mysql, online, row, result, written, newest, faults>>

(* Back to the caller.  getCache returns the row it has when the flush     *)
(* failed; everybody else goes on.                                         *)
Persisted(p) == Go(p, back[p]) /\ Take(p, Nothing) /\ UNCHANGED <<row, result>>
PersistFailed(p) ==
    /\ IF back[p] = "reread" /\ row[p] # Nothing
          THEN Return(p, row[p])
          ELSE Go(p, back[p]) /\ UNCHANGED <<row, result>>
    /\ Take(p, Nothing)

Source == IF Snapshot /\ mem # Nothing THEN mem ELSE redis

PersistRead(p) ==
    /\ pc[p] = "read"
    /\ \/ /\ Source # Nothing /\ Go(p, "exec") /\ Take(p, Source)
          /\ UNCHANGED <<dirty, row, result, faults>>
       \/ /\ Source = Nothing /\ PersistFailed(p)
          /\ UNCHANGED <<dirty, faults>>
       \/ /\ Fault /\ dirty' = TRUE /\ PersistFailed(p)
    /\ UNCHANGED <<tier, overlap, mem, redis, mysql, online, back, written, newest>>

(* Mutation: a failed upsert does not mark the key again. *)
PersistExecForgets(p) ==
    /\ pc[p] = "exec"
    /\ \/ mysql' = val[p] /\ Persisted(p) /\ UNCHANGED faults
       \/ Fault /\ PersistFailed(p) /\ UNCHANGED mysql
    /\ UNCHANGED <<tier, overlap, mem, redis, dirty, online, back, written, newest>>

PersistExec(p) ==
    /\ pc[p] = "exec"
    /\ \/ /\ mysql' = val[p] /\ Persisted(p)
          /\ UNCHANGED <<dirty, faults>>
       \/ /\ Fault /\ dirty' = TRUE /\ PersistFailed(p)
          /\ UNCHANGED mysql
    /\ UNCHANGED <<tier, overlap, mem, redis, online, back, written, newest>>

(* Mutation: the flush asks for the tier of another schema. *)
FlushGated(p) == pc[p] = "idle" /\ Snapshot /\ Persist(p, "idle")

Flush(p) == pc[p] = "idle" /\ Persist(p, "idle")

(* The player leaves: FlushPlayer, then SetOffline.                        *)
Leave(h) ==
    /\ pc[h] = "idle" /\ online
    /\ \/ Persist(h, "offline")
       \/ /\ ~dirty /\ Go(h, "offline")
          /\ UNCHANGED <<tier, overlap, places, val, row, back, result, written, newest, faults>>

SetOffline(h) ==
    /\ pc[h] = "offline"
    /\ online' = FALSE
    /\ Go(h, "idle")
    /\ UNCHANGED <<tier, overlap, mem, redis, mysql, dirty, val, row, back, result, written, newest, faults>>

-----------------------------------------------------------------------------
(* Load: getCache, getMMO, and LoadAll restricted to the key *)

(* Mutation: a bulk load asks MySQL first. *)
LoadRedisBehind(h, all) ==
    /\ pc[h] = "idle" /\ (all \/ ~ViaMem)
    /\ IF all /\ mysql # Nothing THEN Return(h, mysql)
       ELSE IF redis # Nothing THEN Return(h, redis)
       ELSE IF all /\ Snapshot /\ mem # Nothing THEN Return(h, mem)
       ELSE Go(h, IF all THEN "sourced" ELSE "source") /\ UNCHANGED <<row, result>>
    /\ UNCHANGED <<tier, overlap, places, val, back, written, newest, faults>>

(* getCache and LoadAll ask Redis first; LoadAll then asks the memory.     *)
LoadRedis(h, all) ==
    /\ pc[h] = "idle" /\ (all \/ ~ViaMem)
    /\ IF redis # Nothing THEN Return(h, redis)
       ELSE IF all /\ Snapshot /\ mem # Nothing THEN Return(h, mem)
       ELSE Go(h, IF all THEN "sourced" ELSE "source") /\ UNCHANGED <<row, result>>
    /\ UNCHANGED <<tier, overlap, places, val, back, written, newest, faults>>

LoadSource(h) ==
    /\ pc[h] = "source"
    /\ IF mysql = Nothing THEN Return(h, Nothing)
       ELSE Go(h, "sourced") /\ ReadRow(h, mysql) /\ UNCHANGED result
    /\ UNCHANGED <<tier, overlap, places, val, back, written, newest, faults>>

(* A dirty key is flushed, and its row read again, before it is filled in. *)
LoadDirtyTest(h) ==
    /\ pc[h] = "sourced"
    /\ \/ Persist(h, "reread")
       \/ /\ ~dirty /\ Go(h, IF row[h] = Nothing THEN "reread" ELSE "fill")
          /\ UNCHANGED <<tier, overlap, places, val, row, back, result, written, newest, faults>>

LoadReread(h) ==
    /\ pc[h] = "reread"
    /\ IF mysql = Nothing THEN Return(h, Nothing)
       ELSE Go(h, "fill") /\ ReadRow(h, mysql) /\ UNCHANGED result
    /\ UNCHANGED <<tier, overlap, places, val, back, written, newest, faults>>

LoadFill(h) ==
    /\ pc[h] = "fill"
    /\ redis' = row[h]
    /\ Return(h, row[h])
    /\ UNCHANGED <<tier, overlap, mem, mysql, dirty, online, val, back, written, newest, faults>>

(* getMMO: the memory, Redis, MySQL; then the memory again, and the mark.  *)
LoadMem(h) ==
    /\ pc[h] = "idle" /\ ViaMem
    /\ IF mem # Nothing THEN Return(h, mem) /\ UNCHANGED overlap
       ELSE /\ Go(h, "cold") /\ UNCHANGED <<row, result>>
            /\ overlap' = (overlap \/ Evicting)
    /\ UNCHANGED <<tier, places, val, back, written, newest, faults>>

LoadCold(h) ==
    /\ pc[h] = "cold"
    /\ IF redis # Nothing THEN Go(h, "fillMem") /\ ReadRow(h, redis) /\ UNCHANGED result
       ELSE Go(h, "coldSource") /\ UNCHANGED <<row, result>>
    /\ UNCHANGED <<tier, overlap, places, val, back, written, newest, faults>>

LoadColdSource(h) ==
    /\ pc[h] = "coldSource"
    /\ IF mysql = Nothing THEN Return(h, Nothing)
       ELSE Go(h, "recheck") /\ ReadRow(h, mysql) /\ UNCHANGED result
    /\ UNCHANGED <<tier, overlap, places, val, back, written, newest, faults>>

LoadRecheck(h) ==
    /\ pc[h] = "recheck"
    /\ IF mem # Nothing THEN Return(h, mem)
       ELSE IF dirty THEN Return(h, row[h])
       ELSE Go(h, "fillMem") /\ UNCHANGED <<row, result>>
    /\ UNCHANGED <<tier, overlap, places, val, back, written, newest, faults>>

LoadFillMem(h) ==
    /\ pc[h] = "fillMem"
    /\ mem' = row[h]
    /\ Return(h, row[h])
    /\ UNCHANGED <<tier, overlap, redis, mysql, dirty, online, val, back, written, newest, faults>>

-----------------------------------------------------------------------------
(* evictLRU, when the key is the oldest of an overfull shard: a clean      *)
(* entry is dropped; a dirty one is taken out, written to MySQL, and put   *)
(* back if that fails.                                                     *)

Evict(p) ==
    /\ pc[p] = "idle" /\ Snapshot /\ mem # Nothing
    /\ mem' = Nothing
    /\ IF dirty THEN Go(p, "evict") /\ Take(p, mem) ELSE UNCHANGED <<pc, val>>
    /\ dirty' = FALSE
    /\ overlap' = (overlap \/ ~Alone(p) \/ Unmarked)
    /\ UNCHANGED <<tier, redis, mysql, online, row, back, result, written, newest, faults>>

EvictExec(p) ==
    /\ pc[p] = "evict"
    /\ \/ /\ mysql' = val[p]
          /\ UNCHANGED <<mem, dirty, faults>>
       \/ /\ Fault
          /\ mem' = (IF mem = Nothing THEN val[p] ELSE mem)
          /\ dirty' = TRUE
          /\ UNCHANGED mysql
    /\ Go(p, "idle") /\ Take(p, Nothing)
    /\ UNCHANGED <<tier, overlap, redis, online, row, back, result, written, newest>>

-----------------------------------------------------------------------------
(* Delete *)

(* TierRedisMySQL: the row, then the cache, then the mark.                 *)
DeleteRow(h) ==
    /\ pc[h] = "idle" /\ ~Snapshot /\ newest # Nothing
    /\ mysql' = Nothing /\ newest' = Unknown
    /\ Go(h, "deleted")
    /\ overlap' = (overlap \/ ~Alone(h))
    /\ UNCHANGED <<tier, mem, redis, dirty, online, val, row, back, result, written, faults>>

DeleteCache(h) ==
    /\ pc[h] = "deleted"
    /\ \/ /\ redis' = Nothing /\ Go(h, "uncached")
          /\ UNCHANGED <<dirty, faults>>
       \/ /\ Fault /\ dirty' = FALSE /\ Go(h, "idle")
          /\ UNCHANGED redis
    /\ UNCHANGED <<tier, overlap, mem, mysql, online, val, row, back, result, written, newest>>

DeleteUnmark(h) ==
    /\ pc[h] = "uncached"
    /\ dirty' = FALSE /\ newest' = Nothing
    /\ Go(h, "idle")
    /\ UNCHANGED <<tier, overlap, mem, redis, mysql, online, val, row, back, result, written, faults>>

(* TierSnapshot, delMMO: the entry and the mark under the lock, then the   *)
(* row, then Redis; if the row stays, the entry and the mark come back.    *)
RemoveEntry(h) ==
    /\ pc[h] = "idle" /\ Snapshot /\ newest # Nothing
    /\ Go(h, IF dirty THEN "removedDirty" ELSE "removed") /\ Take(h, mem)
    /\ mem' = Nothing /\ dirty' = FALSE
    /\ overlap' = (overlap \/ ~Alone(h))
    /\ UNCHANGED <<tier, redis, mysql, online, row, back, result, written, newest, faults>>

RemoveRow(h) ==
    /\ pc[h] \in {"removed", "removedDirty"}
    /\ \/ /\ mysql' = Nothing /\ newest' = Unknown
          /\ Go(h, "uncache")
          /\ UNCHANGED <<mem, dirty, faults>>
       \/ /\ Fault
          /\ mem' = (IF mem = Nothing THEN val[h] ELSE mem)
          /\ dirty' = (dirty \/ pc[h] = "removedDirty")
          /\ Go(h, "idle")
          /\ UNCHANGED <<mysql, newest>>
    /\ Take(h, Nothing)
    /\ UNCHANGED <<tier, overlap, redis, online, row, back, result, written>>

RemoveRedis(h) ==
    /\ pc[h] = "uncache"
    /\ \/ redis' = Nothing /\ newest' = (IF newest = Unknown THEN Nothing ELSE newest) /\ UNCHANGED faults
       \/ Fault /\ UNCHANGED <<redis, newest>>
    /\ Go(h, "idle")
    /\ UNCHANGED <<tier, overlap, mem, mysql, dirty, online, val, row, back, result, written>>

-----------------------------------------------------------------------------
Handle(h) ==
    \/ SaveBegin(h) \/ Enter(h) \/ Flush(h) \/ Leave(h)
    \/ LoadRedis(h, FALSE) \/ LoadRedis(h, TRUE) \/ LoadMem(h)
    \/ DeleteRow(h) \/ RemoveEntry(h)

(* What a goroutine that is in a call does next.                           *)
Continue(h) ==
    \/ SavePut(h) \/ SaveMark(h) \/ PersistRead(h) \/ PersistExec(h) \/ SetOffline(h)
    \/ LoadSource(h) \/ LoadDirtyTest(h) \/ LoadReread(h) \/ LoadFill(h)
    \/ LoadCold(h) \/ LoadColdSource(h) \/ LoadRecheck(h) \/ LoadFillMem(h)
    \/ DeleteCache(h) \/ DeleteUnmark(h) \/ RemoveRow(h) \/ RemoveRedis(h)

Background(p) == Flush(p) \/ PersistRead(p) \/ PersistExec(p)

Next ==
    \/ \E h \in Handlers : Handle(h) \/ Continue(h)
    \/ \E p \in Flushers : Background(p)
    \/ \E p \in Evictors : Evict(p) \/ EvictExec(p)

Spec == Init /\ [][Next]_vars

(* Calls return; the ticker of the periodic flush goes on.                 *)
FairSpec ==
    /\ Spec
    /\ \A h \in Handlers : WF_vars(Continue(h))
    /\ \A p \in Flushers : WF_vars(Background(p))
    /\ \A p \in Evictors : WF_vars(EvictExec(p))

-----------------------------------------------------------------------------
(* Types *)
DSTypeOK ==
    /\ tier \in Tiers /\ {mem, redis, mysql} \subseteq Values
    /\ dirty \in BOOLEAN /\ online \in BOOLEAN
    /\ val \in [Procs -> Values] /\ row \in [Handlers -> Values] /\ result \in [Handlers -> Values]
    /\ written \in 1 .. MaxSaves /\ newest \in Values \cup {Unknown} /\ faults \in 0 .. MaxFaults

(* TierSnapshot with a copy of the key in Redis, left by a save or a load  *)
(* while the player was offline: from then on the copies diverge (README). *)
Detour == Snapshot /\ redis # Nothing

(* The last saved value is never only where nobody will persist it from:   *)
(* it is in MySQL, or a goroutine is on its way to write it there, or the  *)
(* place that the next flush reads holds it and is, or is about to be,     *)
(* marked (Save, persistDirty, evictLRU, delMMO).                          *)
NewestIsHeld ==
    \/ newest = Unknown \/ Detour
    \/ mysql = newest
    \/ \E p \in Procs : pc[p] \in {"exec", "evict", "removedDirty"} /\ val[p] = newest
    \/ /\ Source = newest
       /\ dirty \/ \E p \in Procs : pc[p] \in {"mark", "read"}

(* So it is until calls meet that the store does not keep apart.           *)
NewestIsSafe == overlap \/ NewestIsHeld

FreshLoads == ~overlap' => \A h \in Handlers :
    result'[h] # result[h] /\ newest # Unknown /\ ~Snapshot => result'[h] = newest

(* A load of a cached key returns what the last completed save wrote, as   *)
(* long as one goroutine at a time saves and loads it (getCache).          *)
LoadIsFresh == [][FreshLoads]_vars

(* The same for a key of TierSnapshot, whose player goes on and off line.  *)
SnapshotLoadIsFresh ==
    [][\A h \in Handlers :
          result'[h] # result[h] /\ newest # Unknown => result'[h] = newest]_vars

(* Once the saves and the failures end, MySQL ends up with the last value. *)
Durable == overlap \/ newest = Unknown \/ Detour \/ mysql = newest
DurableInTheEnd == <>[]Durable
=============================================================================
