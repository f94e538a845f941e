--------------------------- MODULE GameStateProof ---------------------------
(***************************************************************************)
(* What is proved of the state a game process keeps: the data it saves,    *)
(* the numbers it gives its objects, and the views of its scenes.          *)
(*                                                                         *)
(* DataStore: for any number of flushes and evictions beside the requests  *)
(* of a key, any tiers, saves and faults, the last saved value is never    *)
(* only where nobody will persist it from, and a load of a cached key      *)
(* returns it, until calls meet that the store does not keep apart.  The   *)
(* argument: up to then the copy a flush reads is the last value or is     *)
(* missing while MySQL, or who is on the way there, has it (Copied); what  *)
(* a goroutine carries to MySQL is the last value, or that one waits,      *)
(* marked, to be written after it (Carried).                               *)
(*                                                                         *)
(* IdGenerator: for any nodes, segment length, block sizes and limits an   *)
(* object number is handed out twice only by a node whose process ended    *)
(* while its last ceiling was not in the store.  What has been handed out  *)
(* lies at or below the point each other node goes on from (Below),        *)
(* because the store's ceiling is behind the memory's only after a Save    *)
(* that failed (Backed).                                                   *)
(*                                                                         *)
(* SceneView: for any goroutines, objects, places, views and sizes of the  *)
(* grid every window closes.  The scene's depth counts the windows each    *)
(* goroutine has open (WindowsCounted).  For one goroutine at a time, a    *)
(* scene at rest has the clients show what is within each watcher's view,  *)
(* but for the events whose publication failed.                            *)
(* Who is not marked sees what is there (GridSound): the circle an object  *)
(* leaves or enters marks whoever it concerns, because maxR bounds every   *)
(* view.  What a client was not told yet has gathered (ClientSound).       *)
(***************************************************************************)
EXTENDS DataStore, FiniteSets, FiniteSetTheorems, TLAPS

CONSTANTS Nodes, Radix, MaxCounter, Limit, Step, Sizes
VARIABLES stored, loaded, hwm, ceiling, given, repeated, unsaved, forgot
G == INSTANCE IdGenerator

(* One goroutine's requests of the key, one after the other.               *)
StoreParams == DataStoreParams /\ \E h : Handlers = {h}

-----------------------------------------------------------------------------
(* The copy that a save goes to and a flush reads, but for the detour. *)
Held == IF Snapshot THEN mem ELSE redis
Waits == Held = newest /\ Held # Nothing
Marked == dirty \/ \E p \in Procs : pc[p] = "mark"

Placed ==
    /\ pc = [p \in Procs |-> pc[p]] /\ back = [p \in Procs |-> back[p]]
    /\ \A p \in Flushers : pc[p] \in {"idle", "read", "exec"} /\ back[p] = "idle"
    /\ \A p \in Evictors : pc[p] \in {"idle", "evict"}
    /\ \A h \in Handlers : pc[h] # "evict" /\ back[h] \in {"idle", "offline", "reread"}
Typed ==
    /\ tier \in Tiers /\ dirty \in BOOLEAN /\ online \in BOOLEAN
    /\ mem \in Values /\ redis \in Values /\ mysql \in Values
    /\ val \in [Procs -> Values] /\ row \in [Handlers -> Values] /\ result \in [Handlers -> Values]
    /\ newest \in Values \union {Unknown}
Counted ==
    /\ written \in 1 .. MaxSaves /\ faults \in 0 .. MaxFaults
    /\ \A h \in Handlers : pc[h] \in {"putMem", "putRedis"} => written < MaxSaves

Loading(h) == \/ pc[h] \in {"source", "sourced", "reread", "fill"}
              \/ pc[h] \in {"read", "exec"} /\ back[h] = "reread"
LooksUp == {"cold", "coldSource", "recheck", "fillMem"}
Mutex ==
    /\ \A p, q \in Procs : pc[p] \in Writing /\ pc[q] \in Writing => p = q
    /\ \A h \in Handlers, p \in Evictors : pc[h] \in LooksUp => pc[p] = "idle"

SnapPhases == {"putMem", "cold", "coldSource", "recheck", "fillMem", "removed", "removedDirty",
               "uncache", "evict"}
Fits(p) ==
    /\ pc[p] \in SnapPhases => Snapshot
    /\ pc[p] \in {"deleted", "uncached"} => ~Snapshot
InTier ==
    /\ ~Snapshot => mem = Nothing
    /\ \A p \in Procs : Fits(p)
    /\ \A h \in Handlers : Loading(h) /\ ~Snapshot => redis = Nothing

Steady(p) ==
    /\ pc[p] \in {"exec", "evict"} => val[p] # Nothing
    /\ pc[p] \in {"removed", "removedDirty", "uncache"} => mem = Nothing /\ ~dirty
    /\ pc[p] \in {"deleted", "uncached", "uncache"} => newest = Unknown /\ mysql = Nothing
    /\ pc[p] = "uncached" => redis = Nothing
    /\ pc[p] = "uncache" => \A q \in Procs : pc[q] \notin Writing
    /\ pc[p] = "removedDirty" => newest # Nothing
RowKept(h) ==
    /\ pc[h] = "fill" => row[h] # Nothing
    /\ row[h] # Nothing => Loading(h) \/ pc[h] \in {"recheck", "fillMem"}
Standing == (\A p \in Procs : Steady(p)) /\ (\A h \in Handlers : RowKept(h))
Missed == \A h \in Handlers : pc[h] \in LooksUp => mem = Nothing

Copied == \/ Held = newest
          \/ Held = Nothing /\ mysql = newest
          \/ Held = Nothing /\ \E p \in Procs : pc[p] \in {"evict", "removedDirty"} /\ val[p] = newest
Carried == \A p \in Procs :
    /\ pc[p] = "exec" => val[p] = newest \/ (Waits /\ Marked)
    /\ pc[p] = "evict" => (val[p] = newest /\ mem = Nothing) \/ (Waits /\ Marked)
    /\ pc[p] = "mark" => Waits
    /\ pc[p] \in {"removed", "removedDirty"} => val[p] \in {Nothing, newest}
Rows == \A h \in Handlers :
    /\ ~Snapshot => row[h] \in {Nothing, newest}
    /\ ~Snapshot /\ pc[h] = "fill" => row[h] = newest
    /\ pc[h] \in {"recheck", "fillMem"} => row[h] = newest
Safe ==
    \/ mysql = newest
    \/ \E p \in Procs : pc[p] \in {"exec", "evict", "removedDirty"} /\ val[p] = newest
    \/ Waits /\ (Marked \/ \E p \in Procs : pc[p] = "read")

Kept == Copied /\ Carried /\ Rows /\ Safe
StoreTypes == Placed /\ Typed /\ Counted
Apart ==
    /\ StoreTypes /\ Mutex /\ InTier /\ Standing /\ Missed
    /\ newest = Unknown \/ Detour \/ Kept
StoreInv == StoreTypes /\ (~overlap => Apart)
-----------------------------------------------------------------------------
(* A goroutine goes on, and the others stay where they are.                *)
LEMMA Moved ==
    ASSUME Placed, NEW p \in Procs, NEW to, Go(p, to)
    PROVE  /\ pc' = [q \in Procs |-> pc'[q]] /\ pc'[p] = to
           /\ \A q \in Procs : q # p => pc'[q] = pc[q]
    BY DEF Placed, Go

(* With one handler, and the writes of its key one after the other.        *)
LEMMA OnlyOne ==
    ASSUME StoreParams, NEW h \in Handlers
    PROVE  /\ h \in Procs /\ h \notin Flushers /\ h \notin Evictors
           /\ \A g \in Handlers : g = h
           /\ \A q \in Procs : q # h => q \in Flushers \/ q \in Evictors
    BY DEF StoreParams, DataStoreParams, Procs

(* A step between phases that have to do with neither the copies nor the   *)
(* marks leaves the promise alone.                                         *)
Hot == {"mark", "read", "exec", "evict", "removed", "removedDirty"}
LEMMA QuietKeeps ==
    ASSUME Copied, Carried, Safe, UNCHANGED <<tier, mem, redis, mysql, dirty, val, newest>>,
           \A p \in Procs : pc'[p] # pc[p] => pc[p] \notin Hot /\ pc'[p] \notin Hot
    PROVE  Copied' /\ Carried' /\ Safe'
<1>1. \A p \in Procs : \A x \in Hot : pc'[p] = x <=> pc[p] = x  OBVIOUS
<1>2. Held' = Held /\ (Waits' <=> Waits) /\ (Marked' <=> Marked)
      BY <1>1 DEF Held, Waits, Marked, Snapshot, Hot
<1> QED  BY <1>1, <1>2 DEF Copied, Carried, Safe, Hot

-----------------------------------------------------------------------------
(* Each part of the invariant is kept by every step. *)
LEMMA PlacedKept == ASSUME StoreParams, StoreTypes, Next PROVE Placed'
<1> USE DEF StoreTypes, Placed, Procs, Go
<1>1. ASSUME NEW h \in Handlers, Handle(h) PROVE Placed'
      BY <1>1, OnlyOne DEF Handle, SaveBegin, Enter, Flush, Leave, LoadRedis, LoadMem,
         DeleteRow, RemoveEntry, Persist, Return, places, hands
<1>2. ASSUME NEW h \in Handlers, Continue(h) PROVE Placed'
      BY <1>2, OnlyOne DEF Continue, SavePut, SaveMark, SetOffline, PersistRead,
         PersistExec, LoadSource, LoadDirtyTest, LoadReread, LoadFill, LoadCold,
         LoadColdSource, LoadRecheck, LoadFillMem, DeleteCache, DeleteUnmark, RemoveRow,
         RemoveRedis, Persist, Persisted, PersistFailed, Return, places, hands
<1>3. ASSUME NEW p \in Flushers, Background(p) PROVE Placed'
      BY <1>3 DEF StoreParams, DataStoreParams, Background, Flush, PersistRead, PersistExec,
         Persist, Persisted, PersistFailed, Return, places, hands
<1>4. ASSUME NEW p \in Evictors, Evict(p) \/ EvictExec(p) PROVE Placed'
      BY <1>4 DEF StoreParams, DataStoreParams, Evict, EvictExec
<1> QED  BY <1>1, <1>2, <1>3, <1>4 DEF Next

LEMMA CountedKept == ASSUME StoreParams, StoreTypes, Next PROVE Counted'
<1>1. /\ MaxSaves \in Nat /\ MaxFaults \in Nat /\ written \in 1 .. MaxSaves
      /\ faults \in 0 .. MaxFaults
      BY DEF StoreParams, DataStoreParams, StoreTypes, Counted
<1>2. faults' = faults \/ (faults < MaxFaults /\ faults' = faults + 1)
      BY DEF Next, Handle, Continue, Background, Evict, EvictExec, SaveBegin, Enter, Flush,
         Leave, LoadRedis, LoadMem, DeleteRow, RemoveEntry, SavePut, SaveMark, SetOffline,
         PersistRead, PersistExec, LoadSource, LoadDirtyTest, LoadReread, LoadFill,
         LoadCold, LoadColdSource, LoadRecheck, LoadFillMem, DeleteCache, DeleteUnmark,
         RemoveRow, RemoveRedis, Persist, Persisted, PersistFailed, Return, places, hands,
         vars, Fault
<1>3. faults' \in 0 .. MaxFaults  BY <1>1, <1>2
<1>4. ASSUME NEW h \in Handlers, SavePut(h) PROVE Counted'
      <2>1. written < MaxSaves /\ written' = written + 1  BY <1>4 DEF SavePut, StoreTypes, Counted
      <2>2. written' \in 1 .. MaxSaves  BY <1>1, <2>1
      <2>3. pc'[h] = "mark" /\ \A g \in Handlers : g = h
            BY <1>4, OnlyOne DEF SavePut, StoreTypes, Placed, Go
      <2> QED  BY <1>3, <2>2, <2>3 DEF Counted
<1>5. ASSUME NEW h \in Handlers, SaveBegin(h) PROVE Counted'
      BY <1>1, <1>3, <1>5, OnlyOne DEF SaveBegin, Counted
<1>6. ASSUME UNCHANGED written, \A h \in Handlers : pc'[h] \in {"putMem", "putRedis"} => pc'[h] = pc[h]
      PROVE  Counted'
      BY <1>3, <1>6 DEF StoreTypes, Counted
<1>7. ASSUME NEW h \in Handlers, Handle(h) PROVE Counted'
      BY <1>5, <1>6, <1>7, OnlyOne DEF Handle, SaveBegin, Enter, Flush, Leave, LoadRedis,
         LoadMem, DeleteRow, RemoveEntry, Persist, Return, places, hands, StoreTypes, Placed,
         Go
<1>8. ASSUME NEW h \in Handlers, Continue(h) PROVE Counted'
      BY <1>4, <1>6, <1>8, OnlyOne DEF Continue, SavePut, SaveMark, SetOffline, PersistRead,
         PersistExec, LoadSource, LoadDirtyTest, LoadReread, LoadFill, LoadCold,
         LoadColdSource, LoadRecheck, LoadFillMem, DeleteCache, DeleteUnmark, RemoveRow,
         RemoveRedis, Persist, Persisted, PersistFailed, Return, places, hands, StoreTypes,
         Placed, Go
<1>9. ASSUME NEW p \in Flushers, Background(p) PROVE Counted'
      BY <1>6, <1>9 DEF StoreParams, DataStoreParams, Background, Flush, PersistRead,
         PersistExec, Persist, Persisted, PersistFailed, Return, places, hands, StoreTypes,
         Placed, Procs, Go
<1>10. ASSUME NEW p \in Evictors, Evict(p) \/ EvictExec(p) PROVE Counted'
      BY <1>6, <1>10 DEF StoreParams, DataStoreParams, Evict, EvictExec, StoreTypes, Placed,
         Procs, Go
<1> QED  BY <1>7, <1>8, <1>9, <1>10 DEF Next

(* Who begins to write finds nobody writing, a load that misses the memory *)
(* no eviction under way, and who evicts nobody who looks for the entry.   *)
Turn(p) ==
    /\ \A q \in Procs : q # p => pc'[q] = pc[q]
    /\ pc'[p] \in Writing => pc[p] \in Writing \/ \A q \in Procs \ {p} : pc[q] \notin Writing
    /\ p \in Handlers /\ pc'[p] \in LooksUp => pc[p] \in LooksUp \/ \A e \in Evictors : pc[e] = "idle"
    /\ p \in Evictors /\ pc'[p] # "idle" => \A h \in Handlers : pc[h] \notin LooksUp
LEMMA TurnKeeps == ASSUME StoreParams, Mutex, NEW p \in Procs, Turn(p) PROVE Mutex'
    BY DEF StoreParams, DataStoreParams, Mutex, Turn, Procs

LEMMA MutexKept == ASSUME StoreParams, Apart, Next, ~overlap' PROVE Mutex'
<1> USE DEF StoreTypes, Placed, Turn, Writing, LooksUp, Alone, Evicting, Go
<1>1. ASSUME NEW h \in Handlers, Handle(h) PROVE Turn(h)
      <2>1. h \in Procs /\ h \notin Evictors /\ Placed  BY OnlyOne DEF Apart
      <2>2. CASE LoadMem(h)  BY <2>1, <2>2 DEF LoadMem, Return
      <2>3. CASE \E to : Persist(h, to)  BY <2>1, <2>3 DEF Persist
      <2>4. CASE DeleteRow(h) \/ RemoveEntry(h)  BY <2>1, <2>4 DEF DeleteRow, RemoveEntry
      <2>5. CASE SaveBegin(h) \/ Enter(h) \/ (Leave(h) /\ ~dirty)
            BY <2>1, <2>5 DEF SaveBegin, Enter, Leave, Persist, hands
      <2>6. CASE LoadRedis(h, TRUE) \/ LoadRedis(h, FALSE)
            BY <2>1, <2>6 DEF LoadRedis, Return
      <2> QED  BY <1>1, <2>2, <2>3, <2>4, <2>5, <2>6 DEF Handle, Flush, Leave, Persist
<1>2. ASSUME NEW h \in Handlers, Continue(h) PROVE Turn(h)
      <2>1. h \in Procs /\ h \notin Evictors /\ Placed  BY OnlyOne DEF Apart
      <2>2. CASE SavePut(h) \/ SaveMark(h) \/ SetOffline(h) \/ DeleteCache(h) \/ DeleteUnmark(h)
                 \/ RemoveRow(h) \/ RemoveRedis(h)
            BY <2>1, <2>2 DEF SavePut, SaveMark, SetOffline, DeleteCache, DeleteUnmark,
               RemoveRow, RemoveRedis
      <2>3. CASE PersistRead(h) \/ PersistExec(h)
            BY <2>1, <2>3 DEF PersistRead, PersistExec, Persisted, PersistFailed, Return
      <2>4. CASE \E to : Persist(h, to)  BY <2>1, <2>4 DEF Persist
      <2>5. CASE (LoadDirtyTest(h) /\ ~dirty) \/ LoadSource(h) \/ LoadReread(h) \/ LoadFill(h)
            BY <2>1, <2>5 DEF LoadDirtyTest, Persist, LoadSource, LoadReread, LoadFill, Return
      <2>6. CASE LoadCold(h) \/ LoadColdSource(h) \/ LoadRecheck(h) \/ LoadFillMem(h)
            BY <2>1, <2>6 DEF LoadCold, LoadColdSource, LoadRecheck, LoadFillMem, Return
      <2> QED
          BY <1>2, <2>2, <2>3, <2>4, <2>5, <2>6 DEF Continue, LoadDirtyTest, Persist
<1>3. ASSUME NEW p \in Flushers, Background(p) PROVE Turn(p)
      BY <1>3 DEF StoreParams, DataStoreParams, Procs, Background, Flush, PersistRead,
         PersistExec, Persist, Persisted, PersistFailed, Return, places, hands, Apart
<1>4. ASSUME NEW p \in Evictors, Evict(p) \/ EvictExec(p) PROVE Turn(p)
      <2>1. p \in Procs /\ Placed /\ p \notin Handlers
            BY DEF Procs, StoreParams, DataStoreParams, Apart
      <2>2. CASE Evict(p)
            <3>1. \A h \in Handlers : pc[h] \notin LooksUp
                  BY <2>2 DEF Evict, Apart, Missed
            <3> QED  BY <2>1, <2>2, <3>1 DEF Evict
      <2>3. CASE EvictExec(p)  BY <2>1, <2>3 DEF EvictExec
      <2> QED  BY <1>4, <2>2, <2>3
<1> HIDE DEF StoreTypes, Placed, Turn, Writing, LooksUp, Alone, Evicting, Go
<1>5. PICK p \in Procs : Turn(p)  BY <1>1, <1>2, <1>3, <1>4 DEF Next, Procs
<1> QED  BY <1>5, TurnKeeps DEF Apart

LEMMA TypedKept == ASSUME StoreParams, StoreTypes, Next PROVE Typed'
<1> DEFINE Types == /\ tier' = tier /\ online' \in BOOLEAN /\ dirty' \in BOOLEAN
                    /\ {mem', redis', mysql'} \subseteq Values /\ newest' \in Values \union {Unknown}
           HandTypes == /\ val' \in [Procs -> Values] /\ row' \in [Handlers -> Values]
                        /\ result' \in [Handlers -> Values]
<1>1. /\ Typed /\ Nothing \in Values /\ Source \in Values
      /\ (\A p \in Procs : val[p] \in Values) /\ (\A h \in Handlers : row[h] \in Values)
      BY DEF StoreParams, DataStoreParams, StoreTypes, Typed, Source, Nothing, Values
<1>2. ASSUME NEW h \in Handlers, Handle(h) PROVE Types /\ HandTypes
      <2>1. Types
            BY <1>1, <1>2 DEF Typed, Handle, SaveBegin, Enter, Flush, Leave, LoadRedis,
               LoadMem, DeleteRow, RemoveEntry, Persist, places, hands
      <2>2. val' \in [Procs -> Values]
            BY <1>1, <1>2 DEF Typed, Handle, SaveBegin, Enter, Flush, Leave, LoadRedis,
               LoadMem, DeleteRow, RemoveEntry, Persist, Take, hands
      <2>3. row' \in [Handlers -> Values]
            BY <1>1, <1>2 DEF Typed, Handle, SaveBegin, Enter, Flush, Leave, LoadRedis,
               LoadMem, DeleteRow, RemoveEntry, Persist, Return, hands
      <2>4. result' \in [Handlers -> Values]
            BY <1>1, <1>2 DEF Typed, Handle, SaveBegin, Enter, Flush, Leave, LoadRedis,
               LoadMem, DeleteRow, RemoveEntry, Persist, Return, hands
      <2> QED  BY <2>1, <2>2, <2>3, <2>4
<1>3. ASSUME NEW h \in Handlers, Continue(h) PROVE Types /\ HandTypes
      <2>1. h \in Procs  BY DEF Procs
      <2>2. CASE PersistRead(h) \/ PersistExec(h)
            BY <1>1, <2>1, <2>2 DEF PersistRead, PersistExec, Persisted, PersistFailed,
               Return, Take, Typed
      <2>3. CASE SavePut(h) \/ SaveMark(h) \/ SetOffline(h)
            <3>1. SavePut(h) => written + 1 \in Values
                  BY DEF StoreParams, DataStoreParams, StoreTypes, SavePut, Counted, Values
            <3> QED  BY <1>1, <2>3, <3>1 DEF SavePut, SaveMark, SetOffline, Typed
      <2>4. CASE LoadSource(h) \/ LoadDirtyTest(h) \/ LoadReread(h) \/ LoadFill(h)
            BY <1>1, <2>1, <2>4 DEF LoadSource, LoadDirtyTest, LoadReread, LoadFill,
               Persist, Return, ReadRow, Take, Typed, places
      <2>5. CASE LoadCold(h) \/ LoadColdSource(h) \/ LoadRecheck(h) \/ LoadFillMem(h)
            BY <1>1, <2>5 DEF LoadCold, LoadColdSource, LoadRecheck, LoadFillMem, Return,
               ReadRow, Typed, places
      <2>6. CASE DeleteCache(h) \/ DeleteUnmark(h) \/ RemoveRow(h) \/ RemoveRedis(h)
            BY <1>1, <2>1, <2>6 DEF DeleteCache, DeleteUnmark, RemoveRow, RemoveRedis, Take,
               Typed
      <2> QED  BY <1>3, <2>2, <2>3, <2>4, <2>5, <2>6 DEF Continue
<1>4. ASSUME NEW p \in Flushers, Background(p) PROVE Types /\ HandTypes
      <2>1. p \in Procs /\ back[p] # "reread" /\ UNCHANGED <<row, result>>
            BY <1>4 DEF StoreParams, DataStoreParams, StoreTypes, Placed, Procs, Background,
               Flush, Persist, PersistRead, PersistExec, Persisted, PersistFailed
      <2>2. Types
            BY <1>1, <1>4, <2>1 DEF Background, Flush, PersistRead, PersistExec, Persist,
               Typed
      <2>3. val' \in [Procs -> Values]
            BY <1>1, <1>4, <2>1 DEF Background, Flush, PersistRead, PersistExec, Persist,
               Persisted, PersistFailed, Take, Typed
      <2> QED  BY <1>1, <2>1, <2>2, <2>3 DEF Typed
<1>5. ASSUME NEW p \in Evictors, Evict(p) \/ EvictExec(p) PROVE Types /\ HandTypes
      <2>1. p \in Procs /\ UNCHANGED <<row, result>>  BY <1>5 DEF Procs, Evict, EvictExec
      <2>2. Types  BY <1>1, <1>5, <2>1 DEF Evict, EvictExec, Typed
      <2>3. val' \in [Procs -> Values]  BY <1>1, <1>5, <2>1 DEF Evict, EvictExec, Take, Typed
      <2> QED  BY <1>1, <2>1, <2>2, <2>3 DEF Typed
<1>6. Types /\ HandTypes  BY <1>2, <1>3, <1>4, <1>5 DEF Next
<1> QED  BY <1>1, <1>6 DEF Typed

-----------------------------------------------------------------------------
(* persistDirty begins when nobody writes, with the value at hand or with  *)
(* the reading of it.                                                      *)
LEMMA PersistBegins ==
    ASSUME StoreParams, Apart, ~overlap', NEW p \in Procs, NEW to, pc[p] \notin Writing, Persist(p, to)
    PROVE  /\ \A q \in Procs : pc[q] \notin Writing
           /\ \A q \in Procs : q # p => pc'[q] = pc[q] /\ val'[q] = val[q] /\ back'[q] = back[q]
           /\ back'[p] = to /\ dirty /\ ~dirty'
           /\ UNCHANGED <<tier, mem, redis, mysql, online, row, result, newest>>
           /\ \/ Snapshot /\ mem # Nothing /\ pc'[p] = "exec" /\ val'[p] = mem
              \/ ~(Snapshot /\ mem # Nothing) /\ pc'[p] = "read" /\ val' = val
<1>1. \A q \in Procs : pc[q] \notin Writing  BY DEF StoreParams, DataStoreParams, Persist, Alone
<1> QED  BY <1>1 DEF Apart, StoreTypes, Placed, Typed, Persist, Go, Take

(* It ends where it was called, and a row it is given back is the last.    *)
LEMMA PersistEnds ==
    ASSUME StoreParams, Apart, ~overlap', NEW p \in Handlers \union Flushers, pc[p] \in {"read", "exec"},
           Persisted(p) \/ PersistFailed(p)
    PROVE  /\ \A q \in Procs : q # p => pc'[q] = pc[q] /\ val'[q] = val[q]
           /\ pc'[p] \in {"idle", "offline", "reread"} /\ val'[p] = Nothing
           /\ pc'[p] = "reread" => back[p] = "reread"
           /\ row' \in [Handlers -> Values]
           /\ \A h \in Handlers :
                \/ row'[h] = row[h] /\ (row[h] # Nothing => h # p \/ pc'[p] = "reread")
                \/ row'[h] = Nothing /\ h = p
<1> USE DEF StoreParams, DataStoreParams, Apart, StoreTypes, Placed, Typed, Standing, RowKept, Loading, Procs, Go, Take
<1>1. \A q \in Procs : q # p => pc'[q] = pc[q] /\ val'[q] = val[q]
      BY DEF Persisted, PersistFailed, Return
<1>2. /\ val'[p] = Nothing /\ pc'[p] \in {"idle", "offline", "reread"}
      /\ pc'[p] = "reread" => back[p] = "reread"
      BY OnlyOne DEF Persisted, PersistFailed, Return
<1> HIDE DEF StoreParams, DataStoreParams, Apart, StoreTypes, Placed, Typed, Standing, RowKept, Loading, Procs, Go, Take
<1>3. CASE p \in Flushers
      <2>1. row' = row /\ \A h \in Handlers : h # p
            BY <1>3 DEF StoreParams, DataStoreParams, Apart, StoreTypes, Placed, Persisted, PersistFailed
      <2>2. row' \in [Handlers -> Values] /\ \A h \in Handlers : row'[h] = row[h]
            BY <2>1 DEF Apart, StoreTypes, Typed
      <2>3. \A h \in Handlers : row'[h] = row[h] /\ (row[h] # Nothing => h # p \/ pc'[p] = "reread")
            BY <2>1, <2>2
      <2> QED  BY <1>1, <1>2, <2>2, <2>3
<1>4. CASE p \in Handlers
      <2>1. row[p] # Nothing => back[p] = "reread"
            BY <1>4 DEF Apart, StoreTypes, Standing, RowKept, Loading
      <2>2. CASE row' = row /\ pc'[p] = back[p]
            BY <1>1, <1>2, <1>4, <2>1, <2>2, OnlyOne DEF Apart, StoreTypes, Typed
      <2>3. CASE row' = [row EXCEPT ![p] = Nothing]
            <3>1. Nothing \in Values  BY DEF StoreParams, DataStoreParams, Nothing, Values
            <3>2. row' \in [Handlers -> Values] /\ row'[p] = Nothing /\ \A h \in Handlers : h = p
                  BY <1>4, <2>3, <3>1, OnlyOne DEF Apart, StoreTypes, Typed
            <3> QED  BY <1>1, <1>2, <3>2
      <2> QED  BY <1>4, <2>2, <2>3 DEF Persisted, PersistFailed, Return, Go, Apart, StoreTypes,
                  Placed, Procs
<1> QED  BY <1>3, <1>4


(* Each tier has its own phases, and a load of a cached key goes on only   *)
(* when Redis does not hold it.                                            *)
LEMMA InTierKept == ASSUME StoreParams, Apart, Next, ~overlap' PROVE InTier'
<1> USE DEF Apart, StoreTypes
<1>1. ASSUME NEW p \in Procs, NEW to, UNCHANGED <<tier, back>>,
             pc'[p] = to /\ \A q \in Procs : q # p => pc'[q] = pc[q],
             to \in SnapPhases => Snapshot, to \in {"deleted", "uncached"} => ~Snapshot,
             ~Snapshot => mem' = Nothing,
             redis' = redis \/ p \in Handlers,
             p \in Handlers /\ ~Snapshot => redis' = Nothing
                \/ (to \notin {"source", "sourced", "reread", "fill"} /\ (to \in {"read", "exec"} => back[p] # "reread"))
      PROVE  InTier'
      <2>1. ASSUME NEW q \in Procs PROVE Fits(q)'  BY <1>1, <2>1 DEF InTier, Fits, Snapshot
      <2>2. ASSUME NEW h \in Handlers, Loading(h)', ~Snapshot PROVE redis' = Nothing
            BY <1>1, <2>2, OnlyOne DEF InTier, Loading
      <2> QED  BY <1>1, <2>1, <2>2 DEF InTier, Snapshot
<1>2. ASSUME NEW h \in Handlers, NEW to, Go(h, to), UNCHANGED <<tier, back>>,
             to \in SnapPhases => Snapshot, to \in {"deleted", "uncached"} => ~Snapshot,
             ~Snapshot => mem' = Nothing,
             ~Snapshot => redis' = Nothing
                \/ (to \notin {"source", "sourced", "reread", "fill"} /\ (to \in {"read", "exec"} => back[h] # "reread"))
      PROVE  InTier'
      BY <1>1, <1>2, Moved, OnlyOne
<1>3. (~Snapshot => mem = Nothing) /\ \A h \in Handlers : Loading(h) /\ ~Snapshot => redis = Nothing
      BY DEF InTier
<1>4. ASSUME NEW p \in Procs, NEW to, pc[p] \in {"idle", "sourced"}, Persist(p, to),
             pc[p] = "sourced" <=> to = "reread"
      PROVE  InTier'
      <2>1. pc[p] \notin Writing  BY <1>4 DEF Writing
      <2>2. /\ \A q \in Procs : q # p => pc'[q] = pc[q] /\ back'[q] = back[q]
            /\ pc'[p] \in {"read", "exec"} /\ back'[p] = to /\ UNCHANGED <<tier, mem, redis>>
            BY <1>4, <2>1, PersistBegins
      <2>3. ASSUME NEW q \in Procs PROVE Fits(q)'
            BY <2>2, <2>3 DEF InTier, Fits, SnapPhases, Snapshot
      <2>4. ASSUME NEW h \in Handlers, Loading(h)' PROVE Loading(h)
            BY <1>4, <2>2, <2>4, OnlyOne DEF Loading
      <2> QED  BY <2>2, <2>3, <2>4 DEF InTier, Snapshot
<1>5. ASSUME NEW p \in Handlers \union Flushers, PersistRead(p) \/ PersistExec(p) PROVE InTier'
      <2>1. p \in Procs /\ pc[p] \in {"read", "exec"} /\ UNCHANGED <<tier, mem, redis, back>>
            BY <1>5 DEF Procs, PersistRead, PersistExec
      <2>2. CASE Persisted(p) \/ PersistFailed(p)
            <3>1. /\ \A q \in Procs : q # p => pc'[q] = pc[q]
                  /\ pc'[p] \in {"idle", "offline", "reread"} /\ (pc'[p] = "reread" => back[p] = "reread")
                  BY <2>1, <2>2, PersistEnds
            <3> QED  BY <1>1, <1>3, <2>1, <3>1 DEF Loading, SnapPhases
      <2>3. CASE Go(p, "exec") /\ pc[p] = "read"
            <3>1. pc'[p] = "exec" /\ \A q \in Procs : q # p => pc'[q] = pc[q]
                  BY <2>1, <2>3, Moved
            <3>2. p \in Handlers /\ ~Snapshot => redis' = Nothing \/ back[p] # "reread"
                  BY <1>3, <2>1, <2>3 DEF Loading
            <3> QED  BY <1>1, <1>3, <2>1, <3>1, <3>2 DEF SnapPhases
      <2> QED  BY <1>5, <2>2, <2>3 DEF PersistRead, PersistExec
<1>6. ASSUME NEW p \in Handlers \union Flushers, dirty, Flush(p) \/ Leave(p) \/ LoadDirtyTest(p)
      PROVE  InTier'
      BY <1>4, <1>6 DEF Flush, Leave, LoadDirtyTest, Procs
<1>7. ASSUME NEW h \in Handlers, Enter(h) PROVE InTier'
      BY <1>7 DEF Enter, hands, InTier, Fits, Loading, Snapshot
<1>8. ASSUME NEW h \in Handlers,
             SaveBegin(h) \/ SavePut(h) \/ SaveMark(h) \/ SetOffline(h) \/ (~dirty /\ (Leave(h) \/ LoadDirtyTest(h)))
      PROVE  InTier'
      BY <1>2, <1>3, <1>8, OnlyOne DEF SaveBegin, ViaMem, SavePut, SaveMark, SetOffline,
         Leave, LoadDirtyTest, Persist, places, Loading, InTier, Fits, SnapPhases, Procs
<1>9. ASSUME NEW h \in Handlers,
             LoadRedis(h, TRUE) \/ LoadRedis(h, FALSE) \/ LoadSource(h) \/ LoadReread(h) \/ LoadFill(h)
      PROVE  InTier'
      BY <1>2, <1>3, <1>9 DEF LoadRedis, LoadSource, LoadReread, LoadFill, Return, Go,
         places, Loading, SnapPhases
<1>10. ASSUME NEW h \in Handlers,
              LoadMem(h) \/ LoadCold(h) \/ LoadColdSource(h) \/ LoadRecheck(h) \/ LoadFillMem(h)
       PROVE  InTier'
       <2>1. Snapshot  BY <1>10, OnlyOne DEF LoadMem, ViaMem, LoadCold, LoadColdSource,
                          LoadRecheck, LoadFillMem, InTier, Fits, SnapPhases
       <2> QED  BY <1>2, <1>10, <2>1 DEF LoadMem, LoadCold, LoadColdSource, LoadRecheck,
                   LoadFillMem, Return, Go, places
<1>11. ASSUME NEW h \in Handlers,
              \/ DeleteRow(h) \/ DeleteCache(h) \/ DeleteUnmark(h)
              \/ RemoveEntry(h) \/ RemoveRow(h) \/ RemoveRedis(h)
       PROVE  InTier'
       <2>1. Fits(h)  BY OnlyOne DEF InTier
       <2> QED
           BY <1>2, <1>3, <1>11, <2>1 DEF DeleteRow, DeleteCache, DeleteUnmark, RemoveEntry,
              RemoveRow, RemoveRedis, Fits, SnapPhases
<1>12. ASSUME NEW p \in Evictors, Evict(p) \/ EvictExec(p) PROVE InTier'
       <2>1. p \in Procs /\ p \notin Handlers /\ Fits(p)
             BY DEF Procs, StoreParams, DataStoreParams, InTier
       <2>2. PICK to \in {"idle", "evict"} : pc'[p] = to /\ \A q \in Procs : q # p => pc'[q] = pc[q]
             BY <1>12, <2>1 DEF Evict, EvictExec, Placed, Go
       <2> QED  BY <1>1, <1>3, <1>12, <2>1, <2>2 DEF Evict, EvictExec, Fits, SnapPhases
<1> QED  BY <1>5, <1>6, <1>7, <1>8, <1>9, <1>10, <1>11, <1>12 DEF Next, Handle, Continue,
            Background, Flush, Persist


(* Who stands where, of the one handler and of the others.                 *)
LEMMA StandingKept == ASSUME StoreParams, Apart, Next, ~overlap' PROVE Standing'
<1>1. ASSUME NEW p \in Procs, NEW to, pc[p] \in {"idle", "sourced"}, Persist(p, to),
             pc[p] = "sourced" <=> to = "reread"
      PROVE  Standing'
      <2>1. pc[p] \notin Writing  BY <1>1 DEF Writing
      <2>2. \A q \in Procs : pc[q] \notin Writing \union {"uncache"}
            BY <1>1, <2>1, PersistBegins DEF Apart, StoreTypes, Standing, Steady
      <2>3. ASSUME NEW q \in Procs PROVE Steady(q)'
            BY <1>1, <2>1, <2>2, PersistBegins DEF Steady, Writing, Nothing
      <2>4. ASSUME NEW h \in Handlers PROVE RowKept(h)'
            BY <1>1, <2>1, PersistBegins DEF Apart, StoreTypes, Standing, RowKept, Loading, Procs
      <2> QED  BY <2>3, <2>4 DEF Standing
<1>2. ASSUME NEW p \in Handlers \union Flushers, PersistRead(p) \/ PersistExec(p) PROVE Standing'
      <2>1. p \in Procs /\ pc[p] \in {"read", "exec"}
            BY <1>2 DEF Procs, PersistRead, PersistExec
      <2>2. \A q \in Procs : q # p => pc[q] \notin Writing \union {"uncache"}
            BY <2>1 DEF Apart, StoreTypes, Mutex, Standing, Steady, Writing
      <2>3. CASE Persisted(p) \/ PersistFailed(p)
            <3>1. \A q \in Procs : pc'[q] \notin Writing \union {"uncache"}
                  BY <2>1, <2>2, <2>3, PersistEnds DEF Writing
            <3>2. \A q \in Procs : Steady(q)'  BY <3>1 DEF Steady, Writing
            <3>3. back' = back  BY <1>2 DEF PersistRead, PersistExec
            <3>4. ASSUME NEW h \in Handlers PROVE RowKept(h)'
                  BY <2>1, <2>3, <3>3, PersistEnds DEF Apart, StoreTypes, Standing, RowKept, Loading,
                     Procs
            <3> QED  BY <3>2, <3>4 DEF Standing
      <2>4. CASE /\ Source # Nothing /\ Go(p, "exec") /\ Take(p, Source) /\ pc[p] = "read"
                 /\ UNCHANGED <<row, back>>
            <3>1. /\ pc'[p] = "exec" /\ val'[p] # Nothing
                  /\ \A q \in Procs : q # p => pc'[q] = pc[q]
                  BY <2>1, <2>4 DEF Apart, StoreTypes, Placed, Typed, Go, Take
            <3>2. \A q \in Procs : Steady(q)'  BY <2>2, <3>1 DEF Steady, Writing
            <3>3. ASSUME NEW h \in Handlers PROVE RowKept(h)'
                  BY <2>4, <3>1 DEF Apart, StoreTypes, Standing, RowKept, Loading, Procs
            <3> QED  BY <3>2, <3>3 DEF Standing
      <2> QED  BY <1>2, <2>3, <2>4 DEF PersistRead, PersistExec
<1>3. ASSUME NEW p \in Handlers \union Flushers, dirty, Flush(p) \/ Leave(p) \/ LoadDirtyTest(p)
      PROVE  Standing'
      BY <1>1, <1>3 DEF Flush, Leave, LoadDirtyTest, Procs
(* A handler that goes from one place to another: while it is in a call,   *)
(* the others do at most a flush.                                          *)
<1>4. ASSUME NEW h \in Handlers, NEW to, Go(h, to), UNCHANGED <<val, back>>,
             UNCHANGED <<mem, redis, mysql, dirty, newest>> \/ pc[h] # "idle",
             to \notin Writing \union {"uncache"},
             \/ row' = row /\ (row[h] # Nothing => to \in {"sourced", "reread", "fill", "fillMem"})
                /\ (to = "fill" => row[h] # Nothing)
             \/ row' = [row EXCEPT ![h] = Nothing] /\ to = "idle"
             \/ row' = [row EXCEPT ![h] = mysql] /\ mysql # Nothing /\ to \in {"sourced", "fill", "recheck"}
             \/ row' = [row EXCEPT ![h] = redis] /\ to = "fillMem"
      PROVE  Standing'
      <2>1. h \in Procs /\ pc'[h] = to /\ \A q \in Procs : q # h => pc'[q] = pc[q]
            BY <1>4, Moved DEF Apart, StoreTypes, Procs
      <2>2. ASSUME NEW q \in Procs PROVE Steady(q)'
            <3>1. CASE q = h  BY <1>4, <2>1, <3>1 DEF Steady, Writing
            <3>2. CASE q # h /\ pc[h] # "idle"
                  <4>1. pc[q] \in {"idle", "read", "exec", "evict"}
                        BY <3>2, OnlyOne DEF StoreParams, DataStoreParams, Apart, StoreTypes, Placed,
                           Mutex
                  <4> QED  BY <1>4, <2>1, <3>2, <4>1 DEF Apart, StoreTypes, Standing, Steady
            <3>3. CASE q # h /\ UNCHANGED <<mem, redis, mysql, dirty, newest>>
                  BY <1>4, <2>1, <3>3 DEF Apart, StoreTypes, Standing, Steady, Writing
            <3> QED  BY <1>4, <3>1, <3>2, <3>3
      <2>3. ASSUME NEW g \in Handlers PROVE RowKept(g)'
            <3>1. g = h /\ RowKept(h) /\ row \in [Handlers -> Values]
                  BY OnlyOne DEF Apart, StoreTypes, Typed, Standing
            <3>2. \/ row'[h] = row[h] /\ (row[h] # Nothing => to \in {"sourced", "reread", "fill", "fillMem"})
                     /\ (to = "fill" => row[h] # Nothing)
                  \/ row'[h] = Nothing /\ to = "idle"
                  \/ row'[h] # Nothing /\ to \in {"sourced", "fill", "recheck"}
                  \/ to = "fillMem"
                  BY <1>4, <3>1
            <3> QED  BY <2>1, <3>1, <3>2 DEF RowKept, Loading
      <2> QED  BY <2>2, <2>3 DEF Standing
<1>5. \A h \in Handlers : row[h] # Nothing => Loading(h) \/ pc[h] \in {"recheck", "fillMem"}
      BY DEF Apart, StoreTypes, Standing, RowKept
<1>6. ASSUME NEW h \in Handlers,
             \/ SaveBegin(h) \/ SavePut(h) \/ SaveMark(h) \/ SetOffline(h)
             \/ ~dirty /\ (Leave(h) \/ LoadDirtyTest(h))
      PROVE  Standing'
      BY <1>4, <1>5, <1>6 DEF SaveBegin, SavePut, SaveMark, SetOffline, Leave,
         LoadDirtyTest, Persist, Writing, Loading, places, hands
<1>7. ASSUME NEW h \in Handlers, LoadRedis(h, TRUE) \/ LoadRedis(h, FALSE) \/ LoadSource(h) \/ LoadReread(h) \/ LoadFill(h)
      PROVE  Standing'
      BY <1>4, <1>5, <1>7 DEF LoadRedis, LoadSource, LoadReread, LoadFill, Return, ReadRow,
         Go, Writing, Loading, places
<1>8. ASSUME NEW h \in Handlers, LoadMem(h) \/ LoadCold(h) \/ LoadColdSource(h) \/ LoadRecheck(h) \/ LoadFillMem(h)
      PROVE  Standing'
      BY <1>4, <1>5, <1>8 DEF LoadMem, LoadCold, LoadColdSource, LoadRecheck, LoadFillMem,
         Return, ReadRow, Go, Writing, Loading, places
<1>9. ASSUME NEW h \in Handlers, DeleteUnmark(h) \/ RemoveRedis(h) \/ (DeleteCache(h) /\ pc'[h] = "idle")
      PROVE  Standing'
      <2>1. h \in Procs  BY DEF Procs
      <2>2. pc'[h] = "idle" => ~Go(h, "uncached")  BY <2>1, Moved DEF Apart, StoreTypes
      <2> QED  BY <1>4, <1>5, <1>9, <2>2 DEF DeleteUnmark, RemoveRedis, DeleteCache,
                  Writing, Loading
<1>10. ASSUME NEW h \in Handlers, Enter(h) PROVE Standing'
      BY <1>10 DEF Enter, hands, Apart, StoreTypes, Standing, Steady, RowKept, Loading
(* The handler of a delete is the only one that writes.                    *)
<1>11. ASSUME NEW h \in Handlers, row' = row, back' = back, pc'[h] \notin {"idle", "fill"} \/ pc'[h] = "idle",
              pc[h] \in {"idle", "deleted", "removed", "removedDirty"}, pc'[h] # "fill",
              \A q \in Procs : q # h => pc[q] \notin Writing \union {"uncache"} /\ pc'[q] = pc[q], Steady(h)'
       PROVE  Standing'
       <2>1. row[h] = Nothing  BY <1>5, <1>11 DEF Loading
       <2>2. ASSUME NEW q \in Procs PROVE Steady(q)'  BY <1>11, <2>2 DEF Steady, Writing
       <2>3. ASSUME NEW g \in Handlers PROVE RowKept(g)'  BY <1>11, <2>1, OnlyOne DEF RowKept
       <2> QED  BY <2>2, <2>3 DEF Standing
<1>12. ASSUME NEW h \in Handlers, pc[h] \in {"idle", "deleted", "removed", "removedDirty"}, Alone(h) \/ pc[h] # "idle",
              NEW to, Go(h, to)
       PROVE  /\ pc'[h] = to /\ \A q \in Procs : q # h => pc[q] \notin Writing \union {"uncache"} /\ pc'[q] = pc[q]
       <2>1. h \in Procs /\ \A q \in Procs : q # h => q \in Flushers \/ q \in Evictors
             BY OnlyOne
       <2>2. \A q \in Procs : q # h => pc[q] \notin Writing
             BY <1>12, <2>1 DEF StoreParams, DataStoreParams, Apart, StoreTypes, Mutex, Alone, Writing
       <2>3. \A q \in Procs : q # h => pc[q] # "uncache"  BY <2>1 DEF Apart, StoreTypes, Placed
       <2> QED  BY <1>12, <2>1, <2>2, <2>3, Moved DEF Apart, StoreTypes
<1>13. ASSUME NEW h \in Handlers, Handle(h), DeleteRow(h) \/ RemoveEntry(h) PROVE Standing'
       <2>2. PICK to \in {"deleted", "removed", "removedDirty"} : Go(h, to) /\ (to = "removedDirty" => newest # Nothing)
             BY <1>13 DEF DeleteRow, RemoveEntry
       <2>3. pc'[h] = to /\ \A q \in Procs : q # h => pc[q] \notin Writing \union {"uncache"} /\ pc'[q] = pc[q]
             BY <1>12, <1>13, <2>2 DEF DeleteRow, RemoveEntry
       <2>4. CASE DeleteRow(h)
             <3>1. to = "deleted"  BY <2>3, <2>4, Moved, OnlyOne DEF DeleteRow, Apart, StoreTypes
             <3>2. Steady(h)'  BY <2>3, <2>4, <3>1 DEF DeleteRow, Steady
             <3> QED  BY <1>11, <2>3, <2>4, <3>1, <3>2 DEF DeleteRow
       <2>5. CASE RemoveEntry(h)
             <3>1. to # "deleted"  BY <2>3, <2>5, Moved, OnlyOne DEF RemoveEntry, Apart, StoreTypes
             <3>2. Steady(h)'  BY <2>2, <2>3, <2>5, <3>1 DEF RemoveEntry, Steady
             <3> QED  BY <1>11, <2>3, <2>5, <3>1, <3>2 DEF RemoveEntry
       <2> QED  BY <1>13, <2>4, <2>5
<1>14. ASSUME NEW h \in Handlers, RemoveRow(h) \/ DeleteCache(h) PROVE Standing'
       <2>2. PICK to \in {"idle", "uncache", "uncached"} : Go(h, to)
             BY <1>14 DEF RemoveRow, DeleteCache
       <2>3. pc'[h] = to /\ \A q \in Procs : q # h => pc[q] \notin Writing \union {"uncache"} /\ pc'[q] = pc[q]
             BY <1>12, <1>14, <2>2 DEF RemoveRow, DeleteCache
       <2>4. h \in Procs /\ Steady(h) /\ \A t : Go(h, t) => t = to
             BY <2>2, <2>3, Moved, OnlyOne DEF Apart, StoreTypes, Standing
       <2>5. Steady(h)'
             <3>1. CASE to = "idle"  BY <2>3, <3>1 DEF Steady
             <3>2. CASE to = "uncached"
                   BY <1>14, <2>3, <2>4, <3>2 DEF RemoveRow, DeleteCache, Steady
             <3>3. CASE to = "uncache"
                   <4>1. \A q \in Procs : pc'[q] \notin Writing  BY <2>3, <3>3 DEF Writing
                   <4>2. newest' = Unknown /\ mysql' = Nothing /\ mem' = Nothing /\ ~dirty'
                         BY <1>14, <2>3, <2>4, <3>3 DEF RemoveRow, DeleteCache, Steady
                   <4> QED  BY <2>3, <3>3, <4>1, <4>2 DEF Steady
             <3> QED  BY <3>1, <3>2, <3>3
       <2> QED  BY <1>11, <1>14, <2>3, <2>5 DEF RemoveRow, DeleteCache
<1>15. ASSUME NEW p \in Evictors, Evict(p) \/ EvictExec(p) PROVE Standing'
       <2>1. /\ p \in Procs /\ p \notin Handlers /\ UNCHANGED <<row, back>>
             /\ \A q \in Procs : q # p => pc'[q] = pc[q]
             BY <1>15 DEF Evict, EvictExec, StoreParams, DataStoreParams, Apart, StoreTypes,
                Placed, Go, Procs
       <2>2. \A q \in Procs : q # p => pc[q] \notin Writing
             BY <1>15, <2>1 DEF Evict, EvictExec, Apart, Mutex, Alone, Writing
       <2>3. \A q \in Procs : pc[q] # "uncache"
             BY <1>15, <2>1 DEF Evict, EvictExec, Apart, Standing, Steady, Writing
       <2>4. pc'[p] = "idle" \/ (pc'[p] = "evict" /\ val'[p] # Nothing)
             BY <1>15, <2>1 DEF Evict, EvictExec, Apart, StoreTypes, Placed, Typed, Go, Take
       <2>5. ASSUME NEW q \in Procs PROVE Steady(q)'
             BY <2>1, <2>2, <2>3, <2>4, <2>5 DEF Steady, Writing
       <2>6. ASSUME NEW h \in Handlers PROVE RowKept(h)'
             BY <2>1 DEF Apart, Standing, RowKept, Loading, Procs
       <2> QED  BY <2>5, <2>6 DEF Standing
<1> QED  BY <1>2, <1>3, <1>6, <1>7, <1>8, <1>10, <1>9, <1>13, <1>14, <1>15 DEF Next, Handle,
            Continue, Background, Flush, Persist

(* Nothing fills the entry again while a load goes on without it. *)
LEMMA MissedKept == ASSUME StoreParams, Apart, Next, ~overlap' PROVE Missed'
<1>1. Missed /\ Placed  BY DEF Apart, StoreTypes
<1>2. ASSUME NEW h \in Handlers, Handle(h) \/ Continue(h) PROVE Missed'
      <2>1. h \in Procs /\ \A g \in Handlers : g = h  BY OnlyOne
      <2>2. CASE LoadMem(h)  BY <1>1, <2>1, <2>2 DEF Missed, LooksUp, LoadMem, Return, Go, Placed, places
      <2>3. CASE LoadCold(h) \/ LoadColdSource(h) \/ LoadRecheck(h) \/ LoadFillMem(h)
            BY <1>1, <2>1, <2>3 DEF Missed, LooksUp, LoadCold, LoadColdSource, LoadRecheck, LoadFillMem,
               Return, Go, Placed, places
      <2>4. CASE \E to : Persist(h, to)  BY <1>1, <2>1, <2>4 DEF Missed, LooksUp, Persist, Go, Placed
      <2>5. CASE PersistRead(h) \/ PersistExec(h)
            BY <1>1, <2>1, <2>5 DEF Missed, LooksUp, PersistRead, PersistExec, Persisted, PersistFailed,
               Return, Go, Placed
      <2>6. CASE DeleteRow(h) \/ DeleteCache(h) \/ DeleteUnmark(h) \/ RemoveEntry(h)
                 \/ RemoveRow(h) \/ RemoveRedis(h)
            BY <1>1, <2>1, <2>6 DEF Missed, LooksUp, DeleteRow, DeleteCache, DeleteUnmark, RemoveEntry,
               RemoveRow, RemoveRedis, Go, Placed
      <2>7. CASE SaveBegin(h) \/ SavePut(h) \/ SaveMark(h) \/ Enter(h) \/ SetOffline(h)
                 \/ (Leave(h) /\ ~dirty)
            BY <1>1, <2>1, <2>7 DEF Missed, LooksUp, SaveBegin, SavePut, SaveMark, Enter, SetOffline, Leave,
               Persist, Go, Placed, places, hands
      <2>8. CASE LoadRedis(h, TRUE) \/ LoadRedis(h, FALSE) \/ LoadSource(h) \/ LoadReread(h)
                 \/ LoadFill(h) \/ (LoadDirtyTest(h) /\ ~dirty)
            BY <1>1, <2>1, <2>8 DEF Missed, LooksUp, LoadRedis, LoadSource, LoadReread, LoadFill,
               LoadDirtyTest, Persist, Return, Go, Placed, places
      <2>9. /\ Flush(h) => \E to : Persist(h, to)
            /\ Leave(h) \/ LoadDirtyTest(h) => ~dirty \/ \E to : Persist(h, to)
            BY DEF Flush, Leave, LoadDirtyTest
      <2>10. CASE Handle(h)
            BY <2>2, <2>4, <2>6, <2>7, <2>8, <2>9, <2>10 DEF Handle
      <2>11. CASE Continue(h)
            BY <2>3, <2>4, <2>5, <2>6, <2>7, <2>8, <2>9, <2>11 DEF Continue
      <2> QED  BY <1>2, <2>10, <2>11
<1>3. ASSUME NEW p \in Flushers, Background(p) PROVE Missed'
      <2>1. p \in Procs /\ p \notin Handlers /\ mem' = mem
            BY <1>3 DEF StoreParams, DataStoreParams, Procs, Background, Flush, Persist,
               PersistRead, PersistExec
      <2>2. \A h \in Handlers : pc'[h] = pc[h]
            BY <1>1, <1>3, <2>1 DEF Background, Flush, Persist, PersistRead, PersistExec,
               Persisted, PersistFailed, Return, Go, Placed, Procs
      <2> QED  BY <1>1, <2>1, <2>2 DEF Missed
<1>4. ASSUME NEW p \in Evictors, Evict(p) \/ EvictExec(p) PROVE Missed'
      <2>1. p \in Procs /\ p \notin Handlers
            BY DEF StoreParams, DataStoreParams, Procs
      <2>2. \A h \in Handlers : pc'[h] = pc[h]
            BY <1>1, <1>4, <2>1 DEF Evict, EvictExec, Go, Placed, Procs
      <2>3. CASE Evict(p)  BY <2>3 DEF Missed, Evict
      <2>4. CASE EvictExec(p)
            <3>1. \A h \in Handlers : pc[h] \notin LooksUp
                  BY <2>4 DEF Missed, LooksUp, EvictExec, Apart, Mutex
            <3> QED  BY <2>2, <3>1 DEF Missed
      <2> QED  BY <1>4, <2>3, <2>4
<1> QED  BY <1>2, <1>3, <1>4 DEF Next

-----------------------------------------------------------------------------
(* Where a copy is looked up and missing, MySQL has the value, unless an   *)
(* entry has been taken out of the memory.                                 *)
LEMMA RowIsNewest ==
    ASSUME Apart, Kept, Held = Nothing, \A q \in Procs : pc[q] \notin {"evict", "removedDirty"}
    PROVE  mysql = newest
    BY DEF Apart, StoreTypes, Standing, Steady, Kept, Copied, Safe, Waits

LEMMA NoneTakenOut ==
    ASSUME StoreParams, Apart, NEW h \in Handlers, ~Snapshot \/ pc[h] \in LooksUp
    PROVE  \A q \in Procs : pc[q] \notin {"evict", "removedDirty"}
<1>1. CASE ~Snapshot  BY <1>1 DEF Apart, InTier, Fits, SnapPhases
<1>2. CASE pc[h] \in LooksUp
      BY <1>2, OnlyOne DEF Apart, StoreTypes, Placed, Mutex, LooksUp
<1> QED  BY <1>1, <1>2

LEMMA StillKept ==
    ASSUME Apart, newest' # Unknown, ~Detour', UNCHANGED <<tier, redis, newest>>
    PROVE  Kept /\ ~Detour /\ (Snapshot => redis = Nothing)
    BY DEF Apart, StoreTypes, Detour, Snapshot

LEMMA PersistPromise ==
    ASSUME StoreParams, Apart, ~overlap', newest' # Unknown, ~Detour',
           NEW p \in Procs, NEW to, pc[p] \notin Writing, Persist(p, to)
    PROVE  Kept'
<1>1. /\ \A q \in Procs : pc[q] \notin Writing
      /\ \A q \in Procs : q # p => pc'[q] = pc[q] /\ val'[q] = val[q]
      /\ dirty /\ UNCHANGED <<tier, mem, redis, mysql, row, newest>>
      /\ pc'[p] \in {"read", "exec"}
      BY PersistBegins
<1>2. Kept /\ (Snapshot => redis = Nothing)  BY <1>1, StillKept
<1>3. Held = newest \/ (Held = Nothing /\ mysql = newest)
      BY <1>1, <1>2 DEF Kept, Copied, Writing
<1>4. mysql = newest \/ Waits  BY <1>1, <1>2 DEF Kept, Safe, Writing
<1>5. UNCHANGED <<Held, Waits>> BY <1>1 DEF Held, Waits, Snapshot
<1>6. Copied'  BY <1>1, <1>3, <1>5 DEF Copied
<1>7. Rows'  BY <1>1, <1>2 DEF Kept, Rows, Snapshot, Procs
<1>8. CASE Snapshot /\ mem # Nothing /\ pc'[p] = "exec" /\ val'[p] = mem
      <2>1. val'[p] = newest  BY <1>3, <1>8 DEF Held
      <2>2. Carried'  BY <1>1, <1>2, <1>5, <1>8, <2>1 DEF Kept, Carried, Writing
      <2>3. Safe'  BY <1>1, <1>8, <2>1 DEF Safe
      <2> QED  BY <1>6, <1>7, <2>2, <2>3 DEF Kept
<1>9. CASE pc'[p] = "read"
      <2>1. Carried'  BY <1>1, <1>2, <1>5, <1>9 DEF Kept, Carried, Writing
      <2>2. Safe'  BY <1>1, <1>4, <1>5, <1>9 DEF Safe
      <2> QED  BY <1>6, <1>7, <2>1, <2>2 DEF Kept
<1> QED  BY <1>8, <1>9, PersistBegins

(* What persistDirty reads is the value; what it fails to write is marked. *)
LEMMA PersistGoesOn ==
    ASSUME StoreParams, Apart, ~overlap', newest' # Unknown, ~Detour',
           NEW p \in Handlers \union Flushers, PersistRead(p) \/ PersistExec(p)
    PROVE  Kept'
<1>1. /\ p \in Procs /\ pc[p] \in {"read", "exec"} /\ UNCHANGED <<tier, mem, redis, newest>>
      BY DEF Procs, PersistRead, PersistExec
<1>2. Kept /\ (Snapshot => redis = Nothing)  BY <1>1, StillKept
<1>3. \A q \in Procs : q # p => pc[q] \notin Writing  BY <1>1 DEF Apart, StoreTypes, Mutex, Writing
<1>4. Held = newest \/ (Held = Nothing /\ mysql = newest)
      BY <1>1, <1>2, <1>3 DEF Kept, Copied, Writing
<1>5. UNCHANGED <<Held, Waits>>  BY <1>1 DEF Held, Waits, Snapshot
<1>6. Source = Held  BY <1>2 DEF Source, Held
<1>7. CASE pc[p] = "read" /\ Source # Nothing /\ Go(p, "exec") /\ Take(p, Source) /\ UNCHANGED <<mysql, dirty, row>>
      <2>1. /\ pc'[p] = "exec" /\ val'[p] = newest
            /\ \A q \in Procs : q # p => pc'[q] = pc[q] /\ val'[q] = val[q]
            BY <1>1, <1>4, <1>6, <1>7 DEF Apart, StoreTypes, Placed, Typed, Go, Take
      <2>2. Copied'  BY <1>4, <1>5, <1>7 , <1>1 DEF Copied
      <2>3. Carried'  BY <1>1, <1>2, <1>3, <1>5, <2>1 DEF Kept, Carried, Writing
      <2>4. Rows'  BY <1>1, <1>2, <1>7, <2>1 DEF Kept, Rows, Snapshot, Procs
      <2>5. Safe'  BY <1>1, <2>1 DEF Safe
      <2> QED  BY <2>2, <2>3, <2>4, <2>5 DEF Kept
<1>8. ASSUME Persisted(p) \/ PersistFailed(p) PROVE Rows' /\ Carried'
      <2>1. \A q \in Procs : pc'[q] \notin Writing  BY <1>1, <1>3, <1>8, PersistEnds DEF Writing
      <2>2. /\ \A q \in Procs : q # p => pc'[q] = pc[q]
            /\ pc'[p] \in {"idle", "offline", "reread"}
            /\ \A h \in Handlers : row'[h] \in {row[h], Nothing} /\ (h # p => row'[h] = row[h])
            BY <1>1, <1>8, PersistEnds
      <2>3. Carried'  BY <1>2, <1>5, <2>1, <2>2 DEF Kept, Carried, Writing
      <2>4. Rows'  BY <1>1, <1>2, <2>2 DEF Kept, Rows, Snapshot, Procs
      <2> QED  BY <2>3, <2>4
<1>9. CASE pc[p] = "exec" /\ mysql' = val[p] /\ Persisted(p) /\ UNCHANGED dirty
      <2>1. val[p] = newest \/ (Waits /\ Marked)  BY <1>1, <1>2, <1>9 DEF Kept, Carried
      <2>2. Copied'  BY <1>1, <1>4, <1>5, <1>9, <2>1 DEF Copied, Waits
      <2>3. Marked => Marked'
            <3>1. \A q \in Procs : pc[q] = "mark" => pc'[q] = "mark"  BY <1>1, <1>9, PersistEnds
            <3> QED  BY <1>9, <3>1 DEF Marked
      <2>4. Safe'  BY <1>1, <1>5, <1>9, <2>1, <2>3 DEF Safe
      <2> QED  BY <1>8, <1>9, <2>2, <2>4 DEF Kept
<1>10. CASE dirty' = TRUE /\ PersistFailed(p) /\ UNCHANGED mysql
      <2>1. Copied'  BY <1>1, <1>4, <1>5, <1>10 DEF Copied
      <2>2. pc[p] = "exec" => val[p] # Nothing  BY <1>1 DEF Apart, StoreTypes, Standing, Steady
      <2>3. mysql = newest \/ Waits
            BY <1>1, <1>2, <1>3, <1>4, <2>2 DEF Kept, Safe, Waits, Writing
      <2>4. Safe'  BY <1>1, <1>5, <1>10, <2>3 DEF Safe, Marked
      <2> QED  BY <1>8, <1>10, <2>1, <2>4 DEF Kept
<1>11. CASE pc[p] = "read" /\ Source = Nothing /\ PersistFailed(p) /\ UNCHANGED <<mysql, dirty>>
      <2>1. mysql = newest  BY <1>1, <1>2, <1>3, <1>6, <1>11, RowIsNewest DEF Writing
      <2>2. Copied'  BY <1>1, <1>5, <1>6, <1>11, <2>1 DEF Copied
      <2>3. Safe'  BY <1>1, <1>11, <2>1 DEF Safe
      <2> QED  BY <1>8, <1>11, <2>2, <2>3 DEF Kept
<1> QED  BY <1>7, <1>9, <1>10, <1>11 DEF PersistRead, PersistExec


(* The handler's steps that touch neither the copies nor the marks.        *)
LEMMA QuietPromise ==
    ASSUME StoreParams, Apart, ~overlap', newest' # Unknown, ~Detour',
           NEW h \in Handlers, NEW to, Go(h, to), UNCHANGED <<tier, mem, redis, mysql, dirty, val, newest>>,
           pc[h] \notin Hot, to \notin Hot, Rows'
    PROVE  Kept'
<1>1. h \in Procs /\ pc'[h] = to /\ \A q \in Procs : q # h => pc'[q] = pc[q]
      BY Moved DEF Apart, StoreTypes, Procs
<1>2. Kept  BY StillKept
<1>3. \A p \in Procs : pc'[p] # pc[p] => pc[p] \notin Hot /\ pc'[p] \notin Hot  BY <1>1
<1> QED  BY <1>2, <1>3, QuietKeeps DEF Kept

LEMMA LoadPromise ==
    ASSUME StoreParams, Apart, ~overlap', newest' # Unknown, ~Detour', NEW h \in Handlers,
           \/ SaveBegin(h) \/ SetOffline(h) \/ (~dirty /\ (Leave(h) \/ LoadDirtyTest(h)))
           \/ LoadRedis(h, TRUE) \/ LoadRedis(h, FALSE) \/ LoadSource(h) \/ LoadReread(h)
           \/ LoadMem(h) \/ LoadCold(h) \/ LoadColdSource(h) \/ LoadRecheck(h)
    PROVE  Kept'
<1>1. /\ UNCHANGED <<tier, mem, redis, mysql, dirty, val, newest>> /\ pc[h] \notin Hot
      BY DEF SaveBegin, SetOffline, Leave, LoadDirtyTest, Persist, LoadRedis, LoadSource,
         LoadReread, LoadMem, LoadCold, LoadColdSource, LoadRecheck, places, hands, Hot
<1>2. Kept /\ (Snapshot => redis = Nothing)  BY <1>1, StillKept
<1>3. row \in [Handlers -> Values] /\ h \in Procs /\ \A g \in Handlers : g = h
      BY OnlyOne DEF Apart, StoreTypes, Typed
<1>4. ASSUME NEW to, Go(h, to), to \notin Hot, row'[h] \in {row[h], Nothing, newest},
             to = "fill" => Snapshot \/ row'[h] = newest,
             to \in {"cold", "coldSource", "recheck", "fillMem"} => mem = Nothing,
             to \in {"recheck", "fillMem"} => row'[h] = newest
      PROVE  Kept'
      <2>1. pc'[h] = to  BY <1>3, <1>4, Moved DEF Apart, StoreTypes
      <2>2. ~Snapshot => row[h] \in {Nothing, newest}  BY <1>2 DEF Kept, Rows
      <2>3. Rows'  BY <1>1, <1>3, <1>4, <2>1, <2>2 DEF Rows, Snapshot
      <2> QED  BY <1>1, <1>4, <2>3, QuietPromise
<1>5. CASE SaveBegin(h) \/ SetOffline(h) \/ (~dirty /\ Leave(h))
      BY <1>4, <1>5 DEF SaveBegin, SetOffline, Leave, Persist, Hot
<1>6. CASE LoadRedis(h, TRUE) \/ LoadRedis(h, FALSE)
      BY <1>3, <1>4, <1>6 DEF LoadRedis, Return, Go, Hot
<1>7. CASE ~dirty /\ LoadDirtyTest(h)
      <2>1. ~Snapshot => row[h] \in {Nothing, newest}  BY <1>2 DEF Kept, Rows
      <2> QED  BY <1>4, <1>7, <2>1 DEF LoadDirtyTest, Persist, Hot
<1>8. CASE LoadSource(h) \/ LoadReread(h)
      <2>1. ~Snapshot => mysql = newest
            <3>1. ~Snapshot => redis = Nothing
                  BY <1>8 DEF Apart, StoreTypes, InTier, Loading, LoadSource, LoadReread
            <3> QED  BY <1>2, <1>8, <3>1, RowIsNewest, NoneTakenOut DEF Held, LoadSource,
                        LoadReread
      <2>2. CASE Snapshot
            <3>1. Rows'
                  BY <1>1, <1>2, <1>3, <1>8, <2>2 DEF Kept, Rows, Snapshot, LoadSource,
                     LoadReread, Return, Go, Apart, StoreTypes, Placed
            <3> QED  BY <1>1, <1>8, <3>1, QuietPromise DEF LoadSource, LoadReread, Return,
                        Go, Hot
      <2>3. CASE ~Snapshot
            BY <1>3, <1>4, <1>8, <2>1, <2>3 DEF LoadSource, LoadReread, Return, ReadRow, Go, Hot
      <2> QED  BY <2>2, <2>3
<1>9. CASE LoadMem(h)
      BY <1>3, <1>4, <1>9 DEF LoadMem, Return, Go, Hot
<1>10. CASE LoadCold(h)
      <2>1. Snapshot /\ mem = Nothing
            BY <1>3, <1>10 DEF LoadCold, Apart, InTier, Fits, SnapPhases, Missed, LooksUp
      <2> QED  BY <1>2, <1>3, <1>4, <1>10, <2>1 DEF LoadCold, Go, Hot
<1>11. CASE LoadColdSource(h)
      <2>1. Snapshot /\ mem = Nothing
            BY <1>3, <1>11 DEF LoadColdSource, Apart, InTier, Fits, SnapPhases, Missed, LooksUp
      <2>2. mysql = newest
            BY <1>2, <1>11, <2>1, RowIsNewest, NoneTakenOut DEF Held, LoadColdSource, LooksUp
      <2> QED  BY <1>3, <1>4, <1>11, <2>1, <2>2 DEF LoadColdSource, Return, ReadRow, Go, Hot
<1>12. CASE LoadRecheck(h)
      <2>1. mem = Nothing /\ row[h] = newest
            BY <1>2, <1>12 DEF Kept, Rows, LoadRecheck, Apart, Missed, LooksUp
      <2> QED  BY <1>3, <1>4, <1>12, <2>1 DEF LoadRecheck, Return, Go, Hot
<1> QED  BY <1>5, <1>6, <1>7, <1>8, <1>9, <1>10, <1>11, <1>12

(* A load fills in what is missing with the newest value.                  *)
LEMMA FillPromise ==
    ASSUME StoreParams, Apart, ~overlap', newest' # Unknown, ~Detour', NEW h \in Handlers,
           LoadFill(h) \/ LoadFillMem(h)
    PROVE  Kept'
<1>1. /\ UNCHANGED <<tier, mysql, dirty, val, newest>> /\ h \in Procs /\ \A g \in Handlers : g = h
      /\ pc[h] \in {"fill", "fillMem"} /\ pc'[h] = "idle" /\ \A q \in Procs : q # h => pc'[q] = pc[q]
      BY OnlyOne DEF LoadFill, LoadFillMem, Return, Apart, StoreTypes, Placed, Procs
<1>2. row'[h] = Nothing  BY DEF LoadFill, LoadFillMem, Return, Apart, StoreTypes, Typed
<1>3. Kept
      <2>1. ~Detour  BY <1>1 DEF LoadFill, LoadFillMem, Detour, Snapshot, Apart, StoreTypes,
                        Standing, RowKept
      <2> QED  BY <1>1, <2>1 DEF Apart, StoreTypes
<1>4. Held = Nothing /\ Held' = newest
      <2>1. CASE LoadFill(h)
            <3>1. row[h] # Nothing  BY <2>1 DEF LoadFill, Apart, StoreTypes, Standing, RowKept
            <3>2. ~Snapshot  BY <1>1, <2>1, <3>1 DEF LoadFill, Detour, Snapshot
            <3>3. redis = Nothing  BY <2>1, <3>2 DEF LoadFill, Apart, StoreTypes, InTier, Loading
            <3>4. row[h] = newest  BY <1>3, <2>1, <3>2 DEF LoadFill, Kept, Rows
            <3> QED  BY <1>1, <2>1, <3>2, <3>3, <3>4 DEF LoadFill, Held, Snapshot
      <2>2. CASE LoadFillMem(h)
            <3>1. Snapshot  BY <1>1, <2>2 DEF LoadFillMem, Apart, StoreTypes, InTier, Fits, SnapPhases
            <3>2. mem = Nothing /\ row[h] = newest
                  BY <1>3, <2>2 DEF LoadFillMem, Kept, Rows, Apart, Missed, LooksUp
            <3> QED  BY <1>1, <2>2, <3>1, <3>2 DEF LoadFillMem, Held, Snapshot
      <2> QED  BY <2>1, <2>2
<1>5. Copied'  BY <1>1, <1>4 DEF Copied
<1>6. Carried'
      <2>1. \A q \in Procs : pc[q] \notin {"evict", "removedDirty", "mark"}
            <3>1. ~Snapshot \/ pc[h] \in LooksUp
                  BY <1>1, <1>3 DEF LoadFill, LoadFillMem, Apart, Standing, RowKept, Detour,
                     Snapshot, LooksUp
            <3>2. ~Waits  BY <1>4 DEF Waits
            <3> QED  BY <1>3, <3>1, <3>2, NoneTakenOut DEF Kept, Carried
      <2> QED  BY <1>1, <1>3, <1>4, <2>1 DEF Kept, Carried, Waits
<1>7. Rows'  BY <1>1, <1>2 DEF Rows
<1>8. Safe'  BY <1>1, <1>3, <1>4 DEF Kept, Safe, Waits
<1> QED  BY <1>5, <1>6, <1>7, <1>8 DEF Kept

(* A save leaves its value where the flush finds it, and then the mark.    *)
LEMMA SavePromise ==
    ASSUME StoreParams, Apart, ~overlap', newest' # Unknown, ~Detour', NEW h \in Handlers,
           SavePut(h) \/ SaveMark(h)
    PROVE  Kept'
<1>1. /\ UNCHANGED <<tier, mysql, val, row>> /\ h \in Procs /\ \A g \in Handlers : g = h
      /\ pc[h] \in {"putMem", "putRedis", "mark"} /\ \A q \in Procs : q # h => pc'[q] = pc[q]
      BY OnlyOne DEF SavePut, SaveMark, Apart, StoreTypes, Placed, Go, Procs
<1>2. \A q \in Procs : pc[q] \notin {"removed", "removedDirty"}
      BY <1>1, OnlyOne DEF Apart, StoreTypes, Placed
<1>3. row[h] = Nothing  BY <1>1 DEF Apart, StoreTypes, Standing, RowKept, Loading
<1>4. CASE SavePut(h)
      <2>1. pc'[h] = "mark" /\ newest' = written + 1
            BY <1>1, <1>4 DEF SavePut, Apart, StoreTypes, Placed, Go
      <2>2. written + 1 # Nothing
            BY DEF StoreParams, DataStoreParams, Apart, StoreTypes, Counted, Nothing
      <2>3. Held' = newest'
            BY <1>1, <1>4, <2>1, <2>2 DEF SavePut, Held, Detour, Snapshot, Apart, StoreTypes, InTier,
               Fits, SnapPhases
      <2>4. Waits' /\ Marked'  BY <1>1, <2>1, <2>2, <2>3 DEF Waits, Marked
      <2>5. Copied' /\ Safe'  BY <2>3, <2>4 DEF Copied, Safe
      <2>6. Carried'  BY <1>1, <1>2, <2>1, <2>4 DEF Carried
      <2>7. Rows'  BY <1>1, <1>3, <2>1 DEF Rows
      <2> QED  BY <2>5, <2>6, <2>7 DEF Kept
<1>5. CASE SaveMark(h)
      <2>1. /\ UNCHANGED <<mem, redis, newest>> /\ dirty' = TRUE /\ pc'[h] = "idle" /\ pc[h] = "mark"
            BY <1>1, <1>5 DEF SaveMark, Apart, StoreTypes, Placed, Go
      <2>2. Kept  BY <1>1, <2>1, StillKept
      <2>3. UNCHANGED <<Held, Waits>> /\ Marked'
            BY <1>1, <2>1 DEF Held, Waits, Marked, Snapshot
      <2>4. Copied'  BY <1>1, <2>1, <2>2, <2>3 DEF Kept, Copied
      <2>5. Carried'  BY <1>1, <2>1, <2>2, <2>3 DEF Kept, Carried
      <2>6. Rows'  BY <1>1, <1>3, <2>1 DEF Rows
      <2>7. Safe'  BY <1>1, <2>1, <2>2, <2>3 DEF Kept, Safe
      <2> QED  BY <2>4, <2>5, <2>6, <2>7 DEF Kept
<1> QED  BY <1>4, <1>5


(* A delete ends with nothing anywhere, or puts back what it took.         *)
LEMMA DeletePromise ==
    ASSUME StoreParams, Apart, ~overlap', newest' # Unknown, ~Detour', NEW h \in Handlers,
           \/ DeleteRow(h) \/ DeleteCache(h) \/ DeleteUnmark(h) \/ RemoveRedis(h)
           \/ RemoveEntry(h) \/ RemoveRow(h)
    PROVE  Kept'
<1>1. /\ UNCHANGED <<tier, row>> /\ h \in Procs /\ \A g \in Handlers : g = h
      /\ \A q \in Procs : q # h => pc[q] # "mark" /\ pc'[q] = pc[q] /\ val'[q] = val[q]
      BY OnlyOne DEF DeleteRow, DeleteCache, DeleteUnmark, RemoveRedis, RemoveEntry,
         RemoveRow, Apart, StoreTypes, Placed, Typed, Go, Take, Procs
<1>2. row[h] = Nothing
      BY DEF DeleteRow, DeleteCache, DeleteUnmark, RemoveRedis, RemoveEntry, RemoveRow,
         Apart, StoreTypes, Standing, RowKept, Loading
<1>3. ASSUME pc'[h] \in {"idle", "removed", "removedDirty"} PROVE Rows'
      BY <1>1, <1>2, <1>3 DEF Rows
<1>4. ~DeleteRow(h) /\ ~DeleteCache(h)
      BY DEF DeleteRow, DeleteCache, Apart, StoreTypes, Standing, Steady, Procs
<1>5. CASE DeleteUnmark(h) \/ RemoveRedis(h)
      <2>1. /\ pc[h] \in {"uncached", "uncache"} /\ pc'[h] = "idle" /\ newest = Unknown /\ mysql = Nothing
            /\ \A q \in Procs : q # h => pc[q] \notin Writing
            BY <1>1, <1>5 DEF DeleteUnmark, RemoveRedis, Go, Apart, StoreTypes, Placed, Mutex,
               Standing, Steady, Writing
      <2>2. newest' = Nothing /\ mysql' = Nothing /\ Held' = Nothing
            BY <1>1, <1>5, <2>1 DEF DeleteUnmark, RemoveRedis, Held, Snapshot, Apart, StoreTypes,
               InTier, Fits, SnapPhases, Standing, Steady
      <2>3. Copied' /\ Safe'  BY <2>2 DEF Copied, Safe
      <2>4. Carried'  BY <1>1, <2>1 DEF Carried, Writing
      <2> QED  BY <1>3, <2>1, <2>3, <2>4 DEF Kept
<1>6. CASE RemoveEntry(h)
      <2>1. /\ UNCHANGED <<tier, redis, mysql, newest>> /\ Snapshot /\ newest # Nothing /\ pc[h] = "idle"
            /\ pc'[h] = (IF dirty THEN "removedDirty" ELSE "removed") /\ val'[h] = mem /\ mem' = Nothing
            BY <1>1, <1>6 DEF RemoveEntry, Apart, StoreTypes, Placed, Typed, Go, Take
      <2>2. Kept  BY <2>1, StillKept
      <2>3. \A q \in Procs : pc[q] \notin Writing /\ pc[q] # "mark"
            BY <1>1, <1>6, OnlyOne DEF RemoveEntry, StoreParams, DataStoreParams, Apart, StoreTypes,
               Placed, Alone, Writing, Procs
      <2>4. Held = mem /\ Held' = Nothing  BY <2>1 DEF Held, Snapshot
      <2>5. mem = newest \/ (mem = Nothing /\ mysql = newest)
            BY <2>2, <2>3, <2>4 DEF Kept, Copied, Writing
      <2>6. mysql = newest \/ (dirty /\ mem = newest)
            BY <2>2, <2>3, <2>4, <2>5 DEF Kept, Safe, Waits, Marked, Writing
      <2>7. Copied' /\ Safe'  BY <1>1, <2>1, <2>4, <2>6 DEF Copied, Safe
      <2>8. Carried'  BY <1>1, <2>1, <2>3, <2>5 DEF Carried, Writing
      <2> QED  BY <1>3, <2>1, <2>7, <2>8 DEF Kept
<1>7. CASE RemoveRow(h)
      <2>1. /\ UNCHANGED <<tier, redis, mysql, newest>> /\ pc[h] \in {"removed", "removedDirty"}
            /\ pc'[h] = "idle" /\ mem' = (IF mem = Nothing THEN val[h] ELSE mem)
            /\ dirty' = (dirty \/ pc[h] = "removedDirty")
            BY <1>1, <1>7 DEF RemoveRow, Apart, StoreTypes, Placed, Go
      <2>2. Kept  BY <2>1, StillKept
      <2>3. \A q \in Procs : q # h => pc[q] \notin Writing
            BY <1>1, <2>1 DEF Apart, StoreTypes, Mutex, Writing
      <2>4. Snapshot /\ mem = Nothing /\ val[h] \in {Nothing, newest}
            BY <1>1, <2>1, <2>2 DEF Apart, StoreTypes, InTier, Fits, SnapPhases, Standing, Steady,
               Kept, Carried
      <2>5. Held = Nothing /\ Held' = val[h]  BY <2>1, <2>4 DEF Held, Snapshot
      <2>6. mysql = newest \/ (pc[h] = "removedDirty" /\ val[h] = newest /\ newest # Nothing)
            BY <1>1, <2>1, <2>2, <2>3, <2>5 DEF Kept, Safe, Waits, Writing, Apart, StoreTypes,
               Standing, Steady
      <2>7. Copied'  BY <2>1, <2>4, <2>5, <2>6 DEF Copied
      <2>8. Safe'  BY <2>1, <2>5, <2>6 DEF Safe, Waits, Marked
      <2>9. Carried'  BY <1>1, <2>1, <2>3 DEF Carried, Writing
      <2> QED  BY <1>3, <2>1, <2>7, <2>8, <2>9 DEF Kept
<1> QED  BY <1>4, <1>5, <1>6, <1>7

(* An eviction carries a marked value to MySQL, or brings it back, unless  *)
(* a later save has put another one in its place meanwhile.                *)
LEMMA EvictPromise ==
    ASSUME StoreParams, Apart, ~overlap', newest' # Unknown, ~Detour', NEW p \in Evictors,
           Evict(p) \/ EvictExec(p)
    PROVE  Kept'
<1>1. /\ UNCHANGED <<tier, redis, row, newest>> /\ p \in Procs
      /\ \A q \in Procs : q # p => pc'[q] = pc[q] /\ val'[q] = val[q]
      BY DEF Evict, EvictExec, Apart, StoreTypes, Placed, Typed, Go, Take, Procs
<1>2. Kept  BY <1>1, StillKept
<1>3. Snapshot /\ \A q \in Procs : q # p => pc[q] \notin Writing
      BY <1>1 DEF Evict, EvictExec, Apart, Mutex, InTier, Fits, SnapPhases, Alone, Writing
<1>4. \A h \in Handlers : pc'[h] = pc[h]
      BY <1>1 DEF StoreParams, DataStoreParams, Procs
<1>5. Rows'  BY <1>1, <1>2, <1>3, <1>4 DEF Kept, Rows, Snapshot
<1>6. Held = mem /\ Held' = mem'  BY <1>1, <1>3 DEF Held, Snapshot
<1>7. CASE Evict(p)
      <2>1. pc[p] = "idle" /\ mem # Nothing /\ mem' = Nothing /\ UNCHANGED mysql
            BY <1>7 DEF Evict
      <2>2. mem = newest  BY <1>2, <1>6, <2>1 DEF Kept, Copied
      <2>3. \/ pc'[p] = "evict" /\ val'[p] = newest
            \/ pc'[p] = "idle" /\ ~dirty
            BY <1>1, <1>7, <2>1, <2>2 DEF Evict, Apart, StoreTypes, Placed, Typed, Go, Take
      <2>4. \A q \in Procs : pc[q] # "mark"
            BY <1>7 DEF Evict, Unmarked, Apart, StoreTypes, Placed, Procs
      <2>5. ~dirty => mysql = newest
            BY <1>1, <1>2, <1>3, <2>1, <2>4 DEF Kept, Safe, Marked, Writing
      <2>6. Copied' /\ Safe'  BY <1>1, <1>6, <2>1, <2>3, <2>5 DEF Copied, Safe
      <2>7. Carried'  BY <1>1, <1>3, <2>1, <2>3, <2>4 DEF Carried, Writing
      <2> QED  BY <1>5, <2>6, <2>7 DEF Kept
<1>8. CASE EvictExec(p)
      <2>1. /\ pc[p] = "evict" /\ pc'[p] = "idle"
            /\ \/ mysql' = val[p] /\ UNCHANGED <<mem, dirty>>
               \/ mem' = (IF mem = Nothing THEN val[p] ELSE mem) /\ dirty' = TRUE /\ UNCHANGED mysql
            BY <1>1, <1>8 DEF EvictExec, Apart, StoreTypes, Placed, Go
      <2>2. val[p] # Nothing /\ ((val[p] = newest /\ mem = Nothing) \/ (Waits /\ Marked))
            BY <1>1, <1>2, <2>1 DEF Apart, Standing, Steady, Kept, Carried
      <2>3. CASE Waits /\ Marked
            <3>1. mem # Nothing /\ mem' = mem  BY <1>6, <2>1, <2>3 DEF Waits
            <3>2. Waits' /\ Marked'
                  BY <1>1, <1>6, <2>1, <2>3, <3>1 DEF Waits, Marked
            <3>3. Carried'  BY <1>1, <1>2, <1>3, <2>1, <3>2 DEF Kept, Carried, Writing
            <3> QED  BY <1>5, <3>2, <3>3 DEF Kept, Copied, Safe, Waits
      <2>4. CASE val[p] = newest /\ mem = Nothing
            <3>1. Copied' /\ Safe'
                  BY <1>1, <1>6, <2>1, <2>2, <2>4 DEF Copied, Safe, Waits, Marked
            <3>2. \A q \in Procs : pc[q] # "mark"
                  BY <1>2, <1>6, <2>4 DEF Kept, Carried, Waits
            <3>3. Carried'  BY <1>1, <1>3, <2>1, <3>2 DEF Carried, Writing
            <3> QED  BY <1>5, <3>1, <3>3 DEF Kept
      <2> QED  BY <2>2, <2>3, <2>4
<1> QED  BY <1>7, <1>8

LEMMA PromiseKept == ASSUME StoreParams, Apart, Next, ~overlap', newest' # Unknown, ~Detour' PROVE Kept'
<1>1. ASSUME NEW p \in Handlers \union Flushers, Flush(p) \/ Leave(p) \/ LoadDirtyTest(p), dirty
      PROVE  Kept'
      BY <1>1, PersistPromise DEF Flush, Leave, LoadDirtyTest, Procs, Writing
<1>2. ASSUME NEW h \in Handlers, Enter(h) PROVE Kept'
      BY <1>2, StillKept DEF Enter, hands, Kept, Copied, Carried, Rows, Safe, Held, Waits,
         Marked, Snapshot
<1>3. ASSUME NEW h \in Handlers, Handle(h) \/ Continue(h) PROVE Kept'
      <2> QED
          BY <1>1, <1>2, <1>3, PersistGoesOn, LoadPromise, FillPromise, SavePromise,
             DeletePromise DEF Handle, Continue, Flush, Persist, StoreParams,
             DataStoreParams
<1>4. ASSUME NEW p \in Flushers, Background(p) PROVE Kept'
      BY <1>1, <1>4, PersistGoesOn DEF Background, Flush, Persist
<1> QED  BY <1>3, <1>4, EvictPromise DEF Next

LEMMA StoreStart == ASSUME StoreParams, Init PROVE StoreInv
<1>1. Nothing \in Values /\ 1 \in Values /\ Nothing # 1
      BY DEF StoreParams, DataStoreParams, Values, Nothing
<1>2. Placed  BY DEF Init, Placed, Procs
<1>3. Typed  BY <1>1 DEF StoreParams, DataStoreParams, Init, Typed
<1>4. Counted  BY DEF StoreParams, DataStoreParams, Init, Counted, Procs
<1>5. Mutex /\ InTier  BY <1>1 DEF StoreParams, DataStoreParams, Init, Mutex, InTier, Fits,
                          SnapPhases, Loading, Writing, LooksUp, Snapshot, Procs
<1>6. Standing /\ Missed  BY DEF Init, Standing, Steady, RowKept, Missed, LooksUp, Procs
<1>7. Kept
      <2>1. Held \in {Nothing, 1} /\ mysql = newest
            BY DEF StoreParams, DataStoreParams, Init, Held, Snapshot
      <2>2. Copied /\ Safe  BY <2>1 DEF Copied, Safe, Init
      <2>3. Carried /\ Rows  BY DEF Init, Carried, Rows, Procs
      <2> QED  BY <2>2, <2>3 DEF Kept
<1> QED  BY <1>2, <1>3, <1>4, <1>5, <1>6, <1>7 DEF StoreInv, StoreTypes, Apart

(* What has met once has met. *)
LEMMA OverlapStays == ASSUME [Next]_vars, overlap PROVE overlap'
<1>1. ASSUME NEW p, Persist(p, "idle") \/ Persist(p, "offline") \/ Persist(p, "reread") PROVE overlap'
      BY <1>1 DEF Persist
<1>2. ASSUME NEW h, Handle(h) PROVE overlap'
      BY <1>1, <1>2 DEF Handle, SaveBegin, Enter, Flush, Leave, LoadRedis, LoadMem,
         DeleteRow, RemoveEntry
<1>3. ASSUME NEW h, Continue(h) PROVE overlap'
      BY <1>1, <1>3 DEF Continue, SavePut, SaveMark, SetOffline, PersistRead, PersistExec,
         LoadSource, LoadDirtyTest, LoadReread, LoadFill, LoadCold, LoadColdSource,
         LoadRecheck, LoadFillMem, DeleteCache, DeleteUnmark, RemoveRow, RemoveRedis
<1>4. ASSUME NEW p, Background(p) \/ Evict(p) \/ EvictExec(p) PROVE overlap'
      BY <1>1, <1>4 DEF Background, Flush, PersistRead, PersistExec, Evict, EvictExec
<1> QED  BY <1>2, <1>3, <1>4 DEF Next, vars

LEMMA ApartKept == ASSUME StoreParams, Apart, [Next]_vars, ~overlap' PROVE Apart'
<1>1. CASE Next
      <2>1. StoreTypes'
            BY <1>1, PlacedKept, TypedKept, CountedKept DEF Apart, StoreTypes
      <2> QED  BY <1>1, <2>1, MutexKept, InTierKept, StandingKept, MissedKept, PromiseKept
               DEF Apart
<1>2. CASE UNCHANGED vars
      <2> USE <1>2 DEF vars, places, hands, Apart
      <2>1. (StoreTypes /\ Mutex)'
            BY DEF StoreTypes, Placed, Typed, Counted, Mutex
      <2>2. (InTier /\ Standing /\ Missed)'
            BY DEF InTier, Fits, Standing, Steady, RowKept, Missed, Loading, Snapshot
      <2>3. (newest = Unknown \/ Detour \/ Kept)'
            BY DEF Detour, Kept, Copied, Carried, Rows, Safe, Held, Waits, Marked, Snapshot
      <2> QED  BY <2>1, <2>2, <2>3
<1> QED  BY <1>1, <1>2

LEMMA StoreStep == ASSUME StoreParams, StoreInv, [Next]_vars PROVE StoreInv'
<1>1. StoreTypes'
      <2>1. CASE Next
            BY <2>1, PlacedKept, TypedKept, CountedKept DEF StoreInv, StoreTypes
      <2>2. CASE UNCHANGED vars
            BY <2>2 DEF vars, places, hands, StoreInv, StoreTypes, Placed, Typed, Counted
      <2> QED  BY <2>1, <2>2
<1>2. ~overlap' => Apart'  BY OverlapStays, ApartKept DEF StoreInv
<1> QED  BY <1>1, <1>2 DEF StoreInv

LEMMA StoreMeaning == ASSUME StoreParams, StoreInv PROVE DSTypeOK /\ NewestIsSafe
<1>1. ASSUME ~overlap PROVE NewestIsHeld
      <2>1. CASE newest = Unknown \/ Detour  BY <2>1 DEF NewestIsHeld
      <2>2. CASE ~Detour /\ Kept
            <3>1. Source = Held  BY <2>2 DEF Detour, Source, Held
            <3> QED  BY <2>2, <3>1 DEF Kept, Safe, Waits, Marked, NewestIsHeld
      <2> QED  BY <1>1, <2>1, <2>2 DEF StoreInv, Apart
<1>2. DSTypeOK  BY DEF StoreInv, StoreTypes, Typed, Counted, DSTypeOK
<1> QED  BY <1>1, <1>2 DEF NewestIsSafe

LEMMA LoadsAreFresh == ASSUME StoreParams, StoreInv, [Next]_vars PROVE FreshLoads
<1> SUFFICES ASSUME ~overlap', NEW h \in Handlers, result'[h] # result[h], newest # Unknown, ~Snapshot
             PROVE  result'[h] = newest
    BY DEF FreshLoads
<1> Apart  BY OverlapStays DEF StoreInv
<1>1. Kept /\ Held = redis  BY DEF Apart, StoreTypes, Detour, Held
<1>2. row[h] \in {Nothing, newest} /\ (pc[h] = "fill" => row[h] = newest)
      BY <1>1 DEF Kept, Rows
<1>3. redis # Nothing => redis = newest  BY <1>1 DEF Kept, Copied
<1>4. CASE LoadSource(h) \/ LoadReread(h)
      <2>1. redis = Nothing  BY <1>4 DEF LoadSource, LoadReread, Apart, StoreTypes, InTier, Loading
      <2>2. mysql = newest  BY <1>1, <1>4, <2>1, RowIsNewest, NoneTakenOut DEF LoadSource,
                               LoadReread
      <2> QED  BY <1>4, <2>2 DEF LoadSource, LoadReread, Return, Apart, StoreTypes, Typed
<1>5. CASE LoadRedis(h, TRUE) \/ LoadRedis(h, FALSE)
      BY <1>3, <1>5 DEF LoadRedis, Return, Apart, StoreTypes, Typed
<1>6. CASE LoadFill(h)  BY <1>2, <1>6 DEF LoadFill, Return, Apart, StoreTypes, Typed
<1>7. CASE PersistRead(h) \/ PersistExec(h)
      BY <1>2, <1>7 DEF PersistRead, PersistExec, Persisted, PersistFailed, Return,
         Apart, StoreTypes, Typed
<1>8. ~LoadMem(h) /\ ~LoadCold(h) /\ ~LoadColdSource(h) /\ ~LoadRecheck(h) /\ ~LoadFillMem(h)
      BY OnlyOne DEF LoadMem, ViaMem, LoadCold, LoadColdSource, LoadRecheck, LoadFillMem,
         Apart, StoreTypes, InTier, Fits, SnapPhases
<1>9. \E g \in Handlers : Handle(g) \/ Continue(g)
      <2>1. ASSUME NEW p \in Flushers, Background(p) PROVE result' = result
            BY <2>1 DEF Background, Flush, Persist, PersistRead, PersistExec, Persisted,
               PersistFailed, StoreParams, Apart, StoreTypes, Placed
      <2>2. ASSUME NEW p \in Evictors, Evict(p) \/ EvictExec(p) PROVE result' = result
            BY <2>2 DEF Evict, EvictExec
      <2> QED  BY <2>1, <2>2 DEF Next, vars, hands
<1>10. Handle(h) \/ Continue(h)  BY <1>9, OnlyOne
<1>11. CASE Handle(h)
       BY <1>5, <1>8, <1>11 DEF Handle, SaveBegin, Enter, Flush, Leave, Persist, DeleteRow,
          RemoveEntry, hands
<1>12. CASE Continue(h)
       BY <1>4, <1>6, <1>7, <1>8, <1>12 DEF Continue, SavePut, SaveMark, SetOffline,
          LoadDirtyTest, Persist, DeleteCache, DeleteUnmark, RemoveRow, RemoveRedis
<1> QED  BY <1>10, <1>11, <1>12

-----------------------------------------------------------------------------
(* Save, persistDirty, evictLRU, delMMO, for any flushes and evictions     *)
(* that run beside a request and any faults: until calls meet that the     *)
(* store does not keep apart, the last saved value is in MySQL, on its way *)
(* there, or marked where the next flush finds it.                         *)
THEOREM NewestNeverLost == ASSUME StoreParams PROVE Spec => []DSTypeOK /\ []NewestIsSafe
<1>1. Init => StoreInv  BY StoreStart
<1>2. StoreInv /\ [Next]_vars => StoreInv'  BY StoreStep
<1>3. StoreInv => DSTypeOK /\ NewestIsSafe  BY StoreMeaning
<1> QED  BY <1>1, <1>2, <1>3, PTL DEF Spec

(* getCache, LoadAll: what a load of a cached key returns, and fills into  *)
(* Redis behind the back of the flushes, is what the last save wrote,      *)
(* until such calls meet.                                                  *)
THEOREM LoadedIsNewest == ASSUME StoreParams PROVE Spec => LoadIsFresh
<1>1. StoreInv /\ [Next]_vars => [FreshLoads]_vars  BY LoadsAreFresh
<1> QED  BY <1>1, StoreStart, StoreStep, PTL DEF Spec, LoadIsFresh

-----------------------------------------------------------------------------
(* The numbers of objects: a process is ahead of the store only after a    *)
(* Save that failed, and what was given lies behind where the process, or  *)
(* the next one, goes on, but for the nodes that forgot.                   *)
IdTypeOK ==
    /\ unsaved \subseteq Nodes /\ forgot \subseteq Nodes
    /\ stored \in [Nodes -> Nat] /\ hwm \in [Nodes -> Nat] /\ ceiling \in [Nodes -> Nat]
    /\ loaded \in [Nodes -> BOOLEAN]

Backed ==
    /\ \A n \in unsaved : loaded[n]
    /\ \A n \in Nodes : loaded[n] => hwm[n] <= ceiling[n] /\ (ceiling[n] = stored[n] \/ n \in unsaved)

Below == \A id \in given : \E m \in Nodes, s \in Nat :
             id = G!Pack(m, s) /\ (s <= G!Last(m) \/ m \in forgot)

IdInv == IdTypeOK /\ Backed /\ Below /\ repeated \subseteq forgot

-----------------------------------------------------------------------------
(* A packed number gives its node and its counter back. *)
LEMMA PackInjective ==
    ASSUME G!IdGeneratorParams,
           NEW n \in Nodes, NEW m \in Nodes, NEW s \in Nat, NEW t \in Nat, G!Pack(n, s) = G!Pack(m, t)
    PROVE  n = m /\ s = t
<1>1. n \in 0..Radix-1 /\ m \in 0..Radix-1 /\ Radix \in Nat \ {0}
      BY DEF G!IdGeneratorParams
<1>2. s * Radix + n = t * Radix + m  BY DEF G!Pack
<1>3. ~(s < t)
      <2>1. SUFFICES ASSUME s < t PROVE FALSE  OBVIOUS
      <2>2. PICK d \in Nat : t = s + 1 + d  BY <2>1
      <2>3. t * Radix = s * Radix + Radix + d * Radix  BY <2>2, <1>1
      <2>4. s * Radix \in Nat /\ d * Radix \in Nat  BY <1>1
      <2> QED  BY <2>3, <2>4, <1>1, <1>2
<1>4. ~(t < s)
      <2>1. SUFFICES ASSUME t < s PROVE FALSE  OBVIOUS
      <2>2. PICK d \in Nat : s = t + 1 + d  BY <2>1
      <2>3. s * Radix = t * Radix + Radix + d * Radix  BY <2>2, <1>1
      <2>4. t * Radix \in Nat /\ d * Radix \in Nat  BY <1>1
      <2> QED  BY <2>3, <2>4, <1>1, <1>2
<1>5. s = t  BY <1>3, <1>4
<1>6. s * Radix \in Nat  BY <1>1
<1> QED  BY <1>1, <1>2, <1>5, <1>6

(* reserveSegment: a ceiling below need ends at or above it. *)
LEMMA GrowthSuffices ==
    ASSUME G!IdGeneratorParams, NEW c \in Nat, NEW need \in Nat, need > c
    PROVE  G!Growth(c, need) \in Nat /\ c + G!Growth(c, need) >= need
<1>1. Step \in Nat /\ Step > 0 /\ Limit \in Nat  BY DEF G!IdGeneratorParams
<1>2. need - c \in Nat /\ (need - c) % Step \in 0..Step-1  BY <1>1
<1>3. G!Padding(need - c) \in Nat  BY <1>1, <1>2 DEF G!Padding
<1> QED  BY <1>2, <1>3 DEF G!Growth

(* The one argument every hand-out rests on: counters above the last one   *)
(* given make numbers that are new, unless the node forgot.                *)
LEMMA NewIdsAreNew ==
    ASSUME G!IdGeneratorParams, IdTypeOK, Below, NEW n \in Nodes \ forgot, NEW size \in Nat
    PROVE  {G!Pack(n, s) : s \in G!Advanced(n, size) \cap 0..MaxCounter} \cap given = {}
<1>1. SUFFICES ASSUME NEW s \in G!Advanced(n, size), s \in 0..MaxCounter, G!Pack(n, s) \in given
               PROVE  FALSE
      OBVIOUS
<1>2. G!Last(n) \in Nat  BY DEF IdTypeOK, G!Last
<1>3. s \in Nat /\ s > G!Last(n)  BY <1>1, <1>2 DEF G!Advanced
<1>4. PICK m \in Nodes, t \in Nat : G!Pack(n, s) = G!Pack(m, t) /\ (t <= G!Last(m) \/ m \in forgot)
      BY <1>1 DEF Below
<1>5. n = m /\ s = t  BY <1>3, <1>4, PackInjective
<1> QED  BY <1>2, <1>3, <1>4, <1>5

(* A call, whatever the store answers. *)
LEMMA TakeKeeps ==
    ASSUME G!IdGeneratorParams, IdInv, NEW n \in Nodes, NEW size \in Nat, G!Take(n, size)
    PROVE  IdInv'
<1> USE DEF IdInv
<1> DEFINE top == G!Reserved(n) + G!Growth(G!Reserved(n), G!Last(n) + size)
<1> DEFINE Reaches(last, c) ==
        /\ G!Remember(n, last, c) /\ last <= c
        /\ forgot' = forgot
        /\ \/ /\ stored' \in [Nodes -> Nat] /\ \A m \in Nodes \ {n} : stored'[m] = stored[m]
              /\ stored'[n] = c /\ unsaved' \in {unsaved, unsaved \ {n}}
           \/ stored' = stored /\ n \in unsaved' /\ unsaved' = unsaved \union {n}
<1>1. G!Last(n) \in Nat /\ G!Reserved(n) \in Nat  BY DEF IdTypeOK, G!Last, G!Reserved
<1>2. /\ G!Last(n) <= G!Reserved(n)
      /\ G!Reserved(n) = stored[n] \/ n \in unsaved
      BY DEF IdTypeOK, Backed, G!Last, G!Reserved
<1>3. ASSUME NEW last \in Nat, NEW c \in Nat, Reaches(last, c)
      PROVE  /\ IdTypeOK' /\ Backed'
             /\ \A m \in Nodes \ {n} : G!Last(m)' = G!Last(m)
             /\ G!Last(n)' = last
      <2>1. loaded' = [loaded EXCEPT ![n] = TRUE] /\ hwm' = [hwm EXCEPT ![n] = last]
            /\ ceiling' = [ceiling EXCEPT ![n] = c] /\ last <= c /\ forgot' = forgot
            BY <1>3 DEF G!Remember
      <2>2. IdTypeOK'  BY <1>3, <2>1 DEF IdTypeOK
      <2>3. \A m \in Nodes \ {n} : G!Last(m)' = G!Last(m)
            BY <1>3, <2>1 DEF IdTypeOK, G!Last
      <2>4. G!Last(n)' = last  BY <2>1 DEF IdTypeOK, G!Last
      <2>5. \A m \in unsaved' : loaded'[m]  BY <1>3, <2>1 DEF IdTypeOK, Backed
      <2>6. ASSUME NEW m \in Nodes, loaded'[m]
            PROVE  hwm'[m] <= ceiling'[m] /\ (ceiling'[m] = stored'[m] \/ m \in unsaved')
            <3>1. CASE m = n  BY <1>3, <2>1, <3>1 DEF IdTypeOK
            <3>2. CASE m # n  BY <1>3, <2>1, <2>6, <3>2 DEF IdTypeOK, Backed
            <3> QED  BY <3>1, <3>2
      <2> QED  BY <2>2, <2>3, <2>4, <2>5, <2>6 DEF Backed
<1>4. ASSUME NEW c \in Nat, Reaches(G!Last(n), c), G!GivesNothing PROVE IdInv'
      <2>1. IdTypeOK' /\ Backed' /\ \A m \in Nodes : G!Last(m)' = G!Last(m)
            BY <1>1, <1>3, <1>4
      <2>2. given' = given /\ repeated' = repeated /\ forgot' = forgot
            BY <1>4 DEF G!GivesNothing
      <2>3. Below'  BY <2>1, <2>2 DEF Below, G!Pack
      <2> QED  BY <2>1, <2>2, <2>3
<1>5. ASSUME NEW c \in Nat, Reaches(G!Last(n) + size, c), G!GiveOut(n, G!Advanced(n, size))
      PROVE  IdInv'
      <2>1. /\ IdTypeOK' /\ Backed' /\ forgot' = forgot
            /\ \A m \in Nodes \ {n} : G!Last(m)' = G!Last(m)
            /\ G!Last(n)' = G!Last(n) + size
            BY <1>1, <1>3, <1>5
      <2>2. ASSUME NEW id \in given
            PROVE  \E m \in Nodes, s \in Nat :
                       id = G!Pack(m, s) /\ (s <= G!Last(m)' \/ m \in forgot)
            <3>1. PICK m \in Nodes, s \in Nat : id = G!Pack(m, s) /\ (s <= G!Last(m) \/ m \in forgot)
                  BY DEF Below
            <3>2. G!Last(m) \in Nat  BY DEF IdTypeOK, G!Last
            <3>3. s <= G!Last(m)' \/ m \in forgot  BY <1>1, <2>1, <3>1, <3>2
            <3> QED  BY <3>1, <3>3
      <2>3. ASSUME NEW s \in G!Advanced(n, size)
            PROVE  \E m \in Nodes, t \in Nat :
                       G!Pack(n, s) = G!Pack(m, t) /\ (t <= G!Last(m)' \/ m \in forgot)
            <3>1. s \in Nat /\ s <= G!Last(n)'  BY <1>1, <2>1 DEF G!Advanced
            <3> QED  BY <3>1
      <2>4. Below'  BY <1>5, <2>1, <2>2, <2>3 DEF Below, G!GiveOut, G!Pack
      <2>5. repeated' \subseteq forgot
            <3>1. CASE n \in forgot  BY <1>5, <3>1 DEF G!GiveOut
            <3>2. CASE n \notin forgot
                  <4>1. {G!Pack(n, s) : s \in G!Advanced(n, size) \cap 0..MaxCounter} \cap given = {}
                        BY <3>2, NewIdsAreNew
                  <4> QED  BY <1>5, <4>1 DEF G!GiveOut
            <3> QED  BY <3>1, <3>2
      <2> QED  BY <2>1, <2>4, <2>5
<1>6. forgot' = forgot  BY DEF G!Take
<1>7. CASE G!Answered(n)
      BY <1>1, <1>2, <1>4, <1>6, <1>7 DEF G!Answered, IdTypeOK
<1>8. CASE G!FromSegment(n, size)
      BY <1>1, <1>2, <1>5, <1>6, <1>8 DEF G!FromSegment, IdTypeOK
<1>9. CASE G!FromNewSegment(n, size)
      <2>1. top \in Nat /\ top >= G!Last(n) + size
            BY <1>1, <1>9, GrowthSuffices DEF G!FromNewSegment
      <2>2. G!Saved(n, top) => Reaches(G!Last(n), top) \/ ~G!Remember(n, G!Last(n), top)
            BY <1>1, <1>6, <2>1 DEF G!Saved, IdTypeOK
      <2>3. G!NotSaved(n) => Reaches(G!Last(n), top) \/ ~G!Remember(n, G!Last(n), top)
            BY <1>1, <1>6, <2>1 DEF G!NotSaved, IdTypeOK
      <2>4. G!Saved(n, top) =>
                Reaches(G!Last(n) + size, top) \/ ~G!Remember(n, G!Last(n) + size, top)
            BY <1>1, <1>6, <2>1 DEF G!Saved, IdTypeOK
      <2>5. CASE /\ G!Saved(n, top)
                 /\ G!Remember(n, G!Last(n) + size, top) /\ G!GiveOut(n, G!Advanced(n, size))
            BY <1>5, <2>1, <2>4, <2>5
      <2>6. CASE /\ G!Saved(n, top) \/ G!NotSaved(n)
                 /\ G!Remember(n, G!Last(n), top) /\ G!GivesNothing
            BY <1>4, <2>1, <2>2, <2>3, <2>6
      <2> QED  BY <1>9, <2>5, <2>6 DEF G!FromNewSegment
<1> QED  BY <1>7, <1>8, <1>9 DEF G!Take

(* A restart goes on from the ceiling, which is not behind what was given, *)
(* or the node has forgotten.                                              *)
LEMMA RestartKeeps ==
    ASSUME IdInv, NEW n \in Nodes, G!Restart(n)
    PROVE  IdInv'
<1> USE DEF IdInv
<1>1. IdTypeOK'  BY DEF IdTypeOK, G!Restart
<1>2. Backed'  BY DEF IdTypeOK, Backed, G!Restart
<1>3. \A m \in Nodes : /\ G!Last(m) \in Nat /\ G!Last(m)' \in Nat
                       /\ G!Last(m) <= G!Last(m)' \/ m \in forgot'
      BY DEF IdTypeOK, Backed, G!Last, G!Restart
<1>4. forgot \subseteq forgot' /\ given' = given /\ repeated' = repeated  BY DEF G!Restart
<1>5. ASSUME NEW id \in given
      PROVE  \E m \in Nodes, s \in Nat : id = G!Pack(m, s) /\ (s <= G!Last(m)' \/ m \in forgot')
      <2>1. PICK m \in Nodes, s \in Nat : id = G!Pack(m, s) /\ (s <= G!Last(m) \/ m \in forgot)
            BY DEF Below
      <2>2. s <= G!Last(m)' \/ m \in forgot'  BY <1>3, <1>4, <2>1
      <2> QED  BY <2>1, <2>2
<1>6. Below'  BY <1>4, <1>5 DEF Below, G!Pack
<1> QED  BY <1>1, <1>2, <1>4, <1>6

(* Nothing a call does, with any answer of the store, takes the memory's   *)
(* last number beyond its ceiling.                                         *)
LEMMA TakeStaysWithin ==
    ASSUME G!IdGeneratorParams, IdTypeOK, G!WithinSegment, NEW n \in Nodes, NEW size \in Nat,
           G!Take(n, size)
    PROVE  G!WithinSegment'
<1>1. G!Last(n) \in Nat /\ G!Reserved(n) \in Nat /\ G!Last(n) <= G!Reserved(n)
      BY DEF IdTypeOK, G!WithinSegment, G!Last, G!Reserved
<1>2. ASSUME NEW last \in Nat, NEW top \in Nat, G!Remember(n, last, top), last <= top
      PROVE  G!WithinSegment'
      BY <1>2 DEF IdTypeOK, G!WithinSegment, G!Remember
<1>3. CASE G!Answered(n)  BY <1>1, <1>2, <1>3 DEF G!Answered
<1>4. CASE G!FromSegment(n, size)  BY <1>1, <1>2, <1>4 DEF G!FromSegment
<1>5. CASE G!FromNewSegment(n, size)
      <2> DEFINE top == G!Reserved(n) + G!Growth(G!Reserved(n), G!Last(n) + size)
      <2>1. top \in Nat /\ top >= G!Last(n) + size
            BY <1>1, <1>5, GrowthSuffices DEF G!FromNewSegment
      <2>2. G!Remember(n, G!Last(n) + size, top) \/ G!Remember(n, G!Last(n), top)
            BY <1>5 DEF G!FromNewSegment
      <2> QED  BY <1>1, <1>2, <2>1, <2>2
<1> QED  BY <1>3, <1>4, <1>5 DEF G!Take

LEMMA IdStart == G!IGInit => IdInv /\ G!WithinSegment
<1> SUFFICES ASSUME G!IGInit PROVE IdInv /\ G!WithinSegment  OBVIOUS
<1>1. IdTypeOK  BY DEF G!IGInit, IdTypeOK
<1>2. Backed /\ G!WithinSegment  BY DEF G!IGInit, Backed, G!WithinSegment
<1>3. Below /\ repeated \subseteq forgot  BY DEF G!IGInit, Below
<1> QED  BY <1>1, <1>2, <1>3 DEF IdInv

LEMMA IdStep == G!IdGeneratorParams /\ IdInv /\ G!WithinSegment /\ [G!IGNext]_(G!vars)
                    => IdInv' /\ G!WithinSegment'
<1> SUFFICES ASSUME G!IdGeneratorParams, IdInv, G!WithinSegment, [G!IGNext]_(G!vars)
             PROVE  IdInv' /\ G!WithinSegment'
    OBVIOUS
<1>1. IdTypeOK  BY DEF IdInv
<1>2. CASE UNCHANGED G!vars
      BY <1>2 DEF G!vars, IdInv, IdTypeOK, Backed, Below, G!Last, G!Pack, G!WithinSegment
<1>3. ASSUME NEW n \in Nodes, NEW size \in Nat, G!Take(n, size) PROVE IdInv' /\ G!WithinSegment'
      BY <1>1, <1>3, TakeKeeps, TakeStaysWithin
<1>4. ASSUME NEW n \in Nodes, G!Next(n) PROVE IdInv' /\ G!WithinSegment'
      BY <1>3, <1>4 DEF G!Next
<1>5. ASSUME NEW n \in Nodes, G!Reserve(n) PROVE IdInv' /\ G!WithinSegment'
      <2>1. Sizes \subseteq Nat  BY DEF G!IdGeneratorParams
      <2> QED  BY <1>3, <1>5, <2>1 DEF G!Reserve
<1>6. ASSUME NEW n \in Nodes, G!Restart(n) PROVE IdInv' /\ G!WithinSegment'
      <2>1. G!WithinSegment'  BY <1>1, <1>6 DEF IdTypeOK, G!WithinSegment, G!Restart
      <2> QED  BY <1>6, <2>1, RestartKeeps
<1> QED  BY <1>2, <1>4, <1>5, <1>6 DEF G!IGNext

LEMMA IdMeaning == ASSUME IdInv PROVE G!IdsAreUnique
BY DEF IdInv, G!IdsAreUnique

-----------------------------------------------------------------------------
(* StoreSequencer and Generator: over restarts, saves that fail with or    *)
(* without effect, blocks that cross segments and the end of the range, an *)
(* object number is handed out twice only by a node whose process ended    *)
(* while its last ceiling was not in the store.                            *)
THEOREM NeverHandedOutTwice ==
    ASSUME G!IdGeneratorParams
    PROVE  G!IGSpec => []G!IdsAreUnique
<1>1. IdInv => G!IdsAreUnique  BY IdMeaning
<1> QED  BY <1>1, IdStart, IdStep, PTL DEF G!IGSpec

(* reserveSegment, also when a Save fails without effect: what a process   *)
(* hands out lies in the segment it holds, above what it handed out.       *)
THEOREM StaysWithinSegment ==
    ASSUME G!IdGeneratorParams
    PROVE  G!IGSpec => []G!WithinSegment
BY IdStart, IdStep, PTL DEF G!IGSpec
-----------------------------------------------------------------------------
(* The views of a scene: the windows close for any goroutines, and for one *)
(* the clients show what the grid holds.                                   *)
CONSTANTS None, Objects, Callers, Places, Radii, CellSize, ShardSize, Direct, Strays, MaxNested, MaxLost
VARIABLES pos, radius, visible, maxR, held, batching, marked, pending, member, depth, open,
          batch, batchMu, client, lost, call
V == INSTANCE SceneView WITH dirty <- marked

ViewPcs == {"idle", "begin", "arm", "grid", "lock", "mark", "scan", "setmax", "dispatch", "part",
            "end", "take", "measure", "refresh", "last", "close", "flush"}
ViewEvents == Objects \X Objects \X {"enter", "leave"}
ViewCalls ==
    [pc : ViewPcs, op : {"none", "enter", "move", "leave", "watch", "begin"},
     obj : Objects \union {None}, to : Places \union Radii \union {0}, at : Places \union {0},
     limit : Radii \union {0}, box : SUBSET Int, marks : SUBSET Objects,
     events : SUBSET ViewEvents, scan : BOOLEAN, own : BOOLEAN, window : 0..MaxNested]

(* A call that names an object has one, and a place or a radius with it.   *)
Named(k) ==
    /\ k.pc \in {"begin", "grid", "lock", "arm"} => k.op # "none"
    /\ k.op \in {"enter", "move", "leave", "watch"} => k.obj \in Objects
    /\ k.op \in {"enter", "move"} => k.to \in Places
    /\ k.op = "watch" => k.to \in Radii \union {0}
    /\ k.pc \in {"grid", "lock", "mark", "scan", "setmax"} => k.op \notin {"begin", "none"}
    /\ k.pc = "lock" => k.at \in Places \/ k.op = "enter"

ViewTypes ==
    /\ pos \in [Objects -> Places \union {None}] /\ radius \in [Objects -> Radii \union {0}]
    /\ visible \in [Objects -> SUBSET Objects] /\ client \in [Objects -> SUBSET Objects]
    /\ lost \subseteq ViewEvents
    /\ maxR \in Radii \union {0} /\ depth \in Nat
    /\ member \subseteq Objects /\ marked \subseteq Objects /\ pending \subseteq ViewEvents
    /\ batching \in BOOLEAN /\ open \in BOOLEAN
    /\ batch = V!NoBatch \/ batch \in SUBSET ViewEvents
    /\ call \in [Callers -> ViewCalls] /\ \A c \in Callers : Named(call[c])

(* The windows a goroutine has open: those it began, and the one its call  *)
(* has, is opening or is about to end.                                     *)
Opening(k) == k.own \/ k.pc \in {"arm", "end"}
Opened(k) == k.window + (IF Opening(k) THEN 1 ELSE 0)
OpenWindows == {t \in Callers \X (1..(MaxNested + 1)) : t[2] <= Opened(call[t[1]])}

WindowSound(k) ==
    /\ k.own => k.pc \in {"grid", "lock", "mark", "scan", "setmax", "dispatch", "part"}
    /\ k.pc \in {"begin", "arm"} /\ k.op = "begin" => k.window < MaxNested

(* What is open, batching or gathered without a window is being ended.     *)
Ending(k) == k.pc \in {"take", "measure", "refresh", "last", "close"}
WindowsCounted ==
    /\ depth = Cardinality(OpenWindows)
    /\ \A c \in Callers : WindowSound(call[c])
    /\ depth = 0 /\ batching => \E c \in Callers : call[c].pc = "take"
    /\ depth = 0 /\ (open \/ batch # V!NoBatch) => \E c \in Callers : Ending(call[c])
    /\ ~batching => marked = {} /\ pending = {}

WindowInv == ViewTypes /\ WindowsCounted

(* For one goroutine.  Where it stands says which windows are open, ...    *)
Still == ~open /\ ~batching /\ batch = V!NoBatch
Windowed == open /\ batching /\ batch = {}
Stands(k) ==
    /\ depth = Opened(k)
    /\ Direct => /\ Still /\ depth = 0
                 /\ k.pc \in {"idle", "grid", "lock", "scan", "setmax", "dispatch"}
    /\ ~Direct =>
        /\ k.pc \in {"idle", "begin"} => IF depth = 0 THEN Still ELSE Windowed
        /\ k.pc \in {"grid", "lock", "mark", "scan", "setmax", "dispatch", "part", "end"}
               => Windowed /\ depth > 0
        /\ k.pc = "arm" => depth = 1 /\ open /\ ~batching /\ batch = {}
        /\ k.pc = "take" => Windowed /\ depth = 0
        /\ k.pc \in {"measure", "refresh"} => open /\ ~batching /\ batch = {} /\ depth = 0
        /\ k.pc \in {"last", "close"} => open /\ ~batching /\ batch # V!NoBatch /\ depth = 0
        /\ k.pc = "flush" => Still /\ depth = 0

(* ... which of its marks and events are under way, and what it has read.  *)
Carrying(k) ==
    /\ k.pc \notin {"mark", "measure", "refresh"} => k.marks = {}
    /\ k.pc \notin {"measure", "refresh", "last", "flush", "scan", "setmax", "dispatch"}
           => k.events = {}
    /\ ~Direct /\ k.pc \in {"scan", "setmax", "dispatch"} => k.events = {}
    /\ k.pc \notin {"begin", "arm", "grid", "lock", "mark", "scan", "setmax", "dispatch", "part"}
           => k.op = "none"
    /\ k.pc = "part" => k.op = "leave"
    /\ k.pc = "lock" =>
        /\ k.limit = maxR
        /\ V!Present(k.obj) <=> k.op # "enter"
        /\ V!Present(k.obj) => k.at = pos[k.obj]
    /\ k.pc = "setmax" => \A w \in Objects : radius[w] <= k.limit
    /\ k.pc = "refresh" =>
        \A w \in k.marks : V!Present(w) => V!ViewOf(w) \subseteq k.box

(* What w sees of objects at p with the views r.                           *)
ViewIn(p, r, w) ==
    IF p[w] # None /\ r[w] > 0
    THEN {t \in Objects \ {w} : p[t] # None /\ V!Near(p[t], p[w], r[w])} ELSE {}

(* The grid: who is not marked sees what is there.                         *)
GridSound(k) ==
    /\ \A w \in Objects : /\ ~V!Present(w) => radius[w] = 0
                          /\ radius[w] <= maxR
                          /\ radius[w] = 0 => visible[w] = {}
    /\ \A w \in Objects \ (marked \union k.marks) : visible[w] = ViewIn(pos, radius, w)

(* The client: with the events that have gathered it has what the grid has *)
(* the object see.                                                         *)
Gathered(k) == pending \union k.events \union (IF batch = V!NoBatch THEN {} ELSE batch)
Shows(E, seen, told) ==
    \A w, t \in Objects :
        /\ ~(<<w, t, "enter">> \in E /\ <<w, t, "leave">> \in E)
        /\ t \in seen[w] <=> \/ <<w, t, "enter">> \in E
                             \/ t \in told[w] /\ <<w, t, "leave">> \notin E
ClientSound(k) ==
    /\ \A e \in pending : e[3] = "leave"
    /\ Shows(Gathered(k), visible, V!Told)

ViewInv ==
    /\ ViewTypes
    /\ \A c \in Callers : /\ WindowSound(call[c]) /\ Stands(call[c]) /\ Carrying(call[c])
                          /\ GridSound(call[c]) /\ ClientSound(call[c])

(* The members: Enter has not reached the grid yet, or Leave the scene.    *)
Between(k) ==
    \/ k.op = "enter" /\ k.pc \in {"begin", "arm", "grid", "lock"}
    \/ k.op = "leave" /\ k.pc \in {"mark", "scan", "setmax", "dispatch", "part"}
MembersSound(k) ==
    /\ \A o \in Objects : (o \in member) <=> (V!Present(o) \/ (Between(k) /\ o = k.obj))
    /\ Between(k) => ~V!Present(k.obj)
    /\ k.pc \in {"begin", "arm", "grid", "lock"} /\ k.op \in {"move", "watch", "leave"}
           => k.obj \in member
MembersInv == ~Direct /\ ~Strays => \A c \in Callers : MembersSound(call[c])

OneCaller == \E c : Callers = {c}
FewObjects == \A t, u, w \in Objects : t = u \/ t = w \/ u = w

-----------------------------------------------------------------------------
(* Types *)
LEMMA CallFields ==
    ASSUME ViewTypes, NEW c \in Callers
    PROVE  /\ call[c] \in ViewCalls /\ call[c].pc \in ViewPcs
           /\ call[c].obj \in Objects \union {None}
           /\ call[c].limit \in Radii \union {0} /\ call[c].marks \subseteq Objects
           /\ call[c].events \subseteq ViewEvents /\ call[c].scan \in BOOLEAN
           /\ call[c].own \in BOOLEAN /\ call[c].window \in 0..MaxNested
           /\ call[c].box \subseteq Int
           /\ Named(call[c])
BY DEF ViewTypes, ViewCalls

LEMMA IdleIsCall == V!SceneViewParams => V!Idle \in ViewCalls /\ Named(V!Idle)
BY DEF V!SceneViewParams, V!Idle, ViewCalls, ViewPcs, Named

(* A call that goes on leaves the others where they are.                   *)
LEMMA CallGoes ==
    ASSUME ViewTypes, NEW c \in Callers, NEW from, NEW k, V!Goes(c, from, k)
    PROVE  /\ call[c].pc = from /\ call'[c] = k /\ \A d \in Callers \ {c} : call'[d] = call[d]
           /\ k \in ViewCalls /\ Named(k) =>
                  call' \in [Callers -> ViewCalls] /\ \A d \in Callers : Named(call'[d])
BY DEF ViewTypes, V!Goes

(* What a step of a call leaves to show of its new record.                 *)
RestTyped ==
    /\ pos \in [Objects -> Places \union {None}] /\ radius \in [Objects -> Radii \union {0}]
    /\ visible \in [Objects -> SUBSET Objects] /\ client \in [Objects -> SUBSET Objects]
    /\ lost \subseteq ViewEvents
    /\ maxR \in Radii \union {0} /\ depth \in Nat
    /\ member \subseteq Objects /\ marked \subseteq Objects /\ pending \subseteq ViewEvents
    /\ batching \in BOOLEAN /\ open \in BOOLEAN
    /\ batch = V!NoBatch \/ batch \in SUBSET ViewEvents

LEMMA ViewTyped ==
    ASSUME ViewTypes, NEW c \in Callers, NEW from, NEW k, V!Goes(c, from, k),
           k \in ViewCalls, Named(k), RestTyped'
    PROVE  ViewTypes'
<1>1. call' \in [Callers -> ViewCalls] /\ \A d \in Callers : Named(call'[d])  BY CallGoes
<1> QED  BY <1>1 DEF ViewTypes, RestTyped, Named

LEMMA RestIsTyped == ViewTypes => RestTyped
BY DEF ViewTypes, RestTyped

LEMMA EndedIsCall ==
    ASSUME V!SceneViewParams, ViewTypes, NEW c \in Callers
    PROVE  V!Ended(c) \in ViewCalls /\ Named(V!Ended(c))
<1>1. call[c].window \in 0..MaxNested  BY CallFields
<1>2. V!Ended(c) = [V!Idle EXCEPT !.window = call[c].window,
                                  !.pc = IF call[c].own THEN "end" ELSE "idle"]
      BY DEF V!Ended
<1>3. V!Idle \in ViewCalls  BY IdleIsCall
<1>4. V!Ended(c) \in ViewCalls  BY <1>1, <1>2, <1>3 DEF ViewCalls, ViewPcs
<1>5. V!Ended(c).op = "none" /\ V!Ended(c).pc \in {"end", "idle"}
      BY DEF V!Ended, V!Idle
<1> QED  BY <1>4, <1>5 DEF Named

LEMMA AfterGridIsCall ==
    ASSUME V!SceneViewParams, ViewTypes, NEW c \in Callers
    PROVE  V!AfterGrid(c) \in ViewCalls /\ Named(V!AfterGrid(c))
BY CallFields, EndedIsCall DEF V!AfterGrid, V!Then, ViewCalls, ViewPcs, Named

LEMMA StartTypes ==
    ASSUME V!SceneViewParams, ViewTypes, NEW c \in Callers, NEW o \in Objects, NEW to,
           NEW op \in {"enter", "move", "watch", "leave"}, V!Start(c, op, o, to),
           op \in {"enter", "move"} => to \in Places, op = "watch" => to \in Radii \union {0},
           op = "leave" => to = 0
    PROVE  ViewTypes'
<1> DEFINE k == [call[c] EXCEPT !.pc = IF Direct \/ open THEN "grid" ELSE "begin",
                                !.op = op, !.obj = o, !.to = to]
<1>1. k \in ViewCalls
      <2> DEFINE stage == IF Direct \/ open THEN "grid" ELSE "begin"
      <2>1. call[c] \in ViewCalls  BY CallFields
      <2>2. stage \in ViewPcs  BY DEF ViewPcs
      <2>3. to \in Places \union Radii \union {0}  OBVIOUS
      <2>4. [call[c] EXCEPT !.pc = stage, !.op = op, !.obj = o, !.to = to] \in ViewCalls
            <3> HIDE DEF stage
            <3> QED  BY <2>1, <2>2, <2>3 DEF ViewCalls
      <2> QED  BY <2>4
<1>2. Named(k)
      <2>1. call[c] \in ViewCalls  BY CallFields
      <2>2. k.pc = (IF Direct \/ open THEN "grid" ELSE "begin")
            BY <2>1 DEF ViewCalls
      <2>3. k.op = op /\ k.obj = o /\ k.to = to  BY <2>1 DEF ViewCalls
      <2> HIDE DEF k
      <2>4. k.pc \in {"grid", "begin"}  BY <2>2
      <2> QED  BY <2>3, <2>4 DEF Named
<1>4. RestTyped'  BY RestIsTyped DEF RestTyped, V!Start, V!gridVars, V!batchVars
<1>3. V!Goes(c, "idle", k)  BY DEF V!Start
<1> QED  BY <1>1, <1>2, <1>3, <1>4, ViewTyped

LEMMA WindowTypes ==
    ASSUME V!SceneViewParams, ViewTypes, NEW c \in Callers, V!StartWindow(c) \/ V!EndWindow(c)
    PROVE  ViewTypes'
<1>1. RestTyped'
      BY RestIsTyped DEF RestTyped, V!StartWindow, V!EndWindow, V!gridVars, V!batchVars, V!sceneVars
<1>2. CASE V!StartWindow(c)
      <2> DEFINE k == [call[c] EXCEPT !.pc = "begin", !.op = "begin"]
      <2>1. k \in ViewCalls /\ Named(k)  BY CallFields DEF ViewCalls, ViewPcs, Named
      <2>2. V!Goes(c, "idle", k)  BY <1>2 DEF V!StartWindow
      <2> QED  BY <1>1, <2>1, <2>2, ViewTyped
<1>3. CASE V!EndWindow(c)
      <2> DEFINE k == [call[c] EXCEPT !.pc = "end", !.window = @ - 1]
      <2>0. call[c] \in ViewCalls /\ Named(call[c]) /\ call[c].window \in 0..MaxNested
            BY CallFields
      <2>5. call[c].window - 1 \in 0..MaxNested
            BY <1>3, <2>0 DEF V!EndWindow, V!SceneViewParams
      <2>1. k \in ViewCalls  BY <2>0, <2>5 DEF ViewCalls, ViewPcs
      <2>3. k.pc = "end" /\ k.op = call[c].op /\ k.obj = call[c].obj /\ k.to = call[c].to
            BY <2>0 DEF ViewCalls
      <2>4. Named(k)  BY <2>0, <2>3 DEF Named
      <2>2. V!Goes(c, "idle", k)  BY <1>3 DEF V!EndWindow
      <2> QED  BY <1>1, <2>1, <2>2, <2>4, ViewTyped
<1> QED  BY <1>2, <1>3

(* What the grid computes is of the right kind.                            *)
LEMMA ViewsTyped ==
    ASSUME NEW p, NEW r, NEW seen \in [Objects -> SUBSET Objects], NEW W, NEW S
    PROVE  V!Refreshed(p, r, seen, W, S) \in [Objects -> SUBSET Objects]
BY DEF V!Refreshed, V!Sees

LEMMA EventsTyped ==
    ASSUME NEW old \in [Objects -> SUBSET Objects], NEW new \in [Objects -> SUBSET Objects]
    PROVE  /\ V!Events(old, new) \subseteq ViewEvents
           /\ \A w, t \in Objects :
                /\ <<w, t, "enter">> \in V!Events(old, new) <=> t \in new[w] \ old[w]
                /\ <<w, t, "leave">> \in V!Events(old, new) <=> t \in old[w] \ new[w]
BY DEF V!Events, ViewEvents

LEMMA OverTyped ==
    ASSUME NEW older \in SUBSET ViewEvents, NEW newer \in SUBSET ViewEvents
    PROVE  V!Over(older, newer) \in SUBSET ViewEvents
BY DEF V!Over

LEMMA TellTyped ==
    ASSUME NEW told \in [Objects -> SUBSET Objects], NEW e \in ViewEvents
    PROVE  V!Tell(told, e) \in [Objects -> SUBSET Objects]
<1>1. e[1] \in Objects /\ e[2] \in Objects  BY DEF ViewEvents
<1> QED  BY <1>1 DEF V!Tell

LEMMA NoBatchIsNone == \A E \in SUBSET ViewEvents : E # V!NoBatch
<1>1. <<>> \notin ViewEvents  BY DEF ViewEvents
<1> QED  BY <1>1 DEF V!NoBatch

(* A call that keeps what it names.                                        *)
LEMMA KeepsNames ==
    ASSUME NEW k, NEW n, Named(k), n.op = k.op, n.obj = k.obj, n.to = k.to,
           n.pc \notin {"begin", "arm", "grid", "lock"},
           n.pc \in {"mark", "scan", "setmax"}
               => k.pc \in {"grid", "lock", "mark", "scan", "setmax"}
    PROVE  Named(n)
BY DEF Named

LEMMA ThenIsCall ==
    ASSUME ViewTypes, NEW c \in Callers, NEW stage \in ViewPcs
    PROVE  /\ V!Then(c, stage) \in ViewCalls /\ V!Then(c, stage).pc = stage
           /\ V!Then(c, stage).op = call[c].op /\ V!Then(c, stage).obj = call[c].obj
           /\ V!Then(c, stage).to = call[c].to /\ V!Then(c, stage).at = call[c].at
           /\ V!Then(c, stage).own = call[c].own /\ V!Then(c, stage).window = call[c].window
           /\ V!Then(c, stage).marks = call[c].marks /\ V!Then(c, stage).events = call[c].events
           /\ V!Then(c, stage).limit = call[c].limit /\ V!Then(c, stage).box = call[c].box
<1>1. call[c] \in ViewCalls  BY CallFields
<1> QED  BY <1>1 DEF V!Then, ViewCalls

LEMMA BegunIsCall ==
    ASSUME V!SceneViewParams, ViewTypes, NEW c \in Callers, call[c].pc \in {"begin", "arm"},
           WindowSound(call[c])
    PROVE  V!Begun(c) \in ViewCalls /\ Named(V!Begun(c))
<1>1. call[c] \in ViewCalls /\ Named(call[c]) /\ call[c].window \in 0..MaxNested  BY CallFields
<1>2. CASE call[c].op = "begin"
      <2>1. call[c].window + 1 \in 0..MaxNested
            BY <1>1, <1>2 DEF WindowSound, V!SceneViewParams
      <2>2. V!Idle \in ViewCalls  BY IdleIsCall
      <2>3. V!Begun(c) = [V!Idle EXCEPT !.window = call[c].window + 1]  BY <1>2 DEF V!Begun
      <2>4. V!Begun(c) \in ViewCalls  BY <2>1, <2>2, <2>3 DEF ViewCalls
      <2>5. V!Begun(c).op = "none" /\ V!Begun(c).pc = "idle"  BY <2>3 DEF V!Idle
      <2> QED  BY <2>4, <2>5 DEF Named
<1>3. CASE call[c].op # "begin"
      <2>1. V!Begun(c) = [V!Then(c, "grid") EXCEPT !.own = TRUE]  BY <1>3 DEF V!Begun
      <2>2. V!Then(c, "grid") \in ViewCalls /\ V!Then(c, "grid").pc = "grid"
            /\ V!Then(c, "grid").op = call[c].op /\ V!Then(c, "grid").obj = call[c].obj
            /\ V!Then(c, "grid").to = call[c].to
            BY ThenIsCall DEF ViewPcs
      <2>3. V!Begun(c) \in ViewCalls  BY <2>1, <2>2 DEF ViewCalls
      <2>4. V!Begun(c).pc = "grid" /\ V!Begun(c).op = call[c].op
            /\ V!Begun(c).obj = call[c].obj /\ V!Begun(c).to = call[c].to
            BY <2>1, <2>2 DEF ViewCalls
      <2> QED  BY <1>1, <1>3, <2>3, <2>4 DEF Named
<1> QED  BY <1>2, <1>3

LEMMA BeginTypes ==
    ASSUME V!SceneViewParams, ViewTypes, NEW c \in Callers, WindowSound(call[c]),
           V!Begin(c) \/ V!Arm(c)
    PROVE  ViewTypes'
<1>1. RestTyped'
      <2>1. RestTyped /\ {} \in SUBSET ViewEvents  BY RestIsTyped
      <2>2. CASE V!Begin(c)
            <3>1. depth' \in Nat  BY <2>1, <2>2 DEF V!Begin, RestTyped
            <3>2. open' \in BOOLEAN /\ (batch' = V!NoBatch \/ batch' \in SUBSET ViewEvents)
                  BY <2>1, <2>2 DEF V!Begin, RestTyped, V!NoBatch
            <3>3. UNCHANGED <<V!gridVars, V!batchVars, member, client, lost>>
                  BY <2>2 DEF V!Begin
            <3> QED  BY <2>1, <3>1, <3>2, <3>3 DEF RestTyped, V!gridVars, V!batchVars
      <2>3. CASE V!Arm(c)
            BY <2>1, <2>3 DEF RestTyped, V!Arm, V!gridVars, V!sceneVars, V!NoBatch
      <2> QED  BY <2>2, <2>3
<1>2. call[c] \in ViewCalls /\ Named(call[c])  BY CallFields
<1>3. CASE V!Begin(c)
      <2> DEFINE k == IF depth = 0 THEN V!Then(c, "arm") ELSE V!Begun(c)
      <2>1. V!Goes(c, "begin", k) /\ call[c].pc = "begin"  BY <1>3 DEF V!Begin, V!Goes
      <2>2. V!Begun(c) \in ViewCalls /\ Named(V!Begun(c))  BY <2>1, BegunIsCall
      <2>3. V!Then(c, "arm") \in ViewCalls /\ Named(V!Then(c, "arm"))
            BY <1>2, <2>1, ThenIsCall DEF Named, ViewPcs
      <2> QED  BY <1>1, <2>1, <2>2, <2>3, ViewTyped
<1>4. CASE V!Arm(c)
      <2>1. V!Goes(c, "arm", V!Begun(c)) /\ call[c].pc = "arm"  BY <1>4 DEF V!Arm, V!Goes
      <2>2. V!Begun(c) \in ViewCalls /\ Named(V!Begun(c))  BY <2>1, BegunIsCall
      <2> QED  BY <1>1, <2>1, <2>2, ViewTyped
<1> QED  BY <1>3, <1>4

LEMMA ReadTypes ==
    ASSUME V!SceneViewParams, ViewTypes, NEW c \in Callers, V!Read(c)
    PROVE  ViewTypes'
<1> DEFINE o == call[c].obj
           at == IF V!Present(o) THEN pos[o] ELSE 0
           op == V!Names(call[c].op, o)
           k == [call[c] EXCEPT !.pc = "lock", !.op = op, !.limit = maxR, !.at = at]
<1>1. RestTyped'  BY RestIsTyped DEF RestTyped, V!Read, V!gridVars, V!batchVars, V!sceneVars
<1>2. call[c] \in ViewCalls /\ Named(call[c]) /\ call[c].pc = "grid"
      BY CallFields DEF V!Read, V!Goes
<1>3. call[c].op \in {"enter", "move", "leave", "watch"}  BY <1>2 DEF Named, ViewCalls
<1>4. o \in Objects  BY <1>2, <1>3 DEF Named
<1>5. at \in Places \union {0} /\ maxR \in Radii \union {0}
      BY <1>4 DEF ViewTypes, V!Present
<1>6. op \in {"enter", "move", "leave", "watch"} /\ (op = call[c].op \/ {op, call[c].op} = {"enter", "move"})
      BY <1>3 DEF V!Names
<1>7. CASE V!Goes(c, "grid", V!AfterGrid(c))  BY <1>1, <1>7, AfterGridIsCall, ViewTyped
<1>8. CASE ~V!NothingToDo(call[c]) /\ V!Goes(c, "grid", k)
      <2>1. k \in ViewCalls
            <3> HIDE DEF o, op, at
            <3> QED  BY <1>2, <1>5, <1>6 DEF ViewCalls, ViewPcs
      <2>2. k.pc = "lock" /\ k.op = op /\ k.obj = o /\ k.to = call[c].to /\ k.at = at
            <3> HIDE DEF op, at
            <3> QED  BY <1>2 DEF ViewCalls
      <2>3. op # "enter" => V!Present(o)
            BY <1>3, <1>8 DEF V!NothingToDo, V!Names
      <2>4. V!Present(o) => at \in Places
            BY <1>4 DEF ViewTypes, V!Present
      <2>5. Named(k)
            <3> HIDE DEF k, op, at
            <3> QED  BY <1>2, <1>4, <1>6, <2>2, <2>3, <2>4 DEF Named
      <2> QED  BY <1>1, <1>8, <2>1, <2>5, ViewTyped
<1> QED  BY <1>7, <1>8 DEF V!Read

(* With its shards locked an operation puts in what it was given.          *)
LEMMA ApplyTypes ==
    ASSUME V!SceneViewParams, ViewTypes, NEW c \in Callers,
           NEW p \in [Objects -> Places \union {None}], NEW r \in [Objects -> Radii \union {0}],
           NEW xs, NEW self \in SUBSET Objects, NEW scan \in BOOLEAN,
           V!Apply(c, p, r, xs, self, scan), maxR' \in Radii \union {0}
    PROVE  ViewTypes'
<1> DEFINE S == V!BoxOf(call[c])
           W == (UNION {V!Affected(p, r, S, x) : x \in xs}) \union {w \in self : r[w] > 0}
           seen == [w \in Objects |-> IF r[w] = 0 THEN {} ELSE visible[w]]
           now == V!Refreshed(p, r, seen, W, S)
           k == [call[c] EXCEPT !.pc = "mark", !.marks = W, !.scan = scan]
           l == [call[c] EXCEPT !.pc = IF scan THEN "scan" ELSE "dispatch",
                                !.events = V!Events(visible, now)]
<1>1. call[c] \in ViewCalls /\ Named(call[c]) /\ call[c].pc = "lock"
      BY CallFields DEF V!Apply, V!Goes
<1>2. visible \in [Objects -> SUBSET Objects] /\ pending \subseteq ViewEvents  BY DEF ViewTypes
<1>3. seen \in [Objects -> SUBSET Objects]  BY <1>2
<1>4. now \in [Objects -> SUBSET Objects]  BY <1>3, ViewsTyped
<1>5. W \subseteq Objects
      <2>1. \A x : V!Affected(p, r, S, x) \subseteq Objects  BY DEF V!Affected
      <2> QED  BY <2>1
<1>6. V!Events(visible, seen) \subseteq ViewEvents /\ V!Events(visible, now) \subseteq ViewEvents
      <2> HIDE DEF seen, now
      <2> QED  BY <1>2, <1>3, <1>4, EventsTyped
<1>7. pos' = p /\ radius' = r /\ UNCHANGED <<batching, marked, V!sceneVars, client, lost>>
      BY DEF V!Apply
<1>8. CASE batching
      <2>1. visible' = seen /\ pending' = pending \union V!Events(visible, seen)
            /\ V!Goes(c, "lock", k)
            BY <1>8 DEF V!Apply
      <2>2. k \in ViewCalls /\ k.pc = "mark" /\ k.op = call[c].op /\ k.obj = call[c].obj
            /\ k.to = call[c].to
            <3> HIDE DEF W
            <3> QED  BY <1>1, <1>5 DEF ViewCalls, ViewPcs
      <2>3. RestTyped'
            <3> HIDE DEF seen
            <3> QED  BY <1>2, <1>3, <1>6, <1>7, <2>1, RestIsTyped DEF RestTyped, V!sceneVars
      <2>4. Named(k)
            <3> HIDE DEF k
            <3> QED  BY <1>1, <2>2, KeepsNames
      <2> QED  BY <2>1, <2>2, <2>3, <2>4, ViewTyped
<1>9. CASE ~batching
      <2>1. visible' = now /\ pending' = pending /\ V!Goes(c, "lock", l)
            BY <1>9 DEF V!Apply
      <2>2. l \in ViewCalls /\ l.op = call[c].op /\ l.obj = call[c].obj /\ l.to = call[c].to
            <3>1. (IF scan THEN "scan" ELSE "dispatch") \in ViewPcs  BY DEF ViewPcs
            <3> HIDE DEF now
            <3> QED  BY <1>1, <1>6, <3>1 DEF ViewCalls
      <2>5. l.pc \in {"scan", "dispatch"}
            <3> HIDE DEF now
            <3> QED  BY <1>1 DEF ViewCalls
      <2>3. RestTyped'
            <3> HIDE DEF now
            <3> QED  BY <1>2, <1>4, <1>7, <2>1, RestIsTyped DEF RestTyped, V!sceneVars
      <2>4. Named(l)
            <3> HIDE DEF l
            <3> QED  BY <1>1, <2>2, <2>5, KeepsNames
      <2> QED  BY <2>1, <2>2, <2>3, <2>4, ViewTyped
<1> QED  BY <1>8, <1>9

GridActs(c) ==
    V!Enter(c) \/ V!Move(c) \/ V!Leave(c) \/ V!Watch(c) \/ V!Unwatch(c)

LEMMA ActTypes ==
    ASSUME V!SceneViewParams, ViewTypes, NEW c \in Callers, GridActs(c)
    PROVE  ViewTypes'
<1> DEFINE k == call[c]
<1>1. Named(k) /\ pos \in [Objects -> Places \union {None}] /\ radius \in [Objects -> Radii \union {0}]
      /\ maxR \in Radii \union {0}
      BY CallFields DEF ViewTypes
<1>2. ASSUME V!Enter(c) \/ V!Move(c) PROVE ViewTypes'
      <2>1. k.obj \in Objects /\ k.to \in Places  BY <1>1, <1>2 DEF Named, V!Enter, V!Move
      <2>2. [pos EXCEPT ![k.obj] = k.to] \in [Objects -> Places \union {None}]  BY <1>1, <2>1
      <2>3. maxR' \in Radii \union {0}  BY <1>1, <1>2 DEF V!Enter, V!Move
      <2>4. {k.obj} \in SUBSET Objects /\ FALSE \in BOOLEAN  BY <2>1
      <2> QED  BY <1>1, <1>2, <2>2, <2>3, <2>4, ApplyTypes DEF V!Enter, V!Move
<1>3. ASSUME V!Leave(c) PROVE ViewTypes'
      <2> DEFINE o == k.obj
                 here == V!In(pos, V!BoxOf(k), o)
                 p == IF here THEN [pos EXCEPT ![o] = None] ELSE pos
                 r == IF here THEN [radius EXCEPT ![o] = 0] ELSE radius
      <2>1. p \in [Objects -> Places \union {None}] /\ r \in [Objects -> Radii \union {0}]
            BY <1>1
      <2>2. maxR' \in Radii \union {0}  BY <1>1, <1>3 DEF V!Leave
      <2>3. {} \in SUBSET Objects  OBVIOUS
      <2>4. (here /\ radius[o] > 0 /\ radius[o] >= maxR) \in BOOLEAN  BY DEF V!In
      <2> QED  BY <1>3, <2>1, <2>2, <2>3, <2>4, ApplyTypes DEF V!Leave
<1>4. ASSUME V!Watch(c) PROVE ViewTypes'
      <2>1. k.obj \in Objects /\ k.to \in Radii \union {0}  BY <1>1, <1>4 DEF Named, V!Watch
      <2>2. [radius EXCEPT ![k.obj] = k.to] \in [Objects -> Radii \union {0}]  BY <1>1, <2>1
      <2>3. maxR' \in Radii \union {0}  BY <1>1, <1>4, <2>1 DEF V!Watch
      <2>4. {k.obj} \in SUBSET Objects  BY <2>1
      <2>5. (k.to <= maxR /\ radius[k.obj] >= maxR /\ k.to < radius[k.obj]) \in BOOLEAN  OBVIOUS
      <2> QED  BY <1>1, <1>4, <2>2, <2>3, <2>4, <2>5, ApplyTypes DEF V!Watch
<1>5. ASSUME V!Unwatch(c) PROVE ViewTypes'
      <2>2. [radius EXCEPT ![k.obj] = 0] \in [Objects -> Radii \union {0}]  BY <1>1
      <2>3. maxR' \in Radii \union {0}  BY <1>1, <1>5 DEF V!Unwatch
      <2>4. {} \in SUBSET Objects  OBVIOUS
      <2>5. (radius[k.obj] > 0 /\ radius[k.obj] >= maxR) \in BOOLEAN  OBVIOUS
      <2> QED  BY <1>1, <1>5, <2>2, <2>3, <2>4, <2>5, ApplyTypes DEF V!Unwatch
<1> QED  BY <1>2, <1>3, <1>4, <1>5 DEF GridActs

LEMMA LockTypes ==
    ASSUME V!SceneViewParams, ViewTypes, NEW c \in Callers,
           V!Retry(c) \/ V!Missed(c) \/ V!Mark(c) \/ V!Scan(c) \/ V!SetMax(c)
    PROVE  ViewTypes'
<1>1. call[c] \in ViewCalls /\ Named(call[c]) /\ call[c].marks \subseteq Objects
      /\ call[c].limit \in Radii \union {0} /\ call[c].scan \in BOOLEAN
      BY CallFields
<1>2. RestTyped'
      BY <1>1, RestIsTyped
      DEF RestTyped, V!Retry, V!Missed, V!Mark, V!Scan, V!SetMax, V!gridVars, V!batchVars, V!sceneVars
<1>3. CASE V!Retry(c)
      <2>1. V!Goes(c, "lock", V!Then(c, "grid")) /\ call[c].pc = "lock"
            BY <1>3 DEF V!Retry, V!Goes
      <2>2. V!Then(c, "grid") \in ViewCalls /\ Named(V!Then(c, "grid"))
            BY <1>1, <2>1, ThenIsCall DEF Named, ViewPcs
      <2> QED  BY <1>2, <2>1, <2>2, ViewTyped
<1>4. CASE V!Missed(c)
      <2>1. V!Goes(c, "lock", V!AfterGrid(c))  BY <1>4 DEF V!Missed
      <2> QED  BY <1>2, <2>1, AfterGridIsCall, ViewTyped
<1>5. CASE V!Mark(c)
      <2> DEFINE stage == IF call[c].scan THEN "scan" ELSE "dispatch"
                 k == [call[c] EXCEPT !.pc = stage, !.marks = {}]
      <2>1. V!Goes(c, "mark", k) /\ call[c].pc = "mark"  BY <1>5 DEF V!Mark, V!Goes
      <2>2. stage \in ViewPcs /\ stage \in {"scan", "dispatch"}  BY DEF ViewPcs
      <2>3. k \in ViewCalls /\ k.pc = stage /\ k.op = call[c].op /\ k.obj = call[c].obj
            /\ k.to = call[c].to
            <3> HIDE DEF stage
            <3> QED  BY <1>1, <2>2 DEF ViewCalls
      <2>4. Named(k)
            <3> HIDE DEF k, stage
            <3> QED  BY <1>1, <2>1, <2>2, <2>3, KeepsNames
      <2> QED  BY <1>2, <2>1, <2>3, <2>4, ViewTyped
<1>6. CASE V!Scan(c)
      <2>1. PICK m \in Radii \union {0} :
                V!Goes(c, "scan", [call[c] EXCEPT !.pc = "setmax", !.limit = m])
            BY <1>6 DEF V!Scan
      <2> DEFINE k == [call[c] EXCEPT !.pc = "setmax", !.limit = m]
      <2>2. k \in ViewCalls /\ k.pc = "setmax" /\ k.op = call[c].op /\ k.obj = call[c].obj
            /\ k.to = call[c].to
            BY <1>1 DEF ViewCalls, ViewPcs
      <2>3. call[c].pc = "scan"  BY <2>1 DEF V!Goes
      <2>4. Named(k)
            <3> HIDE DEF k
            <3> QED  BY <1>1, <2>2, <2>3, KeepsNames
      <2> QED  BY <1>2, <2>1, <2>2, <2>4, ViewTyped
<1>7. CASE V!SetMax(c)
      <2>1. V!Goes(c, "setmax", V!Then(c, "dispatch"))  BY <1>7 DEF V!SetMax
      <2>2. V!Then(c, "dispatch") \in ViewCalls /\ Named(V!Then(c, "dispatch"))
            BY <1>1, ThenIsCall, KeepsNames DEF ViewPcs
      <2> QED  BY <1>2, <2>1, <2>2, ViewTyped
<1> QED  BY <1>3, <1>4, <1>5, <1>6, <1>7

(* What a client was told, had no event been lost.                         *)
LEMMA ToldSame == ASSUME UNCHANGED <<client, lost>> PROVE (V!Told)' = V!Told
BY DEF V!Told

LEMMA ToldTyped == ASSUME ViewTypes PROVE V!Told \in [Objects -> SUBSET Objects]
BY DEF V!Told

LEMMA PublishTyped ==
    ASSUME ViewTypes, NEW e \in ViewEvents, V!Publish(e)
    PROVE  client' \in [Objects -> SUBSET Objects] /\ lost' \subseteq ViewEvents
<1>1. client \in [Objects -> SUBSET Objects] /\ lost \subseteq ViewEvents  BY DEF ViewTypes
<1>2. V!Tell(client, e) \in [Objects -> SUBSET Objects]  BY <1>1, TellTyped
<1>3. CASE V!Deliver(e)  BY <1>1, <1>2, <1>3 DEF V!Deliver
<1>4. CASE V!Drop(e)
      <2>1. V!Over(lost, {e}) \in SUBSET ViewEvents  BY <1>1, OverTyped
      <2> QED  BY <1>1, <1>4, <2>1 DEF V!Drop
<1> QED  BY <1>3, <1>4 DEF V!Publish

LEMMA SameViews ==
    ASSUME NEW f \in [Objects -> SUBSET Objects], NEW g \in [Objects -> SUBSET Objects],
           \A w, t \in Objects : t \in f[w] <=> t \in g[w]
    PROVE  f = g
<1>1. \A w \in Objects : f[w] = g[w]  OBVIOUS
<1> QED  BY <1>1

(* Delivered or lost, an event is told.                                    *)
LEMMA PublishTells ==
    ASSUME ViewTypes, NEW e \in ViewEvents, V!Publish(e)
    PROVE  (V!Told)' = V!Tell(V!Told, e)
<1>1. PICK w0 \in Objects, t0 \in Objects, a \in {"enter", "leave"} : e = <<w0, t0, a>>
      BY DEF ViewEvents
<1>2. client \in [Objects -> SUBSET Objects] /\ lost \subseteq ViewEvents  BY DEF ViewTypes
<1>3. V!Told \in [Objects -> SUBSET Objects] /\ V!Tell(V!Told, e) \in [Objects -> SUBSET Objects]
      BY ToldTyped, TellTyped
<1>4. e[1] = w0 /\ e[2] = t0 /\ e[3] = a  BY <1>1
<1>5. V!Tell(V!Told, e) = [V!Told EXCEPT ![w0] = IF a = "enter" THEN V!Told[w0] \union {t0}
                                                ELSE V!Told[w0] \ {t0}]
      BY <1>4 DEF V!Tell
<1>6. \A w, t \in Objects : t \in V!Tell(V!Told, e)[w] <=>
          IF w = w0 /\ t = t0 THEN a = "enter" ELSE t \in V!Told[w]
      BY <1>3, <1>5
<1>7. \A w, t \in Objects : t \in V!Told[w] <=>
          \/ <<w, t, "enter">> \in lost
          \/ t \in client[w] /\ <<w, t, "leave">> \notin lost
      BY <1>2 DEF V!Told
<1>8. \A w, t \in Objects : t \in (V!Told)'[w] <=>
          \/ <<w, t, "enter">> \in lost'
          \/ t \in client'[w] /\ <<w, t, "leave">> \notin lost'
      BY PublishTyped DEF V!Told
<1>9. ASSUME NEW w \in Objects, NEW t \in Objects
      PROVE  t \in (V!Told)'[w] <=> t \in V!Tell(V!Told, e)[w]
      <2>1. CASE V!Deliver(e)
            <3>1. client' = [client EXCEPT ![w0] = IF a = "enter" THEN client[w0] \union {t0}
                                                   ELSE client[w0] \ {t0}]
                  BY <1>4, <2>1 DEF V!Deliver, V!Tell
            <3>2. t \in client'[w] <=> IF w = w0 /\ t = t0 THEN a = "enter" ELSE t \in client[w]
                  BY <1>2, <3>1
            <3>3. \A b \in {"enter", "leave"} :
                    <<w, t, b>> \in lost' <=> <<w, t, b>> \in lost /\ ~(w = w0 /\ t = t0)
                  BY <1>4, <2>1 DEF V!Deliver
            <3> QED  BY <1>6, <1>7, <1>8, <3>2, <3>3
      <2>2. CASE V!Drop(e)
            <3>1. client' = client /\ lost' = V!Over(lost, {e})  BY <2>2 DEF V!Drop
            <3>2. \A b \in {"enter", "leave"} :
                    <<w, t, b>> \in lost' <=>
                        IF w = w0 /\ t = t0 THEN a = b ELSE <<w, t, b>> \in lost
                  BY <1>1, <1>4, <3>1 DEF V!Over
            <3> QED  BY <1>6, <1>7, <1>8, <3>1, <3>2
      <2> QED  BY <2>1, <2>2 DEF V!Publish
<1>10. (V!Told)' \in [Objects -> SUBSET Objects]
      BY PublishTyped DEF V!Told
<1> QED  BY <1>3, <1>9, <1>10, SameViews

LEMMA DispatchTypes ==
    ASSUME V!SceneViewParams, ViewTypes, NEW c \in Callers, V!Dispatch(c)
    PROVE  ViewTypes'
<1>1. PICK e \in call[c].events, stage \in {"dispatch", "last"} :
          /\ V!Goes(c, stage, [call[c] EXCEPT !.events = @ \ {e}]) /\ V!Observe(e)
      BY DEF V!Dispatch
<1> DEFINE k == [call[c] EXCEPT !.events = @ \ {e}]
<1>2. call[c] \in ViewCalls /\ Named(call[c]) /\ call[c].events \subseteq ViewEvents
      BY CallFields
<1>3. k \in ViewCalls /\ k.pc = call[c].pc /\ k.op = call[c].op /\ k.obj = call[c].obj
      /\ k.to = call[c].to
      BY <1>2 DEF ViewCalls
<1>4. Named(k)
      <2>1. call[c].pc \in {"dispatch", "last"}  BY <1>1 DEF V!Goes
      <2> HIDE DEF k
      <2> QED  BY <1>2, <1>3, <2>1, KeepsNames
<1>5. e \in ViewEvents /\ {e} \in SUBSET ViewEvents  BY <1>2
<1>6. client' \in [Objects -> SUBSET Objects] /\ lost' \subseteq ViewEvents
      <2>1. client \in [Objects -> SUBSET Objects] /\ lost \subseteq ViewEvents  BY DEF ViewTypes
      <2>2. V!Publish(e) \/ UNCHANGED <<client, lost>>  BY <1>1 DEF V!Observe
      <2> QED  BY <1>5, <2>1, <2>2, PublishTyped
<1>7. batch' = V!NoBatch \/ batch' \in SUBSET ViewEvents
      <2>1. batch = V!NoBatch \/ batch \in SUBSET ViewEvents  BY DEF ViewTypes
      <2>2. batch \in SUBSET ViewEvents => V!Over(batch, {e}) \in SUBSET ViewEvents
            BY <1>5, OverTyped
      <2> QED  BY <1>1, <2>1, <2>2 DEF V!Observe
<1>8. RestTyped'
      BY <1>6, <1>7, RestIsTyped DEF RestTyped, V!Dispatch, V!gridVars, V!batchVars
<1> QED  BY <1>1, <1>3, <1>4, <1>8, ViewTyped

LEMMA OutTypes ==
    ASSUME V!SceneViewParams, ViewTypes, NEW c \in Callers,
           V!Dispatched(c) \/ V!Part(c) \/ V!End(c)
    PROVE  ViewTypes'
<1>1. call[c] \in ViewCalls /\ Named(call[c]) /\ call[c].window \in 0..MaxNested  BY CallFields
<1>2. RestTyped'
      BY RestIsTyped DEF RestTyped, V!Dispatched, V!Part, V!End, V!gridVars, V!batchVars, V!sceneVars
<1>3. V!Ended(c) \in ViewCalls /\ Named(V!Ended(c))  BY EndedIsCall
<1>4. V!AfterGrid(c) \in ViewCalls /\ Named(V!AfterGrid(c))  BY AfterGridIsCall
<1>5. CASE V!Dispatched(c)
      <2>1. V!Then(c, "close") \in ViewCalls /\ Named(V!Then(c, "close"))
            BY <1>1, ThenIsCall, KeepsNames DEF ViewPcs
      <2>2. V!Goes(c, "dispatch", V!AfterGrid(c)) \/ V!Goes(c, "last", V!Then(c, "close"))
            BY <1>5 DEF V!Dispatched
      <2> QED  BY <1>2, <1>4, <2>1, <2>2, ViewTyped
<1>6. CASE V!Part(c)
      <2>1. V!Goes(c, "part", V!Ended(c))  BY <1>6 DEF V!Part
      <2> QED  BY <1>2, <1>3, <2>1, ViewTyped
<1>7. CASE V!End(c)
      <2> DEFINE stage == IF depth = 1 THEN "take" ELSE "idle"
                 k == [V!Idle EXCEPT !.window = call[c].window, !.pc = stage]
      <2>1. V!Goes(c, "end", k)  BY <1>7 DEF V!End
      <2>2. stage \in ViewPcs  BY DEF ViewPcs
      <2>3. V!Idle \in ViewCalls  BY IdleIsCall
      <2>4. k \in ViewCalls
            <3> HIDE DEF stage
            <3> QED  BY <1>1, <2>2, <2>3 DEF ViewCalls
      <2>5. k.op = "none" /\ k.pc \in {"take", "idle"}  BY DEF V!Idle
      <2>6. Named(k)
            <3> HIDE DEF k
            <3> QED  BY <2>5 DEF Named
      <2> QED  BY <1>2, <2>1, <2>4, <2>6, ViewTyped
<1> QED  BY <1>5, <1>6, <1>7

LEMMA EndTypes ==
    ASSUME V!SceneViewParams, ViewTypes, NEW c \in Callers,
           V!Take(c) \/ V!Measure(c) \/ V!Refresh(c) \/ V!Close(c) \/ V!Flush(c)
    PROVE  ViewTypes'
<1>1. call[c] \in ViewCalls /\ Named(call[c]) /\ call[c].events \subseteq ViewEvents
      /\ call[c].box \subseteq Int
      BY CallFields
<1>2. RestTyped  BY RestIsTyped
<1>4. CASE V!Take(c)
      <2> DEFINE stage == IF marked = {} THEN "last" ELSE "measure"
                 k == [call[c] EXCEPT !.pc = stage, !.marks = marked, !.events = pending]
      <2>1. V!Goes(c, "take", k)  BY <1>4 DEF V!Take
      <2>2. stage \in ViewPcs /\ stage \in {"last", "measure"}  BY DEF ViewPcs
      <2>3. marked \in SUBSET Objects /\ pending \in SUBSET ViewEvents  BY <1>2 DEF RestTyped
      <2>4. k \in ViewCalls /\ k.pc = stage /\ k.op = call[c].op /\ k.obj = call[c].obj
            /\ k.to = call[c].to
            <3> HIDE DEF stage
            <3> QED  BY <1>1, <2>2, <2>3 DEF ViewCalls
      <2>5. Named(k)
            <3> HIDE DEF k, stage
            <3> QED  BY <1>1, <2>2, <2>4, KeepsNames
      <2>6. RestTyped'  BY <1>2, <1>4 DEF RestTyped, V!Take, V!gridVars, V!sceneVars, V!NoBatch
      <2> QED  BY <2>1, <2>4, <2>5, <2>6, ViewTyped
<1>5. CASE V!Measure(c)
      <2> DEFINE there == {w \in call[c].marks : V!Present(w)}
                 box == UNION {V!ViewOf(w) : w \in there}
                 k == [call[c] EXCEPT !.pc = "refresh", !.box = box]
      <2>1. V!Goes(c, "measure", k)  BY <1>5 DEF V!Measure
      <2>2. box \subseteq Int
            <3>1. ASSUME NEW w \in there PROVE V!ViewOf(w) \subseteq Int
                  <4>1. w \in Objects /\ pos[w] \in Int
                        BY <1>1, <1>2 DEF ViewCalls, RestTyped, V!Present, V!SceneViewParams
                  <4>2. V!Shard(pos[w]) \in Int  BY <4>1 DEF V!Shard, V!SceneViewParams
                  <4>3. V!Box(pos[w], pos[w], radius[w]) \subseteq Int  BY DEF V!Box
                  <4> QED  BY <4>2, <4>3 DEF V!ViewOf
            <3> QED  BY <3>1
      <2>3. k \in ViewCalls /\ k.pc = "refresh" /\ k.op = call[c].op /\ k.obj = call[c].obj
            /\ k.to = call[c].to
            <3> HIDE DEF box
            <3> QED  BY <1>1, <2>2 DEF ViewCalls, ViewPcs
      <2>4. Named(k)
            <3> HIDE DEF k
            <3> QED  BY <1>1, <2>3, KeepsNames
      <2>5. RestTyped'  BY <1>2, <1>5 DEF RestTyped, V!Measure, V!gridVars, V!batchVars, V!sceneVars, V!NoBatch
      <2> QED  BY <2>1, <2>3, <2>4, <2>5, ViewTyped
<1>6. CASE V!Refresh(c)
      <2> DEFINE now == V!Refreshed(pos, radius, visible, call[c].marks, call[c].box)
                 events == V!Over(call[c].events, V!Events(visible, now))
                 k == [call[c] EXCEPT !.pc = "last", !.marks = {}, !.box = {}, !.events = events]
      <2>1. V!Goes(c, "refresh", k) /\ visible' = now  BY <1>6 DEF V!Refresh
      <2>2. now \in [Objects -> SUBSET Objects]  BY <1>2, ViewsTyped DEF RestTyped
      <2>3. V!Events(visible, now) \subseteq ViewEvents
            <3> HIDE DEF now
            <3> QED  BY <1>2, <2>2, EventsTyped DEF RestTyped
      <2>4. events \in SUBSET ViewEvents
            <3> HIDE DEF now
            <3> QED  BY <1>1, <2>3, OverTyped
      <2>5. k \in ViewCalls /\ k.pc = "last" /\ k.op = call[c].op /\ k.obj = call[c].obj
            /\ k.to = call[c].to
            <3> HIDE DEF events
            <3> QED  BY <1>1, <2>4 DEF ViewCalls, ViewPcs
      <2>6. Named(k)
            <3> HIDE DEF k
            <3> QED  BY <1>1, <2>5, KeepsNames
      <2>7. RestTyped'
            <3> HIDE DEF now
            <3> QED  BY <1>2, <1>6, <2>1, <2>2 DEF RestTyped, V!Refresh, V!batchVars, V!sceneVars, V!NoBatch
      <2> QED  BY <2>1, <2>5, <2>6, <2>7, ViewTyped
<1>7. CASE V!Close(c)
      <2> DEFINE events == IF batch = V!NoBatch THEN {} ELSE batch
                 k == [call[c] EXCEPT !.pc = "flush", !.events = events]
      <2>1. V!Goes(c, "close", k)  BY <1>7 DEF V!Close
      <2>2. events \in SUBSET ViewEvents  BY <1>2 DEF RestTyped
      <2>3. k \in ViewCalls /\ k.pc = "flush" /\ k.op = call[c].op /\ k.obj = call[c].obj
            /\ k.to = call[c].to
            <3> HIDE DEF events
            <3> QED  BY <1>1, <2>2 DEF ViewCalls, ViewPcs
      <2>4. Named(k)
            <3> HIDE DEF k
            <3> QED  BY <1>1, <2>3, KeepsNames
      <2>5. RestTyped'  BY <1>2, <1>7 DEF RestTyped, V!Close, V!gridVars, V!batchVars
      <2> QED  BY <2>1, <2>3, <2>4, <2>5, ViewTyped
<1>8. CASE V!Flush(c)
      <2>1. ASSUME NEW e \in call[c].events, V!Publish(e),
                   V!Goes(c, "flush", [call[c] EXCEPT !.events = @ \ {e}]),
                   UNCHANGED <<V!gridVars, V!batchVars, V!sceneVars>>
            PROVE  ViewTypes'
            <3> DEFINE k == [call[c] EXCEPT !.events = @ \ {e}]
            <3>1. k \in ViewCalls /\ k.pc = call[c].pc /\ k.op = call[c].op /\ k.obj = call[c].obj
                  /\ k.to = call[c].to
                  BY <1>1 DEF ViewCalls
            <3>2. call[c].pc = "flush"  BY <2>1 DEF V!Goes
            <3>3. Named(k)
                  <4> HIDE DEF k
                  <4> QED  BY <1>1, <3>1, <3>2, KeepsNames
            <3>4. client' \in [Objects -> SUBSET Objects] /\ lost' \subseteq ViewEvents
                  BY <1>1, <2>1, PublishTyped DEF ViewCalls
            <3>5. RestTyped'  BY <1>2, <2>1, <3>4 DEF RestTyped, V!gridVars, V!batchVars, V!sceneVars, V!NoBatch
            <3> QED  BY <2>1, <3>1, <3>3, <3>5, ViewTyped
      <2>2. ASSUME V!Goes(c, "flush", V!Ended(c)),
                   UNCHANGED <<V!gridVars, V!batchVars, member, depth, open, batch, client, lost>>
            PROVE  ViewTypes'
            <3>1. V!Ended(c) \in ViewCalls /\ Named(V!Ended(c))  BY EndedIsCall
            <3>2. RestTyped'  BY <1>2, <2>2 DEF RestTyped, V!gridVars, V!batchVars, V!NoBatch
            <3> QED  BY <2>2, <3>1, <3>2, ViewTyped
      <2> QED  BY <1>8, <2>1, <2>2 DEF V!Flush
<1> QED  BY <1>4, <1>5, <1>6, <1>7, <1>8

(* Every step keeps the types.                                             *)
LEMMA ViewStepTypes ==
    ASSUME V!SceneViewParams, ViewTypes, \A c \in Callers : WindowSound(call[c]), V!SVNext
    PROVE  ViewTypes'
<1>1. PICK c \in Callers :
        \/ \E o \in Objects :
            \/ \E p \in Places : V!Start(c, "enter", o, p) \/ V!Start(c, "move", o, p)
            \/ \E r \in Radii \union {0} : V!Start(c, "watch", o, r)
            \/ V!Start(c, "leave", o, 0)
        \/ V!StartWindow(c) \/ V!EndWindow(c) \/ V!Begin(c) \/ V!Arm(c)
        \/ V!Read(c) \/ V!Retry(c) \/ GridActs(c) \/ V!Missed(c) \/ V!Mark(c) \/ V!Scan(c)
        \/ V!SetMax(c) \/ V!Dispatch(c) \/ V!Dispatched(c) \/ V!Part(c) \/ V!End(c)
        \/ V!Take(c) \/ V!Measure(c) \/ V!Refresh(c) \/ V!Close(c) \/ V!Flush(c)
      BY ZenonT(60) DEF V!SVNext, GridActs
<1>2. ASSUME NEW o \in Objects,
             \/ \E p \in Places : V!Start(c, "enter", o, p) \/ V!Start(c, "move", o, p)
             \/ \E r \in Radii \union {0} : V!Start(c, "watch", o, r)
             \/ V!Start(c, "leave", o, 0)
      PROVE  ViewTypes'
      <2>1. PICK op \in {"enter", "move", "watch", "leave"}, to \in Places \union Radii \union {0} :
                /\ V!Start(c, op, o, to)
                /\ op \in {"enter", "move"} => to \in Places
                /\ op = "watch" => to \in Radii \union {0}
                /\ op = "leave" => to = 0
            BY <1>2
      <2> QED  BY <2>1, StartTypes
<1> QED  BY <1>1, <1>2, WindowTypes, BeginTypes, ReadTypes, ActTypes, LockTypes, DispatchTypes,
            OutTypes, EndTypes

-----------------------------------------------------------------------------
(* The windows of any goroutines *)
LEMMA OpenedBounds ==
    ASSUME V!SceneViewParams, NEW k \in ViewCalls
    PROVE  Opened(k) \in 0..(MaxNested + 1) /\ k.window \in 0..MaxNested
<1>1. k.window \in 0..MaxNested  BY DEF ViewCalls
<1> QED  BY <1>1 DEF Opened, V!SceneViewParams

LEMMA WindowsFinite ==
    ASSUME V!SceneViewParams, NEW S \in SUBSET (Callers \X (1..(MaxNested + 1)))
    PROVE  /\ IsFiniteSet(S) /\ Cardinality(S) \in Nat
           /\ Cardinality(S) <= (MaxNested + 1) * Cardinality(Callers)
<1>1. IsFiniteSet(Callers) /\ MaxNested \in Nat
      BY DEF V!SceneViewParams, V!IsFiniteSet, IsFiniteSet
<1>2. IsFiniteSet(1..(MaxNested + 1)) /\ Cardinality(1..(MaxNested + 1)) = MaxNested + 1
      BY <1>1, FS_Interval
<1>3. /\ IsFiniteSet(Callers \X (1..(MaxNested + 1)))
      /\ Cardinality(Callers \X (1..(MaxNested + 1))) = Cardinality(Callers) * (MaxNested + 1)
      BY <1>1, <1>2, FS_Product
<1>4. Cardinality(Callers) \in Nat  BY <1>1, FS_CardinalityType
<1>5. IsFiniteSet(S) /\ Cardinality(S) <= Cardinality(Callers) * (MaxNested + 1)
      BY <1>3, FS_Subset
<1>6. Cardinality(S) \in Nat  BY <1>5, FS_CardinalityType
<1>7. Cardinality(Callers) * (MaxNested + 1) = (MaxNested + 1) * Cardinality(Callers)
      BY <1>1, <1>4
<1> QED  BY <1>5, <1>6, <1>7

LEMMA SameWindows ==
    ASSUME ViewTypes, NEW c \in Callers, Opened(call'[c]) = Opened(call[c]),
           \A d \in Callers \ {c} : call'[d] = call[d]
    PROVE  OpenWindows' = OpenWindows
<1>1. \A d \in Callers : Opened(call'[d]) = Opened(call[d])  OBVIOUS
<1> QED  BY <1>1 DEF OpenWindows, Opened, Opening

LEMMA MoreWindows ==
    ASSUME V!SceneViewParams, ViewTypes, ViewTypes', NEW c \in Callers,
           Opened(call'[c]) = Opened(call[c]) + 1, \A d \in Callers \ {c} : call'[d] = call[d]
    PROVE  Cardinality(OpenWindows') = Cardinality(OpenWindows) + 1
<1> DEFINE t == <<c, Opened(call'[c])>>
           O(d) == Opened(call[d])
           P(d) == Opened(call'[d])
<1>1. \A d \in Callers : O(d) \in 0..(MaxNested + 1) /\ P(d) \in 0..(MaxNested + 1)
      BY OpenedBounds DEF ViewTypes
<1>2. P(c) = O(c) + 1 /\ \A d \in Callers \ {c} : P(d) = O(d)  OBVIOUS
<1>3. OpenWindows = {s \in Callers \X (1..(MaxNested + 1)) : s[2] <= O(s[1])}  BY DEF OpenWindows
<1>4. OpenWindows' = {s \in Callers \X (1..(MaxNested + 1)) : s[2] <= P(s[1])}
      BY DEF OpenWindows, Opened, Opening
<1>5. OpenWindows' = OpenWindows \union {t} /\ t \notin OpenWindows
      <2> MaxNested \in Nat  BY DEF V!SceneViewParams
      <2> t = <<c, P(c)>>  OBVIOUS
      <2> HIDE DEF O, P, t
      <2> QED  BY <1>1, <1>2, <1>3, <1>4
<1>6. IsFiniteSet(OpenWindows)  BY WindowsFinite DEF OpenWindows
<1> QED  BY <1>5, <1>6, FS_AddElement

LEMMA FewerWindows ==
    ASSUME V!SceneViewParams, ViewTypes, ViewTypes', NEW c \in Callers,
           Opened(call'[c]) = Opened(call[c]) - 1, \A d \in Callers \ {c} : call'[d] = call[d]
    PROVE  Cardinality(OpenWindows') = Cardinality(OpenWindows) - 1
<1> DEFINE t == <<c, Opened(call[c])>>
           O(d) == Opened(call[d])
           P(d) == Opened(call'[d])
<1>1. \A d \in Callers : O(d) \in 0..(MaxNested + 1) /\ P(d) \in 0..(MaxNested + 1)
      BY OpenedBounds DEF ViewTypes
<1>2. P(c) = O(c) - 1 /\ \A d \in Callers \ {c} : P(d) = O(d)  OBVIOUS
<1>3. OpenWindows = {s \in Callers \X (1..(MaxNested + 1)) : s[2] <= O(s[1])}  BY DEF OpenWindows
<1>4. OpenWindows' = {s \in Callers \X (1..(MaxNested + 1)) : s[2] <= P(s[1])}
      BY DEF OpenWindows, Opened, Opening
<1>5. OpenWindows' = OpenWindows \ {t} /\ t \in OpenWindows
      <2> MaxNested \in Nat  BY DEF V!SceneViewParams
      <2> t = <<c, O(c)>>  OBVIOUS
      <2> HIDE DEF O, P, t
      <2> QED  BY <1>1, <1>2, <1>3, <1>4
<1>6. IsFiniteSet(OpenWindows)  BY WindowsFinite DEF OpenWindows
<1> QED  BY <1>5, <1>6, FS_RemoveElement

(* Who has a window has it counted.                                        *)
LEMMA WindowIsCounted ==
    ASSUME V!SceneViewParams, WindowInv, NEW c \in Callers, Opened(call[c]) > 0
    PROVE  depth > 0
<1>1. Opened(call[c]) \in 0..(MaxNested + 1) /\ MaxNested \in Nat
      BY OpenedBounds DEF WindowInv, ViewTypes, V!SceneViewParams
<1>2. <<c, 1>> \in OpenWindows  BY <1>1 DEF OpenWindows
<1>3. IsFiniteSet(OpenWindows)  BY WindowsFinite DEF OpenWindows
<1>4. Cardinality(OpenWindows) \in Nat /\ Cardinality(OpenWindows) # 0
      BY <1>2, <1>3, FS_CardinalityType, FS_EmptySet
<1> QED  BY <1>4 DEF WindowInv, WindowsCounted

(* A step that neither opens nor ends a window.                            *)
LEMMA QuietStep ==
    ASSUME V!SceneViewParams, WindowInv, NEW c \in Callers, WindowSound(call'[c]),
           Opened(call'[c]) = Opened(call[c]), \A d \in Callers \ {c} : call'[d] = call[d],
           call[c].pc # "take", Ending(call[c]) => Ending(call'[c]),
           UNCHANGED <<depth, open, batching>>, batch' = V!NoBatch <=> batch = V!NoBatch,
           ~batching => UNCHANGED <<marked, pending>>
    PROVE  WindowsCounted'
<1> USE DEF WindowInv, WindowsCounted
<1>1. depth' = Cardinality(OpenWindows')  BY SameWindows
<1>2. \A d \in Callers : WindowSound(call'[d])  OBVIOUS
<1>3. depth = 0 /\ batching => \E d \in Callers : call'[d].pc = "take"  OBVIOUS
<1>4. depth = 0 /\ (open \/ batch # V!NoBatch) => \E d \in Callers : Ending(call'[d])
      OBVIOUS
<1>5. ~batching => marked' = {} /\ pending' = {}  OBVIOUS
<1>6. (depth = 0 /\ (open \/ batch # V!NoBatch) => \E d \in Callers : Ending(call[d]))'
      BY <1>4 DEF Ending, V!NoBatch
<1>7. (\A d \in Callers : WindowSound(call[d]))'  BY <1>2 DEF WindowSound
<1>8. (depth = Cardinality(OpenWindows))'  BY <1>1
<1>9. (depth = 0 /\ batching => \E d \in Callers : call[d].pc = "take")'  BY <1>3
<1>10. (~batching => marked = {} /\ pending = {})'  BY <1>5
<1> QED  BY <1>6, <1>7, <1>8, <1>9, <1>10

LEMMA EndedWindows ==
    ASSUME ViewTypes, NEW c \in Callers, call[c].pc \notin {"arm", "end"}
    PROVE  /\ Opened(V!Ended(c)) = Opened(call[c]) /\ WindowSound(V!Ended(c))
           /\ V!Ended(c).pc = (IF call[c].own THEN "end" ELSE "idle")
           /\ V!Ended(c).own = FALSE /\ V!Ended(c).op = "none"
           /\ V!Ended(c).window = call[c].window
           /\ V!Ended(c).marks = {} /\ V!Ended(c).events = {}
<1>1. call[c].own \in BOOLEAN  BY CallFields
<1>2. /\ V!Ended(c).pc = (IF call[c].own THEN "end" ELSE "idle")
      /\ V!Ended(c).own = FALSE /\ V!Ended(c).op = "none"
      /\ V!Ended(c).window = call[c].window
      /\ V!Ended(c).marks = {} /\ V!Ended(c).events = {}
      BY DEF V!Ended, V!Idle
<1>3. Opened(V!Ended(c)) = Opened(call[c])  BY <1>1, <1>2 DEF Opened, Opening
<1>4. WindowSound(V!Ended(c))  BY <1>1, <1>2 DEF WindowSound
<1> QED  BY <1>2, <1>3, <1>4

LEMMA AfterGridWindows ==
    ASSUME ViewTypes, NEW c \in Callers, call[c].pc \notin {"arm", "end"}
    PROVE  /\ Opened(V!AfterGrid(c)) = Opened(call[c]) /\ WindowSound(V!AfterGrid(c))
           /\ ~Ending(V!AfterGrid(c))
<1>1. CASE V!AfterGrid(c) = V!Ended(c)
      <2>1. V!Ended(c).pc \in {"end", "idle"}  BY EndedWindows
      <2> QED  BY <1>1, <2>1, EndedWindows DEF Ending
<1>2. CASE V!AfterGrid(c) = V!Then(c, "part")
      <2>1. /\ V!Then(c, "part").pc = "part" /\ V!Then(c, "part").own = call[c].own
            /\ V!Then(c, "part").window = call[c].window
            BY ThenIsCall DEF ViewPcs
      <2> QED  BY <1>2, <2>1 DEF Opened, Opening, WindowSound, Ending
<1> QED  BY <1>1, <1>2 DEF V!AfterGrid

QuietNext(c) ==
    /\ WindowSound(call'[c]) /\ Opened(call'[c]) = Opened(call[c])
    /\ \A d \in Callers \ {c} : call'[d] = call[d]
    /\ call[c].pc # "take" /\ (Ending(call[c]) => Ending(call'[c]))
    /\ UNCHANGED <<depth, open, batching>> /\ (batch' = V!NoBatch <=> batch = V!NoBatch)
    /\ (~batching => UNCHANGED <<marked, pending>>)

LEMMA QuietStarts ==
    ASSUME ViewTypes, NEW c \in Callers, WindowSound(call[c]),
           \/ \E op \in {"enter", "move", "watch", "leave"}, o \in Objects,
                 to \in Places \union Radii \union {0} : V!Start(c, op, o, to)
           \/ V!StartWindow(c) \/ V!EndWindow(c)
    PROVE  QuietNext(c)
<1>1. call[c] \in ViewCalls /\ call[c].window \in 0..MaxNested  BY CallFields
<1>2. ASSUME NEW op \in {"enter", "move", "watch", "leave"}, NEW o \in Objects,
             NEW to \in Places \union Radii \union {0}, V!Start(c, op, o, to)
      PROVE  QuietNext(c)
      <2> DEFINE stage == IF Direct \/ open THEN "grid" ELSE "begin"
                 k == [call[c] EXCEPT !.pc = stage, !.op = op, !.obj = o, !.to = to]
      <2>1. V!Goes(c, "idle", k)  BY <1>2 DEF V!Start
      <2>2. call[c].pc = "idle" /\ call'[c] = k /\ \A d \in Callers \ {c} : call'[d] = call[d]
            BY <2>1, CallGoes
      <2>3. k.pc = stage /\ k.op = op /\ k.own = call[c].own /\ k.window = call[c].window
            <3> HIDE DEF stage
            <3> QED  BY <1>1 DEF ViewCalls
      <2>4. stage \in {"grid", "begin"}  OBVIOUS
      <2>5. UNCHANGED <<depth, open, batching, batch, marked, pending>>
            BY <1>2 DEF V!Start, V!batchVars
      <2> HIDE DEF k, stage
      <2> QED  BY <2>2, <2>3, <2>4, <2>5
               DEF QuietNext, WindowSound, Opened, Opening, Ending
<1>3. CASE V!StartWindow(c)
      <2> DEFINE k == [call[c] EXCEPT !.pc = "begin", !.op = "begin"]
      <2>1. V!Goes(c, "idle", k) /\ call[c].window < MaxNested  BY <1>3 DEF V!StartWindow
      <2>2. call[c].pc = "idle" /\ call'[c] = k /\ \A d \in Callers \ {c} : call'[d] = call[d]
            BY <2>1, CallGoes
      <2>3. k.pc = "begin" /\ k.op = "begin" /\ k.own = call[c].own /\ k.window = call[c].window
            BY <1>1 DEF ViewCalls
      <2>5. UNCHANGED <<depth, open, batching, batch, marked, pending>>
            BY <1>3 DEF V!StartWindow, V!batchVars, V!sceneVars
      <2> HIDE DEF k
      <2> QED  BY <2>1, <2>2, <2>3, <2>5
               DEF QuietNext, WindowSound, Opened, Opening, Ending
<1>4. CASE V!EndWindow(c)
      <2> DEFINE k == [call[c] EXCEPT !.pc = "end", !.window = @ - 1]
      <2>1. V!Goes(c, "idle", k) /\ call[c].window > 0  BY <1>4 DEF V!EndWindow
      <2>2. call[c].pc = "idle" /\ call'[c] = k /\ \A d \in Callers \ {c} : call'[d] = call[d]
            BY <2>1, CallGoes
      <2>3. k.pc = "end" /\ k.own = call[c].own /\ k.window = call[c].window - 1
            BY <1>1 DEF ViewCalls
      <2>4. call[c].own = FALSE  BY <1>1, <2>2 DEF WindowSound, ViewCalls
      <2>5. UNCHANGED <<depth, open, batching, batch, marked, pending>>
            BY <1>4 DEF V!EndWindow, V!batchVars, V!sceneVars
      <2>6. Opened(k) = Opened(call[c])
            <3> HIDE DEF k
            <3> QED  BY <1>1, <2>2, <2>3, <2>4 DEF Opened, Opening
      <2> HIDE DEF k
      <2> QED  BY <2>2, <2>3, <2>4, <2>5, <2>6 DEF QuietNext, WindowSound, Ending
<1> QED  BY <1>2, <1>3, <1>4

LEMMA QuietGrid ==
    ASSUME ViewTypes, NEW c \in Callers, WindowSound(call[c]),
           V!Read(c) \/ V!Retry(c) \/ V!Missed(c) \/ V!Mark(c) \/ V!Scan(c) \/ V!SetMax(c)
    PROVE  QuietNext(c)
<1> DEFINE Inside == {"grid", "lock", "mark", "scan", "setmax", "dispatch", "part"}
<1>1. call[c] \in ViewCalls  BY CallFields
<1>2. /\ UNCHANGED <<depth, open, batching, batch>>
      /\ ~batching => UNCHANGED <<marked, pending>>
      BY DEF V!Read, V!Retry, V!Missed, V!Mark, V!Scan, V!SetMax, V!batchVars, V!sceneVars
<1>3. ASSUME NEW from \in {"grid", "lock", "mark", "scan", "setmax"}, NEW k,
             V!Goes(c, from, k), Opened(k) = Opened(call[c]), WindowSound(k)
      PROVE  QuietNext(c)
      <2>1. call[c].pc = from /\ call'[c] = k /\ \A d \in Callers \ {c} : call'[d] = call[d]
            BY <1>3, CallGoes
      <2> QED  BY <1>2, <1>3, <2>1 DEF QuietNext, Ending
<1>4. ASSUME NEW from \in {"grid", "lock", "mark", "scan", "setmax"},
             V!Goes(c, from, V!AfterGrid(c))
      PROVE  QuietNext(c)
      BY <1>3, <1>4, AfterGridWindows DEF V!Goes
<1>5. ASSUME NEW from \in {"grid", "lock", "mark", "scan", "setmax"}, NEW k,
             V!Goes(c, from, k), k.own = call[c].own, k.window = call[c].window,
             k.pc \in Inside
      PROVE  QuietNext(c)
      <2>1. call[c].pc = from  BY <1>5 DEF V!Goes
      <2>2. Opened(k) = Opened(call[c]) /\ WindowSound(k)
            BY <1>5, <2>1 DEF Opened, Opening, WindowSound
      <2> QED  BY <1>3, <1>5, <2>2
<1>6. CASE V!Read(c)
      <2> DEFINE k == [call[c] EXCEPT !.pc = "lock", !.op = V!Names(@, call[c].obj), !.limit = maxR,
                             !.at = IF V!Present(call[c].obj) THEN pos[call[c].obj] ELSE 0]
      <2>1. V!Goes(c, "grid", V!AfterGrid(c)) \/ V!Goes(c, "grid", k)  BY <1>6 DEF V!Read
      <2>2. k.own = call[c].own /\ k.window = call[c].window /\ k.pc = "lock"
            BY <1>1 DEF ViewCalls
      <2> HIDE DEF k
      <2> QED  BY <1>4, <1>5, <2>1, <2>2
<1>7. CASE V!Retry(c)
      <2>1. V!Goes(c, "lock", V!Then(c, "grid"))  BY <1>7 DEF V!Retry
      <2> QED  BY <1>5, <2>1, ThenIsCall DEF ViewPcs
<1>8. CASE V!Missed(c)
      <2>1. V!Goes(c, "lock", V!AfterGrid(c))  BY <1>8 DEF V!Missed
      <2> QED  BY <1>4, <2>1
<1>9. CASE V!Mark(c)
      <2> DEFINE stage == IF call[c].scan THEN "scan" ELSE "dispatch"
                 k == [call[c] EXCEPT !.pc = stage, !.marks = {}]
      <2>1. V!Goes(c, "mark", k)  BY <1>9 DEF V!Mark
      <2>2. k.own = call[c].own /\ k.window = call[c].window /\ k.pc = stage
            <3> HIDE DEF stage
            <3> QED  BY <1>1 DEF ViewCalls
      <2>3. stage \in Inside  OBVIOUS
      <2> HIDE DEF k, stage
      <2> QED  BY <1>5, <2>1, <2>2, <2>3
<1>10. CASE V!Scan(c)
      <2>1. PICK m : V!Goes(c, "scan", [call[c] EXCEPT !.pc = "setmax", !.limit = m])
            BY <1>10 DEF V!Scan
      <2> DEFINE k == [call[c] EXCEPT !.pc = "setmax", !.limit = m]
      <2>2. k.own = call[c].own /\ k.window = call[c].window /\ k.pc = "setmax"
            BY <1>1 DEF ViewCalls
      <2> HIDE DEF k
      <2>3. V!Goes(c, "scan", k) /\ k.pc \in Inside /\ "scan" \in Inside  BY <2>1, <2>2 DEF k
      <2> QED  BY <1>5, <2>2, <2>3
<1>11. CASE V!SetMax(c)
      <2>1. V!Goes(c, "setmax", V!Then(c, "dispatch"))  BY <1>11 DEF V!SetMax
      <2> QED  BY <1>5, <2>1, ThenIsCall DEF ViewPcs
<1> QED  BY <1>6, <1>7, <1>8, <1>9, <1>10, <1>11

LEMMA QuietApply ==
    ASSUME ViewTypes, NEW c \in Callers, WindowSound(call[c]),
           NEW p, NEW r, NEW xs, NEW self, NEW scan, V!Apply(c, p, r, xs, self, scan)
    PROVE  QuietNext(c)
<1> DEFINE Inside == {"mark", "scan", "dispatch"}
<1>1. call[c] \in ViewCalls  BY CallFields
<1>2. UNCHANGED <<depth, open, batching, batch, marked>> /\ (~batching => UNCHANGED pending)
      BY DEF V!Apply, V!sceneVars
<1>3. ASSUME NEW k, V!Goes(c, "lock", k), k.own = call[c].own, k.window = call[c].window,
             k.pc \in Inside
      PROVE  QuietNext(c)
      <2>1. call[c].pc = "lock" /\ call'[c] = k /\ \A d \in Callers \ {c} : call'[d] = call[d]
            BY <1>3, CallGoes
      <2>2. Opened(k) = Opened(call[c]) /\ WindowSound(k)
            BY <1>3, <2>1 DEF Opened, Opening, WindowSound
      <2> QED  BY <1>2, <2>1, <2>2 DEF QuietNext, Ending
<1>4. CASE batching
      <2>1. PICK W : V!Goes(c, "lock", [call[c] EXCEPT !.pc = "mark", !.marks = W, !.scan = scan])
            BY <1>4 DEF V!Apply
      <2> DEFINE k == [call[c] EXCEPT !.pc = "mark", !.marks = W, !.scan = scan]
      <2>2. k.own = call[c].own /\ k.window = call[c].window /\ k.pc = "mark"
            BY <1>1 DEF ViewCalls
      <2>3. V!Goes(c, "lock", k) /\ k.pc \in Inside  BY <2>1, <2>2
      <2> HIDE DEF k
      <2> QED  BY <1>3, <2>2, <2>3
<1>5. CASE ~batching
      <2> DEFINE stage == IF scan THEN "scan" ELSE "dispatch"
      <2>1. PICK E : V!Goes(c, "lock", [call[c] EXCEPT !.pc = stage, !.events = E])
            BY <1>5 DEF V!Apply
      <2> DEFINE k == [call[c] EXCEPT !.pc = stage, !.events = E]
      <2>2. k.own = call[c].own /\ k.window = call[c].window /\ k.pc = stage
            <3> HIDE DEF stage
            <3> QED  BY <1>1 DEF ViewCalls
      <2>3. stage \in Inside  OBVIOUS
      <2> HIDE DEF k, stage
      <2>4. V!Goes(c, "lock", k) /\ k.pc \in Inside  BY <2>1, <2>2, <2>3 DEF k
      <2> QED  BY <1>3, <2>2, <2>4
<1> QED  BY <1>4, <1>5

LEMMA QuietActs ==
    ASSUME ViewTypes, NEW c \in Callers, WindowSound(call[c]), GridActs(c)
    PROVE  QuietNext(c)
<1>1. PICK p, r, xs, self, scan : V!Apply(c, p, r, xs, self, scan)
      BY DEF GridActs, V!Enter, V!Move, V!Leave, V!Watch, V!Unwatch
<1> QED  BY <1>1, QuietApply

LEMMA QuietEnds ==
    ASSUME ViewTypes, NEW c \in Callers, WindowSound(call[c]),
           \/ V!Dispatch(c) \/ V!Dispatched(c) \/ V!Part(c)
           \/ V!Measure(c) \/ V!Refresh(c) \/ V!Flush(c)
    PROVE  QuietNext(c)
<1> DEFINE From == {"dispatch", "part", "measure", "refresh", "last", "flush"}
           Open == {"measure", "refresh", "last"}
<1>1. call[c] \in ViewCalls  BY CallFields
<1>2. UNCHANGED <<depth, open, batching, marked, pending>> /\ (batch' = V!NoBatch <=> batch = V!NoBatch)
      <2>1. CASE V!Dispatch(c)
            <3>1. PICK e \in call[c].events : V!Observe(e)  BY <2>1 DEF V!Dispatch
            <3>2. e \in ViewEvents /\ (batch = V!NoBatch \/ batch \in SUBSET ViewEvents)
                  BY CallFields DEF ViewTypes
            <3>3. batch # V!NoBatch => V!Over(batch, {e}) # V!NoBatch
                  BY <3>2, OverTyped, NoBatchIsNone
            <3> QED  BY <2>1, <3>1, <3>3 DEF V!Dispatch, V!Observe, V!batchVars
      <2>2. CASE V!Dispatched(c) \/ V!Part(c) \/ V!Measure(c) \/ V!Refresh(c) \/ V!Flush(c)
            BY <2>2 DEF V!Dispatched, V!Part, V!Measure, V!Refresh, V!Flush, V!batchVars, V!sceneVars
      <2> QED  BY <2>1, <2>2
<1>3. ASSUME NEW from \in From, NEW k, V!Goes(c, from, k), Opened(k) = Opened(call[c]),
             WindowSound(k), from \in Open => Ending(k)
      PROVE  QuietNext(c)
      <2>1. call[c].pc = from /\ call'[c] = k /\ \A d \in Callers \ {c} : call'[d] = call[d]
            BY <1>3, CallGoes
      <2> QED  BY <1>2, <1>3, <2>1 DEF QuietNext, Ending
<1>4. ASSUME NEW from \in From \ Open, V!Goes(c, from, V!Ended(c))
      PROVE  QuietNext(c)
      <2>1. call[c].pc = from  BY <1>4 DEF V!Goes
      <2> QED  BY <1>3, <1>4, <2>1, EndedWindows
<1>5. ASSUME NEW from \in From, NEW k, V!Goes(c, from, k), k.own = call[c].own,
             k.window = call[c].window,
             k.pc = from \/ (from \in Open /\ k.pc \in {"measure", "refresh", "last", "close"})
      PROVE  QuietNext(c)
      <2>1. call[c].pc = from  BY <1>5 DEF V!Goes
      <2>2. Opened(k) = Opened(call[c]) /\ WindowSound(k)
            BY <1>5, <2>1 DEF Opened, Opening, WindowSound
      <2>3. from \in Open => Ending(k)  BY <1>5 DEF Ending
      <2> QED  BY <1>3, <1>5, <2>2, <2>3
<1>6. CASE V!Dispatch(c)
      <2>1. PICK e \in call[c].events, stage \in {"dispatch", "last"} :
                V!Goes(c, stage, [call[c] EXCEPT !.events = @ \ {e}])
            BY <1>6 DEF V!Dispatch
      <2> DEFINE k == [call[c] EXCEPT !.events = @ \ {e}]
      <2>2. k.own = call[c].own /\ k.window = call[c].window /\ k.pc = stage
            BY <1>1, <2>1 DEF ViewCalls, V!Goes
      <2>3. V!Goes(c, stage, k)  BY <2>1
      <2> HIDE DEF k
      <2> QED  BY <1>5, <2>2, <2>3
<1>7. CASE V!Dispatched(c)
      <2>1. CASE V!Goes(c, "dispatch", V!AfterGrid(c))
            <3>1. call[c].pc = "dispatch"  BY <2>1 DEF V!Goes
            <3> QED  BY <1>3, <2>1, <3>1, AfterGridWindows
      <2>2. CASE V!Goes(c, "last", V!Then(c, "close"))
            BY <1>5, <2>2, ThenIsCall DEF ViewPcs
      <2> QED  BY <1>7, <2>1, <2>2 DEF V!Dispatched
<1>8. CASE V!Part(c)
      BY <1>4, <1>8 DEF V!Part
<1>9. CASE V!Measure(c)
      <2>1. PICK B : V!Goes(c, "measure", [call[c] EXCEPT !.pc = "refresh", !.box = B])
            BY <1>9 DEF V!Measure
      <2> DEFINE k == [call[c] EXCEPT !.pc = "refresh", !.box = B]
      <2>2. k.own = call[c].own /\ k.window = call[c].window /\ k.pc = "refresh"
            BY <1>1 DEF ViewCalls
      <2>3. V!Goes(c, "measure", k)  BY <2>1
      <2> HIDE DEF k
      <2> QED  BY <1>5, <2>2, <2>3
<1>10. CASE V!Refresh(c)
      <2>1. PICK E : V!Goes(c, "refresh", [call[c] EXCEPT !.pc = "last", !.marks = {}, !.box = {},
                                                          !.events = V!Over(@, E)])
            BY <1>10 DEF V!Refresh
      <2> DEFINE k == [call[c] EXCEPT !.pc = "last", !.marks = {}, !.box = {},
                                      !.events = V!Over(@, E)]
      <2>2. k.own = call[c].own /\ k.window = call[c].window /\ k.pc = "last"
            BY <1>1 DEF ViewCalls
      <2>3. V!Goes(c, "refresh", k)  BY <2>1
      <2> HIDE DEF k
      <2> QED  BY <1>5, <2>2, <2>3
<1>11. CASE V!Flush(c)
      <2>1. ASSUME NEW e, V!Goes(c, "flush", [call[c] EXCEPT !.events = @ \ {e}])
            PROVE  QuietNext(c)
            <3> DEFINE k == [call[c] EXCEPT !.events = @ \ {e}]
            <3>2. k.own = call[c].own /\ k.window = call[c].window /\ k.pc = "flush"
                  BY <1>1, <2>1 DEF ViewCalls, V!Goes
            <3>3. V!Goes(c, "flush", k)  BY <2>1
            <3> HIDE DEF k
            <3> QED  BY <1>5, <3>2, <3>3
      <2>2. CASE V!Goes(c, "flush", V!Ended(c))  BY <1>4, <2>2
      <2> QED  BY <1>11, <2>1, <2>2 DEF V!Flush
<1> QED  BY <1>6, <1>7, <1>8, <1>9, <1>10, <1>11

(* BeginBatch: one window more, opened by the outermost; ...               *)
LEMMA BeginCounts ==
    ASSUME V!SceneViewParams, WindowInv, ViewTypes', NEW c \in Callers, V!Begin(c)
    PROVE  WindowsCounted'
<1> DEFINE k == IF depth = 0 THEN V!Then(c, "arm") ELSE V!Begun(c)
<1>1. call[c] \in ViewCalls /\ call[c].window \in 0..MaxNested /\ call[c].own \in BOOLEAN
      /\ WindowSound(call[c]) /\ depth \in Nat
      BY CallFields DEF WindowInv, WindowsCounted, ViewTypes
<1>2. V!Goes(c, "begin", k)  BY DEF V!Begin
<1>3. call[c].pc = "begin" /\ call'[c] = k /\ \A d \in Callers \ {c} : call'[d] = call[d]
      <2> HIDE DEF k
      <2> QED  BY <1>2, CallGoes DEF WindowInv
<1>4. call[c].own = FALSE  BY <1>1, <1>3 DEF WindowSound
<1>5. Opened(k) = Opened(call[c]) + 1 /\ WindowSound(k)
      <2>1. Opened(call[c]) = call[c].window  BY <1>1, <1>3, <1>4 DEF Opened, Opening
      <2>2. CASE depth = 0
            <3>1. /\ V!Then(c, "arm").pc = "arm" /\ V!Then(c, "arm").own = call[c].own
                  /\ V!Then(c, "arm").window = call[c].window /\ V!Then(c, "arm").op = call[c].op
                  BY ThenIsCall DEF WindowInv, ViewPcs
            <3>2. k = V!Then(c, "arm")  BY <2>2
            <3> HIDE DEF k
            <3> QED  BY <1>1, <1>3, <1>4, <2>1, <3>1, <3>2 DEF Opened, Opening, WindowSound
      <2>3. CASE depth # 0
            <3>1. k = V!Begun(c)  BY <2>3
            <3>2. V!Then(c, "grid").window = call[c].window /\ V!Then(c, "grid") \in ViewCalls
                  /\ V!Then(c, "grid").pc = "grid"
                  BY ThenIsCall DEF WindowInv, ViewPcs
            <3>3. CASE call[c].op = "begin"
                  <4>1. V!Begun(c).window = call[c].window + 1 /\ V!Begun(c).own = FALSE
                        /\ V!Begun(c).pc = "idle"
                        BY <3>3 DEF V!Begun, V!Idle
                  <4> HIDE DEF k
                  <4> QED  BY <1>1, <2>1, <3>1, <4>1 DEF Opened, Opening, WindowSound
            <3>4. CASE call[c].op # "begin"
                  <4>1. V!Begun(c).window = call[c].window /\ V!Begun(c).own = TRUE
                        /\ V!Begun(c).pc = "grid"
                        BY <3>2, <3>4 DEF V!Begun, ViewCalls
                  <4> HIDE DEF k
                  <4> QED  BY <1>1, <2>1, <3>1, <4>1 DEF Opened, Opening, WindowSound
            <3> QED  BY <3>3, <3>4
      <2> QED  BY <2>2, <2>3
<1> HIDE DEF k
<1>6. depth' = Cardinality(OpenWindows')
      BY <1>3, <1>5, MoreWindows DEF WindowInv, WindowsCounted, V!Begin
<1>7. (depth = Cardinality(OpenWindows))'  BY <1>6
<1>8. (\A d \in Callers : WindowSound(call[d]))'
      <2>1. \A d \in Callers : WindowSound(call'[d])  BY <1>3, <1>5 DEF WindowInv, WindowsCounted
      <2> QED  BY <2>1 DEF WindowSound
<1>9. depth' # 0 /\ batching' = batching /\ marked' = marked /\ pending' = pending
      BY <1>1 DEF V!Begin, V!batchVars
<1> QED  BY <1>7, <1>8, <1>9 DEF WindowInv, WindowsCounted

(* ... the grid's batch is opened while that window is there; ...          *)
LEMMA ArmCounts ==
    ASSUME V!SceneViewParams, WindowInv, ViewTypes', NEW c \in Callers, V!Arm(c)
    PROVE  WindowsCounted'
<1> DEFINE k == V!Begun(c)
<1>1. call[c] \in ViewCalls /\ call[c].window \in 0..MaxNested /\ call[c].own \in BOOLEAN
      /\ WindowSound(call[c]) /\ depth \in Nat
      BY CallFields DEF WindowInv, WindowsCounted, ViewTypes
<1>2. V!Goes(c, "arm", k)  BY DEF V!Arm
<1>3. call[c].pc = "arm" /\ call'[c] = k /\ \A d \in Callers \ {c} : call'[d] = call[d]
      <2> HIDE DEF k
      <2> QED  BY <1>2, CallGoes DEF WindowInv
<1>4. call[c].own = FALSE  BY <1>1, <1>3 DEF WindowSound
<1>5. Opened(k) = Opened(call[c]) /\ WindowSound(k) /\ Opened(call[c]) > 0
      <2>1. Opened(call[c]) = call[c].window + 1  BY <1>1, <1>3, <1>4 DEF Opened, Opening
      <2>2. V!Then(c, "grid").window = call[c].window /\ V!Then(c, "grid") \in ViewCalls
            /\ V!Then(c, "grid").pc = "grid"
            BY ThenIsCall DEF WindowInv, ViewPcs
      <2>3. CASE call[c].op = "begin"
            <3>1. V!Begun(c).window = call[c].window + 1 /\ V!Begun(c).own = FALSE
                  /\ V!Begun(c).pc = "idle"
                  BY <2>3 DEF V!Begun, V!Idle
            <3> QED  BY <1>1, <2>1, <3>1 DEF Opened, Opening, WindowSound
      <2>4. CASE call[c].op # "begin"
            <3>1. V!Begun(c).window = call[c].window /\ V!Begun(c).own = TRUE
                  /\ V!Begun(c).pc = "grid"
                  BY <2>2, <2>4 DEF V!Begun, ViewCalls
            <3> QED  BY <1>1, <2>1, <3>1 DEF Opened, Opening, WindowSound
      <2> QED  BY <2>3, <2>4
<1> HIDE DEF k
<1>6. depth > 0  BY <1>5, WindowIsCounted
<1>7. UNCHANGED <<depth, open, batch, marked, pending>> /\ batching' = TRUE
      BY DEF V!Arm, V!sceneVars
<1>8. (depth = Cardinality(OpenWindows))'
      BY <1>3, <1>5, <1>7, SameWindows DEF WindowInv, WindowsCounted
<1>9. (\A d \in Callers : WindowSound(call[d]))'
      <2>1. \A d \in Callers : WindowSound(call'[d])  BY <1>3, <1>5 DEF WindowInv, WindowsCounted
      <2> QED  BY <2>1 DEF WindowSound
<1> QED  BY <1>1, <1>6, <1>7, <1>8, <1>9 DEF WindowsCounted

(* EndBatch: one window less, and who takes the last has to end it; ...    *)
LEMMA EndCounts ==
    ASSUME V!SceneViewParams, WindowInv, ViewTypes', NEW c \in Callers, V!End(c)
    PROVE  WindowsCounted'
<1> DEFINE k == [V!Idle EXCEPT !.window = call[c].window,
                               !.pc = IF depth = 1 THEN "take" ELSE "idle"]
<1>1. call[c] \in ViewCalls /\ call[c].window \in 0..MaxNested /\ call[c].own \in BOOLEAN
      /\ WindowSound(call[c]) /\ depth \in Nat
      BY CallFields DEF WindowInv, WindowsCounted, ViewTypes
<1>2. V!Goes(c, "end", k)  BY DEF V!End
<1>3. call[c].pc = "end" /\ call'[c] = k /\ \A d \in Callers \ {c} : call'[d] = call[d]
      <2> HIDE DEF k
      <2> QED  BY <1>2, CallGoes DEF WindowInv
<1>4. k.window = call[c].window /\ k.own = FALSE /\ k.pc = (IF depth = 1 THEN "take" ELSE "idle")
      BY DEF V!Idle
<1> HIDE DEF k
<1>5. Opened(k) = Opened(call[c]) - 1 /\ Opened(call[c]) > 0 /\ WindowSound(k)
      BY <1>1, <1>3, <1>4 DEF Opened, Opening, WindowSound
<1>6. depth > 0  BY <1>5, WindowIsCounted
<1>7. UNCHANGED <<open, batch, batching, marked, pending>> /\ depth' = depth - 1
      BY <1>6 DEF V!End, V!batchVars
<1>8. (depth = Cardinality(OpenWindows))'
      BY <1>3, <1>5, <1>7, FewerWindows DEF WindowInv, WindowsCounted
<1>9. (\A d \in Callers : WindowSound(call[d]))'
      <2>1. \A d \in Callers : WindowSound(call'[d])  BY <1>3, <1>5 DEF WindowInv, WindowsCounted
      <2> QED  BY <2>1 DEF WindowSound
<1>10. depth' = 0 => call'[c].pc = "take"  BY <1>1, <1>3, <1>4, <1>7
<1>11. (depth = 0 /\ batching => \E d \in Callers : call[d].pc = "take")'  BY <1>10
<1>12. (depth = 0 /\ (open \/ batch # V!NoBatch) => \E d \in Callers : Ending(call[d]))'
      <2>1. depth' = 0 => Ending(call'[c])  BY <1>10 DEF Ending
      <2> QED  BY <2>1 DEF Ending
<1>13. (~batching => marked = {} /\ pending = {})'  BY <1>7 DEF WindowInv, WindowsCounted
<1> QED  BY <1>8, <1>9, <1>11, <1>12, <1>13 DEF WindowsCounted

(* ... it takes what is marked and pending, and at last closes.            *)
LEMMA TakeCounts ==
    ASSUME V!SceneViewParams, WindowInv, ViewTypes', NEW c \in Callers, V!Take(c) \/ V!Close(c)
    PROVE  WindowsCounted'
<1>1. call[c] \in ViewCalls /\ WindowSound(call[c])
      BY CallFields DEF WindowInv, WindowsCounted
<1>2. PICK from \in {"take", "close"}, stage \in {"last", "measure", "flush"} :
          /\ call[c].pc = from /\ call'[c].pc = stage /\ call'[c].own = call[c].own
          /\ call'[c].window = call[c].window /\ (from = "take" => Ending(call'[c]))
          /\ \A d \in Callers \ {c} : call'[d] = call[d]
      <2>1. CASE V!Take(c)
            <3> DEFINE stage == IF marked = {} THEN "last" ELSE "measure"
                       k == [call[c] EXCEPT !.pc = stage, !.marks = marked, !.events = pending]
            <3>1. V!Goes(c, "take", k)  BY <2>1 DEF V!Take
            <3>2. k.own = call[c].own /\ k.window = call[c].window /\ k.pc = stage
                  <4> HIDE DEF stage
                  <4> QED  BY <1>1 DEF ViewCalls
            <3>3. stage \in {"last", "measure"}  OBVIOUS
            <3> HIDE DEF k, stage
            <3>4. call[c].pc = "take" /\ call'[c] = k /\ \A d \in Callers \ {c} : call'[d] = call[d]
                  BY <3>1, CallGoes DEF WindowInv
            <3> QED  BY <3>2, <3>3, <3>4 DEF Ending
      <2>2. CASE V!Close(c)
            <3>1. PICK E : V!Goes(c, "close", [call[c] EXCEPT !.pc = "flush", !.events = E])
                  BY <2>2 DEF V!Close
            <3> DEFINE k == [call[c] EXCEPT !.pc = "flush", !.events = E]
            <3>2. k.own = call[c].own /\ k.window = call[c].window /\ k.pc = "flush"
                  BY <1>1 DEF ViewCalls
            <3>3. V!Goes(c, "close", k)  BY <3>1
            <3> HIDE DEF k
            <3>4. call[c].pc = "close" /\ call'[c] = k /\ \A d \in Callers \ {c} : call'[d] = call[d]
                  BY <3>3, CallGoes DEF WindowInv
            <3> QED  BY <3>2, <3>4
      <2> QED  BY <2>1, <2>2
<1>3. Opened(call'[c]) = Opened(call[c]) /\ WindowSound(call'[c])
      BY <1>1, <1>2 DEF Opened, Opening, WindowSound
<1>4. UNCHANGED depth  BY DEF V!Take, V!Close, V!sceneVars
<1>5. (depth = Cardinality(OpenWindows))'
      BY <1>2, <1>3, <1>4, SameWindows DEF WindowInv, WindowsCounted
<1>6. (\A d \in Callers : WindowSound(call[d]))'
      <2>1. \A d \in Callers : WindowSound(call'[d])
            BY <1>2, <1>3 DEF WindowInv, WindowsCounted
      <2> QED  BY <2>1 DEF WindowSound
<1>7. CASE V!Take(c)
      <2>1. batching' = FALSE /\ marked' = {} /\ pending' = {} /\ UNCHANGED <<open, batch>>
            BY <1>7 DEF V!Take, V!sceneVars
      <2>2. depth' = 0 /\ (open \/ batch # V!NoBatch) => \E d \in Callers : Ending(call'[d])
            <3>1. call[c].pc = "take"  BY <1>7 DEF V!Take, V!Goes
            <3> QED  BY <1>2, <1>4, <3>1
      <2>3. (depth = 0 /\ (open \/ batch # V!NoBatch) => \E d \in Callers : Ending(call[d]))'
            BY <2>1, <2>2 DEF Ending, V!NoBatch
      <2> QED  BY <1>5, <1>6, <2>1, <2>3 DEF WindowsCounted
<1>8. CASE V!Close(c)
      <2>1. open' = FALSE /\ batch' = V!NoBatch /\ UNCHANGED <<batching, marked, pending>>
            BY <1>8 DEF V!Close, V!batchVars
      <2>2. call[c].pc = "close"  BY <1>8 DEF V!Close, V!Goes
      <2>3. depth = 0 /\ batching => \E d \in Callers : call'[d].pc = "take"
            BY <1>2, <2>2 DEF WindowInv, WindowsCounted
      <2>4. (depth = 0 /\ batching => \E d \in Callers : call[d].pc = "take")'
            BY <1>4, <2>1, <2>3
      <2>5. (~batching => marked = {} /\ pending = {})'  BY <2>1 DEF WindowInv, WindowsCounted
      <2>6. (~open /\ batch = V!NoBatch)'  BY <2>1 DEF V!NoBatch
      <2> QED  BY <1>5, <1>6, <2>4, <2>5, <2>6 DEF WindowsCounted
<1> QED  BY <1>7, <1>8

LEMMA WindowStep ==
    V!SceneViewParams /\ WindowInv /\ [V!SVNext]_(V!vars) => WindowInv'
<1> SUFFICES ASSUME V!SceneViewParams, WindowInv, [V!SVNext]_(V!vars) PROVE WindowInv'
    OBVIOUS
<1>1. CASE UNCHANGED V!vars
      BY <1>1 DEF V!vars, V!gridVars, V!batchVars, V!sceneVars, WindowInv, ViewTypes, Named,
         WindowsCounted, OpenWindows, Opened, Opening, WindowSound, Ending, V!NoBatch
<1>2. CASE V!SVNext
      <2>1. ViewTypes /\ \A c \in Callers : WindowSound(call[c])
            BY DEF WindowInv, WindowsCounted
      <2>2. ViewTypes'  BY <1>2, <2>1, ViewStepTypes
      <2>3. PICK c \in Callers :
              \/ \E op \in {"enter", "move", "watch", "leave"}, o \in Objects,
                    to \in Places \union Radii \union {0} : V!Start(c, op, o, to)
              \/ V!StartWindow(c) \/ V!EndWindow(c) \/ V!Begin(c) \/ V!Arm(c)
              \/ V!Read(c) \/ V!Retry(c) \/ GridActs(c) \/ V!Missed(c) \/ V!Mark(c) \/ V!Scan(c)
              \/ V!SetMax(c) \/ V!Dispatch(c) \/ V!Dispatched(c) \/ V!Part(c) \/ V!End(c)
              \/ V!Take(c) \/ V!Measure(c) \/ V!Refresh(c) \/ V!Close(c) \/ V!Flush(c)
            BY <1>2, ZenonT(60) DEF V!SVNext, GridActs
      <2>4. ASSUME QuietNext(c) PROVE WindowsCounted'
            BY <2>4, QuietStep DEF QuietNext
      <2>5. WindowsCounted'
            BY <2>1, <2>2, <2>3, <2>4, QuietStarts, QuietGrid, QuietActs, QuietEnds, BeginCounts,
               ArmCounts, EndCounts, TakeCounts
      <2> QED  BY <2>2, <2>5 DEF WindowInv
<1> QED  BY <1>1, <1>2

LEMMA WindowStart == ASSUME V!SceneViewParams PROVE V!SVInit => WindowInv
<1> SUFFICES ASSUME V!SVInit PROVE WindowInv  OBVIOUS
<1>1. V!Idle \in ViewCalls /\ Named(V!Idle)  BY IdleIsCall
<1>2. ViewTypes  BY <1>1 DEF V!SVInit, ViewTypes
<1>3. \A c \in Callers : Opened(call[c]) = 0 /\ WindowSound(call[c])
      BY DEF V!SVInit, V!Idle, Opened, Opening, WindowSound
<1>4. OpenWindows = {}
      <2>1. MaxNested \in Nat  BY DEF V!SceneViewParams
      <2>2. \A t \in Callers \X (1..(MaxNested + 1)) : ~(t[2] <= Opened(call[t[1]]))
            BY <1>3, <2>1
      <2> QED  BY <2>2 DEF OpenWindows
<1>5. depth = Cardinality(OpenWindows)  BY <1>4, FS_EmptySet DEF V!SVInit
<1> QED  BY <1>2, <1>3, <1>5 DEF V!SVInit, WindowInv, WindowsCounted

LEMMA WindowMeaning ==
    ASSUME V!SceneViewParams, WindowInv PROVE V!SVTypeOK /\ V!WindowsClose
<1>1. depth \in 0..((MaxNested + 1) * Cardinality(Callers))
      <2>1. Cardinality(OpenWindows) \in Nat
            /\ Cardinality(OpenWindows) <= (MaxNested + 1) * Cardinality(Callers)
            BY WindowsFinite DEF OpenWindows
      <2>2. IsFiniteSet(Callers)  BY DEF V!SceneViewParams, V!IsFiniteSet, IsFiniteSet
      <2>3. Cardinality(Callers) \in Nat /\ MaxNested \in Nat
            BY <2>2, FS_CardinalityType DEF V!SceneViewParams
      <2>4. (MaxNested + 1) * Cardinality(Callers) \in Nat  BY <2>3
      <2> QED  BY <2>1, <2>4 DEF WindowInv, WindowsCounted
<1>2. V!Cardinality(Callers) = Cardinality(Callers)  BY DEF V!Cardinality, Cardinality
<1>3. V!SVTypeOK  BY <1>1, <1>2 DEF V!SVTypeOK, WindowInv, ViewTypes
<1>4. V!WindowsClose
      BY DEF V!WindowsClose, V!AtRest, WindowInv, WindowsCounted, Ending, V!NoBatch, ViewTypes
<1> QED  BY <1>3, <1>4

(* Scene.BeginBatch, EndBatch: for any goroutines, objects, places, views, *)
(* shards and windows within windows, when none is left no window of the   *)
(* scene or of its grid is open, and no mark or event stays behind.        *)
THEOREM EveryWindowCloses ==
    ASSUME V!SceneViewParams
    PROVE  V!SVSpec => [](V!SVTypeOK /\ V!WindowsClose)
<1>1. WindowInv => V!SVTypeOK /\ V!WindowsClose  BY WindowMeaning
<1> QED  BY <1>1, WindowStart, WindowStep, PTL DEF V!SVSpec

-----------------------------------------------------------------------------
(* The views of one goroutine *)
Sound(k) == WindowSound(k) /\ Stands(k) /\ Carrying(k) /\ GridSound(k) /\ ClientSound(k)

LEMMA OneGoes ==
    ASSUME OneCaller, ViewTypes, NEW c \in Callers, NEW from, NEW n, V!Goes(c, from, n)
    PROVE  call[c].pc = from /\ call'[c] = n /\ \A d \in Callers : d = c
BY CallGoes DEF OneCaller

(* What the grid and the client have stays as it is, or is handed on.      *)
Batch == IF batch = V!NoBatch THEN {} ELSE batch

LEMMA ViewsStay ==
    ASSUME NEW k, NEW n, GridSound(k), ClientSound(k),
           UNCHANGED <<pos, radius, visible, maxR, client, lost, pending>>,
           n.marks \union marked' = k.marks \union marked,
           n.events \union Batch' = k.events \union Batch
    PROVE  GridSound(n)' /\ ClientSound(n)'
<1>1. Gathered(n)' = Gathered(k)
      <2>1. Gathered(n)' = pending' \union n.events \union Batch'  BY DEF Gathered, Batch, V!NoBatch
      <2>2. Gathered(k) = pending \union k.events \union Batch  BY DEF Gathered, Batch
      <2> QED  BY <2>1, <2>2
<1>2. GridSound(n)'
      BY DEF GridSound, V!Present, ViewIn, V!Near
<1>3. Shows(Gathered(n)', visible', (V!Told)')
      <2>1. (V!Told)' = V!Told  BY ToldSame
      <2> QED  BY <1>1, <2>1 DEF ClientSound
<1>4. ClientSound(n)'
      <2>1. \A e \in pending' : e[3] = "leave"  BY DEF ClientSound
      <2> QED  BY <1>3, <2>1 DEF ClientSound, Shows
<1> QED  BY <1>2, <1>4

Within == {"grid", "lock", "mark", "scan", "setmax", "dispatch", "part"}
LEMMA StandsWithin ==
    ASSUME NEW k, NEW n, Stands(k), k.pc \in Within, n.pc \in Within \union {"end", "idle"},
           Direct => n.pc \in {"idle", "grid", "lock", "scan", "setmax", "dispatch"},
           UNCHANGED <<depth, open, batching, batch>>, Opened(n) = Opened(k)
    PROVE  Stands(n)'
<1>1. (Opened(n))' = Opened(n)  BY DEF Opened, Opening
<1>2. CASE Direct
      BY <1>1, <1>2 DEF Stands, Still, Windowed, Within, V!NoBatch, Opened, Opening
<1>3. CASE ~Direct
      <2>1. Windowed /\ depth > 0 /\ depth = Opened(n)  BY <1>3 DEF Stands, Within
      <2>2. Windowed' /\ depth' > 0  BY <2>1 DEF Windowed
      <2>3. depth' = Opened(n)  BY <2>1
      <2>4. depth' # 0  BY <1>3, <2>2
      <2> QED  BY <1>1, <1>3, <2>2, <2>3, <2>4 DEF Stands, Within, Opened, Opening, Windowed, Still
<1> QED  BY <1>2, <1>3

(* A call that is over, or about to end its window.                        *)
LEMMA EndedSound ==
    ASSUME ViewTypes, NEW c \in Callers, NEW n, Stands(call[c]), Carrying(call[c]),
           GridSound(call[c]), ClientSound(call[c]), call[c].pc \in Within, n = V!Ended(c),
           call[c].events = {}, call[c].marks = {},
           UNCHANGED <<pos, radius, visible, maxR, client, lost, marked, pending, depth, open,
                       batching, batch>>
    PROVE  WindowSound(n) /\ Stands(n)' /\ Carrying(n)' /\ GridSound(n)' /\ ClientSound(n)'
<1>1. /\ Opened(n) = Opened(call[c]) /\ WindowSound(n)
      /\ n.pc = (IF call[c].own THEN "end" ELSE "idle")
      /\ n.own = FALSE /\ n.op = "none" /\ n.window = call[c].window
      /\ n.marks = {} /\ n.events = {}
      BY EndedWindows DEF Within
<1>2. Direct => n.pc = "idle"
      <2>1. ASSUME Direct PROVE call[c].own = FALSE
            <3>1. Opened(call[c]) = 0  BY <2>1 DEF Stands
            <3>2. call[c].own \in BOOLEAN /\ call[c].window \in Nat  BY CallFields
            <3> QED  BY <3>1, <3>2 DEF Opened, Opening
      <2> QED  BY <1>1, <2>1
<1>3. Stands(n)'  BY <1>1, <1>2, StandsWithin DEF Within
<1>4. Carrying(n)'  BY <1>1 DEF Carrying
<1>5. Batch' = Batch  BY DEF Batch, V!NoBatch
<1>6. GridSound(n)' /\ ClientSound(n)'  BY <1>1, <1>5, ViewsStay
<1> QED  BY <1>1, <1>3, <1>4, <1>6

LEMMA AfterGridSound ==
    ASSUME ViewTypes, NEW c \in Callers, NEW n, Stands(call[c]), Carrying(call[c]),
           WindowSound(call[c]),
           GridSound(call[c]), ClientSound(call[c]), call[c].pc \in Within, n = V!AfterGrid(c),
           call[c].events = {}, call[c].marks = {},
           UNCHANGED <<pos, radius, visible, maxR, client, lost, marked, pending, depth, open,
                       batching, batch>>
    PROVE  WindowSound(n) /\ Stands(n)' /\ Carrying(n)' /\ GridSound(n)' /\ ClientSound(n)'
<1>1. CASE n = V!Ended(c)  BY <1>1, EndedSound
<1>2. CASE n = V!Then(c, "part") /\ ~Direct /\ call[c].op = "leave"
      <2>1. /\ n.pc = "part" /\ n.op = "leave" /\ n.own = call[c].own
            /\ n.window = call[c].window /\ n.marks = {} /\ n.events = {}
            BY <1>2, ThenIsCall DEF ViewPcs
      <2>2. Opened(n) = Opened(call[c]) /\ WindowSound(n)
            BY <2>1 DEF Opened, Opening, WindowSound, Within
      <2>3. Stands(n)'  BY <1>2, <2>1, <2>2, StandsWithin DEF Within
      <2>4. Carrying(n)'  BY <2>1 DEF Carrying
      <2>5. Batch' = Batch  BY DEF Batch, V!NoBatch
      <2>6. GridSound(n)' /\ ClientSound(n)'  BY <2>1, <2>5, ViewsStay
      <2> QED  BY <2>2, <2>3, <2>4, <2>6
<1> QED  BY <1>1, <1>2 DEF V!AfterGrid

(* What holds of the new record holds of the call, and of all there are.   *)
LEMMA SoundNext ==
    ASSUME OneCaller, ViewTypes', NEW c \in Callers, NEW n, call'[c] = n, WindowSound(n),
           Stands(n)', Carrying(n)', GridSound(n)', ClientSound(n)'
    PROVE  ViewInv'
<1>1. \A d \in Callers : d = c  BY DEF OneCaller
<1>2. WindowSound(call[c])'  BY DEF WindowSound
<1>3. Stands(call[c])'  BY DEF Stands, Opened, Opening
<1>4. Carrying(call[c])'  BY DEF Carrying
<1>5. GridSound(call[c])'  BY DEF GridSound
<1>6. ClientSound(call[c])'  BY DEF ClientSound, Gathered
<1>7. (\A d \in Callers : /\ WindowSound(call[d]) /\ Stands(call[d]) /\ Carrying(call[d])
                          /\ GridSound(call[d]) /\ ClientSound(call[d]))'
      BY <1>1, <1>2, <1>3, <1>4, <1>5, <1>6
<1> QED  BY <1>7 DEF ViewInv

LEMMA InvSound ==
    ASSUME ViewInv, NEW c \in Callers
    PROVE  /\ ViewTypes /\ call[c] \in ViewCalls /\ Named(call[c])
           /\ call[c].window \in 0..MaxNested /\ call[c].own \in BOOLEAN
           /\ WindowSound(call[c]) /\ Stands(call[c]) /\ Carrying(call[c])
           /\ GridSound(call[c]) /\ ClientSound(call[c])
BY CallFields DEF ViewInv

LEMMA StartSound ==
    ASSUME OneCaller, ViewInv, ViewTypes', NEW c \in Callers,
           \/ \E op \in {"enter", "move", "watch", "leave"}, o \in Objects,
                 to \in Places \union Radii \union {0} : V!Start(c, op, o, to)
           \/ V!StartWindow(c) \/ V!EndWindow(c)
    PROVE  ViewInv'
<1> DEFINE k == call[c]
<1>0. PICK n : call'[c] = n  OBVIOUS
<1>1. /\ ViewTypes /\ k \in ViewCalls /\ k.window \in 0..MaxNested /\ k.own \in BOOLEAN
      /\ WindowSound(k) /\ Stands(k) /\ Carrying(k) /\ GridSound(k) /\ ClientSound(k)
      BY InvSound
<1>2. QuietNext(c)  BY <1>1, QuietStarts
<1>3. /\ WindowSound(n) /\ Opened(n) = Opened(k)
      /\ UNCHANGED <<pos, radius, visible, maxR, client, lost, marked, pending, depth, open, batching, batch>>
      BY <1>0, <1>2 DEF QuietNext, V!Start, V!StartWindow, V!EndWindow, V!gridVars, V!batchVars, V!sceneVars
<1>4. /\ k.pc = "idle" /\ n.marks = k.marks /\ n.events = k.events
      /\ \/ n.pc = (IF Direct \/ open THEN "grid" ELSE "begin")
         \/ ~Direct /\ n.pc = "begin"
         \/ n.pc = "end" /\ n.window = k.window - 1 /\ k.window > 0 /\ n.op = k.op
      <2>1. ASSUME NEW op, NEW o, NEW to, V!Start(c, op, o, to) PROVE <1>4
            <3> DEFINE stage == IF Direct \/ open THEN "grid" ELSE "begin"
                       l == [k EXCEPT !.pc = stage, !.op = op, !.obj = o, !.to = to]
            <3>1. V!Goes(c, "idle", l)  BY <2>1 DEF V!Start
            <3>2. k.pc = "idle" /\ n = l  BY <1>1, <1>0, <3>1, CallGoes
            <3>3. l.pc = stage /\ l.marks = k.marks /\ l.events = k.events
                  <4> HIDE DEF stage
                  <4> QED  BY <1>1 DEF ViewCalls
            <3> QED  BY <3>2, <3>3
      <2>2. CASE V!StartWindow(c)
            <3> DEFINE l == [k EXCEPT !.pc = "begin", !.op = "begin"]
            <3>1. V!Goes(c, "idle", l) /\ ~Direct  BY <2>2 DEF V!StartWindow
            <3>2. k.pc = "idle" /\ n = l  BY <1>1, <1>0, <3>1, CallGoes
            <3>3. l.pc = "begin" /\ l.marks = k.marks /\ l.events = k.events
                  BY <1>1 DEF ViewCalls
            <3> QED  BY <3>1, <3>2, <3>3
      <2>3. CASE V!EndWindow(c)
            <3> DEFINE l == [k EXCEPT !.pc = "end", !.window = @ - 1]
            <3>1. V!Goes(c, "idle", l) /\ k.window > 0  BY <2>3 DEF V!EndWindow
            <3>2. k.pc = "idle" /\ n = l  BY <1>1, <1>0, <3>1, CallGoes
            <3>3. l.pc = "end" /\ l.marks = k.marks /\ l.events = k.events
                  /\ l.window = k.window - 1 /\ l.op = k.op
                  BY <1>1 DEF ViewCalls
            <3> QED  BY <3>1, <3>2, <3>3
      <2> QED  BY <2>1, <2>2, <2>3
<1>5. Batch' = Batch  BY <1>3 DEF Batch, V!NoBatch
<1>6. GridSound(n)' /\ ClientSound(n)'  BY <1>1, <1>3, <1>4, <1>5, ViewsStay
<1>7. Carrying(n)'  BY <1>1, <1>4 DEF Carrying
<1>8. Stands(n)'
      <2>1. Opened(k) = k.window  BY <1>1, <1>4 DEF Opened, Opening, WindowSound
      <2>2. (Opened(n))' = Opened(n)  BY DEF Opened, Opening
      <2>3. depth = k.window /\ k.window \in Nat  BY <1>1, <2>1 DEF Stands
      <2>4. CASE Direct
            <3>1. Still /\ depth = 0  BY <1>1, <2>4 DEF Stands
            <3>2. n.pc = "grid"  BY <1>4, <2>3, <2>4, <3>1
            <3>3. Still' /\ depth' = 0  BY <1>3, <3>1 DEF Still, V!NoBatch
            <3> QED  BY <1>3, <2>1, <2>2, <2>3, <2>4, <3>2, <3>3 DEF Stands
      <2>5. CASE ~Direct
            <3>1. IF depth = 0 THEN Still ELSE Windowed  BY <1>1, <1>4, <2>5 DEF Stands
            <3>2. IF depth' = 0 THEN Still' ELSE Windowed'
                  BY <1>3, <3>1 DEF Still, Windowed, V!NoBatch
            <3>3. open' => depth' > 0 /\ Windowed'  BY <1>3, <2>3, <3>1, <3>2 DEF Still
            <3>4. n.pc = "end" => Windowed' /\ depth' > 0  BY <1>3, <1>4, <2>3, <3>2
            <3>5. n.pc = "grid" => Windowed' /\ depth' > 0  BY <1>3, <1>4, <2>5, <3>3
            <3>6. n.pc \in {"grid", "begin", "end"}  BY <1>4
            <3> QED  BY <1>3, <2>1, <2>2, <2>3, <2>5, <3>2, <3>4, <3>5, <3>6
                     DEF Stands
      <2> QED  BY <2>4, <2>5
<1> QED  BY <1>3, <1>6, <1>7, <1>8, <1>0, SoundNext

LEMMA BeginSound ==
    ASSUME V!SceneViewParams, OneCaller, ViewInv, ViewTypes', NEW c \in Callers, V!Begin(c) \/ V!Arm(c)
    PROVE  ViewInv'
<1> DEFINE k == call[c]
<1>0. PICK n : call'[c] = n  OBVIOUS
<1>1. /\ ViewTypes /\ k \in ViewCalls /\ k.window \in 0..MaxNested /\ k.own \in BOOLEAN
      /\ WindowSound(k) /\ Stands(k) /\ Carrying(k) /\ GridSound(k) /\ ClientSound(k)
      /\ depth \in Nat
      BY InvSound DEF ViewTypes
<1>2. UNCHANGED <<pos, radius, visible, maxR, client, lost, marked, pending>>
      BY DEF V!Begin, V!Arm, V!gridVars, V!batchVars
<1>3. ~Direct /\ k.pc \in {"begin", "arm"} /\ k.own = FALSE /\ k.marks = {} /\ k.events = {}
      <2>1. k.pc \in {"begin", "arm"}  BY DEF V!Begin, V!Arm, V!Goes
      <2> QED  BY <1>1, <2>1 DEF Stands, Carrying, WindowSound
<1>4. /\ V!Begun(c).marks = {} /\ V!Begun(c).events = {}
      /\ Opened(V!Begun(c)) = k.window + 1 /\ WindowSound(V!Begun(c))
      /\ \/ V!Begun(c).pc = "idle" /\ V!Begun(c).op = "none"
         \/ V!Begun(c).pc = "grid"
      <2>1. CASE k.op = "begin"
            <3>1. /\ V!Begun(c).window = k.window + 1 /\ V!Begun(c).own = FALSE
                  /\ V!Begun(c).pc = "idle" /\ V!Begun(c).op = "none"
                  /\ V!Begun(c).marks = {} /\ V!Begun(c).events = {}
                  BY <2>1 DEF V!Begun, V!Idle
            <3> QED  BY <1>1, <3>1 DEF Opened, Opening, WindowSound
      <2>2. CASE k.op # "begin"
            <3>1. V!Then(c, "grid").window = k.window /\ V!Then(c, "grid") \in ViewCalls
                  /\ V!Then(c, "grid").pc = "grid" /\ V!Then(c, "grid").marks = {}
                  /\ V!Then(c, "grid").events = {}
                  BY <1>1, <1>3, ThenIsCall DEF ViewPcs
            <3>2. /\ V!Begun(c).window = k.window /\ V!Begun(c).own = TRUE
                  /\ V!Begun(c).pc = "grid" /\ V!Begun(c).marks = {} /\ V!Begun(c).events = {}
                  BY <2>2, <3>1 DEF V!Begun, ViewCalls
            <3> QED  BY <3>2 DEF Opened, Opening, WindowSound
      <2> QED  BY <2>1, <2>2
<1>5. CASE V!Begin(c)
      <2>1. V!Goes(c, "begin", IF depth = 0 THEN V!Then(c, "arm") ELSE V!Begun(c))
            BY <1>5 DEF V!Begin
      <2>2. k.pc = "begin" /\ n = IF depth = 0 THEN V!Then(c, "arm") ELSE V!Begun(c)
            BY <1>1, <1>0, <2>1, CallGoes
      <2>3. depth = k.window /\ (IF depth = 0 THEN Still ELSE Windowed)
            BY <1>1, <1>3, <2>2 DEF Stands, Opened, Opening
      <2>4. /\ depth' = depth + 1 /\ batching' = batching
            /\ IF depth = 0 THEN open' = TRUE /\ batch' = {} ELSE UNCHANGED <<open, batch>>
            BY <1>5 DEF V!Begin, V!batchVars
      <2>5. Batch' = Batch  BY <2>3, <2>4 DEF Batch, V!NoBatch, Still
      <2>6. CASE depth = 0
            <3>1. /\ n.pc = "arm" /\ n.own = FALSE /\ n.window = k.window /\ n.marks = {}
                  /\ n.events = {} /\ n.op = k.op
                  BY <1>1, <1>3, <2>2, <2>6, ThenIsCall DEF ViewPcs
            <3>2. open' = TRUE /\ batch' = {} /\ batching' = FALSE /\ depth' = 1
                  BY <1>1, <2>3, <2>4, <2>6 DEF Still, ViewTypes
            <3>3. WindowSound(n) /\ Opened(n) = 1
                  BY <1>1, <2>2, <2>3, <2>6, <3>1 DEF WindowSound, Opened, Opening
            <3>4. (Opened(n))' = Opened(n)  BY DEF Opened, Opening
            <3>5. Stands(n)'  BY <1>3, <3>1, <3>2, <3>3, <3>4 DEF Stands
            <3>6. Carrying(n)'  BY <3>1 DEF Carrying
            <3>7. GridSound(n)' /\ ClientSound(n)'  BY <1>1, <1>2, <1>3, <2>5, <3>1, ViewsStay
            <3> QED  BY <3>3, <3>5, <3>6, <3>7, <1>0, SoundNext
      <2>7. CASE depth # 0
            <3>1. n = V!Begun(c)  BY <2>2, <2>7
            <3>2. Windowed' /\ depth' > 0
                  BY <1>1, <2>3, <2>4, <2>7 DEF Windowed
            <3>3. (Opened(n))' = Opened(n)  BY DEF Opened, Opening
            <3>4. Stands(n)'  BY <1>1, <1>3, <1>4, <2>3, <2>4, <3>1, <3>2, <3>3 DEF Stands
            <3>5. Carrying(n)'  BY <1>4, <3>1 DEF Carrying
            <3>6. GridSound(n)' /\ ClientSound(n)'
                  BY <1>1, <1>2, <1>3, <1>4, <2>5, <3>1, ViewsStay
            <3>7. WindowSound(n)  BY <1>4, <3>1
            <3> QED  BY <3>4, <3>5, <3>6, <3>7, <1>0, SoundNext
      <2> QED  BY <2>6, <2>7
<1>6. CASE V!Arm(c)
      <2>1. V!Goes(c, "arm", V!Begun(c))  BY <1>6 DEF V!Arm
      <2>2. k.pc = "arm" /\ n = V!Begun(c)  BY <1>1, <1>0, <2>1, CallGoes
      <2>3. depth = k.window + 1 /\ depth = 1 /\ open /\ batch = {}
            BY <1>1, <1>3, <2>2 DEF Stands, Opened, Opening
      <2>4. UNCHANGED <<depth, open, batch>> /\ batching' = TRUE  BY <1>6 DEF V!Arm, V!sceneVars
      <2>5. Batch' = Batch  BY <2>4 DEF Batch, V!NoBatch
      <2>6. Windowed' /\ depth' = 1  BY <2>3, <2>4 DEF Windowed
      <2>7. (Opened(n))' = Opened(n)  BY DEF Opened, Opening
      <2>8. Stands(n)'  BY <1>1, <1>3, <1>4, <2>2, <2>3, <2>6, <2>7 DEF Stands
      <2>9. Carrying(n)'  BY <1>4, <2>2 DEF Carrying
      <2>10. GridSound(n)' /\ ClientSound(n)'  BY <1>1, <1>2, <1>3, <1>4, <2>2, <2>5, ViewsStay
      <2>11. WindowSound(n)  BY <1>4, <2>2
      <2> QED  BY <2>8, <2>9, <2>10, <2>11, <1>0, SoundNext
<1> QED  BY <1>5, <1>6

(* A call that goes on within its window, and changes no view.             *)
LEMMA WithinSound ==
    ASSUME OneCaller, ViewInv, ViewTypes', NEW c \in Callers, NEW n, call'[c] = n,
           call[c].pc \in Within, n.pc \in Within,
           Direct => n.pc \in {"idle", "grid", "lock", "scan", "setmax", "dispatch"},
           n.own = call[c].own, n.window = call[c].window, n.events = call[c].events,
           n.marks \union marked' = call[c].marks \union marked,
           UNCHANGED <<pos, radius, visible, maxR, client, lost, pending, depth, open, batching, batch>>,
           Carrying(n)'
    PROVE  ViewInv'
<1>1. /\ WindowSound(call[c]) /\ Stands(call[c]) /\ GridSound(call[c]) /\ ClientSound(call[c])
      BY InvSound
<1>2. Opened(n) = Opened(call[c]) /\ WindowSound(n)
      BY <1>1 DEF Opened, Opening, WindowSound, Within
<1>3. Stands(n)'  BY <1>1, <1>2, StandsWithin DEF Within
<1>4. Batch' = Batch  BY DEF Batch, V!NoBatch
<1>5. GridSound(n)' /\ ClientSound(n)'  BY <1>1, <1>4, ViewsStay
<1> QED  BY <1>2, <1>3, <1>5, SoundNext

(* A call the grid is done with.                                           *)
LEMMA DoneSound ==
    ASSUME OneCaller, ViewInv, ViewTypes', NEW c \in Callers, call'[c] = V!AfterGrid(c),
           call[c].pc \in Within, call[c].events = {}, call[c].marks = {},
           UNCHANGED <<pos, radius, visible, maxR, client, lost, marked, pending, depth, open,
                       batching, batch>>
    PROVE  ViewInv'
<1>1. PICK n : n = V!AfterGrid(c)  OBVIOUS
<1>2. WindowSound(n) /\ Stands(n)' /\ Carrying(n)' /\ GridSound(n)' /\ ClientSound(n)'
      BY <1>1, InvSound, AfterGridSound
<1> QED  BY <1>1, <1>2, SoundNext

LEMMA ReadSound ==
    ASSUME OneCaller, ViewInv, ViewTypes', NEW c \in Callers, V!Read(c)
    PROVE  ViewInv'
<1>o. PICK o : o = call[c].obj  OBVIOUS
<1> DEFINE k == call[c]
           at == IF V!Present(o) THEN pos[o] ELSE 0
           op == V!Names(k.op, o)
           l == [k EXCEPT !.pc = "lock", !.op = op, !.limit = maxR, !.at = at]
<1>0. PICK n : call'[c] = n  OBVIOUS
<1>1. ViewTypes /\ k \in ViewCalls /\ Carrying(k) /\ Named(k)  BY InvSound
<1>2. k.pc = "grid" /\ k.marks = {} /\ k.events = {}  BY <1>1 DEF V!Read, V!Goes, Carrying
<1>3. UNCHANGED <<pos, radius, visible, maxR, client, lost, marked, pending, depth, open, batching, batch>>
      BY DEF V!Read, V!gridVars, V!batchVars, V!sceneVars
<1>4. CASE V!Goes(c, "grid", V!AfterGrid(c))
      BY <1>1, <1>2, <1>3, <1>4, CallGoes, DoneSound DEF Within
<1>5. CASE ~V!NothingToDo(k) /\ V!Goes(c, "grid", l)
      <2>1. n = l  BY <1>0, <1>1, <1>5, CallGoes
      <2>2. /\ n.pc = "lock" /\ n.op = op /\ n.obj = o /\ n.limit = maxR /\ n.at = at
            /\ n.own = k.own /\ n.window = k.window /\ n.marks = k.marks /\ n.events = k.events
            <3> HIDE DEF at, op
            <3> QED  BY <1>1, <1>o, <2>1 DEF ViewCalls
      <2>3. V!Present(o) <=> op # "enter"
            <3>1. k.op \in {"enter", "move", "leave", "watch"}
                  BY <1>1, <1>2 DEF Named, ViewCalls
            <3> QED  BY <1>5, <1>o, <3>1 DEF V!NothingToDo, V!Names
      <2>4. V!Present(o)' <=> V!Present(o)  BY <1>3 DEF V!Present
      <2>5. V!Present(o) => n.at = pos[o]  BY <2>2
      <2>6. Carrying(n)'
            <3> HIDE DEF at, op
            <3> QED  BY <1>2, <1>3, <2>2, <2>3, <2>4, <2>5 DEF Carrying
      <2> QED  BY <1>0, <1>2, <1>3, <2>2, <2>6, WithinSound DEF Within
<1> QED  BY <1>o, <1>4, <1>5 DEF V!Read

LEMMA RetrySound ==
    ASSUME OneCaller, ViewInv, ViewTypes', NEW c \in Callers, V!Retry(c)
    PROVE  ViewInv'
<1>0. PICK n : call'[c] = n  OBVIOUS
<1>1. ViewTypes /\ Carrying(call[c])  BY InvSound
<1>2. call[c].pc = "lock" /\ n = V!Then(c, "grid")
      BY <1>0, <1>1, CallGoes DEF V!Retry
<1>3. /\ n.pc = "grid" /\ n.own = call[c].own /\ n.window = call[c].window
      /\ n.marks = call[c].marks /\ n.events = call[c].events
      BY <1>1, <1>2, ThenIsCall DEF ViewPcs
<1>4. UNCHANGED <<pos, radius, visible, maxR, client, lost, marked, pending, depth, open, batching, batch>>
      BY DEF V!Retry, V!gridVars, V!batchVars, V!sceneVars
<1>5. Carrying(n)'  BY <1>1, <1>2, <1>3 DEF Carrying
<1> QED  BY <1>0, <1>2, <1>3, <1>4, <1>5, WithinSound DEF Within

LEMMA DoneStepsSound ==
    ASSUME OneCaller, ViewInv, ViewTypes', NEW c \in Callers,
           \/ V!Missed(c) \/ V!Part(c)
           \/ V!Dispatched(c) /\ call[c].pc = "dispatch"
    PROVE  ViewInv'
<1>1. /\ ViewTypes /\ Stands(call[c]) /\ Carrying(call[c]) /\ GridSound(call[c])
      /\ ClientSound(call[c])
      BY InvSound
<1>2. UNCHANGED <<pos, radius, visible, maxR, client, lost, marked, pending, depth, open, batching, batch>>
      BY DEF V!Missed, V!Part, V!Dispatched, V!gridVars, V!batchVars, V!sceneVars
<1>3. CASE V!Missed(c)
      <2>1. call[c].pc = "lock" /\ call'[c] = V!AfterGrid(c)
            BY <1>1, <1>3, CallGoes DEF V!Missed
      <2> QED  BY <1>1, <1>2, <2>1, DoneSound DEF Carrying, Within
<1>4. CASE V!Dispatched(c) /\ call[c].pc = "dispatch"
      <2>1. call'[c] = V!AfterGrid(c) /\ call[c].events = {}
            BY <1>1, <1>4, CallGoes DEF V!Dispatched
      <2> QED  BY <1>1, <1>2, <1>4, <2>1, DoneSound DEF Carrying, Within
<1>5. CASE V!Part(c)
      <2>1. PICK n : n = V!Ended(c)  OBVIOUS
      <2>2. call[c].pc = "part" /\ call'[c] = n
            BY <1>1, <1>5, <2>1, CallGoes DEF V!Part
      <2>3. call[c].marks = {} /\ call[c].events = {}  BY <1>1, <2>2 DEF Carrying
      <2>4. WindowSound(n) /\ Stands(n)' /\ Carrying(n)' /\ GridSound(n)' /\ ClientSound(n)'
            BY <1>1, <1>2, <2>1, <2>2, <2>3, EndedSound DEF Within
      <2> QED  BY <2>2, <2>4, SoundNext
<1> QED  BY <1>3, <1>4, <1>5

LEMMA LastSound ==
    ASSUME OneCaller, ViewInv, ViewTypes', NEW c \in Callers,
           V!Dispatched(c) /\ call[c].pc # "dispatch"
    PROVE  ViewInv'
<1>0. PICK n : call'[c] = n  OBVIOUS
<1>1. /\ ViewTypes /\ WindowSound(call[c]) /\ Stands(call[c]) /\ Carrying(call[c])
      /\ GridSound(call[c]) /\ ClientSound(call[c])
      BY InvSound
<1>2. call[c].pc = "last" /\ n = V!Then(c, "close") /\ call[c].events = {}
      BY <1>0, <1>1, CallGoes DEF V!Dispatched
<1>3. UNCHANGED <<pos, radius, visible, maxR, client, lost, marked, pending, depth, open, batching, batch>>
      BY DEF V!Dispatched, V!gridVars, V!batchVars, V!sceneVars
<1>4. /\ n.pc = "close" /\ n.own = call[c].own /\ n.window = call[c].window
      /\ n.marks = call[c].marks /\ n.events = call[c].events /\ n.op = call[c].op
      BY <1>1, <1>2, ThenIsCall DEF ViewPcs
<1>5. Opened(n) = Opened(call[c]) /\ WindowSound(n)
      BY <1>1, <1>2, <1>4 DEF Opened, Opening, WindowSound
<1>6. ~Direct /\ open /\ ~batching /\ batch # V!NoBatch /\ depth = 0 /\ depth = Opened(call[c])
      BY <1>1, <1>2 DEF Stands
<1>7. (Opened(n))' = Opened(n)  BY DEF Opened, Opening
<1>8. open' /\ ~batching' /\ (batch # V!NoBatch)' /\ depth' = 0
      BY <1>3, <1>6 DEF V!NoBatch
<1>9. Stands(n)'  BY <1>4, <1>5, <1>6, <1>7, <1>8 DEF Stands
<1>10. Carrying(n)'  BY <1>1, <1>2, <1>4 DEF Carrying
<1>11. Batch' = Batch  BY <1>3 DEF Batch, V!NoBatch
<1>12. GridSound(n)' /\ ClientSound(n)'  BY <1>1, <1>3, <1>4, <1>11, ViewsStay
<1> QED  BY <1>0, <1>5, <1>9, <1>10, <1>12, SoundNext

LEMMA EndSound ==
    ASSUME OneCaller, ViewInv, ViewTypes', NEW c \in Callers, V!End(c)
    PROVE  ViewInv'
<1> DEFINE stage == IF depth = 1 THEN "take" ELSE "idle"
<1>0. PICK n : call'[c] = n  OBVIOUS
<1>1. /\ ViewTypes /\ WindowSound(call[c]) /\ Stands(call[c]) /\ Carrying(call[c])
      /\ GridSound(call[c]) /\ ClientSound(call[c]) /\ call[c].window \in Nat
      BY InvSound
<1>2. call[c].pc = "end" /\ n = [V!Idle EXCEPT !.window = call[c].window, !.pc = stage]
      BY <1>0, <1>1, CallGoes DEF V!End
<1>3. /\ n.pc = stage /\ n.window = call[c].window /\ n.own = FALSE /\ n.op = "none"
      /\ n.marks = {} /\ n.events = {}
      <2> HIDE DEF stage
      <2> QED  BY <1>2 DEF V!Idle
<1>4. call[c].marks = {} /\ call[c].events = {}  BY <1>1, <1>2 DEF Carrying
<1>5. ~Direct /\ Windowed /\ depth = call[c].window + 1
      BY <1>1, <1>2 DEF Stands, Opened, Opening
<1>6. /\ UNCHANGED <<pos, radius, visible, maxR, client, lost, marked, pending, open, batching, batch>>
      /\ depth' = call[c].window
      BY <1>1, <1>5 DEF V!End, V!gridVars, V!batchVars, V!sceneVars
<1>7. (Opened(n))' = depth' /\ WindowSound(n)
      BY <1>1, <1>3, <1>6 DEF Opened, Opening, WindowSound
<1>8. Windowed' /\ (stage = "take" => depth' = 0) /\ (stage = "idle" => depth' # 0)
      BY <1>1, <1>5, <1>6 DEF Windowed
<1>9. stage \in {"take", "idle"}  OBVIOUS
<1>10. Stands(n)'
      <2> HIDE DEF stage
      <2> QED  BY <1>3, <1>5, <1>7, <1>8, <1>9 DEF Stands
<1>11. Carrying(n)'  BY <1>3 DEF Carrying
<1>12. Batch' = Batch  BY <1>6 DEF Batch, V!NoBatch
<1>13. GridSound(n)' /\ ClientSound(n)'  BY <1>1, <1>3, <1>4, <1>6, <1>12, ViewsStay
<1> QED  BY <1>0, <1>7, <1>10, <1>11, <1>13, SoundNext

(* Marks, the largest radius and the box of what is marked.                *)
LEMMA MarkSound ==
    ASSUME OneCaller, ViewInv, ViewTypes', NEW c \in Callers, V!Mark(c)
    PROVE  ViewInv'
<1> DEFINE k == call[c]
           stage == IF k.scan THEN "scan" ELSE "dispatch"
           l == [k EXCEPT !.pc = stage, !.marks = {}]
<1>0. PICK n : call'[c] = n  OBVIOUS
<1>1. ViewTypes /\ k \in ViewCalls /\ Carrying(k) /\ Stands(k)  BY InvSound
<1>2. k.pc = "mark" /\ n = l  BY <1>0, <1>1, CallGoes DEF V!Mark
<1>3. /\ n.pc = stage /\ n.own = k.own /\ n.window = k.window /\ n.marks = {}
      /\ n.events = k.events /\ n.op = k.op
      <2> HIDE DEF stage
      <2> QED  BY <1>1, <1>2 DEF ViewCalls
<1>4. ~Direct /\ batching /\ k.events = {}  BY <1>1, <1>2 DEF Stands, Windowed, Carrying
<1>5. /\ UNCHANGED <<pos, radius, visible, maxR, client, lost, pending, depth, open, batching, batch>>
      /\ marked' = marked \union k.marks
      BY <1>4 DEF V!Mark, V!sceneVars
<1>6. n.pc \in {"scan", "dispatch"}  BY <1>3
<1>7. Carrying(n)'  BY <1>3, <1>4, <1>6 DEF Carrying
<1>8. n.marks \union marked' = k.marks \union marked  BY <1>3, <1>5
<1> QED  BY <1>0, <1>2, <1>3, <1>4, <1>5, <1>6, <1>7, <1>8, WithinSound DEF Within

LEMMA ScanSound ==
    ASSUME OneCaller, ViewInv, ViewTypes', NEW c \in Callers, V!Scan(c)
    PROVE  ViewInv'
<1> DEFINE k == call[c]
<1>0. PICK n : call'[c] = n  OBVIOUS
<1>1. ViewTypes /\ k \in ViewCalls /\ Carrying(k) /\ Stands(k)  BY InvSound
<1>2. PICK m \in Radii \union {0} :
        V!Largest(m) /\ V!Goes(c, "scan", [k EXCEPT !.pc = "setmax", !.limit = m])
      BY DEF V!Scan
<1>3. k.pc = "scan" /\ n = [k EXCEPT !.pc = "setmax", !.limit = m]  BY <1>0, <1>1, <1>2, CallGoes
<1>4. /\ n.pc = "setmax" /\ n.own = k.own /\ n.window = k.window /\ n.marks = k.marks
      /\ n.events = k.events /\ n.op = k.op /\ n.limit = m
      BY <1>1, <1>3 DEF ViewCalls
<1>5. UNCHANGED <<pos, radius, visible, maxR, client, lost, marked, pending, depth, open, batching, batch>>
      BY DEF V!Scan, V!gridVars, V!batchVars, V!sceneVars
<1>6. \A w \in Objects : radius'[w] <= n.limit  BY <1>2, <1>4, <1>5 DEF V!Largest
<1>7. Carrying(n)'  BY <1>1, <1>3, <1>4, <1>6 DEF Carrying
<1> QED  BY <1>0, <1>3, <1>4, <1>5, <1>7, WithinSound DEF Within

LEMMA SetMaxSound ==
    ASSUME OneCaller, ViewInv, ViewTypes', NEW c \in Callers, V!SetMax(c)
    PROVE  ViewInv'
<1> DEFINE k == call[c]
<1>0. PICK n : call'[c] = n  OBVIOUS
<1>1. /\ ViewTypes /\ WindowSound(k) /\ Stands(k) /\ Carrying(k) /\ GridSound(k)
      /\ ClientSound(k)
      BY InvSound
<1>2. k.pc = "setmax" /\ n = V!Then(c, "dispatch")
      BY <1>0, <1>1, CallGoes DEF V!SetMax
<1>3. /\ n.pc = "dispatch" /\ n.own = k.own /\ n.window = k.window
      /\ n.marks = k.marks /\ n.events = k.events /\ n.op = k.op
      BY <1>1, <1>2, ThenIsCall DEF ViewPcs
<1>4. /\ UNCHANGED <<pos, radius, visible, client, lost, marked, pending, depth, open, batching, batch>>
      /\ maxR' = k.limit
      BY DEF V!SetMax, V!batchVars, V!sceneVars
<1>5. Opened(n) = Opened(k) /\ WindowSound(n)
      BY <1>1, <1>2, <1>3 DEF Opened, Opening, WindowSound
<1>6. Stands(n)'  BY <1>1, <1>2, <1>3, <1>4, <1>5, StandsWithin DEF Within
<1>7. Carrying(n)'  BY <1>1, <1>2, <1>3 DEF Carrying
<1>8. Gathered(n)' = Gathered(k)
      <2>1. Gathered(n)' = pending' \union n.events \union Batch'  BY DEF Gathered, Batch, V!NoBatch
      <2>2. Batch' = Batch  BY <1>4 DEF Batch, V!NoBatch
      <2> QED  BY <1>3, <1>4, <2>1, <2>2 DEF Gathered, Batch
<1>9. ClientSound(n)'  BY <1>1, <1>4, <1>8, ToldSame DEF ClientSound, Shows
<1>10. \A w \in Objects : radius'[w] <= maxR'  BY <1>1, <1>2, <1>4 DEF Carrying
<1>11. GridSound(n)'
      BY <1>1, <1>3, <1>4, <1>10 DEF GridSound, V!Present, ViewIn, V!Near
<1> QED  BY <1>0, <1>5, <1>6, <1>7, <1>9, <1>11, SoundNext

LEMMA MeasureSound ==
    ASSUME OneCaller, ViewInv, ViewTypes', NEW c \in Callers, V!Measure(c)
    PROVE  ViewInv'
<1> DEFINE k == call[c]
           box == UNION {V!ViewOf(w) : w \in {v \in k.marks : V!Present(v)}}
<1>0. PICK n : call'[c] = n  OBVIOUS
<1>1. /\ ViewTypes /\ WindowSound(k) /\ Stands(k) /\ Carrying(k) /\ GridSound(k)
      /\ ClientSound(k) /\ k \in ViewCalls
      BY InvSound
<1>2. V!Goes(c, "measure", [k EXCEPT !.pc = "refresh", !.box = box])  BY DEF V!Measure
<1>3. k.pc = "measure" /\ n = [k EXCEPT !.pc = "refresh", !.box = box]
      BY <1>0, <1>1, <1>2, CallGoes
<1>4. /\ n.pc = "refresh" /\ n.own = k.own /\ n.window = k.window /\ n.marks = k.marks
      /\ n.events = k.events /\ n.op = k.op /\ n.box = box
      <2> HIDE DEF box
      <2> QED  BY <1>1, <1>3 DEF ViewCalls
<1>5. UNCHANGED <<pos, radius, visible, maxR, client, lost, marked, pending, depth, open, batching, batch>>
      BY DEF V!Measure, V!gridVars, V!batchVars, V!sceneVars
<1>6. Opened(n) = Opened(k) /\ WindowSound(n)
      BY <1>1, <1>3, <1>4 DEF Opened, Opening, WindowSound
<1>7. Stands(n)'
      <2>1. ~Direct /\ open /\ ~batching /\ batch = {} /\ depth = 0 /\ depth = Opened(k)
            BY <1>1, <1>3 DEF Stands
      <2>2. (Opened(n))' = Opened(n)  BY DEF Opened, Opening
      <2> QED  BY <1>4, <1>5, <1>6, <2>1, <2>2 DEF Stands
<1>8. Carrying(n)'
      <2>1. \A w \in n.marks : V!Present(w) => V!ViewOf(w) \subseteq n.box  BY <1>4
      <2>2. (\A w \in n.marks : V!Present(w) => V!ViewOf(w) \subseteq n.box)'
            BY <1>5, <2>1 DEF V!Present, V!ViewOf, V!Box, V!Shard
      <2> QED  BY <1>1, <1>3, <1>4, <2>2 DEF Carrying
<1>9. Batch' = Batch  BY <1>5 DEF Batch, V!NoBatch
<1>10. GridSound(n)' /\ ClientSound(n)'  BY <1>1, <1>4, <1>5, <1>9, ViewsStay
<1> QED  BY <1>0, <1>6, <1>7, <1>8, <1>10, SoundNext

(* Taking what is marked, and what has gathered.                           *)
LEMMA TakeSound ==
    ASSUME OneCaller, ViewInv, ViewTypes', NEW c \in Callers, V!Take(c)
    PROVE  ViewInv'
<1> DEFINE k == call[c]
           stage == IF marked = {} THEN "last" ELSE "measure"
<1>0. PICK n : call'[c] = n  OBVIOUS
<1>1. /\ ViewTypes /\ WindowSound(k) /\ Stands(k) /\ Carrying(k) /\ GridSound(k)
      /\ ClientSound(k) /\ k \in ViewCalls
      BY InvSound
<1>2. k.pc = "take" /\ n = [k EXCEPT !.pc = stage, !.marks = marked, !.events = pending]
      BY <1>0, <1>1, CallGoes DEF V!Take
<1>3. /\ n.pc = stage /\ n.own = k.own /\ n.window = k.window /\ n.marks = marked
      /\ n.events = pending /\ n.op = k.op
      <2> HIDE DEF stage
      <2> QED  BY <1>1, <1>2 DEF ViewCalls
<1>4. ~Direct /\ open /\ batch = {} /\ depth = 0 /\ depth = Opened(k) /\ k.marks = {} /\ k.events = {}
      BY <1>1, <1>2 DEF Stands, Windowed, Carrying
<1>5. /\ UNCHANGED <<pos, radius, visible, maxR, client, lost, depth, open, batch>>
      /\ batching' = FALSE /\ marked' = {} /\ pending' = {}
      BY DEF V!Take, V!gridVars, V!sceneVars
<1>6. Opened(n) = Opened(k) /\ WindowSound(n) /\ n.pc \in {"last", "measure"}
      BY <1>1, <1>2, <1>3 DEF Opened, Opening, WindowSound
<1>7. Stands(n)'
      <2>1. (Opened(n))' = Opened(n)  BY DEF Opened, Opening
      <2>2. (batch # V!NoBatch)'  BY <1>4, <1>5 DEF V!NoBatch
      <2> QED  BY <1>4, <1>5, <1>6, <2>1, <2>2 DEF Stands
<1>8. Carrying(n)'  BY <1>1, <1>2, <1>3, <1>6 DEF Carrying
<1>9. Gathered(n)' = Gathered(k)
      <2>1. Gathered(n)' = pending'  \union n.events \union Batch'  BY DEF Gathered, Batch, V!NoBatch
      <2>2. Batch' = {} /\ Batch = {}  BY <1>4, <1>5 DEF Batch, V!NoBatch
      <2> QED  BY <1>3, <1>4, <1>5, <2>1, <2>2 DEF Gathered, Batch
<1>10. ClientSound(n)'  BY <1>1, <1>5, <1>9, ToldSame DEF ClientSound, Shows
<1>11. GridSound(n)'
      BY <1>1, <1>3, <1>4, <1>5 DEF GridSound, V!Present, ViewIn, V!Near
<1> QED  BY <1>0, <1>6, <1>7, <1>8, <1>10, <1>11, SoundNext

LEMMA CloseSound ==
    ASSUME OneCaller, ViewInv, ViewTypes', NEW c \in Callers, V!Close(c)
    PROVE  ViewInv'
<1> DEFINE k == call[c]
<1>0. PICK n : call'[c] = n  OBVIOUS
<1>1. /\ ViewTypes /\ WindowSound(k) /\ Stands(k) /\ Carrying(k) /\ GridSound(k)
      /\ ClientSound(k) /\ k \in ViewCalls
      BY InvSound
<1>2. V!Goes(c, "close", [k EXCEPT !.pc = "flush", !.events = Batch])  BY DEF V!Close, Batch
<1>3. k.pc = "close" /\ n = [k EXCEPT !.pc = "flush", !.events = Batch]
      BY <1>0, <1>1, <1>2, CallGoes
<1>4. /\ n.pc = "flush" /\ n.own = k.own /\ n.window = k.window /\ n.marks = k.marks
      /\ n.events = Batch /\ n.op = k.op
      BY <1>1, <1>3 DEF ViewCalls
<1>5. ~Direct /\ ~batching /\ depth = 0 /\ depth = Opened(k) /\ k.marks = {} /\ k.events = {}
      BY <1>1, <1>3 DEF Stands, Carrying
<1>6. /\ UNCHANGED <<pos, radius, visible, maxR, client, lost, marked, pending, batching, depth>>
      /\ open' = FALSE /\ batch' = V!NoBatch
      BY DEF V!Close, V!gridVars, V!batchVars
<1>7. Opened(n) = Opened(k) /\ WindowSound(n)
      BY <1>1, <1>3, <1>4 DEF Opened, Opening, WindowSound
<1>8. Stands(n)'
      <2>1. (Opened(n))' = Opened(n)  BY DEF Opened, Opening
      <2>2. Still'  BY <1>5, <1>6 DEF Still, V!NoBatch
      <2> QED  BY <1>4, <1>5, <1>6, <1>7, <2>1, <2>2 DEF Stands
<1>9. Carrying(n)'  BY <1>1, <1>3, <1>4, <1>5 DEF Carrying
<1>10. Batch' = {}  BY <1>6 DEF Batch, V!NoBatch
<1>11. GridSound(n)' /\ ClientSound(n)'  BY <1>1, <1>4, <1>5, <1>6, <1>10, ViewsStay
<1> QED  BY <1>0, <1>7, <1>8, <1>9, <1>11, SoundNext

(* Telling a client what its view has come to be leaves it as it will be.  *)
LEMMA TellShows ==
    ASSUME NEW E, NEW F, NEW e \in ViewEvents, e \in E, F \union {e} = E,
           NEW seen, NEW told \in [Objects -> SUBSET Objects], Shows(E, seen, told)
    PROVE  Shows(F, seen, V!Tell(told, e))
<1>1. PICK w0 \in Objects, t0 \in Objects, a \in {"enter", "leave"} : e = <<w0, t0, a>>
      BY DEF ViewEvents
<1>2. \A w, t \in Objects : t \in V!Tell(told, e)[w] <=>
          IF w = w0 /\ t = t0 THEN a = "enter" ELSE t \in told[w]
      <2>1. e[1] = w0 /\ e[2] = t0 /\ e[3] = a  BY <1>1
      <2>2. V!Tell(told, e) = [told EXCEPT ![w0] = IF a = "enter" THEN told[w0] \union {t0}
                                                 ELSE told[w0] \ {t0}]
            BY <2>1 DEF V!Tell
      <2>3. TAKE w, t \in Objects
      <2>4. CASE w = w0
            <3>1. V!Tell(told, e)[w] = IF a = "enter" THEN told[w0] \union {t0} ELSE told[w0] \ {t0}
                  BY <2>2, <2>4
            <3> QED  BY <1>1, <2>4, <3>1
      <2>5. CASE w # w0  BY <2>2, <2>5
      <2> QED  BY <2>4, <2>5
<1>3. ASSUME NEW w \in Objects, NEW t \in Objects
      PROVE  /\ ~(<<w, t, "enter">> \in F /\ <<w, t, "leave">> \in F)
             /\ t \in seen[w] <=> \/ <<w, t, "enter">> \in F
                                  \/ t \in V!Tell(told, e)[w] /\ <<w, t, "leave">> \notin F
      <2>1. /\ ~(<<w, t, "enter">> \in E /\ <<w, t, "leave">> \in E)
            /\ t \in seen[w] <=> \/ <<w, t, "enter">> \in E
                                 \/ t \in told[w] /\ <<w, t, "leave">> \notin E
            BY DEF Shows
      <2>2. CASE w = w0 /\ t = t0
            <3>1. t \in V!Tell(told, e)[w] <=> a = "enter"  BY <1>2, <2>2
            <3>2. <<w, t, a>> \in E  BY <1>1, <2>2
            <3>3. CASE a = "enter"
                  <4>1. <<w, t, "leave">> \notin F  BY <2>1, <3>2, <3>3
                  <4> QED  BY <2>1, <3>1, <3>2, <3>3, <4>1
            <3>4. CASE a = "leave"
                  <4>1. <<w, t, "enter">> \notin F /\ <<w, t, "enter">> \notin E
                        BY <2>1, <3>2, <3>4
                  <4> QED  BY <2>1, <3>1, <3>2, <3>4, <4>1
            <3> QED  BY <3>3, <3>4
      <2>3. CASE ~(w = w0 /\ t = t0)
            <3>1. t \in V!Tell(told, e)[w] <=> t \in told[w]  BY <1>2, <2>3
            <3>2. <<w, t, "enter">> # e /\ <<w, t, "leave">> # e  BY <1>1, <2>3
            <3> QED  BY <2>1, <3>1, <3>2
      <2> QED  BY <2>2, <2>3
<1> QED  BY <1>3 DEF Shows

LEMMA DispatchSound ==
    ASSUME OneCaller, ViewInv, ViewTypes', NEW c \in Callers, V!Dispatch(c)
    PROVE  ViewInv'
<1> DEFINE k == call[c]
<1>0. PICK n : call'[c] = n  OBVIOUS
<1>1. /\ ViewTypes /\ WindowSound(k) /\ Stands(k) /\ Carrying(k) /\ GridSound(k)
      /\ ClientSound(k) /\ k \in ViewCalls /\ k.events \subseteq ViewEvents
      BY InvSound, CallFields
<1>2. PICK e \in k.events, stage \in {"dispatch", "last"} :
        V!Goes(c, stage, [k EXCEPT !.events = @ \ {e}]) /\ V!Observe(e)
      BY DEF V!Dispatch
<1>3. k.pc = stage /\ n = [k EXCEPT !.events = @ \ {e}]  BY <1>0, <1>1, <1>2, CallGoes
<1>4. /\ n.pc = k.pc /\ n.own = k.own /\ n.window = k.window /\ n.marks = k.marks
      /\ n.events = k.events \ {e} /\ n.op = k.op
      BY <1>1, <1>3 DEF ViewCalls
<1>5. UNCHANGED <<pos, radius, visible, maxR, marked, pending, depth, open, batching>>
      BY DEF V!Dispatch, V!gridVars, V!batchVars
<1>6. Opened(n) = Opened(k) /\ WindowSound(n) /\ (Opened(n))' = Opened(n)
      BY <1>1, <1>4 DEF Opened, Opening, WindowSound
<1>7. Carrying(n)'  BY <1>1, <1>2, <1>3, <1>4 DEF Carrying
<1>8. GridSound(n)'
      BY <1>1, <1>4, <1>5 DEF GridSound, V!Present, ViewIn, V!Near
<1>9. e \in ViewEvents /\ e \in Gathered(k) /\ V!Told \in [Objects -> SUBSET Objects]
      BY <1>1, <1>2, ToldTyped DEF Gathered
<1>10. Gathered(n)' = pending \union (k.events \ {e}) \union Batch'
      BY <1>4, <1>5 DEF Gathered, Batch, V!NoBatch
<1>11. CASE Direct
      <2>1. stage = "dispatch" /\ batch = V!NoBatch /\ Still /\ depth = 0
            BY <1>1, <1>2, <1>3, <1>11 DEF Stands, Still
      <2>2. (V!Told)' = V!Tell(V!Told, e) /\ batch' = batch
            BY <1>1, <1>2, <1>9, <1>11, PublishTells DEF V!Observe
      <2>3. Stands(n)'
            BY <1>1, <1>3, <1>4, <1>5, <1>6, <1>11, <2>1, <2>2 DEF Stands, Still, V!NoBatch
      <2>4. Gathered(n)' \union {e} = Gathered(k)
            <3>1. Batch' = {} /\ Batch = {}  BY <2>1, <2>2 DEF Batch, V!NoBatch
            <3> QED  BY <1>2, <1>10, <3>1 DEF Gathered, Batch
      <2>5. Shows(Gathered(n)', visible, (V!Told)')
            BY <1>1, <1>9, <2>2, <2>4, TellShows DEF ClientSound
      <2>6. ClientSound(n)'  BY <1>1, <1>5, <2>5 DEF ClientSound, Shows
      <2> QED  BY <1>0, <1>6, <1>7, <1>8, <2>3, <2>6, SoundNext
<1>12. CASE ~Direct
      <2>1. stage = "last" /\ open /\ ~batching /\ batch # V!NoBatch /\ depth = 0 /\ depth = Opened(k)
            BY <1>1, <1>2, <1>3, <1>12 DEF Stands, Carrying
      <2>2. (V!Told)' = V!Told /\ batch' = V!Over(batch, {e}) /\ batch \in SUBSET ViewEvents
            BY <1>1, <1>2, <1>12, <2>1, ToldSame DEF V!Observe, ViewTypes
      <2>3. V!Over(batch, {e}) \in SUBSET ViewEvents  BY <1>9, <2>2, OverTyped
      <2>4. batch' # V!NoBatch  BY <2>2, <2>3, NoBatchIsNone
      <2>5. (batch # V!NoBatch)'  BY <2>4 DEF V!NoBatch
      <2>6. Stands(n)'
            BY <1>3, <1>4, <1>5, <1>6, <1>12, <2>1, <2>5 DEF Stands
      <2>7. Batch' = V!Over(batch, {e}) /\ Batch = batch
            BY <2>1, <2>2, <2>5 DEF Batch
      <2>8. V!Over(batch, {e}) = {e} \union batch
            <3>1. ASSUME NEW b \in batch, b[1] = e[1], b[2] = e[2] PROVE b = e
                  <4>1. b \in ViewEvents /\ b \in Gathered(k)  BY <2>1, <2>2, <3>1 DEF Gathered
                  <4>2. PICK w \in Objects, t \in Objects, x \in {"enter", "leave"} : b = <<w, t, x>>
                        BY <4>1 DEF ViewEvents
                  <4>3. PICK v \in Objects, u \in Objects, y \in {"enter", "leave"} : e = <<v, u, y>>
                        BY <1>9 DEF ViewEvents
                  <4>4. v = w /\ u = t  BY <3>1, <4>2, <4>3
                  <4>5. x = y
                        BY <1>1, <1>9, <4>1, <4>2, <4>3, <4>4 DEF ClientSound, Shows
                  <4> QED  BY <4>2, <4>3, <4>4, <4>5
            <3>2. V!Over(batch, {e}) = {e} \union {b \in batch : <<e[1], e[2]>> # <<b[1], b[2]>>}
                  BY DEF V!Over
            <3> QED  BY <3>1, <3>2
      <2>9. Gathered(n)' = Gathered(k)
            <3>1. Gathered(k) = pending \union k.events \union Batch  BY DEF Gathered, Batch
            <3> QED  BY <1>2, <1>10, <2>7, <2>8, <3>1
      <2>10. ClientSound(n)'  BY <1>1, <1>5, <2>2, <2>9 DEF ClientSound, Shows
      <2> QED  BY <1>0, <1>6, <1>7, <1>8, <2>6, <2>10, SoundNext
<1> QED  BY <1>11, <1>12

LEMMA FlushSound ==
    ASSUME OneCaller, ViewInv, ViewTypes', NEW c \in Callers, V!Flush(c)
    PROVE  ViewInv'
<1> DEFINE k == call[c]
<1>0. PICK n : call'[c] = n  OBVIOUS
<1>1. /\ ViewTypes /\ WindowSound(k) /\ Stands(k) /\ Carrying(k) /\ GridSound(k)
      /\ ClientSound(k) /\ k \in ViewCalls /\ k.events \subseteq ViewEvents
      BY InvSound, CallFields
<1>2. k.pc = "flush"  BY DEF V!Flush, V!Goes
<1>3. ~Direct /\ Still /\ depth = 0 /\ depth = Opened(k) /\ k.marks = {} /\ k.own = FALSE
      BY <1>1, <1>2 DEF Stands, Carrying, WindowSound, ViewCalls
<1>4. CASE k.events = {} /\ V!Goes(c, "flush", V!Ended(c))
              /\ UNCHANGED <<V!gridVars, V!batchVars, member, depth, open, batch, client, lost>>
      <2>1. n = V!Ended(c)  BY <1>0, <1>1, <1>4, CallGoes
      <2>2. /\ Opened(n) = Opened(k) /\ WindowSound(n) /\ n.pc = "idle"
            /\ n.op = "none" /\ n.marks = {} /\ n.events = {}
            BY <1>1, <1>2, <1>3, <2>1, EndedWindows
      <2>3. (Opened(n))' = Opened(n)  BY DEF Opened, Opening
      <2>4. UNCHANGED <<pos, radius, visible, maxR, client, lost, marked, pending, depth, open, batching, batch>>
            BY <1>4 DEF V!gridVars, V!batchVars
      <2>5. Still'  BY <1>3, <2>4 DEF Still, V!NoBatch
      <2>6. Stands(n)'  BY <1>3, <2>2, <2>3, <2>4, <2>5 DEF Stands
      <2>7. Carrying(n)'  BY <2>2 DEF Carrying
      <2>8. Batch' = Batch  BY <2>4 DEF Batch, V!NoBatch
      <2>9. GridSound(n)' /\ ClientSound(n)'
            BY <1>1, <1>3, <1>4, <2>2, <2>4, <2>8, ViewsStay
      <2> QED  BY <1>0, <2>2, <2>6, <2>7, <2>9, SoundNext
<1>5. CASE /\ \E e \in k.events : /\ V!Goes(c, "flush", [k EXCEPT !.events = @ \ {e}])
                                  /\ V!Publish(e)
           /\ UNCHANGED <<V!gridVars, V!batchVars, V!sceneVars>>
      <2>1. PICK e \in k.events : /\ V!Goes(c, "flush", [k EXCEPT !.events = @ \ {e}])
                                  /\ V!Publish(e)
            BY <1>5
      <2>2. n = [k EXCEPT !.events = @ \ {e}]  BY <1>0, <1>1, <2>1, CallGoes
      <2>3. /\ n.pc = k.pc /\ n.own = k.own /\ n.window = k.window /\ n.marks = k.marks
            /\ n.events = k.events \ {e} /\ n.op = k.op
            BY <1>1, <2>2 DEF ViewCalls
      <2>4. UNCHANGED <<pos, radius, visible, maxR, marked, pending, depth, open, batching, batch>>
            BY <1>5 DEF V!gridVars, V!batchVars, V!sceneVars
      <2>5. Opened(n) = Opened(k) /\ WindowSound(n) /\ (Opened(n))' = Opened(n)
            BY <1>1, <2>3 DEF Opened, Opening, WindowSound
      <2>6. Still'  BY <1>3, <2>4 DEF Still, V!NoBatch
      <2>7. Stands(n)'  BY <1>2, <1>3, <2>3, <2>4, <2>5, <2>6 DEF Stands
      <2>8. Carrying(n)'  BY <1>1, <1>2, <2>3 DEF Carrying
      <2>9. GridSound(n)'
            BY <1>1, <2>3, <2>4 DEF GridSound, V!Present, ViewIn, V!Near
      <2>10. /\ e \in ViewEvents /\ e \in Gathered(k) /\ V!Told \in [Objects -> SUBSET Objects]
             /\ (V!Told)' = V!Tell(V!Told, e)
            BY <1>1, <2>1, ToldTyped, PublishTells DEF Gathered
      <2>11. Gathered(n)' \union {e} = Gathered(k)
            <3>1. Gathered(n)' = pending \union (k.events \ {e}) \union Batch'
                  BY <2>3, <2>4 DEF Gathered, Batch, V!NoBatch
            <3>2. Batch' = {} /\ Batch = {}  BY <1>3, <2>4 DEF Still, Batch, V!NoBatch
            <3> QED  BY <2>1, <3>1, <3>2 DEF Gathered, Batch
      <2>12. Shows(Gathered(n)', visible, (V!Told)')
            BY <1>1, <2>10, <2>11, TellShows DEF ClientSound
      <2>13. ClientSound(n)'  BY <1>1, <2>4, <2>12 DEF ClientSound, Shows
      <2> QED  BY <1>0, <2>5, <2>7, <2>8, <2>9, <2>13, SoundNext
<1> QED  BY <1>4, <1>5 DEF V!Flush

-----------------------------------------------------------------------------
(* Geometry *)
LEMMA DivMonotone ==
    ASSUME NEW n \in Nat \ {0}, NEW x \in Int, NEW y \in Int, x <= y
    PROVE  x \div n \in Int /\ y \div n \in Int /\ x \div n <= y \div n
<1> DEFINE q == x \div n
           p == y \div n
<1>1. /\ q \in Int /\ p \in Int /\ x = n * q + (x % n) /\ y = n * p + (y % n)
      /\ x % n \in 0..(n - 1) /\ y % n \in 0..(n - 1)
      OBVIOUS
<1>2. ASSUME q > p PROVE FALSE
      <2>1. q - p - 1 \in Nat  BY <1>1, <1>2
      <2>2. n * (q - p - 1) >= 0  BY <2>1
      <2>3. n * (q - p - 1) = n * q - n * p - n  BY <1>1
      <2>4. n * q >= n * p + n
            <3> DEFINE a == n * q
                       b == n * p
                       d == n * (q - p - 1)
            <3>1. a \in Int /\ b \in Int /\ d \in Int  BY <1>1
            <3>2. d >= 0 /\ d = a - b - n  BY <2>2, <2>3
            <3> HIDE DEF a, b, d
            <3>3. a >= b + n  BY <3>1, <3>2
            <3> QED  BY <3>3 DEF a, b
      <2>5. n * q + (x % n) > n * p + (y % n)
            <3> DEFINE a == n * q
                       b == n * p
            <3>1. a \in Int /\ b \in Int /\ a >= b + n  BY <1>1, <2>4
            <3> HIDE DEF a, b
            <3>2. a + (x % n) > b + (y % n)  BY <1>1, <3>1
            <3> QED  BY <3>2 DEF a, b
      <2> QED  BY <1>1, <2>5
<1>3. q <= p  BY <1>1, <1>2
<1> QED  BY <1>1, <1>3

(* What is near a place is in the shards of the box around it.             *)
LEMMA InBox ==
    ASSUME V!SceneViewParams, NEW x \in Int, NEW y \in Int, NEW half \in Int, NEW z \in Int,
           \/ x - half <= z /\ z <= x + half
           \/ y - half <= z /\ z <= y + half
           \/ x - half <= z /\ z <= y + half
           \/ y - half <= z /\ z <= x + half,
           half >= 0
    PROVE  V!Shard(z) \in V!Box(x, y, half)
<1> DEFINE low == IF x < y THEN x ELSE y
           high == IF x < y THEN y ELSE x
<1>1. low - half <= z /\ z <= high + half /\ low \in Int /\ high \in Int  OBVIOUS
<1>2. ShardSize \in Nat \ {0}  BY DEF V!SceneViewParams
<1>3. /\ (low - half) \div ShardSize <= z \div ShardSize
      /\ z \div ShardSize <= (high + half) \div ShardSize
      /\ (low - half) \div ShardSize \in Int /\ z \div ShardSize \in Int
      /\ (high + half) \div ShardSize \in Int
      <2> HIDE DEF low, high
      <2>1. low - half \in Int /\ high + half \in Int  BY <1>1
      <2> QED  BY <1>1, <1>2, <2>1, DivMonotone
<1>4. V!Box(x, y, half) = ((low - half) \div ShardSize)..((high + half) \div ShardSize)
      BY DEF V!Box, V!Shard
<1>5. V!Shard(z) \in ((low - half) \div ShardSize)..((high + half) \div ShardSize)
      <2> HIDE DEF low, high
      <2> QED  BY <1>3 DEF V!Shard
<1> QED  BY <1>4, <1>5

LEMMA InCells ==
    ASSUME V!SceneViewParams, NEW x \in Int, NEW far \in Int, NEW z \in Int,
           x - far <= z, z <= x + far
    PROVE  V!Cell(z) \in V!Cell(x - far)..V!Cell(x + far)
<1>1. CellSize \in Nat \ {0} /\ x - far \in Int /\ x + far \in Int  BY DEF V!SceneViewParams
<1>2. /\ (x - far) \div CellSize <= z \div CellSize /\ z \div CellSize <= (x + far) \div CellSize
      /\ (x - far) \div CellSize \in Int /\ z \div CellSize \in Int
      /\ (x + far) \div CellSize \in Int
      BY <1>1, DivMonotone
<1> QED  BY <1>2 DEF V!Cell

(* The cell of a place begins before it, and ends after it.                *)
LEMMA CellBegins ==
    ASSUME V!SceneViewParams, NEW x \in Int
    PROVE  /\ V!Cell(x) * CellSize \in Int
           /\ V!Cell(x) * CellSize <= x /\ x < V!Cell(x) * CellSize + CellSize
<1>1. CellSize \in Nat \ {0}  BY DEF V!SceneViewParams
<1>2. /\ x \div CellSize \in Int /\ x % CellSize \in 0..(CellSize - 1)
      /\ x = CellSize * (x \div CellSize) + (x % CellSize)
      BY <1>1
<1>3. V!Cell(x) * CellSize = CellSize * (x \div CellSize) /\ V!Cell(x) * CellSize \in Int
      BY <1>1, <1>2 DEF V!Cell
<1> DEFINE a == V!Cell(x) * CellSize
<1>4. a \in Int /\ x = a + (x % CellSize)  BY <1>2, <1>3
<1> HIDE DEF a
<1>5. a <= x /\ x < a + CellSize  BY <1>1, <1>2, <1>4
<1> QED  BY <1>4, <1>5 DEF a

-----------------------------------------------------------------------------
(* Refreshing the views *)
LEMMA OverShows ==
    ASSUME NEW E \in SUBSET ViewEvents, NEW old \in [Objects -> SUBSET Objects],
           NEW new \in [Objects -> SUBSET Objects], NEW told, Shows(E, old, told)
    PROVE  Shows(V!Over(E, V!Events(old, new)), new, told)
<1> DEFINE N == V!Events(old, new)
<1>1. /\ N \subseteq ViewEvents
      /\ \A w, t \in Objects : /\ <<w, t, "enter">> \in N <=> t \in new[w] \ old[w]
                               /\ <<w, t, "leave">> \in N <=> t \in old[w] \ new[w]
      BY EventsTyped
<1> HIDE DEF N
<1>2. ASSUME NEW w \in Objects, NEW t \in Objects, NEW a \in {"enter", "leave"}
      PROVE  <<w, t, a>> \in V!Over(E, N) <=>
                \/ <<w, t, a>> \in N
                \/ <<w, t, a>> \in E /\ <<w, t, "enter">> \notin N /\ <<w, t, "leave">> \notin N
      <2>1. (\E n \in N : n[1] = w /\ n[2] = t) <=> <<w, t, "enter">> \in N \/ <<w, t, "leave">> \in N
            <3>1. ASSUME NEW n \in N, n[1] = w, n[2] = t
                  PROVE <<w, t, "enter">> \in N \/ <<w, t, "leave">> \in N
                  <4>1. PICK v \in Objects, u \in Objects, b \in {"enter", "leave"} : n = <<v, u, b>>
                        BY <1>1 DEF ViewEvents
                  <4> QED  BY <3>1, <4>1
            <3>2. ASSUME NEW b, <<w, t, b>> \in N PROVE \E n \in N : n[1] = w /\ n[2] = t
                  BY <3>2
            <3> QED  BY <3>1, <3>2
      <2>2. <<w, t, a>> \in V!Over(E, N) <=>
              \/ <<w, t, a>> \in N
              \/ <<w, t, a>> \in E /\ \A n \in N : <<n[1], n[2]>> # <<w, t>>
            BY DEF V!Over
      <2> QED  BY <2>1, <2>2
<1>3. ASSUME NEW w \in Objects, NEW t \in Objects
      PROVE  /\ ~(<<w, t, "enter">> \in V!Over(E, N) /\ <<w, t, "leave">> \in V!Over(E, N))
             /\ t \in new[w] <=> \/ <<w, t, "enter">> \in V!Over(E, N)
                                 \/ t \in told[w] /\ <<w, t, "leave">> \notin V!Over(E, N)
      <2>1. /\ ~(<<w, t, "enter">> \in E /\ <<w, t, "leave">> \in E)
            /\ t \in old[w] <=> \/ <<w, t, "enter">> \in E
                                \/ t \in told[w] /\ <<w, t, "leave">> \notin E
            BY DEF Shows
      <2> QED  BY <1>1, <1>2, <2>1
<1> QED  BY <1>3 DEF Shows, N

(* A watcher is refreshed with the shards of its view.                     *)
LEMMA SeesView ==
    ASSUME NEW p, NEW r, NEW S, NEW w \in Objects, p[w] # None, r[w] > 0,
           \A t \in Objects \ {w} : p[t] # None /\ V!Near(p[t], p[w], r[w]) => V!In(p, S, t)
    PROVE  V!Sees(p, r, S, w) = ViewIn(p, r, w)
BY DEF V!Sees, ViewIn, V!In

LEMMA RefreshSound ==
    ASSUME V!SceneViewParams, OneCaller, WindowInv, ViewInv, ViewTypes', NEW c \in Callers,
           V!Refresh(c)
    PROVE  ViewInv'
<1> DEFINE k == call[c]
           now == V!Refreshed(pos, radius, visible, k.marks, k.box)
           E == V!Over(k.events, V!Events(visible, now))
<1>0. PICK n : call'[c] = n  OBVIOUS
<1>1. /\ ViewTypes /\ WindowSound(k) /\ Stands(k) /\ Carrying(k) /\ GridSound(k)
      /\ ClientSound(k) /\ k \in ViewCalls /\ k.events \in SUBSET ViewEvents
      /\ visible \in [Objects -> SUBSET Objects]
      BY InvSound, CallFields DEF ViewTypes
<1>2. V!Goes(c, "refresh", [k EXCEPT !.pc = "last", !.marks = {}, !.box = {}, !.events = E])
      BY DEF V!Refresh
<1>3. k.pc = "refresh" /\ n = [k EXCEPT !.pc = "last", !.marks = {}, !.box = {}, !.events = E]
      BY <1>0, <1>1, <1>2, CallGoes
<1>4. /\ n.pc = "last" /\ n.own = k.own /\ n.window = k.window /\ n.marks = {}
      /\ n.events = E /\ n.op = k.op
      <2> HIDE DEF E
      <2> QED  BY <1>1, <1>3 DEF ViewCalls
<1>5. /\ UNCHANGED <<pos, radius, maxR, client, lost, marked, pending, depth, open, batching, batch>>
      /\ visible' = now
      BY DEF V!Refresh, V!batchVars, V!sceneVars
<1>6. ~Direct /\ open /\ ~batching /\ batch = {} /\ depth = 0 /\ depth = Opened(k)
      BY <1>1, <1>3 DEF Stands
<1>7. pending = {}  BY <1>6 DEF WindowInv, WindowsCounted
<1>8. Opened(n) = Opened(k) /\ WindowSound(n)
      BY <1>1, <1>3, <1>4 DEF Opened, Opening, WindowSound
<1>9. Stands(n)'
      <2>1. (Opened(n))' = Opened(n)  BY DEF Opened, Opening
      <2>2. (batch # V!NoBatch)'  BY <1>5, <1>6 DEF V!NoBatch
      <2> QED  BY <1>4, <1>5, <1>6, <1>8, <2>1, <2>2 DEF Stands
<1>10. Carrying(n)'  BY <1>1, <1>3, <1>4 DEF Carrying
<1>11. now \in [Objects -> SUBSET Objects]  BY <1>1, ViewsTyped
<1>12. ClientSound(n)'
      <2>1. Batch = {} /\ Batch' = {}  BY <1>5, <1>6 DEF Batch, V!NoBatch
      <2>2. Gathered(k) = k.events  BY <1>7, <2>1 DEF Gathered, Batch
      <2>3. Gathered(n)' = E
            <3>1. Gathered(n)' = pending' \union n.events \union Batch'
                  BY DEF Gathered, Batch, V!NoBatch
            <3> HIDE DEF E
            <3> QED  BY <1>4, <1>5, <1>7, <2>1, <3>1
      <2>4. Shows(E, now, V!Told)
            <3> HIDE DEF now
            <3> QED  BY <1>1, <1>11, <2>2, OverShows DEF ClientSound
      <2>5. Shows(Gathered(n)', visible', (V!Told)')
            <3>1. (V!Told)' = V!Told  BY <1>5, ToldSame
            <3> HIDE DEF E, now
            <3> QED  BY <1>5, <2>3, <2>4, <3>1
      <2> QED  BY <1>5, <1>7, <2>5 DEF ClientSound, Shows
<1>13. \A w \in Objects : /\ ~V!Present(w) => radius[w] = 0
                          /\ radius[w] <= maxR
                          /\ radius[w] = 0 => visible[w] = {}
      BY <1>1 DEF GridSound
<1>14. ASSUME NEW w \in Objects
       PROVE  /\ radius[w] = 0 => now[w] = {}
              /\ w \notin marked => now[w] = ViewIn(pos, radius, w)
      <2>1. radius \in [Objects -> Radii \union {0}] /\ Radii \subseteq Nat \ {0}
            /\ pos \in [Objects -> Places \union {None}] /\ Places \subseteq Int
            BY <1>1 DEF ViewTypes, V!SceneViewParams
      <2>2. radius[w] \in Nat
            <3>1. radius[w] \in Radii \union {0}  BY <2>1
            <3>2. Radii \union {0} \subseteq Nat  BY <2>1
            <3> QED  BY <3>1, <3>2
      <2>3. now[w] = IF w \in k.marks /\ V!In(pos, k.box, w) /\ radius[w] > 0
                     THEN V!Sees(pos, radius, k.box, w) ELSE visible[w]
            BY DEF V!Refreshed
      <2>4. CASE radius[w] = 0
            <3>1. ViewIn(pos, radius, w) = {}  BY <2>4 DEF ViewIn
            <3> QED  BY <1>13, <2>3, <2>4, <3>1
      <2>5. CASE radius[w] # 0 /\ w \in k.marks
            <3>1. V!Present(w) /\ radius[w] > 0  BY <1>13, <2>2, <2>5
            <3>2. pos[w] # None /\ pos[w] \in Int  BY <2>1, <3>1 DEF V!Present
            <3>3. V!ViewOf(w) \subseteq k.box  BY <1>1, <1>3, <2>5, <3>1 DEF Carrying
            <3>4. V!ViewOf(w) = V!Box(pos[w], pos[w], radius[w])  BY <2>5 DEF V!ViewOf
            <3>5. V!In(pos, k.box, w)
                  <4>1. V!Shard(pos[w]) \in V!Box(pos[w], pos[w], radius[w])
                        BY <2>2, <3>1, <3>2, InBox
                  <4> QED  BY <3>2, <3>3, <3>4, <4>1 DEF V!In
            <3>6. ASSUME NEW t \in Objects \ {w}, pos[t] # None, V!Near(pos[t], pos[w], radius[w])
                  PROVE  V!In(pos, k.box, t)
                  <4>1. pos[t] \in Int  BY <2>1, <3>6
                  <4>2. pos[w] - radius[w] <= pos[t] /\ pos[t] <= pos[w] + radius[w]
                        BY <2>2, <3>2, <3>6, <4>1 DEF V!Near
                  <4>3. V!Shard(pos[t]) \in V!Box(pos[w], pos[w], radius[w])
                        BY <2>2, <3>1, <3>2, <4>1, <4>2, InBox
                  <4> QED  BY <3>3, <3>4, <3>6, <4>3 DEF V!In
            <3>7. V!Sees(pos, radius, k.box, w) = ViewIn(pos, radius, w)
                  BY <3>1, <3>2, <3>6, SeesView
            <3> QED  BY <2>3, <2>5, <3>1, <3>5, <3>7
      <2>6. CASE radius[w] # 0 /\ w \notin k.marks
            <3>1. now[w] = visible[w]  BY <2>3, <2>6
            <3>2. w \notin marked => visible[w] = ViewIn(pos, radius, w)
                  BY <1>1, <2>6 DEF GridSound
            <3> QED  BY <2>6, <3>1, <3>2
      <2> QED  BY <2>4, <2>5, <2>6
<1>15. GridSound(n)'
      <2> HIDE DEF now
      <2>1. \A w \in Objects : /\ ~V!Present(w)' => radius'[w] = 0
                               /\ radius'[w] <= maxR'
                               /\ radius'[w] = 0 => visible'[w] = {}
            BY <1>5, <1>13, <1>14 DEF V!Present
      <2>2. \A w \in Objects \ (marked' \union n.marks) : visible'[w] = ViewIn(pos', radius', w)
            BY <1>4, <1>5, <1>14
      <2> QED  BY <2>1, <2>2 DEF GridSound, V!Present, ViewIn, V!Near
<1> QED  BY <1>0, <1>8, <1>9, <1>10, <1>12, <1>15, SoundNext

-----------------------------------------------------------------------------
(* The operations of the grid *)
Touched(k, p, r, xs, self) ==
    (UNION {V!Affected(p, r, V!BoxOf(k), x) : x \in xs}) \union {w \in self : r[w] > 0}

(* Who is not touched sees in p with the views r what it saw, and the      *)
(* shards that are locked hold what the others see.                        *)
Faithful(k, p, r, W) ==
    /\ \A w \in Objects : p[w] = None => r[w] = 0
    /\ \A w \in Objects \ W :
          r[w] > 0 => radius[w] = r[w] /\ ViewIn(p, r, w) = ViewIn(pos, radius, w)
    /\ \A w \in W : r[w] > 0
    /\ Direct => \A w \in W :
          /\ V!In(p, V!BoxOf(k), w)
          /\ \A t \in Objects \ {w} :
                p[t] # None /\ V!Near(p[t], p[w], r[w]) => V!In(p, V!BoxOf(k), t)

LEMMA ApplySound ==
    ASSUME V!SceneViewParams, OneCaller, WindowInv, ViewInv, ViewTypes', NEW c \in Callers,
           NEW p, NEW r \in [Objects -> Radii \union {0}], NEW xs, NEW self \in SUBSET Objects,
           NEW scan \in BOOLEAN, V!Apply(c, p, r, xs, self, scan),
           Faithful(call[c], p, r, Touched(call[c], p, r, xs, self)),
           \A w \in Objects : r[w] <= maxR'
    PROVE  ViewInv'
<1> DEFINE k == call[c]
           S == V!BoxOf(k)
           W == Touched(k, p, r, xs, self)
           seen == [w \in Objects |-> IF r[w] = 0 THEN {} ELSE visible[w]]
           now == V!Refreshed(p, r, seen, W, S)
<1>0. PICK n : call'[c] = n  OBVIOUS
<1>1. /\ ViewTypes /\ WindowSound(k) /\ Stands(k) /\ Carrying(k) /\ GridSound(k)
      /\ ClientSound(k) /\ k \in ViewCalls /\ visible \in [Objects -> SUBSET Objects]
      BY InvSound DEF ViewTypes
<1>2. /\ pos' = p /\ radius' = r
      /\ IF batching
         THEN /\ visible' = seen /\ pending' = pending \union V!Events(visible, seen)
              /\ V!Goes(c, "lock", [k EXCEPT !.pc = "mark", !.marks = W, !.scan = scan])
         ELSE /\ visible' = now /\ UNCHANGED pending
              /\ V!Goes(c, "lock", [k EXCEPT !.pc = IF scan THEN "scan" ELSE "dispatch",
                                             !.events = V!Events(visible, now)])
      /\ UNCHANGED <<batching, marked, client, lost, depth, open, batch>>
      BY DEF V!Apply, Touched, V!sceneVars
<1>3. k.pc = "lock" /\ k.marks = {} /\ k.events = {}  BY <1>1, <1>2 DEF V!Goes, Carrying
<1>4. seen \in [Objects -> SUBSET Objects]  BY <1>1
<1>5. now \in [Objects -> SUBSET Objects]  BY <1>4, ViewsTyped
<1>6. W \subseteq Objects  BY DEF Touched, V!Affected
<1>7. \A w \in Objects : r[w] \in Nat
      <2>1. Radii \union {0} \subseteq Nat  BY DEF V!SceneViewParams
      <2> QED  BY <2>1
<1>8. \A w \in Objects : r[w] = 0 => ViewIn(p, r, w) = {}  BY DEF ViewIn
<1>9. ASSUME NEW w \in Objects \ W, w \notin marked PROVE seen[w] = ViewIn(p, r, w)
      <2>1. CASE r[w] = 0  BY <1>8, <2>1
      <2>2. CASE r[w] # 0
            <3>1. r[w] > 0  BY <1>7, <2>2
            <3>2. ViewIn(p, r, w) = ViewIn(pos, radius, w)
                  <4> HIDE DEF W
                  <4> QED  BY <3>1 DEF Faithful, W
            <3>3. visible[w] = ViewIn(pos, radius, w)  BY <1>1, <1>3, <1>9 DEF GridSound
            <3> QED  BY <2>2, <3>2, <3>3
      <2> QED  BY <2>1, <2>2
<1>10. \A w \in Objects : (p[w] = None => r[w] = 0) /\ r[w] <= maxR'  BY DEF Faithful
<1>11. CASE batching
      <2>1. ~Direct /\ Windowed  BY <1>1, <1>3, <1>11 DEF Stands, Still
      <2>2. n = [k EXCEPT !.pc = "mark", !.marks = W, !.scan = scan]
            BY <1>0, <1>1, <1>2, <1>11, CallGoes
      <2>3. /\ n.pc = "mark" /\ n.own = k.own /\ n.window = k.window /\ n.marks = W
            /\ n.events = {} /\ n.op = k.op
            <3> HIDE DEF W
            <3> QED  BY <1>1, <1>3, <2>2 DEF ViewCalls
      <2>4. Opened(n) = Opened(k) /\ WindowSound(n)
            BY <1>1, <1>3, <2>3 DEF Opened, Opening, WindowSound
      <2>5. Stands(n)'
            BY <1>1, <1>2, <1>3, <2>1, <2>3, <2>4, StandsWithin DEF Within
      <2>6. Carrying(n)'  BY <2>3 DEF Carrying
      <2>7. visible' = seen /\ pending' = pending \union V!Events(visible, seen)
            BY <1>2, <1>11
      <2>8. GridSound(n)'
            <3>1. \A w \in Objects : r[w] = 0 => seen[w] = {}  OBVIOUS
            <3> HIDE DEF W, seen
            <3> QED  BY <1>2, <1>9, <1>10, <2>3, <2>7, <3>1
                     DEF GridSound, V!Present, ViewIn, V!Near
      <2>9. \A w \in Objects : seen[w] \subseteq visible[w]  OBVIOUS
      <2>10. /\ V!Events(visible, seen) \subseteq ViewEvents
             /\ \A w, t \in Objects :
                 /\ <<w, t, "enter">> \notin V!Events(visible, seen)
                 /\ <<w, t, "leave">> \in V!Events(visible, seen) <=> t \in visible[w] \ seen[w]
            <3> HIDE DEF seen
            <3> QED  BY <1>1, <1>4, <2>9, EventsTyped
      <2>11. Gathered(k) = pending  BY <1>3, <2>1 DEF Gathered, Windowed
      <2>12. Gathered(n)' = pending \union V!Events(visible, seen)
            <3>1. Gathered(n)' = pending' \union n.events \union Batch'
                  BY DEF Gathered, Batch, V!NoBatch
            <3>2. Batch' = {}  BY <1>2, <2>1 DEF Windowed, Batch, V!NoBatch
            <3> HIDE DEF seen
            <3> QED  BY <2>3, <2>7, <3>1, <3>2
      <2>13. \A e \in pending : e[3] = "leave"  BY <1>1 DEF ClientSound
      <2>14. \A w, t \in Objects : <<w, t, "enter">> \notin pending
            <3>1. \A w, t \in Objects : <<w, t, "enter">>[3] = "enter"  OBVIOUS
            <3> QED  BY <2>13, <3>1
      <2>15. \A e \in pending' : e[3] = "leave"
            <3>1. ASSUME NEW e \in V!Events(visible, seen) PROVE e[3] = "leave"
                  <4> HIDE DEF seen
                  <4>1. PICK w \in Objects, t \in Objects, a \in {"enter", "leave"} : e = <<w, t, a>>
                        BY <2>10, <3>1 DEF ViewEvents
                  <4> QED  BY <2>10, <3>1, <4>1
            <3> HIDE DEF seen
            <3> QED  BY <2>7, <2>13, <3>1
      <2>16. Shows(Gathered(n)', seen, V!Told)
            <3>1. \A w, t \in Objects :
                    t \in visible[w] <=> t \in V!Told[w] /\ <<w, t, "leave">> \notin pending
                  BY <1>1, <2>11, <2>14 DEF ClientSound, Shows
            <3> HIDE DEF seen
            <3> QED  BY <2>9, <2>10, <2>12, <2>14, <3>1 DEF Shows
      <2>17. ClientSound(n)'
            <3>1. (V!Told)' = V!Told  BY <1>2, ToldSame
            <3> HIDE DEF seen
            <3> QED  BY <2>7, <2>15, <2>16, <3>1 DEF ClientSound, Shows
      <2> QED  BY <1>0, <2>4, <2>5, <2>6, <2>8, <2>17, SoundNext
<1>12. CASE ~batching
      <2> DEFINE stage == IF scan THEN "scan" ELSE "dispatch"
      <2>1. Direct /\ Still /\ depth = 0  BY <1>1, <1>3, <1>12 DEF Stands, Windowed
      <2>2. n = [k EXCEPT !.pc = stage, !.events = V!Events(visible, now)]
            <3> HIDE DEF now
            <3> QED  BY <1>0, <1>1, <1>2, <1>12, CallGoes
      <2>3. /\ n.pc = stage /\ n.own = k.own /\ n.window = k.window /\ n.marks = {}
            /\ n.events = V!Events(visible, now) /\ n.op = k.op
            <3> HIDE DEF stage, now
            <3> QED  BY <1>1, <1>3, <2>2 DEF ViewCalls
      <2>4. n.pc \in {"scan", "dispatch"}  BY <2>3
      <2>5. Opened(n) = Opened(k) /\ WindowSound(n)
            <3> HIDE DEF stage, now
            <3> QED  BY <1>1, <1>3, <2>3, <2>4 DEF Opened, Opening, WindowSound
      <2>6. Stands(n)'
            <3> HIDE DEF stage, now
            <3> QED  BY <1>1, <1>2, <1>3, <2>1, <2>4, <2>5, StandsWithin DEF Within
      <2>7. Carrying(n)'
            <3> HIDE DEF stage, now
            <3> QED  BY <1>1, <1>3, <2>1, <2>3, <2>4 DEF Carrying
      <2>8. marked = {} /\ pending = {}  BY <1>12 DEF WindowInv, WindowsCounted
      <2>9. visible' = now /\ pending' = {}  BY <1>2, <1>12, <2>8
      <2>10. \A w \in Objects : (r[w] = 0 => now[w] = {}) /\ now[w] = ViewIn(p, r, w)
            <3>1. TAKE w \in Objects
            <3>2. now[w] = IF w \in W /\ V!In(p, S, w) /\ r[w] > 0
                           THEN V!Sees(p, r, S, w) ELSE seen[w]
                  BY DEF V!Refreshed
            <3> HIDE DEF now
            <3>3. CASE w \in W
                  <4>1. r[w] > 0 /\ V!In(p, S, w)
                        /\ \A t \in Objects \ {w} :
                              p[t] # None /\ V!Near(p[t], p[w], r[w]) => V!In(p, S, t)
                        <5> HIDE DEF W
                        <5> QED  BY <2>1, <3>3 DEF Faithful, W
                  <4>2. p[w] # None  BY <4>1 DEF V!In
                  <4>3. V!Sees(p, r, S, w) = ViewIn(p, r, w)  BY <4>1, <4>2, SeesView
                  <4>4. r[w] # 0  BY <1>7, <4>1
                  <4> QED  BY <3>2, <3>3, <4>1, <4>3, <4>4
            <3>4. CASE w \notin W
                  <4>1. now[w] = seen[w]  BY <3>2, <3>4
                  <4>2. seen[w] = ViewIn(p, r, w)  BY <1>9, <2>8, <3>4
                  <4> QED  BY <1>8, <4>1, <4>2
            <3> QED  BY <3>3, <3>4
      <2>11. GridSound(n)'
            <3> HIDE DEF now, seen, stage
            <3> QED  BY <1>2, <1>10, <2>9, <2>10 DEF GridSound, V!Present, ViewIn, V!Near
      <2>12. Gathered(n)' = V!Events(visible, now)
            <3>1. Gathered(n)' = pending' \union n.events \union Batch'
                  BY DEF Gathered, Batch, V!NoBatch
            <3>2. Batch' = {}  BY <1>2, <2>1 DEF Still, Batch, V!NoBatch
            <3> HIDE DEF now
            <3> QED  BY <2>3, <2>9, <3>1, <3>2
      <2>13. Gathered(k) = {}  BY <1>3, <2>1, <2>8 DEF Gathered, Still
      <2>14. Shows(V!Over({}, V!Events(visible, now)), now, V!Told)
            <3> HIDE DEF now
            <3> QED  BY <1>1, <1>5, <2>13, OverShows DEF ClientSound
      <2>15. V!Over({}, V!Events(visible, now)) = V!Events(visible, now)
            <3> HIDE DEF now
            <3> QED  BY DEF V!Over
      <2>16. ClientSound(n)'
            <3>1. (V!Told)' = V!Told  BY <1>2, ToldSame
            <3> HIDE DEF now
            <3> QED  BY <2>9, <2>12, <2>14, <2>15, <3>1 DEF ClientSound, Shows
      <2> QED  BY <1>0, <2>5, <2>6, <2>7, <2>11, <2>16, SoundNext
<1> QED  BY <1>11, <1>12

LEMMA LockFacts ==
    ASSUME V!SceneViewParams, ViewInv, NEW c \in Callers, call[c].pc = "lock"
    PROVE  /\ call[c].obj \in Objects /\ call[c].limit = maxR /\ maxR \in Nat /\ CellSize \in Nat
           /\ pos \in [Objects -> Places \union {None}]
           /\ radius \in [Objects -> Radii \union {0}]
           /\ \A w \in Objects : /\ radius[w] \in Nat /\ radius[w] <= maxR
                                 /\ pos[w] # None => pos[w] \in Int
                                 /\ pos[w] = None => radius[w] = 0
           /\ pos[call[c].obj] # None <=> call[c].op # "enter"
           /\ pos[call[c].obj] # None => call[c].at = pos[call[c].obj]
           /\ call[c].op \in {"enter", "move"} => call[c].to \in Places /\ call[c].to \in Int /\ call[c].to # None
           /\ call[c].op = "watch" => call[c].to \in Radii \union {0}
<1> DEFINE k == call[c]
<1>1. /\ ViewTypes /\ Carrying(k) /\ GridSound(k) /\ Named(k) /\ k \in ViewCalls
      /\ maxR \in Radii \union {0}
      /\ pos \in [Objects -> Places \union {None}] /\ radius \in [Objects -> Radii \union {0}]
      BY InvSound DEF ViewTypes
<1>2. k.op \in {"enter", "move", "leave", "watch"} /\ k.obj \in Objects
      BY <1>1 DEF Named, ViewCalls
<1>3. Radii \union {0} \subseteq Nat /\ Places \subseteq Int /\ None \notin Places /\ CellSize \in Nat
      BY DEF V!SceneViewParams
<1>4. \A w \in Objects : /\ radius[w] \in Nat /\ radius[w] <= maxR
                         /\ pos[w] # None => pos[w] \in Int
                         /\ pos[w] = None => radius[w] = 0
      <2>1. TAKE w \in Objects
      <2>2. radius[w] \in Radii \union {0} /\ pos[w] \in Places \union {None}  BY <1>1
      <2> QED  BY <1>1, <1>3, <2>2 DEF GridSound, V!Present
<1>5. /\ k.limit = maxR
      /\ pos[k.obj] # None <=> k.op # "enter"
      /\ pos[k.obj] # None => k.at = pos[k.obj]
      BY <1>1 DEF Carrying, V!Present
<1>6. /\ k.op \in {"enter", "move"} => k.to \in Places /\ k.to \in Int /\ k.to # None
      /\ k.op = "watch" => k.to \in Radii \union {0}
      BY <1>1, <1>3 DEF Named
<1>7. maxR \in Nat  BY <1>1, <1>3
<1> QED  BY <1>1, <1>2, <1>3, <1>4, <1>5, <1>6, <1>7

(* The box of an operation holds whatever may see, or be seen from, the    *)
(* place an object comes to and the one it leaves.                         *)
LEMMA BoxHolds ==
    ASSUME V!SceneViewParams, ViewInv, NEW c \in Callers, call[c].pc = "lock",
           NEW x \in Int, NEW z \in Int, NEW far \in Nat, far <= maxR, V!Near(z, x, far),
           \/ call[c].op = "enter" /\ x = call[c].to
           \/ call[c].op = "move" /\ (x = call[c].to \/ x = call[c].at)
           \/ call[c].op = "leave" /\ x = call[c].at
    PROVE  V!Shard(z) \in V!BoxOf(call[c])
<1> DEFINE k == call[c]
           around == k.limit + CellSize
<1>1. k.limit = maxR /\ maxR \in Nat /\ CellSize \in Nat  BY LockFacts
<1>2. x - far <= z /\ z <= x + far  BY DEF V!Near
<1>3. around \in Int /\ around >= 0 /\ x - around <= z /\ z <= x + around
      BY <1>1, <1>2
<1>4. CASE k.op = "enter"
      <2>1. V!BoxOf(k) = V!Box(x, x, around)  BY <1>4 DEF V!BoxOf
      <2> HIDE DEF around
      <2> QED  BY <1>3, <2>1, InBox
<1>5. CASE k.op = "leave"
      <2>1. V!BoxOf(k) = V!Box(x, x, around)  BY <1>5 DEF V!BoxOf
      <2> HIDE DEF around
      <2> QED  BY <1>3, <2>1, InBox
<1>6. CASE k.op = "move"
      <2> DEFINE a == V!Cell(k.at) * CellSize
      <2>1. V!BoxOf(k) = V!Box(a, k.to, around)  BY <1>6 DEF V!BoxOf
      <2>2. k.to \in Int /\ k.at \in Int  BY <1>6, LockFacts
      <2>3. a \in Int /\ a <= k.at /\ k.at < a + CellSize  BY <2>2, CellBegins
      <2>4. \/ a - around <= z /\ z <= a + around
            \/ k.to - around <= z /\ z <= k.to + around
            <3> HIDE DEF a
            <3>1. CASE x = k.to  BY <1>3, <3>1
            <3>2. CASE x = k.at
                  <4>1. a - around <= z  BY <1>1, <1>2, <2>2, <2>3, <3>2
                  <4>2. z <= a + around  BY <1>1, <1>2, <2>2, <2>3, <3>2
                  <4> QED  BY <4>1, <4>2
            <3> QED  BY <1>6, <3>1, <3>2
      <2> HIDE DEF a, around
      <2> QED  BY <1>3, <2>1, <2>2, <2>3, <2>4, InBox
<1> QED  BY <1>4, <1>5, <1>6

(* A watcher within whose radius a place is, is touched by what happens    *)
(* there.                                                                  *)
LEMMA TouchesWatcher ==
    ASSUME V!SceneViewParams, NEW k, NEW p, NEW r, NEW xs, NEW self, NEW x \in xs, x \in Int,
           maxR \in Nat, NEW w \in Objects, p[w] \in Int, p[w] # None, r[w] \in Nat, r[w] > 0,
           r[w] <= maxR, V!Near(x, p[w], r[w]), V!Shard(p[w]) \in V!BoxOf(k)
    PROVE  w \in Touched(k, p, r, xs, self)
<1> DEFINE far == r[w]
           y == p[w]
<1>0. far \in Nat /\ y \in Int /\ far <= maxR  OBVIOUS
<1>1. V!Near(y, x, far)  BY <1>0 DEF V!Near
<1>2. x - maxR <= y /\ y <= x + maxR
      <2> HIDE DEF y, far
      <2> QED  BY <1>0, <1>1 DEF V!Near
<1>3. V!Cell(y) \in V!Cell(x - maxR)..V!Cell(x + maxR)
      <2> DEFINE reach == maxR
                 at == x
      <2>1. reach \in Int /\ at \in Int /\ y \in Int /\ at - reach <= y /\ y <= at + reach
            BY <1>0, <1>2
      <2> HIDE DEF y, far, reach, at
      <2>2. V!Cell(y) \in V!Cell(at - reach)..V!Cell(at + reach)  BY <2>1, InCells
      <2> QED  BY <2>2 DEF reach, at
<1>4. V!In(p, V!BoxOf(k), w)  BY DEF V!In
<1>5. w \in V!Affected(p, r, V!BoxOf(k), x)  BY <1>1, <1>3, <1>4 DEF V!Affected
<1> QED  BY <1>5 DEF Touched

LEMMA TouchedWatch ==
    ASSUME NEW k, NEW p, NEW r, NEW xs, NEW o \in Objects, NEW self \in SUBSET {o}
    PROVE  /\ \A w \in Touched(k, p, r, xs, self) : r[w] > 0 /\ w \in Objects
           /\ \A w \in Touched(k, p, r, xs, self) \ self : V!In(p, V!BoxOf(k), w)
           /\ r[o] > 0 /\ o \in self => o \in Touched(k, p, r, xs, self)
BY DEF Touched, V!Affected

(* Enter and Move: the object has a place it did not have.                 *)
LEMMA MovedFaithful ==
    ASSUME V!SceneViewParams, ViewInv, Direct => FewObjects, NEW c \in Callers,
           call[c].pc = "lock", call[c].op \in {"enter", "move"}, NEW xs, call[c].to \in xs,
           xs \subseteq {call[c].to, pos[call[c].obj]},
           call[c].op = "move" => pos[call[c].obj] \in xs
    PROVE  LET p == [pos EXCEPT ![call[c].obj] = call[c].to]
           IN  Faithful(call[c], p, radius, Touched(call[c], p, radius, xs, {call[c].obj}))
<1> DEFINE k == call[c]
           o == k.obj
           p == [pos EXCEPT ![o] = k.to]
           W == Touched(k, p, radius, xs, {o})
<1>1. /\ o \in Objects /\ maxR \in Nat /\ k.to \in Int /\ k.to # None
      /\ pos \in [Objects -> Places \union {None}]
      /\ \A w \in Objects : /\ radius[w] \in Nat /\ radius[w] <= maxR
                            /\ pos[w] # None => pos[w] \in Int
                            /\ pos[w] = None => radius[w] = 0
      /\ pos[o] # None => k.op = "move" /\ k.at = pos[o]
      BY LockFacts
<1>2. p[o] = k.to /\ \A w \in Objects \ {o} : p[w] = pos[w]  BY <1>1
<1>3. /\ \A w \in W : radius[w] > 0 /\ w \in Objects
      /\ \A w \in W \ {o} : V!In(p, V!BoxOf(k), w)
      /\ radius[o] > 0 => o \in W
      <2>1. {o} \in SUBSET {o}  OBVIOUS
      <2> HIDE DEF p, o
      <2> QED  BY <1>1, <2>1, TouchedWatch
<1>4. ASSUME NEW w \in Objects, NEW x \in {k.to, pos[o]}, x # None, p[w] # None,
             V!Near(p[w], x, radius[w]) \/ V!Near(x, p[w], radius[w])
      PROVE  V!Shard(p[w]) \in V!BoxOf(k)
      <2>1. p[w] \in Int /\ x \in Int /\ radius[w] \in Nat /\ radius[w] <= maxR
            BY <1>1, <1>2, <1>4
      <2>2. V!Near(p[w], x, radius[w])  BY <1>4, <2>1 DEF V!Near
      <2>3. \/ k.op = "enter" /\ x = k.to
            \/ k.op = "move" /\ (x = k.to \/ x = k.at)
            BY <1>1, <1>4
      <2> HIDE DEF p
      <2> QED  BY <2>1, <2>2, <2>3, BoxHolds
<1>5. \A w \in Objects : p[w] = None => radius[w] = 0  BY <1>1, <1>2
<1>6. ASSUME NEW w \in Objects \ W, radius[w] > 0
      PROVE  ViewIn(p, radius, w) = ViewIn(pos, radius, w)
      <2>1. w # o /\ p[w] = pos[w] /\ pos[w] # None /\ p[w] \in Int  BY <1>1, <1>2, <1>3, <1>6
      <2>2. ASSUME NEW x \in xs, x # None, V!Near(x, p[w], radius[w]) PROVE FALSE
            <3>1. x \in {k.to, pos[o]} /\ x \in Int  BY <1>1, <2>2
            <3>2. V!Shard(p[w]) \in V!BoxOf(k)  BY <1>4, <2>1, <2>2, <3>1
            <3>3. w \in W
                  <4> HIDE DEF p
                  <4> QED  BY <1>1, <1>6, <2>1, <2>2, <3>1, <3>2, TouchesWatcher
            <3> QED  BY <1>6, <3>3
      <2>3. ~V!Near(p[o], p[w], radius[w])  BY <1>1, <1>2, <2>2
      <2>4. pos[o] # None => ~V!Near(pos[o], p[w], radius[w])  BY <1>1, <2>2
      <2> HIDE DEF p, W
      <2> QED  BY <1>2, <2>1, <2>3, <2>4 DEF ViewIn
<1>7. ASSUME Direct, NEW w \in W
      PROVE  /\ V!In(p, V!BoxOf(k), w)
             /\ \A t \in Objects \ {w} :
                   p[t] # None /\ V!Near(p[t], p[w], radius[w]) => V!In(p, V!BoxOf(k), t)
      <2>1. V!In(p, V!BoxOf(k), o)
            <3>1. V!Near(p[o], k.to, radius[o])  BY <1>1, <1>2 DEF V!Near
            <3>2. V!Shard(p[o]) \in V!BoxOf(k)  BY <1>1, <1>2, <1>4, <3>1
            <3> QED  BY <1>1, <1>2, <3>2 DEF V!In
      <2>2. CASE w = o
            <3>1. ASSUME NEW t \in Objects \ {o}, p[t] # None, V!Near(p[t], p[o], radius[o])
                  PROVE  V!In(p, V!BoxOf(k), t)
                  <4>1. p[t] \in Int /\ radius[o] \in Nat /\ radius[o] <= maxR
                        BY <1>1, <1>2, <3>1
                  <4>2. V!Near(p[t], k.to, radius[o])  BY <1>2, <3>1
                  <4>3. V!Shard(p[t]) \in V!BoxOf(k)
                        <5> HIDE DEF p
                        <5> QED  BY <1>1, <4>1, <4>2, BoxHolds
                  <4> QED  BY <3>1, <4>3 DEF V!In
            <3> QED  BY <2>1, <2>2, <3>1
      <2>3. CASE w # o
            <3>1. \A t \in Objects \ {w} : t = o  BY <1>1, <1>3, <1>7, <2>3 DEF FewObjects
            <3> HIDE DEF p, W
            <3> QED  BY <1>3, <1>7, <2>1, <2>3, <3>1
      <2> QED  BY <2>2, <2>3
<1> HIDE DEF p, W
<1>8. Faithful(k, p, radius, W)  BY <1>3, <1>5, <1>6, <1>7 DEF Faithful
<1> QED  BY <1>8 DEF p, W

LEMMA LeaveFaithful ==
    ASSUME V!SceneViewParams, ViewInv, Direct => FewObjects, NEW c \in Callers,
           call[c].pc = "lock", call[c].op = "leave"
    PROVE  LET o == call[c].obj
               p == [pos EXCEPT ![o] = None]
               r == [radius EXCEPT ![o] = 0]
           IN  /\ V!In(pos, V!BoxOf(call[c]), o)
               /\ Faithful(call[c], p, r, Touched(call[c], p, r, {pos[o]}, {}))
<1> DEFINE k == call[c]
           o == k.obj
           p == [pos EXCEPT ![o] = None]
           r == [radius EXCEPT ![o] = 0]
           W == Touched(k, p, r, {pos[o]}, {})
<1>1. /\ o \in Objects /\ maxR \in Nat
      /\ pos \in [Objects -> Places \union {None}] /\ radius \in [Objects -> Radii \union {0}]
      /\ \A w \in Objects : /\ radius[w] \in Nat /\ radius[w] <= maxR
                            /\ pos[w] # None => pos[w] \in Int
                            /\ pos[w] = None => radius[w] = 0
      /\ pos[o] # None /\ k.at = pos[o] /\ pos[o] \in Int
      BY LockFacts
<1>2. p[o] = None /\ r[o] = 0 /\ \A w \in Objects \ {o} : p[w] = pos[w] /\ r[w] = radius[w]
      BY <1>1
<1>3. V!In(pos, V!BoxOf(k), o)
      <2>1. V!Near(pos[o], k.at, 0) /\ k.at \in Int  BY <1>1 DEF V!Near
      <2>2. V!Shard(pos[o]) \in V!BoxOf(k)  BY <1>1, <2>1, BoxHolds
      <2> QED  BY <1>1, <2>2 DEF V!In
<1>4. /\ \A w \in W : r[w] > 0 /\ w \in Objects
      /\ \A w \in W : V!In(p, V!BoxOf(k), w)
      <2>1. {} \in SUBSET {o}  OBVIOUS
      <2>2. /\ \A w \in W : r[w] > 0 /\ w \in Objects
            /\ \A w \in W \ {} : V!In(p, V!BoxOf(k), w)
            <3> HIDE DEF p, r, o
            <3> QED  BY <1>1, <2>1, TouchedWatch
      <2> HIDE DEF W
      <2> QED  BY <2>2
<1>5. \A w \in Objects : p[w] = None => r[w] = 0  BY <1>1, <1>2
<1>6. ASSUME NEW w \in Objects \ W, r[w] > 0
      PROVE  radius[w] = r[w] /\ ViewIn(p, r, w) = ViewIn(pos, radius, w)
      <2>1. /\ w # o /\ p[w] = pos[w] /\ r[w] = radius[w] /\ pos[w] # None /\ p[w] \in Int
            /\ r[w] \in Nat /\ r[w] <= maxR
            BY <1>1, <1>2, <1>6
      <2>2. ~V!Near(pos[o], p[w], r[w])
            <3>1. SUFFICES ASSUME V!Near(pos[o], p[w], r[w]) PROVE FALSE  OBVIOUS
            <3>2. V!Near(p[w], k.at, r[w]) /\ k.at \in Int
                  <4> HIDE DEF p, r
                  <4> QED  BY <1>1, <2>1, <3>1 DEF V!Near
            <3>3. V!Shard(p[w]) \in V!BoxOf(k)
                  <4> HIDE DEF p, r
                  <4> QED  BY <2>1, <3>2, BoxHolds
            <3>4. w \in W
                  <4> HIDE DEF p, r
                  <4> QED  BY <1>1, <1>6, <2>1, <3>1, <3>3, TouchesWatcher
            <3> QED  BY <1>6, <3>4
      <2> HIDE DEF p, r, W
      <2> QED  BY <1>2, <2>1, <2>2 DEF ViewIn
<1>7. ASSUME Direct, NEW w \in W
      PROVE  \A t \in Objects \ {w} :
                p[t] # None /\ V!Near(p[t], p[w], r[w]) => V!In(p, V!BoxOf(k), t)
      <2>1. w # o  BY <1>2, <1>4, <1>7 DEF V!In
      <2>2. \A t \in Objects \ {w} : t = o
            <3> HIDE DEF p, r, W, o
            <3> QED  BY <1>1, <1>4, <1>7, <2>1 DEF FewObjects
      <2> QED  BY <1>2, <2>2
<1> HIDE DEF p, r, W
<1>8. Faithful(k, p, r, W)  BY <1>4, <1>5, <1>6, <1>7 DEF Faithful
<1> QED  BY <1>3, <1>8 DEF p, r, W

LEMMA WatchFaithful ==
    ASSUME V!SceneViewParams, ViewInv, NEW c \in Callers,
           call[c].pc = "lock", call[c].op = "watch", V!In(pos, V!BoxOf(call[c]), call[c].obj)
    PROVE  LET k == call[c]
               r == [radius EXCEPT ![k.obj] = k.to]
           IN  /\ k.to > 0 => Faithful(k, pos, r, Touched(k, pos, r, {}, {k.obj}))
               /\ k.to = 0 => Faithful(k, pos, r, Touched(k, pos, r, {}, {}))
<1> DEFINE k == call[c]
           o == k.obj
           r == [radius EXCEPT ![o] = k.to]
           W == Touched(k, pos, r, {}, {o})
           W0 == Touched(k, pos, r, {}, {})
<1>1. /\ o \in Objects /\ k.to \in Radii \union {0} /\ k.to \in Nat
      /\ pos \in [Objects -> Places \union {None}] /\ radius \in [Objects -> Radii \union {0}]
      /\ \A w \in Objects : /\ radius[w] \in Nat
                            /\ pos[w] # None => pos[w] \in Int
                            /\ pos[w] = None => radius[w] = 0
      /\ pos[o] # None /\ k.at = pos[o] /\ pos[o] \in Int
      <2>1. Radii \union {0} \subseteq Nat  BY DEF V!SceneViewParams
      <2> QED  BY <2>1, LockFacts
<1>2. r[o] = k.to /\ \A w \in Objects \ {o} : r[w] = radius[w]  BY <1>1
<1>3. \A w \in Objects : pos[w] = None => r[w] = 0  BY <1>1, <1>2
<1>4. \A w \in Objects \ {o} : ViewIn(pos, r, w) = ViewIn(pos, radius, w)
      <2> HIDE DEF r
      <2> QED  BY <1>2 DEF ViewIn
<1>5. CASE k.to > 0
      <2>1. W = {o}
            <3> HIDE DEF r, o
            <3> QED  BY <1>1, <1>2, <1>5 DEF Touched, W
      <2>2. ASSUME NEW t \in Objects \ {o}, pos[t] # None, V!Near(pos[t], pos[o], r[o])
            PROVE  V!In(pos, V!BoxOf(k), t)
            <3>1. V!BoxOf(k) = V!Box(k.at, k.at, k.to)  BY <1>5 DEF V!BoxOf
            <3>2. pos[t] \in Int /\ k.at - k.to <= pos[t] /\ pos[t] <= k.at + k.to
                  <4>1. pos[t] \in Int  BY <1>1, <2>2
                  <4>2. V!Near(pos[t], k.at, k.to)  BY <1>1, <1>2, <2>2
                  <4> QED  BY <1>1, <4>1, <4>2 DEF V!Near
            <3>3. V!Shard(pos[t]) \in V!BoxOf(k)  BY <1>1, <1>5, <3>1, <3>2, InBox
            <3> QED  BY <2>2, <3>3 DEF V!In
      <2>3. Faithful(k, pos, r, W)
            <3> HIDE DEF r, W
            <3> QED  BY <1>2, <1>3, <1>4, <1>5, <2>1, <2>2 DEF Faithful
      <2> QED  BY <1>5, <2>3
<1>6. CASE k.to = 0
      <2>1. W0 = {}
            <3> HIDE DEF r, o
            <3> QED  BY DEF Touched, W0
      <2>2. Faithful(k, pos, r, W0)
            <3> HIDE DEF r, W0
            <3> QED  BY <1>2, <1>3, <1>4, <1>6, <2>1 DEF Faithful
      <2> QED  BY <1>6, <2>2
<1> QED  BY <1>1, <1>5, <1>6

LEMMA ActSound ==
    ASSUME V!SceneViewParams, OneCaller, Direct => FewObjects, WindowInv, ViewInv, ViewTypes',
           NEW c \in Callers, GridActs(c)
    PROVE  ViewInv'
<1> DEFINE k == call[c]
           o == k.obj
<1>1. k.pc = "lock"
      BY DEF GridActs, V!Enter, V!Move, V!Leave, V!Watch, V!Unwatch, V!Apply, V!Goes
<1>2. /\ o \in Objects /\ maxR \in Nat
      /\ radius \in [Objects -> Radii \union {0}]
      /\ \A w \in Objects : radius[w] \in Nat /\ radius[w] <= maxR
      /\ pos[o] # None => k.at = pos[o]
      /\ k.op = "watch" => k.to \in Radii \union {0}
      BY <1>1, LockFacts
<1>3. {o} \in SUBSET Objects /\ {} \in SUBSET Objects /\ FALSE \in BOOLEAN  BY <1>2
<1>4. CASE V!Enter(c)
      <2> DEFINE p == [pos EXCEPT ![o] = k.to]
      <2>1. V!Apply(c, p, radius, {k.to}, {o}, FALSE) /\ maxR' = maxR /\ k.op = "enter"
            BY <1>4 DEF V!Enter
      <2>2. Faithful(k, p, radius, Touched(k, p, radius, {k.to}, {o}))
            BY <1>1, <2>1, MovedFaithful
      <2> HIDE DEF p
      <2> QED  BY <1>2, <1>3, <2>1, <2>2, ApplySound
<1>5. CASE V!Move(c)
      <2> DEFINE p == [pos EXCEPT ![o] = k.to]
                 xs == {pos[o], k.to}
      <2>1. V!Apply(c, p, radius, xs, {o}, FALSE) /\ maxR' = maxR /\ k.op = "move"
            BY <1>5 DEF V!Move
      <2>2. Faithful(k, p, radius, Touched(k, p, radius, xs, {o}))
            BY <1>1, <2>1, MovedFaithful
      <2> HIDE DEF p, xs
      <2> QED  BY <1>2, <1>3, <2>1, <2>2, ApplySound
<1>6. CASE V!Leave(c)
      <2> DEFINE p == [pos EXCEPT ![o] = None]
                 r == [radius EXCEPT ![o] = 0]
                 scan == radius[o] > 0 /\ radius[o] >= maxR
      <2>1. k.op = "leave"  BY <1>6 DEF V!Leave
      <2>2. /\ V!In(pos, V!BoxOf(k), o)
            /\ Faithful(k, p, r, Touched(k, p, r, {pos[o]}, {}))
            BY <1>1, <2>1, LeaveFaithful
      <2>3. V!Apply(c, p, r, {pos[o]}, {}, scan) /\ maxR' = maxR
            BY <1>6, <2>2 DEF V!Leave
      <2>4. scan \in BOOLEAN /\ r \in [Objects -> Radii \union {0}]
            /\ \A w \in Objects : r[w] <= maxR'
            BY <1>2, <2>3
      <2> HIDE DEF p, r, scan
      <2> QED  BY <1>3, <2>2, <2>3, <2>4, ApplySound
<1>7. CASE V!Watch(c)
      <2> DEFINE r == [radius EXCEPT ![o] = k.to]
                 scan == k.to <= maxR /\ radius[o] >= maxR /\ k.to < radius[o]
      <2>1. /\ k.op = "watch" /\ k.to > 0 /\ V!In(pos, V!BoxOf(k), o)
            /\ V!Apply(c, pos, r, {}, {o}, scan)
            /\ maxR' = IF k.to > maxR THEN k.to ELSE maxR
            BY <1>7 DEF V!Watch
      <2>2. Faithful(k, pos, r, Touched(k, pos, r, {}, {o}))
            BY <1>1, <2>1, WatchFaithful
      <2>3. scan \in BOOLEAN /\ r \in [Objects -> Radii \union {0}]  BY <1>2, <2>1
      <2>4. \A w \in Objects : r[w] <= maxR'
            <3>1. Radii \union {0} \subseteq Nat  BY DEF V!SceneViewParams
            <3>2. k.to \in Nat  BY <1>2, <2>1, <3>1
            <3>3. r[o] = k.to /\ \A w \in Objects \ {o} : r[w] = radius[w]  BY <1>2
            <3>4. k.to <= maxR' /\ maxR <= maxR' /\ maxR' \in Nat  BY <1>2, <2>1, <3>2
            <3> HIDE DEF r
            <3> QED  BY <1>2, <3>2, <3>3, <3>4
      <2> HIDE DEF r, scan
      <2> QED  BY <1>3, <2>1, <2>2, <2>3, <2>4, ApplySound
<1>8. CASE V!Unwatch(c)
      <2> DEFINE r == [radius EXCEPT ![o] = 0]
                 scan == radius[o] > 0 /\ radius[o] >= maxR
      <2>1. /\ k.op = "watch" /\ k.to = 0 /\ V!In(pos, V!BoxOf(k), o)
            /\ V!Apply(c, pos, r, {}, {}, scan) /\ maxR' = maxR
            BY <1>8 DEF V!Unwatch
      <2>2. Faithful(k, pos, r, Touched(k, pos, r, {}, {}))
            BY <1>1, <2>1, WatchFaithful
      <2>3. scan \in BOOLEAN /\ r \in [Objects -> Radii \union {0}]
            /\ \A w \in Objects : r[w] <= maxR'
            BY <1>2, <2>1
      <2> HIDE DEF r, scan
      <2> QED  BY <1>3, <2>1, <2>2, <2>3, ApplySound
<1> QED  BY <1>4, <1>5, <1>6, <1>7, <1>8 DEF GridActs

-----------------------------------------------------------------------------
LEMMA ViewStep ==
    V!SceneViewParams /\ OneCaller /\ (Direct => FewObjects) /\ WindowInv /\ ViewInv
        /\ [V!SVNext]_(V!vars) => ViewInv'
<1> SUFFICES ASSUME V!SceneViewParams, OneCaller, Direct => FewObjects, WindowInv, ViewInv,
                    [V!SVNext]_(V!vars)
             PROVE  ViewInv'
    OBVIOUS
<1>1. CASE UNCHANGED V!vars
      <2>1. UNCHANGED <<pos, radius, visible, maxR, batching, marked, pending, member, depth,
                        open, batch, client, lost, call>>
            BY <1>1 DEF V!vars, V!gridVars, V!batchVars, V!sceneVars
      <2>2. PICK c \in Callers : Callers = {c}  BY DEF OneCaller
      <2>3. PICK n : n = call[c]  OBVIOUS
      <2>4. /\ WindowSound(n) /\ Stands(n) /\ Carrying(n) /\ GridSound(n) /\ ClientSound(n)
            BY <2>3, InvSound
      <2>5. Stands(n)'
            BY <2>1, <2>4 DEF Stands, Still, Windowed, V!NoBatch, Opened, Opening
      <2>6. Carrying(n)'
            BY <2>1, <2>4 DEF Carrying, V!Present, V!ViewOf, V!Box, V!Shard
      <2>7. Batch' = Batch  BY <2>1 DEF Batch, V!NoBatch
      <2>8. GridSound(n)' /\ ClientSound(n)'  BY <2>1, <2>4, <2>7, ViewsStay
      <2>9. ViewTypes'  BY <2>1, InvSound DEF ViewInv, ViewTypes, Named, V!NoBatch
      <2> QED  BY <2>1, <2>3, <2>4, <2>5, <2>6, <2>8, <2>9, SoundNext
<1>2. CASE V!SVNext
      <2>1. ViewTypes /\ \A c \in Callers : WindowSound(call[c])  BY DEF ViewInv
      <2>2. ViewTypes'  BY <1>2, <2>1, ViewStepTypes
      <2>3. PICK c \in Callers :
              \/ \E op \in {"enter", "move", "watch", "leave"}, o \in Objects,
                    to \in Places \union Radii \union {0} : V!Start(c, op, o, to)
              \/ V!StartWindow(c) \/ V!EndWindow(c) \/ V!Begin(c) \/ V!Arm(c)
              \/ V!Read(c) \/ V!Retry(c) \/ GridActs(c) \/ V!Missed(c) \/ V!Mark(c) \/ V!Scan(c)
              \/ V!SetMax(c) \/ V!Dispatch(c) \/ V!Dispatched(c) \/ V!Part(c) \/ V!End(c)
              \/ V!Take(c) \/ V!Measure(c) \/ V!Refresh(c) \/ V!Close(c) \/ V!Flush(c)
            BY <1>2, ZenonT(60) DEF V!SVNext, GridActs
      <2>4. CASE \/ \E op \in {"enter", "move", "watch", "leave"}, o \in Objects,
                       to \in Places \union Radii \union {0} : V!Start(c, op, o, to)
                 \/ V!StartWindow(c) \/ V!EndWindow(c)
            BY <2>2, <2>4, StartSound
      <2>5. CASE V!Begin(c) \/ V!Arm(c)  BY <2>2, <2>5, BeginSound
      <2>6. CASE V!Read(c) \/ V!Retry(c)  BY <2>2, <2>6, ReadSound, RetrySound
      <2>7. CASE GridActs(c)  BY <2>2, <2>7, ActSound
      <2>8. CASE V!Missed(c) \/ V!Part(c) \/ V!Dispatched(c)
            BY <2>2, <2>8, DoneStepsSound, LastSound
      <2>9. CASE V!Mark(c) \/ V!Scan(c) \/ V!SetMax(c)
            BY <2>2, <2>9, MarkSound, ScanSound, SetMaxSound
      <2>10. CASE V!Dispatch(c) \/ V!End(c) \/ V!Take(c) \/ V!Measure(c)
            BY <2>2, <2>10, DispatchSound, EndSound, TakeSound, MeasureSound
      <2>11. CASE V!Refresh(c) \/ V!Close(c) \/ V!Flush(c)
            BY <2>2, <2>11, RefreshSound, CloseSound, FlushSound
      <2> QED  BY <2>3, <2>4, <2>5, <2>6, <2>7, <2>8, <2>9, <2>10, <2>11
<1> QED  BY <1>1, <1>2

LEMMA ViewStart == ASSUME V!SceneViewParams PROVE V!SVInit => ViewInv
<1> SUFFICES ASSUME V!SVInit PROVE ViewInv  OBVIOUS
<1>1. ViewTypes  BY WindowStart DEF WindowInv
<1>2. ASSUME NEW k, k = V!Idle
      PROVE  WindowSound(k) /\ Stands(k) /\ Carrying(k) /\ GridSound(k) /\ ClientSound(k)
      <2>1. /\ k.pc = "idle" /\ k.op = "none" /\ k.own = FALSE /\ k.window = 0
            /\ k.marks = {} /\ k.events = {}
            BY <1>2 DEF V!Idle
      <2>2. WindowSound(k) /\ Opened(k) = 0  BY <2>1 DEF WindowSound, Opened, Opening
      <2>3. Stands(k)  BY <2>1, <2>2 DEF Stands, Still, V!SVInit
      <2>4. Carrying(k)  BY <2>1 DEF Carrying
      <2>5. GridSound(k)  BY <2>1 DEF GridSound, V!SVInit, V!Present, ViewIn
      <2>6. Gathered(k) = {}  BY <2>1 DEF Gathered, V!SVInit
      <2>7. ClientSound(k)  BY <2>6 DEF ClientSound, Shows, V!Told, V!SVInit
      <2> QED  BY <2>2, <2>3, <2>4, <2>5, <2>7
<1>3. \A c \in Callers : call[c] = V!Idle  BY DEF V!SVInit
<1> QED  BY <1>1, <1>2, <1>3 DEF ViewInv

LEMMA ViewMeaning ==
    ASSUME OneCaller, WindowInv, ViewInv PROVE V!GridSeesAll /\ V!ClientShowsView
<1> SUFFICES ASSUME V!AtRest PROVE \A w \in Objects : visible[w] = V!InView(w) /\ V!Told[w] = V!InView(w)
    BY DEF V!GridSeesAll, V!ClientShowsView
<1>1. PICK c \in Callers : call[c].pc = "idle"  BY DEF OneCaller, V!AtRest
<1>2. Stands(call[c]) /\ Carrying(call[c]) /\ GridSound(call[c]) /\ ClientSound(call[c])
      BY InvSound
<1>3. Still /\ call[c].marks = {} /\ call[c].events = {}
      BY <1>1, <1>2 DEF Stands, Carrying, V!AtRest
<1>4. marked = {} /\ pending = {}  BY <1>3 DEF Still, WindowInv, WindowsCounted
<1>5. \A w \in Objects : visible[w] = V!InView(w)
      BY <1>2, <1>3, <1>4 DEF GridSound, V!InView, ViewIn, V!Present
<1>6. Gathered(call[c]) = {}  BY <1>3, <1>4 DEF Gathered, Still
<1>7. \A w, t \in Objects : t \in visible[w] <=> t \in V!Told[w]
      BY <1>2, <1>6 DEF ClientSound, Shows
<1>8. \A w \in Objects : V!Told[w] = visible[w]
      <2>1. visible \in [Objects -> SUBSET Objects] /\ V!Told \in [Objects -> SUBSET Objects]
            BY ToldTyped DEF ViewInv, ViewTypes
      <2> QED  BY <1>7, <2>1
<1> QED  BY <1>5, <1>8

-----------------------------------------------------------------------------
(* The members *)
Early == {"begin", "arm", "grid", "lock"}
Late == {"mark", "scan", "setmax", "dispatch", "part"}

LEMMA MembersNext ==
    ASSUME OneCaller, NEW c \in Callers, NEW n, call'[c] = n, MembersSound(n)'
    PROVE  MembersInv'
<1>1. \A d \in Callers : d = c  BY DEF OneCaller
<1>2. MembersSound(call[c])'  BY DEF MembersSound, Between
<1> QED  BY <1>1, <1>2 DEF MembersInv

LEMMA InvMembers ==
    ASSUME ViewInv, MembersInv, ~Direct, ~Strays, NEW c \in Callers
    PROVE  MembersSound(call[c])
BY DEF MembersInv

(* Nothing of the members or of what is present changes.                   *)
LEMMA MembersStay ==
    ASSUME NEW k, NEW n, MembersSound(k), UNCHANGED member,
           \A o \in Objects : V!Present(o)' <=> V!Present(o),
           Between(n) <=> Between(k), Between(k) => n.obj = k.obj /\ k.obj \in Objects,
           n.pc \in Early /\ n.op \in {"move", "watch", "leave"} => n.obj \in member
    PROVE  MembersSound(n)'
<1>1. (Between(n))' <=> Between(n)  BY DEF Between
<1>2. \A o \in Objects : (o \in member') <=> (V!Present(o)' \/ ((Between(n))' /\ o = n.obj))
      BY <1>1 DEF MembersSound
<1>3. (Between(n))' => ~V!Present(n.obj)'
      <2>1. SUFFICES ASSUME Between(k) PROVE ~V!Present(n.obj)'  BY <1>1
      <2>2. n.obj = k.obj /\ k.obj \in Objects /\ ~V!Present(k.obj)  BY <2>1 DEF MembersSound
      <2>3. ~V!Present(n.obj)  BY <2>2
      <2> QED  BY <2>2, <2>3
<1> QED  BY <1>2, <1>3 DEF MembersSound, Early, Between

LEMMA StartMembers ==
    ASSUME ~Direct, ~Strays, OneCaller, ViewInv, MembersInv, NEW c \in Callers,
           \/ \E op \in {"enter", "move", "watch", "leave"}, o \in Objects,
                 to \in Places \union Radii \union {0} : V!Start(c, op, o, to)
           \/ V!StartWindow(c) \/ V!EndWindow(c)
    PROVE  MembersInv'
<1> DEFINE k == call[c]
<1>0. PICK n : call'[c] = n  OBVIOUS
<1>1. ViewTypes /\ k \in ViewCalls /\ Carrying(k) /\ MembersSound(k)  BY InvSound, InvMembers
<1>2. pos' = pos  BY DEF V!Start, V!StartWindow, V!EndWindow, V!gridVars
<1>3. \A o \in Objects : V!Present(o)' <=> V!Present(o)  BY <1>2 DEF V!Present
<1>4. k.pc = "idle" /\ k.op = "none" /\ ~Between(k)
      <2>1. k.pc = "idle"  BY DEF V!Start, V!StartWindow, V!EndWindow, V!Goes
      <2> QED  BY <1>1, <2>1 DEF Carrying, Between
<1>5. ASSUME NEW op \in {"enter", "move", "watch", "leave"}, NEW o \in Objects, NEW to,
             V!Start(c, op, o, to)
      PROVE  MembersInv'
      <2> DEFINE stage == IF Direct \/ open THEN "grid" ELSE "begin"
      <2>1. n = [k EXCEPT !.pc = stage, !.op = op, !.obj = o, !.to = to]
            <3>1. V!Goes(c, "idle", [k EXCEPT !.pc = stage, !.op = op, !.obj = o, !.to = to])
                  BY <1>5 DEF V!Start
            <3> QED  BY <1>0, <1>1, <3>1, CallGoes
      <2>2. n.pc = stage /\ n.op = op /\ n.obj = o
            <3> HIDE DEF stage
            <3> QED  BY <1>1, <2>1 DEF ViewCalls
      <2>3. stage \in {"grid", "begin"}  OBVIOUS
      <2> HIDE DEF stage
      <2>4. CASE op = "enter"
            <3>1. o \notin member /\ member' = member \union {o}  BY <1>5, <2>4 DEF V!Start
            <3>2. ~V!Present(o) /\ ~V!Present(o)'  BY <1>1, <1>3, <3>1 DEF MembersSound
            <3>3. Between(n) /\ (Between(n))'  BY <2>2, <2>3, <2>4 DEF Between
            <3>4. MembersSound(n)'
                  BY <1>1, <1>3, <1>4, <2>2, <2>4, <3>1, <3>2, <3>3 DEF MembersSound
            <3> QED  BY <1>0, <3>4, MembersNext
      <2>5. CASE op # "enter"
            <3>1. o \in member /\ UNCHANGED member  BY <1>5, <2>5 DEF V!Start
            <3>2. ~Between(n)  BY <2>2, <2>3, <2>5 DEF Between
            <3>3. MembersSound(n)'  BY <1>1, <1>3, <1>4, <2>2, <3>1, <3>2, MembersStay
            <3> QED  BY <1>0, <3>3, MembersNext
      <2> QED  BY <2>4, <2>5
<1>6. CASE V!StartWindow(c)
      <2>1. n = [k EXCEPT !.pc = "begin", !.op = "begin"]
            BY <1>0, <1>1, <1>6, CallGoes DEF V!StartWindow
      <2>2. n.op = "begin"  BY <1>1, <2>1 DEF ViewCalls
      <2>3. ~Between(n) /\ UNCHANGED member  BY <1>6, <2>2 DEF Between, V!StartWindow, V!sceneVars
      <2>4. MembersSound(n)'  BY <1>1, <1>3, <1>4, <2>2, <2>3, MembersStay
      <2> QED  BY <1>0, <2>4, MembersNext
<1>7. CASE V!EndWindow(c)
      <2>1. n = [k EXCEPT !.pc = "end", !.window = @ - 1]
            BY <1>0, <1>1, <1>7, CallGoes DEF V!EndWindow
      <2>2. n.op = "none"  BY <1>1, <1>4, <2>1 DEF ViewCalls
      <2>3. ~Between(n) /\ UNCHANGED member  BY <1>7, <2>2 DEF Between, V!EndWindow, V!sceneVars
      <2>4. MembersSound(n)'  BY <1>1, <1>3, <1>4, <2>2, <2>3, MembersStay
      <2> QED  BY <1>0, <2>4, MembersNext
<1> QED  BY <1>5, <1>6, <1>7

LEMMA GridMembers ==
    ASSUME ~Direct, ~Strays, OneCaller, ViewInv, MembersInv, NEW c \in Callers,
           V!Begin(c) \/ V!Arm(c) \/ V!Read(c) \/ V!Retry(c) \/ V!Missed(c)
    PROVE  MembersInv'
<1> DEFINE k == call[c]
<1>0. PICK n : call'[c] = n  OBVIOUS
<1>1. ViewTypes /\ k \in ViewCalls /\ Named(k) /\ Carrying(k) /\ MembersSound(k)
      BY InvSound, InvMembers
<1>2. UNCHANGED <<pos, member>>
      BY DEF V!Begin, V!Arm, V!Read, V!Retry, V!Missed, V!gridVars, V!sceneVars
<1>3. \A o \in Objects : V!Present(o)' <=> V!Present(o)  BY <1>2 DEF V!Present
<1>4. k.pc \in Early
      BY DEF V!Begin, V!Arm, V!Read, V!Retry, V!Missed, V!Goes, Early
<1>5. ASSUME n.op = k.op, n.obj = k.obj, n.pc \in Early PROVE MembersInv'
      <2>1. Between(n) <=> Between(k)  BY <1>4, <1>5 DEF Between, Early
      <2>2. Between(k) => k.obj \in Objects  BY <1>1 DEF Between, Named
      <2>3. MembersSound(n)'
            BY <1>1, <1>2, <1>3, <1>4, <1>5, <2>1, <2>2, MembersStay DEF MembersSound, Early
      <2> QED  BY <1>0, <2>3, MembersNext
<1>6. ASSUME n.op = "none", ~Between(k) PROVE MembersInv'
      <2>1. ~Between(n)  BY <1>6 DEF Between
      <2>2. MembersSound(n)'  BY <1>1, <1>2, <1>3, <1>6, <2>1, MembersStay
      <2> QED  BY <1>0, <2>2, MembersNext
<1>7. k.op \in {"move", "watch", "leave"} => k.obj \in Objects /\ V!Present(k.obj) /\ ~Between(k)
      BY <1>1, <1>4 DEF MembersSound, Named, Between, Early
<1>8. k.op = "enter" => k.obj \in Objects /\ ~V!Present(k.obj)
      BY <1>1, <1>4 DEF MembersSound, Named, Between, Early
<1>9. ASSUME n = V!Begun(c) PROVE MembersInv'
      <2>1. CASE k.op = "begin"
            <3>1. n.op = "none"  BY <1>9, <2>1 DEF V!Begun, V!Idle
            <3> QED  BY <1>6, <2>1, <3>1 DEF Between
      <2>2. CASE k.op # "begin"
            <3>1. /\ V!Then(c, "grid") \in ViewCalls /\ V!Then(c, "grid").pc = "grid"
                  /\ V!Then(c, "grid").op = k.op /\ V!Then(c, "grid").obj = k.obj
                  BY <1>1, ThenIsCall DEF ViewPcs
            <3>2. n = [V!Then(c, "grid") EXCEPT !.own = TRUE]  BY <1>9, <2>2 DEF V!Begun
            <3>3. n.op = k.op /\ n.obj = k.obj /\ n.pc = "grid"  BY <3>1, <3>2 DEF ViewCalls
            <3> QED  BY <1>5, <3>3 DEF Early
      <2> QED  BY <2>1, <2>2
<1>10. ASSUME n = V!AfterGrid(c), k.op \notin {"enter", "leave"} PROVE MembersInv'
      <2>1. n = V!Ended(c)  BY <1>10 DEF V!AfterGrid
      <2>2. n.op = "none"  BY <2>1 DEF V!Ended, V!Idle
      <2> QED  BY <1>6, <1>10, <2>2 DEF Between
<1>11. ASSUME NEW stage \in {"arm", "grid"}, n = V!Then(c, stage) PROVE MembersInv'
      <2>1. n.pc = stage /\ n.op = k.op /\ n.obj = k.obj  BY <1>1, <1>11, ThenIsCall DEF ViewPcs
      <2> QED  BY <1>5, <2>1 DEF Early
<1>12. CASE V!Begin(c) \/ V!Arm(c)
      <2>1. n = V!Then(c, "arm") \/ n = V!Begun(c)
            BY <1>0, <1>1, <1>12, CallGoes DEF V!Begin, V!Arm
      <2> QED  BY <1>9, <1>11, <2>1
<1>13. CASE V!Retry(c)
      <2>1. n = V!Then(c, "grid")  BY <1>0, <1>1, <1>13, CallGoes DEF V!Retry
      <2> QED  BY <1>11, <2>1
<1>14. CASE V!Missed(c)
      <2>1. n = V!AfterGrid(c)  BY <1>0, <1>1, <1>14, CallGoes DEF V!Missed
      <2>2. k.op = "watch"  BY <1>7, <1>14 DEF V!Missed
      <2> QED  BY <1>10, <2>1, <2>2
<1>15. CASE V!Read(c)
      <2> DEFINE at == IF V!Present(k.obj) THEN pos[k.obj] ELSE 0
                 op == V!Names(k.op, k.obj)
      <2>1. \/ V!NothingToDo(k) /\ n = V!AfterGrid(c)
            \/ n = [k EXCEPT !.pc = "lock", !.op = op, !.limit = maxR, !.at = at]
            BY <1>0, <1>1, <1>15, CallGoes DEF V!Read
      <2>2. k.pc = "grid"  BY <1>15 DEF V!Read, V!Goes
      <2>3. op = k.op  BY <1>7, <1>8 DEF V!Names
      <2>4. V!NothingToDo(k) => k.op = "watch"  BY <1>7 DEF V!NothingToDo
      <2>5. CASE n = [k EXCEPT !.pc = "lock", !.op = op, !.limit = maxR, !.at = at]
            <3>1. n.pc = "lock" /\ n.op = op /\ n.obj = k.obj
                  <4> HIDE DEF op, at
                  <4> QED  BY <1>1, <2>5 DEF ViewCalls
            <3> QED  BY <1>5, <2>3, <3>1 DEF Early
      <2> QED  BY <1>10, <2>1, <2>4, <2>5
<1> QED  BY <1>12, <1>13, <1>14, <1>15

(* An operation of the grid brings in the object that was missing, or      *)
(* takes away the one that was there.                                      *)
LEMMA ActMembers ==
    ASSUME V!SceneViewParams, ~Direct, ~Strays, OneCaller, ViewInv, MembersInv, NEW c \in Callers,
           GridActs(c)
    PROVE  MembersInv'
<1> DEFINE k == call[c]
           o == k.obj
<1>0. PICK n : call'[c] = n  OBVIOUS
<1>1. ViewTypes /\ k \in ViewCalls /\ Named(k) /\ Carrying(k) /\ MembersSound(k)
      BY InvSound, InvMembers
<1>2. k.pc = "lock" /\ UNCHANGED member
      BY DEF GridActs, V!Enter, V!Move, V!Leave, V!Watch, V!Unwatch, V!Apply, V!Goes, V!sceneVars
<1>3. /\ o \in Objects /\ pos \in [Objects -> Places \union {None}]
      /\ k.op \in {"enter", "move"} => k.to # None
      /\ pos[o] # None => k.at = pos[o]
      BY <1>2, LockFacts
<1>4. n.op = k.op /\ n.obj = o /\ n.pc \in Late
      <2>1. ASSUME NEW p, NEW r, NEW xs, NEW self, NEW scan, V!Apply(c, p, r, xs, self, scan)
            PROVE  <1>4
            <3> DEFINE S == V!BoxOf(k)
                       W == (UNION {V!Affected(p, r, S, x) : x \in xs})
                                \union {w \in self : r[w] > 0}
                       seen == [w \in Objects |-> IF r[w] = 0 THEN {} ELSE visible[w]]
                       E == V!Events(visible, V!Refreshed(p, r, seen, W, S))
                       stage == IF scan THEN "scan" ELSE "dispatch"
            <3>1. \/ V!Goes(c, "lock", [k EXCEPT !.pc = "mark", !.marks = W, !.scan = scan])
                  \/ V!Goes(c, "lock", [k EXCEPT !.pc = stage, !.events = E])
                  BY <2>1 DEF V!Apply
            <3>2. stage \in Late  BY DEF Late
            <3> HIDE DEF W, E, stage
            <3>3. \/ n = [k EXCEPT !.pc = "mark", !.marks = W, !.scan = scan]
                  \/ n = [k EXCEPT !.pc = stage, !.events = E]
                  BY <1>0, <1>1, <3>1, CallGoes
            <3> QED  BY <1>1, <3>2, <3>3 DEF ViewCalls, Late
      <2> QED  BY <2>1 DEF GridActs, V!Enter, V!Move, V!Leave, V!Watch, V!Unwatch
<1>5. CASE V!Enter(c)
      <2>1. k.op = "enter" /\ pos' = [pos EXCEPT ![o] = k.to]  BY <1>5 DEF V!Enter, V!Apply
      <2>2. Between(k) /\ ~Between(n) /\ ~(Between(n))'
            BY <1>2, <1>4, <2>1 DEF Between, Late
      <2>3. \A w \in Objects : V!Present(w)' <=> V!Present(w) \/ w = o
            BY <1>3, <2>1 DEF V!Present
      <2>4. MembersSound(n)'
            BY <1>1, <1>2, <1>4, <2>1, <2>2, <2>3 DEF MembersSound, Late
      <2> QED  BY <1>0, <2>4, MembersNext
<1>6. CASE V!Leave(c)
      <2>1. k.op = "leave"  BY <1>6 DEF V!Leave
      <2>2. V!In(pos, V!BoxOf(k), o)
            <3>1. Direct => FewObjects  OBVIOUS
            <3> QED  BY <1>2, <2>1, <3>1, LeaveFaithful
      <2>3. pos' = [pos EXCEPT ![o] = None]  BY <1>6, <2>2 DEF V!Leave, V!Apply
      <2>4. ~Between(k) /\ Between(n) /\ (Between(n))'
            BY <1>2, <1>4, <2>1 DEF Between, Late
      <2>5. \A w \in Objects : V!Present(w)' <=> V!Present(w) /\ w # o
            BY <1>3, <2>3 DEF V!Present
      <2>6. V!Present(o)  BY <2>2 DEF V!In, V!Present
      <2>7. MembersSound(n)'
            BY <1>1, <1>2, <1>3, <1>4, <2>1, <2>4, <2>5, <2>6 DEF MembersSound, Late
      <2> QED  BY <1>0, <2>7, MembersNext
<1>7. CASE V!Move(c) \/ V!Watch(c) \/ V!Unwatch(c)
      <2>1. k.op \in {"move", "watch"}  BY <1>7 DEF V!Move, V!Watch, V!Unwatch
      <2>2. pos' = pos \/ (k.op = "move" /\ pos' = [pos EXCEPT ![o] = k.to] /\ pos[o] # None)
            BY <1>7 DEF V!Move, V!Watch, V!Unwatch, V!Apply, V!In
      <2>3. \A w \in Objects : V!Present(w)' <=> V!Present(w)
            BY <1>3, <2>2 DEF V!Present
      <2>4. ~Between(k) /\ ~Between(n)  BY <1>4, <2>1 DEF Between
      <2>5. MembersSound(n)'
            BY <1>1, <1>2, <1>4, <2>3, <2>4, MembersStay DEF Early, Late
      <2> QED  BY <1>0, <2>5, MembersNext
<1> QED  BY <1>5, <1>6, <1>7 DEF GridActs

LEMMA LaterMembers ==
    ASSUME ~Direct, ~Strays, OneCaller, ViewInv, MembersInv, NEW c \in Callers,
           V!Mark(c) \/ V!Scan(c) \/ V!SetMax(c) \/ V!Dispatch(c) \/ V!Dispatched(c) \/ V!Part(c)
    PROVE  MembersInv'
<1> DEFINE k == call[c]
<1>0. PICK n : call'[c] = n  OBVIOUS
<1>1. ViewTypes /\ k \in ViewCalls /\ Named(k) /\ Carrying(k) /\ MembersSound(k)
      BY InvSound, InvMembers
<1>2. pos' = pos
      BY DEF V!Mark, V!Scan, V!SetMax, V!Dispatch, V!Dispatched, V!Part, V!gridVars
<1>3. \A o \in Objects : V!Present(o)' <=> V!Present(o)  BY <1>2 DEF V!Present
<1>4. Between(k) => k.obj \in Objects  BY <1>1 DEF Between, Named
<1>5. ASSUME n.op = k.op, n.obj = k.obj, n.pc \in Late <=> k.pc \in Late, n.pc \notin Early,
             k.pc \notin Early, UNCHANGED member
      PROVE  MembersInv'
      <2>1. Between(n) <=> Between(k)  BY <1>5 DEF Between, Early, Late
      <2>2. MembersSound(n)'  BY <1>1, <1>3, <1>4, <1>5, <2>1, MembersStay
      <2> QED  BY <1>0, <2>2, MembersNext
<1>6. CASE V!Mark(c)
      <2> DEFINE stage == IF k.scan THEN "scan" ELSE "dispatch"
      <2>1. k.pc = "mark" /\ n = [k EXCEPT !.pc = stage, !.marks = {}]
            BY <1>0, <1>1, <1>6, CallGoes DEF V!Mark
      <2>2. stage \in {"scan", "dispatch"}  OBVIOUS
      <2>3. n.op = k.op /\ n.obj = k.obj /\ n.pc = stage
            <3> HIDE DEF stage
            <3> QED  BY <1>1, <2>1 DEF ViewCalls
      <2>4. UNCHANGED member  BY <1>6 DEF V!Mark, V!sceneVars
      <2> QED  BY <1>5, <2>1, <2>2, <2>3, <2>4 DEF Early, Late
<1>7. CASE V!Scan(c)
      <2>1. PICK m \in Radii \union {0} : V!Goes(c, "scan", [k EXCEPT !.pc = "setmax", !.limit = m])
            BY <1>7 DEF V!Scan
      <2>2. k.pc = "scan" /\ n = [k EXCEPT !.pc = "setmax", !.limit = m]
            BY <1>0, <1>1, <2>1, CallGoes
      <2>3. n.op = k.op /\ n.obj = k.obj /\ n.pc = "setmax"  BY <1>1, <2>2 DEF ViewCalls
      <2>4. UNCHANGED member  BY <1>7 DEF V!Scan, V!sceneVars
      <2> QED  BY <1>5, <2>2, <2>3, <2>4 DEF Early, Late
<1>8. CASE V!SetMax(c)
      <2>1. k.pc = "setmax" /\ n = V!Then(c, "dispatch")
            BY <1>0, <1>1, <1>8, CallGoes DEF V!SetMax
      <2>2. n.op = k.op /\ n.obj = k.obj /\ n.pc = "dispatch"
            BY <1>1, <2>1, ThenIsCall DEF ViewPcs
      <2>3. UNCHANGED member  BY <1>8 DEF V!SetMax, V!sceneVars
      <2> QED  BY <1>5, <2>1, <2>2, <2>3 DEF Early, Late
<1>9. CASE V!Dispatch(c)
      <2>1. PICK e \in k.events, stage \in {"dispatch", "last"} :
                V!Goes(c, stage, [k EXCEPT !.events = @ \ {e}])
            BY <1>9 DEF V!Dispatch
      <2>2. k.pc = stage /\ n = [k EXCEPT !.events = @ \ {e}]  BY <1>0, <1>1, <2>1, CallGoes
      <2>3. n.op = k.op /\ n.obj = k.obj /\ n.pc = k.pc  BY <1>1, <2>2 DEF ViewCalls
      <2>4. UNCHANGED member  BY <1>9 DEF V!Dispatch
      <2> QED  BY <1>5, <2>2, <2>3, <2>4 DEF Early, Late
<1>10. CASE V!Dispatched(c)
      <2>1. UNCHANGED member  BY <1>10 DEF V!Dispatched, V!sceneVars
      <2>2. CASE k.pc = "last" /\ n = V!Then(c, "close")
            <3>1. n.op = k.op /\ n.obj = k.obj /\ n.pc = "close"
                  BY <1>1, <2>2, ThenIsCall DEF ViewPcs
            <3> QED  BY <1>5, <2>1, <2>2, <3>1 DEF Early, Late
      <2>3. CASE k.pc = "dispatch" /\ n = V!Then(c, "part")
            <3>1. n.op = k.op /\ n.obj = k.obj /\ n.pc = "part"
                  BY <1>1, <2>3, ThenIsCall DEF ViewPcs
            <3> QED  BY <1>5, <2>1, <2>3, <3>1 DEF Early, Late
      <2>4. CASE k.pc = "dispatch" /\ n = V!Ended(c) /\ k.op # "leave"
            <3>1. n.op = "none"  BY <2>4 DEF V!Ended, V!Idle
            <3>2. ~Between(n) /\ ~Between(k)  BY <2>4, <3>1 DEF Between
            <3>3. MembersSound(n)'  BY <1>1, <1>3, <2>1, <3>1, <3>2, MembersStay
            <3> QED  BY <1>0, <3>3, MembersNext
      <2>5. \/ k.pc = "dispatch" /\ n = V!AfterGrid(c)
            \/ k.pc = "last" /\ n = V!Then(c, "close")
            BY <1>0, <1>1, <1>10, CallGoes DEF V!Dispatched
      <2> QED  BY <2>2, <2>3, <2>4, <2>5 DEF V!AfterGrid
<1>11. CASE V!Part(c)
      <2>1. k.pc = "part" /\ n = V!Ended(c)  BY <1>0, <1>1, <1>11, CallGoes DEF V!Part
      <2>2. n.op = "none"  BY <2>1 DEF V!Ended, V!Idle
      <2>3. k.op = "leave" /\ Between(k) /\ ~Between(n) /\ ~(Between(n))'
            BY <1>1, <2>1, <2>2 DEF Carrying, Between
      <2>4. member' = member \ {k.obj}  BY <1>11 DEF V!Part
      <2>5. \A o \in Objects : (o \in member') <=> V!Present(o)'
            BY <1>1, <1>3, <2>3, <2>4 DEF MembersSound
      <2>6. MembersSound(n)'  BY <2>2, <2>3, <2>5 DEF MembersSound
      <2> QED  BY <1>0, <2>6, MembersNext
<1> QED  BY <1>6, <1>7, <1>8, <1>9, <1>10, <1>11

LEMMA EndMembers ==
    ASSUME ~Direct, ~Strays, OneCaller, ViewInv, MembersInv, NEW c \in Callers,
           \/ V!End(c) \/ V!Take(c) \/ V!Measure(c) \/ V!Refresh(c) \/ V!Close(c) \/ V!Flush(c)
    PROVE  MembersInv'
<1> DEFINE k == call[c]
<1>0. PICK n : call'[c] = n  OBVIOUS
<1>1. ViewTypes /\ k \in ViewCalls /\ Carrying(k) /\ MembersSound(k)  BY InvSound, InvMembers
<1>2. UNCHANGED <<pos, member>>
      BY DEF V!End, V!Take, V!Measure, V!Refresh, V!Close, V!Flush, V!gridVars, V!sceneVars
<1>3. \A o \in Objects : V!Present(o)' <=> V!Present(o)  BY <1>2 DEF V!Present
<1>4. k.op = "none"
      BY <1>1 DEF V!End, V!Take, V!Measure, V!Refresh, V!Close, V!Flush, V!Goes, Carrying
<1>5. n.op = "none"
      <2>1. ASSUME NEW from, NEW l, V!Goes(c, from, l), l.op = "none" PROVE n.op = "none"
            BY <1>0, <1>1, <2>1, CallGoes
      <2>2. CASE V!End(c)
            <3> DEFINE stage == IF depth = 1 THEN "take" ELSE "idle"
                       l == [V!Idle EXCEPT !.window = k.window, !.pc = stage]
            <3>1. V!Goes(c, "end", l)  BY <2>2 DEF V!End
            <3> HIDE DEF stage
            <3>2. l.op = "none"  BY DEF V!Idle
            <3> QED  BY <2>1, <3>1, <3>2
      <2>3. CASE V!Take(c)
            <3> DEFINE stage == IF marked = {} THEN "last" ELSE "measure"
                       l == [k EXCEPT !.pc = stage, !.marks = marked, !.events = pending]
            <3>1. V!Goes(c, "take", l)  BY <2>3 DEF V!Take
            <3> HIDE DEF stage
            <3>2. l.op = "none"  BY <1>1, <1>4 DEF ViewCalls
            <3> QED  BY <2>1, <3>1, <3>2
      <2>4. CASE V!Measure(c)
            <3> DEFINE box == UNION {V!ViewOf(w) : w \in {v \in k.marks : V!Present(v)}}
                       l == [k EXCEPT !.pc = "refresh", !.box = box]
            <3>1. V!Goes(c, "measure", l)  BY <2>4 DEF V!Measure
            <3> HIDE DEF box
            <3>2. l.op = "none"  BY <1>1, <1>4 DEF ViewCalls
            <3> QED  BY <2>1, <3>1, <3>2
      <2>5. CASE V!Refresh(c)
            <3> DEFINE E == V!Over(k.events, V!Events(visible,
                                V!Refreshed(pos, radius, visible, k.marks, k.box)))
                       l == [k EXCEPT !.pc = "last", !.marks = {}, !.box = {}, !.events = E]
            <3>1. V!Goes(c, "refresh", l)  BY <2>5 DEF V!Refresh
            <3> HIDE DEF E
            <3>2. l.op = "none"  BY <1>1, <1>4 DEF ViewCalls
            <3> QED  BY <2>1, <3>1, <3>2
      <2>6. CASE V!Close(c)
            <3> DEFINE l == [k EXCEPT !.pc = "flush", !.events = Batch]
            <3>1. V!Goes(c, "close", l)  BY <2>6 DEF V!Close, Batch
            <3>2. l.op = "none"  BY <1>1, <1>4 DEF ViewCalls
            <3> QED  BY <2>1, <3>1, <3>2
      <2>7. CASE V!Flush(c)
            <3>1. V!Ended(c).op = "none"  BY DEF V!Ended, V!Idle
            <3>2. \A e \in k.events : [k EXCEPT !.events = @ \ {e}].op = "none"
                  BY <1>1, <1>4 DEF ViewCalls
            <3> QED  BY <2>1, <2>7, <3>1, <3>2 DEF V!Flush
      <2> QED  BY <2>2, <2>3, <2>4, <2>5, <2>6, <2>7
<1>6. ~Between(k) /\ ~Between(n)  BY <1>4, <1>5 DEF Between
<1>7. MembersSound(n)'  BY <1>1, <1>2, <1>3, <1>5, <1>6, MembersStay
<1> QED  BY <1>0, <1>7, MembersNext

LEMMA MembersStep ==
    V!SceneViewParams /\ OneCaller /\ ViewInv /\ MembersInv /\ [V!SVNext]_(V!vars) => MembersInv'
<1> SUFFICES ASSUME V!SceneViewParams, OneCaller, ViewInv, MembersInv, [V!SVNext]_(V!vars),
                    ~Direct, ~Strays
             PROVE  MembersInv'
    BY DEF MembersInv
<1>1. CASE UNCHANGED V!vars
      BY <1>1 DEF V!vars, V!gridVars, V!sceneVars, MembersInv, MembersSound, Between, V!Present
<1>2. CASE V!SVNext
      <2>1. PICK c \in Callers :
              \/ \E op \in {"enter", "move", "watch", "leave"}, o \in Objects,
                    to \in Places \union Radii \union {0} : V!Start(c, op, o, to)
              \/ V!StartWindow(c) \/ V!EndWindow(c) \/ V!Begin(c) \/ V!Arm(c)
              \/ V!Read(c) \/ V!Retry(c) \/ GridActs(c) \/ V!Missed(c) \/ V!Mark(c) \/ V!Scan(c)
              \/ V!SetMax(c) \/ V!Dispatch(c) \/ V!Dispatched(c) \/ V!Part(c) \/ V!End(c)
              \/ V!Take(c) \/ V!Measure(c) \/ V!Refresh(c) \/ V!Close(c) \/ V!Flush(c)
            BY <1>2, ZenonT(60) DEF V!SVNext, GridActs
      <2> QED  BY <2>1, StartMembers, GridMembers, ActMembers, LaterMembers, EndMembers
<1> QED  BY <1>1, <1>2

LEMMA MembersStart == V!SVInit => MembersInv
<1> SUFFICES ASSUME V!SVInit PROVE \A c \in Callers : MembersSound(call[c])  BY DEF MembersInv
<1> QED  BY DEF V!SVInit, MembersSound, Between, V!Idle, V!Present

LEMMA MembersMeaning ==
    ASSUME OneCaller, ViewInv, MembersInv, ~Direct, ~Strays PROVE V!GridHoldsMembers
<1>1. SUFFICES ASSUME V!AtRest PROVE \A o \in Objects : (o \in member) <=> V!Present(o)
      BY DEF V!GridHoldsMembers
<1>2. PICK c \in Callers : call[c].pc = "idle"  BY <1>1 DEF OneCaller, V!AtRest
<1>3. ~Between(call[c])  BY <1>2 DEF Between
<1> QED  BY <1>3, InvMembers DEF MembersSound

(* Grid, Scene: for any objects, places, views and sizes of the grid, when *)
(* one goroutine at a time uses the scene, whenever it is at rest every    *)
(* watcher sees what is within its radius and its client was told exactly  *)
(* that, but for the events whose publication failed; and when calls name  *)
(* members only, those are what the grid holds.                            *)
(* The grid alone, without the windows of a scene, is so for two objects:  *)
(* with three it is not.                                                   *)
THEOREM ViewsAreShown ==
    ASSUME V!SceneViewParams, OneCaller, Direct => FewObjects
    PROVE  V!SVSpec => [](/\ V!SVTypeOK /\ V!WindowsClose
                          /\ V!GridSeesAll /\ V!ClientShowsView
                          /\ (~Direct /\ ~Strays => V!GridHoldsMembers))
<1> DEFINE Inv == WindowInv /\ ViewInv /\ MembersInv
           Says == /\ V!SVTypeOK /\ V!WindowsClose /\ V!GridSeesAll /\ V!ClientShowsView
                   /\ (~Direct /\ ~Strays => V!GridHoldsMembers)
<1>1. V!SVInit => Inv  BY WindowStart, ViewStart, MembersStart
<1>2. Inv /\ [V!SVNext]_(V!vars) => Inv'  BY WindowStep, ViewStep, MembersStep
<1>3. Inv => Says  BY WindowMeaning, ViewMeaning, MembersMeaning
<1> QED  BY <1>1, <1>2, <1>3, PTL DEF V!SVSpec
=============================================================================
