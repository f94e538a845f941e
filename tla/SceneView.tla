----------------------------- MODULE SceneView -----------------------------
(***************************************************************************)
(* Who sees whom in one instance of a scene (mmo/scene.go, view_sync.go)   *)
(* over its grid (mmo/spatial/aoi/aoi.go).  The grid is cut into shards    *)
(* with a lock each; an operation locks the shards of a box and refreshes  *)
(* the watchers it finds there, or, while the grid is batching, marks them *)
(* for EndBatch.  The scene opens such a window around every operation,    *)
(* windows nest, and the outermost end publishes what has gathered.  The   *)
(* space is a line: places, cells and shards are numbered along it.        *)
(***************************************************************************)
EXTENDS Integers, FiniteSets

CONSTANTS
    Objects, None,
    Callers,        \* goroutines
    Places,         \* where an object may be
    Radii,          \* of a view
    CellSize,
    ShardSize,      \* superSize
    Direct,         \* the callers use the grid itself, without a scene
    Strays,         \* calls may name an object that is not in the scene
    MaxNested,      \* bound: windows one goroutine opens within another
    MaxLost         \* bound: events lost

SceneViewParams ==
    /\ IsFiniteSet(Callers) /\ None \notin Objects \union Callers \union Places
    /\ Places \subseteq Int /\ Radii \subseteq Nat \ {0}
    /\ CellSize \in Nat \ {0} /\ ShardSize \in Nat \ {0} /\ ShardSize % CellSize = 0
    /\ Direct \in BOOLEAN /\ Strays \in BOOLEAN /\ {MaxNested, MaxLost} \subseteq Nat

VARIABLES
    pos,            \* where an object is in the grid, or None
    radius,         \* of the view of an object, 0 if it does not watch
    visible,        \* what the grid has an object see
    maxR,           \* the largest radius, as the grid remembers it
    held,           \* the shards a caller has locked
    batching, dirty, pending, \* the grid's batch
    member,         \* instanceOf and kinds: the objects of the scene
    depth, open,    \* batchDepth and batching of the scene
    batch,          \* viewBatch: the events gathered, or NoBatch
    batchMu,        \* who publishes a batch, and holds the lock of the window
    client,         \* what the client of an object has been told to show
    lost,           \* events whose publication failed, the last of their pair (a history)
    call            \* per goroutine

gridVars == <<pos, radius, visible, maxR, held>>
batchVars == <<batching, dirty, pending>>
sceneVars == <<member, depth, open, batch, batchMu>>
vars == <<gridVars, batchVars, sceneVars, client, lost, call>>

NoBatch == {<<>>}
Idle == [pc |-> "idle", op |-> "none", obj |-> None, to |-> 0, at |-> 0, limit |-> 0,
         box |-> {}, marks |-> {}, events |-> {}, scan |-> FALSE, own |-> FALSE, window |-> 0]

SVInit ==
    /\ pos = [o \in Objects |-> None] /\ radius = [o \in Objects |-> 0]
    /\ visible = [o \in Objects |-> {}] /\ maxR = 0 /\ held = [c \in Callers |-> {}]
    /\ batching = FALSE /\ dirty = {} /\ pending = {}
    /\ member = {} /\ depth = 0 /\ open = FALSE /\ batch = NoBatch /\ batchMu = None
    /\ client = [o \in Objects |-> {}] /\ lost = {}
    /\ call = [c \in Callers |-> Idle]

-----------------------------------------------------------------------------
(* Geometry.  p and r are the places and the radii of the objects. *)
Cell(x) == x \div CellSize
Shard(x) == x \div ShardSize
Box(x, y, half) ==
    LET low == IF x < y THEN x ELSE y
        high == IF x < y THEN y ELSE x
    IN Shard(low - half)..Shard(high + half)
Near(x, y, far) == x - y <= far /\ y - x <= far
Present(o) == pos[o] # None

(* shardOf: the object is in one of the shards S. *)
In(p, S, o) == p[o] # None /\ Shard(p[o]) \in S

(* aroundInShardsInto: what watcher w sees of the shards S. *)
Sees(p, r, S, w) == {t \in Objects \ {w} : In(p, S, t) /\ Near(p[t], p[w], r[w])}

(* collectAffectedInto: the watchers in S that may see x. *)
Affected(p, r, S, x) ==
    {w \in Objects :
        /\ In(p, S, w) /\ Cell(p[w]) \in Cell(x - maxR)..Cell(x + maxR)
        /\ r[w] > 0 /\ Near(p[w], x, r[w])}

(* computeWatcherRefresh and apply, for the watchers W with the shards S.  *)
Refreshed(p, r, seen, W, S) ==
    [w \in Objects |-> IF w \in W /\ In(p, S, w) /\ r[w] > 0 THEN Sees(p, r, S, w) ELSE seen[w]]

Events(old, new) ==
    UNION {{<<w, t, "enter">> : t \in new[w] \ old[w]} \union
           {<<w, t, "leave">> : t \in old[w] \ new[w]} : w \in Objects}

(* The later events replace those of the same watcher and target.          *)
Over(older, newer) ==
    newer \union {e \in older : \A n \in newer : <<n[1], n[2]>> # <<e[1], e[2]>>}

Tell(seen, e) ==
    [seen EXCEPT ![e[1]] = IF e[3] = "enter" THEN @ \union {e[2]} ELSE @ \ {e[2]}]

(* An event is sent once; a scene only logs that its Publish failed.  A    *)
(* batch goes out watcher by watcher; here it is event by event.           *)
Deliver(e) ==
    /\ client' = Tell(client, e)
    /\ lost' = {x \in lost : <<x[1], x[2]>> # <<e[1], e[2]>>}
Drop(e) ==
    /\ ~Direct /\ Cardinality(lost) < MaxLost
    /\ lost' = Over(lost, {e}) /\ UNCHANGED client
Publish(e) == Deliver(e) \/ Drop(e)

-----------------------------------------------------------------------------
(* A call.  One that has opened a window ends it when it returns. *)
Goes(c, from, change) == call[c].pc = from /\ call' = [call EXCEPT ![c] = change]
Then(c, pc) == [call[c] EXCEPT !.pc = pc]
Ended(c) ==
    [Idle EXCEPT !.window = call[c].window, !.pc = IF call[c].own THEN "end" ELSE "idle"]

(* Where a call goes when the grid has done its part. *)
AfterGrid(c) == IF ~Direct /\ call[c].op = "leave" THEN Then(c, "part") ELSE Ended(c)

(* Scene.Enter, Move, Leave, SetViewRadius: a window of its own is opened  *)
(* unless one is open.                                                     *)
Start(c, op, o, to) ==
    /\ Goes(c, "idle", [call[c] EXCEPT !.pc = IF Direct \/ open THEN "grid" ELSE "begin",
                                       !.op = op, !.obj = o, !.to = to])
    /\ IF Direct THEN UNCHANGED member
       ELSE IF op = "enter" THEN o \notin member /\ member' = member \union {o}
       ELSE (Strays \/ o \in member) /\ UNCHANGED member
    /\ UNCHANGED <<gridVars, batchVars, depth, open, batch, batchMu, client, lost>>

(* BeginBatch and EndBatch called for a window around several operations.  *)
StartWindow(c) ==
    /\ ~Direct /\ call[c].window < MaxNested
    /\ Goes(c, "idle", [call[c] EXCEPT !.pc = "begin", !.op = "begin"])
    /\ UNCHANGED <<gridVars, batchVars, sceneVars, client, lost>>

EndWindow(c) ==
    /\ call[c].window > 0
    /\ Goes(c, "idle", [call[c] EXCEPT !.pc = "end", !.window = @ - 1])
    /\ UNCHANGED <<gridVars, batchVars, sceneVars, client, lost>>

(* Scene.BeginBatch, under batchMu; ... *)
Begun(c) == IF call[c].op = "begin" THEN [Idle EXCEPT !.window = call[c].window + 1]
            ELSE [Then(c, "grid") EXCEPT !.own = TRUE]

Begin(c) ==
    /\ batchMu = None
    /\ Goes(c, "begin", IF depth = 0 THEN Then(c, "arm") ELSE Begun(c))
    /\ depth' = depth + 1
    /\ IF depth = 0 THEN open' = TRUE /\ batch' = {} ELSE UNCHANGED <<open, batch>>
    /\ UNCHANGED <<gridVars, batchVars, member, batchMu, client, lost>>

(* ... the outermost opens the window of the grid. *)
Arm(c) ==
    /\ Goes(c, "arm", Begun(c))
    /\ batching' = TRUE
    /\ UNCHANGED <<gridVars, dirty, pending, sceneVars, client, lost>>

-----------------------------------------------------------------------------
(* The grid *)

(* Grid.Enter of an object that is there is a Move and the other way       *)
(* round.  The largest radius and the place of the object are read before  *)
(* any shard is locked.                                                    *)
Names(op, o) ==
    IF op = "enter" /\ Present(o) THEN "move"
    ELSE IF op = "move" /\ ~Present(o) THEN "enter" ELSE op

NothingToDo(k) ==
    \/ k.op \in {"leave", "watch"} /\ ~Present(k.obj)
    \/ k.op = "watch" /\ k.to = 0 /\ radius[k.obj] = 0

Read(c) ==
    LET o == call[c].obj IN
    /\ Goes(c, "grid",
            IF NothingToDo(call[c]) THEN AfterGrid(c)
            ELSE [call[c] EXCEPT !.pc = "lock", !.op = Names(@, o), !.limit = maxR,
                                 !.at = IF Present(o) THEN pos[o] ELSE 0])
    /\ UNCHANGED <<gridVars, batchVars, sceneVars, client, lost>>

(* The shards an operation locks; of the old place Move knows the cell.    *)
BoxOf(k) ==
    LET around == k.limit + CellSize IN
    CASE k.op = "enter" -> Box(k.to, k.to, around)
      [] k.op = "move" -> Box(Cell(k.at) * CellSize, k.to, around)
      [] k.op = "leave" -> Box(k.at, k.at, around)
      [] k.op = "watch" ->
            IF k.to = 0 THEN {Shard(k.at), Shard(k.at) + 1} ELSE Box(k.at, k.at, k.to)

Unlocked(c, S) == \A d \in Callers \ {c} : held[d] \intersect S = {}

(* With the shards of call c locked the grid has places p and radii r.     *)
(* The watchers that may see a place of xs, and those of self, are marked  *)
(* while the grid is batching, and what is certain then (an object that    *)
(* watches no more sees nothing) is kept for EndBatch; otherwise they are  *)
(* refreshed at once.                                                      *)
Apply(c, p, r, xs, self, scan) ==
    LET S == BoxOf(call[c])
        W == (UNION {Affected(p, r, S, x) : x \in xs}) \union {w \in self : r[w] > 0}
        seen == [w \in Objects |-> IF r[w] = 0 THEN {} ELSE visible[w]]
        now == Refreshed(p, r, seen, W, S)
    IN /\ Unlocked(c, S)
       /\ pos' = p /\ radius' = r
       /\ IF batching
          THEN /\ visible' = seen /\ pending' = pending \union Events(visible, seen)
               /\ Goes(c, "lock", [call[c] EXCEPT !.pc = "mark", !.marks = W, !.scan = scan])
               /\ held' = [held EXCEPT ![c] = S]
          ELSE /\ visible' = now /\ UNCHANGED <<pending, held>>
               /\ Goes(c, "lock", [call[c] EXCEPT !.pc = IF scan THEN "scan" ELSE "dispatch",
                                                  !.events = Events(visible, now)])
       /\ UNCHANGED <<batching, dirty, sceneVars, client, lost>>

(* The object is not where it was, or whether it is there: read again.     *)
Retry(c) ==
    LET k == call[c] IN
    /\ \/ k.op = "enter" /\ Present(k.obj)
       \/ k.op = "move" /\ ~In(pos, BoxOf(k), k.obj)
       \/ k.op = "watch" /\ k.to = 0 /\ ~In(pos, BoxOf(k), k.obj)
    /\ Unlocked(c, BoxOf(k))
    /\ Goes(c, "lock", Then(c, "grid"))
    /\ UNCHANGED <<gridVars, batchVars, sceneVars, client, lost>>

Enter(c) ==
    LET k == call[c] IN
    /\ k.op = "enter" /\ ~Present(k.obj)
    /\ Apply(c, [pos EXCEPT ![k.obj] = k.to], radius, {k.to}, {k.obj}, FALSE)
    /\ UNCHANGED maxR

MoveOldUnseen(c) ==
    LET k == call[c] IN
    /\ k.op = "move" /\ In(pos, BoxOf(k), k.obj)
    /\ Apply(c, [pos EXCEPT ![k.obj] = k.to], radius, {k.to}, {k.obj}, FALSE)
    /\ UNCHANGED maxR

Move(c) ==
    LET k == call[c] IN
    /\ k.op = "move" /\ In(pos, BoxOf(k), k.obj)
    /\ Apply(c, [pos EXCEPT ![k.obj] = k.to], radius, {pos[k.obj], k.to}, {k.obj}, FALSE)
    /\ UNCHANGED maxR

(* An object that has moved out of the shards that are locked stays.       *)
Leave(c) ==
    LET o == call[c].obj
        here == In(pos, BoxOf(call[c]), o)
    IN /\ call[c].op = "leave" /\ Present(o)
       /\ Apply(c, IF here THEN [pos EXCEPT ![o] = None] ELSE pos,
                   IF here THEN [radius EXCEPT ![o] = 0] ELSE radius,
                   {IF here THEN pos[o] ELSE call[c].at}, {},
                   here /\ radius[o] > 0 /\ radius[o] >= maxR)
       /\ UNCHANGED maxR

Watch(c) ==
    LET k == call[c] IN
    /\ k.op = "watch" /\ k.to > 0 /\ In(pos, BoxOf(k), k.obj)
    /\ Apply(c, pos, [radius EXCEPT ![k.obj] = k.to], {}, {k.obj},
             k.to <= maxR /\ radius[k.obj] >= maxR /\ k.to < radius[k.obj])
    /\ maxR' = IF k.to > maxR THEN k.to ELSE maxR

Unwatch(c) ==
    LET k == call[c] IN
    /\ k.op = "watch" /\ k.to = 0 /\ In(pos, BoxOf(k), k.obj)
    /\ Apply(c, pos, [radius EXCEPT ![k.obj] = 0], {}, {},
             radius[k.obj] > 0 /\ radius[k.obj] >= maxR)
    /\ UNCHANGED maxR

(* Leave finds the object gone, Watch that it is no longer there. *)
Missed(c) ==
    LET k == call[c] IN
    /\ \/ k.op = "leave" /\ ~Present(k.obj)
       \/ k.op = "watch" /\ k.to > 0 /\ ~In(pos, BoxOf(k), k.obj)
    /\ Unlocked(c, BoxOf(k))
    /\ Goes(c, "lock", AfterGrid(c))
    /\ UNCHANGED <<gridVars, batchVars, sceneVars, client, lost>>

MarkAlways(c) ==
    /\ Goes(c, "mark", [call[c] EXCEPT !.pc = IF call[c].scan THEN "scan" ELSE "dispatch", !.marks = {}])
    /\ dirty' = dirty \union call[c].marks
    /\ held' = [held EXCEPT ![c] = {}]
    /\ UNCHANGED <<pos, radius, visible, maxR, batching, pending, sceneVars, client, lost>>

(* markDirty: nothing, when the batch has ended meanwhile. *)
Mark(c) ==
    /\ Goes(c, "mark", [call[c] EXCEPT !.pc = IF call[c].scan THEN "scan" ELSE "dispatch", !.marks = {}])
    /\ dirty' = IF batching THEN dirty \union call[c].marks ELSE dirty
    /\ held' = [held EXCEPT ![c] = {}]
    /\ UNCHANGED <<pos, radius, visible, maxR, batching, pending, sceneVars, client, lost>>

(* recomputeMaxRadiusAll: with all shards locked for reading, ... *)
Largest(m) == (\E o \in Objects : radius[o] = m) /\ \A o \in Objects : radius[o] <= m
Scan(c) ==
    \E m \in Radii \union {0} :
        /\ Largest(m) /\ \A d \in Callers : held[d] = {}
        /\ Goes(c, "scan", [call[c] EXCEPT !.pc = "setmax", !.limit = m])
        /\ UNCHANGED <<gridVars, batchVars, sceneVars, client, lost>>

(* ... and then stored. *)
SetMax(c) ==
    /\ Goes(c, "setmax", Then(c, "dispatch"))
    /\ maxR' = call[c].limit
    /\ UNCHANGED <<pos, radius, visible, held, batchVars, sceneVars, client, lost>>

(* dispatch calls the observer, onViewChange, for one event after another. *)
Observe(e) ==
    IF Direct \/ batch = NoBatch
    THEN Publish(e) /\ UNCHANGED batch
    ELSE batch' = Over(batch, {e}) /\ UNCHANGED <<client, lost>>

Dispatch(c) ==
    /\ \E e \in call[c].events :
        /\ \E pc \in {"dispatch", "last"} :
            Goes(c, pc, [call[c] EXCEPT !.events = @ \ {e}])
        /\ Observe(e)
    /\ UNCHANGED <<gridVars, batchVars, member, depth, open, batchMu>>

Dispatched(c) ==
    /\ call[c].events = {}
    /\ Goes(c, "dispatch", AfterGrid(c)) \/ Goes(c, "last", Then(c, "close"))
    /\ UNCHANGED <<gridVars, batchVars, sceneVars, client, lost>>

-----------------------------------------------------------------------------
(* The end of a window *)

(* Scene.Leave: the object is no longer a member. *)
Part(c) ==
    /\ Goes(c, "part", Ended(c))
    /\ member' = member \ {call[c].obj}
    /\ UNCHANGED <<gridVars, batchVars, depth, open, batch, batchMu, client, lost>>

(* Scene.EndBatch: ... *)
End(c) ==
    /\ batchMu = None
    /\ Goes(c, "end", [Idle EXCEPT !.window = call[c].window,
                                    !.pc = IF depth = 1 THEN "take" ELSE "idle"])
    /\ depth' = IF depth = 0 THEN 0 ELSE depth - 1
    /\ UNCHANGED <<gridVars, batchVars, member, open, batch, batchMu, client, lost>>

(* ... the outermost ends the batch of the grid: what is marked is taken,  *)
Take(c) ==
    /\ Goes(c, "take", [call[c] EXCEPT !.pc = IF dirty = {} THEN "last" ELSE "measure",
                                       !.marks = dirty, !.events = pending])
    /\ batching' = FALSE /\ dirty' = {} /\ pending' = {}
    /\ UNCHANGED <<gridVars, sceneVars, client, lost>>

(* the shards of every view are found and locked (lockDirtyShards), and    *)
ViewOf(w) ==
    IF radius[w] = 0 THEN {Shard(pos[w])} ELSE Box(pos[w], pos[w], radius[w])
Measure(c) ==
    LET there == {w \in call[c].marks : Present(w)} IN
    /\ Unlocked(c, {Shard(pos[w]) : w \in there})
    /\ Goes(c, "measure", [call[c] EXCEPT !.pc = "refresh", !.box = UNION {ViewOf(w) : w \in there}])
    /\ UNCHANGED <<gridVars, batchVars, sceneVars, client, lost>>

(* the views are refreshed.                                                *)
Refresh(c) ==
    LET now == Refreshed(pos, radius, visible, call[c].marks, call[c].box) IN
    /\ Unlocked(c, call[c].box)
    /\ visible' = now
    /\ Goes(c, "refresh", [call[c] EXCEPT !.pc = "last", !.marks = {}, !.box = {},
                                          !.events = Over(@, Events(visible, now))])
    /\ UNCHANGED <<pos, radius, maxR, held, batchVars, sceneVars, client, lost>>

(* Then the window is closed; batchMu is kept while what has gathered is   *)
(* published.                                                              *)
Close(c) ==
    /\ batchMu = None
    /\ Goes(c, "close", [call[c] EXCEPT !.pc = "flush",
                                        !.events = IF batch = NoBatch THEN {} ELSE batch])
    /\ open' = FALSE /\ batch' = NoBatch /\ batchMu' = c
    /\ UNCHANGED <<gridVars, batchVars, member, depth, client, lost>>

Flush(c) ==
    \/ /\ \E e \in call[c].events :
            /\ Goes(c, "flush", [call[c] EXCEPT !.events = @ \ {e}])
            /\ Publish(e)
       /\ UNCHANGED <<gridVars, batchVars, sceneVars>>
    \/ /\ call[c].events = {} /\ Goes(c, "flush", Ended(c)) /\ batchMu' = None
       /\ UNCHANGED <<gridVars, batchVars, member, depth, open, batch, client, lost>>

SVNext ==
    \E c \in Callers :
        \/ \E o \in Objects :
            \/ \E p \in Places : Start(c, "enter", o, p) \/ Start(c, "move", o, p)
            \/ \E r \in Radii \union {0} : Start(c, "watch", o, r)
            \/ Start(c, "leave", o, 0)
        \/ StartWindow(c) \/ EndWindow(c) \/ Begin(c) \/ Arm(c)
        \/ Read(c) \/ Retry(c) \/ Enter(c) \/ Move(c) \/ Leave(c) \/ Watch(c) \/ Unwatch(c)
        \/ Missed(c) \/ Mark(c) \/ Scan(c) \/ SetMax(c) \/ Dispatch(c) \/ Dispatched(c)
        \/ Part(c) \/ End(c) \/ Take(c) \/ Measure(c) \/ Refresh(c) \/ Close(c) \/ Flush(c)
SVSpec == SVInit /\ [][SVNext]_vars

-----------------------------------------------------------------------------
(* Properties *)
SVTypeOK ==
    /\ pos \in [Objects -> Places \union {None}] /\ radius \in [Objects -> Radii \union {0}]
    /\ visible \in [Objects -> SUBSET Objects] /\ client \in [Objects -> SUBSET Objects]
    /\ maxR \in Radii \union {0} /\ depth \in 0..((MaxNested + 1) * Cardinality(Callers))
    /\ member \subseteq Objects /\ dirty \subseteq Objects

AtRest == depth = 0 /\ \A c \in Callers : call[c].pc = "idle"

InView(w) ==
    IF Present(w) /\ radius[w] > 0
    THEN {t \in Objects \ {w} : Present(t) /\ Near(pos[t], pos[w], radius[w])} ELSE {}

(* Grid.Watch, Enter, Move, Leave: when no call is under way, a watcher    *)
(* sees what is within its radius.                                         *)
GridSeesAll == AtRest => \A w \in Objects : visible[w] = InView(w)

(* onViewChange, flushViewBatch: and its client was told exactly that, but *)
(* for the events that were lost.                                          *)
Told == [w \in Objects |->
    {t \in Objects : <<w, t, "enter">> \in lost \/ (t \in client[w] /\ <<w, t, "leave">> \notin lost)}]
ClientShowsView == AtRest => \A w \in Objects : Told[w] = InView(w)

(* Scene.EndBatch: no window, mark or event is left behind.                *)
WindowsClose ==
    AtRest => ~open /\ ~batching /\ batch = NoBatch /\ dirty = {} /\ pending = {}

(* Enter, Leave: the objects of the scene are those of its grid.           *)
GridHoldsMembers == AtRest => \A o \in Objects : (o \in member) <=> Present(o)
=============================================================================
