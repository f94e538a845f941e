# Formal models of the Clover server engine

TLA+ models, TLC runs and TLAPS proofs for the Go game-server engine in this
repository. A deployment is a set of processes playing roles: *Gateway* (client
connections), *Game* (logic, scenes, rooms, player data), *Master* (node table,
player location, ranks, session tokens, room ownership), *Log* and *Auth*. They
talk over NATS (events, request/reply), TCP (clients of master, auth and log),
etcd (discovery, global store) and keep data in MySQL and Redis. Everything that
makes the engine hard to test lives between these processes, or between the
goroutines of one: lost calls, crashes, retries, handlers that use two locks in
two steps, callbacks that arrive after the world has moved on.

Contents: 1 inventory - 2 plan - 3 modules and the code - 4 runs, bounds and
fairness - 5 proofs - 6 what the code does that its comments exclude -
7 observations without a run - 8 what is not modelled.

## 1. Inventory

`PROJECT.json` lists every component with its files. The ones with state and
concurrency of their own; the last column names the module, or says "left":

| Component | State it keeps | Operations | Interacts with | What makes it correct | Module |
|---|---|---|---|---|---|
| Reliable cross-node delivery (`internal/transport/event/crossnode*.go`, `shared/retry`) | pending table, closed flag and WaitGroup, live-node cache | Send, SendSync, deliver (attempts, backoff), onRemoteEvent, retryDeadLetter, Close | NATS, deduper, dead letters, the master's node table | acknowledged means handled; twice only after forgetting; bounded in flight; every delivery ends; a failure leaves a trace; Close waits | `CrossNodeDelivery` |
| Per-player send queue (`crossnode.go`) | table of queues, each with a channel, stop and drained | SendQueueEventToPlayer, getKeyQueue, retireKeyQueue, runKeyQueue, drainKeyQueue, Close | delivery above | every call returns with the truth; order per player; no worker left | `KeyQueue` |
| Dead-letter queue (`deadletter.go`) | slice with a dead head, index by MsgID | Push, List, Retry, Remove | delivery, admin HTTP | nothing lost but the oldest of a full queue; index exact | `MemoryDLQ`, `DeadLetters` |
| Graceful drain (`app/drain.go`) | running, options, migrated set, cancel channel, draining mirror, flow lock | Drain, CancelDrain, run, finish | connections, heartbeat module, master | never half dead; a drain ends; every drain has its goroutine | `Drain` |
| Master directory (`master/state`) | nodes, type and tag index, players, players per node, metric | RegisterNode, RemoveNode, RegisterPlayer, RemovePlayer, queries | failure detector, clients | indexes exact; a location never outlives its node | `Directory` |
| Failure detection (`master/failover`, `server/health.go`, heartbeats) | per-node entry and last beat | Track, Heartbeat, Scan, Untrack, callbacks | directory, nodes | a dead node is evicted, a live one stays or comes back | `NodeHealth` |
| Room ownership and takeover (`domain/room`) | master: owner and staged state per room; node: pending, imported and importing marks, kernel rooms | Register, Unregister, Reassign, SaveTakeoverState, ClaimWithState, EnsureRoom, JoinRoom, DestroyRoom, Activate | frame kernel, master RPC | one owner; a transferred state is in one place and is imported once; a takeover ends | `RoomTakeover` |
| Data store (`domain/data/cache.go`, `mmo_cache.go`, `data.go`, `mmo.go`, `player_online.go`) | memory LRU shards, dirty marks, online set, Redis, MySQL | save, load, delete, Flush, FlushPlayer, SetOffline, eviction | MySQL, Redis, player leave | the last saved value is somewhere durable or marked; no older one replaces it; it reaches MySQL | `DataStore` |
| Synchronised records (`record.go`, `sync.go`) | rows, changed rows, deletions, known rows | AddRow, SetCell, DeleteRow, Clear, AddColumn, Changes, MarkClean, broadcast | push, client's copy | the copy converges to the table | `RecordSync` |
| Gateway admission and queue (`gwcore/session.go`, `queue.go`) | sessions, count, queue, watchers, timers | admit, offer, release, requeue, timeout, stop | client transports, logic server | limits kept, first frame first, nobody waits for ever | `GatewayQueue` |
| Gateway sessions (`gwcore/session.go`, `gwcore.go`) | session table, indexes by account and player, graces | login replies, kick, bind, cleanup, hard disconnect, control messages | event bus, game | one session per account, indexes exact, an end told once | `GatewaySession` |
| Connection bags (`app/connection.go`) | bags of live and of parked connections | BeforeDispatch, ParkBag, RestoreBag, DeleteBag, expiry | gateway events | a bag has one holder; the timer of one park never ends another | `ConnectionBags` |
| Player location (`app/game.go`, `player_client.go`) | local note, data layer's online mark | registration on a message, the disconnect handler, takeover | directory, gateway, data store | who is here can be found | `PlayerPresence` |
| Frame room (`room/frame/room.go`) | players, pending inputs, frame, history, snapshot, loop generation | Join, Leave, Input, step, Reconnect, Export, Import, Start, Stop | takeover, push | only members have state; recovery has no hole; frames go on | `FrameRoom` |
| State room (`pkg/domain/room/state_sync.go`) | seats, host, versions, watchers | join, leave, SetReady, SetRunning, Watch, FlushWatchers, Close | push | a host exactly while someone sits; a watcher ends on the newest list | `StateRoom` |
| Timers (`pkg/runtime/timer`) | heap, entries, tables by name, by scope, registry of tasks | Every, Once, Cron, named and scoped, StopScope, StopAll, Close, Export, Import | rooms, players, scenes | after a stop no timer is left that no table leads to | `TimerScheduler` |
| Scenes and area of interest (`mmo/scene.go`, `view_sync.go`, `spatial/aoi`) | grid in shards, views, batches, windows | Enter, Move, Leave, SetViewRadius, Watch, Unwatch, BeginBatch, EndBatch | push | clients show what is within their radius; no window stays open | `SceneView` |
| Transfers between scenes (`mmo/scenemanager.go`, `cluster.go`, `transport/remotexfer.go`) | where an object is, versions, table of routes | Transfer, TransferRemote, HandleRemoteTransfer, refresh, DestroyScene | NATS, global store | an object is in one place | `SceneTransfer` |
| Deduplication (`dedup.go`) | recency list, map, TTL | Seen, Contains | delivery | remembers the last N ids for the TTL | as a set, in `CrossNodeDelivery` |
| Event kernel (`logic.go`, `pkg/transport/event`) | handlers, hooks, subscribers | On, Emit, dispatch | all of a game process | each handler once, a panic stays in its handler | left |
| Ranks (`memrank`, `master/state`) | boards, thresholds | Set, Incr, Backup, Restore | Redis | order and rank agree; restore is all or nothing | left |
| Session tokens (`sessiontoken`) | remote token, local copy with expiry | New, Validate, Refresh, Delete | master | a replaced token is not accepted again | left |
| Identifier generation (`object/idgen`) | stored ceiling per node, segment in memory | Next, Reserve, restart | data store | no number handed out twice, over a crash too | `IdGenerator` |
| Async pool (`runtime/async/pool.go`) | channel, names, closed flag, context per start | Start, Submit, Kill, Stop, worker loop | whoever submits | an accepted task ends; a refused one never runs; a name leads to its task | `AsyncPool` |
| Service discovery (`transport/etcd`, `app/discovery.go`, `node_registry.go`, `node_directory.go`) | key with its lease, the process's lease; the resolver's list and watch | Register, keep-alive loop, reregister, cleanup, Close; start, refresh, watchLoop | etcd | who runs is listed, who is gone is not, the list is brought up to date | `Discovery` |
| Log shipping (`logbuf`), global store, semaphore, caches | bounded buffers, versions | push, drain, CAS, acquire | - | bounds, no loss but the counted one | left |

The behaviours that are hard, each listed under `hazards` at its line: a receiver
that crashes between a dispatch and the registration of its id; a worker that
retires while a caller holds its queue; a scan that evicts a node whose heartbeat
is being handled; a cancel whose second half meets the next drain; a room given
away while its owner may still claim it; a reply lost after the master acted; a
flush, an eviction and a save that meet on one key; a change between the reading
and the clearing of dirty marks; a frame that overtakes the queue; a login that
overlaps the end of its connection; a room that is exported while its applier
runs; windows that nest over a grid that marks instead of telling; a transfer back
that overtakes the transfer; a task that enters a channel nobody reads any more; a
lease that ends while its successor is being granted.

## 2. Plan

Order: what loses or duplicates players' state first.

| # | Module | Composes / refines | Status |
|---|---|---|---|
| 1 | `CrossNodeDelivery`, `CrossNodeDeliveryProof` | sender, network, receiver, dead letters | written, proved |
| 2 | `KeyQueue`, `QueuesProof` | callers, queues, workers, Close | written, proved |
| 3 | `MemoryDLQ`, `QueuesProof` | refines `DeadLetters` | written, proved |
| 4 | `Drain`, `ConnectionsProof` | operators, orchestrating goroutines, connections | written, proved |
| 5 | `Directory`, `NodeHealth`, `NodeHealthProof` | `NodeHealth` extends and refines `Directory` | written, proved |
| 6 | `RoomTakeover`, `RoomTakeoverProof` | registry, modules, managers, kernel | written, proved |
| 7 | `DataStore`, `GameStateProof` | handlers, flushers, evictions over memory, Redis, MySQL | written, proved |
| 8 | `RecordSync` | table, publisher, the client's copy | written |
| 9 | `GatewayQueue`, `GatewaySession`, `ConnectionsProof` | readers, release loop, timers; replies, ends, control messages | written, proved |
| 10 | `FrameRoom`, `StateRoom`, `ClusterProof` | tick loops and the applier outside the lock; seats and watchers | written, proved |
| 11 | `ConnectionBags`, `PlayerPresence`, `ConnectionsProof` | `PlayerPresence` extends `Directory` | written; the bags proved |
| 12 | `TimerScheduler`, `QueuesProof` | registrations, stops, migration | written, proved |
| 13 | `SceneView`, `SceneTransfer`, with `GameStateProof`, `ClusterProof` | scene over grid; scenes over nodes | written, proved |
| 14 | `IdGenerator`, `AsyncPool`, `Discovery`, with `GameStateProof`, `QueuesProof`, `ClusterProof` | store and generators; callers and workers; processes, etcd, resolver | written, proved |
| 15 | `SessionTokens`, `Ranks`, `GlobalStore`, `LogBuffer`, `Dedup`, the event kernel, the visual system | small modules, parts of the run `steps` | left |

`StepsProof` carries the theorems of the parts over to the properties of the run `steps`.

All modules take their parameters as CONSTANTS with a named assumption, have one
action per step of the code and no RECURSIVE operator, so that each can be
proved about as well as checked.

## 3. Modules and the code

An action is one critical section, one call or one wait of the code. Where a
function releases a lock, waits for a channel or calls another process, it is cut
into several actions and others may run in between. Operators marked `Mutation:`
are plausible bugs: `PROJECT.json` pairs each with the property it breaks.

**CrossNodeDelivery** - `pc[m]` is the program counter of `deliver` for message
m: `sending` (Send's two closed tests around `wg.Add`), `starting` (the attempt's
first test and `pending.add`), `attempting`, `waiting` for the reply, `backoff`
in `retry.Do`, then `acked`, `rejected`, `canceled`, `expired`, `dead` or
`refused`; `clearing` is a dead letter's record being removed after its
redelivery. The network (`wire`, `reply`) may lose a request or a reply; a late
reply finds no inbox. The receiver deduplicates, dispatches, registers and
answers; it may crash between dispatch and registration, and its deduper forgets
by capacity, TTL or crash. `Deliver` is what the sender's goroutine does by
itself; loss, crash and cancellation are outside it.

**KeyQueue** - one player, any number of callers. `table` is the entry of the
player in the bus's map, `ch`, `stop`, `worker`, `job` the queue's channel,
channels and goroutine, per generation of the queue. `condemned` remembers what
Close has to stop. `Enqueue` and `Await` are the two selects of
SendQueueEventToPlayer, `Retire` the idle test under the map's lock, `SeeStop`
and `Exit` the drain.

**DeadLetters / MemoryDLQ** - the first is the promise: a sequence of records,
newest last, at most `Capacity`, the oldest displaced. The second is the code:
a slice, a `head` before which slots are dead, an index of positions, the
compaction of a full queue, removal of the oldest (advance head) and from the
middle (shift and re-index). The refinement maps `queue` to the live part.

**Drain** - `op[o]` is where an operator's Drain or CancelDrain stands,
`run[r]` where an orchestrating goroutine stands; `flowMu` the lock that orders
stopping and restoring traffic; `cancel` names the channel the field holds and
`closedChs` the closed ones, because the code reads the field anew at each
select. Deadline and hard timeout are actions.

**Directory / NodeHealth** - `Directory` is `state.State` under its lock, the
two node indexes, the reverse index of players and the metric kept by the code
incrementally. `NodeHealth` adds the detector, whose lock is another one:
`rpc[n]` is the handler's second step (track, untrack, heartbeat), `doomed` what
a Scan found dead and has not yet reported, `evicting` the removal whose own
callback has not yet run.

**RoomTakeover** - one room. Registry (`owner`, `staged`), transfers in two
critical sections (`TransferSave`, `TransferReassign`), per node the kernel's
room (`room`, `closing`) and the takeover manager (`pending`, `imported`,
`importing`). `pc[c]` walks a goroutine through EnsureRoom, JoinRoom's
EnsureOwner, DestroyRoom or an operation, each of which runs Activate. Of a
room's state only its line of descent is kept, which is what tells a lost, a
duplicated and a rolled-back state apart.

**DataStore** - one key of one player under the two tiers that persist. A value
is the number of the save that wrote it, so "older" is "smaller". A goroutine's
`pc` walks it through save, load, delete, FlushPlayer and SetOffline, the flush
round, or the eviction other keys of the shard cause; `persistDirty` is the
common routine (clear the mark, read, write MySQL, restore the mark if it
failed), entered from four places, hence `back`. Calls of Redis and MySQL may
fail. `newest` is a history: the value the business believes in. `overlap` is one too:
it is set when calls meet that the store does not keep apart, which are a write of
the key that begins, or an eviction of its entry, while another write of it is under
way; an eviction before the save has marked its entry; and a load that finds the entry
gone because it is being evicted.

**RecordSync** - a row is one cell, the width stands for the columns. `dirty`,
`deleted`, `known`, `cleared`, `full` are the record's bookkeeping. `pc` walks a
publisher through the two ways the code has: Changes, broadcast, MarkClean (after a
failed broadcast the marks stay), or CommitDiff, which marks clean first, and the
push. `CleanUnpublished` is MarkClean by those who have published nothing or failed
to. Others write at any step; a patch is `stale` once they have. `flight` holds the
patches under way, in order, and `copy` is the client's table, to which a patch is
applied as its comment prescribes. A client told only that all has changed has
`NoTable` and fetches one; one whom changes have missed, or reached twice, has
`AnyTable` from then on, of which nothing is claimed until a whole table reaches it.

**GatewayQueue** - `at[c]` walks a connection's reader through admit, createSession
and offer, and the release loop through release and requeue; `items` is the
ring with its empty slots, `pending` the index, `watch` and `armed` the
goroutine and the timer of each queued connection, `counter` the atomic count,
which the code adjusts at other moments than the table. `stop` is how far Stop
has come. A panic in a timer or watcher is a state of the model (`crashed`,
`locked`), since the code can reach it.

**GatewaySession** - the reply of a login (`reply`), the end of a connection
(`clean`, `hard`) and a control message (`ctl`) run in goroutines of their own
over the session table and four indexes with a lock each. `announced`,
`cancelled` and `gone` count the events the game has been told. A panic leaves
the lock it held (`stuck`).

**FrameRoom** - `room` is what ExportState copies; the tick loop of generation g
holds a `job` from the moment it has taken frame and inputs until it has merged
the applier's result, and several loops may be alive because a stopped one is
only told so by its channel. A player's state is the frame and the lineage of the
result last merged, an import starts a new lineage.

**StateRoom** - `seats`, `crown` (the IsHost marks) and `host` are kept apart as
the code keeps them; `version` counts changes of the room list. A list pushed to
a watcher is `todo` of a caller until it was delivered and recorded; `got` is the
history of what came.

**ConnectionBags** - `bag` and `pending` are the two concurrent maps, `hand` a
bag that RestoreBag has taken out of one and not stored in the other, `settled`
and `timer` the parts of a parked record. Message, disconnect, expiry and deletion
of a connection are goroutines of their own. `del` walks DeleteBag from the record it
has found to the removal of whatever is pending under its key by then.

**PlayerPresence** - extends `Directory`: `msg` and `leave` walk the
BeforeDispatch hook and the disconnect handler of a connection through the
directory, the local note and the data layer's mark; `link` is the gateway as
the game sees it.

**TimerScheduler** - `timer[i]` is where timer i is (being made, in the heap,
popped, gone) and whether it is off; `byName`, `byScope`, `nameLoc` and `reg` are the
four tables. `call[c]` holds the stoppers a goroutine has collected under the
lock and calls outside it.

**SceneView** - on a line: `pos`, `radius`, `visible` are the grid's, `held` the
shards an operation has locked (the box, and a second one when the largest radius
grew meanwhile), `dirty` and `pending` what it marked while batching; `member`,
`depth`, `batch` the scene's, `client` what the client shows, `lost` the events whose
publication failed and that no later one of the same pair replaced: the code logs
them and does not send them again. `Direct` drops the scene and uses the grid as other
callers do.

**SceneTransfer** - one object. `member` are the scenes that have it, `objScene`
where each manager believes it, `call[g]` the TransferRemote of goroutine g at its node
(several may be in one, nothing keeps them apart), `recv[n]` node n's
HandleRemoteTransfer, `wire` the instructions under way, `route` the table with
entries that run out. `crossed` is a history: a call of a node has met another that
had sent the object, or taken it out. The critical section that Enter holds while it takes
the manager's lock twice is two actions, and `Unlocked` keeps others out of it.

**IdGenerator** - one type of objects on several nodes. A call of the sequencer
holds its lock to the end, the store's answer included, and is one action: `Take`
loads what is stored, hands out from the segment in memory or reserves a new one.
`Limit` stands for the greatest uint64, `MaxCounter` for what fits beside the node;
a save that fails may have taken effect or not. Three histories tell the cases apart:
`unsaved`, the nodes whose last save did nothing, `forgot`, those whose process ended
like that, and `repeated`, those that gave a number a second time.

**AsyncPool** - `sub[t]` walks a call of Submit from its look at `closed` to the
second look in reclaimIfClosed, `stop` walks Stop through its two drains, `worker[w]`
a goroutine through loop and runItem. Each Start makes a channel and a context of
its own, so a call that has seen an older one keeps it: `of[t]` and `cut` are by
generation. A result is what Wait returns.

**Discovery** - etcd is leases by number, the key's lease, a revision and the
oldest one that is not compacted. `phase[p]` walks a process through Grant, Put,
KeepAlive and the ways back, `again` tells reregister from Register; `lease` is
what the loop keeps alive and `fresh` what the attempt was granted. The resolver
reads (`seen`) and watches (`view`, `lastRev`, `pos`). Each call may fail, with or
without effect, and a Delete may take effect late. `gap` is a history: the list
may be stale and nothing more will be told.

**MCSteps, MCProgress** - two suites. Each behaviour belongs to one component,
chosen in Init and named by `part`; the variables v1, v2, ... are that component's
in the order its module declares them, the remaining ones are blank. A property of
a suite is `part = "x" => X!Property`, or several. In this way the state spaces add
up instead of multiplying, and one TLC run checks them all.

## 4. Runs, bounds and fairness

| Run | Shows | Bounds |
|---|---|---|
| `crossnode` | at-least-once, duplicates only after forgetting, Close waits, dead letters are kept; in the quiet setting every accepted delivery ends | 2 messages, 2 attempts, capacities 1; one refused event and 1 crash in the faulty setting |
| `node_health` | directory exact and refined, a player goes with his node, dead nodes are evicted | 2 nodes, 2 types, 1 tag, 1 player, dead after 2 ticks; one node registers twice |
| `room_takeover` | single flight, state in one place, no seizure, a takeover ends | 2 nodes, 3 goroutines (two on one node), 1 transfer, 1 lost call or crash |
| `steps` | safety of sixteen components, next table | next table |
| `progress` | eight components get there in the end | KeyQueue, GatewayQueue, FrameRoom, StateRoom, DataStore, PlayerPresence, Drain, as in `steps` or smaller; Discovery with one process and 2 faults |
| `crossnode_timeout_trace` | finding 1 | 1 message |
| `key_queue_single_worker` | finding 2 | 2 calls |
| `drain_idle` | finding 3 | 4 calls |
| `node_rejoin` | finding 4 | 1 node |
| `room_own_state` | finding 5 | 1 goroutine, no fault |
| `store_evicted` | finding 6 | one handler, one evictor |
| `timer_restart` | finding 7 | 1 goroutine, 2 scopes |

The parts of `steps`:

| Part | Property | Instance |
|---|---|---|
| `dlq` | `ImplementsDeadLetters` | capacity 3, 4 ids, 6 slots |
| `jobs` | `QueueIsHonest` | 3 calls, channel of 1, 2 generations |
| `drain` | `NotHalfDead` | 2 operators, 3 calls, 3 goroutines, 1 connection, modes migrate and hybrid with stop |
| `store` | `NewestIsSafe`, `LoadIsFresh` | 1 handler, flusher and evictor, both tiers, 3 saves, 2 failed calls |
| `records` | `CopyFollowsTable` | 2 rows, 2 values, width 2, 1 patch under way, writes and cleaning at any step |
| `queue` | `PlacesAreCounted` | 2 connections, 1 place, queue of 1, 2 frames, 1 failed dial |
| `session` | `SessionsAreTracked` | 2 connections, 2 accounts, 2 players, 2 logins, 1 command |
| `frame` | `RoomIsWhole` | 2 players, 3 frames, 3 loops, history 2, snapshot every 2 |
| `state` | `RoomListIsSound` | 2 humans and a bot for 2 seats, 1 watcher, version 3, 1 failed push |
| `bags` | `BagHasOneHolder`, `GraceIsKept` | 2 connections, 2 bags each |
| `timers`, `crons` | `TimersAreReached` | 2 goroutines, 2 scopes sharing a name, 3 timers; 2 timers of those, a cron and one that fires once, with imports |
| `scene`, `scenes`, `grids` | `ViewIsShown` | 2 objects, 1 goroutine, windows 2 deep, 1 lost event; 1 object, 2 goroutines; the grid by itself |
| `transfer` | `ObjectInOnePlace` | 3 nodes, one with two goroutines and two scenes, 4 scenes in all, 3 transfers, 1 fault |
| `ids` | `IdsAreUnique` | 2 nodes, steps of 2, blocks of 0 and 3, counters to 4, range to 5, saves that fail with and without effect |
| `pool`, `restarts` | `AcceptedTasksEnd` | 3 tasks, 2 of one name, 1 worker, channel of 1, 1 retry; 2 tasks over 2 starts |
| `listing`, `relisting` | `ListIsCurrent` | 2 processes of a node, 1 fault; 1 process, 3 faults |

Why these are enough: two messages with capacities of one make each limit bind
and each displacement happen; the hazards are races of two actors, and a third
where a third interferes (two Activates and a transfer; two operators and the
goroutine of each; a save, a flush and an eviction). Two generations of a queue are
what a retirement race needs. Six slots make MemoryDLQ compact with a head in the
middle. Two ticks separate suspect from dead. Three frames go over a snapshot and a
pruned history. Places 3, 5 and 7 (of `scene`, 3 and 7) with shards of 4 put objects on both
sides of a border; radii 2 and 4 make the largest one grow and shrink. Three transfers take an
object there, back and there again, which a stale version would refuse. Blocks of 3
cross a segment of 2, and the range ends in a segment that cannot be completed.
Three faults take a process from its lease to a failed attempt and to the next. One fault
at any point covers every single lost call; the proofs take over for more. Bounds
that are the model's and not the code's start with `Max` (those of `FrameRoom`'s
`MaxInputLead`, RecordSync's `MaxRows`, `MaxAttempts` and GatewayQueue's `MaxConns` are
the code's); they only keep actions from happening again. `CHECK_DEADLOCK FALSE`
stands where the system stops: a closed bus, a stopped process, used-up bounds.
Symmetry is used in `steps`, which checks no liveness.

Premises, each a constant or a choice in Init, where a property needs what the
code leaves to its user or to luck:

- `GatewayQueue`: clients that are `patient` wait silently; otherwise the panic of
  section 7 ends the process.
- `GatewaySession`, `FrameRoom`: in `calm` behaviours no connection ends in the middle
  of a handler about it, no third connection logs in to an account that two have or
  are getting (`Contenders`), and no room is exported while its applier runs. The
  others are explored too; that one session is indexed and that a recovery has no hole
  is said of calm ones, the latter also only of rooms with `AutoDestroy` (section 7).
- `FrameRoom`: `SnapshotEvery` is at most `HistoryLimit`, as in the defaults 15 and 120
  (service.go:439-450); the options are not checked against each other.
- `TimerScheduler`: `RegistryIsLive` speaks of the pairs of a scope and a name that are
  `Own`, whose name no import brings to another scope (section 7).
- `DataStore`: nothing is excluded, but what is said of the last value ends with
  `overlap`; what the code does then is section 7's, and the run of finding 6 checks
  `NewestIsHeld`, which has no such exception. `NewestIsSafe` and `DurableInTheEnd` say
  nothing of a `Detour`, a TierSnapshot key of which Redis holds a copy from an offline
  time (section 7). One goroutine at a time makes requests of the key.
- `RecordSync`: a client has `AnyTable` once changes were marked clean that no
  publication carried, whether none was made, it failed, or they were made after it
  was read, and when it fetched while changes were marked or under way (section 7).
  Publications of a table follow one another.
- `ConnectionBags`: `GraceIsKept` excepts a bag parked in place of a record that a
  DeleteBag had already found (section 7).
- `SceneView`: `Strays` FALSE (calls name objects that are in the scene); what a client
  shows is said up to the `lost` events, and of one goroutine at a time. Of two,
  `WindowsClose` alone is said.
- `SceneTransfer`: "in one place at most" is said until calls have `crossed`. `orderly`
  behaviours lose nothing, have one call at a time, and do not send an object on before
  its source has let go; "always in one place" is said of these.
- `IdGenerator`: a number is given twice only by nodes that `forgot` (section 7). A save
  that takes effect after a later one is not in the model.
- `AsyncPool`: Start follows a Stop that has returned, `QueueSize` is at least 1, one
  task per name; that accepted tasks end is said of the first start (section 7).
- `Discovery`: `late # "done"` (no Delete took effect after it had failed) for
  `LiveIsListed` and `Listed`, `gap` for the list (section 7).

Fairness, weak unless said otherwise:

- `crossnode`, quiet: each delivery's goroutine steps (its attempt timeout and
  backoff are timers) and Close's wait ends (it has a timeout). Nothing is
  assumed of the network, the receiver or the operator.
- `node_health`: the clock, the detector's ticker, handlers and a running
  reporter go on.
- `room_takeover`: a goroutine that is in a call goes on. That somebody keeps
  operating the room is a premise of `TakeoverEnds`, not an assumption.
- `progress`: goroutines step, calls of other processes return, tickers tick,
  patient clients send their next frame. Since a behaviour belongs to one component,
  the i-th fairness condition of all of them is one `Turn(i)`. The hard timeout of a
  drain, tested at every turn of a loop that others keep disturbing, strongly. Of
  `Discovery`: the steps of a registration (its calls have timeouts, its loop a
  ticker), the end of a lease nobody keeps alive (etcd's TTL), the watch loop; nothing
  of a start, a stop, a crash or a fault.

Five configurations belong to no run; each finds its property violated and
documents an observation of section 7:
`FrameRoomIdle.cfg` (`FrameRoom`), `SceneViewBorder.cfg` (`SceneView`),
`SceneTransferLost.cfg` (`MCSceneTransfer`),
`IdGeneratorFailedSave.cfg` (`IdGenerator`), `DiscoveryStale.cfg` (`Discovery`).

The sizes of the parts that are proved are CONSTANTS of `MCSteps`, so that a theorem
about its specification holds for all of them; `Steps.cfg` gives the values of the
table above. Those of the others are written where `MCSteps` instantiates them.

## 5. Proofs

For all values of the constants that satisfy the modules' named assumptions:

- `CrossNodeDeliveryProof`. `TypeCorrect` needs `AttemptsOK` beside the types (the
  attempt number of a delivery that is attempting, waiting or backing off is at
  least 1, and below `MaxAttempts` while it backs off, so the next one is valid).
  At-least-once is not inductive by itself: an acknowledgement is a message, so
  `Witnesses` says that every "ok" or "dup" reply on its way, and every id the
  deduper holds, belongs to a message that was handled, and that the deduper
  either holds or has forgotten every handled id; with it
  `AcknowledgedWasHandled` and `DuplicatesOnlyAfterForgetting` go through
  together. `TableBounded` adds that the pending table is finite (no run checks the
  types and this bound any more: the proofs cover them), `CloseWaitsForAll` needs
  that the closed flag is set exactly while Close waits or has returned, since a
  background delivery registers only while it is unset; `DeadLettersAreKept` is the action property, one case per
  action that touches the queue.
- `NodeHealthProof`. Every step of the detector, the handlers and the nodes is an
  operation of `Directory` or leaves it alone (`ImplementsDirectory`), so what is
  proved of `DirectorySpec` holds here: `IndexesAreExact` by the invariant
  types-and-indexes, `NoLocationSurvives` by the same. `OnlyTheLivingBeat` is the
  type invariant of the nodes and the Master together: it says too that a node
  whose process is gone has nothing to send.
- `RoomTakeoverProof`. `TypeCorrect` and `ActivateIsSingleFlight` are proved
  together. `StateIsInOnePlace` needs in addition `Phases`: where a goroutine
  stands in Activate fixes whether its node has something pending and whether
  it is marked imported. `NeverSeized` is the action property.
- `GameStateProof`, of the numbers. `NeverHandedOutTwice` is proved from `IdInv`: besides the types,
  a loaded node's last number is at most its ceiling, which is the stored one unless
  the node's last save did nothing (`Backed`), and every number given is of some node
  and counter not above that node's last, or of a node that forgot (`Below`). A step
  gives counters above the last, so what it gives is new; that two nodes never meet is
  `PackInjective`, from `Radix` greater than each. No premise is made about saves: a
  process ends with `unsaved` and starts as one that forgot, and only there does a
  repeated number come from. `StaysWithinSegment` is the same of a process's life.
- `GameStateProof`, of the data. `NewestNeverLost` and `LoadedIsNewest` of `DataStore` hold
  for any flushes and evictions beside one handler (one request of the player at a
  time), until `overlap`. Everything but the types is therefore claimed of behaviours
  without it (`Apart`), and each step that the proof cannot follow, an eviction of an
  unmarked entry or a second write, is shown to set it. `NewestIsSafe` says
  where the last value is, not what the other copies hold, and a flush that reads an
  older copy would break it; `Apart` therefore adds that the copy a flush reads
  (`Held`) is the last value or is missing while MySQL, or a goroutine on its way there,
  has it (`Copied`); that what a goroutine carries is the last value, or that one waits
  there, marked, and is written afterwards (`Carried`); and that the row a load has
  read is the last value by the time it is filled in (`Rows`): a load of a cached key
  goes on only while Redis does not hold it, and then MySQL has the last value
  (`RowIsNewest`). Where a goroutine stands fixes what it may
  hold (`Standing`), its tier (`InTier`) and who else may write (`Mutex`). After a
  failed delete, and on the detour of section 7, nothing is promised. A persist, wherever
  it was called from, is dealt with once (`PersistBegins`, `PersistEnds`,
  `PersistPromise`, `PersistGoesOn`).
- `GameStateProof`, of the views of a scene. `EveryWindowCloses` of `SceneView` needs nothing of
  the grid: the scene's depth is the number of windows its goroutines have open
  (`OpenWindows`, counted by what each one's call says), and what is open, batching or
  gathered at depth 0 is in the hands of a goroutine that ends it (`WindowsCounted`).
  `ViewsAreShown` is for one goroutine at a time, because for two it is false (section
  7), and up to the events lost (`Told`). At rest the grid is simple; in between
  it is partly marked, partly refreshed, and `ViewInv` says what holds all the way.
  `Stands` and `Carrying` fix what is open, and what a call has read, by where the call
  is. `GridSound`: who is not marked sees what there is, nobody's radius exceeds `maxR`.
  `ClientSound`: what was gathered and not yet published, applied to what the client has,
  gives what the grid has the object see. The heart is that an operation marks or
  refreshes everyone whose view it changes (`TouchesWatcher`): it looks only into the
  shards of a box around the old and the new place, and into the cells within `maxR`
  of them, so the proof needs where places fall in cells and shards (`InBox`, `InCells`,
  `CellBegins`). Within a window the refresh comes at its end, over the shards of all
  that is marked. A grid by itself refreshes an operation's watchers over the shards of
  that operation: with two objects (`FewObjects`) these hold all a watcher may see, with
  three they do not (section 7). `MembersInv` is about the members: an object is one before
  it is in the grid, and until it has left it.
- `ClusterProof`, of the list of processes. `LiveProcessIsListed` needs `ListInv`: at most one process has not
  ended (`Alone`), and the key is bound to the lease of whoever is live or about to
  be (`Bound`), which the end of another lease leaves so. `StaleListIsTold` needs
  `ToldInv`: what etcd holds (`EtcdOK`: leases and revisions of the key), that each
  process's lease and attempt are numbers etcd and the code gave (`ProcNumbers`), that
  the resolver's revision and watch are not ahead of etcd (`ResolverOK`), and the
  property itself, for a change must leave every watch behind it. `NumbersAreGranted`
  is the type invariant that follows.
- `ClusterProof`, of the transfers. `ObjectKeepsOnePlace` of `SceneTransfer` from
  `TransferInv`. It is about behaviours in which no calls have crossed (`Straight`);
  `Crossing` is what a step that would break it runs into. One place (`OnePlace`) does
  not survive by itself: goroutines that have looked the object up let go of it much
  later, so `Asked` says that until then the object is where each of them found it, and
  that all of them are of one node; and an entry
  checks under one lock and sets under another, so `HandsFree` says that the manager has
  the object nowhere in between. `Agrees` is the manager's index against the scenes,
  `Homes` that a goroutine works on scenes of its own node, `Numbers` that versions are
  those of transfers begun. That nothing is refused in good order, and so nothing lost,
  needs `InOrder`: one call at a time, no message to the node the object is leaving, and
  no version remembered for an object that is not there. The last clause is what the
  transfer back that overtakes a Leave breaks (section 7).
- `ConnectionsProof`. `NoBagIsShared` of `ConnectionBags` from `BagInv`: where each
  message, timer and park stands (`Labels`), that every bag held was made, so that a
  new one is none of them (`BagMaps`), that a DeleteBag about to remove has settled the
  record it found (`Labels`), and that the bags of the table, of the parked
  records and of the goroutines are pairwise different (`Holders`).
  `GraceBelongsToItsBag` is the action property under the same invariant.
  `NeverHalfDead` of `Drain` from `DrainInv`: besides the types, that an operator holds
  the flow's mutex exactly while it strips the node (`OpsOK`), that a closed channel
  is one that was made (`ChannelsOK`), and that heartbeat and registration go together
  and, once gone, are accounted for by a drain that runs, a stop, or an operator who
  is restoring them (`Accounted`). A cancel that is about to close a channel which
  another has closed does not count: it panics, and the other restores (`Cancelling`). `Nobody`, who holds the mutex when it is free, is
  no operator (`DrainParams`).
- `QueuesProof`. `QueueTellsTheTruth` of `KeyQueue` (the answer "unprocessed" is true,
  a queue in the table has its worker, a Close in time leaves none) from `QueueInv`: a
  job in a channel is there once, and its caller waits for it or gave it up after
  the worker had left (`Queued`); so does the caller of the job a worker sends
  (`Sending`); a result known is the caller's (`Told`); who enqueues has a queue that
  was made (`Placed`); no queue is stopped before it is made, and none is made after
  Close has emptied the table (`Tables`). For `MemoryDLQ`, `DeadInv` says that the index
  names the slot of every live record and of no other (`IndexStaysExact`); the
  abstract queue is the sequence of live records, and the lemmas `LiveAppend`,
  `LiveSkip` and `LiveCut` say what a push, a removal and a compaction do to it, by
  the library's theorems on sequences. `SliceIsTheQueue` follows by initial state and
  step.
- `QueuesProof`, of the task pool. `AcceptedTasksHaveAnEnd` of `AsyncPool` from `PoolInv`.
  That an accepted task has a result when Stop returns says nothing of the steps before;
  `Promised` does: a task that was put and has no result is in a channel or in the hands
  of a worker, a refused one is nowhere, and when the last drain is through no accepted
  one is in the channel of that start. It needs to know that a task is in one place, once
  (`Whereabouts`), and how far Stop is for each worker to have left (`Lives`).
  `Registered` and `Reached` are the names: one belongs to a task on its way, and while a
  task may still run, it has its name or its context is done. The part about results
  speaks of the first start only (`gen <= 1`): the channel of an earlier start
  is nobody's to drain, which section 7 tells of.
- `ConnectionsProof`, of the admission to a gateway. `PlacesAreKept` of `GatewayQueue` from
  `AdmissionInv`. `counter` is adjusted at other moments than the table, so no equation
  between the two is inductive; what is, is that it counts tokens (`Counted`): one for
  a session, one for a session being cleaned up, one for a creation under way, none for
  a creation between its insertion and its count. Every step adds, removes or moves
  one. Whoever passes the test of the limit has a token, as every session has; these
  are the claims, and as no more than `MaxConns` of them exist (`Limited`) there are
  no more sessions. The queue never grows beyond `QueueCap` and the entry the loop
  holds (`Queued`). When Stop has returned there is no session, and nobody is left who
  could insert one (`Quiet`).
- `ConnectionsProof`, of the sessions of a gateway. `SessionsAreKept` of `GatewaySession` from
  `SessInv`. What the run checks holds at rest; what is inductive is its form in the
  middle of the handlers. The indexes are exact at every moment, if a session counts as
  listed until cleanup has taken it out (`SessIndexed`); the ends told, pending, deferred
  and still possible are together no more than the sessions made (`SessOnce`); and of two
  connections that contend for an account one is closed or among the targets of the
  other's reply (`SessSingle`). That there are never three is where the premise of calm
  behaviours enters: the third kicks the oldest too, as the second
  did, and two may stay.
- `QueuesProof`, of the timers. `ScopesAreReached` and `ClosuresAreLive` of `TimerScheduler`
  from `TimersInv`. A timer is followed when it is off or over, or a goroutine has its
  stopper to call. What ends stays ended (`Ahead`), and a stopper is given up only when
  its timer has ended, so of each action only this is left to show: a timer it takes
  out of a table is followed afterwards, in the tables by name and scope (`Named`), by
  scope (`Reachable`) and of the tasks (`FiledLive`). Orphans, the crons of section
  7, are excepted from the second.
- `ClusterProof`, of the state room. `KernelIsSound` of `StateRoom` from `KernelInv`: nobody
  sits twice, and the host sits (`SeatInv`), so that the seat marked for the next host
  is his and the only one; and a version that is recorded, or about to be, was
  delivered to that watcher before (`Delivered`).
- `ClusterProof`, of the frame room. `RoomsAreWhole` from `WholeInv`: a task of the current
  generation carries the lineage the room has now, since an import starts a
  generation. `PacksAreWhole` adds `HoleInv`, for calm behaviours with `AutoDestroy`: the
  only active loop is that of the current generation, the frame in its hands is the
  room's last (`OneLoop`), and the history has every frame since the snapshot but that
  one. None of them was pruned, because a snapshot is at most `SnapshotEvery` frames
  old, which is no more than `HistoryLimit` (`Covered`, `StaysCovered`).
- `StepsProof`. A behaviour of `MCSteps` stays in its part (`PartMoves`), so
  what a component proves of its own specification is a property of the suite.
  An instance's definitions are identical to those of the proof module but for the
  names of their variables and parameters; expanding both shows it, action by
  action (`BagsNext`, `DrainNext`, ...). Each proof module is declared where it is first
  used, because a proof gets slower with every definition it could see. The
  theorems, each for every value of the constants the part takes: `OneHolder`,
  `OwnGrace`, `NodeNeverHalfDead`, `HonestQueue`, `SliceActsAsQueue`, `SavedIsSafe`,
  `FreshLoad`, `UniqueIds`, `CurrentList`, `OnePlaceAlways`, `AcceptedAlwaysEnd`,
  `CountedPlaces`, `SoundRoomList`, `ReachedTimers`, `WholeRooms`, `TrackedSessions`.

Model-checked only: liveness (`QuietDeliveryEnds`, `DeadIsEvicted`, `TakeoverEnds` and
the run `progress`), which TLAPS does not reach here, and of the run `steps` two
properties. `CopyFollowsTable` applies the patches in flight one after the other to the
client's copy, a fold over a sequence of any length: what a fold computes needs
induction over data. `ViewIsShown` is proved of `SceneView` itself (`EveryWindowCloses`,
`ViewsAreShown`), not of the three parts of `steps` with a scene: expanding the
operations of the grid three times side by side takes the provers too long.

## 6. What the code does that its comments exclude

1. **A timed-out delivery leaves no dead letter** (`crossnode_reliable.go`,
   `deliver`): the error of the last attempt wraps `context.DeadlineExceeded` and
   is taken for the caller's cancellation.
2. **Two workers for one player** (`crossnode.go`, `retireKeyQueue`): a retired
   queue drains a late job while the next queue already sends.
3. **A drain without a goroutine** (`drain.go`, `CancelDrain`): the cancel channel
   is closed after the lock is released, and may be the next round's.
4. **A live node that never comes back** (`server/health.go`): the answer
   Known=false is meant to trigger a registration; no game process sets the
   callback.
5. **A room that takes back what it gave away** (`master_handlers.go`): the state
   is staged before the owner changes; the old owner may claim it.
6. **A save that is nowhere** (`data/mmo.go`, `saveMMO`): the entry is put into its
   shard before it is marked dirty, and the shard may evict it in between as clean.
7. **Two live timers of one name** (`timer.go`, `registerNamed`): the table by name
   is shared by all scopes; a second scope that uses the name hides the first
   scope's timer from its next registration.

## 7. Observations without a run

Met while modelling; the models contain the behaviour unless a line says
otherwise, no property is spent on it.

- *Delivery.* A manual retry has a new MsgID, so a retry that fails makes a second
  dead letter beside the first. Bus Close closes the reliable sender before the
  per-player queues drain: their jobs are refused without a trace. A dead-letter
  queue retried record by record and never full keeps its dead slots.
- *Drain.* The look at the cancel channel and its close are two steps outside the lock:
  of two cancels that both find it open the second panics and does not come to
  restoring the traffic; the first does. A finishing or cancelling goroutine clears the mirror outside the
  lock. A goroutine of an old round that reads the new cancel channel lives on
  beside the new one. CancelDrain restores traffic without looking whether a new
  drain runs. The count of remaining connections subtracts migrated ones that
  have already left, so a drain may finish early. A failed re-registration is
  only logged.
- *Node health.* The callback of a removal may untrack a registration that came
  after it: the node is registered and watched by nobody (`DeadIsEvicted` is
  therefore stated for a node's first registration). A heartbeat that passed the
  directory's test re-creates the entry of a node just removed. RegisterPlayer
  accepts a node that is not registered.
- *Rooms.* A transfer that is refused after its state was staged leaves it there:
  the true owner later imports it over its own. EnsureOwner, when the owner leaves
  between its two questions, answers with the local node. EnsureRoom ignores the
  master's refusal: both nodes may run the room. DestroyRoom unregisters a second
  time after the kernel's hook and may hit a room made anew. The state in a lost
  claim reply is gone (`StateInOnePlace` counts it). What is pending on a node
  that is no longer the owner is imported all the same.
- *Data store.* Nothing keeps two writes of a key to MySQL apart: a flush and an eviction
  may overlap and the older value reaches MySQL last, where it stays although nothing
  is marked any more (`overlap`). `SnapshotLoadIsFresh` fails sequentially: a load of a
  TierSnapshot key after SetOffline may return the Redis copy of an earlier time.
  persistDirty of such a key prefers the entry in memory over a newer write that went
  to Redis while the player was offline. A load during an eviction's write puts the
  old row back into memory; so may getCache's backfill against the first save. The
  second look of getMMO and its memSet are two steps. Not in the model: a dirty key
  whose Redis TTL ends, and the NoLocalCache path.
- *Records.* MarkClean forgets what was written after the Changes before it. The comment
  at sync.go:251-255 keeps the marks when a broadcast fails; but SaveJSONRecordPatch
  without a message id goes straight to MarkClean (sync.go:240, 256-258), and
  GameObject.saveRecord and saveProps clean after a failed broadcast too
  (gobject.go:417-420, 439-442). pushOne may fail after CommitDiff has marked clean. In
  all of these the client is not told, and only a whole table is sure to mend it. A
  broadcast of a change of columns carries no table: the client has to fetch it, and what
  is marked at that moment is then told to it a second time, which a deleted row does
  not bear. Not in the model: two publications of one table side by side, as the
  automatic one of several writers could make them.
- *Gateway queue.* Without `patient`, the removal of the only entry panics while the
  queue's lock is held: in the queue timer it ends the process, in the watcher it
  leaves the queue locked ("排队超时 → 仍未放行则关闭连接" is what was meant). A release
  may pass a frame that was read later before the buffered first one.
- *Gateway sessions.* A kick of an account with a single session panics with the
  index shard locked, and so does a rebinding of it; with three connections logging
  in at once two may survive. A reply or SetPlayerID that overlaps cleanup leaves
  index entries of a session that is gone. A hard disconnect is scheduled even if
  the client has come back in between. Not in the model: switchUpstream against
  cleanup.
- *Frame room.* `FrameRoomIdle.cfg`: the idle close never happens, because every step,
  empty or not, counts as progress; that step gives up the lock between its decision and
  the close (room.go:453-456) is therefore left out. An export while the applier runs loses that
  frame's inputs. A stopped loop that already holds its tick steps once beside the new
  one. Resent inputs of completed frames stay in `pending`; a player that disconnects
  at frame 0 is never pruned; ImportState leaves the silence counters as they were;
  a leave and join resets one. removeRoom may unregister a re-created room. Without
  `AutoDestroy` all players may leave while the applier runs and one join again: that
  starts a generation, the result is dropped as an old one's, and its frame is
  missing from the history.
- *State room.* Two broadcasts may deliver the older list last, until the next flush.
  A failed push of the room's state is not tried again. SetOffline counts a version
  and broadcasts nothing. A room may be joined after Close has emptied the table.
- *Presence and bags.* DeleteBag finds a record and then deletes by key
  (connection.go:61-75): a bag that ParkBag has put in its place meanwhile goes with it,
  unsettled and before its grace. A player whose connection was closed
  by KickConn (no event), or whose last message races the disconnect handler, stays
  located and online. A bag stays in `connBags` for ever when a message in flight
  recreates it after ParkBag. A reconnection within the gateway's grace does not
  restore a bag, since none was parked. A process with the game alone gets no
  disconnect event. A fresh login's bag is overwritten by the parked one.
  ClearByOwner leaves the record's timer to find out by itself.
- *Timers.* ImportScope cancels another scope's timer of the same name. A one-shot
  that was popped runs after Stop. A cron that fires during StopAll arms itself again
  where no table leads to it (`orphans`). Stoppers of finished timers stay in
  `byScope`. Two registrations of one pair at once leave the survivor without its
  entry in the registry. A cron registered after Close files its task. An import that
  brings a name in use in another scope ends that scope's timer and leaves its closure
  filed (timer.go:817), though registerNamed's comment spares other scopes.
- *Scenes.* `SceneViewBorder.cfg`: without a batch, Enter refreshes a watcher over the
  locked shards only, so that it loses sight of an object in a neighbouring shard,
  and its client is told so. A publication that fails is logged and its events are
  dropped (view_sync.go:125-128, 213-216): the client misses an object, or keeps one,
  until that object enters or leaves its view again. With two goroutines `ClientShowsView` fails: a mark set
  after EndBatch has taken the batch is ignored; BeginBatch during another's EndBatch
  replaces the events not yet published. An Enter that races a Leave of the object
  leaves it in the grid without membership, as does a Move of a non-member. EndBatch
  publishes with the window's lock held, against its comment. The recomputation of
  the largest radius may overwrite a concurrent increase.
- *Transfers.* TransferRemote holds no lock from findSceneOf to Leave
  (scenemanager.go:139-208): two goroutines of a node may send one object to two targets,
  and it is then in two scenes, or one may take it into a scene here while the other
  sends it off. TransferTo does not ask whether its scene has the object (scene.go:357-394).
  `SceneTransferLost.cfg`: with no fault at all, a transfer back that
  overtakes the first one's Leave is refused (the object is still there) and the
  object is then in no scene; TransferRemote's comment wants to exclude that an
  object vanishes ("等于凭空丢对象"). The receiver only logs an error, so a lost route, scene or
  message loses the object too; the module's NATS publisher does not implement
  JetPublisher, so the instruction is sent at most once, against remotexfer.go:119.
  An object in the default instance cannot be transferred: instance 0 is refused.
  Versions of two senders are compared with each other, which is harmless only
  because Leave forgets them. A refresh that overlaps DestroyScene registers the
  dead scene again. Not in the model: an object that enters after DestroyScene has
  listed the members; two goroutines entering one object into two scenes between
  Enter's two critical sections; without etcd each process has a table of routes of
  its own, in which no other node's scene is found (bootstrap.go:268).
- *Identifiers.* `IdGeneratorFailedSave.cfg`: reserveSegment raises the ceiling in memory
  before it saves and leaves it raised when the save fails. The next calls hand out
  from a segment the store does not know, and after a restart hand it out again,
  against "绝不重复分配" (idgen.go:112). Close to the end of the range the padding of a
  segment makes it overflow although the numbers asked for would fit.
  Generator.Reserve answers with the first object number only and checks only that
  one against the width of the counter; the following ones are 2^nodeBits apart.
- *Async pool.* A Submit that has looked at the pool before a Stop
  and offers its task after it finds, if a Start came in between, closed unset: it
  reports the task as accepted in a channel nobody reads, Wait never returns and the
  name stays taken. Submit's comment says the lock is held until the task is in the
  channel (pool.go:237-239); the code releases it before. ErrPoolClosed may be
  returned for a task that runs or has run. A name is free only a moment after Wait.
- *Discovery.* `DiscoveryStale.cfg`: with no fault at all the list may stay stale until the
  next change, because start reads before it watches and a watch without a revision
  begins with what comes next; so does the reading after a compaction, which is
  meant to exclude this (watch.go:60). A read that fails is not repeated
  (discovery.go:114 expects the next watch event to heal it). A Delete of a
  registration that timed out and takes effect later removes the key of a live
  process for good: the keep-alive loop looks at its lease only. tryGrantAndPut
  cleans up under a context without a timeout. A second resolver on a prefix gets
  ErrWatchExists, which start takes for "no failure": its list is read once.

## 8. What is not modelled

Parts of the modelled components, named in each component's note in
`PROJECT.json`; the larger ones: option normalisation and the HTTP endpoints of
the drain; RedisDLQ; UpdateLoad, queries and persistence of the directory; the
push of the recovery pack, size limits and the unused PopTakeoverState of the
room takeover; payloads, hashes and pushes of frames; switchUpstream, broadcasts and
rate limits of the gateway; RemoveAll, several instances and bodies of a scene.

Components left in the plan (line 15 of section 2): each is small and was put after
what loses or duplicates a player's state.

Components left out for good: wrappers of drivers and sockets, wire formats,
logging, metrics and tracing, SQL statements whose atomicity is the database's,
process assembly, and numeric code (collision, movement, combat, skills, behaviour
trees) whose floating-point values TLC does not have and which runs on one
goroutine per scene. These make up more than half of the repository's lines.
The definitions of the models stand for about a tenth of all lines: of the files
they model they cover the control, while what surrounds it there - options,
getters, metrics, logging, codecs, HTTP handlers - has no state a property could
be about.
