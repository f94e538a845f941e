--------------------------- MODULE TimerScheduler ---------------------------
(***************************************************************************)
(* The named timers of a scheduler (pkg/runtime/timer): the tables that    *)
(* StopNamed, StopScope and the migration of a scope find them by.  A      *)
(* registration and a stop take the scheduler's lock more than once, and   *)
(* call the stoppers of other timers outside it.  Deadlines are left out:  *)
(* any timer in the heap may be due.                                       *)
(***************************************************************************)
EXTENDS Naturals, FiniteSets

CONSTANTS
    Callers,    \* goroutines that register and stop timers
    Scopes, NoScope,    \* players, scenes, ...; NoScope is the empty scope
    Names,      \* names of timers
    Uses,       \* the (scope, name) pairs the business registers
    Migrates,   \* the pairs an import may bring
    KindOf,     \* the kind of timer a name stands for
    MaxTimers   \* bound: timers made

TimerParams ==
    /\ NoScope \notin Scopes /\ Migrates \subseteq Uses
    /\ Uses \subseteq (Scopes \cup {NoScope}) \X Names
    /\ KindOf \in [Names -> {"once", "every", "cron"}] /\ MaxTimers \in Nat

VARIABLES
    seq,        \* timers made so far; their ids
    timer,      \* timer[i]: its pair, where it is, and is it off?
    byName,     \* byName[n]: the timer whose stopper is filed under n, or 0
    byScope,    \* byScope[s]: the timers whose stoppers are filed under s
    nameLoc,    \* nameLoc[n]: the pair and the timer of n in byScope, or NoRef
    reg,        \* taskReg and regOwner: the timer a pair's task is filed for, or 0
    call,       \* call[c]: what the goroutine has left to do
    closed,
    orphans     \* crons that were firing when StopAll or Close came (a history)

tables == <<byName, byScope, nameLoc, reg>>
vars == <<seq, timer, tables, call, closed, orphans>>

Ids == 1..MaxTimers
NoRef == [scope |-> NoScope, id |-> 0]
Idle == [step |-> "idle", id |-> 0, left |-> {}]
NoTimer == [scope |-> NoScope, name |-> CHOOSE n \in Names : TRUE, at |-> "none", off |-> FALSE]

Init ==
    /\ seq = 0 /\ timer = [i \in Ids |-> NoTimer]
    /\ byName = [n \in Names |-> 0] /\ byScope = [s \in Scopes |-> {}]
    /\ nameLoc = [n \in Names |-> NoRef] /\ reg = [u \in Uses |-> 0]
    /\ call = [c \in Callers |-> Idle]
    /\ closed = FALSE /\ orphans = {}

Pair(i) == <<timer[i].scope, timer[i].name>>
Kind(i) == KindOf[timer[i].name]
Scoped(i) == timer[i].scope # NoScope

(* In entries and the heap; a cron that is firing will be there again.     *)
Live(i) == ~timer[i].off /\ (timer[i].at = "heap" \/ (timer[i].at = "popped" /\ Kind(i) = "cron"))

-----------------------------------------------------------------------------
(* What happens under the lock *)

(* unregisterRegLocked, by the timer that filed the task only. *)
Unregister(i) == [u \in Uses |-> IF u = Pair(i) /\ reg[u] = i THEN 0 ELSE reg[u]]

(* stop(id), or Stop of a cron: one that has been taken off the heap to be *)
(* fired is not found any more, but a cron sees its flag.                  *)
StopOne(i) ==
    IF Kind(i) = "cron" \/ (timer[i].at = "heap" /\ ~timer[i].off)
    THEN /\ timer' = [timer EXCEPT ![i].off = TRUE]
         /\ reg' = Unregister(i)
         /\ nameLoc' = [n \in Names |->
                          IF Kind(i) # "cron" /\ n = timer[i].name /\ nameLoc[n].id = i
                          THEN NoRef ELSE nameLoc[n]]
    ELSE UNCHANGED <<timer, reg, nameLoc>>

(* The timer that keeps the name n in scope s out: a restart cancels the   *)
(* old one, unless that belongs to another scope.                          *)
OldOne(s, n) ==
    IF s # NoScope /\ nameLoc[n] # NoRef /\ nameLoc[n].scope # s THEN 0 ELSE byName[n]

(* Mutation: stoppers are filed under the name. *)
FileByName(i) ==
    /\ byName' = [byName EXCEPT ![timer[i].name] = i]
    /\ IF Scoped(i)
       THEN /\ byScope' = [byScope EXCEPT ![timer[i].scope] =
                             {j \in @ : timer[j].name # timer[i].name} \cup {i}]
            /\ nameLoc' = [nameLoc EXCEPT ![timer[i].name] =
                             [scope |-> timer[i].scope, id |-> i]]
       ELSE UNCHANGED <<byScope, nameLoc>>

File(i) ==
    /\ byName' = [byName EXCEPT ![timer[i].name] = i]
    /\ IF Scoped(i)
       THEN /\ byScope' = [byScope EXCEPT ![timer[i].scope] = @ \cup {i}]
            /\ nameLoc' = [nameLoc EXCEPT ![timer[i].name] =
                             [scope |-> timer[i].scope, id |-> i]]
       ELSE UNCHANGED <<byScope, nameLoc>>

Goes(c, from, to) == call[c].step = from /\ call' = [call EXCEPT ![c] = to]
Drop(s, i) == [x \in Scopes |-> IF x = s THEN byScope[x] \ {i} ELSE byScope[x]]

-----------------------------------------------------------------------------
(* Registration: add, or CronName                                          *)

(* The timer is in the heap and its task is filed.  A cron is armed before *)
(* that.                                                                   *)
Add(c, u) ==
    /\ ~closed /\ seq < MaxTimers /\ seq' = seq + 1
    /\ Goes(c, "idle", [Idle EXCEPT !.step = IF KindOf[u[2]] = "cron" THEN "file" ELSE "register",
                                    !.id = seq'])
    /\ timer' = [timer EXCEPT ![seq'] = [scope |-> u[1], name |-> u[2], at |-> "heap",
                                         off |-> FALSE]]
    /\ reg' = (IF KindOf[u[2]] = "cron" THEN reg ELSE [reg EXCEPT ![u] = seq'])
    /\ UNCHANGED <<byName, byScope, nameLoc, closed, orphans>>

FileCron(c) ==
    LET i == call[c].id IN
    /\ Goes(c, "file", [call[c] EXCEPT !.step = "register"])
    /\ reg' = [reg EXCEPT ![Pair(i)] = i]
    /\ UNCHANGED <<seq, timer, byName, byScope, nameLoc, closed, orphans>>

(* registerNamed *)
Register(c) ==
    LET i == call[c].id  old == OldOne(timer[i].scope, timer[i].name) IN
    /\ Goes(c, "register", [Idle EXCEPT !.step = IF old = 0 THEN "idle" ELSE "stop",
                                        !.left = {old} \ {0}])
    /\ File(i)
    /\ UNCHANGED <<seq, timer, reg, closed, orphans>>

(* A stopper is called, one after the other. *)
CallStopper(c) ==
    /\ call[c].step = "stop"
    /\ \E i \in call[c].left :
          LET rest == call[c].left \ {i} IN
          /\ call' = [call EXCEPT ![c] = IF rest = {} THEN Idle ELSE [@ EXCEPT !.left = rest]]
          /\ StopOne(i)
    /\ UNCHANGED <<seq, byName, byScope, closed, orphans>>

-----------------------------------------------------------------------------
(* Cancellation *)

(* Timer.Stop by the holder of the handle. *)
StopHandle(c, i) ==
    /\ call[c] = Idle /\ i <= seq
    /\ \A d \in Callers : call[d].step \in {"file", "register"} => call[d].id # i
    /\ StopOne(i)
    /\ UNCHANGED <<seq, byName, byScope, call, closed, orphans>>

StopNamed(c, n) ==
    /\ byName[n] # 0
    /\ Goes(c, "idle", [Idle EXCEPT !.step = "stop", !.left = {byName[n]}])
    /\ byName' = [byName EXCEPT ![n] = 0]
    /\ nameLoc' = [nameLoc EXCEPT ![n] = NoRef]
    /\ byScope' = Drop(nameLoc[n].scope, nameLoc[n].id)
    /\ UNCHANGED <<seq, timer, reg, closed, orphans>>

(* The scope's stoppers are taken out and called; the tasks filed for the  *)
(* scope go.                                                               *)
StopScope(c, s) ==
    /\ Goes(c, "idle", IF byScope[s] = {} THEN Idle
                       ELSE [Idle EXCEPT !.step = "stop", !.left = byScope[s]])
    /\ byScope' = [byScope EXCEPT ![s] = {}]
    /\ nameLoc' = [n \in Names |-> IF nameLoc[n].scope = s THEN NoRef ELSE nameLoc[n]]
    /\ reg' = [u \in Uses |-> IF u[1] = s THEN 0 ELSE reg[u]]
    /\ UNCHANGED <<seq, timer, byName, closed, orphans>>

(* Everything that is in the heap is canceled and every table emptied.     *)
Sweep ==
    /\ timer' = [i \in Ids |-> IF timer[i].at = "heap"
                               THEN [timer[i] EXCEPT !.at = "over", !.off = TRUE]
                               ELSE timer[i]]
    /\ orphans' = orphans \cup {i \in Ids : Live(i) /\ timer[i].at = "popped"}
    /\ byName' = [n \in Names |-> 0] /\ byScope' = [s \in Scopes |-> {}]
    /\ nameLoc' = [n \in Names |-> NoRef] /\ reg' = [u \in Uses |-> 0]

StopAll == ~closed /\ Sweep /\ UNCHANGED <<seq, call, closed>>
Close == ~closed /\ closed' = TRUE /\ Sweep /\ UNCHANGED <<seq, call>>

-----------------------------------------------------------------------------
(* The task filed for the pair belongs to its new timer. *)
Refile(u, i) == [reg EXCEPT ![u] = i]

(* Migration: ImportScope, one timer of the dump.  Its task must have been *)
(* filed before.  registerNamedLocked drops the timer that has the name,   *)
(* whatever its scope, without calling its stopper.                        *)
ImportTimer(u) ==
    LET s == u[1]  n == u[2]  old == nameLoc[n]
        Canceled == {i \in Ids : i = old.id /\ timer[i].at = "heap" /\ Kind(i) # "cron"}
    IN
    /\ ~closed /\ KindOf[n] # "cron" /\ s # NoScope
    /\ reg[u] # 0 /\ seq < MaxTimers /\ seq' = seq + 1
    /\ timer' = [i \in Ids |->
                   CASE i = seq' -> [scope |-> s, name |-> n, at |-> "heap", off |-> FALSE]
                     [] i \in Canceled -> [timer[i] EXCEPT !.off = TRUE]
                     [] OTHER -> timer[i]]
    /\ byName' = [byName EXCEPT ![n] = seq']
    /\ byScope' = [Drop(old.scope, old.id) EXCEPT ![s] = @ \cup {seq'}]
    /\ nameLoc' = [nameLoc EXCEPT ![n] = [scope |-> s, id |-> seq']]
    /\ reg' = Refile(u, seq')
    /\ UNCHANGED <<call, closed, orphans>>

(* A cron of the dump is registered like a new one.                        *)
ImportCron(c, u) == KindOf[u[2]] = "cron" /\ reg[u] # 0 /\ Add(c, u)

-----------------------------------------------------------------------------
(* The scheduler's goroutine takes a due timer off the heap.  An interval  *)
(* timer goes back at once and nothing changes here; what was canceled is  *)
(* thrown away.                                                            *)
Pop(i) ==
    /\ timer[i].at = "heap" /\ (timer[i].off \/ Kind(i) # "every")
    /\ timer' = [timer EXCEPT ![i].at = IF timer[i].off THEN "over" ELSE "popped"]
    /\ reg' = (IF ~timer[i].off /\ Kind(i) = "once" THEN Unregister(i) ELSE reg)
    /\ UNCHANGED <<seq, byName, byScope, nameLoc, call, closed, orphans>>

(* Its goroutine runs the task; a cron that is not stopped arms again.     *)
Run(i) ==
    /\ timer[i].at = "popped"
    /\ timer' = [timer EXCEPT ![i] =
                   IF Live(i) /\ ~closed THEN [@ EXCEPT !.at = "heap"]
                   ELSE [@ EXCEPT !.at = "over", !.off = timer[i].off \/ Kind(i) = "cron"]]
    /\ UNCHANGED <<seq, tables, call, closed, orphans>>

Next ==
    \/ \E c \in Callers :
          \/ \E u \in Uses : Add(c, u)
          \/ \E u \in Migrates : ImportCron(c, u)
          \/ FileCron(c) \/ Register(c) \/ CallStopper(c)
          \/ \E i \in Ids : StopHandle(c, i)
          \/ \E n \in Names : StopNamed(c, n)
          \/ \E s \in Scopes : StopScope(c, s)
    \/ \E u \in Migrates : ImportTimer(u)
    \/ \E i \in Ids : Pop(i) \/ Run(i)
    \/ StopAll \/ Close

Spec == Init /\ [][Next]_vars

-----------------------------------------------------------------------------
(* Properties *)

TSTypeOK ==
    /\ seq \in 0..MaxTimers
    /\ \A i \in Ids : timer[i].at \in {"none", "heap", "popped", "over"}
    /\ byName \in [Names -> 0..seq] /\ byScope \in [Scopes -> SUBSET Ids]
    /\ \A n \in Names : nameLoc[n] = NoRef \/ (nameLoc[n].scope \in Scopes /\ nameLoc[n].id \in Ids)
    /\ reg \in [Uses -> 0..seq]
    /\ \A c \in Callers : call[c].step \in {"idle", "file", "register", "stop"}

(* About to be filed, or about to be stopped, by a goroutine. *)
InTheMaking(i) == \E c \in Callers : call[c].step \in {"file", "register"} /\ call[c].id = i
Stopping(i) == \E c \in Callers : i \in call[c].left

(* StopScope "cancels all timers of the scope", as at a player's           *)
(* disconnect: however registrations, restarts under the same name, stops, *)
(* imports and sweeps meet, a live timer of a scope is filed where         *)
(* StopScope looks, or a goroutine is about to stop it.  (Not so a cron    *)
(* that was firing during StopAll: it arms again.)                         *)
ScopeReaches ==
    \A i \in Ids : Live(i) /\ Scoped(i) /\ ~InTheMaking(i) /\ i \notin orphans =>
        i \in byScope[timer[i].scope] \/ Stopping(i)

(* No import brings the name of u from another scope: registerNamedLocked  *)
(* then ends the timer that has the name and leaves its closure filed.     *)
Own(u) == \A m \in Migrates : m[2] = u[2] => m = u

(* unregisterRegLocked: a closure that is filed for migration belongs to a *)
(* timer that is live or about to be stopped: none is left behind by any   *)
(* way a timer may end, however that meets its registration, but for a     *)
(* name that an import moves between scopes.                               *)
RegistryIsLive ==
    \A u \in Uses : Own(u) /\ reg[u] # 0 /\ ~closed /\ KindOf[u[2]] # "cron" =>
        Pair(reg[u]) = u /\ (Live(reg[u]) \/ Stopping(reg[u]))

(* registerNamed: an "old timer of the same name is canceled first         *)
(* (restart)", and that of another scope is not: with no call under way a  *)
(* scope has at most one live timer of a name.                             *)
OneLivePerName ==
    (\A c \in Callers : call[c] = Idle) =>
        \A i, j \in Ids : i # j /\ Live(i) /\ Live(j) => Pair(i) # Pair(j)
=============================================================================
