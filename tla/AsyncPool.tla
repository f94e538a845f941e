----------------------------- MODULE AsyncPool -----------------------------
(***************************************************************************)
(* A pool of goroutines that run submitted tasks (runtime/async/pool.go).  *)
(* Submit looks at the pool under its lock and offers the task to the      *)
(* channel after it; Stop closes, drains, waits and drains again; who      *)
(* comes too late takes its task back.  Start may follow a Stop that has   *)
(* returned: every Start makes a channel of its own.                       *)
(***************************************************************************)
EXTENDS Naturals, Sequences

CONSTANTS
    Tasks,      \* calls of Submit
    NameOf,     \* name of a task, or None
    Workers, None,
    QueueSize, Retries,
    MaxStarts   \* bound: calls of Start

Names == {NameOf[t] : t \in Tasks} \ {None}
Gens == 1..MaxStarts

AsyncPoolParams ==
    /\ None \notin Tasks /\ QueueSize \in Nat \ {0} /\ Retries \in Nat /\ MaxStarts \in Nat

VARIABLES
    gen,        \* how often the pool was started
    closed,
    cut,        \* the generations whose stopCh is closed and whose context is cancelled
    tasks,      \* the channel of each generation
    active,     \* the task registered under a name
    sub,        \* where a call of Submit stands
    of,         \* the generation it has seen
    cancelled,  \* tasks whose own context is
    result,     \* what Wait returns, "none" until then
    worker, job, attempt,
    stop        \* where Stop stands

work == <<worker, job, attempt>>
vars == <<gen, closed, cut, tasks, active, sub, of, cancelled, result, work, stop>>

APInit ==
    /\ gen = 0 /\ closed = FALSE /\ cut = {} /\ tasks = [g \in Gens |-> <<>>]
    /\ active = [n \in Names |-> None]
    /\ sub = [t \in Tasks |-> "idle"] /\ of = [t \in Tasks |-> 0]
    /\ cancelled = {} /\ result = [t \in Tasks |-> "none"]
    /\ worker = [w \in Workers |-> "off"] /\ job = [w \in Workers |-> None]
    /\ attempt = [w \in Workers |-> 0]
    /\ stop = "idle"

-----------------------------------------------------------------------------
CtxDone(t) == t \in cancelled \/ of[t] \in cut
Room(t) == Len(tasks[of[t]]) < QueueSize
Finish(t, r) == result' = [result EXCEPT ![t] = IF @ = "none" THEN r ELSE @]
Unregister(t) == active' = [n \in Names |-> IF active[n] = t THEN None ELSE active[n]]
Put(t) == tasks' = [tasks EXCEPT ![of[t]] = Append(@, t)]
Submits(t, to) == sub' = [sub EXCEPT ![t] = to]

Begin(t) ==
    /\ sub[t] = "idle"
    /\ \/ (gen = 0 \/ closed) /\ Submits(t, "refused")
          /\ UNCHANGED of
       \/ gen > 0 /\ ~closed
          /\ Submits(t, "named") /\ of' = [of EXCEPT ![t] = gen]
    /\ UNCHANGED <<gen, closed, cut, tasks, active, cancelled, result, work, stop>>

Register(t) ==
    /\ sub[t] = "named"
    /\ \/ /\ NameOf[t] = None /\ Submits(t, "offer") /\ UNCHANGED <<active, cancelled>>
       \/ /\ NameOf[t] # None /\ active[NameOf[t]] = None
          /\ Submits(t, "offer") /\ active' = [active EXCEPT ![NameOf[t]] = t]
          /\ UNCHANGED cancelled
       \/ /\ NameOf[t] # None /\ active[NameOf[t]] # None
          /\ Submits(t, "refused") /\ cancelled' = cancelled \union {t}
          /\ UNCHANGED active
    /\ UNCHANGED <<gen, closed, cut, tasks, of, result, work, stop>>

(* Submit gives up, with ErrPoolClosed. *)
TakeBack(t) ==
    Submits(t, "refused") /\ cancelled' = cancelled \union {t} /\ Unregister(t)

Offer(t) ==
    /\ sub[t] = "offer"
    /\ \/ Room(t) /\ Put(t) /\ Submits(t, "check")
       \/ ~Room(t) /\ Submits(t, "full") /\ UNCHANGED tasks
    /\ UNCHANGED <<gen, closed, cut, active, of, cancelled, result, work, stop>>

FindFull(t) ==
    /\ sub[t] = "full"
    /\ \/ closed /\ TakeBack(t)
       \/ ~closed /\ Submits(t, "blocked") /\ UNCHANGED <<active, cancelled>>
    /\ UNCHANGED <<gen, closed, cut, tasks, of, result, work, stop>>

Unblock(t) ==
    /\ sub[t] = "blocked"
    /\ \/ Room(t) /\ Put(t) /\ Submits(t, "check") /\ UNCHANGED <<active, cancelled>>
       \/ of[t] \in cut /\ TakeBack(t) /\ UNCHANGED tasks
    /\ UNCHANGED <<gen, closed, cut, of, result, work, stop>>

(* Mutation: no second look once the task is in the channel. *)
ReclaimNot(t) ==
    /\ sub[t] = "check" /\ Submits(t, "accepted")
    /\ UNCHANGED <<gen, closed, cut, tasks, active, of, cancelled, result, work, stop>>

Reclaim(t) ==
    /\ sub[t] = "check"
    /\ \/ closed /\ Finish(t, "canceled") /\ TakeBack(t)
       \/ ~closed /\ Submits(t, "accepted") /\ UNCHANGED <<active, cancelled, result>>
    /\ UNCHANGED <<gen, closed, cut, tasks, of, work, stop>>

Submit(t) ==
    Begin(t) \/ Register(t) \/ Offer(t) \/ FindFull(t) \/ Unblock(t) \/ Reclaim(t)

(* Kill, Task.Cancel, a timeout, or the end of the parent context. *)
Kill(n) ==
    /\ active[n] \notin cancelled \union {None} /\ cancelled' = cancelled \union {active[n]}
    /\ UNCHANGED <<gen, closed, cut, tasks, active, sub, of, result, work, stop>>
End(t) ==
    /\ sub[t] = "accepted" /\ t \notin cancelled /\ cancelled' = cancelled \union {t}
    /\ UNCHANGED <<gen, closed, cut, tasks, active, sub, of, result, work, stop>>

-----------------------------------------------------------------------------
Works(w, to, t, n) ==
    /\ worker' = [worker EXCEPT ![w] = to]
    /\ job' = [job EXCEPT ![w] = t] /\ attempt' = [attempt EXCEPT ![w] = n]

Loop(w) ==
    /\ \/ /\ worker[w] = "look"
          /\ Works(w, IF gen \in cut THEN "off" ELSE "select", None, 0) /\ UNCHANGED tasks
       \/ /\ worker[w] = "select" /\ gen \in cut
          /\ Works(w, "off", None, 0) /\ UNCHANGED tasks
       \/ /\ worker[w] = "select" /\ tasks[gen] # <<>>
          /\ Works(w, "taken", Head(tasks[gen]), 0)
          /\ tasks' = [tasks EXCEPT ![gen] = Tail(@)]
    /\ UNCHANGED <<gen, closed, cut, active, sub, of, cancelled, result, stop>>

Ends(w, r) == Works(w, "ending", job[w], 0) /\ Finish(job[w], r)
Runs(w) == Works(w, "running", job[w], attempt[w] + 1) /\ UNCHANGED result

(* One step of runItem: the function may succeed, fail or panic; it fails  *)
(* for good when its context is done or its attempts are used up.          *)
RunItem(w) ==
    /\ \/ worker[w] = "taken" /\ CtxDone(job[w]) /\ Ends(w, "canceled")
       \/ worker[w] = "taken" /\ ~CtxDone(job[w]) /\ Runs(w)
       \/ worker[w] = "running" /\ \E r \in {"ok", "panic"} : Ends(w, r)
       \/ /\ worker[w] = "running" /\ ~CtxDone(job[w]) /\ attempt[w] <= Retries
          /\ Works(w, "backoff", job[w], attempt[w]) /\ UNCHANGED result
       \/ /\ worker[w] = "running" /\ (CtxDone(job[w]) \/ attempt[w] > Retries)
          /\ Ends(w, "failed")
       \/ worker[w] = "backoff" /\ CtxDone(job[w]) /\ Ends(w, "canceled")
       \/ worker[w] = "backoff" /\ Runs(w)
    /\ UNCHANGED <<gen, closed, cut, tasks, active, sub, of, cancelled, stop>>

(* Deferred: by now Wait may have returned. *)
EndItem(w) ==
    /\ worker[w] = "ending"
    /\ Unregister(job[w]) /\ cancelled' = cancelled \union {job[w]}
    /\ Works(w, "look", None, 0)
    /\ UNCHANGED <<gen, closed, cut, tasks, sub, of, result, stop>>

-----------------------------------------------------------------------------
Start ==
    /\ stop \in {"idle", "stopped"} /\ gen < MaxStarts /\ (gen = 0 \/ closed)
    /\ gen' = gen + 1 /\ closed' = FALSE /\ stop' = "idle"
    /\ active' = [n \in Names |-> None]
    /\ worker' = [w \in Workers |-> "look"]
    /\ UNCHANGED <<cut, tasks, sub, of, cancelled, result, job, attempt>>

Close ==
    /\ ~closed /\ stop = "idle" /\ closed' = TRUE
    /\ stop' = IF gen = 0 THEN "idle" ELSE "cutting"
    /\ UNCHANGED <<gen, cut, tasks, active, sub, of, cancelled, result, work>>

Cut ==
    /\ stop = "cutting" /\ cut' = cut \union {gen} /\ stop' = "drain"
    /\ UNCHANGED <<gen, closed, tasks, active, sub, of, cancelled, result, work>>

DrainTasks ==
    /\ stop \in {"drain", "drain again"}
    /\ \/ LET t == Head(tasks[gen]) IN
          /\ tasks[gen] # <<>> /\ tasks' = [tasks EXCEPT ![gen] = Tail(@)]
          /\ Finish(t, "canceled") /\ Unregister(t) /\ UNCHANGED stop
       \/ /\ tasks[gen] = <<>> /\ stop' = IF stop = "drain" THEN "wait" ELSE "stopped"
          /\ UNCHANGED <<tasks, result, active>>
    /\ UNCHANGED <<gen, closed, cut, sub, of, cancelled, work>>

Wait ==
    /\ stop = "wait" /\ \A w \in Workers : worker[w] = "off"
    /\ stop' = "drain again"
    /\ UNCHANGED <<gen, closed, cut, tasks, active, sub, of, cancelled, result, work>>

Stop == Close \/ Cut \/ DrainTasks \/ Wait

APNext ==
    \/ \E t \in Tasks : Submit(t) \/ End(t)
    \/ \E n \in Names : Kill(n)
    \/ \E w \in Workers : Loop(w) \/ RunItem(w) \/ EndItem(w)
    \/ Start \/ Stop
APSpec == APInit /\ [][APNext]_vars

-----------------------------------------------------------------------------
(* Properties *)

APTypeOK ==
    /\ gen \in 0..MaxStarts /\ closed \in BOOLEAN /\ cut \subseteq Gens
    /\ \A g \in Gens : Len(tasks[g]) <= QueueSize
    /\ active \in [Names -> Tasks \union {None}] /\ cancelled \subseteq Tasks
    /\ job \in [Workers -> Tasks \union {None}] /\ of \in [Tasks -> 0..MaxStarts]

Settled(t) == sub[t] \in {"idle", "refused", "accepted"}
Held(t) == (\E w \in Workers : job[w] = t) \/ \E g \in Gens : \E i \in DOMAIN tasks[g] : tasks[g][i] = t

(* Submit, reclaimIfClosed, Stop: once Stop has returned, every task whose *)
(* Submit succeeded has a result, so that nobody waits for ever, and with  *)
(* all calls of Submit returned no name is left that bars its next use.    *)
AcceptedEnds ==
    stop = "stopped" =>
        /\ \A t \in Tasks : sub[t] = "accepted" => result[t] # "none"
        /\ (\A t \in Tasks : Settled(t)) => \A n \in Names : active[n] = None
AcceptedEndsOnce == gen <= 1 => AcceptedEnds

(* Submit: a task that was refused before it had a result never runs.      *)
RefusedNeverRuns == \A t \in Tasks : sub[t] = "refused" /\ result[t] = "none" => ~Held(t)

(* Submit, unregister, Kill: a task that runs and was not cancelled is     *)
(* found under its name.                                                   *)
KillReaches ==
    \A w \in Workers :
        worker[w] = "running" /\ ~CtxDone(job[w]) /\ NameOf[job[w]] # None =>
            active[NameOf[job[w]]] = job[w]
============================================================================
