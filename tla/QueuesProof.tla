----------------------------- MODULE QueuesProof -----------------------------
(***************************************************************************)
(* The two queues of the event bus, for any calls, records and capacities: *)
(* the send queue of a player, whose workers come and go under its         *)
(* callers, and the dead-letter queue, whose slice and index implement the *)
(* promised one; the channel of the task pool, for any tasks, workers and  *)
(* starts; and the heap of timers with the tables that lead to them.       *)
(***************************************************************************)
EXTENDS KeyQueue, SequenceTheorems, TLAPS

(* A job is in one place until its result is known: once in the channel of *)
(* its queue, or in the hands of its worker, and its caller is waiting for *)
(* it.  Only a job that came after its worker left may be given up.        *)
Waits(c, q) == caller[c] = "awaiting" \/ (caller[c] = "unprocessed" /\ worker[q] = "exited")
Queued ==
    \A q \in Queues : \A i \in 1 .. Len(ch[q]) :
        /\ queueOf[ch[q][i]] = q /\ done[ch[q][i]] = "none" /\ Waits(ch[q][i], q)
        /\ \A j \in 1 .. Len(ch[q]) : ch[q][i] = ch[q][j] => i = j
Sending ==
    \A q \in Queues :
        /\ job[q] # NoJob <=> worker[q] \in {"sending", "drainSending"}
        /\ job[q] # NoJob =>
            /\ queueOf[job[q]] = q /\ done[job[q]] = "none" /\ caller[job[q]] = "awaiting"
            /\ \A i \in 1 .. Len(ch[q]) : ch[q][i] # job[q]
Told == \A c \in Calls : done[c] # "none" => caller[c] \in {"awaiting"} \union Results
Placed == \A c \in Calls : caller[c] \in {"enqueuing", "awaiting"} => queueOf[c] \in 1 .. created

(* A queue is not stopped before it is made, and none is made any more     *)
(* when Close has emptied the table.                                       *)
Tables ==
    /\ \A q \in Queues : q > created => worker[q] = "none" /\ ~stop[q]
    /\ condemned \subseteq 1 .. created
    /\ closing = "open" <=> ~closed
    /\ closing \in {"stopping", "waiting", "ok", "timeout"} => table = 0
    /\ TableIsServed /\ CloseEndsWorkers

QueueInv == TypeOK /\ Queued /\ Sending /\ Told /\ Placed /\ Tables

LEMMA QueueStart == ASSUME KeyQueueParams, Init PROVE QueueInv
<1>1. TypeOK
      <2>1. ch \in [Queues -> Seq(Calls)] /\ \A q \in Queues : Len(ch[q]) <= Capacity
            BY DEF KeyQueueParams, Init
      <2>2. 0 \in 0 .. MaxQueues /\ 0 \in 0 .. 0  BY DEF KeyQueueParams
      <2> QED  BY <2>1, <2>2 DEF Init, TypeOK, Returned, Results
<1>2. Queued /\ Sending /\ Told /\ Placed
      BY DEF Init, Queued, Sending, Told, Placed, Results
<1>3. Tables
      BY DEF Init, Tables, TableIsServed, CloseEndsWorkers, Queues
<1> QED  BY <1>1, <1>2, <1>3 DEF QueueInv

(* Only getKeyQueue, Retire and Close move what the table says; the others *)
(* leave it, and whoever stays out of the channels leaves the jobs.        *)
LEMMA CallerKeeps ==
    ASSUME KeyQueueParams, QueueInv, NEW c \in Calls,
           Call(c) \/ EnqueueStopped(c) \/ Await(c)
    PROVE  QueueInv'
<1> USE DEF QueueInv
<1>1. UNCHANGED <<queueOf, done, table, created, ch, stop, worker, job, closed, senderClosed,
                  closing, condemned>>
      BY DEF Call, EnqueueStopped, Await
<1>2. PICK to \in {"busClosed", "entered", "stopped", "unprocessed"} \union Results :
          caller' = [caller EXCEPT ![c] = to]
      BY DEF Call, EnqueueStopped, Await, TypeOK
<1>3. TypeOK'  BY <1>1, <1>2 DEF TypeOK, Returned, Results
<1>4. \A q \in Queues : \A i \in 1 .. Len(ch[q]) : ch[q][i] \in Calls
      BY DEF TypeOK
<1>5. \/ caller[c] \in {"idle", "enqueuing"}
      \/ caller[c] = "awaiting" /\ done[c] # "none" /\ to = done[c]
      \/ caller[c] = "awaiting" /\ done[c] = "none" /\ worker[queueOf[c]] = "exited"
         /\ to = "unprocessed"
      BY <1>2 DEF Call, EnqueueStopped, Await, TypeOK
<1>6. Queued'
      BY <1>1, <1>2, <1>4, <1>5 DEF TypeOK, Queued, Waits
<1>7. Sending'
      BY <1>1, <1>2, <1>5 DEF KeyQueueParams, TypeOK, Sending
<1>8. Told'
      BY <1>1, <1>2, <1>5 DEF TypeOK, Told, Results
<1>9. Placed'
      BY <1>1, <1>2 DEF TypeOK, Placed, Results
<1>10. Tables'
      BY <1>1 DEF Tables, TableIsServed, CloseEndsWorkers, Running
<1> QED  BY <1>3, <1>6, <1>7, <1>8, <1>9, <1>10

LEMMA GetKeyQueueKeeps ==
    ASSUME KeyQueueParams, QueueInv, NEW c \in Calls, GetKeyQueue(c)
    PROVE  QueueInv'
<1> USE DEF QueueInv
<1>1. UNCHANGED <<done, ch, stop, job, closed, senderClosed, closing, condemned>>
      /\ caller[c] = "entered"
      BY DEF GetKeyQueue
<1>2. PICK to \in {"busClosed", "enqueuing"} : caller' = [caller EXCEPT ![c] = to]
      BY DEF GetKeyQueue
<1>3. \A q \in Queues : \A i \in 1 .. Len(ch[q]) : ch[q][i] \in Calls
      BY DEF TypeOK
<1>4. created \in Nat /\ MaxQueues \in Nat /\ table \in 0 .. created /\ created <= MaxQueues
      BY DEF KeyQueueParams, TypeOK
<1>5. CASE UNCHANGED <<queueOf, table, created, worker>> /\ to = "busClosed"
      <2>1. TypeOK'  BY <1>1, <1>2, <1>5 DEF TypeOK, Returned, Results
      <2>2. Queued' /\ Sending' /\ Told' /\ Placed'
            BY <1>1, <1>2, <1>3, <1>5 DEF KeyQueueParams, TypeOK, Queued, Waits, Sending, Told,
                                          Placed, Results
      <2>3. Tables'  BY <1>1, <1>5 DEF Tables, TableIsServed, CloseEndsWorkers, Running
      <2> QED  BY <2>1, <2>2, <2>3
<1>6. CASE /\ table # 0 /\ queueOf' = [queueOf EXCEPT ![c] = table]
           /\ UNCHANGED <<table, created, worker>>
      <2>1. table \in 0 .. MaxQueues /\ table \in 1 .. created  BY <1>4, <1>6
      <2>2. TypeOK'  BY <1>1, <1>2, <1>6, <2>1 DEF TypeOK, Returned, Results
      <2>3. Queued' /\ Sending' /\ Told' /\ Placed'
            BY <1>1, <1>2, <1>3, <1>6, <2>1 DEF KeyQueueParams, TypeOK, Queued, Waits, Sending,
                                                Told, Placed, Results
      <2>4. Tables'  BY <1>1, <1>6 DEF Tables, TableIsServed, CloseEndsWorkers, Running
      <2> QED  BY <2>2, <2>3, <2>4
<1>7. CASE /\ ~closed /\ created < MaxQueues /\ created' = created + 1 /\ table' = created + 1
           /\ queueOf' = [queueOf EXCEPT ![c] = created + 1]
           /\ worker' = [worker EXCEPT ![created + 1] = "waiting"]
      <2>1. PICK new \in Queues : new = created + 1 /\ new \in 0 .. MaxQueues /\ new \in 1 .. new
            BY <1>4, <1>7 DEF Queues
      <2>2. 1 .. created \subseteq 1 .. new /\ new > created /\ \A q \in Queues : q > new => q > created
            BY <1>4, <2>1 DEF Queues
      <2>3. created' = new /\ table' = new /\ queueOf' = [queueOf EXCEPT ![c] = new]
            /\ worker' = [worker EXCEPT ![new] = "waiting"]
            BY <1>7, <2>1
      <2>4. worker[new] = "none" /\ ~stop[new]  BY <2>2 DEF Tables
      <2>5. TypeOK'  BY <1>1, <1>2, <2>1, <2>3 DEF TypeOK, Returned, Results
      <2>6. Queued' /\ Sending' /\ Told' /\ Placed'
            BY <1>1, <1>2, <1>3, <2>1, <2>2, <2>3, <2>4
               DEF KeyQueueParams, TypeOK, Queued, Waits, Sending, Told, Placed, Results
      <2>7. Tables'
            BY <1>1, <1>7, <2>1, <2>2, <2>3, <2>4
               DEF TypeOK, Tables, TableIsServed, CloseEndsWorkers
      <2> QED  BY <2>5, <2>6, <2>7
<1>8. caller'[c] = to  BY <1>2 DEF TypeOK
<1> QED  BY <1>2, <1>5, <1>6, <1>7, <1>8 DEF GetKeyQueue, TypeOK

LEMMA EnqueueKeeps ==
    ASSUME KeyQueueParams, QueueInv, NEW c \in Calls, Enqueue(c)
    PROVE  QueueInv'
<1> USE DEF QueueInv
<1>1. UNCHANGED <<queueOf, done, table, created, stop, worker, job, closed, senderClosed,
                  closing, condemned>>
      /\ caller[c] = "enqueuing" /\ caller' = [caller EXCEPT ![c] = "awaiting"]
      BY DEF Enqueue
<1>2. PICK q \in Queues : queueOf[c] = q /\ q \in 1 .. created
      BY <1>1 DEF TypeOK, Placed, Queues
<1>3. Len(ch[q]) < Capacity /\ ch' = [ch EXCEPT ![q] = Append(ch[q], c)]
      BY <1>2 DEF Enqueue
<1>4. ch[q] \in Seq(Calls) /\ Len(ch[q]) \in Nat  BY DEF TypeOK
<1>5. /\ Append(ch[q], c) \in Seq(Calls) /\ Len(Append(ch[q], c)) = Len(ch[q]) + 1
      /\ \A i \in 1 .. Len(ch[q]) : Append(ch[q], c)[i] = ch[q][i]
      /\ Append(ch[q], c)[Len(ch[q]) + 1] = c
      BY <1>4
<1>6. \A p \in Queues : \A i \in 1 .. Len(ch[p]) : ch[p][i] \in Calls /\ ch[p][i] # c
      BY <1>1 DEF TypeOK, Queued, Waits
<1>7. \A p \in Queues : job[p] # c  BY <1>1 DEF KeyQueueParams, Sending
<1>8. done[c] = "none"  BY <1>1 DEF TypeOK, Told, Results
<1>9. TypeOK'
      <2>1. ch' \in [Queues -> Seq(Calls)]  BY <1>3, <1>5 DEF TypeOK
      <2>2. \A p \in Queues : Len(ch'[p]) <= Capacity
            <3>1. Len(ch[q]) + 1 <= Capacity  BY <1>3, <1>4 DEF KeyQueueParams
            <3> QED  BY <1>3, <1>5, <3>1 DEF TypeOK
      <2>3. caller' \in [Calls -> {"idle", "entered", "enqueuing", "awaiting"} \cup Returned]
            BY <1>1 DEF TypeOK
      <2> QED  BY <1>1, <2>1, <2>2, <2>3 DEF TypeOK
<1>10. Queued'
      <2> SUFFICES ASSUME NEW p \in Queues, NEW i \in 1 .. Len(ch'[p])
                   PROVE  /\ queueOf[ch'[p][i]] = p /\ done[ch'[p][i]] = "none"
                          /\ \/ caller'[ch'[p][i]] = "awaiting"
                             \/ caller'[ch'[p][i]] = "unprocessed" /\ worker[p] = "exited"
                          /\ \A j \in 1 .. Len(ch'[p]) : ch'[p][i] = ch'[p][j] => i = j
          BY <1>1 DEF Queued, Waits
      <2>1. CASE p # q
            <3>1. ch'[p] = ch[p]  BY <1>3, <2>1 DEF TypeOK
            <3>2. ch[p][i] \in Calls /\ ch[p][i] # c  BY <1>6, <3>1
            <3>3. caller'[ch[p][i]] = caller[ch[p][i]]  BY <1>1, <3>2 DEF TypeOK
            <3> QED  BY <3>1, <3>3 DEF Queued, Waits
      <2>2. CASE p = q
            <3>1. ch'[p] = Append(ch[q], c)  BY <1>3, <2>2 DEF TypeOK
            <3>2. CASE i \in 1 .. Len(ch[q])
                  <4>1. ch'[p][i] = ch[q][i]  BY <1>5, <3>1, <3>2
                  <4>2. queueOf[ch[q][i]] = q /\ done[ch[q][i]] = "none"
                        BY <3>2 DEF Queued
                  <4>4. \/ caller'[ch[q][i]] = "awaiting"
                        \/ caller'[ch[q][i]] = "unprocessed" /\ worker[q] = "exited"
                        BY <1>1, <1>6, <3>2 DEF TypeOK, Queued, Waits
                  <4>3. ASSUME NEW j \in 1 .. Len(ch'[p]), ch'[p][i] = ch'[p][j] PROVE i = j
                        <5>1. CASE j \in 1 .. Len(ch[q])
                              BY <1>5, <3>1, <3>2, <4>1, <4>3, <5>1 DEF Queued
                        <5>2. CASE j = Len(ch[q]) + 1
                              BY <1>5, <1>6, <3>1, <3>2, <4>1, <4>3, <5>2
                        <5> QED  BY <1>4, <1>5, <3>1, <5>1, <5>2
                  <4> QED  BY <2>2, <4>1, <4>2, <4>3, <4>4
            <3>3. CASE i = Len(ch[q]) + 1
                  <4>1. ch'[p][i] = c  BY <1>5, <3>1, <3>3
                  <4>2. ASSUME NEW j \in 1 .. Len(ch'[p]), ch'[p][j] = c PROVE i = j
                        BY <1>4, <1>5, <1>6, <3>1, <3>3, <4>2
                  <4> QED  BY <1>1, <1>2, <1>8, <2>2, <4>1, <4>2 DEF TypeOK, Waits
            <3> QED  BY <1>4, <1>5, <3>1, <3>2, <3>3
      <2> QED  BY <2>1, <2>2
<1>11. Sending'
      <2> SUFFICES ASSUME NEW p \in Queues, job[p] # NoJob
                   PROVE  caller'[job[p]] = "awaiting" /\ \A i \in 1 .. Len(ch'[p]) : ch'[p][i] # job[p]
          BY <1>1 DEF Sending
      <2>1. job[p] \in Calls /\ caller[job[p]] = "awaiting"  BY DEF TypeOK, Sending
      <2>2. ASSUME NEW i \in 1 .. Len(ch'[p]) PROVE ch'[p][i] # job[p]
            <3>1. CASE p # q
                  BY <1>3, <3>1 DEF TypeOK, Sending
            <3>2. CASE p = q
                  <4>1. ch'[p] = Append(ch[q], c)  BY <1>3, <3>2 DEF TypeOK
                  <4>2. CASE i \in 1 .. Len(ch[q])  BY <1>5, <3>2, <4>1, <4>2 DEF Sending
                  <4>3. CASE i = Len(ch[q]) + 1  BY <1>5, <1>7, <4>1, <4>3
                  <4> QED  BY <1>4, <1>5, <4>1, <4>2, <4>3
            <3> QED  BY <3>1, <3>2
      <2> QED  BY <1>1, <2>1, <2>2 DEF TypeOK
<1>12. Told' /\ Placed'
      BY <1>1 DEF TypeOK, Told, Placed, Results
<1>13. Tables'
      BY <1>1 DEF Tables, TableIsServed, CloseEndsWorkers, Running
<1> QED  BY <1>9, <1>10, <1>11, <1>12, <1>13

(* Taking a job shortens the channel by its first, and by no other.        *)
LEMMA TakeJobKeeps ==
    ASSUME KeyQueueParams, QueueInv, NEW q \in Queues, TakeJob(q)
    PROVE  QueueInv'
<1> USE DEF QueueInv
<1>1. UNCHANGED <<caller, queueOf, table, created, stop, closed, senderClosed, closing, condemned>>
      /\ worker[q] \in {"waiting", "draining"}
      BY DEF TakeJob
<1>2. ch[q] \in Seq(Calls) /\ ch[q] # <<>> /\ ch' = [ch EXCEPT ![q] = Tail(ch[q])]
      BY DEF TakeJob, TypeOK
<1>3. PICK n \in Nat : Len(ch[q]) = n + 1
      <2>1. Len(ch[q]) \in Nat /\ Len(ch[q]) # 0  BY <1>2, EmptySeq
      <2>2. Len(ch[q]) - 1 \in Nat /\ Len(ch[q]) = (Len(ch[q]) - 1) + 1  BY <2>1
      <2> QED  BY <2>2
<1>4. /\ Tail(ch[q]) \in Seq(Calls) /\ Len(Tail(ch[q])) = n
      /\ \A i \in 1 .. n : Tail(ch[q])[i] = ch[q][i + 1]
      BY <1>2, <1>3
<1>5. PICK c \in Calls : Head(ch[q]) = c /\ c = ch[q][1]  BY <1>2, <1>3
<1>6. queueOf[c] = q /\ done[c] = "none" /\ caller[c] = "awaiting"
      BY <1>1, <1>3, <1>5 DEF Queued, Waits
<1>7. \A i \in 1 .. n : i + 1 \in 1 .. Len(ch[q]) /\ ch[q][i + 1] # c
      BY <1>3, <1>5 DEF Queued
<1>8. \A i \in 1 .. n : Tail(ch[q])[i] # c  BY <1>4, <1>7
<1>9. ch'[q] = Tail(ch[q]) /\ \A p \in Queues : p # q => ch'[p] = ch[p]
      BY <1>2 DEF TypeOK
<1>10. ch' \in [Queues -> Seq(Calls)] /\ \A p \in Queues : Len(ch'[p]) <= Capacity
      <2>1. n <= Capacity  BY <1>3 DEF TypeOK, KeyQueueParams
      <2> QED  BY <1>2, <1>4, <1>9, <2>1 DEF TypeOK
(* What is left in a channel was there before, and is not c.               *)
<1>11. ASSUME NEW p \in Queues, NEW i \in 1 .. Len(ch'[p])
       PROVE  /\ ch'[p][i] \in Calls /\ ch'[p][i] # c
              /\ queueOf[ch'[p][i]] = p /\ done[ch'[p][i]] = "none" /\ Waits(ch'[p][i], p)
              /\ \A j \in 1 .. Len(ch'[p]) : ch'[p][i] = ch'[p][j] => i = j
              /\ ch'[p][i] # job[p] \/ job[p] = NoJob
       <2>1. CASE p # q
             <3>1. ch[p][i] \in Calls /\ queueOf[ch[p][i]] = p  BY <1>9, <2>1 DEF TypeOK, Queued
             <3> QED  BY <1>6, <1>9, <2>1, <3>1 DEF Queued, Sending
       <2>2. CASE p = q
             <3>1. i \in 1 .. n /\ ch'[p][i] = ch[q][i + 1]  BY <1>4, <1>9, <2>2
             <3>2. ASSUME NEW j \in 1 .. Len(ch'[p]), ch'[p][i] = ch'[p][j] PROVE i = j
                   <4>1. j \in 1 .. n /\ ch[q][i + 1] = ch[q][j + 1]
                         BY <1>4, <1>9, <2>2, <3>1, <3>2
                   <4>2. i + 1 = j + 1  BY <1>7, <3>1, <4>1 DEF Queued
                   <4> QED  BY <3>1, <4>1, <4>2
             <3>3. ch[q][i + 1] \in Calls  BY <1>2, <1>7, <3>1
             <3>4. /\ ch[q][i + 1] # c /\ queueOf[ch[q][i + 1]] = q
                   /\ done[ch[q][i + 1]] = "none" /\ Waits(ch[q][i + 1], q)
                   /\ job[q] # NoJob => ch[q][i + 1] # job[q]
                   BY <1>7, <3>1 DEF Queued, Sending
             <3> QED  BY <2>2, <3>1, <3>2, <3>3, <3>4
       <2> QED  BY <2>1, <2>2
<1>12. \A p \in Queues : job[p] # c
      BY <1>3, <1>5, <1>6 DEF KeyQueueParams, Sending
<1>13. job[q] = NoJob  BY <1>1 DEF Sending
<1>14. CASE \E r \in Results : done' = [done EXCEPT ![c] = r] /\ UNCHANGED <<worker, job>>
      <2>1. PICK r \in Results : done' = [done EXCEPT ![c] = r] /\ UNCHANGED <<worker, job>>
            BY <1>14
      <2>2. TypeOK'  BY <1>1, <1>10, <2>1 DEF TypeOK
      <2>3. Queued'
            BY <1>1, <1>11, <2>1 DEF TypeOK, Queued, Waits
      <2>4. Sending'
            <3>1. \A p \in Queues : job[p] # NoJob => job[p] \in Calls  BY DEF TypeOK
            <3>2. \A p \in Queues : job[p] # NoJob => done'[job[p]] = done[job[p]]
                  BY <1>12, <2>1, <3>1 DEF TypeOK
            <3> QED  BY <1>1, <1>11, <2>1, <3>2 DEF Sending
      <2>5. Told' /\ Placed'  BY <1>1, <1>6, <2>1 DEF TypeOK, Told, Placed
      <2>6. Tables'  BY <1>1, <2>1 DEF Tables, TableIsServed, CloseEndsWorkers, Running
      <2> QED  BY <2>2, <2>3, <2>4, <2>5, <2>6
<1>15. CASE /\ worker' = [worker EXCEPT ![q] = IF worker[q] = "waiting" THEN "sending" ELSE "drainSending"]
            /\ job' = [job EXCEPT ![q] = c] /\ UNCHANGED done
      <2>1. TypeOK'  BY <1>1, <1>10, <1>15 DEF TypeOK
      <2>2. Queued'
            BY <1>1, <1>11, <1>15 DEF TypeOK, Queued, Waits
      <2>3. Sending'
            <3>1. /\ job'[q] = c /\ worker'[q] \in {"sending", "drainSending"} /\ c # NoJob
                  /\ \A p \in Queues \ {q} : job'[p] = job[p] /\ worker'[p] = worker[p]
                  BY <1>1, <1>6, <1>15 DEF KeyQueueParams, TypeOK
            <3>2. queueOf'[c] = q /\ done'[c] = "none" /\ caller'[c] = "awaiting"
                  BY <1>1, <1>6, <1>15
            <3>3. \A i \in 1 .. Len(ch'[q]) : ch'[q][i] # c  BY <1>11
            <3>4. \A p \in Queues \ {q} : ch'[p] = ch[p]  BY <1>9
            <3> QED  BY <1>1, <1>15, <3>1, <3>2, <3>3, <3>4 DEF Sending
      <2>4. Told' /\ Placed'  BY <1>1, <1>15 DEF TypeOK, Told, Placed
      <2>5. Tables'
            BY <1>1, <1>15 DEF TypeOK, Tables, TableIsServed, CloseEndsWorkers, Running
      <2> QED  BY <2>1, <2>2, <2>3, <2>4, <2>5
<1> QED  BY <1>5, <1>14, <1>15 DEF TakeJob

LEMMA FinishJobKeeps ==
    ASSUME KeyQueueParams, QueueInv, NEW q \in Queues, FinishJob(q)
    PROVE  QueueInv'
<1> USE DEF QueueInv
<1>1. UNCHANGED <<caller, queueOf, table, created, ch, stop, closed, senderClosed, closing, condemned>>
      /\ worker[q] \in {"sending", "drainSending"} /\ job' = [job EXCEPT ![q] = NoJob]
      /\ worker' = [worker EXCEPT ![q] = IF worker[q] = "sending" THEN "waiting" ELSE "draining"]
      BY DEF FinishJob, Busy
<1>2. PICK c \in Calls : job[q] = c /\ queueOf[c] = q /\ done[c] = "none" /\ caller[c] = "awaiting"
      BY <1>1 DEF Sending, TypeOK
<1>3. PICK r \in {"sent", "failed"} : done' = [done EXCEPT ![c] = r]
      BY <1>2 DEF FinishJob
<1>4. \A p \in Queues : \A i \in 1 .. Len(ch[p]) : ch[p][i] \in Calls /\ ch[p][i] # c
      <2> TAKE p \in Queues
      <2> TAKE i \in 1 .. Len(ch[p])
      <2>1. ch[p][i] \in Calls  BY DEF TypeOK
      <2>2. CASE p = q  BY <1>2, <2>1, <2>2 DEF KeyQueueParams, Sending
      <2>3. CASE p # q  BY <1>2, <2>1, <2>3 DEF Queued
      <2> QED  BY <2>2, <2>3
<1>5. TypeOK'  BY <1>1, <1>3 DEF TypeOK, Results
<1>6. Queued'  BY <1>1, <1>3, <1>4 DEF TypeOK, Queued, Waits
<1>7. Sending'
      <2>1. \A p \in Queues : job[p] # NoJob => job[p] \in Calls  BY DEF TypeOK
      <2>2. \A p \in Queues : p # q => job[p] # c  BY <1>2 DEF KeyQueueParams, Sending
      <2> QED  BY <1>1, <1>2, <1>3, <2>1, <2>2 DEF TypeOK, Sending
<1>8. Told' /\ Placed'  BY <1>1, <1>2, <1>3 DEF TypeOK, Told, Placed
<1>9. Tables'
      BY <1>1 DEF TypeOK, Tables, TableIsServed, CloseEndsWorkers, Running
<1> QED  BY <1>5, <1>6, <1>7, <1>8, <1>9

(* An idle worker that leaves, and one that is told to.                    *)
LEMMA LeavingKeeps ==
    ASSUME KeyQueueParams, QueueInv, NEW q \in Queues, SeeStop(q) \/ Exit(q) \/ Retire(q)
    PROVE  QueueInv'
<1> USE DEF QueueInv
<1>1. UNCHANGED <<caller, queueOf, done, created, ch, job, closed, senderClosed, closing, condemned>>
      BY DEF SeeStop, Exit, Retire
<1>2. PICK to \in {"draining", "exited"} : worker' = [worker EXCEPT ![q] = to]
      BY DEF SeeStop, Exit, Retire
<1>3. worker[q] \in {"waiting", "draining"} /\ (to = "exited" => ch[q] = <<>>)
      BY <1>2 DEF SeeStop, Exit, Retire, TypeOK
<1>4. table' \in {0, table} /\ stop' \in [Queues -> BOOLEAN] /\ (worker[q] = "none" => stop' = stop)
      BY DEF SeeStop, Exit, Retire, TypeOK
<1>5. TypeOK'
      <2>1. 0 \in 0 .. created /\ table' \in 0 .. created  BY <1>4 DEF TypeOK
      <2> QED  BY <1>1, <1>2, <1>4, <2>1 DEF TypeOK
<1>6. Queued' /\ Sending' /\ Told' /\ Placed'
      BY <1>1, <1>2, <1>3 DEF TypeOK, Queued, Waits, Sending, Told, Placed
<1>7. Tables'
      <2>1. CASE SeeStop(q) \/ Exit(q)
            BY <1>1, <1>2, <1>3, <2>1 DEF SeeStop, Exit, TypeOK, Tables, TableIsServed,
                                          CloseEndsWorkers, Running
      <2>2. CASE Retire(q)
            BY <1>1, <1>2, <1>3, <2>2 DEF Retire, TypeOK, Tables, TableIsServed,
                                          CloseEndsWorkers, Running
      <2> QED  BY <2>1, <2>2
<1> QED  BY <1>5, <1>6, <1>7

LEMMA CloseKeeps ==
    ASSUME KeyQueueParams, QueueInv, CloseBegin \/ CloseGoesOn
    PROVE  QueueInv'
<1> USE DEF QueueInv
<1>1. UNCHANGED <<caller, queueOf, done, created, ch, worker, job>>
      BY DEF CloseBegin, CloseGoesOn, CloseSender, CloseTable, CloseStops, CloseReturns
<1>2. Queued' /\ Sending' /\ Told' /\ Placed'
      BY <1>1 DEF Queued, Waits, Sending, Told, Placed
<1>3. CASE CloseBegin \/ CloseSender \/ CloseReturns
      BY <1>1, <1>2, <1>3 DEF CloseBegin, CloseSender, CloseReturns, CloseStep, TypeOK, Tables,
                              TableIsServed, CloseEndsWorkers, Running
<1>4. CASE CloseTable
      <2>1. table \in 0 .. created /\ 0 \in 0 .. created /\ condemned' \subseteq 1 .. created
            /\ 1 .. created \subseteq Queues
            BY <1>4 DEF CloseTable, TypeOK, KeyQueueParams, Queues
      <2> QED  BY <1>1, <1>2, <1>4, <2>1 DEF CloseTable, CloseStep, TypeOK, Tables,
                              TableIsServed, CloseEndsWorkers
<1>5. CASE CloseStops
      <2>1. \A p \in Queues : p > created => p \notin condemned  BY DEF TypeOK, Tables, Queues
      <2> QED  BY <1>1, <1>2, <1>5, <2>1 DEF CloseStops, CloseStep, TypeOK, Tables,
                              TableIsServed, CloseEndsWorkers
<1> QED  BY <1>3, <1>4, <1>5 DEF CloseGoesOn

LEMMA QueueStep == ASSUME KeyQueueParams, QueueInv, [Next]_vars PROVE QueueInv'
<1>1. CASE UNCHANGED vars
      BY <1>1 DEF vars, QueueInv, TypeOK, Queued, Waits, Sending, Told, Placed, Tables,
                  TableIsServed, CloseEndsWorkers, Running
<1>2. CASE Next
      BY <1>2, CallerKeeps, GetKeyQueueKeeps, EnqueueKeeps, TakeJobKeeps, FinishJobKeeps,
         LeavingKeeps, CloseKeeps DEF Next, CallerStep, WorkerStep
<1> QED  BY <1>1, <1>2

LEMMA QueueMeaning ==
    ASSUME KeyQueueParams, QueueInv
    PROVE  TypeOK /\ UnprocessedIsTrue /\ TableIsServed /\ CloseEndsWorkers
<1>1. UnprocessedIsTrue
      <2> SUFFICES ASSUME NEW c \in Calls, caller[c] \in {"busClosed", "stopped", "unprocessed"}
                   PROVE  done[c] = "none" /\ \A q \in Queues : job[q] # c
          BY DEF UnprocessedIsTrue
      <2>1. done[c] = "none"  BY DEF QueueInv, Told, Results
      <2>2. \A q \in Queues : job[q] # c  BY DEF KeyQueueParams, QueueInv, Sending
      <2> QED  BY <2>1, <2>2
<1> QED  BY <1>1 DEF QueueInv, Tables

(* SendQueueEventToPlayer, runKeyQueue, retireKeyQueue, Close: whatever    *)
(* the calls, retirements and queues, and wherever Close comes between, a  *)
(* job reported as unprocessed is neither sent nor in a worker's hands, a  *)
(* queue in the table is served, and a Close in time leaves no worker.     *)
THEOREM QueueTellsTheTruth ==
    ASSUME KeyQueueParams
    PROVE  Spec => [](TypeOK /\ UnprocessedIsTrue /\ TableIsServed /\ CloseEndsWorkers)
<1>1. Init => QueueInv  BY QueueStart
<1>2. QueueInv /\ [Next]_vars => QueueInv'  BY QueueStep
<1>3. QueueInv => TypeOK /\ UnprocessedIsTrue /\ TableIsServed /\ CloseEndsWorkers
      BY QueueMeaning
<1> QED  BY <1>1, <1>2, <1>3, PTL DEF Spec

-----------------------------------------------------------------------------
(* The dead-letter queue. *)
CONSTANTS DeadIds, States, DeadCapacity, MaxSlots
VARIABLES items, head, index
M == INSTANCE MemoryDLQ WITH Capacity <- DeadCapacity

Ids(s, h) == {s[i].id : i \in h + 1 .. Len(s)}
Distinct(s, h) == \A i, j \in h + 1 .. Len(s) : s[i].id = s[j].id => i = j
Indexed(s, h, idx) ==
    /\ DOMAIN idx = Ids(s, h)
    /\ \A id \in DOMAIN idx : idx[id] \in h + 1 .. Len(s) /\ s[idx[id]].id = id

(* No id has two live slots, and the index knows which is its.             *)
DeadInv ==
    /\ items \in Seq(M!Record) /\ head \in Nat /\ head <= Len(items)
    /\ Len(items) - head <= DeadCapacity
    /\ Distinct(items, head) /\ Indexed(items, head, index)

(* The live part of a slice.                                               *)
LEMMA LiveIs ==
    ASSUME NEW S, NEW s \in Seq(S), NEW h \in Nat, h <= Len(s)
    PROVE  /\ M!Live(s, h) \in Seq(S) /\ Len(M!Live(s, h)) = Len(s) - h
           /\ \A i \in 1 .. Len(s) - h : M!Live(s, h)[i] = s[h + i]
<1>1. Len(s) \in Nat  OBVIOUS
<1>2. \A i \in h + 1 .. Len(s) : i \in 1 .. Len(s)  BY <1>1
<1> QED  BY <1>1, <1>2 DEF M!Live

(* Appending a record of a new id, and noting its slot.                    *)
LEMMA AppendIndexed ==
    ASSUME NEW S, NEW s \in Seq(S), NEW h \in Nat, h <= Len(s), NEW idx,
           Distinct(s, h), Indexed(s, h, idx), NEW d \in S, d.id \notin DOMAIN idx
    PROVE  /\ Distinct(Append(s, d), h)
           /\ Indexed(Append(s, d), h, M!With(idx, d.id, Len(s) + 1))
<1> DEFINE t == Append(s, d)
           n == Len(s)
<1>1. n \in Nat /\ Len(t) = n + 1 /\ t[n + 1] = d /\ \A i \in 1 .. n : t[i] = s[i]
      OBVIOUS
<1> HIDE DEF t, n
<1>2. \A i \in h + 1 .. n : i \in 1 .. n /\ t[i] = s[i] /\ s[i].id # d.id
      BY <1>1 DEF Indexed, Ids, n
<1>3. \A i : i \in h + 1 .. n + 1 <=> i \in h + 1 .. n \/ i = n + 1
      BY <1>1 DEF n
<1>4. Distinct(t, h)
      BY <1>1, <1>2, <1>3 DEF Distinct, n
<1>5. Ids(t, h) = Ids(s, h) \union {d.id}
      BY <1>1, <1>2, <1>3 DEF Ids, n
<1>6. Indexed(t, h, M!With(idx, d.id, n + 1))
      BY <1>1, <1>2, <1>3, <1>5 DEF Indexed, M!With, n
<1> QED  BY <1>4, <1>6 DEF t, n

(* Stepping over the oldest record.                                        *)
LEMMA SkipIndexed ==
    ASSUME NEW S, NEW s \in Seq(S), NEW h \in Nat, h < Len(s), NEW idx,
           Distinct(s, h), Indexed(s, h, idx)
    PROVE  /\ Distinct(s, h + 1)
           /\ Indexed(s, h + 1, M!Without(idx, s[h + 1].id))
<1>1. Len(s) \in Nat  OBVIOUS
<1>2. \A i : i \in h + 1 .. Len(s) <=> i \in h + 2 .. Len(s) \/ i = h + 1
      BY <1>1
<1>3. (h + 1) + 1 = h + 2 /\ \A i \in h + 2 .. Len(s) : i # h + 1  BY <1>1
<1>4. Distinct(s, h + 1)  BY <1>2, <1>3 DEF Distinct
<1>5. \A i \in h + 2 .. Len(s) : s[i].id # s[h + 1].id  BY <1>2, <1>3 DEF Distinct
<1>6. Ids(s, h + 1) = Ids(s, h) \ {s[h + 1].id}
      BY <1>2, <1>3, <1>5 DEF Ids
<1>7. Indexed(s, h + 1, M!Without(idx, s[h + 1].id))
      BY <1>2, <1>3, <1>6 DEF Indexed, M!Without
<1> QED  BY <1>4, <1>7

(* Compacting: the loop finds each id where it is now.                     *)
LEMMA CompactIndexed ==
    ASSUME NEW S, NEW s \in Seq(S), NEW h \in Nat, h <= Len(s), NEW idx,
           Distinct(s, h), Indexed(s, h, idx)
    PROVE  /\ Distinct(M!Live(s, h), 0)
           /\ Indexed(M!Live(s, h), 0, M!Reindex(idx, M!Live(s, h), 1))
<1> DEFINE t == M!Live(s, h)
           r == M!Reindex(idx, t, 1)
<1>1. /\ t \in Seq(S) /\ Len(t) = Len(s) - h /\ Len(s) \in Nat
      /\ \A i \in 1 .. Len(t) : t[i] = s[h + i] /\ h + i \in h + 1 .. Len(s)
      BY LiveIs
<1>2. 0 + 1 = 1 /\ \A k \in h + 1 .. Len(s) : k - h \in 1 .. Len(t) /\ h + (k - h) = k
      BY <1>1
<1>3. r = [id \in DOMAIN idx |->
              IF \E i \in 1 .. Len(t) : t[i].id = id
              THEN CHOOSE i \in 1 .. Len(t) : t[i].id = id ELSE idx[id]]
      BY DEF M!Reindex
<1> HIDE DEF t, r
<1>4. Distinct(t, 0)
      <2> SUFFICES ASSUME NEW i \in 1 .. Len(t), NEW j \in 1 .. Len(t), t[i].id = t[j].id
                   PROVE  i = j
          BY <1>1 DEF Distinct
      <2>1. h + i \in h + 1 .. Len(s) /\ h + j \in h + 1 .. Len(s)  BY <1>1
      <2>2. s[h + i].id = s[h + j].id  BY <1>1
      <2>3. h + i = h + j  BY <2>1, <2>2 DEF Distinct
      <2> QED  BY <2>3
<1>5. Ids(t, 0) = Ids(s, h)
      <2>1. \A i \in 1 .. Len(t) : t[i].id = s[h + i].id  BY <1>1
      <2>2. \A k \in h + 1 .. Len(s) : s[k].id = t[k - h].id  BY <1>1, <1>2
      <2>3. Ids(t, 0) \subseteq Ids(s, h)
            <3>1. Ids(t, 0) = {t[i].id : i \in 1 .. Len(t)}  BY <1>2 DEF Ids
            <3> QED  BY <1>1, <2>1, <3>1 DEF Ids
      <2>4. Ids(s, h) \subseteq Ids(t, 0)
            <3>1. Ids(t, 0) = {t[i].id : i \in 1 .. Len(t)}  BY <1>2 DEF Ids
            <3> SUFFICES ASSUME NEW k \in h + 1 .. Len(s) PROVE s[k].id \in Ids(t, 0)
                BY DEF Ids
            <3>2. k - h \in 1 .. Len(t) /\ s[k].id = t[k - h].id  BY <1>2, <2>2
            <3> QED  BY <3>1, <3>2
      <2> QED  BY <2>3, <2>4
<1>6. \A id \in DOMAIN idx : \E i \in 1 .. Len(t) : t[i].id = id
      BY <1>2, <1>5 DEF Indexed, Ids
<1>7. ASSUME NEW id \in DOMAIN idx
      PROVE  r[id] \in 1 .. Len(t) /\ t[r[id]].id = id
      BY <1>3, <1>6
<1>8. Indexed(t, 0, r)  BY <1>2, <1>3, <1>5, <1>7 DEF Indexed
<1> QED  BY <1>4, <1>8 DEF t, r

LEMMA CutIs ==
    ASSUME NEW S, NEW s \in Seq(S), NEW k \in 1 .. Len(s)
    PROVE  /\ M!Cut(s, k) \in Seq(S) /\ Len(M!Cut(s, k)) = Len(s) - 1
           /\ \A i \in 1 .. Len(s) - 1 : M!Cut(s, k)[i] = s[IF i < k THEN i ELSE i + 1]
<1>1. PICK n \in Nat : n = Len(s) - 1 /\ Len(s) = n + 1
      <2>1. Len(s) \in Nat /\ Len(s) # 0  OBVIOUS
      <2>2. Len(s) - 1 \in Nat /\ Len(s) = (Len(s) - 1) + 1  BY <2>1
      <2> QED  BY <2>2
<1>2. \A i \in 1 .. n : s[IF i < k THEN i ELSE i + 1] \in S  BY <1>1
<1>3. M!Cut(s, k) = [i \in 1 .. n |-> s[IF i < k THEN i ELSE i + 1]]
      BY <1>1 DEF M!Cut
<1>4. M!Cut(s, k) \in [1 .. n -> S]  BY <1>2, <1>3
<1>5. M!Cut(s, k) \in Seq(S)  BY <1>4, SeqDef
<1>6. Len(M!Cut(s, k)) = n
      <2>1. 1 .. Len(M!Cut(s, k)) = 1 .. n /\ Len(M!Cut(s, k)) \in Nat
            BY <1>4, <1>5, LenProperties
      <2> QED  BY <2>1
<1> QED  BY <1>1, <1>3, <1>5, <1>6

(* Closing a gap: what is behind it moved by one, what is before it stays. *)
LEMMA CutIndexed ==
    ASSUME NEW S, NEW s \in Seq(S), NEW h \in Nat, NEW k \in h + 1 .. Len(s), NEW idx,
           Distinct(s, h), Indexed(s, h, idx)
    PROVE  /\ Distinct(M!Cut(s, k), h)
           /\ Indexed(M!Cut(s, k), h, M!Reindex(M!Without(idx, s[k].id), M!Cut(s, k), k))
<1> DEFINE t == M!Cut(s, k)
           r == M!Reindex(M!Without(idx, s[k].id), t, k)
           From(i) == IF i < k THEN i ELSE i + 1
<1>1. PICK n \in Nat : Len(s) = n + 1 /\ Len(s) - 1 = n
      <2>1. Len(s) \in Nat /\ Len(s) # 0  OBVIOUS
      <2>2. Len(s) - 1 \in Nat /\ Len(s) = (Len(s) - 1) + 1  BY <2>1
      <2> QED  BY <2>2
<1>2. k \in 1 .. Len(s)  OBVIOUS
<1>3. Len(t) = n /\ \A i \in 1 .. n : t[i] = s[From(i)]
      BY <1>1, <1>2, CutIs
<1>4. \A i \in h + 1 .. n : /\ i \in 1 .. n /\ From(i) \in h + 1 .. n + 1 /\ From(i) # k
                            /\ t[i] = s[From(i)]
      BY <1>1, <1>3
<1>5. \A i, j \in h + 1 .. n : From(i) = From(j) => i = j
      BY <1>1
<1>6. \A m \in h + 1 .. n + 1 : m # k => \E i \in h + 1 .. n :
          /\ From(i) = m /\ t[i] = s[m] /\ (m > k => i \in k .. n) /\ (m < k => i = m)
      <2> SUFFICES ASSUME NEW m \in h + 1 .. n + 1, m # k
                   PROVE  \E i \in h + 1 .. n :
                            /\ From(i) = m /\ t[i] = s[m]
                            /\ (m > k => i \in k .. n) /\ (m < k => i = m)
          OBVIOUS
      <2>1. CASE m < k
            <3>1. m \in h + 1 .. n /\ From(m) = m  BY <1>1, <2>1
            <3> QED  BY <1>4, <2>1, <3>1
      <2>2. CASE m > k
            <3>1. m - 1 \in h + 1 .. n /\ From(m - 1) = m /\ m - 1 \in k .. n  BY <1>1, <2>2
            <3>2. t[m - 1] = s[m] /\ ~(m < k)  BY <1>1, <1>4, <2>2, <3>1
            <3> QED  BY <3>1, <3>2
      <2> QED  BY <2>1, <2>2
<1>7. \A i, j \in h + 1 .. n + 1 : s[i].id = s[j].id => i = j
      BY <1>1 DEF Distinct
<1>8. \A i \in k .. n : i \in h + 1 .. n /\ From(i) = i + 1 /\ i + 1 \in h + 1 .. n + 1
      BY <1>1
<1>9. r = [id \in DOMAIN idx \ {s[k].id} |->
              IF \E i \in k .. n : t[i].id = id
              THEN CHOOSE i \in k .. n : t[i].id = id ELSE idx[id]]
      BY <1>3 DEF M!Reindex, M!Without
<1>10. Len(s) = n + 1  BY <1>1
<1> HIDE DEF t, r, From
<1>11. Distinct(t, h)
      <2>1. SUFFICES ASSUME NEW i \in h + 1 .. n, NEW j \in h + 1 .. n, t[i].id = t[j].id
                     PROVE  i = j
            BY <1>3 DEF Distinct
      <2>2. From(i) = From(j)  BY <1>4, <1>7, <2>1
      <2> QED  BY <1>5, <2>2
<1>12. Ids(t, h) = Ids(s, h) \ {s[k].id}
      <2>1. Ids(t, h) = {t[i].id : i \in h + 1 .. n}  BY <1>3 DEF Ids
      <2>2. Ids(s, h) = {s[i].id : i \in h + 1 .. n + 1}  BY <1>10 DEF Ids
      <2>3. k \in h + 1 .. n + 1  BY <1>10
      <2>4. ASSUME NEW i \in h + 1 .. n PROVE t[i].id \in Ids(s, h) \ {s[k].id}
            BY <1>4, <1>7, <2>2, <2>3
      <2>5. ASSUME NEW m \in h + 1 .. n + 1, s[m].id # s[k].id
            PROVE  s[m].id \in Ids(t, h)
            BY <1>6, <2>1, <2>5
      <2> QED  BY <2>1, <2>2, <2>4, <2>5
<1>13. ASSUME NEW id \in DOMAIN idx, id # s[k].id
       PROVE  r[id] \in h + 1 .. n /\ t[r[id]].id = id
      <2>1. PICK m \in h + 1 .. n + 1 : m = idx[id] /\ s[m].id = id /\ m # k
            BY <1>10, <1>13 DEF Indexed
      <2>2. PICK i \in h + 1 .. n : /\ From(i) = m /\ t[i] = s[m]
                                   /\ (m > k => i \in k .. n) /\ (m < k => i = m)
            BY <1>6, <2>1
      <2>3. CASE m > k
            <3>1. r[id] \in k .. n /\ t[r[id]].id = id
                  BY <1>9, <1>13, <2>1, <2>2, <2>3
            <3> QED  BY <1>8, <3>1
      <2>4. CASE m < k
            <3>1. \A j \in k .. n : t[j].id # id
                  <4> TAKE j \in k .. n
                  <4>1. t[j] = s[j + 1] /\ j + 1 \in h + 1 .. n + 1 /\ j + 1 # m
                        BY <1>4, <1>8, <2>4
                  <4> QED  BY <1>7, <2>1, <4>1
            <3>2. r[id] = m  BY <1>9, <1>13, <2>1, <3>1
            <3> QED  BY <2>1, <2>2, <2>4, <3>2
      <2>5. m > k \/ m < k  BY <2>1
      <2> QED  BY <2>3, <2>4, <2>5
<1>14. Indexed(t, h, r)
      <2>1. DOMAIN r = DOMAIN idx \ {s[k].id}  BY <1>9
      <2> QED  BY <1>3, <1>12, <1>13, <2>1 DEF Indexed
<1> QED  BY <1>11, <1>14 DEF t, r

-----------------------------------------------------------------------------
Letters == M!Live(items, head)

LEMMA LettersAre ==
    ASSUME DeadInv
    PROVE  /\ Letters \in Seq(M!Record) /\ Len(Letters) = Len(items) - head
           /\ \A i \in 1 .. Len(items) - head : Letters[i] = items[head + i]
           /\ DOMAIN index = M!Abstract!IdsIn(Letters)
<1>1. /\ Letters \in Seq(M!Record) /\ Len(Letters) = Len(items) - head
      /\ \A i \in 1 .. Len(items) - head : Letters[i] = items[head + i]
      BY LiveIs DEF DeadInv, Letters
<1>2. Len(items) \in Nat /\ head \in Nat /\ head <= Len(items)  BY DEF DeadInv
<1>3. \A k \in head + 1 .. Len(items) :
          k - head \in 1 .. Len(items) - head /\ head + (k - head) = k
      BY <1>2
<1>4. \A i \in 1 .. Len(items) - head : head + i \in head + 1 .. Len(items)  BY <1>2
<1>5. M!Abstract!IdsIn(Letters) \subseteq Ids(items, head)
      BY <1>1, <1>4 DEF M!Abstract!IdsIn, Ids
<1>6. Ids(items, head) \subseteq M!Abstract!IdsIn(Letters)
      <2>1. \A k \in head + 1 .. Len(items) : items[k].id = Letters[k - head].id
            BY <1>1, <1>3
      <2> QED  BY <1>1, <1>3, <2>1 DEF M!Abstract!IdsIn, Ids
<1> QED  BY <1>1, <1>5, <1>6 DEF DeadInv, Indexed

(* A state put together from a slice and an index that fit.                *)
LEMMA Rebuilt ==
    ASSUME NEW s \in Seq(M!Record), NEW h \in Nat, NEW idx, h <= Len(s),
           Len(s) - h <= DeadCapacity, Distinct(s, h), Indexed(s, h, idx),
           items' = s, head' = h, index' = idx
    PROVE  DeadInv' /\ Letters' = M!Live(s, h)
    BY DEF DeadInv, Letters

LEMMA LiveAppend ==
    ASSUME NEW S, NEW s \in Seq(S), NEW h \in Nat, h <= Len(s), NEW d \in S
    PROVE  M!Live(Append(s, d), h) = Append(M!Live(s, h), d)
<1>1. Append(s, d) \in Seq(S) /\ Len(Append(s, d)) = Len(s) + 1 /\ Len(s) \in Nat
      /\ \A i \in 1 .. Len(s) : Append(s, d)[i] = s[i]
      /\ Append(s, d)[Len(s) + 1] = d
      OBVIOUS
<1>2. /\ M!Live(s, h) \in Seq(S) /\ Len(M!Live(s, h)) = Len(s) - h
      /\ \A i \in 1 .. Len(s) - h : M!Live(s, h)[i] = s[h + i]
      BY LiveIs
<1>3. /\ M!Live(Append(s, d), h) \in Seq(S) /\ Len(M!Live(Append(s, d), h)) = Len(s) + 1 - h
      /\ \A i \in 1 .. Len(s) + 1 - h : M!Live(Append(s, d), h)[i] = Append(s, d)[h + i]
      <2> DEFINE u == Append(s, d)
      <2>1. u \in Seq(S) /\ h <= Len(u) /\ Len(u) = Len(s) + 1  BY <1>1
      <2> HIDE DEF u
      <2>2. /\ M!Live(u, h) \in Seq(S) /\ Len(M!Live(u, h)) = Len(u) - h
            /\ \A i \in 1 .. Len(u) - h : M!Live(u, h)[i] = u[h + i]
            BY <2>1, LiveIs
      <2> QED  BY <2>1, <2>2 DEF u
<1>4. /\ Append(M!Live(s, h), d) \in Seq(S) /\ Len(Append(M!Live(s, h), d)) = Len(s) - h + 1
      /\ \A i \in 1 .. Len(s) - h : Append(M!Live(s, h), d)[i] = M!Live(s, h)[i]
      /\ Append(M!Live(s, h), d)[Len(s) - h + 1] = d
      BY <1>2
<1>5. ASSUME NEW i \in 1 .. Len(s) + 1 - h
      PROVE  M!Live(Append(s, d), h)[i] = Append(M!Live(s, h), d)[i]
      <2>1. CASE i \in 1 .. Len(s) - h
            <3>1. h + i \in 1 .. Len(s)  BY <1>1, <2>1
            <3> QED  BY <1>1, <1>2, <1>3, <1>4, <2>1, <3>1
      <2>2. CASE i = Len(s) - h + 1
            <3>1. h + i = Len(s) + 1  BY <1>1, <2>2
            <3> QED  BY <1>1, <1>3, <1>4, <2>2, <3>1
      <2>3. i \in 1 .. Len(s) - h \/ i = Len(s) - h + 1
            <3>1. Len(s) \in Nat /\ h \in Nat  OBVIOUS
            <3> HIDE DEF M!Live
            <3> QED  BY <3>1
      <2> QED  BY <2>1, <2>2, <2>3
<1>6. Len(s) + 1 - h = Len(s) - h + 1  BY <1>1
<1> QED  BY <1>3, <1>4, <1>5, <1>6, SeqEqual

LEMMA LiveSkip ==
    ASSUME NEW S, NEW s \in Seq(S), NEW h \in Nat, h < Len(s)
    PROVE  M!Live(s, h + 1) = Tail(M!Live(s, h)) /\ M!Live(s, h) # <<>>
<1>1. /\ M!Live(s, h) \in Seq(S) /\ Len(M!Live(s, h)) = Len(s) - h /\ Len(s) \in Nat
      /\ \A i \in 1 .. Len(s) - h : M!Live(s, h)[i] = s[h + i]
      BY LiveIs
<1>2. /\ M!Live(s, h + 1) \in Seq(S) /\ Len(M!Live(s, h + 1)) = Len(s) - (h + 1)
      /\ \A i \in 1 .. Len(s) - (h + 1) : M!Live(s, h + 1)[i] = s[(h + 1) + i]
      <2> DEFINE g == h + 1
      <2>1. g \in Nat /\ g <= Len(s)  BY <1>1
      <2> HIDE DEF g
      <2>2. /\ M!Live(s, g) \in Seq(S) /\ Len(M!Live(s, g)) = Len(s) - g
            /\ \A i \in 1 .. Len(s) - g : M!Live(s, g)[i] = s[g + i]
            BY <2>1, LiveIs
      <2> QED  BY <2>2 DEF g
<1>3. M!Live(s, h) # <<>>  BY <1>1
<1>4. /\ Tail(M!Live(s, h)) \in Seq(S) /\ Len(Tail(M!Live(s, h))) = Len(s) - h - 1
      /\ \A i \in 1 .. Len(s) - h - 1 : Tail(M!Live(s, h))[i] = M!Live(s, h)[i + 1]
      BY <1>1, <1>3, HeadTailProperties
<1>5. Len(s) - h - 1 = Len(s) - (h + 1)  BY <1>1
<1>6. \A i \in 1 .. Len(s) - (h + 1) : /\ i + 1 \in 1 .. Len(s) - h
                                       /\ h + (i + 1) = (h + 1) + i
      BY <1>1
<1>7. \A i \in 1 .. Len(s) - (h + 1) : M!Live(s, h + 1)[i] = Tail(M!Live(s, h))[i]
      BY <1>1, <1>2, <1>4, <1>5, <1>6
<1>8. M!Live(s, h + 1) = Tail(M!Live(s, h))  BY <1>2, <1>4, <1>5, <1>7, SeqEqual
<1> QED  BY <1>3, <1>8

LEMMA LiveCut ==
    ASSUME NEW S, NEW s \in Seq(S), NEW h \in Nat, NEW k \in h + 1 .. Len(s)
    PROVE  M!Live(M!Cut(s, k), h) = M!Cut(M!Live(s, h), k - h)
<1>1. PICK n \in Nat : Len(s) = n + 1 /\ h <= n
      <2>1. Len(s) \in Nat /\ h + 1 <= Len(s)  OBVIOUS
      <2>2. Len(s) - 1 \in Nat /\ Len(s) = (Len(s) - 1) + 1 /\ h <= Len(s) - 1  BY <2>1
      <2> QED  BY <2>2
<1>2. k \in 1 .. Len(s) /\ k - h \in 1 .. n + 1 - h  BY <1>1
<1>3. /\ M!Cut(s, k) \in Seq(S) /\ Len(M!Cut(s, k)) = n
      /\ \A i \in 1 .. n : M!Cut(s, k)[i] = s[IF i < k THEN i ELSE i + 1]
      <2>1. /\ M!Cut(s, k) \in Seq(S) /\ Len(M!Cut(s, k)) = Len(s) - 1
            /\ \A i \in 1 .. Len(s) - 1 : M!Cut(s, k)[i] = s[IF i < k THEN i ELSE i + 1]
            BY <1>2, CutIs
      <2>2. Len(s) - 1 = n  BY <1>1
      <2> QED  BY <2>1, <2>2
<1>4. /\ M!Live(s, h) \in Seq(S) /\ Len(M!Live(s, h)) = n + 1 - h
      /\ \A i \in 1 .. n + 1 - h : M!Live(s, h)[i] = s[h + i]
      <2>1. h <= Len(s)  BY <1>1
      <2>2. /\ M!Live(s, h) \in Seq(S) /\ Len(M!Live(s, h)) = Len(s) - h
            /\ \A i \in 1 .. Len(s) - h : M!Live(s, h)[i] = s[h + i]
            BY <2>1, LiveIs
      <2> QED  BY <1>1, <2>2
<1>5. /\ M!Live(M!Cut(s, k), h) \in Seq(S) /\ Len(M!Live(M!Cut(s, k), h)) = n - h
      /\ \A i \in 1 .. n - h : M!Live(M!Cut(s, k), h)[i] = M!Cut(s, k)[h + i]
      BY <1>1, <1>3, LiveIs
<1>6. /\ M!Cut(M!Live(s, h), k - h) \in Seq(S) /\ Len(M!Cut(M!Live(s, h), k - h)) = n - h
      /\ \A i \in 1 .. n - h : M!Cut(M!Live(s, h), k - h)[i] =
                                 M!Live(s, h)[IF i < k - h THEN i ELSE i + 1]
      <2> DEFINE u == M!Live(s, h)
      <2>1. (n + 1 - h) - 1 = n - h  BY <1>1
      <2>2. u \in Seq(S) /\ k - h \in 1 .. Len(u) /\ Len(u) - 1 = n - h
            BY <1>2, <1>4, <2>1
      <2> HIDE DEF u
      <2>3. /\ M!Cut(u, k - h) \in Seq(S) /\ Len(M!Cut(u, k - h)) = Len(u) - 1
            /\ \A i \in 1 .. Len(u) - 1 : M!Cut(u, k - h)[i] = u[IF i < k - h THEN i ELSE i + 1]
            BY <2>2, CutIs
      <2> QED  BY <2>2, <2>3 DEF u
<1>7. ASSUME NEW i \in 1 .. n - h
      PROVE  M!Live(M!Cut(s, k), h)[i] = M!Cut(M!Live(s, h), k - h)[i]
      <2>1. h + i \in 1 .. n /\ i \in 1 .. n + 1 - h /\ i + 1 \in 1 .. n + 1 - h
            /\ h + (i + 1) = h + i + 1 /\ (i < k - h <=> h + i < k)
            BY <1>1, <1>2
      <2>2. CASE h + i < k
            BY <1>3, <1>4, <1>5, <1>6, <2>1, <2>2
      <2>3. CASE ~(h + i < k)
            BY <1>3, <1>4, <1>5, <1>6, <2>1, <2>3
      <2> QED  BY <2>2, <2>3
<1> QED  BY <1>5, <1>6, <1>7, SeqEqual

(* Push of an id the queue holds.                                          *)
LEMMA OverwriteIsPush ==
    ASSUME DeadInv, NEW d \in M!Record, M!Overwrite(d)
    PROVE  DeadInv' /\ M!Abstract!Push(d)
<1>1. items \in Seq(M!Record) /\ head \in Nat /\ Len(items) \in Nat /\ head <= Len(items)
      BY DEF DeadInv
<1>2. PICK k \in head + 1 .. Len(items) :
          /\ k = index[d.id] /\ items[k].id = d.id /\ items' = [items EXCEPT ![k] = d]
          /\ UNCHANGED <<head, index>>
      BY DEF M!Overwrite, DeadInv, Indexed
<1> DEFINE s == [items EXCEPT ![k] = d]
<1>3. /\ k \in 1 .. Len(items) /\ s \in Seq(M!Record) /\ Len(s) = Len(items)
      /\ \A j \in 1 .. Len(items) : s[j] = IF j = k THEN d ELSE items[j]
      BY <1>1
<1>4. items' = s  BY <1>2
<1> HIDE DEF s
<1>5. \A j \in head + 1 .. Len(items) : j \in 1 .. Len(items) /\ s[j].id = items[j].id
      BY <1>1, <1>2, <1>3
<1>6. Distinct(s, head) /\ Indexed(s, head, index)
      <2>1. Distinct(items, head) /\ Indexed(items, head, index)  BY DEF DeadInv
      <2>2. Distinct(s, head)  BY <1>3, <1>5, <2>1 DEF Distinct
      <2>3. Ids(s, head) = Ids(items, head)  BY <1>3, <1>5 DEF Ids
      <2>4. Indexed(s, head, index)  BY <1>3, <1>5, <2>1, <2>3 DEF Indexed
      <2> QED  BY <2>2, <2>4
<1>7. DeadInv' /\ Letters' = M!Live(s, head)
      BY <1>1, <1>2, <1>3, <1>4, <1>6, Rebuilt DEF DeadInv
<1>8. /\ M!Live(s, head) \in Seq(M!Record) /\ Len(M!Live(s, head)) = Len(items) - head
      /\ \A i \in 1 .. Len(items) - head : M!Live(s, head)[i] = s[head + i]
      <2>1. /\ M!Live(s, head) \in Seq(M!Record) /\ Len(M!Live(s, head)) = Len(s) - head
            /\ \A i \in 1 .. Len(s) - head : M!Live(s, head)[i] = s[head + i]
            <3>1. s \in Seq(M!Record) /\ head \in Nat /\ head <= Len(s)  BY <1>1, <1>3
            <3> QED  BY <3>1, LiveIs
      <2> QED  BY <1>3, <2>1
<1>9. /\ Letters \in Seq(M!Record) /\ Len(Letters) = Len(items) - head
      /\ \A i \in 1 .. Len(items) - head : Letters[i] = items[head + i]
      BY LettersAre
<1>10. PICK m \in 1 .. Len(Letters) : head + m = k
       <2>1. k - head \in 1 .. Len(items) - head /\ head + (k - head) = k  BY <1>1
       <2> QED  BY <1>9, <2>1
<1>11. /\ [Letters EXCEPT ![m] = d] \in Seq(M!Record)
       /\ Len([Letters EXCEPT ![m] = d]) = Len(Letters)
       /\ \A j \in 1 .. Len(Letters) : [Letters EXCEPT ![m] = d][j] = IF j = m THEN d ELSE Letters[j]
       BY <1>9, <1>10, ExceptSeq
<1>12. \A i \in 1 .. Len(Letters) : M!Live(s, head)[i] = [Letters EXCEPT ![m] = d][i]
       <2> TAKE i \in 1 .. Len(Letters)
       <2>1. head + i \in 1 .. Len(items) /\ (head + i = k <=> i = m)  BY <1>1, <1>9, <1>10
       <2> QED  BY <1>3, <1>8, <1>9, <1>11, <2>1
<1>13. M!Live(s, head) = [Letters EXCEPT ![m] = d]
       BY <1>8, <1>9, <1>11, <1>12, SeqEqual
<1>14. Letters[m].id = d.id  BY <1>2, <1>9, <1>10
<1> QED  BY <1>7, <1>10, <1>13, <1>14 DEF M!Abstract!Push, Letters

(* Push of a new id, into a queue with room and into a full one, with and  *)
(* without a compaction.                                                   *)
LEMMA PushIsPush ==
    ASSUME M!MemoryDLQParams, DeadInv, NEW d \in M!Record, M!Push(d)
    PROVE  DeadInv' /\ M!Abstract!Push(d)
<1>1. /\ items \in Seq(M!Record) /\ head \in Nat /\ Len(items) \in Nat /\ head <= Len(items)
      /\ Distinct(items, head) /\ Indexed(items, head, index)
      /\ Len(items) - head <= DeadCapacity /\ DeadCapacity \in Nat \ {0}
      BY DEF DeadInv, M!MemoryDLQParams
<1>2. d.id \notin DOMAIN index  BY DEF M!Push
<1>3. /\ Letters \in Seq(M!Record) /\ Len(Letters) = Len(items) - head
      /\ DOMAIN index = M!Abstract!IdsIn(Letters) /\ Letters = M!Live(items, head)
      BY LettersAre DEF Letters
<1>4. SUFFICES ASSUME NEW s \in Seq(M!Record), NEW h \in Nat, NEW idx, h <= Len(s),
                      Len(s) - h < DeadCapacity, Distinct(s, h), Indexed(s, h, idx),
                      d.id \notin DOMAIN idx,
                      items' = Append(s, d), head' = h, index' = M!With(idx, d.id, Len(s) + 1),
                      M!Live(s, h) =
                          IF Len(Letters) >= DeadCapacity THEN Tail(Letters) ELSE Letters
               PROVE  DeadInv' /\ M!Abstract!Push(d)
      <2>1. CASE ~(Len(items) - head >= DeadCapacity)
            <3>1. /\ items' = Append(items, d) /\ head' = head
                  /\ index' = M!With(index, d.id, Len(items) + 1)
                  BY <2>1 DEF M!Push, M!LiveLen
            <3>2. Len(items) - head < DeadCapacity  BY <1>1, <2>1
            <3> QED  BY <1>1, <1>2, <1>3, <1>4, <2>1, <3>1, <3>2
      <2>2. CASE Len(items) - head >= DeadCapacity
            <3> DEFINE g == head + 1
                       kept == M!Without(index, items[g].id)
                       base == M!Live(items, g)
            <3>1. g \in Nat /\ g <= Len(items) /\ head < Len(items)
                  /\ Len(items) - g < DeadCapacity
                  BY <1>1, <2>2
            <3>2. Distinct(items, g) /\ Indexed(items, g, kept)
                  BY <1>1, <3>1, SkipIndexed
            <3>3. base = Tail(Letters)  BY <1>1, <1>3, <3>1, LiveSkip
            <3>4. d.id \notin DOMAIN kept  BY <1>2 DEF M!Without
            <3>5. \/ /\ items' = Append(items, d) /\ head' = g
                     /\ index' = M!With(kept, d.id, Len(items) + 1)
                  \/ /\ items' = Append(base, d) /\ head' = 0
                     /\ index' = M!With(M!Reindex(kept, base, 1), d.id, Len(base) + 1)
                  BY <2>2 DEF M!Push, M!LiveLen
            <3> HIDE DEF g, kept, base
            <3>6. CASE /\ items' = Append(items, d) /\ head' = g
                       /\ index' = M!With(kept, d.id, Len(items) + 1)
                  BY <1>1, <1>3, <1>4, <2>2, <3>1, <3>2, <3>3, <3>4, <3>6 DEF base
            <3>7. CASE /\ items' = Append(base, d) /\ head' = 0
                       /\ index' = M!With(M!Reindex(kept, base, 1), d.id, Len(base) + 1)
                  <4>1. Distinct(base, 0) /\ Indexed(base, 0, M!Reindex(kept, base, 1))
                        BY <1>1, <3>1, <3>2, CompactIndexed DEF base
                  <4>2. base \in Seq(M!Record) /\ Len(base) = Len(items) - g
                        BY <1>1, <3>1, LiveIs DEF base
                  <4>3. 0 <= Len(base) /\ Len(base) - 0 < DeadCapacity
                        BY <1>1, <3>1, <4>2
                  <4>4. M!Live(base, 0) = base
                        <5>1. 0 + 1 = 1  OBVIOUS
                        <5> QED  BY <4>2, <5>1, SubSeqFull DEF M!Live
                  <4>5. d.id \notin DOMAIN M!Reindex(kept, base, 1)  BY <3>4 DEF M!Reindex
                  <4> QED  BY <1>3, <1>4, <2>2, <3>3, <3>7, <4>1, <4>2, <4>3, <4>4, <4>5
            <3> QED  BY <3>5, <3>6, <3>7
      <2> QED  BY <2>1, <2>2
<1>5. /\ Distinct(Append(s, d), h)
      /\ Indexed(Append(s, d), h, M!With(idx, d.id, Len(s) + 1))
      BY <1>4, AppendIndexed
<1>6. M!Live(Append(s, d), h) = Append(M!Live(s, h), d)  BY <1>4, LiveAppend
<1>7. /\ Append(s, d) \in Seq(M!Record) /\ h <= Len(Append(s, d))
      /\ Len(Append(s, d)) - h <= DeadCapacity
      BY <1>1, <1>4
<1>8. DeadInv' /\ Letters' = M!Live(Append(s, d), h)
      BY <1>4, <1>5, <1>7, Rebuilt
<1>9. d.id \notin M!Abstract!IdsIn(Letters)  BY <1>2, <1>3
<1> QED  BY <1>4, <1>6, <1>8, <1>9 DEF M!Abstract!Push, Letters

(* Remove of the oldest record, and of the last.                           *)
LEMMA RemoveOldestIsRemove ==
    ASSUME M!MemoryDLQParams, DeadInv, NEW id \in DeadIds, M!RemoveOldest(id)
    PROVE  DeadInv' /\ M!Abstract!Remove(id)
<1>1. /\ items \in Seq(M!Record) /\ head \in Nat /\ Len(items) \in Nat
      /\ Distinct(items, head) /\ Indexed(items, head, index)
      /\ Len(items) - head <= DeadCapacity /\ DeadCapacity \in Nat
      BY DEF DeadInv, M!MemoryDLQParams
<1> DEFINE g == head + 1
<1>2. g \in head + 1 .. Len(items) /\ items[g].id = id /\ id \in DOMAIN index
      BY DEF M!RemoveOldest, DeadInv, Indexed
<1>3. g \in Nat /\ g <= Len(items) /\ head < Len(items) /\ g - head = 1
      BY <1>1, <1>2
<1>4. Distinct(items, g) /\ Indexed(items, g, M!Without(index, id))
      BY <1>1, <1>2, <1>3, SkipIndexed
<1>5. /\ Letters \in Seq(M!Record) /\ Len(Letters) = Len(items) - head
      /\ \A i \in 1 .. Len(items) - head : Letters[i] = items[head + i]
      BY LettersAre
<1>6. M!Live(items, g) = Tail(Letters) /\ Letters # <<>>
      BY <1>1, <1>3, LiveSkip DEF Letters
<1>7. 1 \in 1 .. Len(Letters) /\ Letters[1].id = id
      BY <1>1, <1>2, <1>3, <1>5
<1>8. Tail(Letters) = M!Cut(Letters, 1)
      <2> HIDE DEF Letters
      <2>1. /\ Tail(Letters) \in Seq(M!Record) /\ Len(Tail(Letters)) = Len(Letters) - 1
            /\ \A i \in 1 .. Len(Tail(Letters)) : Tail(Letters)[i] = Letters[i + 1]
            BY <1>5, <1>6, HeadTailProperties
      <2>2. /\ M!Cut(Letters, 1) \in Seq(M!Record) /\ Len(M!Cut(Letters, 1)) = Len(Letters) - 1
            /\ \A i \in 1 .. Len(Letters) - 1 :
                   M!Cut(Letters, 1)[i] = Letters[IF i < 1 THEN i ELSE i + 1]
            BY <1>5, <1>7, CutIs
      <2>3. \A i \in 1 .. Len(Letters) - 1 : ~(i < 1)  BY <1>5
      <2> QED  BY <2>1, <2>2, <2>3, SeqEqual
<1>9. M!RemoveOldest(id) => index' = M!Without(index, id)  BY DEF M!RemoveOldest
<1>10. DeadInv' /\ Letters' = M!Live(items, g)
       <2>1. CASE g >= Len(items)
             <3>1. items' = <<>> /\ head' = 0  BY <2>1 DEF M!RemoveOldest
             <3>2. Len(items) = g  BY <1>1, <1>3, <2>1
             <3>3. M!Live(items, g) = <<>>
                   <4>1. Len(items) < g + 1 /\ g + 1 \in Int /\ Len(items) \in Int
                         BY <1>1, <1>3, <3>2
                   <4> HIDE DEF g
                   <4> QED  BY <4>1, SubSeqEmpty DEF M!Live
             <3>4. M!Live(<<>>, 0) = <<>>
                   <4>1. 0 + 1 = 1 /\ Len(<<>>) < 1  OBVIOUS
                   <4> QED  BY <4>1, SubSeqEmpty DEF M!Live
             <3>5. Distinct(<<>>, 0) /\ Indexed(<<>>, 0, M!Without(index, id))
                   <4>1. \A i \in g + 1 .. Len(items) : FALSE  BY <1>1, <1>3, <3>2
                   <4>2. Ids(items, g) = {}  BY <4>1 DEF Ids
                   <4>3. Ids(<<>>, 0) = {}  BY DEF Ids
                   <4> HIDE DEF g
                   <4> QED  BY <1>4, <4>2, <4>3 DEF Indexed, Distinct
             <3>6. <<>> \in Seq(M!Record) /\ 0 <= Len(<<>>) /\ Len(<<>>) - 0 <= DeadCapacity
                   BY <1>1
             <3> HIDE DEF g
             <3> QED  BY <1>9, <3>1, <3>3, <3>4, <3>5, <3>6, Rebuilt
       <2>2. CASE ~(g >= Len(items))
             <3>1. items' = items /\ head' = g  BY <2>2 DEF M!RemoveOldest
             <3>2. Len(items) - g <= DeadCapacity  BY <1>1, <1>3
             <3> HIDE DEF g
             <3> QED  BY <1>1, <1>3, <1>4, <1>9, <3>1, <3>2, Rebuilt
       <2> QED  BY <2>1, <2>2
<1>11. M!Abstract!Cut(Letters, 1) = M!Cut(Letters, 1)  BY DEF M!Abstract!Cut, M!Cut
<1> QED  BY <1>6, <1>7, <1>8, <1>10, <1>11 DEF M!Abstract!Remove, Letters

(* Remove of any other.                                                    *)
LEMMA RemoveMiddleIsRemove ==
    ASSUME M!MemoryDLQParams, DeadInv, NEW id \in DeadIds, M!RemoveMiddle(id)
    PROVE  DeadInv' /\ M!Abstract!Remove(id)
<1>1. /\ items \in Seq(M!Record) /\ head \in Nat /\ Len(items) \in Nat /\ head <= Len(items)
      /\ Distinct(items, head) /\ Indexed(items, head, index)
      /\ Len(items) - head <= DeadCapacity /\ DeadCapacity \in Nat
      BY DEF DeadInv, M!MemoryDLQParams
<1>2. PICK k \in head + 1 .. Len(items) :
          /\ k = index[id] /\ items[k].id = id /\ items' = M!Cut(items, k) /\ head' = head
          /\ index' = M!Reindex(M!Without(index, id), M!Cut(items, k), k)
      BY DEF M!RemoveMiddle, DeadInv, Indexed
<1> DEFINE s == M!Cut(items, k)
           idx == M!Reindex(M!Without(index, items[k].id), s, k)
<1>3. Distinct(s, head) /\ Indexed(s, head, idx)
      BY <1>1, CutIndexed
<1>4. s \in Seq(M!Record) /\ Len(s) = Len(items) - 1
      <2>1. k \in 1 .. Len(items)  BY <1>1
      <2> QED  BY <1>1, <2>1, CutIs
<1>5. items' = s /\ head' = head /\ index' = idx  BY <1>2
<1>6. M!Live(s, head) = M!Cut(Letters, k - head)
      BY <1>1, LiveCut DEF Letters
<1> HIDE DEF s, idx
<1>7. DeadInv' /\ Letters' = M!Live(s, head)
      <2>1. head <= Len(s) /\ Len(s) - head <= DeadCapacity
            <3>1. head <= Len(items) - 1 /\ (Len(items) - 1) - head <= Len(items) - head
                  BY <1>1
            <3>2. (Len(items) - 1) - head <= DeadCapacity
                  <4>1. DeadCapacity >= Len(items) - head  BY <1>1
                  <4> QED  BY <1>1, <4>1
            <3> QED  BY <1>4, <3>1, <3>2
      <2> QED  BY <1>1, <1>3, <1>4, <1>5, <2>1, Rebuilt
<1>8. /\ Len(Letters) = Len(items) - head
      /\ \A i \in 1 .. Len(items) - head : Letters[i] = items[head + i]
      BY LettersAre
<1>9. k - head \in 1 .. Len(Letters) /\ Letters[k - head].id = id
      <2>1. k - head \in 1 .. Len(items) - head /\ head + (k - head) = k  BY <1>1
      <2> QED  BY <1>2, <1>8, <2>1
<1>10. M!Abstract!Cut(Letters, k - head) = M!Cut(Letters, k - head)
       BY DEF M!Abstract!Cut, M!Cut
<1> QED  BY <1>6, <1>7, <1>9, <1>10 DEF M!Abstract!Remove, Letters

LEMMA DeadStart == ASSUME M!MemoryDLQParams, M!Init PROVE DeadInv /\ M!Abstract!Init
<1>1. Len(<<>>) = 0 /\ <<>> \in Seq(M!Record) /\ \A i \in 1 .. 0 : FALSE  OBVIOUS
<1>2. 0 + 1 = 1 /\ 0 - 0 <= DeadCapacity  BY DEF M!MemoryDLQParams
<1>3. Ids(<<>>, 0) = {} /\ Distinct(<<>>, 0)  BY <1>1, <1>2 DEF Ids, Distinct
<1>4. DOMAIN <<>> = {}  BY <1>1
<1>5. Indexed(<<>>, 0, <<>>)  BY <1>3, <1>4 DEF Indexed
<1>6. DeadInv  BY <1>1, <1>2, <1>3, <1>5 DEF M!Init, DeadInv
<1>7. SubSeq(<<>>, 1, 0) = <<>>  BY SubSeqEmpty
<1> QED  BY <1>1, <1>2, <1>6, <1>7 DEF M!Init, M!Abstract!Init, M!Live

LEMMA DeadStep ==
    ASSUME M!MemoryDLQParams, DeadInv, [M!Next]_(M!vars)
    PROVE  DeadInv' /\ M!AbstractStep
<1>1. CASE UNCHANGED M!vars
      BY <1>1 DEF M!vars, DeadInv, M!AbstractStep, M!Live
<1>2. ASSUME NEW d \in M!Record, M!Overwrite(d) \/ M!Push(d) PROVE DeadInv' /\ M!AbstractStep
      <2>1. DeadInv' /\ M!Abstract!Push(d)  BY <1>2, OverwriteIsPush, PushIsPush
      <2>2. d \in M!Abstract!Record  BY DEF M!Record, M!Abstract!Record
      <2> QED  BY <2>1, <2>2 DEF M!AbstractStep, M!Abstract!Next
<1>3. ASSUME NEW id \in DeadIds, M!RemoveOldest(id) \/ M!RemoveMiddle(id)
      PROVE  DeadInv' /\ M!AbstractStep
      <2>1. DeadInv' /\ M!Abstract!Remove(id)
            BY <1>3, RemoveOldestIsRemove, RemoveMiddleIsRemove
      <2> QED  BY <2>1 DEF M!AbstractStep, M!Abstract!Next
<1> QED  BY <1>1, <1>2, <1>3 DEF M!Next

(* Push, Remove, List: whatever is pushed and removed, and whenever the    *)
(* slice is compacted, the index names the slot of every live record and   *)
(* of no other.                                                            *)
THEOREM IndexStaysExact == ASSUME M!MemoryDLQParams PROVE M!Spec => []M!IndexExact
<1>1. M!Init => DeadInv  BY DeadStart
<1>2. DeadInv /\ [M!Next]_(M!vars) => DeadInv'  BY DeadStep
<1>3. DeadInv => M!IndexExact
      BY DEF DeadInv, Indexed, Ids, M!IndexExact, M!LiveLen
<1> QED  BY <1>1, <1>2, <1>3, PTL DEF M!Spec

(* MemoryDLQ, for every capacity: a slice with a dead head and an index    *)
(* into it implements the queue DeadLetterQueue promises.                  *)
THEOREM SliceIsTheQueue == ASSUME M!MemoryDLQParams PROVE M!Spec => M!ImplementsDeadLetters
<1>1. M!Init => DeadInv /\ M!Abstract!Init  BY DeadStart
<1>2. DeadInv /\ [M!Next]_(M!vars) => DeadInv' /\ [M!Abstract!Next]_(Letters)
      BY DeadStep DEF M!AbstractStep, Letters
<1> QED  BY <1>1, <1>2, PTL DEF M!Spec, M!ImplementsDeadLetters, M!Abstract!Spec, Letters

-----------------------------------------------------------------------------
(* The task pool. *)
CONSTANTS Tasks, NameOf, Workers, None, QueueSize, Retries, MaxStarts
VARIABLES gen, shut, cut, tasks, active, sub, of, cancelled, result, runner, task, attempt,
          stopping
P == INSTANCE AsyncPool WITH closed <- shut, worker <- runner, job <- task, stop <- stopping

(* The tasks in a channel, each of them once.                              *)
Elems(q) == {q[i] : i \in 1 .. Len(q)}
Once(q) == \A i, j \in 1 .. Len(q) : q[i] = q[j] => i = j

SubPhases == {"idle", "named", "refused", "offer", "full", "blocked", "check", "accepted"}
RunPhases == {"off", "look", "select", "taken", "running", "backoff", "ending"}
StopPhases == {"idle", "cutting", "drain", "wait", "drain again", "stopped"}
Outcomes == {"none", "ok", "panic", "failed", "canceled"}

PoolTypes ==
    /\ gen \in Nat /\ gen <= MaxStarts /\ shut \in BOOLEAN /\ cut \subseteq 1 .. gen
    /\ tasks \in [P!Gens -> Seq(Tasks)] /\ \A g \in P!Gens : Len(tasks[g]) <= QueueSize
    /\ active \in [P!Names -> Tasks \union {None}] /\ cancelled \subseteq Tasks
    /\ sub \in [Tasks -> SubPhases] /\ of \in [Tasks -> 0 .. gen]
    /\ result \in [Tasks -> Outcomes]
    /\ runner \in [Workers -> RunPhases]
    /\ task \in [Workers -> Tasks \union {None}]
    /\ stopping \in StopPhases

(* Where the pool stands: what Stop has come to says which generations are *)
(* cut, whether a new Submit is refused, and when no worker is left.       *)
AllOff == \A w \in Workers : runner[w] = "off"
Lives ==
    /\ gen = 0 => stopping = "idle" /\ AllOff
    /\ gen > 0 => (shut <=> stopping # "idle")
    /\ \A g \in 1 .. gen : g \in cut <=> g < gen \/ stopping \notin {"idle", "cutting"}
    /\ stopping \in {"drain again", "stopped"} => AllOff

(* A task is in a channel, in the hands of a worker, or in neither; Due is *)
(* one in hand that has no result yet.                                     *)
Queueing(t) == \E g \in P!Gens : t \in Elems(tasks[g])
InHand(t) == \E w \in Workers : task[w] = t
Due(t) == \E w \in Workers : task[w] = t /\ runner[w] # "ending"
Offered(t) == sub[t] \in {"offer", "full", "blocked"}

(* A task is in one place at most, once, and in none before Submit has put *)
(* it there; a channel holds the tasks that saw its generation.            *)
Whereabouts ==
    /\ \A t \in Tasks : sub[t] \notin {"idle", "refused"} => of[t] # 0
    /\ \A w \in Workers : task[w] = None <=> runner[w] \in {"off", "look", "select"}
    /\ \A w, u \in Workers : task[w] # None /\ task[w] = task[u] => w = u
    /\ \A g \in P!Gens : Once(tasks[g]) /\ \A t \in Elems(tasks[g]) : of[t] = g
    /\ \A t \in Tasks : Queueing(t) \/ InHand(t) => sub[t] \in {"check", "accepted", "refused"}
    /\ \A t \in Tasks : ~(Queueing(t) /\ InHand(t))

(* A name belongs to a task on its way, and whoever can still be cancelled *)
(* and may run has its name.                                               *)
Registered == \A n \in P!Names : active[n] # None =>
    /\ NameOf[active[n]] = n
    /\ \/ Offered(active[n])
       \/ /\ sub[active[n]] \in {"check", "accepted"}
          /\ Queueing(active[n]) \/ InHand(active[n])
Reached == \A t \in Tasks :
    /\ NameOf[t] # None /\ ~P!CtxDone(t)
    /\ Offered(t) \/ Queueing(t) \/ Due(t)
    => active[NameOf[t]] = t

(* A task without a result is where a worker or a drain finds it, or was   *)
(* refused and is nowhere; the last drain leaves no accepted one behind.   *)
Promised ==
    /\ \A t \in Tasks : sub[t] \in {"check", "accepted"} /\ result[t] = "none" =>
           Queueing(t) \/ Due(t)
    /\ \A t \in Tasks : sub[t] = "refused" /\ result[t] = "none" => ~Queueing(t) /\ ~InHand(t)
    /\ stopping = "stopped" => \A t \in Elems(tasks[gen]) : sub[t] # "accepted"

PoolInv == PoolTypes /\ Lives /\ Whereabouts /\ Registered /\ Reached /\ Promised

(* What a channel holds after a send and after a receive. *)
LEMMA ElemsAppend ==
    ASSUME NEW S, NEW q \in Seq(S), NEW x \in S, Once(q), x \notin Elems(q)
    PROVE  /\ Append(q, x) \in Seq(S) /\ Len(Append(q, x)) = Len(q) + 1
           /\ Elems(Append(q, x)) = Elems(q) \union {x} /\ Once(Append(q, x))
<1>1. /\ Append(q, x) \in Seq(S) /\ Len(q) \in Nat /\ Len(Append(q, x)) = Len(q) + 1
      /\ \A i \in 1 .. Len(q) : Append(q, x)[i] = q[i]
      /\ Append(q, x)[Len(q) + 1] = x
      OBVIOUS
<1>2. \A i : i \in 1 .. Len(q) + 1 <=> i \in 1 .. Len(q) \/ i = Len(q) + 1  BY <1>1
<1>3. Elems(Append(q, x)) = Elems(q) \union {x}  BY <1>1, <1>2 DEF Elems
<1>4. \A i \in 1 .. Len(q) : q[i] # x  BY DEF Elems
<1>5. Once(Append(q, x))  BY <1>1, <1>2, <1>4 DEF Once
<1> QED  BY <1>1, <1>3, <1>5

LEMMA ElemsTail ==
    ASSUME NEW S, NEW q \in Seq(S), q # <<>>, Once(q)
    PROVE  /\ Tail(q) \in Seq(S) /\ Len(Tail(q)) <= Len(q) /\ Head(q) \in S
           /\ Head(q) \in Elems(q) /\ Elems(Tail(q)) = Elems(q) \ {Head(q)} /\ Once(Tail(q))
<1>1. /\ Tail(q) \in Seq(S) /\ Len(q) \in Nat /\ Len(q) >= 1 /\ Len(Tail(q)) = Len(q) - 1
      /\ Head(q) = q[1] /\ q[1] \in S
      /\ \A i \in 1 .. Len(q) - 1 : Tail(q)[i] = q[i + 1]
      OBVIOUS
<1>2. Head(q) \in Elems(q)  BY <1>1 DEF Elems
<1>3. Elems(Tail(q)) \subseteq Elems(q) \ {Head(q)}
      <2> SUFFICES ASSUME NEW i \in 1 .. Len(q) - 1
                   PROVE  Tail(q)[i] \in Elems(q) /\ Tail(q)[i] # Head(q)
          BY <1>1 DEF Elems
      <2>1. i + 1 \in 1 .. Len(q) /\ 1 \in 1 .. Len(q) /\ i + 1 # 1  BY <1>1
      <2>2. q[i + 1] \in Elems(q)  BY <2>1 DEF Elems
      <2> QED  BY <1>1, <2>1, <2>2 DEF Once
<1>4. Elems(q) \ {Head(q)} \subseteq Elems(Tail(q))
      <2> SUFFICES ASSUME NEW i \in 1 .. Len(q), q[i] # q[1]
                   PROVE  q[i] \in Elems(Tail(q))
          BY <1>1 DEF Elems
      <2>1. i - 1 \in 1 .. Len(Tail(q)) /\ (i - 1) + 1 = i  BY <1>1
      <2>2. Tail(q)[i - 1] = q[i]  BY <1>1, <2>1
      <2> QED  BY <2>1, <2>2 DEF Elems
<1>5. Once(Tail(q))
      <2> SUFFICES ASSUME NEW i \in 1 .. Len(q) - 1, NEW j \in 1 .. Len(q) - 1,
                          q[i + 1] = q[j + 1]
                   PROVE  i = j
          BY <1>1 DEF Once
      <2>1. i + 1 \in 1 .. Len(q) /\ j + 1 \in 1 .. Len(q)  BY <1>1
      <2>2. i + 1 = j + 1  BY <2>1 DEF Once
      <2> QED  BY <2>2
<1> QED  BY <1>1, <1>2, <1>3, <1>4, <1>5

(* The same of all channels: Put adds its task to one, a receive or a      *)
(* drain takes the first out of the current one.                           *)
LEMMA PutAdds ==
    ASSUME P!AsyncPoolParams, PoolInv, NEW t \in Tasks, sub[t] \in {"offer", "blocked"},
           P!Room(t), P!Put(t), of' = of
    PROVE  /\ tasks' \in [P!Gens -> Seq(Tasks)] /\ \A g \in P!Gens : Len(tasks'[g]) <= QueueSize
           /\ \A g \in P!Gens : Once(tasks'[g]) /\ \A u \in Elems(tasks'[g]) : of[u] = g
           /\ \A g \in P!Gens : Elems(tasks'[g]) \subseteq Elems(tasks[g]) \union {t}
           /\ \A u : Queueing(u)' <=> Queueing(u) \/ u = t
           /\ ~Queueing(t)
<1> USE DEF PoolInv
<1> DEFINE g0 == of[t]
<1>1. g0 \in P!Gens
      <2>1. gen \in Nat /\ gen <= MaxStarts /\ of[t] \in 0 .. gen /\ of[t] # 0
            BY DEF PoolTypes, Whereabouts
      <2> QED  BY <2>1 DEF P!Gens, P!AsyncPoolParams
<1>2. ~Queueing(t)  BY DEF Whereabouts
<1>3. t \notin Elems(tasks[g0])  BY <1>1, <1>2 DEF Queueing
<1>4. tasks[g0] \in Seq(Tasks) /\ Once(tasks[g0]) /\ Len(tasks[g0]) < QueueSize
      BY <1>1 DEF PoolTypes, Whereabouts, P!Room
<1> DEFINE q == Append(tasks[g0], t)
<1>5. /\ q \in Seq(Tasks) /\ Len(q) = Len(tasks[g0]) + 1
      /\ Elems(q) = Elems(tasks[g0]) \union {t} /\ Once(q)
      BY <1>3, <1>4, ElemsAppend
<1>6. Len(q) <= QueueSize  BY <1>4, <1>5 DEF P!AsyncPoolParams
<1>7. tasks' = [tasks EXCEPT ![g0] = q]  BY DEF P!Put
<1> HIDE DEF q
<1>8. \A g \in P!Gens : tasks'[g] = IF g = g0 THEN q ELSE tasks[g]  BY <1>7 DEF PoolTypes
<1>9. tasks' \in [P!Gens -> Seq(Tasks)]  BY <1>5, <1>7 DEF PoolTypes
<1>10. \A g \in P!Gens : Elems(tasks'[g]) = IF g = g0 THEN Elems(tasks[g]) \union {t}
           ELSE Elems(tasks[g])
      BY <1>5, <1>8
<1>11. \A u : Queueing(u)' <=> Queueing(u) \/ u = t  BY <1>1, <1>10 DEF Queueing
<1>12. \A g \in P!Gens : Len(tasks'[g]) <= QueueSize /\ Once(tasks'[g])
       <2>1. \A g \in P!Gens : Len(tasks[g]) <= QueueSize  BY Zenon DEF PoolTypes
       <2>2. \A g \in P!Gens : Once(tasks[g])  BY DEF Whereabouts
       <2> QED  BY <1>5, <1>6, <1>8, <2>1, <2>2
<1>13. \A g \in P!Gens : \A u \in Elems(tasks'[g]) : of[u] = g
       <2> SUFFICES ASSUME NEW g \in P!Gens, NEW u \in Elems(tasks'[g]) PROVE of[u] = g
           OBVIOUS
       <2>1. \A x \in Elems(tasks[g]) : of[x] = g  BY DEF Whereabouts
       <2>2. u \in Elems(tasks[g]) \/ (g = g0 /\ u = t)  BY <1>10
       <2> QED  BY <2>1, <2>2
<1> QED  BY <1>2, <1>9, <1>10, <1>11, <1>12, <1>13

LEMMA TakeRemoves ==
    ASSUME P!AsyncPoolParams, PoolInv, gen > 0, tasks[gen] # <<>>, of' = of,
           tasks' = [tasks EXCEPT ![gen] = Tail(@)]
    PROVE  /\ tasks' \in [P!Gens -> Seq(Tasks)] /\ \A g \in P!Gens : Len(tasks'[g]) <= QueueSize
           /\ \A g \in P!Gens : Once(tasks'[g]) /\ \A u \in Elems(tasks'[g]) : of[u] = g
           /\ \A g \in P!Gens : Elems(tasks'[g]) \subseteq Elems(tasks[g])
           /\ \A u : Queueing(u)' <=> Queueing(u) /\ u # Head(tasks[gen])
           /\ Queueing(Head(tasks[gen])) /\ Head(tasks[gen]) \in Tasks
<1> USE DEF PoolInv
<1>1. gen \in P!Gens
      <2>1. gen \in Nat /\ gen <= MaxStarts  BY DEF PoolTypes
      <2> QED  BY <2>1 DEF P!Gens, P!AsyncPoolParams
<1> DEFINE t == Head(tasks[gen])
           q == Tail(tasks[gen])
<1>2. tasks[gen] \in Seq(Tasks) /\ Once(tasks[gen]) /\ Len(tasks[gen]) <= QueueSize
      BY <1>1 DEF PoolTypes, Whereabouts
<1>3. /\ q \in Seq(Tasks) /\ Len(q) <= Len(tasks[gen]) /\ t \in Tasks
      /\ t \in Elems(tasks[gen]) /\ Elems(q) = Elems(tasks[gen]) \ {t} /\ Once(q)
      BY <1>2, ElemsTail
<1>4. Len(q) <= QueueSize  BY <1>2, <1>3 DEF P!AsyncPoolParams
<1> HIDE DEF q, t
<1>5. tasks' = [tasks EXCEPT ![gen] = q]  BY DEF q
<1>6. \A g \in P!Gens : tasks'[g] = IF g = gen THEN q ELSE tasks[g]  BY <1>5 DEF PoolTypes
<1>7. tasks' \in [P!Gens -> Seq(Tasks)]  BY <1>3, <1>5 DEF PoolTypes
<1>8. \A g \in P!Gens : t \in Elems(tasks[g]) => g = gen  BY <1>1, <1>3 DEF Whereabouts
<1>9. \A g \in P!Gens : Elems(tasks'[g]) = Elems(tasks[g]) \ {t}  BY <1>3, <1>6, <1>8
<1>10. \A u : Queueing(u)' <=> Queueing(u) /\ u # t  BY <1>9 DEF Queueing
<1>11. Queueing(t)  BY <1>1, <1>3 DEF Queueing
<1>12. \A g \in P!Gens : Len(tasks'[g]) <= QueueSize /\ Once(tasks'[g])
       BY <1>3, <1>4, <1>6 DEF PoolTypes, Whereabouts
<1>13. \A g \in P!Gens : \A u \in Elems(tasks'[g]) : of[u] = g
       <2> SUFFICES ASSUME NEW g \in P!Gens, NEW u \in Elems(tasks'[g]) PROVE of[u] = g
           OBVIOUS
       <2>1. \A x \in Elems(tasks[g]) : of[x] = g  BY DEF Whereabouts
       <2>2. u \in Elems(tasks[g])  BY <1>9
       <2> QED  BY <2>1, <2>2
<1> QED  BY <1>3, <1>7, <1>9, <1>10, <1>11, <1>12, <1>13 DEF t

LEMMA PoolStart == ASSUME P!AsyncPoolParams, P!APInit PROVE PoolInv
<1> USE DEF P!AsyncPoolParams
<1>1. \A g \in P!Gens : tasks[g] = <<>> /\ Elems(tasks[g]) = {} /\ Once(tasks[g])
      BY DEF P!APInit, Elems, Once
<1>2. \A t : ~Queueing(t)  BY <1>1 DEF Queueing
<1>3. \A w \in Workers : task[w] = None /\ runner[w] = "off"  BY DEF P!APInit
<1>4. PoolTypes
      <2>1. tasks \in [P!Gens -> Seq(Tasks)] /\ \A g \in P!Gens : Len(tasks[g]) <= QueueSize
            BY DEF P!APInit
      <2>2. 0 \in Nat /\ 0 <= MaxStarts /\ 0 \in 0 .. 0  OBVIOUS
      <2> QED  BY <2>1, <2>2 DEF PoolTypes, SubPhases, RunPhases, StopPhases, Outcomes, P!APInit
<1>5. Lives  BY <1>3 DEF Lives, AllOff, P!APInit
<1>6. \A t \in Tasks : ~InHand(t)  BY <1>3 DEF InHand
<1>7. Whereabouts  BY <1>1, <1>2, <1>3, <1>6 DEF Whereabouts, P!APInit
<1>8. Registered /\ Reached /\ Promised
      <2>1. \A t \in Tasks : ~Due(t)  BY <1>3 DEF Due
      <2> QED  BY <1>2, <1>6, <2>1 DEF Registered, Reached, Promised, Offered, P!APInit
<1> QED  BY <1>4, <1>5, <1>7, <1>8 DEF PoolInv

(* Whoever leaves the channels, the workers and the pool alone changes     *)
(* nothing of where the tasks are.                                         *)
LEMMA StaysPut ==
    ASSUME UNCHANGED <<tasks, runner, task>>
    PROVE  \A u : /\ Queueing(u)' <=> Queueing(u)
                  /\ InHand(u)' <=> InHand(u)
                  /\ Due(u)' <=> Due(u)
<1>1. \A u : Queueing(u)' <=> Queueing(u)  BY DEF Queueing, Elems
<1>2. \A u : (InHand(u)' <=> InHand(u)) /\ (Due(u)' <=> Due(u))  BY DEF InHand, Due
<1> QED  BY <1>1, <1>2

LEMMA StillLives ==
    ASSUME Lives, UNCHANGED <<gen, shut, cut, runner, stopping>> PROVE Lives'
BY DEF Lives, AllOff

LEMMA QueuesOfTasks ==
    ASSUME PoolTypes
    PROVE  \A g \in P!Gens : Elems(tasks[g]) \subseteq Tasks
<1> SUFFICES ASSUME NEW g \in P!Gens, NEW i \in 1 .. Len(tasks[g])
             PROVE  tasks[g][i] \in Tasks
    BY DEF Elems
<1>1. tasks[g] \in Seq(Tasks)  BY DEF PoolTypes
<1> QED  BY <1>1

LEMMA BeginKeeps ==
    ASSUME P!AsyncPoolParams, PoolInv, NEW t \in Tasks, P!Begin(t) PROVE PoolInv'
<1> USE DEF PoolInv
<1>1. /\ UNCHANGED <<gen, shut, cut, tasks, active, cancelled, result, runner, task,
                      stopping>>
      /\ sub[t] = "idle"
      BY DEF P!Begin, P!work
<1>2. PICK to \in {"refused", "named"} : sub' = [sub EXCEPT ![t] = to]
      BY DEF P!Begin, P!Submits
<1>3. of' \in [Tasks -> 0 .. gen] /\ (to = "named" => of'[t] # 0)
      /\ \A u \in Tasks : u # t => of'[u] = of[u]
      <2>1. gen \in Nat /\ of \in [Tasks -> 0 .. gen] /\ sub \in [Tasks -> SubPhases]
            BY DEF PoolTypes
      <2>2. gen \in 0 .. gen  BY <2>1
      <2>3. CASE of' = of /\ to = "refused"  BY <2>1, <2>3
      <2>4. CASE gen > 0 /\ of' = [of EXCEPT ![t] = gen]  BY <2>1, <2>2, <2>4
      <2>5. sub'[t] = to  BY <1>2, <2>1
      <2>6. \A x : sub' = [sub EXCEPT ![t] = x] => sub'[t] = x  BY <2>1
      <2> QED  BY <1>2, <2>1, <2>3, <2>4, <2>5, <2>6 DEF P!Begin, P!Submits
<1>4. \A u : (Queueing(u)' <=> Queueing(u)) /\ (InHand(u)' <=> InHand(u))
      /\ (Due(u)' <=> Due(u))
      BY <1>1, StaysPut
<1>5. ~Queueing(t) /\ ~InHand(t) /\ ~Due(t)  BY <1>1 DEF Whereabouts, Due, InHand
<1>6. \A u \in Tasks : u # t => sub'[u] = sub[u]  BY <1>2 DEF PoolTypes
<1>7. PoolTypes'
      BY <1>1, <1>2, <1>3 DEF PoolTypes, SubPhases
<1>8. Lives'  BY <1>1, StillLives
<1>9. Whereabouts'
      <2>1. \A g \in P!Gens : \A u \in Elems(tasks[g]) : u \in Tasks /\ u # t
            BY <1>5, QueuesOfTasks DEF Queueing
      <2> QED  BY <1>1, <1>2, <1>3, <1>4, <1>5, <1>6, <2>1 DEF Whereabouts, PoolTypes
<1>10. Registered'
       <2>1. \A n \in P!Names : active[n] # None => active[n] # t /\ active[n] \in Tasks
             <3>1. active \in [P!Names -> Tasks \union {None}]  BY DEF PoolTypes
             <3> QED  BY <3>1, <1>1, <1>5 DEF Registered, Offered
       <2> QED  BY <1>1, <1>4, <1>6, <2>1 DEF Registered, Offered
<1>11. Reached'
       <2>1. \A u \in Tasks : u # t => (P!CtxDone(u)' <=> P!CtxDone(u))
             BY <1>1, <1>3 DEF P!CtxDone
       <2>2. ~Offered(t)'  BY <1>2 DEF Offered, PoolTypes
       <2>3. \A u \in Tasks : u # t => (Offered(u)' <=> Offered(u))  BY <1>6 DEF Offered
       <2> QED  BY <1>1, <1>4, <1>5, <2>1, <2>2, <2>3 DEF Reached
<1>12. Promised'
       <2>1. \A u \in Elems(tasks[gen]) : sub'[u] = "accepted" /\ stopping = "stopped"
                 => sub[u] = "accepted"
         BY <1>1, <1>2, <1>6
       <2> QED BY <1>1, <1>2, <1>4, <1>5, <1>6, <2>1 DEF Promised, PoolTypes
<1> QED  BY <1>7, <1>8, <1>9, <1>10, <1>11, <1>12

(* Who stops the pool stops a generation of it. *)
LEMMA StoppedIsOne ==
    ASSUME P!AsyncPoolParams, PoolTypes, Lives, stopping # "idle"
    PROVE  gen > 0 /\ gen \in P!Gens
<1>1. gen \in Nat /\ gen <= MaxStarts /\ MaxStarts \in Nat  BY DEF PoolTypes, P!AsyncPoolParams
<1>2. gen # 0  BY DEF Lives
<1> QED  BY <1>1, <1>2 DEF P!Gens

(* Finish gives a result to a task that has none, Unregister frees the     *)
(* name of its task and no other.                                          *)
LEMMA Finished ==
    ASSUME PoolTypes, NEW t \in Tasks, NEW r \in Outcomes \ {"none"}, P!Finish(t, r)
    PROVE  /\ result' \in [Tasks -> Outcomes] /\ result'[t] # "none"
           /\ \A u \in Tasks : u # t => result'[u] = result[u]
<1>1. result \in [Tasks -> Outcomes]  BY DEF PoolTypes
<1> QED  BY <1>1 DEF P!Finish

LEMMA Unregistered ==
    ASSUME P!AsyncPoolParams, PoolTypes, NEW t \in Tasks, P!Unregister(t)
    PROVE  /\ active' \in [P!Names -> Tasks \union {None}]
           /\ \A n \in P!Names : active'[n] # t /\ active'[n] \in {active[n], None}
           /\ \A n \in P!Names : active[n] # t => active'[n] = active[n]
<1>1. active \in [P!Names -> Tasks \union {None}] /\ t # None
      BY DEF PoolTypes, P!AsyncPoolParams
<1> QED  BY <1>1 DEF P!Unregister

(* A step of a task's Submit that leaves the task where it is. *)
LEMMA SubmitGoesOn ==
    ASSUME P!AsyncPoolParams, PoolInv, NEW t \in Tasks, NEW to \in SubPhases,
           UNCHANGED <<gen, shut, cut, stopping, tasks, of, runner, task>>,
           sub[t] \in {"named", "offer", "full", "blocked", "check"},
           sub' = [sub EXCEPT ![t] = to],
           IF sub[t] = "check" THEN to \in {"accepted", "refused"}
                               ELSE to \in {"offer", "full", "blocked", "refused"},
           \/ /\ sub[t] = "named" /\ NameOf[t] # None /\ active[NameOf[t]] = None
              /\ to = "offer" /\ active' = [active EXCEPT ![NameOf[t]] = t]
           \/ active' = active /\ (sub[t] = "named" => to = "refused" \/ NameOf[t] = None)
              /\ (to = "refused" => sub[t] = "named")
           \/ to = "refused" /\ P!Unregister(t),
           cancelled' = IF to = "refused" THEN cancelled \union {t} ELSE cancelled,
           IF sub[t] = "check" /\ to = "refused" THEN P!Finish(t, "canceled")
                                                 ELSE result' = result,
           to = "accepted" => ~shut
    PROVE  PoolInv'
<1> USE DEF PoolInv
<1>1. \A u : (Queueing(u)' <=> Queueing(u)) /\ (InHand(u)' <=> InHand(u))
      /\ (Due(u)' <=> Due(u))
      BY StaysPut
<1>2. sub' \in [Tasks -> SubPhases] /\ sub'[t] = to
      /\ \A u \in Tasks : u # t => sub'[u] = sub[u]
      BY DEF PoolTypes
<1>3. /\ result' \in [Tasks -> Outcomes] /\ \A u \in Tasks : u # t => result'[u] = result[u]
      /\ sub[t] = "check" /\ to = "refused" => result'[t] # "none"
      /\ to # "refused" => result'[t] = result[t]
      <2>1. CASE sub[t] = "check" /\ to = "refused"  BY <2>1, Finished DEF Outcomes
      <2>2. CASE ~(sub[t] = "check" /\ to = "refused")  BY <2>2 DEF PoolTypes
      <2> QED  BY <2>1, <2>2
<1>4. sub[t] = "named" => \A n \in P!Names : active[n] # t
      BY DEF Registered, Offered, P!AsyncPoolParams
<1>5. /\ active' \in [P!Names -> Tasks \union {None}]
      /\ \A n \in P!Names : active'[n] # None =>
             (active'[n] = active[n] /\ (active[n] = t => to # "refused"))
             \/ (active'[n] = t /\ NameOf[t] = n /\ to = "offer")
      /\ \A u \in Tasks : NameOf[u] # None /\ active[NameOf[u]] = u /\ (u = t => to # "refused")
             => active'[NameOf[u]] = u
      /\ NameOf[t] # None /\ sub[t] = "named" /\ to # "refused" => active'[NameOf[t]] = t
      <2>1. active \in [P!Names -> Tasks \union {None}] /\ None \notin Tasks
            BY DEF PoolTypes, P!AsyncPoolParams
      <2>2. \A u \in Tasks : NameOf[u] # None => NameOf[u] \in P!Names  BY DEF P!Names
      <2>3. CASE /\ sub[t] = "named" /\ NameOf[t] # None /\ active[NameOf[t]] = None
                 /\ to = "offer" /\ active' = [active EXCEPT ![NameOf[t]] = t]
            BY <2>1, <2>2, <2>3
      <2>4. CASE active' = active /\ (sub[t] = "named" => to = "refused" \/ NameOf[t] = None)
                 /\ (to = "refused" => sub[t] = "named")
            BY <1>4, <2>1, <2>2, <2>4
      <2>5. CASE to = "refused" /\ P!Unregister(t)
            BY <2>1, <2>2, <2>5, Unregistered DEF P!Unregister
      <2> QED  BY <2>3, <2>4, <2>5
<1>6. PoolTypes'
      <2>1. cancelled' \subseteq Tasks  BY DEF PoolTypes
      <2> QED  BY <1>2, <1>3, <1>5, <2>1 DEF PoolTypes
<1>7. Lives'  BY StillLives
<1>8. Whereabouts'
      BY <1>1, <1>2 DEF Whereabouts
<1>9. Registered'
      <2> SUFFICES ASSUME NEW n \in P!Names, NEW x, x = active'[n], x # None
                   PROVE  /\ NameOf[x] = n
                          /\ \/ Offered(x)'
                             \/ /\ sub'[x] \in {"check", "accepted"}
                                /\ Queueing(x)' \/ InHand(x)'
          BY DEF Registered
      <2>1. x \in Tasks  BY <1>5
      <2>2. CASE x = t /\ NameOf[t] = n /\ to = "offer"
            BY <1>2, <2>2 DEF Offered
      <2>3. CASE x = active[n] /\ (x = t => to # "refused")
            <3>1. /\ NameOf[x] = n
                  /\ \/ Offered(x)
                     \/ sub[x] \in {"check", "accepted"} /\ (Queueing(x) \/ InHand(x))
                  BY <2>3 DEF Registered
            <3> QED  BY <1>1, <1>2, <2>1, <2>3, <3>1 DEF Offered
      <2> QED  BY <1>5, <2>2, <2>3
<1>10. Reached'
      <2> SUFFICES ASSUME NEW u \in Tasks, NameOf[u] # None, ~P!CtxDone(u)',
                          Offered(u)' \/ Queueing(u)' \/ Due(u)'
                   PROVE  active'[NameOf[u]] = u
          BY DEF Reached
      <2>1. ~P!CtxDone(u) /\ (u = t => to # "refused")  BY DEF P!CtxDone
      <2>2. CASE u # t \/ sub[t] # "named"
            <3>1. Offered(u) \/ Queueing(u) \/ Due(u)  BY <1>1, <1>2, <2>2 DEF Offered
            <3> QED  BY <1>5, <2>1, <3>1 DEF Reached
      <2>3. CASE u = t /\ sub[t] = "named"  BY <1>5, <2>1, <2>3
      <2> QED  BY <2>2, <2>3
<1>11. Promised'
      <2>1. sub[t] # "check" => ~Queueing(t) /\ ~InHand(t)
            BY DEF Whereabouts
      <2>2. to = "accepted" => stopping # "stopped"  BY StoppedIsOne DEF Lives
      <2>3. stopping = "stopped" => \A u \in Elems(tasks[gen]) : u \in Tasks
            BY QueuesOfTasks, StoppedIsOne
      <2>4. \A u \in Tasks : sub'[u] \in {"check", "accepted"} /\ result'[u] = "none"
                => Queueing(u)' \/ Due(u)'
            BY <1>1, <1>2, <1>3 DEF Promised
      <2>5. \A u \in Tasks : sub'[u] = "refused" /\ result'[u] = "none"
                => ~Queueing(u)' /\ ~InHand(u)'
            BY <1>1, <1>2, <1>3, <2>1 DEF Promised
      <2>6. stopping' = "stopped" => \A u \in Elems(tasks'[gen']) : sub'[u] # "accepted"
            BY <1>2, <2>2, <2>3 DEF Promised
      <2> QED  BY <2>4, <2>5, <2>6 DEF Promised
<1> QED  BY <1>6, <1>7, <1>8, <1>9, <1>10, <1>11

(* ... and one that puts it into its channel. *)
LEMMA SubmitQueues ==
    ASSUME P!AsyncPoolParams, PoolInv, NEW t \in Tasks, sub[t] \in {"offer", "blocked"},
           P!Room(t), P!Put(t), sub' = [sub EXCEPT ![t] = "check"],
           UNCHANGED <<gen, shut, cut, stopping, of, runner, task, active, cancelled, result>>
    PROVE  PoolInv'
<1> USE DEF PoolInv
<1>1. /\ tasks' \in [P!Gens -> Seq(Tasks)] /\ \A g \in P!Gens : Len(tasks'[g]) <= QueueSize
      /\ \A g \in P!Gens : Once(tasks'[g]) /\ \A u \in Elems(tasks'[g]) : of[u] = g
      /\ \A g \in P!Gens : Elems(tasks'[g]) \subseteq Elems(tasks[g]) \union {t}
      /\ \A u : Queueing(u)' <=> Queueing(u) \/ u = t
      BY PutAdds
<1>2. sub' \in [Tasks -> SubPhases] /\ sub'[t] = "check"
      /\ \A u \in Tasks : u # t => sub'[u] = sub[u]
      BY DEF PoolTypes, SubPhases
<1>3. \A u : (InHand(u)' <=> InHand(u)) /\ (Due(u)' <=> Due(u))  BY DEF InHand, Due
<1>4. ~InHand(t) /\ Offered(t)  BY DEF Whereabouts, Offered
<1>5. PoolTypes'  BY <1>1, <1>2 DEF PoolTypes
<1>6. Lives'  BY StillLives
<1>7. Whereabouts'  BY <1>1, <1>2, <1>3, <1>4 DEF Whereabouts
<1>8. Registered'
      <2>1. active \in [P!Names -> Tasks \union {None}]  BY DEF PoolTypes
      <2> QED  BY <1>1, <1>2, <1>3, <2>1 DEF Registered, Offered
<1>9. Reached'
      <2>1. \A u \in Tasks : Offered(u)' \/ Queueing(u)' \/ Due(u)'
                => Offered(u) \/ Queueing(u) \/ Due(u)
            BY <1>1, <1>2, <1>3, <1>4 DEF Offered
      <2>2. \A u \in Tasks : P!CtxDone(u)' <=> P!CtxDone(u)  BY DEF P!CtxDone
      <2> QED  BY <2>1, <2>2 DEF Reached
<1>10. Promised'
      <2>1. stopping = "stopped" => gen \in P!Gens /\ \A u \in Elems(tasks[gen]) : u \in Tasks
            BY QueuesOfTasks, StoppedIsOne
      <2>2. stopping' = "stopped" => \A u \in Elems(tasks'[gen']) : sub'[u] # "accepted"
            BY <1>1, <1>2, <2>1 DEF Promised
      <2>3. \A u \in Tasks : sub'[u] \in {"check", "accepted"} /\ result'[u] = "none"
                => Queueing(u)' \/ Due(u)'
            BY <1>1, <1>2, <1>3 DEF Promised
      <2>4. \A u \in Tasks : sub'[u] = "refused" /\ result'[u] = "none"
                => ~Queueing(u)' /\ ~InHand(u)'
            BY <1>1, <1>2, <1>3 DEF Promised
      <2> QED  BY <2>2, <2>3, <2>4 DEF Promised
<1> QED  BY <1>5, <1>6, <1>7, <1>8, <1>9, <1>10

LEMMA SubmitKeeps ==
    ASSUME P!AsyncPoolParams, PoolInv, NEW t \in Tasks, P!Submit(t) PROVE PoolInv'
<1>1. CASE P!Begin(t)  BY <1>1, BeginKeeps
<1>2. CASE P!Register(t)
      <2>1. UNCHANGED <<gen, shut, cut, stopping, tasks, of, runner, task, result>>
            /\ sub[t] = "named"
            BY <1>2 DEF P!Register, P!work
      <2>2. CASE NameOf[t] = None /\ P!Submits(t, "offer") /\ UNCHANGED <<active, cancelled>>
            BY <2>1, <2>2, SubmitGoesOn DEF P!Submits, SubPhases
      <2>3. CASE /\ NameOf[t] # None /\ active[NameOf[t]] = None /\ P!Submits(t, "offer")
                 /\ active' = [active EXCEPT ![NameOf[t]] = t] /\ UNCHANGED cancelled
            BY <2>1, <2>3, SubmitGoesOn DEF P!Submits, SubPhases
      <2>4. CASE /\ P!Submits(t, "refused") /\ cancelled' = cancelled \union {t}
                 /\ UNCHANGED active
            BY <2>1, <2>4, SubmitGoesOn DEF P!Submits, SubPhases
      <2> QED  BY <1>2, <2>2, <2>3, <2>4 DEF P!Register
<1>3. CASE P!Offer(t)
      <2>1. UNCHANGED <<gen, shut, cut, stopping, of, runner, task, result, active, cancelled>>
            /\ sub[t] = "offer"
            BY <1>3 DEF P!Offer, P!work
      <2>2. CASE P!Room(t) /\ P!Put(t) /\ P!Submits(t, "check")
            BY <2>1, <2>2, SubmitQueues DEF P!Submits
      <2>3. CASE P!Submits(t, "full") /\ UNCHANGED tasks
            BY <2>1, <2>3, SubmitGoesOn DEF P!Submits, SubPhases
      <2> QED  BY <1>3, <2>2, <2>3 DEF P!Offer
<1>4. CASE P!FindFull(t)
      <2>1. UNCHANGED <<gen, shut, cut, stopping, tasks, of, runner, task, result>>
            /\ sub[t] = "full"
            BY <1>4 DEF P!FindFull, P!work
      <2>2. CASE P!TakeBack(t)
            BY <2>1, <2>2, SubmitGoesOn DEF P!Submits, P!TakeBack, SubPhases
      <2>3. CASE P!Submits(t, "blocked") /\ UNCHANGED <<active, cancelled>>
            BY <2>1, <2>3, SubmitGoesOn DEF P!Submits, SubPhases
      <2> QED  BY <1>4, <2>2, <2>3 DEF P!FindFull
<1>5. CASE P!Unblock(t)
      <2>1. UNCHANGED <<gen, shut, cut, stopping, of, runner, task, result>>
            /\ sub[t] = "blocked"
            BY <1>5 DEF P!Unblock, P!work
      <2>2. CASE P!Room(t) /\ P!Put(t)
                 /\ P!Submits(t, "check") /\ UNCHANGED <<active, cancelled>>
            BY <2>1, <2>2, SubmitQueues DEF P!Submits
      <2>3. CASE P!TakeBack(t) /\ UNCHANGED tasks
            BY <2>1, <2>3, SubmitGoesOn DEF P!Submits, P!TakeBack, SubPhases
      <2> QED  BY <1>5, <2>2, <2>3 DEF P!Unblock
<1>6. CASE P!Reclaim(t)
      <2>1. UNCHANGED <<gen, shut, cut, stopping, tasks, of, runner, task>> /\ sub[t] = "check"
            BY <1>6 DEF P!Reclaim, P!work
      <2>2. CASE P!Finish(t, "canceled") /\ P!TakeBack(t)
            BY <2>1, <2>2, SubmitGoesOn DEF P!Submits, P!TakeBack, SubPhases
      <2>3. CASE ~shut /\ P!Submits(t, "accepted") /\ UNCHANGED <<active, cancelled, result>>
            BY <2>1, <2>3, SubmitGoesOn DEF P!Submits, SubPhases
      <2> QED  BY <1>6, <2>2, <2>3 DEF P!Reclaim
<1> QED  BY <1>1, <1>2, <1>3, <1>4, <1>5, <1>6 DEF P!Submit

(* Kill, Task.Cancel, a timeout. *)
LEMMA CancelKeeps ==
    ASSUME P!AsyncPoolParams, PoolInv, NEW t \in Tasks, cancelled' = cancelled \union {t},
           UNCHANGED <<gen, shut, cut, tasks, active, sub, of,
                        result, runner, task, stopping>>
    PROVE  PoolInv'
<1> USE DEF PoolInv
<1>1. \A u : (Queueing(u)' <=> Queueing(u)) /\ (InHand(u)' <=> InHand(u))
      /\ (Due(u)' <=> Due(u))
      BY StaysPut
<1>2. PoolTypes'  BY DEF PoolTypes
<1>3. Lives'  BY StillLives
<1>4. Whereabouts'  BY <1>1 DEF Whereabouts
<1>5. Registered'  BY <1>1 DEF Registered, Offered
<1>6. Reached'  BY <1>1 DEF Reached, Offered, P!CtxDone
<1>7. Promised'  BY <1>1 DEF Promised
<1> QED  BY <1>2, <1>3, <1>4, <1>5, <1>6, <1>7

(* A step of worker w. *)
LEMMA WorkerTypes ==
    ASSUME PoolTypes, NEW w \in Workers, NEW to \in RunPhases,
           NEW t \in Tasks \union {None}, NEW n,
           P!Works(w, to, t, n)
    PROVE  /\ runner' \in [Workers -> RunPhases] /\ task' \in [Workers -> Tasks \union {None}]
           /\ runner'[w] = to /\ task'[w] = t
           /\ \A u \in Workers : u # w => runner'[u] = runner[u] /\ task'[u] = task[u]
<1>1. runner \in [Workers -> RunPhases] /\ task \in [Workers -> Tasks \union {None}]
      BY DEF PoolTypes
<1> QED  BY <1>1 DEF P!Works

(* A worker that is not off: the pool was started and not waited for.      *)
LEMMA AtWork ==
    ASSUME P!AsyncPoolParams, PoolTypes, Lives, NEW w \in Workers, runner[w] # "off"
    PROVE  gen # 0 /\ gen > 0 /\ gen \in P!Gens /\ stopping \notin {"drain again", "stopped"}
<1>1. gen \in Nat /\ gen <= MaxStarts /\ MaxStarts \in Nat  BY DEF PoolTypes, P!AsyncPoolParams
<1>2. gen # 0  BY DEF Lives, AllOff
<1>3. stopping \notin {"drain again", "stopped"}  BY DEF Lives, AllOff
<1>4. gen > 0 /\ gen \in P!Gens  BY <1>1, <1>2 DEF P!Gens
<1> QED  BY <1>2, <1>3, <1>4

LEMMA WorkerLives ==
    ASSUME P!AsyncPoolParams, PoolTypes, Lives, NEW w \in Workers, runner[w] # "off",
           UNCHANGED <<gen, shut, cut, stopping>>
    PROVE  Lives'
<1>1. gen # 0 /\ stopping \notin {"drain again", "stopped"}  BY AtWork
<1> QED  BY <1>1 DEF Lives

LEMMA LoopKeeps ==
    ASSUME P!AsyncPoolParams, PoolInv, NEW w \in Workers, P!Loop(w) PROVE PoolInv'
<1> USE DEF PoolInv
<1>1. /\ UNCHANGED <<gen, shut, cut, active, sub, of, cancelled, result, stopping>>
      /\ runner[w] \in {"look", "select"} /\ task[w] = None
      BY DEF P!Loop, Whereabouts
<1>2. Lives'  BY <1>1, WorkerLives
<1>3. None \notin Tasks  BY DEF P!AsyncPoolParams
<1>4. ASSUME NEW to \in {"off", "select"}, P!Works(w, to, None, 0), UNCHANGED tasks
      PROVE  PoolInv'
      <2>1. /\ runner' \in [Workers -> RunPhases] /\ task' \in [Workers -> Tasks \union {None}]
            /\ runner'[w] = to /\ task'[w] = None
            /\ \A u \in Workers : u # w => runner'[u] = runner[u] /\ task'[u] = task[u]
            BY <1>4, WorkerTypes DEF RunPhases
      <2>2. \A u : Queueing(u)' <=> Queueing(u)  BY <1>4 DEF Queueing, Elems
      <2>3. \A u \in Tasks : (InHand(u)' <=> InHand(u)) /\ (Due(u)' <=> Due(u))
            BY <1>1, <1>3, <2>1 DEF InHand, Due
      <2>4. PoolTypes'  BY <1>1, <1>4, <2>1 DEF PoolTypes
      <2>5. Whereabouts'
            BY <1>1, <1>4, <2>1, <2>2, <2>3 DEF Whereabouts
      <2>6. Registered'
            <3>1. active \in [P!Names -> Tasks \union {None}]  BY DEF PoolTypes
            <3> QED  BY <1>1, <2>2, <2>3, <3>1 DEF Registered, Offered
      <2>7. Reached'  BY <1>1, <2>2, <2>3 DEF Reached, Offered, P!CtxDone
      <2>8. Promised'  BY <1>1, <1>4, <2>2, <2>3 DEF Promised
      <2> QED  BY <1>2, <2>4, <2>5, <2>6, <2>7, <2>8
<1>5. ASSUME tasks[gen] # <<>>, P!Works(w, "taken", Head(tasks[gen]), 0),
             tasks' = [tasks EXCEPT ![gen] = Tail(@)]
      PROVE  PoolInv'
      <2> DEFINE t == Head(tasks[gen])
      <2>1. gen > 0  BY <1>1, AtWork
      <2>2. /\ tasks' \in [P!Gens -> Seq(Tasks)]
            /\ \A g \in P!Gens : Len(tasks'[g]) <= QueueSize
            /\ \A g \in P!Gens : Once(tasks'[g]) /\ \A u \in Elems(tasks'[g]) : of[u] = g
            /\ \A u : Queueing(u)' <=> Queueing(u) /\ u # t
            /\ Queueing(t) /\ t \in Tasks
            BY <1>1, <1>5, <2>1, TakeRemoves
      <2>3. P!Works(w, "taken", t, 0)  BY <1>5
      <2> HIDE DEF t
      <2>4. /\ runner' \in [Workers -> RunPhases] /\ task' \in [Workers -> Tasks \union {None}]
            /\ runner'[w] = "taken" /\ task'[w] = t
            /\ \A u \in Workers : u # w => runner'[u] = runner[u] /\ task'[u] = task[u]
            BY <2>2, <2>3, WorkerTypes DEF RunPhases
      <2>5. ~InHand(t)  BY <2>2 DEF Whereabouts
      <2>6. \A u \in Tasks : (InHand(u)' <=> InHand(u) \/ u = t) /\ (Due(u)' <=> Due(u) \/ u = t)
            BY <1>1, <1>3, <2>4 DEF InHand, Due
      <2>7. t # None  BY <1>3, <2>2
      <2>8. PoolTypes'  BY <1>1, <2>2, <2>4 DEF PoolTypes
      <2>9. Whereabouts'
            <3>1. \A u, x \in Workers : task'[u] # None /\ task'[u] = task'[x] => u = x
                  BY <2>4, <2>5 DEF Whereabouts, InHand
            <3>2. \A u \in Workers : task'[u] = None
                      <=> runner'[u] \in {"off", "look", "select"}
                  BY <2>4, <2>7 DEF Whereabouts
            <3> QED  BY <1>1, <2>2, <2>6, <3>1, <3>2 DEF Whereabouts
      <2>10. Registered'
            <3>1. active \in [P!Names -> Tasks \union {None}]  BY DEF PoolTypes
            <3> QED  BY <1>1, <2>2, <2>6, <3>1 DEF Registered, Offered
      <2>11. Reached'  BY <1>1, <2>2, <2>6 DEF Reached, Offered, P!CtxDone
      <2>12. Promised'
            <3>1. stopping' # "stopped"  BY <1>1, AtWork
            <3> QED  BY <1>1, <2>2, <2>6, <3>1 DEF Promised
      <2> QED  BY <1>2, <2>8, <2>9, <2>10, <2>11, <2>12
<1> QED  BY <1>1, <1>4, <1>5 DEF P!Loop

LEMMA RunItemKeeps ==
    ASSUME P!AsyncPoolParams, PoolInv, NEW w \in Workers, P!RunItem(w) PROVE PoolInv'
<1> USE DEF PoolInv
<1> DEFINE t == task[w]
<1>1. /\ UNCHANGED <<gen, shut, cut, tasks, active, sub, of, cancelled, stopping>>
      /\ runner[w] \in {"taken", "running", "backoff"}
      BY DEF P!RunItem
<1>2. t \in Tasks /\ t # None
      <2>1. t \in Tasks \union {None}  BY DEF PoolTypes
      <2>2. t # None  BY <1>1 DEF Whereabouts
      <2> QED  BY <2>1, <2>2
<1>3. PICK to \in {"running", "backoff", "ending"}, n \in {0, attempt[w], attempt[w] + 1} :
          /\ P!Works(w, to, t, n)
          /\ \/ to # "ending" /\ result' = result
             \/ \E r \in Outcomes \ {"none"} : P!Finish(t, r)
      BY DEF P!RunItem, P!Ends, P!Runs, Outcomes
<1>4. /\ result' \in [Tasks -> Outcomes]
      /\ to # "ending" \/ result'[t] # "none"
      /\ \A u \in Tasks : result'[u] = "none" => result[u] = "none"
      <2>1. CASE to # "ending" /\ result' = result  BY <2>1 DEF PoolTypes
      <2>2. ASSUME NEW r \in Outcomes \ {"none"}, P!Finish(t, r) PROVE <1>4!:
            BY <1>2, <2>2, Finished
      <2> QED  BY <1>3, <2>1, <2>2
<1>5. /\ runner' \in [Workers -> RunPhases] /\ task' \in [Workers -> Tasks \union {None}]
      /\ runner'[w] = to /\ task'[w] = t
      /\ \A u \in Workers : u # w => runner'[u] = runner[u] /\ task'[u] = task[u]
      BY <1>2, <1>3, WorkerTypes DEF RunPhases
<1>6. Lives'  BY <1>1, WorkerLives
<1>7. \A u : Queueing(u)' <=> Queueing(u)  BY <1>1 DEF Queueing, Elems
<1>8. \A u \in Workers : task'[u] = task[u]  BY <1>5
<1> HIDE DEF t
<1>9. \A u : InHand(u)' <=> InHand(u)  BY <1>8 DEF InHand
<1>10. ASSUME NEW u
       PROVE  (Due(u)' => Due(u)) /\ (Due(u) => Due(u)' \/ (u = t /\ to = "ending"))
       <2>1. Due(u)' => Due(u)
             <3> SUFFICES ASSUME NEW x \in Workers, task'[x] = u, runner'[x] # "ending"
                          PROVE  Due(u)
                 BY DEF Due
             <3>1. task[x] = u /\ runner[x] # "ending"  BY <1>1, <1>5, <1>8
             <3> QED  BY <3>1 DEF Due
       <2>2. ASSUME NEW x \in Workers, task[x] = u, runner[x] # "ending", u # t \/ to # "ending"
             PROVE  Due(u)'
             <3>1. task'[x] = u /\ runner'[x] # "ending"  BY <1>1, <1>5, <1>8, <2>2 DEF t
             <3> QED  BY <3>1 DEF Due
       <2> QED  BY <2>1, <2>2 DEF Due
<1>11. PoolTypes'  BY <1>1, <1>4, <1>5 DEF PoolTypes
<1>12. Whereabouts'
       <2>1. \A u \in Workers : task'[u] = None <=> runner'[u] \in {"off", "look", "select"}
             BY <1>2, <1>5 DEF Whereabouts
       <2> QED  BY <1>1, <1>7, <1>8, <1>9, <2>1 DEF Whereabouts
<1>13. Registered'
       <2>1. active \in [P!Names -> Tasks \union {None}]  BY DEF PoolTypes
       <2> QED  BY <1>1, <1>7, <1>9, <2>1 DEF Registered, Offered
<1>14. Reached'  BY <1>1, <1>7, <1>10 DEF Reached, Offered, P!CtxDone
<1>15. Promised'  BY <1>1, <1>4, <1>7, <1>9, <1>10 DEF Promised
<1> QED  BY <1>6, <1>11, <1>12, <1>13, <1>14, <1>15

LEMMA EndItemKeeps ==
    ASSUME P!AsyncPoolParams, PoolInv, NEW w \in Workers, P!EndItem(w) PROVE PoolInv'
<1> USE DEF PoolInv
<1>a. PICK t : t = task[w]  OBVIOUS
<1>1. /\ UNCHANGED <<gen, shut, cut, tasks, sub, of, result, stopping>>
      /\ runner[w] = "ending" /\ P!Unregister(t) /\ cancelled' = cancelled \union {t}
      /\ P!Works(w, "look", None, 0)
      BY <1>a DEF P!EndItem
<1>2. t \in Tasks /\ t # None
      <2>1. t \in Tasks \union {None}  BY <1>a DEF PoolTypes
      <2>2. t # None  BY <1>1, <1>a DEF Whereabouts
      <2> QED  BY <2>1, <2>2
<1>3. /\ runner' \in [Workers -> RunPhases] /\ task' \in [Workers -> Tasks \union {None}]
      /\ runner'[w] = "look" /\ task'[w] = None
      /\ \A u \in Workers : u # w => runner'[u] = runner[u] /\ task'[u] = task[u]
      BY <1>1, WorkerTypes DEF RunPhases
<1>4. Lives'  BY <1>1, WorkerLives
<1>5. \A u : Queueing(u)' <=> Queueing(u)  BY <1>1 DEF Queueing, Elems
<1>6. InHand(t) /\ ~Queueing(t)  BY <1>2, <1>a DEF Whereabouts, InHand
<1>7. \A u \in Workers : task[u] = t => u = w  BY <1>2, <1>a DEF Whereabouts
<1>8. ~Due(t)  BY <1>1, <1>7 DEF Due
<1>9. /\ active' \in [P!Names -> Tasks \union {None}]
      /\ \A n \in P!Names : active'[n] # t /\ active'[n] \in {active[n], None}
      /\ \A n \in P!Names : active[n] # t => active'[n] = active[n]
      BY <1>1, <1>2, Unregistered
<1>10. \A u \in Tasks : u # t => (InHand(u)' <=> InHand(u)) /\ (Due(u)' <=> Due(u))
       <2>1. \A u \in Tasks : u # None  BY DEF P!AsyncPoolParams
       <2> QED  BY <1>3, <1>a, <2>1 DEF InHand, Due
<1>11. ~InHand(t)' /\ ~Due(t)'
       BY <1>2, <1>3, <1>7 DEF InHand, Due
<1>12. PoolTypes'
       <2>1. cancelled' \subseteq Tasks  BY <1>1, <1>2 DEF PoolTypes
       <2> QED  BY <1>1, <1>3, <1>9, <2>1 DEF PoolTypes
<1>13. Whereabouts'
       <2>1. \A u \in Workers : task'[u] = None <=> runner'[u] \in {"off", "look", "select"}
             BY <1>3 DEF Whereabouts
       <2>2. \A u, x \in Workers : task'[u] # None /\ task'[u] = task'[x] => u = x
             BY <1>3 DEF Whereabouts
       <2>3. \A u \in Tasks : InHand(u)' => InHand(u)  BY <1>10, <1>11
       <2> QED  BY <1>1, <1>5, <2>1, <2>2, <2>3 DEF Whereabouts
<1>14. Registered'
       <2> SUFFICES ASSUME NEW n \in P!Names, NEW x, x = active'[n], x # None
                    PROVE  /\ NameOf[x] = n
                           /\ \/ Offered(x)'
                              \/ /\ sub'[x] \in {"check", "accepted"}
                                 /\ Queueing(x)' \/ InHand(x)'
           BY DEF Registered
       <2>1. x \in Tasks /\ x = active[n] /\ x # t  BY <1>9
       <2> QED  BY <1>1, <1>5, <1>10, <2>1 DEF Registered, Offered
<1>15. Reached'
       <2> SUFFICES ASSUME NEW u \in Tasks, NameOf[u] # None, ~P!CtxDone(u)',
                           Offered(u)' \/ Queueing(u)' \/ Due(u)'
                    PROVE  active'[NameOf[u]] = u
           BY DEF Reached
       <2>1. ~P!CtxDone(u) /\ u # t  BY <1>1 DEF P!CtxDone
       <2>2. Offered(u) \/ Queueing(u) \/ Due(u)  BY <1>1, <1>5, <1>10, <2>1 DEF Offered
       <2>3. active[NameOf[u]] = u /\ NameOf[u] \in P!Names  BY <2>1, <2>2 DEF Reached, P!Names
       <2> QED  BY <1>9, <2>1, <2>3
<1>16. Promised'
       <2>1. \A u \in Tasks : sub'[u] \in {"check", "accepted"} /\ result'[u] = "none"
                 => Queueing(u)' \/ Due(u)'
             BY <1>1, <1>5, <1>6, <1>8, <1>10 DEF Promised
       <2>2. \A u \in Tasks : sub'[u] = "refused" /\ result'[u] = "none"
                 => ~Queueing(u)' /\ ~InHand(u)'
             BY <1>1, <1>5, <1>10, <1>11 DEF Promised
       <2> QED  BY <1>1, <2>1, <2>2 DEF Promised
<1> QED  BY <1>4, <1>12, <1>13, <1>14, <1>15, <1>16

LEMMA StartKeeps == ASSUME P!AsyncPoolParams, PoolInv, P!Start PROVE PoolInv'
<1> USE DEF PoolInv
<1>1. /\ gen' = gen + 1 /\ shut' = FALSE /\ stopping' = "idle" /\ gen < MaxStarts
      /\ active' = [n \in P!Names |-> None] /\ runner' = [w \in Workers |-> "look"]
      /\ UNCHANGED <<cut, tasks, sub, of, cancelled, result, task>>
      BY DEF P!Start
<1>2. gen \in Nat /\ MaxStarts \in Nat  BY DEF PoolTypes, P!AsyncPoolParams
<1>3. AllOff /\ (gen = 0 \/ stopping = "stopped")
      <2>1. gen = 0 => AllOff  BY DEF Lives
      <2>2. gen # 0 => gen > 0  BY <1>2
      <2> QED  BY <2>1, <2>2 DEF P!Start, Lives
<1>4. \A w \in Workers : task[w] = None  BY <1>3 DEF Whereabouts, AllOff
<1>5. \A g \in 1 .. gen : g \in cut
      BY <1>2, <1>3 DEF Lives
<1>6. \A u : Queueing(u)' <=> Queueing(u)  BY <1>1 DEF Queueing, Elems
<1>7. \A u \in Tasks : ~InHand(u) /\ ~InHand(u)' /\ ~Due(u) /\ ~Due(u)'
      <2>1. None \notin Tasks  BY DEF P!AsyncPoolParams
      <2> QED  BY <1>1, <1>4, <2>1 DEF InHand, Due
<1>8. PoolTypes'
      <2>1. gen' \in Nat /\ gen' <= MaxStarts /\ cut \subseteq 1 .. gen'
            /\ \A x \in 0 .. gen : x \in 0 .. gen'
            BY <1>1, <1>2 DEF PoolTypes
      <2>2. of' \in [Tasks -> 0 .. gen']  BY <1>1, <2>1 DEF PoolTypes
      <2>3. active' \in [P!Names -> Tasks \union {None}] /\ runner' \in [Workers -> RunPhases]
            BY <1>1 DEF RunPhases
      <2> QED  BY <1>1, <2>1, <2>2, <2>3 DEF PoolTypes, StopPhases
<1>9. Lives'
      <2>1. gen + 1 \notin cut /\ gen + 1 > 0  BY <1>2 DEF PoolTypes
      <2>2. \A g \in 1 .. gen + 1 : g \in 1 .. gen \/ g = gen + 1  BY <1>2
      <2>3. \A g \in 1 .. gen : g < gen + 1  BY <1>2
      <2>4. \A g \in 1 .. gen + 1 : g \in cut <=> g < gen + 1  BY <1>2, <1>5, <2>1, <2>2, <2>3
      <2>5. gen' # 0 /\ gen' > 0  BY <1>1, <1>2
      <2>6. \A g \in 1 .. gen' : g \in cut' <=> g < gen'  BY <1>1, <2>4
      <2> QED  BY <1>1, <2>5, <2>6 DEF Lives
<1>10. Whereabouts'
      BY <1>1, <1>4, <1>6, <1>7 DEF Whereabouts
<1>11. Registered'  BY <1>1 DEF Registered
<1>12. Reached'
      <2> SUFFICES ASSUME NEW u \in Tasks, Offered(u) \/ Queueing(u) PROVE of[u] \in cut
          BY <1>1, <1>6, <1>7 DEF Reached, Offered, P!CtxDone
      <2>1. of[u] \in 0 .. gen  BY DEF PoolTypes
      <2>2. of[u] # 0
            <3>1. CASE Offered(u)  BY <3>1 DEF Whereabouts, Offered
            <3>2. ASSUME NEW g \in P!Gens, u \in Elems(tasks[g]) PROVE of[u] # 0
                  <4>1. of[u] = g  BY <3>2 DEF Whereabouts
                  <4>2. g # 0  BY <1>2 DEF P!Gens
                  <4> QED  BY <4>1, <4>2
            <3> QED  BY <3>1, <3>2 DEF Queueing
      <2>3. of[u] \in 1 .. gen  BY <1>2, <2>1, <2>2
      <2> QED  BY <1>5, <2>3
<1>13. Promised'  BY <1>1, <1>6, <1>7 DEF Promised
<1> QED  BY <1>8, <1>9, <1>10, <1>11, <1>12, <1>13

(* Close, Cut and Wait, the steps of Stop that leave tasks alone.          *)
LEMMA StopGoesOn ==
    ASSUME P!AsyncPoolParams, PoolInv, P!Close \/ P!Cut \/ P!Wait PROVE PoolInv'
<1> USE DEF PoolInv
<1>1. /\ UNCHANGED <<gen, tasks, active, sub, of, cancelled, result, runner, task>>
      /\ cut \subseteq cut' /\ stopping' # "stopped"
      BY DEF P!Close, P!Cut, P!Wait, P!work
<1>2. \A u : (Queueing(u)' <=> Queueing(u)) /\ (InHand(u)' <=> InHand(u))
      /\ (Due(u)' <=> Due(u))
      BY <1>1, StaysPut
<1>3. gen \in Nat  BY DEF PoolTypes
<1>4. /\ shut' \in BOOLEAN /\ cut' \subseteq 1 .. gen /\ stopping' \in StopPhases /\ Lives'
      <2>1. cut \subseteq 1 .. gen /\ shut \in BOOLEAN  BY DEF PoolTypes
      <2>2. gen # 0 => gen > 0  BY <1>3
      <2>3. CASE P!Close
            BY <1>1, <2>1, <2>2, <2>3 DEF P!Close, Lives, AllOff, StopPhases
      <2>4. CASE P!Cut
            <3>1. gen > 0  BY <2>2, <2>4 DEF P!Cut, Lives
            <3>2. gen \in 1 .. gen  BY <1>3, <3>1
            <3>3. \A g \in 1 .. gen : g < gen \/ g = gen  BY <1>3
            <3>4. cut' = cut \union {gen}
                  /\ stopping = "cutting" /\ stopping' = "drain" /\ shut' = shut
                  BY <2>4 DEF P!Cut
            <3>5. \A g \in 1 .. gen : g \in cut'  BY <3>3, <3>4 DEF Lives
            <3> QED  BY <1>1, <2>1, <3>1, <3>2, <3>4, <3>5 DEF Lives, AllOff, StopPhases
      <2>5. CASE P!Wait
            BY <1>1, <2>1, <2>2, <2>5 DEF P!Wait, Lives, AllOff, StopPhases
      <2> QED  BY <2>3, <2>4, <2>5
<1>5. PoolTypes'  BY <1>1, <1>4 DEF PoolTypes
<1>6. Whereabouts'  BY <1>1, <1>2 DEF Whereabouts
<1>7. Registered'
      <2>1. active \in [P!Names -> Tasks \union {None}]  BY DEF PoolTypes
      <2> QED  BY <1>1, <1>2, <2>1 DEF Registered, Offered
<1>8. Reached'  BY <1>1, <1>2 DEF Reached, Offered, P!CtxDone
<1>9. Promised'  BY <1>1, <1>2 DEF Promised
<1> QED  BY <1>4, <1>5, <1>6, <1>7, <1>8, <1>9

LEMMA DrainKeeps == ASSUME P!AsyncPoolParams, PoolInv, P!DrainTasks PROVE PoolInv'
<1> USE DEF PoolInv
<1>1. /\ UNCHANGED <<gen, shut, cut, sub, of, cancelled, runner, task>>
      /\ stopping \in {"drain", "drain again"}
      BY DEF P!DrainTasks, P!work
<1>2. gen > 0 /\ gen \in P!Gens  BY <1>1, StoppedIsOne
<1>3. \A u : (InHand(u)' <=> InHand(u)) /\ (Due(u)' <=> Due(u))  BY <1>1 DEF InHand, Due
<1>4. CASE /\ tasks[gen] = <<>> /\ UNCHANGED <<tasks, result, active>>
           /\ stopping' = IF stopping = "drain" THEN "wait" ELSE "stopped"
      <2>1. \A u : Queueing(u)' <=> Queueing(u)  BY <1>4 DEF Queueing, Elems
      <2>2. PoolTypes'  BY <1>1, <1>4 DEF PoolTypes, StopPhases
      <2>3. Lives'  BY <1>1, <1>2, <1>4 DEF Lives, AllOff
      <2>4. Whereabouts'  BY <1>1, <1>3, <1>4, <2>1 DEF Whereabouts
      <2>5. Registered'
            <3>1. active \in [P!Names -> Tasks \union {None}]  BY DEF PoolTypes
            <3> QED  BY <1>1, <1>3, <1>4, <2>1, <3>1 DEF Registered, Offered
      <2>6. Reached'  BY <1>1, <1>3, <1>4, <2>1 DEF Reached, Offered, P!CtxDone
      <2>7. Promised'
            <3>1. Elems(<<>>) = {}  BY DEF Elems
            <3>2. tasks'[gen'] = <<>>  BY <1>1, <1>4
            <3> QED  BY <1>1, <1>3, <1>4, <2>1, <3>1, <3>2 DEF Promised
      <2> QED  BY <2>2, <2>3, <2>4, <2>5, <2>6, <2>7
<1>5. ASSUME tasks[gen] # <<>>, tasks' = [tasks EXCEPT ![gen] = Tail(@)], UNCHANGED stopping,
             P!Finish(Head(tasks[gen]), "canceled"), P!Unregister(Head(tasks[gen]))
      PROVE  PoolInv'
      <2>a. PICK t : t = Head(tasks[gen])  OBVIOUS
      <2>1. /\ tasks' \in [P!Gens -> Seq(Tasks)]
            /\ \A g \in P!Gens : Len(tasks'[g]) <= QueueSize
            /\ \A g \in P!Gens : Once(tasks'[g]) /\ \A u \in Elems(tasks'[g]) : of[u] = g
            /\ \A u : Queueing(u)' <=> Queueing(u) /\ u # t
            /\ Queueing(t) /\ t \in Tasks
            BY <1>1, <1>2, <1>5, <2>a, TakeRemoves
      <2>2. P!Finish(t, "canceled") /\ P!Unregister(t)  BY <1>5, <2>a
      <2>3. /\ result' \in [Tasks -> Outcomes] /\ result'[t] # "none"
            /\ \A u \in Tasks : u # t => result'[u] = result[u]
            BY <2>1, <2>2, Finished DEF Outcomes
      <2>4. /\ active' \in [P!Names -> Tasks \union {None}]
            /\ \A n \in P!Names : active'[n] # t /\ active'[n] \in {active[n], None}
            /\ \A n \in P!Names : active[n] # t => active'[n] = active[n]
            BY <2>1, <2>2, Unregistered
      <2>5. ~InHand(t) /\ ~Due(t) /\ ~Offered(t)
            BY <2>1 DEF Whereabouts, Offered, Due, InHand
      <2>6. PoolTypes'  BY <1>1, <1>5, <2>1, <2>3, <2>4 DEF PoolTypes
      <2>7. Lives'  BY <1>1, <1>5, StillLives
      <2>8. Whereabouts'  BY <1>1, <1>3, <2>1 DEF Whereabouts
      <2>9. Registered'
            <3> SUFFICES ASSUME NEW n \in P!Names, NEW x, x = active'[n], x # None
                         PROVE  /\ NameOf[x] = n
                                /\ \/ Offered(x)'
                                   \/ /\ sub'[x] \in {"check", "accepted"}
                                      /\ Queueing(x)' \/ InHand(x)'
                BY DEF Registered
            <3>1. x \in Tasks /\ x = active[n] /\ x # t  BY <2>4
            <3> QED  BY <1>1, <1>3, <2>1, <3>1 DEF Registered, Offered
      <2>10. Reached'
            <3> SUFFICES ASSUME NEW u \in Tasks, NameOf[u] # None, ~P!CtxDone(u)',
                                Offered(u)' \/ Queueing(u)' \/ Due(u)'
                         PROVE  active'[NameOf[u]] = u
                BY DEF Reached
            <3>1. ~P!CtxDone(u)  BY <1>1 DEF P!CtxDone
            <3>2. u # t /\ (Offered(u) \/ Queueing(u) \/ Due(u))
                  BY <1>1, <1>3, <2>1, <2>5 DEF Offered
            <3>3. active[NameOf[u]] = u /\ NameOf[u] \in P!Names
                  BY <3>1, <3>2 DEF Reached, P!Names
            <3> QED  BY <2>4, <3>2, <3>3
      <2>11. Promised'
            <3>1. stopping' # "stopped"  BY <1>1, <1>5
            <3> QED  BY <1>1, <1>3, <2>1, <2>3, <3>1 DEF Promised
      <2> QED  BY <2>6, <2>7, <2>8, <2>9, <2>10, <2>11
<1> QED  BY <1>1, <1>4, <1>5 DEF P!DrainTasks

LEMMA PoolStep ==
    ASSUME P!AsyncPoolParams, PoolInv, [P!APNext]_(P!vars) PROVE PoolInv'
<1>1. CASE UNCHANGED P!vars
      <2>1. UNCHANGED <<gen, shut, cut, tasks, active, sub, of, cancelled,
                         result, runner, task, stopping>>
            BY <1>1 DEF P!vars, P!work
      <2>2. \A u : (Queueing(u)' <=> Queueing(u)) /\ (InHand(u)' <=> InHand(u))
            /\ (Due(u)' <=> Due(u))
            BY <2>1, StaysPut
      <2>3. PoolTypes' /\ Lives'  BY <2>1, StillLives DEF PoolInv, PoolTypes
      <2> QED  BY <2>1, <2>2, <2>3
                  DEF PoolInv, Whereabouts, Registered, Reached, Promised, Offered, P!CtxDone
<1>2. ASSUME NEW t \in Tasks, P!Submit(t) \/ P!End(t) PROVE PoolInv'
      <2>1. CASE P!End(t)  BY <2>1, CancelKeeps DEF P!End, P!work
      <2> QED  BY <1>2, <2>1, SubmitKeeps
<1>3. ASSUME NEW n \in P!Names, P!Kill(n) PROVE PoolInv'
      <2>1. active[n] \in Tasks \union {None}  BY DEF PoolInv, PoolTypes
      <2>2. active[n] \in Tasks  BY <1>3, <2>1 DEF P!Kill
      <2> QED  BY <1>3, <2>2, CancelKeeps DEF P!Kill, P!work
<1>4. ASSUME NEW w \in Workers, P!Loop(w) \/ P!RunItem(w) \/ P!EndItem(w) PROVE PoolInv'
      BY <1>4, LoopKeeps, RunItemKeeps, EndItemKeeps
<1>5. CASE P!Start \/ P!Stop  BY <1>5, StartKeeps, StopGoesOn, DrainKeeps DEF P!Stop
<1> QED  BY <1>1, <1>2, <1>3, <1>4, <1>5 DEF P!APNext

LEMMA PoolMeans ==
    ASSUME P!AsyncPoolParams, PoolInv
    PROVE  P!APTypeOK /\ P!AcceptedEndsOnce /\ P!RefusedNeverRuns /\ P!KillReaches
<1> USE DEF PoolInv
<1>1. gen \in Nat /\ gen <= MaxStarts /\ MaxStarts \in Nat /\ None \notin Tasks
      BY DEF PoolTypes, P!AsyncPoolParams
<1>2. P!APTypeOK
      <2>1. \A g \in 1 .. gen : g \in 1 .. MaxStarts  BY <1>1
      <2>2. \A g \in 0 .. gen : g \in 0 .. MaxStarts  BY <1>1
      <2>3. cut \subseteq P!Gens  BY <2>1 DEF PoolTypes, P!Gens
      <2>4. of \in [Tasks -> 0 .. gen]  BY DEF PoolTypes
      <2>5. of \in [Tasks -> 0 .. MaxStarts]  BY <2>2, <2>4
      <2>6. gen \in 0 .. MaxStarts  BY <1>1
      <2> QED  BY <2>3, <2>5, <2>6 DEF P!APTypeOK, PoolTypes
<1>3. \A t : P!Held(t) <=> Queueing(t) \/ InHand(t)
      <2>1. \A g \in P!Gens : DOMAIN tasks[g] = 1 .. Len(tasks[g])  BY DEF PoolTypes
      <2> QED  BY <2>1 DEF P!Held, Queueing, InHand, Elems
<1>4. P!RefusedNeverRuns  BY <1>3 DEF P!RefusedNeverRuns, Promised
<1>5. P!KillReaches
      <2> SUFFICES ASSUME NEW w \in Workers, runner[w] = "running", ~P!CtxDone(task[w]),
                          NameOf[task[w]] # None
                   PROVE  active[NameOf[task[w]]] = task[w]
          BY DEF P!KillReaches
      <2>1. task[w] \in Tasks \union {None}  BY DEF PoolTypes
      <2>2. task[w] \in Tasks  BY <2>1 DEF Whereabouts
      <2> QED  BY <2>2 DEF Due, Reached
<1>6. ASSUME gen <= 1, stopping = "stopped"
      PROVE  \A t \in Tasks : sub[t] = "accepted" => ~Queueing(t) /\ ~InHand(t)
      <2>1. gen > 0  BY <1>6, StoppedIsOne
      <2>2. gen = 1  BY <1>1, <1>6, <2>1
      <2>3. \A w \in Workers : task[w] = None  BY <1>6 DEF Lives, AllOff, Whereabouts
      <2> SUFFICES ASSUME NEW t \in Tasks, sub[t] = "accepted",
                          NEW g \in P!Gens, t \in Elems(tasks[g])
                   PROVE  FALSE
          BY <1>1, <2>3 DEF Queueing, InHand
      <2>4. of[t] = g  BY DEF Whereabouts
      <2>5. of[t] \in 0 .. gen /\ of[t] # 0  BY DEF PoolTypes, Whereabouts
      <2>6. g = gen  BY <2>2, <2>4, <2>5
      <2> QED  BY <1>6, <2>6 DEF Promised
<1>7. P!AcceptedEndsOnce
      <2> SUFFICES ASSUME gen <= 1, stopping = "stopped" PROVE
              /\ \A t \in Tasks : sub[t] = "accepted" => result[t] # "none"
              /\ (\A t \in Tasks : P!Settled(t)) => \A n \in P!Names : active[n] = None
          BY DEF P!AcceptedEndsOnce, P!AcceptedEnds
      <2>1. \A t \in Tasks : Due(t) => InHand(t)  BY DEF Due, InHand
      <2>2. \A t \in Tasks : sub[t] = "accepted" => result[t] # "none"
            BY <1>6, <2>1 DEF Promised
      <2>3. ASSUME \A t \in Tasks : P!Settled(t), NEW n \in P!Names, active[n] # None
            PROVE  FALSE
            <3>1. active[n] \in Tasks  BY <2>3 DEF PoolTypes
            <3>2. sub[active[n]] = "accepted" /\ (Queueing(active[n]) \/ InHand(active[n]))
                  BY <2>3, <3>1 DEF Registered, Offered, P!Settled
            <3> QED  BY <1>6, <3>1, <3>2
      <2> QED  BY <2>2, <2>3
<1> QED  BY <1>2, <1>4, <1>5, <1>7

(* Submit, reclaimIfClosed, Stop, Kill, for any tasks, names, workers,     *)
(* channels and retries: who was accepted has a result once the first Stop *)
(* returns, who was refused never runs, who runs is found under its name.  *)
THEOREM AcceptedTasksHaveAnEnd ==
    ASSUME P!AsyncPoolParams
    PROVE  P!APSpec => [](P!APTypeOK /\ P!AcceptedEndsOnce /\ P!RefusedNeverRuns /\ P!KillReaches)
<1>1. PoolInv => P!APTypeOK /\ P!AcceptedEndsOnce /\ P!RefusedNeverRuns /\ P!KillReaches
      BY PoolMeans
<1> QED  BY <1>1, PoolStart, PoolStep, PTL DEF P!APSpec

-----------------------------------------------------------------------------
(* The tables of the timers.                                               *)
(*                                                                         *)
(* A timer is followed when it can do no more, or a goroutine has its      *)
(* stopper to call.  Whatever ends stays ended (Ahead), so what must be    *)
(* shown of an action is that it takes no timer out of the tables that is  *)
(* not followed afterwards.                                                *)

CONSTANTS Goroutines, Scopes, TimerNames, Uses, Migrates, KindOf, MaxTimers
VARIABLES serial, timers, byName, byScope, nameLoc, reg, errands, silenced, orphans
T == INSTANCE TimerScheduler WITH
    Callers <- Goroutines, NoScope <- None, Names <- TimerNames,
    seq <- serial, timer <- timers, call <- errands, closed <- silenced

TimerRecs ==
    [scope : Scopes \cup {None}, name : TimerNames \cup {T!NoTimer.name},
     at : {"none", "heap", "popped", "over"}, off : BOOLEAN]
Errands ==
    [step : {"idle", "file", "register", "stop"}, id : 0..serial, left : SUBSET (1..serial)]
Refs == [scope : Scopes \cup {None}, id : Nat]
RefOf(n, r) == r.scope \in Scopes /\ r.id \in 1..serial /\ T!Pair(r.id) = <<r.scope, n>>

Made ==
    /\ serial \in Nat /\ serial <= MaxTimers /\ timers \in [T!Ids -> TimerRecs]
    /\ \A i \in T!Ids : i > serial => timers[i].at = "none"
    /\ \A i \in 1..serial : T!Pair(i) \in Uses
Tabled ==
    /\ byName \in [TimerNames -> 0..serial] /\ byScope \in [Scopes -> SUBSET (1..serial)]
    /\ nameLoc \in [TimerNames -> Refs]
    /\ \A n \in TimerNames : nameLoc[n] = T!NoRef \/ RefOf(n, nameLoc[n])
    /\ reg \in [Uses -> 0..serial]
Minded ==
    /\ errands \in [Goroutines -> Errands]
    /\ \A c \in Goroutines :
          /\ errands[c].step \in {"file", "register"} => errands[c].id # 0
          /\ errands[c].step = "file" => T!Kind(errands[c].id) = "cron"
          /\ errands[c].step # "stop" => errands[c].left = {}

Followed(i) == ~T!Live(i) \/ T!Stopping(i)
Named ==
    \A n \in TimerNames : nameLoc[n] # T!NoRef =>
        nameLoc[n].id = byName[n] \/ Followed(nameLoc[n].id)
Reachable ==
    \A i \in 1..serial : T!Scoped(i) /\ ~T!InTheMaking(i) /\ i \notin orphans =>
        i \in byScope[timers[i].scope] \/ Followed(i)
FiledLive ==
    \A u \in Uses : T!Own(u) /\ reg[u] # 0 /\ KindOf[u[2]] # "cron" =>
        T!Pair(reg[u]) = u /\ T!Live(reg[u])

TimersInv == Made /\ Tabled /\ Minded /\ Named /\ Reachable /\ FiledLive

-----------------------------------------------------------------------------
(* Timers *)

Ahead ==
    /\ serial' \in Nat /\ serial <= serial'
    /\ \A i \in 1..serial : T!Pair(i)' = T!Pair(i) /\ (T!Live(i)' => T!Live(i))
CallsGoOn ==
    \A c \in Goroutines : \A i \in errands[c].left : i \in errands'[c].left \/ ~T!Live(i)'

LEMMA StaysFollowed ==
    ASSUME Ahead, CallsGoOn, NEW i \in 1..serial, Followed(i)
    PROVE  Followed(i)'
    BY DEF Ahead, CallsGoOn, Followed, T!Stopping

LEMMA PairOf ==
    ASSUME T!TimerParams, NEW u \in Uses
    PROVE  /\ u[1] \in Scopes \cup {None} /\ u[2] \in TimerNames /\ u = <<u[1], u[2]>>
           /\ KindOf[u[2]] \in {"once", "every", "cron"}
    BY DEF T!TimerParams

LEMMA TimerOf ==
    ASSUME T!TimerParams, Made, NEW i \in 1..serial
    PROVE  /\ i \in T!Ids /\ timers[i] \in TimerRecs /\ timers[i].name \in TimerNames
           /\ timers[i].scope \in Scopes \cup {None} /\ T!Kind(i) \in {"once", "every", "cron"}
<1>1. i \in T!Ids  BY DEF Made, T!Ids, T!TimerParams
<1>2. T!Pair(i) \in Uses /\ T!Pair(i)[1] = timers[i].scope /\ T!Pair(i)[2] = timers[i].name
      BY DEF Made, T!Pair
<1> QED  BY <1>1, <1>2, PairOf DEF Made, T!Kind

(* One timer changes where it is, or is told that it is off.               *)
LEMMA OneChanges ==
    ASSUME T!TimerParams, Made, NEW i \in 1..serial, NEW a \in {"heap", "popped", "over"},
           NEW o \in BOOLEAN, serial' = serial,
           timers' = [timers EXCEPT ![i] = [@ EXCEPT !.at = a, !.off = o]]
    PROVE  /\ timers' \in [T!Ids -> TimerRecs]
           /\ \A j \in T!Ids : j # i => timers'[j] = timers[j]
           /\ timers'[i].at = a /\ timers'[i].off = o
           /\ timers'[i].scope = timers[i].scope /\ timers'[i].name = timers[i].name
<1>1. timers[i] \in TimerRecs /\ i \in T!Ids  BY TimerOf
<1>2. [timers[i] EXCEPT !.at = a, !.off = o] \in TimerRecs  BY <1>1 DEF TimerRecs
<1> QED  BY <1>1, <1>2 DEF Made, TimerRecs

LEMMA ChangesAhead ==
    ASSUME T!TimerParams, Made, serial' = serial, timers' \in [T!Ids -> TimerRecs],
           \A j \in T!Ids : /\ timers'[j].scope = timers[j].scope
                            /\ timers'[j].name = timers[j].name
                            /\ timers[j].at = "none" => timers'[j].at = "none",
           \A j \in 1..serial : T!Live(j)' => T!Live(j)
    PROVE  Made' /\ Ahead
<1>1. \A j \in 1..serial : j \in T!Ids /\ T!Pair(j)' = T!Pair(j)
      BY TimerOf DEF T!Pair
<1>2. T!Ids' = T!Ids  BY DEF T!Ids
<1>3. \A j \in T!Ids : j > serial => timers'[j].at = "none"  BY DEF Made
<1>4. \A j \in 1..serial : T!Pair(j)' \in Uses  BY <1>1 DEF Made
<1>5. TimerRecs' = TimerRecs  BY DEF TimerRecs, T!NoTimer
<1> QED  BY <1>1, <1>2, <1>3, <1>4, <1>5 DEF Made, Ahead

LEMMA StopOneEnds ==
    ASSUME T!TimerParams, Made, Tabled, NEW i \in 1..serial, serial' = serial, T!StopOne(i)
    PROVE  /\ Made' /\ Ahead /\ ~T!Live(i)'
           /\ \A j \in 1..serial : j # i => timers'[j] = timers[j]
           /\ reg' \in [Uses -> 0..serial] /\ \A u \in Uses : reg'[u] \in {0, reg[u]}
           /\ nameLoc' \in [TimerNames -> Refs]
           /\ \A n \in TimerNames : nameLoc'[n] \in {T!NoRef, nameLoc[n]}
           /\ T!Kind(i) # "cron" /\ T!Live(i) => \A u \in Uses : u = T!Pair(i) => reg'[u] # i
<1>0. i \in T!Ids /\ timers[i] \in TimerRecs /\ T!Kind(i) \in {"once", "every", "cron"}
      BY TimerOf
<1>1. CASE T!Kind(i) = "cron" \/ (timers[i].at = "heap" /\ ~timers[i].off)
      <2>1. /\ timers' = [timers EXCEPT ![i].off = TRUE]
            /\ reg' = T!Unregister(i)
            /\ nameLoc' = [n \in TimerNames |->
                             IF T!Kind(i) # "cron" /\ n = timers[i].name /\ nameLoc[n].id = i
                             THEN T!NoRef ELSE nameLoc[n]]
            BY <1>1 DEF T!StopOne
      <2>2. [timers[i] EXCEPT !.off = TRUE] \in TimerRecs  BY <1>0 DEF TimerRecs
      <2>3. /\ timers' \in [T!Ids -> TimerRecs]
            /\ \A j \in T!Ids : j # i => timers'[j] = timers[j]
            /\ timers'[i].at = timers[i].at /\ timers'[i].off = TRUE
            /\ timers'[i].scope = timers[i].scope /\ timers'[i].name = timers[i].name
            BY <1>0, <2>1, <2>2 DEF Made, TimerRecs
      <2>4. ~T!Live(i)'  BY <2>3 DEF T!Live
      <2>5. \A j \in 1..serial : j \in T!Ids  BY TimerOf
      <2>6. \A j \in 1..serial : T!Live(j)' => T!Live(j)
            BY <2>3, <2>4, <2>5 DEF T!Live, T!Kind
      <2>7. Made' /\ Ahead
            <3>1. \A j \in T!Ids : /\ timers'[j].scope = timers[j].scope
                                   /\ timers'[j].name = timers[j].name
                                   /\ timers[j].at = "none" => timers'[j].at = "none"
                  BY <2>3
            <3> QED  BY <2>3, <2>6, <3>1, ChangesAhead
      <2>8. reg' \in [Uses -> 0..serial] /\ \A u \in Uses : reg'[u] \in {0, reg[u]}
            BY <2>1 DEF T!Unregister, Tabled, Made
      <2>9. T!NoRef \in Refs  BY DEF T!NoRef, Refs
      <2>10. /\ nameLoc' \in [TimerNames -> Refs]
             /\ \A n \in TimerNames : nameLoc'[n] \in {T!NoRef, nameLoc[n]}
             BY <2>1, <2>9 DEF Tabled
      <2>11. \A u \in Uses : u = T!Pair(i) => reg'[u] # i
             BY <2>1 DEF T!Unregister
      <2> QED  BY <2>3, <2>4, <2>5, <2>7, <2>8, <2>10, <2>11
<1>2. CASE ~(T!Kind(i) = "cron" \/ (timers[i].at = "heap" /\ ~timers[i].off))
      <2>1. UNCHANGED <<timers, reg, nameLoc>>  BY <1>2 DEF T!StopOne
      <2>2. \A j \in 1..serial : T!Live(j)' = T!Live(j)  BY <2>1 DEF T!Live, T!Kind
      <2>3. ~T!Live(i) /\ ~T!Live(i)'  BY <1>2, <2>2 DEF T!Live
      <2>4. Made' /\ Ahead  BY <2>1, <2>2, ChangesAhead DEF Made
      <2> QED  BY <2>1, <2>3, <2>4 DEF Tabled
<1> QED  BY <1>1, <1>2

-----------------------------------------------------------------------------
(* What an action has to leave *)

LEMMA NamedKept ==
    ASSUME Ahead, CallsGoOn, Tabled, Named,
           \A n \in TimerNames : \A i : nameLoc'[n] # T!NoRef /\ nameLoc'[n].id = i =>
              \/ byName'[n] = i \/ Followed(i)'
              \/ nameLoc'[n] = nameLoc[n] /\ (byName'[n] = byName[n] \/ Followed(i))
    PROVE  Named'
<1>1. ASSUME NEW n \in TimerNames, nameLoc'[n] # T!NoRef, nameLoc'[n].id # byName'[n],
             NEW i, i = nameLoc'[n].id
      PROVE  Followed(i)'
      <2>1. CASE Followed(i)'  BY <2>1
      <2>2. CASE nameLoc'[n] = nameLoc[n] /\ (byName'[n] = byName[n] \/ Followed(i))
            <3>1. Followed(nameLoc[n].id) \/ Followed(i)  BY <1>1, <2>2 DEF Named
            <3>2. Followed(i)  BY <1>1, <2>2, <3>1
            <3>3. nameLoc[n].id \in 1..serial  BY <1>1, <2>2 DEF Tabled, RefOf
            <3>4. i \in 1..serial  BY <1>1, <2>2, <3>3
            <3> QED  BY <3>2, <3>4, StaysFollowed
      <2> QED  BY <1>1, <2>1, <2>2
<1> QED  BY <1>1 DEF Named, T!NoRef

LEMMA ReachableKept ==
    ASSUME Ahead, CallsGoOn, Reachable,
           \A i \in 1..serial' :
              T!Scoped(i)' /\ ~T!InTheMaking(i)' /\ i \notin orphans' /\ ~Followed(i)' =>
                 \/ i \in byScope'[timers'[i].scope]
                 \/ /\ i \in 1..serial /\ ~T!InTheMaking(i) /\ i \notin orphans
                    /\ i \in byScope[timers[i].scope] => i \in byScope'[timers[i].scope]
    PROVE  Reachable'
<1> SUFFICES ASSUME NEW i \in 1..serial', T!Scoped(i)', ~T!InTheMaking(i)', i \notin orphans',
                    ~Followed(i)', i \notin byScope'[timers'[i].scope]
             PROVE  FALSE
    BY DEF Reachable
<1>1. /\ i \in 1..serial /\ ~T!InTheMaking(i) /\ i \notin orphans
      /\ i \in byScope[timers[i].scope] => i \in byScope'[timers[i].scope]
      OBVIOUS
<1>2. ~Followed(i)  BY <1>1, StaysFollowed
<1>3. timers'[i].scope = timers[i].scope  BY <1>1 DEF Ahead, T!Pair
<1>4. i \in byScope[timers[i].scope]  BY <1>1, <1>2, <1>3 DEF Reachable, T!Scoped
<1> QED  BY <1>1, <1>3, <1>4

LEMMA FiledKept ==
    ASSUME T!TimerParams, Ahead, Tabled, FiledLive,
           \A u \in Uses : reg'[u] \in 0..serial',
           \A u \in Uses : \A i \in 1..serial' : reg'[u] = i /\ KindOf[u[2]] # "cron" =>
              \/ reg[u] = i /\ (T!Own(u) /\ T!Live(i) => T!Live(i)')
              \/ T!Pair(i)' = u /\ T!Live(i)'
    PROVE  FiledLive'
<1>1. ASSUME NEW u \in Uses, T!Own(u), KindOf[u[2]] # "cron", NEW i, i = reg'[u], i # 0
      PROVE  T!Pair(i)' = u /\ T!Live(i)'
      <2>1. i \in 1..serial'
            <3>1. i \in 0..serial' /\ serial' \in Nat  BY <1>1 DEF Ahead
            <3> QED  BY <1>1, <3>1
      <2>2. CASE T!Pair(i)' = u /\ T!Live(i)'  BY <2>2
      <2>3. CASE reg[u] = i /\ (T!Own(u) /\ T!Live(i) => T!Live(i)')
            <3>1. T!Pair(reg[u]) = u /\ T!Live(reg[u])  BY <1>1, <2>3 DEF FiledLive
            <3>2. T!Pair(i) = u /\ T!Live(i)  BY <2>3, <3>1
            <3>3. i \in 1..serial
                  <4>1. reg[u] \in 0..serial  BY DEF Tabled
                  <4> QED  BY <1>1, <2>3, <4>1
            <3> QED  BY <1>1, <2>3, <3>2, <3>3 DEF Ahead
      <2> QED  BY <1>1, <2>1, <2>2, <2>3
<1> QED  BY <1>1 DEF FiledLive, T!Own

LEMMA TabledKept ==
    ASSUME Tabled, Ahead, Made, byName' \in [TimerNames -> 0..serial'],
           byScope' \in [Scopes -> SUBSET (1..serial')], reg' \in [Uses -> 0..serial'],
           nameLoc' \in [TimerNames -> Refs],
           \A n \in TimerNames : \/ nameLoc'[n] \in {T!NoRef, nameLoc[n]}
                                 \/ RefOf(n, nameLoc[n])'
    PROVE  Tabled'
<1>1. Refs' = Refs /\ T!NoRef' = T!NoRef  BY DEF Refs, T!NoRef
<1>2. ASSUME NEW n \in TimerNames, NEW r, r = nameLoc'[n] PROVE r = T!NoRef \/ RefOf(n, r)'
      <2>1. CASE r = T!NoRef  BY <2>1
      <2>2. CASE r = nameLoc[n] /\ RefOf(n, nameLoc[n])
            <3>1. r.scope \in Scopes /\ r.id \in 1..serial /\ T!Pair(r.id) = <<r.scope, n>>
                  BY <2>2 DEF RefOf
            <3>2. PICK i \in 1..serial : i = r.id  BY <3>1
            <3>3. i \in 1..serial'  BY DEF Made, Ahead
            <3>4. T!Pair(i)' = <<r.scope, n>>  BY <3>1, <3>2 DEF Ahead
            <3> QED  BY <3>1, <3>2, <3>3, <3>4 DEF RefOf
      <2>3. CASE RefOf(n, nameLoc[n])'  BY <1>2, <2>3
      <2> QED  BY <1>2, <2>1, <2>2, <2>3 DEF Tabled
<1> QED  BY <1>1, <1>2 DEF Tabled

(* Nothing is made.                                                        *)
LEMMA Widened ==
    ASSUME Tabled, serial' = serial
    PROVE  /\ byName' = byName => byName' \in [TimerNames -> 0..serial']
           /\ byScope' = byScope => byScope' \in [Scopes -> SUBSET (1..serial')]
           /\ reg' = reg => reg' \in [Uses -> 0..serial']
           /\ nameLoc' = nameLoc => nameLoc' \in [TimerNames -> Refs]
    BY DEF Tabled

LEMMA ErrandsStay ==
    ASSUME Minded, Ahead, Made
    PROVE  /\ Errands \subseteq Errands'
           /\ \A d \in Goroutines : \A x : x = errands[d] =>
                 /\ x.step \in {"file", "register"} => x.id # 0
                 /\ x.step = "file" => T!Kind(x.id)' = "cron"
                 /\ x.step # "stop" => x.left = {}
<1>0. serial \in Nat /\ serial' \in Nat /\ serial <= serial'  BY DEF Made, Ahead
<1>1. Errands \subseteq Errands'
      <2>1. 0..serial \subseteq 0..serial' /\ 1..serial \subseteq 1..serial'  BY <1>0
      <2>2. SUBSET (1..serial) \subseteq SUBSET (1..serial')  BY <2>1
      <2> QED  BY <2>1, <2>2 DEF Errands
<1>2. \A i \in 1..serial : T!Kind(i)' = T!Kind(i)  BY DEF Ahead, T!Pair, T!Kind
<1>3. ASSUME NEW d \in Goroutines, NEW x, x = errands[d]
      PROVE  /\ x.step \in {"file", "register"} => x.id # 0
             /\ x.step = "file" => T!Kind(x.id)' = "cron"
             /\ x.step # "stop" => x.left = {}
      <2>1. /\ x \in Errands
            /\ x.step \in {"file", "register"} => x.id # 0
            /\ x.step = "file" => T!Kind(x.id) = "cron"
            /\ x.step # "stop" => x.left = {}
            BY <1>3 DEF Minded
      <2>2. PICK i : i = x.id  OBVIOUS
      <2>3. x.step = "file" => i \in 1..serial
            <3>1. i \in 0..serial  BY <2>1, <2>2 DEF Errands
            <3> QED  BY <1>0, <2>1, <2>2, <3>1
      <2>4. x.step = "file" => T!Kind(i)' = "cron"  BY <1>2, <2>1, <2>2, <2>3
      <2> QED  BY <2>1, <2>2, <2>4
<1> QED  BY <1>1, <1>3

LEMMA MindedStays ==
    ASSUME Minded, Ahead, Made, errands' = errands
    PROVE  Minded'
<1>1. errands' \in [Goroutines -> Errands']  BY ErrandsStay DEF Minded
<1> QED  BY <1>1, ErrandsStay DEF Minded

LEMMA MindedKept ==
    ASSUME Minded, Ahead, Made, NEW c \in Goroutines, NEW e, e \in Errands',
           errands' = [errands EXCEPT ![c] = e],
           e.step \in {"file", "register"} => e.id # 0,
           e.step = "file" => T!Kind(e.id)' = "cron",
           e.step # "stop" => e.left = {}
    PROVE  Minded'
<1>1. errands' \in [Goroutines -> Errands']  BY ErrandsStay DEF Minded
<1>2. ASSUME NEW d \in Goroutines, NEW x, x = errands'[d]
      PROVE  /\ x.step \in {"file", "register"} => x.id # 0
             /\ x.step = "file" => T!Kind(x.id)' = "cron"
             /\ x.step # "stop" => x.left = {}
      <2>1. x = e \/ x = errands[d]  BY <1>2 DEF Minded
      <2> QED  BY ErrandsStay, <2>1
<1> QED  BY <1>1, <1>2 DEF Minded

-----------------------------------------------------------------------------
(* Registration *)

(* Who has nothing to say about the timers says nothing of them.           *)
LEMMA TimersStay ==
    ASSUME T!TimerParams, Made, UNCHANGED <<serial, timers>>
    PROVE  Made' /\ Ahead /\ \A i : T!Live(i)' = T!Live(i) /\ T!Pair(i)' = T!Pair(i)
<1>1. \A i : T!Live(i)' = T!Live(i) /\ T!Pair(i)' = T!Pair(i)
      BY DEF T!Live, T!Kind, T!Pair
<1> QED  BY <1>1, ChangesAhead DEF Made

(* A timer is made.                                                        *)
LEMMA NewAhead ==
    ASSUME T!TimerParams, Made, NEW u \in Uses, NEW i, i = serial + 1, i \in T!Ids,
           serial' = i, timers' \in [T!Ids -> TimerRecs],
           timers'[i] = [scope |-> u[1], name |-> u[2], at |-> "heap", off |-> FALSE],
           \A j \in T!Ids : j # i => /\ timers'[j].scope = timers[j].scope
                                     /\ timers'[j].name = timers[j].name
                                     /\ timers'[j].at = timers[j].at,
           \A j \in 1..serial : T!Live(j)' => T!Live(j)
    PROVE  Made' /\ Ahead /\ T!Live(i)' /\ T!Pair(i)' = u
<1>0. serial \in Nat /\ serial' = serial + 1  BY DEF Made
<1>1. T!Pair(i)' = u /\ T!Live(i)'  BY PairOf DEF T!Pair, T!Live
<1>2. ASSUME NEW j \in 1..serial PROVE j \in T!Ids /\ T!Pair(j)' = T!Pair(j)
      <2>1. j \in T!Ids /\ j # i  BY <1>0, TimerOf
      <2> QED  BY <2>1 DEF T!Pair
<1>3. Ahead  BY <1>0, <1>2 DEF Ahead
<1>4. T!Ids' = T!Ids /\ TimerRecs' = TimerRecs  BY DEF T!Ids, TimerRecs, T!NoTimer
<1>5. \A j \in T!Ids : j > serial' => timers'[j].at = "none"
      <2>1. \A j \in T!Ids : j \in Nat  BY DEF T!Ids
      <2> QED  BY <1>0, <2>1 DEF Made
<1>6. \A j \in 1..serial' : T!Pair(j)' \in Uses
      <2>1. \A j \in 1..serial' : j = i \/ j \in 1..serial  BY <1>0
      <2> QED  BY <1>1, <1>2, <2>1 DEF Made
<1>7. serial' <= MaxTimers  BY DEF T!Ids, T!TimerParams
<1> QED  BY <1>0, <1>1, <1>3, <1>4, <1>5, <1>6, <1>7 DEF Made

LEMMA AddKeeps ==
    ASSUME T!TimerParams, TimersInv, NEW c \in Goroutines, NEW u \in Uses, T!Add(c, u)
    PROVE  TimersInv'
<1>0. Made /\ Tabled /\ Minded /\ Named /\ Reachable /\ FiledLive /\ serial \in Nat
      BY DEF TimersInv, Made
<1>1. PICK i : i = serial + 1  OBVIOUS
<1>2. /\ serial' = i /\ i \in T!Ids /\ i \in Nat /\ i # 0 /\ i \notin 1..serial
      /\ timers' = [timers EXCEPT ![i] = [scope |-> u[1], name |-> u[2], at |-> "heap", off |-> FALSE]]
      /\ reg' = (IF KindOf[u[2]] = "cron" THEN reg ELSE [reg EXCEPT ![u] = i])
      /\ UNCHANGED <<byName, byScope, nameLoc, orphans>> /\ errands[c].step = "idle"
      BY <1>0, <1>1 DEF T!Add, T!Goes, T!Ids, T!TimerParams
<1>3. PICK e : /\ e = [T!Idle EXCEPT !.step = IF KindOf[u[2]] = "cron" THEN "file" ELSE "register",
                                     !.id = i]
               /\ errands' = [errands EXCEPT ![c] = e]
      BY <1>2 DEF T!Add, T!Goes
<1>4. /\ e.step = (IF KindOf[u[2]] = "cron" THEN "file" ELSE "register")
      /\ e.id = i /\ e.left = {} /\ e \in [step : {"file", "register"}, id : {i}, left : {{}}]
      BY <1>3 DEF T!Idle
<1>5. e \in Errands'  BY <1>2, <1>4 DEF Errands
<1>6. /\ timers' \in [T!Ids -> TimerRecs]
      /\ timers'[i] = [scope |-> u[1], name |-> u[2], at |-> "heap", off |-> FALSE]
      /\ \A j \in T!Ids : j # i => timers'[j] = timers[j]
      <2>1. [scope |-> u[1], name |-> u[2], at |-> "heap", off |-> FALSE] \in TimerRecs
            BY PairOf DEF TimerRecs
      <2> QED  BY <1>0, <1>2, <2>1 DEF Made
<1>7. Made' /\ Ahead /\ T!Live(i)' /\ T!Pair(i)' = u
      <2>1. \A j \in 1..serial : j \in T!Ids /\ j # i  BY <1>0, <1>2, TimerOf
      <2>2. \A j \in 1..serial : T!Live(j)' => T!Live(j)
            BY <1>6, <2>1 DEF T!Live, T!Kind
      <2> QED  BY <1>0, <1>1, <1>2, <1>6, <2>2, NewAhead
<1>8. CallsGoOn  BY <1>0, <1>2, <1>3 DEF CallsGoOn, Minded
<1>9. Tabled'
      <2>1. /\ byName' \in [TimerNames -> 0..serial'] /\ nameLoc' \in [TimerNames -> Refs]
            /\ byScope' \in [Scopes -> SUBSET (1..serial')] /\ reg' \in [Uses -> 0..serial']
            <3>1. 0..serial \subseteq 0..serial' /\ 1..serial \subseteq 1..serial' /\ i \in 0..serial'
                  BY <1>0, <1>1, <1>2
            <3>2. SUBSET (1..serial) \subseteq SUBSET (1..serial')  BY <3>1
            <3> QED  BY <1>0, <1>2, <3>1, <3>2 DEF Tabled
      <2> QED  BY <1>0, <1>2, <1>7, <2>1, TabledKept
<1>10. Minded'
      <2>1. e.step = "file" => T!Kind(i)' = "cron"  BY <1>4, <1>6 DEF T!Kind
      <2> QED  BY <1>0, <1>2, <1>3, <1>4, <1>5, <1>7, <2>1, MindedKept
<1>11. Named'  BY <1>0, <1>2, <1>7, <1>8, NamedKept
<1>12. Reachable'
      <2>1. T!InTheMaking(i)'  BY <1>0, <1>3, <1>4 DEF T!InTheMaking, Minded
      <2>2. \A j : T!InTheMaking(j) => T!InTheMaking(j)'
            BY <1>0, <1>2, <1>3 DEF T!InTheMaking, Minded
      <2>3. \A j \in 1..serial' : j = i \/ j \in 1..serial  BY <1>0, <1>1, <1>2
      <2> QED  BY <1>0, <1>2, <1>7, <1>8, <2>1, <2>2, <2>3, ReachableKept
<1>13. FiledLive'
      <2>1. \A j \in 1..serial : T!Live(j)' = T!Live(j)
            <3>1. \A j \in 1..serial : j \in T!Ids /\ j # i  BY <1>0, <1>2, TimerOf
            <3> QED  BY <1>6, <3>1 DEF T!Live, T!Kind
      <2>2. ASSUME NEW w \in Uses, NEW j \in 1..serial', reg'[w] = j, KindOf[w[2]] # "cron"
            PROVE  \/ reg[w] = j /\ (T!Own(w) /\ T!Live(j) => T!Live(j)')
                   \/ T!Pair(j)' = w /\ T!Live(j)'
            <3>1. CASE w = u /\ KindOf[u[2]] # "cron"
                  <4>1. j = i  BY <1>0, <1>2, <2>2, <3>1 DEF Tabled
                  <4> QED  BY <1>7, <3>1, <4>1
            <3>2. CASE ~(w = u /\ KindOf[u[2]] # "cron")
                  <4>1. reg[w] = j  BY <1>0, <1>2, <2>2, <3>2 DEF Tabled
                  <4>2. j \in 1..serial
                        <5>1. j \in 0..serial  BY <1>0, <4>1 DEF Tabled
                        <5> QED  BY <2>2, <5>1
                  <4> QED  BY <2>1, <4>1, <4>2
            <3> QED  BY <3>1, <3>2
      <2>3. \A w \in Uses : reg'[w] \in 0..serial'  BY <1>9 DEF Tabled
      <2> QED  BY <1>0, <1>7, <2>2, <2>3, FiledKept
<1> QED  BY <1>7, <1>9, <1>10, <1>11, <1>12, <1>13 DEF TimersInv

(* The step of a goroutine, away from the timers, that stays within what   *)
(* is filed.                                                               *)
LEMMA FileCronKeeps ==
    ASSUME T!TimerParams, TimersInv, NEW c \in Goroutines, T!FileCron(c)
    PROVE  TimersInv'
<1>0. Made /\ Tabled /\ Minded /\ Named /\ Reachable /\ FiledLive /\ serial \in Nat
      BY DEF TimersInv, Made
<1>1. PICK i : i = errands[c].id  OBVIOUS
<1>2. PICK e : e = [errands[c] EXCEPT !.step = "register"]  OBVIOUS
<1>3. /\ errands' = [errands EXCEPT ![c] = e] /\ errands[c].step = "file"
      /\ reg' = [reg EXCEPT ![T!Pair(i)] = i]
      /\ UNCHANGED <<serial, timers, byName, byScope, nameLoc, orphans>>
      BY <1>1, <1>2 DEF T!FileCron, T!Goes
<1>4. /\ i \in 1..serial /\ i \in 0..serial /\ i # 0
      /\ errands[c] \in Errands /\ errands[c].left = {} /\ T!Kind(i) = "cron"
      <2>1. /\ i # 0 /\ T!Kind(i) = "cron" /\ errands[c].left = {} /\ errands[c] \in Errands
            BY <1>0, <1>1, <1>3 DEF Minded
      <2>2. i \in 0..serial  BY <1>1, <2>1 DEF Errands
      <2> QED  BY <1>0, <2>1, <2>2
<1>5. /\ e \in Errands' /\ e.step = "register" /\ e.id = i /\ e.left = {}
      BY <1>1, <1>2, <1>3, <1>4 DEF Errands
<1>6. Made' /\ Ahead /\ \A j : T!Live(j)' = T!Live(j) /\ T!Pair(j)' = T!Pair(j)
      BY <1>0, <1>3, TimersStay
<1>7. CallsGoOn  BY <1>0, <1>3, <1>4 DEF CallsGoOn, Minded
<1>8. Tabled'
      <2>1. reg' \in [Uses -> 0..serial']  BY <1>0, <1>3, <1>4 DEF Tabled
      <2> QED  BY <1>0, <1>3, <1>6, <2>1, Widened, TabledKept
<1>9. Minded'
      <2>1. e.id # 0 /\ e.step # "file"  BY <1>4, <1>5
      <2> QED  BY <1>0, <1>3, <1>5, <1>6, <2>1, MindedKept
<1>10. Named'  BY <1>0, <1>3, <1>6, <1>7, NamedKept
<1>11. Reachable'
       <2>1. \A j : T!InTheMaking(j) => T!InTheMaking(j)'
             BY <1>0, <1>1, <1>3, <1>5 DEF T!InTheMaking, Minded
       <2> QED  BY <1>0, <1>3, <1>6, <1>7, <2>1, ReachableKept
<1>12. FiledLive'
       <2>1. \A u \in Uses : KindOf[u[2]] # "cron" => u # T!Pair(i)
             BY <1>4 DEF T!Pair, T!Kind
       <2>2. \A u \in Uses : KindOf[u[2]] # "cron" => reg'[u] = reg[u]
             BY <1>0, <1>3, <2>1 DEF Tabled
       <2>3. \A u \in Uses : reg'[u] \in 0..serial'  BY <1>8 DEF Tabled
       <2> QED  BY <1>0, <1>6, <2>2, <2>3, FiledKept
<1> QED  BY <1>6, <1>8, <1>9, <1>10, <1>11, <1>12 DEF TimersInv

LEMMA RegisterKeeps ==
    ASSUME T!TimerParams, TimersInv, NEW c \in Goroutines, T!Register(c)
    PROVE  TimersInv'
<1>0. Made /\ Tabled /\ Minded /\ Named /\ Reachable /\ FiledLive /\ serial \in Nat
      BY DEF TimersInv, Made
<1>1. PICK i : i = errands[c].id  OBVIOUS
<1>2. PICK old : old = T!OldOne(timers[i].scope, timers[i].name)  OBVIOUS
<1>3. PICK e : e = [T!Idle EXCEPT !.step = IF old = 0 THEN "idle" ELSE "stop",
                                  !.left = {old} \ {0}]
      OBVIOUS
<1>4. /\ errands' = [errands EXCEPT ![c] = e] /\ errands[c].step = "register" /\ T!File(i)
      /\ UNCHANGED <<serial, timers, reg, orphans>>
      BY <1>1, <1>2, <1>3 DEF T!Register, T!Goes
<1>5. i \in 1..serial /\ i \in 0..serial /\ errands[c].left = {}
      <2>1. i # 0 /\ errands[c].left = {} /\ errands[c] \in Errands
            BY <1>0, <1>1, <1>4 DEF Minded
      <2>2. i \in 0..serial  BY <1>1, <2>1 DEF Errands
      <2> QED  BY <1>0, <2>1, <2>2
<1>6. /\ timers[i].name \in TimerNames /\ timers[i].scope \in Scopes \cup {None}
      /\ None \notin Scopes
      BY <1>0, <1>5, TimerOf DEF T!TimerParams
<1>7. old \in 0..serial
      BY <1>0, <1>2, <1>6 DEF T!OldOne, Tabled
<1>8. /\ e.step = (IF old = 0 THEN "idle" ELSE "stop") /\ e.id = 0 /\ e.left = {old} \ {0}
      /\ e \in [step : {"idle", "stop"}, id : {0}, left : {{old} \ {0}}]
      BY <1>3 DEF T!Idle
<1>9. e \in Errands'
      <2>1. {old} \ {0} \subseteq 1..serial  BY <1>0, <1>7
      <2> QED  BY <1>0, <1>4, <1>8, <2>1 DEF Errands
<1>10. Made' /\ Ahead /\ \A j : T!Live(j)' = T!Live(j) /\ T!Pair(j)' = T!Pair(j)
       BY <1>0, <1>4, TimersStay
<1>11. CallsGoOn  BY <1>0, <1>4, <1>5 DEF CallsGoOn, Minded
<1>12. /\ byName' = [byName EXCEPT ![timers[i].name] = i]
       /\ T!Scoped(i) => /\ byScope' = [byScope EXCEPT ![timers[i].scope] = @ \cup {i}]
                         /\ nameLoc' = [nameLoc EXCEPT ![timers[i].name] =
                                          [scope |-> timers[i].scope, id |-> i]]
       /\ ~T!Scoped(i) => UNCHANGED <<byScope, nameLoc>>
       BY <1>4 DEF T!File
<1>13. Tabled'
       <2>1. byName' \in [TimerNames -> 0..serial']  BY <1>0, <1>4, <1>5, <1>12 DEF Tabled
       <2>2. byScope' \in [Scopes -> SUBSET (1..serial')]
             BY <1>0, <1>4, <1>5, <1>6, <1>12 DEF Tabled, T!Scoped
       <2>3. [scope |-> timers[i].scope, id |-> i] \in Refs  BY <1>5, <1>6 DEF Refs
       <2>4. nameLoc' \in [TimerNames -> Refs]
             BY <1>0, <1>6, <1>12, <2>3 DEF Tabled
       <2>5. ASSUME NEW n \in TimerNames
             PROVE  \/ nameLoc'[n] \in {T!NoRef, nameLoc[n]}
                    \/ RefOf(n, nameLoc[n])'
             <3>1. CASE T!Scoped(i) /\ n = timers[i].name
                   <4>1. nameLoc'[n].scope = timers[i].scope /\ nameLoc'[n].id = i
                         BY <1>0, <1>6, <1>12, <3>1 DEF Tabled
                   <4>2. T!Pair(i)' = <<timers[i].scope, n>>  BY <1>10, <3>1 DEF T!Pair
                   <4>3. timers[i].scope \in Scopes  BY <1>6, <3>1 DEF T!Scoped
                   <4> QED  BY <1>4, <1>5, <4>1, <4>2, <4>3 DEF RefOf
             <3>2. CASE ~(T!Scoped(i) /\ n = timers[i].name)
                   BY <1>0, <1>12, <3>2 DEF Tabled
             <3> QED  BY <3>1, <3>2
       <2>6. reg' \in [Uses -> 0..serial']  BY <1>0, <1>4, Widened
       <2> QED  BY <1>0, <1>10, <2>1, <2>2, <2>4, <2>5, <2>6, TabledKept
<1>14. Minded'  BY <1>0, <1>4, <1>8, <1>9, <1>10, MindedKept
<1>15. Named'
       <2>1. ASSUME NEW n \in TimerNames, NEW j, nameLoc'[n] # T!NoRef, nameLoc'[n].id = j
             PROVE  \/ byName'[n] = j \/ Followed(j)'
                    \/ nameLoc'[n] = nameLoc[n] /\ (byName'[n] = byName[n] \/ Followed(j))
             <3>1. CASE n # timers[i].name
                   BY <1>0, <1>12, <3>1 DEF Tabled
             <3>2. CASE n = timers[i].name /\ T!Scoped(i)
                   BY <1>0, <1>12, <2>1, <3>2 DEF Tabled
             <3>3. CASE n = timers[i].name /\ ~T!Scoped(i)
                   <4>1. nameLoc' = nameLoc  BY <1>12, <3>3
                   <4>2. byName[n] = j \/ Followed(j)
                         <5>1. PICK r : r = nameLoc[n]  OBVIOUS
                         <5>2. r.id = byName[n] \/ Followed(r.id)
                               BY <1>0, <2>1, <4>1, <5>1 DEF Named
                         <5>3. r.id = j  BY <2>1, <4>1, <5>1
                         <5> QED  BY <5>2, <5>3
                   <4>3. CASE byName[n] = j
                         <5>1. old = j  BY <1>2, <3>3, <4>3 DEF T!OldOne, T!Scoped
                         <5>2. j # 0
                               <6>1. nameLoc[n].id \in 1..serial
                                     BY <1>0, <2>1, <4>1 DEF Tabled, RefOf
                               <6> QED  BY <2>1, <4>1, <6>1
                         <5>3. j \in e.left  BY <1>8, <5>1, <5>2
                         <5>4. T!Stopping(j)'
                               BY <1>0, <1>4, <5>3 DEF T!Stopping, Minded
                         <5> QED  BY <5>4 DEF Followed
                   <4> QED  BY <4>1, <4>2, <4>3
             <3> QED  BY <3>1, <3>2, <3>3
       <2> QED  BY <1>0, <1>10, <1>11, <2>1, NamedKept
<1>16. Reachable'
       <2>1. ASSUME NEW j \in 1..serial', T!Scoped(j)', ~T!InTheMaking(j)', j \notin orphans',
                    ~Followed(j)'
             PROVE  \/ j \in byScope'[timers'[j].scope]
                    \/ /\ j \in 1..serial /\ ~T!InTheMaking(j) /\ j \notin orphans
                       /\ j \in byScope[timers[j].scope] => j \in byScope'[timers[j].scope]
             <3>1. j \in 1..serial /\ timers[j].scope \in Scopes
                   BY <1>0, <1>4, <1>10, <2>1, TimerOf DEF T!Scoped
             <3>2. CASE j = i
                   <4>1. T!Scoped(i)  BY <1>4, <2>1, <3>2 DEF T!Scoped
                   <4> QED  BY <1>0, <1>4, <1>12, <3>1, <3>2, <4>1 DEF Tabled
             <3>3. CASE j # i
                   <4>1. ~T!InTheMaking(j)
                         BY <1>0, <1>1, <1>4, <2>1, <3>3 DEF T!InTheMaking, Minded
                   <4>2. j \in byScope[timers[j].scope] => j \in byScope'[timers[j].scope]
                         <5>1. CASE T!Scoped(i)
                               BY <1>0, <1>12, <3>1, <5>1 DEF Tabled
                         <5>2. CASE ~T!Scoped(i)  BY <1>12, <5>2
                         <5> QED  BY <5>1, <5>2
                   <4> QED  BY <1>4, <2>1, <3>1, <4>1, <4>2
             <3> QED  BY <3>2, <3>3
       <2> QED  BY <1>0, <1>10, <1>11, <2>1, ReachableKept
<1>17. FiledLive'
       <2>1. \A u \in Uses : reg'[u] \in 0..serial'  BY <1>13 DEF Tabled
       <2> QED  BY <1>0, <1>4, <1>10, <2>1, FiledKept
<1> QED  BY <1>10, <1>13, <1>14, <1>15, <1>16, <1>17 DEF TimersInv

-----------------------------------------------------------------------------
(* Cancellation *)

(* The stopper of i is called, and whoever calls it may forget it.         *)
LEMMA StopperKeeps ==
    ASSUME T!TimerParams, TimersInv, NEW i \in 1..serial, T!StopOne(i),
           UNCHANGED <<serial, byName, byScope, orphans>>, NEW c \in Goroutines, NEW e,
           \/ errands' = errands
           \/ /\ errands' = [errands EXCEPT ![c] = e] /\ e \in Errands /\ e.step \in {"idle", "stop"}
              /\ errands[c].step = "stop" /\ errands[c].left \subseteq e.left \cup {i}
              /\ e.step = "idle" => e.left = {}
    PROVE  TimersInv'
<1>0. Made /\ Tabled /\ Minded /\ Named /\ Reachable /\ FiledLive /\ serial \in Nat
      BY DEF TimersInv, Made
<1>1. /\ Made' /\ Ahead /\ ~T!Live(i)'
      /\ \A j \in 1..serial : j # i => timers'[j] = timers[j]
      /\ reg' \in [Uses -> 0..serial] /\ \A u \in Uses : reg'[u] \in {0, reg[u]}
      /\ nameLoc' \in [TimerNames -> Refs]
      /\ \A n \in TimerNames : nameLoc'[n] \in {T!NoRef, nameLoc[n]}
      /\ T!Kind(i) # "cron" /\ T!Live(i) => \A u \in Uses : u = T!Pair(i) => reg'[u] # i
      BY <1>0, StopOneEnds
<1>2. CallsGoOn  BY <1>0, <1>1 DEF CallsGoOn, Minded
<1>3. Tabled'  BY <1>0, <1>1, Widened, TabledKept
<1>4. Minded'
      <2>1. Errands' = Errands  BY DEF Errands
      <2>2. CASE errands' = errands  BY <1>0, <1>1, <2>2, MindedStays
      <2>3. CASE /\ errands' = [errands EXCEPT ![c] = e] /\ e \in Errands
                 /\ e.step \in {"idle", "stop"} /\ (e.step = "idle" => e.left = {})
            <3>1. e.step # "stop" => e.left = {}  BY <2>3
            <3> QED  BY <1>0, <1>1, <2>1, <2>3, <3>1, MindedKept
      <2> QED  BY <2>2, <2>3
<1>5. Named'  BY <1>0, <1>1, <1>2, NamedKept
<1>6. Reachable'
      <2>1. \A j : T!InTheMaking(j) => T!InTheMaking(j)'
            BY <1>0 DEF T!InTheMaking, Minded
      <2> QED  BY <1>0, <1>1, <1>2, <2>1, ReachableKept
<1>7. FiledLive'
      <2>1. ASSUME NEW u \in Uses, NEW j \in 1..serial', reg'[u] = j, KindOf[u[2]] # "cron"
            PROVE  \/ reg[u] = j /\ (T!Own(u) /\ T!Live(j) => T!Live(j)')
                   \/ T!Pair(j)' = u /\ T!Live(j)'
            <3>1. reg[u] = j /\ j \in 1..serial
                  <4>1. j # 0  BY <1>0, <2>1
                  <4>2. reg[u] = j  BY <1>1, <2>1, <4>1
                  <4> QED  BY <2>1, <4>2
            <3>2. ASSUME T!Own(u), T!Live(j) PROVE T!Live(j)'
                  <4>1. CASE j # i  BY <1>1, <3>1, <3>2, <4>1 DEF T!Live, T!Kind
                  <4>2. CASE j = i
                        <5>1. j # 0  BY <1>0, <2>1
                        <5>2. T!Pair(reg[u]) = u  BY <1>0, <2>1, <3>1, <3>2, <5>1 DEF FiledLive
                        <5>3. T!Pair(i) = u  BY <3>1, <4>2, <5>2
                        <5>4. T!Kind(i) # "cron"  BY <2>1, <5>3 DEF T!Pair, T!Kind
                        <5> QED  BY <1>1, <2>1, <3>2, <4>2, <5>3, <5>4
                  <4> QED  BY <4>1, <4>2
            <3> QED  BY <3>1, <3>2
      <2>2. \A u \in Uses : reg'[u] \in 0..serial'  BY <1>3 DEF Tabled
      <2> QED  BY <1>0, <1>1, <2>1, <2>2, FiledKept
<1> QED  BY <1>1, <1>3, <1>4, <1>5, <1>6, <1>7 DEF TimersInv

LEMMA CallStopperKeeps ==
    ASSUME T!TimerParams, TimersInv, NEW c \in Goroutines, T!CallStopper(c)
    PROVE  TimersInv'
<1>1. errands[c] \in Errands /\ errands[c].left \subseteq 1..serial
      BY DEF TimersInv, Minded, Errands
<1>2. PICK i \in errands[c].left :
         /\ errands' = [errands EXCEPT ![c] = IF errands[c].left \ {i} = {} THEN T!Idle
                                              ELSE [errands[c] EXCEPT !.left = errands[c].left \ {i}]]
         /\ T!StopOne(i)
      BY DEF T!CallStopper
<1>3. errands[c].step = "stop" /\ UNCHANGED <<serial, byName, byScope, orphans>>
      BY DEF T!CallStopper
<1>4. CASE errands[c].left \ {i} = {}
      <2>1. PICK e : e = T!Idle  OBVIOUS
      <2>2. e.step = "idle" /\ e.left = {} /\ e.id = 0  BY <2>1 DEF T!Idle
      <2>3. e \in Errands
            <3>1. serial \in Nat  BY DEF TimersInv, Made
            <3>2. 0 \in 0..serial  BY <3>1
            <3> QED  BY <2>1, <3>2 DEF Errands, T!Idle
      <2>4. errands' = [errands EXCEPT ![c] = e]  BY <1>2, <1>4, <2>1
      <2>5. errands[c].left \subseteq e.left \cup {i} /\ i \in 1..serial
            BY <1>1, <1>2, <1>4
      <2> QED  BY <1>2, <1>3, <2>2, <2>3, <2>4, <2>5, StopperKeeps
<1>5. CASE errands[c].left \ {i} # {}
      <2>1. PICK e : e = [errands[c] EXCEPT !.left = errands[c].left \ {i}]  OBVIOUS
      <2>2. e \in Errands /\ e.left = errands[c].left \ {i} /\ e.step = "stop"
            BY <1>1, <1>3, <2>1 DEF Errands
      <2>3. errands' = [errands EXCEPT ![c] = e]  BY <1>2, <1>5, <2>1
      <2>4. errands[c].left \subseteq e.left \cup {i} /\ i \in 1..serial
            BY <1>1, <1>2, <2>2
      <2> QED  BY <1>2, <1>3, <2>2, <2>3, <2>4, StopperKeeps
<1> QED  BY <1>4, <1>5

LEMMA StopHandleKeeps ==
    ASSUME T!TimerParams, TimersInv, NEW c \in Goroutines, NEW i \in T!Ids, T!StopHandle(c, i)
    PROVE  TimersInv'
<1>1. i \in 1..serial /\ T!StopOne(i) /\ UNCHANGED <<serial, byName, byScope, errands, orphans>>
      BY DEF T!StopHandle, T!Ids, TimersInv, Made
<1> QED  BY <1>1, StopperKeeps

(* What StopNamed and StopScope take out is what they will stop.           *)
LEMMA TakenKeeps ==
    ASSUME T!TimerParams, TimersInv, NEW c \in Goroutines, NEW left \in SUBSET (1..serial), NEW e,
           errands[c].step = "idle", errands' = [errands EXCEPT ![c] = e],
           e.step = (IF left = {} THEN "idle" ELSE "stop"), e.id = 0, e.left = left,
           e \in Errands, UNCHANGED <<serial, timers, orphans>>,
           byName' \in [TimerNames -> 0..serial], byScope' \in [Scopes -> SUBSET (1..serial)],
           reg' \in [Uses -> 0..serial], \A u \in Uses : reg'[u] \in {0, reg[u]},
           nameLoc' \in [TimerNames -> Refs],
           \A n \in TimerNames : \/ nameLoc'[n] = T!NoRef
                                 \/ nameLoc'[n] = nameLoc[n] /\ byName'[n] = byName[n],
           \A s \in Scopes : \A i \in byScope[s] :
              i \in byScope'[s] \/ i \in left \/ Followed(i)
    PROVE  TimersInv'
<1>0. Made /\ Tabled /\ Minded /\ Named /\ Reachable /\ FiledLive /\ serial \in Nat
      BY DEF TimersInv, Made
<1>1. Made' /\ Ahead /\ \A j : T!Live(j)' = T!Live(j) /\ T!Pair(j)' = T!Pair(j)
      BY <1>0, TimersStay
<1>2. CallsGoOn  BY <1>0 DEF CallsGoOn, Minded
<1>3. Tabled'  BY <1>0, <1>1, TabledKept
<1>4. Minded'
      <2>1. Errands' = Errands  BY DEF Errands
      <2>2. e.step \in {"idle", "stop"} /\ (e.step # "stop" => e.left = {})  OBVIOUS
      <2> QED  BY <1>0, <1>1, <2>1, <2>2, MindedKept
<1>5. Named'  BY <1>0, <1>1, <1>2, NamedKept
<1>6. Reachable'
      <2>1. \A j : T!InTheMaking(j) => T!InTheMaking(j)'
            BY <1>0 DEF T!InTheMaking, Minded
      <2>2. \A j \in left : T!Stopping(j)'  BY <1>0 DEF T!Stopping, Minded
      <2>3. ASSUME NEW j \in 1..serial', T!Scoped(j)', ~T!InTheMaking(j)', j \notin orphans',
                   ~Followed(j)'
            PROVE  /\ j \in 1..serial /\ ~T!InTheMaking(j) /\ j \notin orphans
                   /\ j \in byScope[timers[j].scope] => j \in byScope'[timers[j].scope]
            <3>1. j \in 1..serial /\ timers[j].scope \in Scopes
                  BY <1>0, <2>3, TimerOf DEF T!Scoped
            <3>2. j \notin left /\ ~Followed(j)
                  BY <1>1, <1>2, <2>2, <2>3, <3>1, StaysFollowed DEF Followed
            <3> QED  BY <2>1, <2>3, <3>1, <3>2
      <2> QED  BY <1>0, <1>1, <1>2, <2>3, ReachableKept
<1>7. FiledLive'
      <2>1. \A u \in Uses : \A j \in 1..serial' : reg'[u] = j => reg[u] = j
            <3>1. 0 \notin 1..serial'  BY <1>0
            <3> QED  BY <3>1
      <2>2. \A u \in Uses : reg'[u] \in 0..serial'  OBVIOUS
      <2> QED  BY <1>0, <1>1, <2>1, <2>2, FiledKept
<1> QED  BY <1>1, <1>3, <1>4, <1>5, <1>6, <1>7 DEF TimersInv

LEMMA StopNamedKeeps ==
    ASSUME T!TimerParams, TimersInv, NEW c \in Goroutines, NEW n \in TimerNames, T!StopNamed(c, n)
    PROVE  TimersInv'
<1>0. Made /\ Tabled /\ Minded /\ Named /\ serial \in Nat /\ None \notin Scopes
      BY DEF TimersInv, Made, T!TimerParams
<1>1. PICK e : e = [T!Idle EXCEPT !.step = "stop", !.left = {byName[n]}]  OBVIOUS
<1>2. /\ byName[n] # 0 /\ errands[c].step = "idle" /\ errands' = [errands EXCEPT ![c] = e]
      /\ byName' = [byName EXCEPT ![n] = 0] /\ nameLoc' = [nameLoc EXCEPT ![n] = T!NoRef]
      /\ byScope' = T!Drop(nameLoc[n].scope, nameLoc[n].id)
      /\ UNCHANGED <<serial, timers, reg, orphans>>
      BY <1>1 DEF T!StopNamed, T!Goes
<1>3. byName[n] \in 1..serial
      <2>1. byName[n] \in 0..serial  BY <1>0 DEF Tabled
      <2> QED  BY <1>0, <1>2, <2>1
<1>4. e.step = "stop" /\ e.id = 0 /\ e.left = {byName[n]}  BY <1>1 DEF T!Idle
<1>5. e \in Errands
      <2>1. 0 \in 0..serial /\ {byName[n]} \subseteq 1..serial  BY <1>0, <1>3
      <2> QED  BY <1>1, <2>1 DEF Errands, T!Idle
<1>6. /\ byName' \in [TimerNames -> 0..serial] /\ reg' \in [Uses -> 0..serial]
      /\ \A u \in Uses : reg'[u] \in {0, reg[u]}
      <2>1. 0 \in 0..serial  BY <1>0
      <2> QED  BY <1>0, <1>2, <2>1 DEF Tabled
<1>7. byScope' \in [Scopes -> SUBSET (1..serial)]  BY <1>0, <1>2 DEF Tabled, T!Drop
<1>8. nameLoc' \in [TimerNames -> Refs]
      <2>1. T!NoRef \in Refs  BY DEF T!NoRef, Refs
      <2> QED  BY <1>0, <1>2, <2>1 DEF Tabled
<1>9. \A m \in TimerNames : \/ nameLoc'[m] = T!NoRef
                            \/ nameLoc'[m] = nameLoc[m] /\ byName'[m] = byName[m]
      BY <1>0, <1>2 DEF Tabled
<1>10. ASSUME NEW s \in Scopes, NEW i \in byScope[s]
       PROVE  i \in byScope'[s] \/ i \in {byName[n]} \/ Followed(i)
       <2>1. i \in byScope'[s] \/ (s = nameLoc[n].scope /\ i = nameLoc[n].id)
             BY <1>0, <1>2 DEF T!Drop
       <2>2. CASE s = nameLoc[n].scope /\ i = nameLoc[n].id
             <3>1. nameLoc[n] # T!NoRef  BY <1>0, <2>2 DEF T!NoRef
             <3> QED  BY <1>0, <2>2, <3>1 DEF Named
       <2> QED  BY <2>1, <2>2
<1>11. {byName[n]} \subseteq 1..serial /\ {byName[n]} # {}  BY <1>3
<1> QED  BY <1>2, <1>4, <1>5, <1>6, <1>7, <1>8, <1>9, <1>10, <1>11, TakenKeeps

LEMMA StopScopeKeeps ==
    ASSUME T!TimerParams, TimersInv, NEW c \in Goroutines, NEW s \in Scopes, T!StopScope(c, s)
    PROVE  TimersInv'
<1>0. Made /\ Tabled /\ Minded /\ serial \in Nat
      BY DEF TimersInv, Made
<1>1. PICK left : left = byScope[s]  OBVIOUS
<1>2. PICK e : e = IF left = {} THEN T!Idle ELSE [T!Idle EXCEPT !.step = "stop", !.left = left]
      OBVIOUS
<1>3. /\ errands[c].step = "idle" /\ errands' = [errands EXCEPT ![c] = e]
      /\ byScope' = [byScope EXCEPT ![s] = {}]
      /\ nameLoc' = [n \in TimerNames |-> IF nameLoc[n].scope = s THEN T!NoRef ELSE nameLoc[n]]
      /\ reg' = [u \in Uses |-> IF u[1] = s THEN 0 ELSE reg[u]]
      /\ UNCHANGED <<serial, timers, byName, orphans>>
      BY <1>1, <1>2 DEF T!StopScope, T!Goes
<1>4. left \subseteq 1..serial  BY <1>0, <1>1 DEF Tabled
<1>5. e.step = (IF left = {} THEN "idle" ELSE "stop") /\ e.id = 0 /\ e.left = left
      BY <1>2 DEF T!Idle
<1>6. e \in Errands
      <2>1. 0 \in 0..serial  BY <1>0
      <2> QED  BY <1>2, <1>4, <2>1 DEF Errands, T!Idle
<1>7. /\ byName' \in [TimerNames -> 0..serial] /\ reg' \in [Uses -> 0..serial]
      /\ \A u \in Uses : reg'[u] \in {0, reg[u]}
      <2>1. 0 \in 0..serial  BY <1>0
      <2> QED  BY <1>0, <1>3, <2>1 DEF Tabled
<1>8. byScope' \in [Scopes -> SUBSET (1..serial)]  BY <1>0, <1>3 DEF Tabled
<1>9. nameLoc' \in [TimerNames -> Refs]
      <2>1. T!NoRef \in Refs  BY DEF T!NoRef, Refs
      <2> QED  BY <1>0, <1>3, <2>1 DEF Tabled
<1>10. \A m \in TimerNames : \/ nameLoc'[m] = T!NoRef
                             \/ nameLoc'[m] = nameLoc[m] /\ byName'[m] = byName[m]
       BY <1>3
<1>11. \A r \in Scopes : \A i \in byScope[r] : i \in byScope'[r] \/ i \in left \/ Followed(i)
       BY <1>0, <1>1, <1>3 DEF Tabled
<1> QED  BY <1>3, <1>4, <1>5, <1>6, <1>7, <1>8, <1>9, <1>10, <1>11, TakenKeeps

LEMMA SweepKeeps ==
    ASSUME T!TimerParams, TimersInv, T!Sweep, UNCHANGED <<serial, errands>>
    PROVE  TimersInv'
<1>0. Made /\ Tabled /\ Minded /\ Named /\ Reachable /\ FiledLive /\ serial \in Nat
      BY DEF TimersInv, Made
<1>1. /\ timers' = [i \in T!Ids |-> IF timers[i].at = "heap"
                                    THEN [timers[i] EXCEPT !.at = "over", !.off = TRUE]
                                    ELSE timers[i]]
      /\ orphans' = orphans \cup {i \in T!Ids : T!Live(i) /\ timers[i].at = "popped"}
      /\ byName' = [n \in TimerNames |-> 0] /\ byScope' = [s \in Scopes |-> {}]
      /\ nameLoc' = [n \in TimerNames |-> T!NoRef] /\ reg' = [u \in Uses |-> 0]
      BY DEF T!Sweep
<1>2. \A i \in T!Ids : timers[i] \in TimerRecs  BY <1>0 DEF Made
<1>3. timers' \in [T!Ids -> TimerRecs]
      <2>1. \A i \in T!Ids : [timers[i] EXCEPT !.at = "over", !.off = TRUE] \in TimerRecs
            BY <1>2 DEF TimerRecs
      <2> QED  BY <1>1, <1>2, <2>1
<1>4. ASSUME NEW i \in T!Ids
      PROVE  /\ timers'[i].scope = timers[i].scope /\ timers'[i].name = timers[i].name
             /\ timers[i].at = "none" => timers'[i].at = "none"
             /\ T!Live(i)' => T!Live(i) /\ i \in orphans'
      <2>1. CASE timers[i].at = "heap"
            <3>1. timers'[i] = [timers[i] EXCEPT !.at = "over", !.off = TRUE]  BY <1>1, <2>1
            <3>2. /\ timers'[i].scope = timers[i].scope /\ timers'[i].name = timers[i].name
                  /\ timers'[i].off = TRUE
                  BY <1>2, <3>1 DEF TimerRecs
            <3> QED  BY <2>1, <3>2 DEF T!Live
      <2>2. CASE timers[i].at # "heap"
            <3>1. timers'[i] = timers[i]  BY <1>1, <2>2
            <3>2. T!Live(i)' = T!Live(i)  BY <3>1 DEF T!Live, T!Kind
            <3> QED  BY <1>1, <2>2, <3>1, <3>2 DEF T!Live
      <2> QED  BY <2>1, <2>2
<1>5. \A i \in 1..serial : i \in T!Ids  BY <1>0, TimerOf
<1>6. Made' /\ Ahead  BY <1>0, <1>3, <1>4, <1>5, ChangesAhead
<1>7. CallsGoOn  BY DEF CallsGoOn
<1>8. Tabled'
      <2>1. T!NoRef \in Refs /\ 0 \in 0..serial'  BY <1>0 DEF T!NoRef, Refs
      <2>2. /\ byName' \in [TimerNames -> 0..serial'] /\ nameLoc' \in [TimerNames -> Refs]
            /\ byScope' \in [Scopes -> SUBSET (1..serial')] /\ reg' \in [Uses -> 0..serial']
            /\ \A n \in TimerNames : nameLoc'[n] = T!NoRef
            BY <1>1, <2>1
      <2> QED  BY <1>0, <1>6, <2>2, TabledKept
<1>9. Minded'  BY <1>0, <1>6, MindedStays
<1>10. Named'  BY <1>0, <1>1, <1>6, <1>7, NamedKept
<1>11. Reachable'
       <2>1. \A i \in 1..serial' : i \notin orphans' => Followed(i)'
             BY <1>4, <1>5 DEF Followed
       <2> QED  BY <2>1 DEF Reachable
<1>12. FiledLive'
       <2>1. \A u \in Uses : reg'[u] = 0  BY <1>1
       <2>2. \A u \in Uses : reg'[u] \in 0..serial'  BY <1>8 DEF Tabled
       <2>3. \A i \in 1..serial' : i # 0  BY <1>0
       <2> QED  BY <1>0, <1>6, <2>1, <2>2, <2>3, FiledKept
<1> QED  BY <1>6, <1>8, <1>9, <1>10, <1>11, <1>12 DEF TimersInv

-----------------------------------------------------------------------------
(* Migration, and the scheduler's goroutine *)

LEMMA ImportKeeps ==
    ASSUME T!TimerParams, TimersInv, NEW u \in Uses, T!ImportTimer(u), u \in Migrates
    PROVE  TimersInv'
<1>0. /\ Made /\ Tabled /\ Minded /\ Named /\ Reachable /\ FiledLive /\ serial \in Nat
      /\ None \notin Scopes
      BY DEF TimersInv, Made, T!TimerParams
<1>1. PICK i, s, n, old : i = serial + 1 /\ s = u[1] /\ n = u[2] /\ old = nameLoc[n]  OBVIOUS
<1>2. PICK gone : gone = {j \in T!Ids : j = old.id /\ timers[j].at = "heap" /\ T!Kind(j) # "cron"}
      OBVIOUS
<1>3. /\ serial' = i /\ i \in T!Ids /\ i \notin 1..serial /\ i \in 1..serial' /\ i \in 0..serial'
      /\ timers' = [j \in T!Ids |->
                      CASE j = i -> [scope |-> s, name |-> n, at |-> "heap", off |-> FALSE]
                        [] j \in gone -> [timers[j] EXCEPT !.off = TRUE]
                        [] OTHER -> timers[j]]
      /\ byName' = [byName EXCEPT ![n] = i]
      /\ byScope' = [T!Drop(old.scope, old.id) EXCEPT ![s] = @ \cup {i}]
      /\ nameLoc' = [nameLoc EXCEPT ![n] = [scope |-> s, id |-> i]]
      /\ reg' = [reg EXCEPT ![u] = i]
      /\ UNCHANGED <<errands, orphans>> /\ KindOf[n] # "cron" /\ s \in Scopes /\ n \in TimerNames
      <2>1. /\ serial' = i /\ i <= MaxTimers /\ i \in Nat  BY <1>0, <1>1 DEF T!ImportTimer, T!TimerParams
      <2>2. i \in T!Ids /\ i \notin 1..serial /\ i \in 1..serial' /\ i \in 0..serial'
            BY <1>0, <1>1, <2>1 DEF T!Ids
      <2>3. s \in Scopes /\ n \in TimerNames  BY <1>1, PairOf DEF T!ImportTimer
      <2> QED  BY <1>1, <1>2, <2>1, <2>2, <2>3 DEF T!ImportTimer, T!Refile
<1>4. \A j \in T!Ids : timers[j] \in TimerRecs  BY <1>0 DEF Made
<1>5. /\ timers'[i] = [scope |-> s, name |-> n, at |-> "heap", off |-> FALSE]
      /\ \A j \in T!Ids : j # i /\ j \notin gone => timers'[j] = timers[j]
      /\ \A j \in T!Ids : j # i /\ j \in gone => timers'[j] = [timers[j] EXCEPT !.off = TRUE]
      <2>1. i \notin gone
            <3>1. i > serial  BY <1>0, <1>1
            <3>2. timers[i].at = "none"  BY <1>0, <1>3, <3>1 DEF Made
            <3> QED  BY <1>2, <3>2
      <2> QED  BY <1>3, <2>1
<1>6. timers' \in [T!Ids -> TimerRecs]
      <2>1. [scope |-> s, name |-> n, at |-> "heap", off |-> FALSE] \in TimerRecs
            BY <1>3 DEF TimerRecs
      <2>2. \A j \in T!Ids : [timers[j] EXCEPT !.off = TRUE] \in TimerRecs
            BY <1>4 DEF TimerRecs
      <2>3. \A j \in T!Ids : timers'[j] \in TimerRecs  BY <1>4, <1>5, <2>1, <2>2
      <2>4. timers' = [j \in T!Ids |-> timers'[j]]  BY <1>3
      <2> QED  BY <2>3, <2>4
<1>7. ASSUME NEW j \in T!Ids, j # i
      PROVE  /\ timers'[j].scope = timers[j].scope /\ timers'[j].name = timers[j].name
             /\ timers'[j].at = timers[j].at
             /\ j \in gone => timers'[j].off = TRUE
      BY <1>4, <1>5, <1>7 DEF TimerRecs
<1>8. \A j \in 1..serial : j \in T!Ids /\ j # i  BY <1>0, <1>3, TimerOf
<1>9. ASSUME NEW j \in 1..serial
      PROVE  /\ j \in gone => ~T!Live(j)'
             /\ j \notin gone => T!Live(j)' = T!Live(j)
      BY <1>5, <1>7, <1>8 DEF T!Live, T!Kind
<1>10. Made' /\ Ahead /\ T!Live(i)' /\ T!Pair(i)' = u
       <2>1. \A j \in 1..serial : T!Live(j)' => T!Live(j)  BY <1>9
       <2>2. timers'[i] = [scope |-> u[1], name |-> u[2], at |-> "heap", off |-> FALSE]
             BY <1>1, <1>5
       <2>3. \A j \in T!Ids : j # i => /\ timers'[j].scope = timers[j].scope
                                       /\ timers'[j].name = timers[j].name
                                       /\ timers'[j].at = timers[j].at
             BY <1>7
       <2>4. i = serial + 1 /\ i \in T!Ids /\ serial' = i  BY <1>1, <1>3
       <2> QED  BY <1>0, <1>6, <2>1, <2>2, <2>3, <2>4, NewAhead
<1>11. CallsGoOn  BY <1>3 DEF CallsGoOn
<1>12. Tabled'
       <2>0. 0..serial \subseteq 0..serial' /\ 1..serial \subseteq 1..serial'
             BY <1>0, <1>1, <1>3
       <2>1. byName' \in [TimerNames -> 0..serial'] /\ reg' \in [Uses -> 0..serial']
             BY <1>0, <1>3, <2>0 DEF Tabled
       <2>2. byScope' \in [Scopes -> SUBSET (1..serial')]
             <3>1. T!Drop(old.scope, old.id) \in [Scopes -> SUBSET (1..serial')]
                   BY <1>0, <2>0 DEF Tabled, T!Drop
             <3> QED  BY <1>3, <3>1
       <2>3. [scope |-> s, id |-> i] \in Refs  BY <1>3 DEF Refs
       <2>4. nameLoc' \in [TimerNames -> Refs]  BY <1>0, <1>3, <2>3 DEF Tabled
       <2>5. ASSUME NEW m \in TimerNames
             PROVE  nameLoc'[m] \in {T!NoRef, nameLoc[m]} \/ RefOf(m, nameLoc[m])'
             <3>1. CASE m = n
                   <4>1. nameLoc'[m].scope = s /\ nameLoc'[m].id = i
                         BY <1>0, <1>3, <3>1 DEF Tabled
                   <4>2. T!Pair(i)' = <<s, m>>  BY <1>1, <1>10, <3>1, PairOf
                   <4> QED  BY <1>3, <4>1, <4>2 DEF RefOf
             <3>2. CASE m # n  BY <1>0, <1>3, <3>2 DEF Tabled
             <3> QED  BY <3>1, <3>2
       <2> QED  BY <1>0, <1>10, <2>1, <2>2, <2>4, <2>5, TabledKept
<1>13. Minded'  BY <1>0, <1>3, <1>10, MindedStays
<1>14. Named'
       <2>1. ASSUME NEW m \in TimerNames, NEW j, nameLoc'[m] # T!NoRef, nameLoc'[m].id = j
             PROVE  \/ byName'[m] = j \/ Followed(j)'
                    \/ nameLoc'[m] = nameLoc[m] /\ (byName'[m] = byName[m] \/ Followed(j))
             BY <1>0, <1>3, <2>1 DEF Tabled
       <2> QED  BY <1>0, <1>10, <1>11, <2>1, NamedKept
<1>15. Reachable'
       <2>1. ASSUME NEW j \in 1..serial', T!Scoped(j)', ~T!InTheMaking(j)', j \notin orphans',
                    ~Followed(j)'
             PROVE  \/ j \in byScope'[timers'[j].scope]
                    \/ /\ j \in 1..serial /\ ~T!InTheMaking(j) /\ j \notin orphans
                       /\ j \in byScope[timers[j].scope] => j \in byScope'[timers[j].scope]
             <3>1. CASE j = i
                   <4>1. timers'[j].scope = s  BY <1>5, <3>1
                   <4> QED  BY <1>3, <3>1, <4>1 DEF T!Drop
             <3>2. CASE j # i
                   <4>1. j \in 1..serial  BY <1>0, <1>1, <1>3, <3>2
                   <4>2. timers'[j].scope = timers[j].scope /\ timers[j].scope \in Scopes
                         BY <1>0, <1>7, <1>8, <2>1, <4>1, TimerOf DEF T!Scoped
                   <4>3. ~T!InTheMaking(j)  BY <1>3, <2>1 DEF T!InTheMaking
                   <4>4. ASSUME timers[j].scope = old.scope, j = old.id PROVE FALSE
                         <5>1. nameLoc[n] # T!NoRef  BY <1>0, <1>1, <4>2, <4>4 DEF T!NoRef
                         <5>2. T!Pair(old.id) = <<old.scope, n>>
                               BY <1>0, <1>1, <1>3, <5>1 DEF Tabled, RefOf
                         <5>3. T!Kind(j) # "cron"
                               <6>1. T!Pair(j) = <<old.scope, n>>  BY <4>4, <5>2
                               <6>2. timers[j].name = n  BY <6>1 DEF T!Pair
                               <6> QED  BY <1>3, <6>2 DEF T!Kind
                         <5>4. T!Live(j) /\ j \notin gone
                               BY <1>9, <2>1, <4>1 DEF Followed
                         <5> QED  BY <1>2, <1>8, <4>1, <4>4, <5>3, <5>4 DEF T!Live
                   <4>5. j \in byScope[timers[j].scope] => j \in byScope'[timers[j].scope]
                         BY <1>3, <4>2, <4>4 DEF T!Drop
                   <4> QED  BY <1>3, <2>1, <4>1, <4>3, <4>5
             <3> QED  BY <3>1, <3>2
       <2> QED  BY <1>0, <1>10, <1>11, <2>1, ReachableKept
<1>16. FiledLive'
       <2>1. ASSUME NEW w \in Uses, NEW j \in 1..serial', reg'[w] = j, KindOf[w[2]] # "cron"
             PROVE  \/ reg[w] = j /\ (T!Own(w) /\ T!Live(j) => T!Live(j)')
                    \/ T!Pair(j)' = w /\ T!Live(j)'
             <3>1. CASE w = u
                   <4>1. j = i  BY <1>0, <1>3, <2>1, <3>1 DEF Tabled
                   <4> QED  BY <1>10, <3>1, <4>1
             <3>2. CASE w # u
                   <4>1. reg[w] = j  BY <1>0, <1>3, <2>1, <3>2 DEF Tabled
                   <4>2. j # 0 /\ j \in 1..serial
                         <5>1. j \in 0..serial  BY <1>0, <4>1 DEF Tabled
                         <5> QED  BY <2>1, <5>1
                   <4>3. ASSUME T!Own(w), T!Live(j) PROVE j \notin gone
                         <5> SUFFICES ASSUME j \in gone PROVE FALSE  OBVIOUS
                         <5>1. T!Pair(reg[w]) = w  BY <1>0, <2>1, <4>1, <4>2, <4>3 DEF FiledLive
                         <5>2. T!Pair(j) = w /\ j = old.id  BY <1>2, <4>1, <5>1
                         <5>3. nameLoc[n] # T!NoRef
                               BY <1>1, <4>2, <5>2 DEF T!NoRef
                         <5>4. T!Pair(old.id) = <<old.scope, n>>
                               BY <1>0, <1>1, <1>3, <5>3 DEF Tabled, RefOf
                         <5>5. T!Pair(j) = <<old.scope, n>>  BY <5>2, <5>4
                         <5>6. w[2] = n  BY <5>2, <5>5
                         <5> QED  BY <1>1, <3>2, <4>3, <5>6 DEF T!Own
                   <4> QED  BY <1>9, <4>1, <4>2, <4>3
             <3> QED  BY <3>1, <3>2
       <2>2. \A w \in Uses : reg'[w] \in 0..serial'  BY <1>12 DEF Tabled
       <2> QED  BY <1>0, <1>10, <2>1, <2>2, FiledKept
<1> QED  BY <1>10, <1>12, <1>13, <1>14, <1>15, <1>16 DEF TimersInv

(* The scheduler moves a timer, and no table but that of the tasks.        *)
LEMMA MovedKeeps ==
    ASSUME T!TimerParams, TimersInv, NEW i \in 1..serial,
           UNCHANGED <<serial, byName, byScope, nameLoc, errands, orphans>>,
           NEW a \in {"heap", "popped", "over"}, NEW o \in BOOLEAN, timers[i].at # "none",
           timers' = [timers EXCEPT ![i] = [@ EXCEPT !.at = a, !.off = o]],
           T!Live(i)' => T!Live(i),
           reg' = reg \/ reg' = T!Unregister(i),
           T!Live(i) /\ T!Kind(i) # "cron" => T!Live(i)' \/ reg' = T!Unregister(i)
    PROVE  TimersInv'
<1>0. Made /\ Tabled /\ Minded /\ Named /\ Reachable /\ FiledLive /\ serial \in Nat
      BY DEF TimersInv, Made
<1>1. /\ timers' \in [T!Ids -> TimerRecs]
      /\ \A j \in T!Ids : j # i => timers'[j] = timers[j]
      /\ timers'[i].at = a /\ timers'[i].off = o
      /\ timers'[i].scope = timers[i].scope /\ timers'[i].name = timers[i].name
      BY <1>0, OneChanges
<1>2. \A j \in 1..serial : j \in T!Ids  BY <1>0, TimerOf
<1>3. \A j \in 1..serial : j # i => T!Live(j)' = T!Live(j)
      BY <1>1, <1>2 DEF T!Live, T!Kind
<1>4. Made' /\ Ahead
      <2>1. \A j \in 1..serial : T!Live(j)' => T!Live(j)  BY <1>3
      <2>2. \A j \in T!Ids : /\ timers'[j].scope = timers[j].scope
                             /\ timers'[j].name = timers[j].name
                             /\ timers[j].at = "none" => timers'[j].at = "none"
            BY <1>1
      <2> QED  BY <1>0, <1>1, <2>1, <2>2, ChangesAhead
<1>5. CallsGoOn  BY DEF CallsGoOn
<1>6. reg' \in [Uses -> 0..serial'] /\ \A u \in Uses : reg'[u] \in {0, reg[u]}
      <2>1. 0 \in 0..serial  BY <1>0
      <2> QED  BY <1>0, <2>1 DEF Tabled, T!Unregister
<1>7. Tabled'  BY <1>0, <1>4, <1>6, Widened, TabledKept
<1>8. Minded'  BY <1>0, <1>4, MindedStays
<1>9. Named'  BY <1>0, <1>4, <1>5, NamedKept
<1>10. Reachable'
       <2>1. \A j : T!InTheMaking(j) => T!InTheMaking(j)'  BY DEF T!InTheMaking
       <2> QED  BY <1>0, <1>4, <1>5, <2>1, ReachableKept
<1>11. FiledLive'
       <2>1. ASSUME NEW u \in Uses, NEW j \in 1..serial', reg'[u] = j, KindOf[u[2]] # "cron"
             PROVE  \/ reg[u] = j /\ (T!Own(u) /\ T!Live(j) => T!Live(j)')
                    \/ T!Pair(j)' = u /\ T!Live(j)'
             <3>1. j # 0 /\ j \in 1..serial /\ reg[u] = j
                   <4>1. j # 0  BY <1>0, <2>1
                   <4> QED  BY <1>6, <2>1, <4>1
             <3>2. ASSUME T!Own(u), T!Live(j) PROVE T!Live(j)'
                   <4>1. CASE j # i  BY <1>3, <3>1, <3>2, <4>1
                   <4>2. CASE j = i
                         <5>1. T!Pair(reg[u]) = u  BY <1>0, <2>1, <3>1, <3>2 DEF FiledLive
                         <5>2. T!Pair(i) = u  BY <3>1, <4>2, <5>1
                         <5>3. T!Kind(i) # "cron"  BY <2>1, <5>2 DEF T!Pair, T!Kind
                         <5>4. reg' # T!Unregister(i)
                               BY <2>1, <3>1, <4>2, <5>2 DEF T!Unregister
                         <5> QED  BY <3>2, <4>2, <5>3, <5>4
                   <4> QED  BY <4>1, <4>2
             <3> QED  BY <3>1, <3>2
       <2>2. \A u \in Uses : reg'[u] \in 0..serial'  BY <1>7 DEF Tabled
       <2> QED  BY <1>0, <1>4, <2>1, <2>2, FiledKept
<1> QED  BY <1>4, <1>7, <1>8, <1>9, <1>10, <1>11 DEF TimersInv

LEMMA PopKeeps ==
    ASSUME T!TimerParams, TimersInv, NEW i \in T!Ids, T!Pop(i)
    PROVE  TimersInv'
<1>1. /\ timers[i].at = "heap" /\ (timers[i].off \/ T!Kind(i) # "every")
      /\ timers' = [timers EXCEPT ![i].at = IF timers[i].off THEN "over" ELSE "popped"]
      /\ reg' = (IF ~timers[i].off /\ T!Kind(i) = "once" THEN T!Unregister(i) ELSE reg)
      /\ UNCHANGED <<serial, byName, byScope, nameLoc, errands, orphans>>
      BY DEF T!Pop
<1>2. i \in 1..serial  BY <1>1 DEF TimersInv, Made, T!Ids
<1>3. timers[i] \in TimerRecs /\ Made /\ T!Kind(i) \in {"once", "every", "cron"}
      BY <1>2, TimerOf DEF TimersInv
<1>4. PICK a \in {"popped", "over"} : a = IF timers[i].off THEN "over" ELSE "popped"  OBVIOUS
<1>5. PICK o \in BOOLEAN : o = timers[i].off  BY <1>3 DEF TimerRecs
<1>6. [timers[i] EXCEPT !.at = a] = [timers[i] EXCEPT !.at = a, !.off = o]
      BY <1>3, <1>5 DEF TimerRecs
<1>7. timers' = [timers EXCEPT ![i] = [timers[i] EXCEPT !.at = a, !.off = o]]
      BY <1>1, <1>4, <1>6
<1>8. /\ timers'[i].at = a /\ timers'[i].off = o /\ timers'[i].name = timers[i].name
      BY <1>1, <1>2, <1>3, <1>7, OneChanges
<1>9. T!Live(i)' <=> ~timers[i].off /\ T!Kind(i) = "cron"
      BY <1>4, <1>5, <1>8 DEF T!Live, T!Kind
<1>10. T!Live(i) <=> ~timers[i].off  BY <1>1 DEF T!Live
<1>11. /\ T!Live(i)' => T!Live(i)
       /\ reg' = reg \/ reg' = T!Unregister(i)
       /\ T!Live(i) /\ T!Kind(i) # "cron" => T!Live(i)' \/ reg' = T!Unregister(i)
       BY <1>1, <1>3, <1>9, <1>10
<1> QED  BY <1>1, <1>2, <1>7, <1>11, MovedKeeps

LEMMA RunKeeps ==
    ASSUME T!TimerParams, TimersInv, NEW i \in T!Ids, T!Run(i)
    PROVE  TimersInv'
<1>1. /\ timers[i].at = "popped"
      /\ timers' = [timers EXCEPT ![i] =
                      IF T!Live(i) /\ ~silenced THEN [timers[i] EXCEPT !.at = "heap"]
                      ELSE [timers[i] EXCEPT !.at = "over",
                                             !.off = timers[i].off \/ T!Kind(i) = "cron"]]
      /\ UNCHANGED <<serial, byName, byScope, nameLoc, reg, errands, orphans>>
      BY DEF T!Run, T!tables
<1>2. i \in 1..serial  BY <1>1 DEF TimersInv, Made, T!Ids
<1>3. timers[i] \in TimerRecs /\ Made  BY <1>2, TimerOf DEF TimersInv
<1>4. CASE T!Live(i) /\ ~silenced
      <2>1. [timers[i] EXCEPT !.at = "heap"] = [timers[i] EXCEPT !.at = "heap", !.off = FALSE]
            BY <1>3, <1>4 DEF TimerRecs, T!Live
      <2>2. timers' = [timers EXCEPT ![i] = [timers[i] EXCEPT !.at = "heap", !.off = FALSE]]
            BY <1>1, <1>4, <2>1
      <2>3. T!Live(i)'
            <3>1. timers'[i].at = "heap" /\ timers'[i].off = FALSE
                  BY <1>1, <1>2, <1>3, <2>2, OneChanges
            <3> QED  BY <3>1 DEF T!Live
      <2> QED  BY <1>1, <1>2, <1>4, <2>2, <2>3, MovedKeeps
<1>5. CASE ~(T!Live(i) /\ ~silenced)
      <2>1. PICK o \in BOOLEAN : o = (timers[i].off \/ T!Kind(i) = "cron")  OBVIOUS
      <2>2. timers' = [timers EXCEPT ![i] = [timers[i] EXCEPT !.at = "over", !.off = o]]
            BY <1>1, <1>5, <2>1
      <2>3. ~T!Live(i)'
            <3>1. timers'[i].at = "over"  BY <1>1, <1>2, <1>3, <2>2, OneChanges
            <3> QED  BY <3>1 DEF T!Live
      <2>4. T!Kind(i) # "cron" => ~T!Live(i)  BY <1>1 DEF T!Live
      <2> QED  BY <1>1, <1>2, <2>2, <2>3, <2>4, MovedKeeps
<1> QED  BY <1>4, <1>5

-----------------------------------------------------------------------------
LEMMA TimersStart ==
    ASSUME T!TimerParams, T!Init
    PROVE  TimersInv
<1>1. /\ serial = 0 /\ timers = [i \in T!Ids |-> T!NoTimer]
      /\ byName = [n \in TimerNames |-> 0] /\ byScope = [s \in Scopes |-> {}]
      /\ nameLoc = [n \in TimerNames |-> T!NoRef] /\ reg = [u \in Uses |-> 0]
      /\ errands = [c \in Goroutines |-> T!Idle]
      BY DEF T!Init
<1>2. T!NoTimer \in TimerRecs /\ T!NoTimer.at = "none"  BY DEF T!NoTimer, TimerRecs
<1>3. Made  BY <1>1, <1>2 DEF Made, T!TimerParams
<1>4. Tabled
      <2>1. T!NoRef \in Refs  BY DEF T!NoRef, Refs
      <2> QED  BY <1>1, <2>1 DEF Tabled
<1>5. Minded
      <2>1. T!Idle \in Errands  BY <1>1 DEF T!Idle, Errands
      <2> QED  BY <1>1, <2>1 DEF Minded, T!Idle
<1>6. Named /\ Reachable /\ FiledLive  BY <1>1 DEF Named, Reachable, FiledLive
<1> QED  BY <1>3, <1>4, <1>5, <1>6 DEF TimersInv

LEMMA TimersStep ==
    ASSUME T!TimerParams, TimersInv, [T!Next]_(T!vars)
    PROVE  TimersInv'
<1>1. CASE UNCHANGED T!vars
      <2>1. UNCHANGED <<serial, timers, byName, byScope, nameLoc, reg, errands, orphans>>
            BY <1>1 DEF T!vars, T!tables
      <2>2. Made' /\ Ahead /\ \A i : T!Live(i)' = T!Live(i) /\ T!Pair(i)' = T!Pair(i)
            BY <2>1, TimersStay DEF TimersInv
      <2>3. CallsGoOn /\ Minded'  BY <2>1, <2>2, MindedStays DEF CallsGoOn, TimersInv
      <2>4. Tabled'  BY <2>1, <2>2, Widened, TabledKept DEF TimersInv
      <2>5. Named'  BY <2>1, <2>2, <2>3, NamedKept DEF TimersInv
      <2>6. Reachable'
            <3>1. \A j : T!InTheMaking(j) => T!InTheMaking(j)'  BY <2>1 DEF T!InTheMaking
            <3> QED  BY <2>1, <2>2, <2>3, <3>1, ReachableKept DEF TimersInv
      <2>7. FiledLive'
            <3>1. \A u \in Uses : reg'[u] \in 0..serial'  BY <2>4 DEF Tabled
            <3> QED  BY <2>1, <2>2, <3>1, FiledKept DEF TimersInv
      <2> QED  BY <2>2, <2>3, <2>4, <2>5, <2>6, <2>7 DEF TimersInv
<1>2. ASSUME NEW c \in Goroutines, T!FileCron(c) \/ T!Register(c) \/ T!CallStopper(c)
      PROVE  TimersInv'
      BY <1>2, FileCronKeeps, RegisterKeeps, CallStopperKeeps
<1>3. ASSUME NEW c \in Goroutines, NEW u \in Uses, T!Add(c, u) \/ T!ImportCron(c, u)
      PROVE  TimersInv'
      BY <1>3, AddKeeps DEF T!ImportCron
<1>4. ASSUME NEW c \in Goroutines, \E i \in T!Ids : T!StopHandle(c, i) PROVE TimersInv'
      BY <1>4, StopHandleKeeps
<1>5. ASSUME NEW c \in Goroutines, \E n \in TimerNames : T!StopNamed(c, n) PROVE TimersInv'
      BY <1>5, StopNamedKeeps
<1>6. ASSUME NEW c \in Goroutines, \E s \in Scopes : T!StopScope(c, s) PROVE TimersInv'
      BY <1>6, StopScopeKeeps
<1>7. Migrates \subseteq Uses  BY DEF T!TimerParams
<1>8. ASSUME NEW u \in Migrates, T!ImportTimer(u) PROVE TimersInv'
      BY <1>7, <1>8, ImportKeeps
<1>9. ASSUME NEW i \in T!Ids, T!Pop(i) \/ T!Run(i) PROVE TimersInv'
      BY <1>9, PopKeeps, RunKeeps
<1>10. CASE T!StopAll \/ T!Close
       <2>1. T!Sweep /\ UNCHANGED <<serial, errands>>  BY <1>10 DEF T!StopAll, T!Close
       <2> QED  BY <2>1, SweepKeeps
<1> QED  BY <1>1, <1>2, <1>3, <1>4, <1>5, <1>6, <1>7, <1>8, <1>9, <1>10 DEF T!Next

LEMMA TimersMean ==
    ASSUME T!TimerParams, TimersInv
    PROVE  T!TSTypeOK /\ T!ScopeReaches /\ T!RegistryIsLive
<1>0. /\ Made /\ Tabled /\ Minded /\ Reachable /\ FiledLive /\ serial \in Nat
      /\ serial <= MaxTimers /\ MaxTimers \in Nat
      BY DEF TimersInv, Made, T!TimerParams
<1>1. T!TSTypeOK
      <2>1. serial \in 0..MaxTimers /\ 1..serial \subseteq T!Ids  BY <1>0 DEF T!Ids
      <2>2. \A i \in T!Ids : timers[i].at \in {"none", "heap", "popped", "over"}
            BY <1>0 DEF Made, TimerRecs
      <2>3. byScope \in [Scopes -> SUBSET T!Ids]
            <3>1. SUBSET (1..serial) \subseteq SUBSET T!Ids  BY <2>1
            <3> QED  BY <1>0, <3>1 DEF Tabled
      <2>4. \A n \in TimerNames : nameLoc[n] = T!NoRef
                                  \/ (nameLoc[n].scope \in Scopes /\ nameLoc[n].id \in T!Ids)
            BY <1>0, <2>1 DEF Tabled, RefOf
      <2>5. \A c \in Goroutines : errands[c].step \in {"idle", "file", "register", "stop"}
            BY <1>0 DEF Minded, Errands
      <2> QED  BY <1>0, <2>1, <2>2, <2>3, <2>4, <2>5 DEF T!TSTypeOK, Tabled
<1>2. T!ScopeReaches
      <2> SUFFICES ASSUME NEW i \in T!Ids, T!Live(i), T!Scoped(i), ~T!InTheMaking(i),
                          i \notin orphans
                   PROVE  i \in byScope[timers[i].scope] \/ T!Stopping(i)
          BY DEF T!ScopeReaches
      <2>1. i \in 1..serial  BY <1>0 DEF Made, T!Live, T!Ids
      <2> QED  BY <1>0, <2>1 DEF Reachable, Followed
<1>3. T!RegistryIsLive  BY <1>0 DEF FiledLive, T!RegistryIsLive
<1> QED  BY <1>1, <1>2, <1>3

(* add, registerNamed, stop, StopNamed, StopScope, StopAll, ImportScope,   *)
(* for any goroutines, scopes, names and timers: StopScope finds every     *)
(* live timer of its scope that nobody is about to stop.                   *)
THEOREM ScopesAreReached == ASSUME T!TimerParams PROVE T!Spec => []T!ScopeReaches
<1>1. T!Init => TimersInv  BY TimersStart
<1>2. TimersInv /\ [T!Next]_(T!vars) => TimersInv'  BY TimersStep
<1>3. TimersInv => T!ScopeReaches  BY TimersMean
<1> QED  BY <1>1, <1>2, <1>3, PTL DEF T!Spec

(* unregisterRegLocked, ImportScope, for any of them: a closure filed for  *)
(* migration belongs to a timer that is live, but for a pair whose name an *)
(* import has brought to another scope.                                    *)
THEOREM ClosuresAreLive == ASSUME T!TimerParams PROVE T!Spec => []T!RegistryIsLive
<1>1. T!Init => TimersInv  BY TimersStart
<1>2. TimersInv /\ [T!Next]_(T!vars) => TimersInv'  BY TimersStep
<1>3. TimersInv => T!RegistryIsLive  BY TimersMean
<1> QED  BY <1>1, <1>2, <1>3, PTL DEF T!Spec
=============================================================================
