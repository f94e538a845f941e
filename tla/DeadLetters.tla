---------------------------- MODULE DeadLetters ----------------------------
(***************************************************************************)
(* What DeadLetterQueue promises (internal/transport/event/deadletter.go): *)
(* a queue of bounded length holding at most one record per id.  Pushing a *)
(* known id replaces its record in place; pushing a new one into a full    *)
(* queue displaces the oldest; records are removed by id.                  *)
(***************************************************************************)
EXTENDS Naturals, Sequences

CONSTANTS DeadIds, States, Capacity

VARIABLE queue      \* the records, oldest first

Record == [id : DeadIds, state : States]

IdsIn(s) == {s[i].id : i \in 1 .. Len(s)}

(* s without its i-th element. *)
Cut(s, i) == [j \in 1 .. Len(s) - 1 |-> s[IF j < i THEN j ELSE j + 1]]

Init == queue = <<>>

Push(d) ==
    \/ \E i \in 1 .. Len(queue) :
          queue[i].id = d.id /\ queue' = [queue EXCEPT ![i] = d]
    \/ /\ d.id \notin IdsIn(queue)
       /\ queue' = Append(IF Len(queue) >= Capacity THEN Tail(queue) ELSE queue, d)

Remove(id) ==
    \E i \in 1 .. Len(queue) : queue[i].id = id /\ queue' = Cut(queue, i)

Next ==
    \/ \E d \in Record : Push(d)
    \/ \E id \in DeadIds : Remove(id)

Spec == Init /\ [][Next]_queue
=============================================================================
