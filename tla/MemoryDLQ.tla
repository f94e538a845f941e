----------------------------- MODULE MemoryDLQ -----------------------------
(***************************************************************************)
(* The in-memory dead-letter queue as it is stored                         *)
(* (internal/transport/event/deadletter.go): a slice whose first `head'    *)
(* slots are dead, and an index from record ids to slots.  Every operation *)
(* holds the mutex from start to end.  Slots count from 1 here.            *)
(***************************************************************************)
EXTENDS Integers, Sequences

CONSTANTS
    DeadIds, States,    \* record ids; what distinguishes two records of one id
    Capacity,
    MaxSlots            \* bound on the slice length, dead slots included

MemoryDLQParams == Capacity \in Nat \ {0} /\ MaxSlots \in Nat

VARIABLES items, head, index

vars == <<items, head, index>>

Record == [id : DeadIds, state : States]

Live(s, h) == SubSeq(s, h + 1, Len(s))
LiveLen == Len(items) - head

(* s without its i-th element.                                             *)
Cut(s, i) == [j \in 1 .. Len(s) - 1 |-> s[IF j < i THEN j ELSE j + 1]]

(* The index after the code's loop over slots from..Len(s).                *)
Reindex(idx, s, from) ==
    [id \in DOMAIN idx |->
        IF \E i \in from .. Len(s) : s[i].id = id
        THEN CHOOSE i \in from .. Len(s) : s[i].id = id
        ELSE idx[id]]

Without(idx, id) == [k \in DOMAIN idx \ {id} |-> idx[k]]
With(idx, id, i) == [k \in DOMAIN idx \cup {id} |-> IF k = id THEN i ELSE idx[k]]

Init == items = <<>> /\ head = 0 /\ index = <<>>

(* Mutation: the slice is compacted and the index is not. *)
PushStaleIndex(d) ==
    LET full == LiveLen >= Capacity
        h    == IF full THEN head + 1 ELSE head
        base == IF full /\ h * 2 >= Len(items) THEN Live(items, h) ELSE items
    IN /\ Len(items) < MaxSlots
       /\ d.id \notin DOMAIN index
       /\ items' = Append(base, d)
       /\ head' = IF base = items THEN h ELSE 0
       /\ index' = With(IF full THEN Without(index, items[head + 1].id) ELSE index,
                        d.id, Len(base) + 1)

(* Push of an id the queue holds: overwrite its slot.                      *)
Overwrite(d) ==
    /\ d.id \in DOMAIN index
    /\ items' = [items EXCEPT ![index[d.id]] = d]
    /\ UNCHANGED <<head, index>>

(* Push of a new id: step over the oldest record of a full queue, compact  *)
(* the slice once half of it is dead, append.                              *)
Push(d) ==
    LET full    == LiveLen >= Capacity
        h       == IF full THEN head + 1 ELSE head
        kept    == IF full THEN Without(index, items[head + 1].id) ELSE index
        compact == full /\ h * 2 >= Len(items)
        base    == IF compact THEN Live(items, h) ELSE items
    IN /\ Len(items) < MaxSlots
       /\ d.id \notin DOMAIN index
       /\ items' = Append(base, d)
       /\ head' = IF compact THEN 0 ELSE h
       /\ index' = With(IF compact THEN Reindex(kept, base, 1) ELSE kept, d.id, Len(base) + 1)

(* Remove of the oldest record: step over it; an emptied slice is reset.   *)
RemoveOldest(id) ==
    /\ id \in DOMAIN index /\ index[id] = head + 1
    /\ index' = Without(index, id)
    /\ IF head + 1 >= Len(items)
       THEN items' = <<>> /\ head' = 0
       ELSE head' = head + 1 /\ UNCHANGED items

(* Remove of any other record: close the gap, reindex what moved.          *)
RemoveMiddle(id) ==
    /\ id \in DOMAIN index /\ index[id] # head + 1
    /\ items' = Cut(items, index[id])
    /\ index' = Reindex(Without(index, id), Cut(items, index[id]), index[id])
    /\ UNCHANGED head

Next ==
    \/ \E d \in Record : Overwrite(d) \/ Push(d)
    \/ \E id \in DeadIds : RemoveOldest(id) \/ RemoveMiddle(id)

Spec == Init /\ [][Next]_vars

-----------------------------------------------------------------------------
(* Properties *)

(* The index holds exactly the live records, each at its slot, through     *)
(* every compaction and every removal from the middle.                     *)
IndexExact ==
    /\ head \in 0 .. Len(items) /\ LiveLen <= Capacity
    /\ DOMAIN index = {items[i].id : i \in head + 1 .. Len(items)}
    /\ \A id \in DOMAIN index :
         index[id] \in head + 1 .. Len(items) /\ items[index[id]].id = id

(* The slice and its index implement the promised queue: List shows its    *)
(* records newest first.                                                   *)
Abstract == INSTANCE DeadLetters WITH queue <- Live(items, head)
ImplementsDeadLetters == Abstract!Spec
AbstractStep == Abstract!Next \/ UNCHANGED Live(items, head)
=============================================================================
