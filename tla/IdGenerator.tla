---------------------------- MODULE IdGenerator ----------------------------
(***************************************************************************)
(* How object numbers of one type are handed out (object/idgen/idgen.go):  *)
(* StoreSequencer keeps, per node, the upper end of a reserved segment in  *)
(* the store and counts up to it in memory; Generator packs the node into  *)
(* the low digits of the number.  A call holds the sequencer's lock to its *)
(* end, so it is one action, with what the store may answer.               *)
(***************************************************************************)
EXTENDS Naturals

CONSTANTS
    Nodes,
    Radix,      \* 2^nodeBits
    MaxCounter, \* the greatest counter that fits beside the node (48 - nodeBits bits)
    Limit,      \* the greatest uint64
    Step,       \* length of a segment
    Sizes       \* of the blocks asked for by Reserve

IdGeneratorParams ==
    /\ Radix \in Nat \ {0} /\ Nodes \subseteq 0..Radix-1
    /\ Limit \in Nat /\ MaxCounter \in 0..Limit /\ Step \in 1..Limit /\ Sizes \subseteq Nat

VARIABLES
    stored,     \* the ceiling in the store, 0 if there is none
    loaded, hwm, ceiling,   \* of each node's process
    (* What has happened: the object numbers handed out, the nodes that    *)
    (* handed out one of them again, the nodes whose last Save failed      *)
    (* without any effect, and those whose process then ended.             *)
    given, repeated, unsaved, forgot

vars == <<stored, loaded, hwm, ceiling, given, repeated, unsaved, forgot>>

IGInit ==
    /\ stored = [n \in Nodes |-> 0] /\ hwm = stored /\ ceiling = stored
    /\ loaded = [n \in Nodes |-> FALSE]
    /\ given = {} /\ repeated = {} /\ unsaved = {} /\ forgot = {}

-----------------------------------------------------------------------------
Pack(n, counter) == counter * Radix + n

(* What a call finds once ensureLoaded has succeeded. *)
Last(n) == IF loaded[n] THEN hwm[n] ELSE stored[n]
Reserved(n) == IF loaded[n] THEN ceiling[n] ELSE stored[n]

(* How far reserveSegment advances a ceiling c that lies below need: whole *)
(* steps, or just enough next to the limit.                                *)
Padding(gap) == IF gap % Step = 0 THEN 0 ELSE Step - (gap % Step)
Growth(c, need) ==
    LET gap == need - c IN
    gap + (IF Padding(gap) <= Limit - gap THEN Padding(gap) ELSE 0)

Remember(n, last, top) ==
    /\ loaded' = [loaded EXCEPT ![n] = TRUE]
    /\ hwm' = [hwm EXCEPT ![n] = last]
    /\ ceiling' = [ceiling EXCEPT ![n] = top]

GiveOut(n, counters) ==
    LET ids == {Pack(n, s) : s \in counters \cap 0..MaxCounter} IN
    /\ given' = given \union ids
    /\ repeated' = repeated \union {m \in {n} : ids \cap given # {}}

GivesNothing == UNCHANGED <<given, repeated>>
Advanced(n, size) == Last(n)+1..Last(n)+size

FromSegment(n, size) ==
    /\ Last(n) + size <= Reserved(n)
    /\ Remember(n, Last(n) + size, Reserved(n)) /\ GiveOut(n, Advanced(n, size))
    /\ UNCHANGED <<stored, unsaved>>

Saved(n, top) == stored' = [stored EXCEPT ![n] = top] /\ unsaved' = unsaved \ {n}
NotSaved(n) == unsaved' = unsaved \union {n} /\ UNCHANGED stored

(* Mutation: the store keeps the last number given, not the ceiling. *)
FromNewSegmentKeepsLast(n, size) ==
    LET top == Reserved(n) + Growth(Reserved(n), Last(n) + size) IN
    /\ Last(n) + size > Reserved(n)
    /\ Saved(n, Last(n) + size)
    /\ Remember(n, Last(n) + size, top) /\ GiveOut(n, Advanced(n, size))

(* The ceiling in memory moves before the Save, and stays where it is when *)
(* the Save fails, which it may do after it took effect or without any.    *)
FromNewSegment(n, size) ==
    LET top == Reserved(n) + Growth(Reserved(n), Last(n) + size) IN
    /\ Last(n) + size > Reserved(n)
    /\ \/ /\ Saved(n, top)
          /\ Remember(n, Last(n) + size, top) /\ GiveOut(n, Advanced(n, size))
       \/ /\ Saved(n, top) \/ NotSaved(n)
          /\ Remember(n, Last(n), top) /\ GivesNothing

(* ErrSeqOverflow, or an empty block: the state is only loaded. *)
NothingLeft(n, size) ==
    \/ size > Limit - Last(n)
    \/ /\ Last(n) + size > Reserved(n)
       /\ Growth(Reserved(n), Last(n) + size) > Limit - Reserved(n)
Answered(n) ==
    Remember(n, Last(n), Reserved(n)) /\ GivesNothing /\ UNCHANGED <<stored, unsaved>>

Take(n, size) ==
    /\ \/ size = 0 /\ Answered(n)
       \/ size > 0 /\ NothingLeft(n, size) /\ Answered(n)
       \/ /\ size > 0 /\ ~NothingLeft(n, size)
          /\ FromSegment(n, size) \/ FromNewSegment(n, size)
    /\ UNCHANGED forgot

Next(n) == Take(n, 1)
Reserve(n) == \E size \in Sizes : Take(n, size)

(* The process of a node ends and another takes its place. *)
Restart(n) ==
    /\ loaded[n] /\ loaded' = [loaded EXCEPT ![n] = FALSE]
    /\ hwm' = [hwm EXCEPT ![n] = 0] /\ ceiling' = [ceiling EXCEPT ![n] = 0]
    /\ unsaved' = unsaved \ {n} /\ forgot' = forgot \union (unsaved \cap {n})
    /\ UNCHANGED <<stored, given, repeated>>

IGNext == \E n \in Nodes : Next(n) \/ Reserve(n) \/ Restart(n)
IGSpec == IGInit /\ [][IGNext]_vars

-----------------------------------------------------------------------------
(* Properties *)

(* ensureLoaded, reserveSegment, make: over restarts, failing saves,       *)
(* blocks across segments and the end of the range a number is handed out  *)
(* twice only by a node whose process ended while the last ceiling it had  *)
(* tried to save was not in the store.                                     *)
IdsAreUnique == repeated \subseteq forgot

(* What a process hands out lies above what it has handed out, also after  *)
(* a Save that failed.                                                     *)
WithinSegment == \A n \in Nodes : loaded[n] => hwm[n] <= ceiling[n]

(* "绝不重复分配": never twice.  A Save that fails without effect breaks it, *)
(* when the process ends before another one takes effect.                  *)
NeverTwice == repeated = {}
============================================================================
