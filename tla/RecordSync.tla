----------------------------- MODULE RecordSync -----------------------------
(***************************************************************************)
(* A synchronised table (internal/domain/data/record.go) and the copy of   *)
(* it that a client keeps.  The server records which rows changed, which   *)
(* were deleted and whether the table was cleared or got another column;   *)
(* from time to time a goroutine reads these changes, publishes them and   *)
(* marks the table clean (sync.go), one publication after the other, while *)
(* others go on writing.  A row is one cell; the width of the table stands *)
(* for its columns.                                                        *)
(***************************************************************************)
EXTENDS Naturals, Sequences, FiniteSets, SequencesExt

CONSTANTS
    Cells,      \* values of a cell, with Zero
    Zero,
    MaxRows,    \* SetMaxRows
    MaxWidth,   \* bound on the columns
    MaxFlight   \* bound on the patches on their way

RecordSyncParams ==
    /\ Zero \in Cells
    /\ MaxRows \in Nat \ {0} /\ MaxWidth \in Nat \ {0} /\ MaxFlight \in Nat \ {0}

Tables == [width : 1 .. MaxWidth, rows : UNION {[1 .. n -> Cells] : n \in 0 .. MaxRows}]

VARIABLES
    table,      \* the Record: columns and rows
    dirty,      \* indexes of changed rows
    deleted,    \* indexes of deleted rows, in order
    known,      \* knownRows: how many rows, from the first, the client has
    cleared, full,
    pc, patch,  \* the publisher, and the changes it has read
    flight,     \* published and not yet applied
    copy        \* the client's table

marks == <<dirty, deleted, known, cleared, full>>
vars  == <<table, marks, pc, patch, flight, copy>>

(* A client that was told that everything changed, and has to fetch it;    *)
(* and one that changes have missed or reached twice: it has any table.    *)
NoTable == [width |-> 0, rows |-> <<>>]
AnyTable == [width |-> 0, rows |-> <<Zero>>]

(* "whole" is the table that the patch carries, if it carries one;         *)
(* "stale" says that the table was written since the changes were read,    *)
(* after which the rest of the patch does not matter (a history).          *)
NoPatch == [rows |-> <<>>, deleted |-> <<>>, cleared |-> FALSE, full |-> FALSE,
            whole |-> NoTable, stale |-> FALSE]

(* A patch that tells no more than that everything has changed, or nothing *)
(* of use.                                                                 *)
Outdated(p) == [NoPatch EXCEPT !.full = p.full, !.whole = IF p.whole = NoTable THEN NoTable ELSE AnyTable]

Init ==
    /\ table \in [width : {1}, rows : {<<>>, <<Zero>>}] /\ copy = table
    /\ dirty = {} /\ deleted = <<>> /\ known = Len(table.rows) /\ cleared = FALSE /\ full = FALSE
    /\ pc = "idle" /\ patch = NoPatch /\ flight = <<>>

Reading == pc \notin {"idle", "push"}  \* the changes are read, but still marked
Marks == dirty # {} \/ deleted # <<>> \/ cleared \/ full
Rows == table.rows

-----------------------------------------------------------------------------
(* The game's side.  Each operation is one critical section.               *)

Write(t) ==
    /\ table' = t
    /\ patch' = IF Reading THEN [Outdated(patch) EXCEPT !.stale = TRUE] ELSE patch

SetRows(rows) == Write([table EXCEPT !.rows = rows])

AddRow(v) ==
    /\ Len(Rows) < MaxRows
    /\ SetRows(Append(Rows, v))
    /\ dirty' = dirty \cup {Len(Rows) + 1}
    /\ UNCHANGED <<deleted, known, cleared, full, pc, flight, copy>>

SetCell(i, v) ==
    /\ i \in DOMAIN Rows /\ Rows[i] # v
    /\ SetRows([Rows EXCEPT ![i] = v])
    /\ dirty' = dirty \cup {i}
    /\ UNCHANGED <<deleted, known, cleared, full, pc, flight, copy>>

(* Mutation: the marks behind the deleted row stay where they are. *)
ShiftedNot(i) == dirty \ {i}

(* The marks of the rows behind the deleted one move up with them.         *)
Shifted(i) == {j \in dirty : j < i} \cup {j - 1 : j \in {k \in dirty : k > i}}

(* A row the client never had is not reported to it.                       *)
DeleteRow(i) ==
    /\ i \in DOMAIN Rows
    /\ SetRows(RemoveAt(Rows, i))
    /\ dirty' = Shifted(i)
    /\ IF i <= known THEN known' = known - 1 /\ deleted' = Append(deleted, i)
                     ELSE UNCHANGED <<known, deleted>>
    /\ UNCHANGED <<cleared, full, pc, flight, copy>>

Clear ==
    /\ SetRows(<<>>)
    /\ dirty' = {} /\ deleted' = <<>> /\ known' = 0 /\ cleared' = TRUE
    /\ UNCHANGED <<full, pc, flight, copy>>

AddColumn ==
    /\ table.width < MaxWidth
    /\ Write([table EXCEPT !.width = @ + 1])
    /\ full' = TRUE
    /\ UNCHANGED <<dirty, deleted, known, cleared, pc, flight, copy>>

-----------------------------------------------------------------------------
(* The publisher.  broadcastRecordPatch reads the changes and publishes    *)
(* them, and its callers then mark the table clean, except where the       *)
(* publication has failed.  CommitDiff reads them and marks the table      *)
(* clean, and its caller then pushes them, whatever comes of it.  Of a     *)
(* change of the columns the first says no more than that everything has   *)
(* changed, the second sends the table.                                    *)

Changes(to) ==
    /\ pc = "idle" /\ Marks /\ Len(flight) < MaxFlight
    /\ patch' = IF full THEN [NoPatch EXCEPT !.full = TRUE]
                ELSE [NoPatch EXCEPT !.rows = [i \in dirty |-> Rows[i]],
                                     !.deleted = deleted, !.cleared = cleared]
    /\ pc' = to
    /\ UNCHANGED <<table, marks, flight, copy>>

Publish ==
    /\ pc = "publish"
    /\ flight' = Append(flight, [patch EXCEPT !.stale = FALSE])
    /\ pc' = "published"
    /\ UNCHANGED <<table, marks, patch, copy>>

PublishFails ==
    /\ pc = "publish"
    /\ pc' = "idle" /\ patch' = NoPatch
    /\ UNCHANGED <<table, marks, flight, copy>>

(* CommitDiff's own reading of the whole table, after that of the changes. *)
Marshal ==
    /\ pc = "commit" /\ patch.full
    /\ patch' = [patch EXCEPT !.whole = table, !.stale = FALSE]
    /\ pc' = "commitWhole"
    /\ UNCHANGED <<table, marks, flight, copy>>

Push ==
    /\ pc = "push"
    /\ flight' = Append(flight, patch)
    /\ pc' = "idle" /\ patch' = NoPatch
    /\ UNCHANGED <<table, marks, copy>>

Clean == dirty' = {} /\ deleted' = <<>> /\ known' = Len(Rows) /\ cleared' = FALSE /\ full' = FALSE

(* Changes miss the client for good: it has any table from then on, and a  *)
(* table on its way is any, until it fetches or is sent a later one.       *)
Missed ==
    /\ copy' = IF copy = NoTable THEN NoTable ELSE AnyTable
    /\ flight' = [k \in DOMAIN flight |-> Outdated(flight[k])]

PushFails ==
    /\ pc = "push"
    /\ pc' = "idle" /\ patch' = NoPatch
    /\ Missed
    /\ UNCHANGED <<table, marks>>

(* Changes made after the reading are marked clean with the others.        *)
MarkClean ==
    /\ pc \in {"published", "commitWhole"} \/ (pc = "commit" /\ ~patch.full)
    /\ Clean
    /\ pc' = IF pc = "published" THEN "idle" ELSE "push"
    /\ patch' = IF pc = "published" THEN NoPatch ELSE [patch EXCEPT !.stale = FALSE]
    /\ IF patch.stale THEN Missed ELSE UNCHANGED <<copy, flight>>
    /\ UNCHANGED table

(* The table is marked clean with nothing published: SaveJSONRecordPatch   *)
(* without a message, and saveRecord in any case, after a broadcast that   *)
(* may have failed, or while another goroutine publishes.                  *)
CleanUnpublished ==
    /\ Marks
    /\ Clean
    /\ Missed
    /\ patch' = [Outdated(patch) EXCEPT !.stale = Reading]
    /\ UNCHANGED <<table, pc>>

-----------------------------------------------------------------------------
(* The client applies a patch in the order Changes states: the whole       *)
(* table, or clear, then the deletions one after the other, then the rows. *)

Without(rows, indexes) ==
    FoldLeft(LAMBDA r, i : IF i \in DOMAIN r THEN RemoveAt(r, i) ELSE r, rows, indexes)

Patched(rows, changed) ==
    LET size == Max(DOMAIN changed \cup {Len(rows)}) IN
    [i \in 1 .. size |-> IF i \in DOMAIN changed THEN changed[i]
                         ELSE IF i <= Len(rows) THEN rows[i] ELSE Zero]

Applied(c, p) ==
    IF p.full THEN p.whole
    ELSE IF c \in {NoTable, AnyTable} THEN c
    ELSE [c EXCEPT !.rows = Patched(Without(IF p.cleared THEN <<>> ELSE c.rows, p.deleted), p.rows)]

Apply ==
    /\ flight # <<>>
    /\ copy' = Applied(copy, Head(flight)) /\ flight' = Tail(flight)
    /\ UNCHANGED <<table, marks, pc, patch>>

(* The client fetches the table.  What is marked or on its way by then     *)
(* reaches it twice.                                                       *)
Fetch ==
    /\ copy = NoTable
    /\ copy' = IF Marks \/ pc # "idle" \/ flight # <<>> THEN AnyTable ELSE table
    /\ UNCHANGED <<table, marks, pc, patch, flight>>

Next ==
    \/ \E v \in Cells : AddRow(v)
    \/ \E i \in 1 .. MaxRows : DeleteRow(i) \/ \E v \in Cells : SetCell(i, v)
    \/ Clear \/ AddColumn
    \/ Changes("publish") \/ Publish \/ PublishFails
    \/ Changes("commit") \/ Marshal \/ Push \/ PushFails
    \/ MarkClean \/ CleanUnpublished
    \/ Apply \/ Fetch

Spec == Init /\ [][Next]_vars

-----------------------------------------------------------------------------
(* Types *)
RSTypeOK ==
    /\ table \in Tables /\ copy \in Tables \cup {NoTable, AnyTable}
    /\ dirty \subseteq DOMAIN Rows /\ known \in 0 .. Len(Rows)
    /\ pc \in {"idle", "publish", "published", "commit", "commitWhole", "push"}

(* Everything published and nothing left to publish: the client has the    *)
(* table, whatever was added, changed, deleted and cleared in between,     *)
(* unless changes have missed it or it has to fetch the table (Changes,    *)
(* MarkClean, DeleteRow's shifting of marks).                              *)
CopyConverges ==
    pc = "idle" /\ flight = <<>> /\ ~Marks => copy \in {table, NoTable, AnyTable}

(* The copy after all that is on its way, which the next patch is for.     *)
OnTheWay == IF pc = "push" THEN Append(flight, patch) ELSE flight
CopyToBe == FoldLeft(Applied, copy, OnTheWay)

(* What the server has marked is exactly what the client lacks: the patch  *)
(* that could be published now, behind those on their way, would make the  *)
(* copy equal to the table.                                                *)
MarksSuffice ==
    pc # "published" /\ CopyToBe \notin {NoTable, AnyTable} =>
        Applied(CopyToBe, [rows |-> [i \in dirty |-> Rows[i]], deleted |-> deleted,
                           cleared |-> cleared, full |-> full, whole |-> table]) = table

(* A deletion reaches a client that has the row: the indexes of a patch    *)
(* are in range one after the other (DeleteRow's test of knownRows).       *)
NoPhantomDelete ==
    \A k \in DOMAIN OnTheWay :
        LET p == OnTheWay[k]
            before == FoldLeft(Applied, copy, SubSeq(OnTheWay, 1, k - 1)) IN
        before \notin {NoTable, AnyTable} /\ ~p.full /\ p.deleted # <<>> =>
            /\ ~p.cleared
            /\ \A d \in DOMAIN p.deleted : p.deleted[d] <= Len(before.rows) - d + 1
=============================================================================
