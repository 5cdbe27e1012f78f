--------------------------- MODULE ChangeDelivery ---------------------------
(***************************************************************************)
(* What a sync promises to somebody who only sees the change log, the      *)
(* marks in it and the checkpoints: no databases, no strategies, no order  *)
(* of tables, no failures.  Changes are delivered once at most, those of a *)
(* table in the order of their times; and a checkpoint stands at a         *)
(* delivered change, never behind the one the run began with, or, after a  *)
(* full copy, at its time.                                                 *)
(***************************************************************************)
EXTENDS Integers, Sequences

CONSTANTS Row,          \* <<table, key>>
          Side,         \* "source" and "target"
          FirstId,      \* change i has the id FirstId + i
          TextOrder     \* pairs of ids of which the first, as a text, is smaller

VARIABLES
    changes,    \* ChangeLog rows: a sequence of [row, side, time, delete]
    now,        \* the clock
    delivered,  \* the changes marked synchronized
    position,   \* SyncState: the checkpoint of each side
    floor       \* where the run under way began, or will begin

vars == <<changes, now, delivered, position, floor>>

Init ==
    /\ changes = <<>>
    /\ now = 0
    /\ delivered = {}
    /\ position = [s \in Side |-> [time |-> 0, id |-> 0]]
    /\ floor = position

SameRow(i, j) == changes[i].row = changes[j].row
SameSide(i, j) == changes[i].side = changes[j].side
SameTable(i, j) == changes[i].row[1] = changes[j].row[1]
Stamp(i) == [time |-> changes[i].time, id |-> FirstId + i]

\* Behind the floor, as texts of a time and an id are compared.
Behind(i) ==
    LET from == floor[changes[i].side]
    IN  \/ changes[i].time > from.time
        \/ changes[i].time = from.time /\ <<from.id, FirstId + i>> \in TextOrder

\* A run may come upon it.
Due(i) == i \in DOMAIN changes \ delivered /\ Behind(i)

\* Nothing due of i's table and side is of a time before i's, but what is in B.
InTurn(i, B) ==
    \A k \in DOMAIN changes \ B :
        Due(k) /\ SameTable(k, i) /\ SameSide(k, i) => changes[k].time >= changes[i].time

Tick == now' = now + 1 /\ UNCHANGED <<changes, delivered, position, floor>>

Capture(r, s, d) ==
    /\ changes' = Append(changes, [row |-> r, side |-> s, time |-> now, delete |-> d])
    /\ UNCHANGED <<now, delivered, position, floor>>

\* Changes of one table and one side, no deletes, and none after a later one of its row.
Deliver(B) ==
    /\ B # {}
    /\ \A i \in B :
           /\ Due(i) /\ ~changes[i].delete /\ InTurn(i, B)
           /\ \A j \in B : SameTable(i, j) /\ SameSide(i, j)
           /\ \A j \in delivered : SameRow(i, j) /\ SameSide(i, j) =>
                                      changes[j].time <= changes[i].time
    /\ delivered' = delivered \cup B
    /\ UNCHANGED <<changes, now, position, floor>>

\* To a delivered change; nothing of its table and of an earlier time is passed by.
Advance(n) ==
    /\ n \in delivered
    /\ Behind(n)
    /\ InTurn(n, {})
    /\ position' = [position EXCEPT ![changes[n].side] = Stamp(n)]
    /\ UNCHANGED <<changes, now, delivered, floor>>

\* After a full copy of one side: to the time.
Establish(s) ==
    /\ position' = [position EXCEPT ![s] = [time |-> now, id |-> 0]]
    /\ UNCHANGED <<changes, now, delivered, floor>>

\* A run ends: the next begins where the checkpoints are.
Rest ==
    /\ floor' = position
    /\ UNCHANGED <<changes, now, delivered, position>>

Next ==
    \/ Tick
    \/ \E r \in Row, s \in Side, d \in BOOLEAN : Capture(r, s, d)
    \/ \E B \in SUBSET DOMAIN changes : Deliver(B)
    \/ \E n \in delivered : Advance(n)
    \/ \E s \in Side : Establish(s)
    \/ Rest

Spec == Init /\ [][Next]_vars
=============================================================================
