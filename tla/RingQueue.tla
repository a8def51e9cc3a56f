------------------------------ MODULE RingQueue ------------------------------
(***************************************************************************)
(* The ring buffers of kernel/src/arch/keyboard.rs (ScancodeQueue) and     *)
(* kernel/src/arch/mouse.rs, as operators on a record.  C is the           *)
(* QUEUE_CAPACITY.  A push into a full ring drops the oldest element.      *)
(***************************************************************************)
EXTENDS Integers, Sequences

Ring(C, S) ==
    [slots : [0 .. C - 1 -> S], read : 0 .. C - 1, write : 0 .. C - 1, len : 0 .. C]

Empty(C, x) == [slots |-> [i \in 0 .. C - 1 |-> x], read |-> 0, write |-> 0, len |-> 0]

Push(C, q, x) ==
    IF q.len = C
    THEN [q EXCEPT !.slots = [@ EXCEPT ![q.write] = x], !.write = (q.write + 1) % C,
                   !.read = (q.read + 1) % C]
    ELSE [q EXCEPT !.slots = [@ EXCEPT ![q.write] = x], !.write = (q.write + 1) % C,
                   !.len = q.len + 1]

\* Of a ring that is not empty.
Oldest(q) == q.slots[q.read]
Pop(C, q) == [q EXCEPT !.read = (q.read + 1) % C, !.len = q.len - 1]

Clear(q) == [q EXCEPT !.read = 0, !.write = 0, !.len = 0]

\* The queue that a ring stands for, oldest element first.
Contents(C, q) == [i \in 1 .. q.len |-> q.slots[(q.read + i - 1) % C]]

\* A ring is in order when write is where read and len say it is.
InOrder(C, q) == q.write = (q.read + q.len) % C
=============================================================================
