------------------------------- MODULE MCInput -------------------------------
(***************************************************************************)
(* Short pieces of typing with shift, caps lock and an arrow, and motions  *)
(* with both signs, of eight bits and of nine, an overflow and the wheel.  *)
(***************************************************************************)
EXTENDS Input

Press(c) == [code |-> c, press |-> TRUE]
Release(c) == [code |-> c, press |-> FALSE]

ShiftedLetter == <<Press(42), Press(30), Release(42), Press(2)>>
CapsLetter == <<Press(58), Release(58), Press(30)>>
ArrowThenEnter == <<Press(72), Release(72), Press(28)>>
ShiftAndCaps == <<Press(54), Press(58), Press(44), Press(3)>>

E(dx, dy, w, b, o) == [dx |-> dx, dy |-> dy, wheel |-> w, buttons |-> b, overflow |-> o]

Move == <<E(-1, 5, -1, 1, FALSE)>>
OverflowThenMove == <<E(8, -8, 1, 0, TRUE), E(127, 127, 0, 4, FALSE)>>

\* One event more than the queue holds.
ManyMoves == <<E(200, 0, 0, 0, FALSE), E(-128, -200, 7, 0, FALSE), E(0, 127, -8, 7, FALSE)>>

\* All typing with little movement, all movement with little typing.
SomeInputs ==
    {[typed |-> t, moved |-> m, packet_len |-> 3] :
        t \in {ShiftedLetter, CapsLetter, ArrowThenEnter, ShiftAndCaps}, m \in {<<>>, Move}}
    \cup {[typed |-> t, moved |-> m, packet_len |-> 4] :
        t \in {<<Press(30)>>, <<Press(72)>>}, m \in {OverflowThenMove, ManyMoves}}
    \cup {[typed |-> <<Press(44)>>, moved |-> OverflowThenMove, packet_len |-> 3]}

\* platform::init sets the flag; the exit of /bin/init leaves it clear (see
\* HaltIsInterruptible in Scheduler), and user::enter sets it for the program.
\* So the text shell starts with the flag clear after /bin/init, and would start
\* with it set if exit restored it.
AllStarts == [gui : BOOLEAN, flag : BOOLEAN]
=============================================================================
