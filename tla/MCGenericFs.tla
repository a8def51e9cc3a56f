------------------------------ MODULE MCGenericFs ------------------------------
(***************************************************************************)
(* Instances of GenericFS: sectors of two bytes, two inodes to a sector.   *)
(***************************************************************************)
EXTENDS GenericFs, TLC

CONSTANTS first_name, second_name

TwoNames == {first_name, second_name}

\* Names are only compared, so they are interchangeable.
NameSymmetry == Permutations(TwoNames)

\* Writes at the start, inside a sector, across the end of one, after a gap,
\* and of nothing; they and the lengths meet every boundary of two sectors.
W(offset, bytes) == [offset |-> offset, bytes |-> bytes]
SomeWrites == {W(0, <<1>>), W(1, <<1>>), W(2, <<1>>), W(3, <<>>)}
SomeLengths == {0, 1, 3}
=============================================================================
