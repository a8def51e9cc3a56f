------------------------------ MODULE MCStorage ------------------------------
(***************************************************************************)
(* A volume of four inodes and four data sectors of two bytes, for the     *)
(* kernel's marker and README and a third name.  Users work on all three.  *)
(* Once a user has changed the marker no user works on the volume again    *)
(* (GoOn): TLC then follows that volume through the boots to come.         *)
(***************************************************************************)
EXTENDS Storage

CONSTANT other_name

AllNames == {marker, readme, other_name}

\* Writes up to the end of a sector, from the start of the second, and of nothing
\* after a gap; they and the lengths meet every boundary of two sectors.
W(offset, bytes) == [offset |-> offset, bytes |-> bytes]
SomeWrites == {W(1, <<1>>), W(2, <<1>>), W(3, <<>>)}
SomeLengths == {0, 3}
MarkerBytes == <<1>>
ReadmeBytes == <<1, 1>>
=============================================================================
