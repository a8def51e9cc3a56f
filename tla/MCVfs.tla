-------------------------------- MODULE MCVfs --------------------------------
(***************************************************************************)
(* Two names, three file systems of two nodes besides the root, files of up  *)
(* to two bytes.                                                           *)
(***************************************************************************)
EXTENDS Vfs

Absolute(parts) == [absolute |-> TRUE, parts |-> parts]
Relative(parts) == [absolute |-> FALSE, parts |-> parts]

\* Plain paths, and some that normalisation changes or refuses.
SmallPaths ==
    {Absolute(p) : p \in {<<>>, <<"a">>, <<"b">>, <<"a", "b">>, <<"a", "b", "a">>}}
    \cup {Relative(<<"b", "..", "a">>), Absolute(<<"long">>)}

SmallWrites == {<<1>>}
=============================================================================
