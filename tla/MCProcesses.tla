----------------------------- MODULE MCProcesses -----------------------------
(***************************************************************************)
(* Programs of up to three pages under two tables, one of them read-only,  *)
(* and three that cannot be loaded: two segments in one page, and segments *)
(* at and beyond the limit of userspace (page 5 is a guard of the heap).   *)
(***************************************************************************)
EXTENDS Processes

P(p, w) == [page |-> p, writable |-> w]

SomeImages ==
    {<<P(0, FALSE), P(1, TRUE)>>,
     <<P(1, FALSE), P(2, FALSE), P(0, TRUE)>>,
     <<P(2, TRUE), P(0, TRUE)>>,
     <<P(1, FALSE), P(1, TRUE)>>,
     <<P(3, TRUE)>>,
     <<P(5, TRUE)>>}
=============================================================================
