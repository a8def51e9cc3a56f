---------------------------- MODULE MCKernelHeap ----------------------------
(***************************************************************************)
(* A heap of a few bytes at the top of the address space.                  *)
(***************************************************************************)
EXTENDS KernelHeap
=============================================================================
