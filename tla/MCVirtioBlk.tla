----------------------------- MODULE MCVirtioBlk -----------------------------
(***************************************************************************)
(* A disk of two sectors; the ring indices wrap after a few requests.      *)
(***************************************************************************)
EXTENDS VirtioBlk
=============================================================================
