------------------------------ MODULE MCLStack ------------------------------
(***************************************************************************)
(* A small L-stack for TLC: single bits, a byte and a word, and two sizes  *)
(* that are exhausted after a few allocations.                             *)
(***************************************************************************)
EXTENDS LStack

MCLocalBytes == {3, 6}
MCAllocWidths == {1, 8, 16}
=============================================================================
