---------------------------- MODULE MCBufferPool ----------------------------
(* A small instance of BufferPool for TLC. *)
EXTENDS BufferPool, TLC

Symmetry == Permutations(Guards)
=============================================================================
