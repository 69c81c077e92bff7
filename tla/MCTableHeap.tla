---------------------------- MODULE MCTableHeap ----------------------------
(* Two short rows and a long one: a page takes two short rows, or one long *)
(* row and nothing more.                                                   *)
EXTENDS TableHeap

CONSTANTS short, other, long

MCSize == [r \in {short, other, long} |-> IF r = long THEN 3 ELSE 1]
=============================================================================
