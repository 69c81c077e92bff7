--------------------------- MODULE MCDiskStorage ---------------------------
(* A short row takes one unit, a key and a long text cost one and two more.  *)
(* In pages of 4 a long row with a key is too large; in pages of 5 it fits,  *)
(* so that rows with a key may move and keep their key.                      *)
EXTENDS DiskStorage

CONSTANTS short, long

MCSymmetry == Permutations(Key)

MCText == {short, long}
MCSize == [row \in Row |-> (IF row.key = Null THEN 1 ELSE 2)
                           + IF row.text = long THEN 2 ELSE 0]
=============================================================================
