---------------------------- MODULE MCDurability ----------------------------
(* A NULL takes less room than a key: a page of 4 units takes two rows       *)
(* without a key, or one that has a key and no other, so that a row given a  *)
(* key may have to move.                                                     *)
EXTENDS Durability

CONSTANT text

MCInserts == Row
MCText == {text}
MCSize == [row \in Row |-> IF row.key = Null THEN 1 ELSE 2]
=============================================================================
