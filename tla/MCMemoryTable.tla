--------------------------- MODULE MCMemoryTable ---------------------------
(* The sizes of MCDiskStorage.                                               *)
EXTENDS MemoryTable

CONSTANTS short, long

MCText == {short, long}
MCSize == [row \in Row |-> (IF row.key = Null THEN 1 ELSE 2)
                           + IF row.text = long THEN 2 ELSE 0]
=============================================================================
