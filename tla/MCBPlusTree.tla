---------------------------- MODULE MCBPlusTree ----------------------------
(* Small instances of BPlusTree for TLC.  Every key has a row id of its    *)
(* own and one key may have a second one, so that a row id found under a   *)
(* wrong key or left from an erased entry is seen.                         *)
EXTENDS BPlusTree

CONSTANTS N,     \* number of keys
          Twice  \* the key that is also inserted with row id 0; 0 for none

MCKey == 1 .. N
MCRowId == 0 .. N
MCEntry == {<<k, k>> : k \in MCKey} \cup ({Twice} \cap MCKey) \X {0}
=============================================================================
