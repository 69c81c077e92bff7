------------------------------ MODULE RowStore ------------------------------
(***************************************************************************)
(* What a table heap promises: a set of rows named by row ids, where an id *)
(* that was once given up never names another row.  Indexes rely on it:    *)
(* they keep row ids, not rows.                                            *)
(***************************************************************************)
CONSTANTS RowId, Row

VARIABLES rows,     \* live row id -> row
          retired   \* row ids of deleted or relocated rows

vars == <<rows, retired>>

Fresh == RowId \ (DOMAIN rows \cup retired)

Init == /\ rows = [id \in {} |-> CHOOSE r \in Row : TRUE]
        /\ retired = {}

With(id, row) == [i \in DOMAIN rows \cup {id} |-> IF i = id THEN row ELSE rows[i]]
Without(f, id) == [i \in DOMAIN f \ {id} |-> f[i]]

Insert(id, row) == /\ rows' = With(id, row)
                   /\ UNCHANGED retired

Delete(id) == /\ rows' = Without(rows, id)
              /\ retired' = retired \cup {id}

Replace(id, row) == /\ rows' = [rows EXCEPT ![id] = row]
                    /\ UNCHANGED retired

\* The row moves to a fresh id.
Relocate(id, new, row) == /\ rows' = Without(With(new, row), id)
                          /\ retired' = retired \cup {id}

\* A step inserts (a relocation whose deletion fails leaves the old row
\* behind: that is an Insert too), deletes, replaces or relocates one row.
Next == \/ \E id \in Fresh, row \in Row : Insert(id, row)
        \/ \E id \in DOMAIN rows : \/ Delete(id)
                                   \/ \E row \in Row : Replace(id, row)
        \/ \E id \in DOMAIN rows :
              /\ id \in retired'
              /\ \E new \in Fresh, row \in Row : Relocate(id, new, row)

Spec == Init /\ [][Next]_vars
=============================================================================
