------------------------------- MODULE KeyMap -------------------------------
(***************************************************************************)
(* What an index promises: at most one row id per key, found as long as    *)
(* nobody erased it.  An insertion that reports an error may lose keys, but*)
(* it never makes a lookup return a row id that is not the key's own, and  *)
(* the operations after it are exact again.                                *)
(***************************************************************************)
EXTENDS Functions

CONSTANTS Key, RowId, Entry

VARIABLES map,    \* key -> row id
          intact  \* no insertion has failed

Init == map = [k \in {} |-> CHOOSE r \in RowId : TRUE] /\ intact = TRUE

\* What an operation makes of map m.
Removals(m) == {Restrict(m, DOMAIN m \ {k}) : k \in Key}
PutIn(m, e) == [j \in DOMAIN m \cup {e[1]} |-> IF j = e[1] THEN e[2] ELSE m[j]]
Puts(m) == {PutIn(m, e) : e \in {f \in Entry : f[1] \notin DOMAIN m}}
HalfPuts(m) == UNION {{Restrict(n, D) : D \in SUBSET DOMAIN n} : n \in Puts(m)}

Put == map' \in Puts(map) /\ UNCHANGED intact
Remove == map' \in Removals(map) /\ UNCHANGED intact
PutFails == map' \in HalfPuts(map) /\ intact' = FALSE

Next == Put \/ Remove \/ PutFails

Spec == Init /\ [][Next]_<<map, intact>>
=============================================================================
