---------------------------- MODULE MCDatabases ----------------------------
(* The names of databases and tables are alike, which symmetry uses.         *)
EXTENDS Databases, TLC

Symmetry == Permutations(Names) \cup Permutations(Tables)
=============================================================================
