---------------------------- MODULE MCQueryPlan ----------------------------
(* Every comparison with a literal of the column, some that do not bind, and *)
(* pairs of comparisons where NULL, the index and the texts' order matter.   *)
EXTENDS QueryPlan

CONSTANTS short, long

MCText == {short, long}
MCSize == [row \in Row |-> (IF row.key = Null THEN 1 ELSE 2)
                           + IF row.text = long THEN 2 ELSE 0]
MCRank == (short :> 1) @@ (long :> 2)

Tests(column, literals) ==
    {Comparison(column, operation, value) :
        operation \in {"=", "!=", "<", "<=", ">", ">="}, value \in literals}
    \cup {Comparison(column, operation, Null) : operation \in {"is null", "is not null"}}
Comparisons == Tests("key", Key \cup {Null}) \cup Tests("text", {short, Null})
               \cup {Comparison("key", "=", long), Comparison("text", "=", 1),
                     Comparison("other", "=", 1)}
Joined == <<Comparison("key", "=", 1), Comparison("key", "!=", Null),
            Comparison("key", "is null", Null), Comparison("text", "<=", short)>>
MCWheres == {Anything} \cup Comparisons
            \cup {Logical(connective, Joined[pair[1]], Joined[pair[2]]) :
                     connective \in {"and", "or"},
                     pair \in {p \in (1 .. 4) \X (1 .. 4) : p[1] < p[2]}}
=============================================================================
