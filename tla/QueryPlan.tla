----------------------------- MODULE QueryPlan -----------------------------
(***************************************************************************)
(* SELECT on the table of DiskStorage: the planner and the operators       *)
(* (src/src/execution/planner.cpp, operators.cpp) and the executor that    *)
(* runs a plan on an index scan or a sequential scan, beside what SQL says *)
(* of the same statement: a row is selected when its condition is true in  *)
(* three-valued logic.  The README of the code says so of NULL:            *)
(* "ordinary comparisons involving `NULL` do not match rows".              *)
(***************************************************************************)
EXTENDS DiskStorage

CONSTANTS Rank,     \* order of the texts
          Wheres,   \* WHERE conditions to ask for; Anything for none
          Anything,
          Failure   \* the result of a SELECT that is refused

\* A condition compares a column with a literal or joins two conditions.
Comparison(column, operation, value) ==
    [column |-> column, operation |-> operation, value |-> value]
Logical(connective, left, right) ==
    [connective |-> connective, left |-> left, right |-> right]
IsComparison(where) == "column" \in DOMAIN where

Columns == <<"key", "text">>
Literals(column) == {Null} \cup (IF column = "key" THEN Key ELSE Text)

\* Value::operator<=> on two values of a column.
Below(column, a, b) == IF column = "key" THEN a < b ELSE Rank[a] < Rank[b]

\* matches(): a NULL on either side matches nothing but IS and IS NOT.
Matches(column, left, operation, right) ==
    CASE operation = "is null"     -> left = Null
      [] operation = "is not null" -> left # Null
      [] OTHER ->
           /\ Null \notin {left, right}
           /\ \/ operation \in {"=", "<=", ">="} /\ left = right
              \/ operation \in {"!=", "<", "<="} /\ Below(column, left, right)
              \/ operation \in {"!=", ">", ">="} /\ Below(column, right, left)

\* The predicate that bind_expression makes of a condition.
Satisfies(where, row) ==
    LET holds[w \in Wheres] ==
          IF IsComparison(w) THEN Matches(w.column, row[w.column], w.operation, w.value)
          ELSE IF w.connective = "and" THEN holds[w.left] /\ holds[w.right]
          ELSE holds[w.left] \/ holds[w.right]
    IN  holds[where]

\* A condition binds when its columns exist and its literals have their types.
Binds(where) ==
    LET binds[w \in Wheres] ==
          IF IsComparison(w) THEN /\ w.column \in ToSet(Columns)
                                  /\ w.value \in Literals(w.column)
          ELSE binds[w.left] /\ binds[w.right]
    IN  where = Anything \/ binds[where]

\* Fault: the operation is not looked at.
UsesIndexForAnything(where) ==
    /\ where # Anything
    /\ IsComparison(where)
    /\ table.indexes # <<>>
    /\ where.column = "key" /\ where.value \in Key

\* A lone test of an indexed column for equality with an integer.
UsesIndex(where) ==
    /\ where # Anything
    /\ IsComparison(where)
    /\ table.indexes # <<>>
    /\ where.column = "key" /\ where.operation = "=" /\ where.value \in Key

\* Columns named by the statement: all for none, each at most once.
Projects(columns) == ToSet(columns) \subseteq ToSet(Columns) /\ IsInjective(columns)

\* plan_select: the filter stays above an index scan.
Plan(where, columns) ==
    [scan    |-> IF UsesIndex(where) THEN "index" ELSE "sequential",
     filter  |-> where,
     columns |-> IF columns = <<>> THEN Columns ELSE columns]

\* index_scan looks the key up in the first index and fetches the row.
IndexScan(key) ==
    LET map == table.indexes[1].map
    IN  IF key \notin DOMAIN map THEN <<>>
        ELSE IF /\ map[key][1] \in ToSet(table.page_ids)
                /\ Live(pages[map[key][1]], map[key][2])
        THEN <<Slot(pages, map[key]).rec>>
        ELSE Failure
SequentialScan == LET rows == Rows IN [i \in DOMAIN rows |-> rows[i].row]

Filter(rows, where) ==
    IF where = Anything THEN rows
    ELSE SelectSeq(rows, LAMBDA row : Satisfies(where, row))

Projection(rows, columns) ==
    [i \in DOMAIN rows |-> [c \in DOMAIN columns |-> rows[i][columns[c]]]]

\* execute_select on a table whose sequential scan yields `heap`: plan, scan,
\* filter, project.
Select(heap, where, columns) ==
    IF ~Binds(where) \/ ~Projects(columns) THEN Failure
    ELSE LET plan == Plan(where, columns)
             rows == IF plan.scan = "index" THEN IndexScan(where.value) ELSE heap
         IN  IF rows = Failure THEN Failure
             ELSE Projection(Filter(rows, plan.filter), plan.columns)
----------------------------------------------------------------------------
\* SQL's truth values: 0 false, 1 unknown, 2 true.
Truth(where, row) ==
    LET both(a, b) == IF a < b THEN a ELSE b
        either(a, b) == IF a < b THEN b ELSE a
        compare(w, a) ==
          CASE w.operation = "=" -> a = w.value
            [] w.operation = "!=" -> a # w.value
            [] w.operation = "<" -> Below(w.column, a, w.value)
            [] w.operation = ">=" -> ~Below(w.column, a, w.value)
            [] w.operation = ">" -> Below(w.column, w.value, a)
            [] w.operation = "<=" -> ~Below(w.column, w.value, a)
        truth[w \in Wheres] ==
          IF IsComparison(w)
          THEN LET a == row[w.column]
               IN  IF w.operation = "is null" THEN IF a = Null THEN 2 ELSE 0
                   ELSE IF w.operation = "is not null" THEN IF a = Null THEN 0 ELSE 2
                   ELSE IF Null \in {a, w.value} THEN 1
                   ELSE IF compare(w, a) THEN 2 ELSE 0
          ELSE IF w.connective = "and" THEN both(truth[w.left], truth[w.right])
          ELSE either(truth[w.left], truth[w.right])
    IN  truth[where]

Selected(heap, where) ==
    SelectSeq(heap, LAMBDA row : where = Anything \/ Truth(where, row) = 2)

\* Whatever the statements before it, a SELECT answers with the requested
\* columns of exactly the rows whose condition is true, in the order of the
\* table, whichever plan it gets, and never fails on an index entry.  Once a
\* statement has failed and left indexes and rows apart, an index scan may miss
\* a row or be refused, but no SELECT answers with a row that it should not.
SelectAnswers ==
    op = Idle =>
       \A heap \in {SequentialScan}, where \in Wheres :
          Binds(where) =>
             \A due \in {Selected(heap, where)} :
                IF ~diverged
                THEN /\ Select(heap, where, <<>>) = Projection(due, Columns)
                     /\ Select(heap, where, <<"text">>) = Projection(due, <<"text">>)
                ELSE \E answer \in {Select(heap, where, <<>>)} :
                        answer = Failure \/ answer \in SubSeqs(Projection(due, Columns))
=============================================================================
