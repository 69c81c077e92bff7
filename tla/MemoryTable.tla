----------------------------- MODULE MemoryTable -----------------------------
(***************************************************************************)
(* src/src/storage/in_memory_table.cpp beside the table on disk: the       *)
(* executor of statements runs with either storage, and here the same      *)
(* statements go to both.  The comparison ends when a statement has set    *)
(* the two tables apart.                                                   *)
(***************************************************************************)
EXTENDS DiskStorage

VARIABLES memory,  \* InMemoryTable::rows_, how often it holds each row
          apart    \* history: a statement did not do the same to both tables

twins == <<vars, memory, apart>>

Columns == {"key", "text"}

\* Fault: NULL is compared like a value.
MemoryAcceptsNullOnce(row) ==
    /\ row.key \in Values("key")
    /\ \A column \in Columns, other \in BagToSet(memory) :
          Unique(column) => other[column] # row[column]

\* InMemoryTable::insert
MemoryAccepts(row) ==
    /\ row.key \in Values("key")
    /\ \A column \in Columns, other \in BagToSet(memory) :
          Unique(column) /\ row[column] # Null => other[column] # row[column]

MemoryInserted(row) == IF MemoryAccepts(row) THEN memory (+) SetToBag({row}) ELSE memory

MemoryDeleted(match) == Restrict(memory, DOMAIN memory \ match)

\* InMemoryTable::update_where, which does not look for duplicates.
MemoryUpdated(match, column, value) ==
    BagOfAll(LAMBDA row : IF row \in match THEN [row EXCEPT ![column] = value] ELSE row, memory)

\* No UNIQUE column of these rows has a value twice.
NoDuplicates(rows) ==
    \A column \in Columns, row, other \in BagToSet(rows) :
       Unique(column) /\ row[column] # Null /\ row[column] = other[column] =>
          row = other /\ CopiesIn(row, rows) = 1

\* A statement leaves rows in the table in memory, or it sets the two apart.
Memory(rows, differs) == /\ apart' = (apart \/ diverged' \/ differs)
                         /\ memory' = IF apart' THEN EmptyBag ELSE rows
----------------------------------------------------------------------------
TwinInit == Init /\ memory = EmptyBag /\ apart = FALSE

TwinInsert(row, grow) == Insert(row, grow) /\ Memory(MemoryInserted(row), FALSE)

\* The disk refuses a row that is not acceptable or fits in no page; only the
\* disk knows pages.
InsertRefused(row) ==
    /\ op = Idle
    /\ ~Acceptable(row) \/ TooLarge(row)
    /\ UNCHANGED vars
    /\ Memory(MemoryInserted(row), Acceptable(row))

TwinDelete == FinishDelete /\ Memory(MemoryDeleted(op.match), FALSE)

TwinUpdate == FinishUpdate /\ Memory(MemoryUpdated(op.match, op.column, op.value), FALSE)

\* A row that would be too large for a page stops an UPDATE on disk only.
TwinUpdateFails == UpdateFails /\ Memory(memory, TRUE)

\* What the disk refuses for a duplicate, the table in memory carries out.
UpdateRefused(match, column, value) ==
    LET rows == MemoryUpdated(match, column, value)
    IN  /\ op = Idle
        /\ UpdateConflicts(match, column, value)
        /\ UNCHANGED vars
        /\ Memory(rows, ~NoDuplicates(rows))

\* Steps of the disk within a statement and between statements.
DiskOnly == /\ \/ CreateIndex
               \/ \E match \in Predicates : BeginDelete(match)
               \/ DeleteRow
               \/ \E match \in Predicates, column \in Columns :
                     \E value \in Values(column) : BeginUpdate(match, column, value)
               \/ \E grow \in BOOLEAN : UpdateRow(grow)
               \/ Restart
            /\ UNCHANGED <<memory, apart>>

TwinNext == \/ \E row \in Row, grow \in BOOLEAN : TwinInsert(row, grow)
            \/ \E row \in Row : InsertRefused(row)
            \/ TwinDelete
            \/ TwinUpdate
            \/ TwinUpdateFails
            \/ \E match \in Predicates, column \in Columns :
                  \E value \in Values(column) : UpdateRefused(match, column, value)
            \/ DiskOnly

TwinSpec == TwinInit /\ [][TwinNext]_twins
----------------------------------------------------------------------------
\* Between statements both tables hold the same rows, as often, unless the disk
\* ran into a limit of its own or memory was made to hold a value of a UNIQUE
\* column twice by an UPDATE that the disk refuses.
SameRows ==
    op = Idle /\ ~apart =>
       memory = [row \in {Rows[i].row : i \in DOMAIN Rows} |-> Copies(row, Rows)]
=============================================================================
