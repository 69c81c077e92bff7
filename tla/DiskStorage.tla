---------------------------- MODULE DiskStorage ----------------------------
(***************************************************************************)
(* src/src/storage/disk_storage.cpp on one table with a nullable INT       *)
(* column `key` and a VARCHAR column `text`: rows in a heap, indexes on    *)
(* `key`, the table's entry in memory and the one in the catalog page.     *)
(* UPDATE and DELETE go row by row and may stop at a row; the heap is      *)
(* HeapPages, an index is the map that KeyMap promises.  A page that cannot*)
(* be read or written ends a statement between two of its writes; the      *)
(* process ends by a clean shutdown.                                       *)
(***************************************************************************)
EXTENDS HeapPages

CONSTANTS Key, Text, Null,
          KeyUnique,    \* key is UNIQUE (or PRIMARY KEY): an automatic index
          KeyNullable,  \* FALSE for NOT NULL and PRIMARY KEY
          TextUnique,   \* text is UNIQUE, which a scan enforces
          IoErrors,     \* statements may be interrupted by an I/O error
          CatalogRoom,  \* page and index entries that fit in the catalog page
          MaxPages,     \* bound on heap pages
          MaxIndexes,   \* bound on indexes
          MaxHeight     \* bound on the height of a tree

Row == [key : Key \cup {Null}, text : Text]

ASSUME StorageAssumption == /\ Null \notin Key \cup Text
                            /\ Size \in [Row -> Nat \ {0}]
                            /\ {KeyUnique, KeyNullable, TextUnique, IoErrors} \subseteq BOOLEAN
                            /\ {CatalogRoom, MaxPages, MaxIndexes, MaxHeight} \subseteq Nat

VARIABLES pages,    \* heap pages of the file, as the buffer pool shows them
          table,    \* the StoredTable in memory, with what its trees hold
          stored,   \* the table in the catalog page: page list, tree heights,
                    \* and an index that only the page has
          op,       \* the UPDATE or DELETE that is running
          diverged, \* history: a statement failed and left rows, indexes and
                    \* catalog page with different tables
          misled    \* history: the row at which an UPDATE was interrupted
                    \* between heap and indexes, and rows that UPDATEs came to
                    \* while the catalog page had an index that memory had not

vars == <<pages, table, stored, op, diverged, misled>>

Idle == [kind |-> "idle"]

\* The rows and ids a scan of page list ids yields.
Scan(pgs, ids) ==
    LET found == ScannedIds(pgs, ids)
    IN  [i \in DOMAIN found |-> [id |-> found[i], row |-> Slot(pgs, found[i]).rec]]
Rows == Scan(pages, table.page_ids)

\* A tree is what find() shows; its root moves exactly when its height grows.
EmptyIndex == [map |-> [k \in {} |-> <<0, 0>>], height |-> 0]

Taller(index, grow) == IF index.height = 0 THEN 1
                       ELSE IF grow THEN index.height + 1 ELSE index.height
CanGrow(grow) == grow => \A i \in DOMAIN table.indexes : table.indexes[i].height < MaxHeight

\* BPlusTree::insert and erase behind the NULL tests of their callers.
Put(index, k, id, grow) ==
    IF k = Null THEN index
    ELSE [map    |-> [x \in DOMAIN index.map \cup {k} |-> IF x = k THEN id ELSE index.map[x]],
          height |-> Taller(index, grow)]
Erase(index, k) == [index EXCEPT !.map = Restrict(@, DOMAIN @ \ {k})]

\* What store_catalog writes, and whether it fits in the page.
Catalog(t) == [page_ids |-> t.page_ids,
               heights  |-> [i \in DOMAIN t.indexes |-> t.indexes[i].height],
               revoked  |-> <<>>]
CatalogFits(t) == Len(t.page_ids) + Len(t.indexes) <= CatalogRoom

\* An I/O error may interrupt a statement as long as none has left its traces.
Interrupted == IoErrors /\ ~diverged

\* store_catalog(t) at the end of a statement, which keeps its changes in memory
\* when it fails: the catalog is full, or the write or the flush of page 0 reports
\* an error and the page is the old one.  If it is the new one all the same, the
\* statement leaves what it leaves when it succeeds.
Store(t) == \/ CatalogFits(t) /\ stored' = Catalog(t) /\ UNCHANGED diverged
            \/ /\ CatalogFits(t) => Interrupted
               /\ diverged' = (diverged \/ stored # Catalog(t))
               /\ UNCHANGED stored

\* Some index has key k already.
Indexed(k) == \E i \in DOMAIN table.indexes : k \in DOMAIN table.indexes[i].map

Unique(column) == IF column = "key" THEN KeyUnique ELSE TextUnique
Values(column) == IF column = "text" THEN Text
                  ELSE IF KeyNullable THEN Key \cup {Null} ELSE Key
----------------------------------------------------------------------------
Init == /\ pages = <<>>
        /\ table = [page_ids |-> <<>>,
                    indexes  |-> IF KeyUnique THEN <<EmptyIndex>> ELSE <<>>]
        /\ stored = Catalog(table)
        /\ op = Idle
        /\ diverged = FALSE
        /\ misled = {}

\* INSERT passes validate_row, the scan for unique text and the index lookups.
Acceptable(row) ==
    /\ row.key \in Values("key")
    /\ TextUnique => \A i \in DOMAIN Rows : Rows[i].row.text # row.text
    /\ ~Indexed(row.key)

\* TableHeap::insert has room for the row, or a page for it.
CanInsert(row) == /\ ~TooLarge(row)
                  /\ LastPageFits(pages, table.page_ids, row) \/ Len(pages) < MaxPages

\* Fault: the catalog is stored before the page list is assigned.
InsertStoresEarly(row, grow) ==
    LET new == Inserted(pages, table.page_ids, row)
    IN  /\ op = Idle
        /\ Acceptable(row)
        /\ CanInsert(row)
        /\ CanGrow(grow)
        /\ pages' = new.pages
        /\ table' = [page_ids |-> new.ids,
                     indexes  |-> [i \in DOMAIN table.indexes |->
                                      Put(table.indexes[i], row.key, new.id, grow)]]
        /\ Store([table' EXCEPT !.page_ids = table.page_ids])
        /\ UNCHANGED <<op, misled>>

Insert(row, grow) ==
    LET new == Inserted(pages, table.page_ids, row)
    IN  /\ op = Idle
        /\ Acceptable(row)
        /\ CanInsert(row)
        /\ CanGrow(grow)
        /\ pages' = new.pages
        /\ table' = [page_ids |-> new.ids,
                     indexes  |-> [i \in DOMAIN table.indexes |->
                                      Put(table.indexes[i], row.key, new.id, grow)]]
        /\ Store(table')
        /\ UNCHANGED <<op, misled>>

\* BPlusTree::insert that stops half way, as in KeyMap: entries may be lost,
\* and the root the table knows stays.
HalfPut(index, k, id) ==
    LET full == Put(index, k, id, FALSE).map
    IN  IF index.height = 0 THEN {index}
        ELSE {[index EXCEPT !.map = Restrict(full, D)] : D \in SUBSET DOMAIN full}

\* The indexes before i are done, index i has stopped, the others wait.
Stopped(done, i, half) == [j \in DOMAIN table.indexes |->
                              IF j < i THEN done[j] ELSE IF j = i THEN half ELSE table.indexes[j]]

\* INSERT that finds a new page but cannot fetch it, or gets its row into the
\* heap and not into every index; the page list of the heap is dropped.
InsertInterrupted(row) ==
    /\ Interrupted
    /\ op = Idle
    /\ Acceptable(row)
    /\ CanInsert(row)
    /\ \/ /\ UNCHANGED <<table, diverged>>
          /\ ~LastPageFits(pages, table.page_ids, row)
          /\ pages' = Append(pages, ZeroPage)
       \/ /\ row.key # Null
          /\ \E new \in {Inserted(pages, table.page_ids, row)}, i \in DOMAIN table.indexes :
                /\ pages' = new.pages
                /\ \E half \in HalfPut(table.indexes[i], row.key, new.id) :
                      table' = [table EXCEPT !.indexes =
                                   Stopped([j \in DOMAIN @ |-> Put(@[j], row.key, new.id, FALSE)],
                                           i, half)]
          /\ diverged' = TRUE
    /\ UNCHANGED <<stored, op, misled>>

\* CREATE INDEX fills a new tree from a scan and stops at a duplicate.
Keyed == {i \in DOMAIN Rows : Rows[i].row.key # Null}
Built == [map    |-> [k \in {Rows[i].row.key : i \in Keyed} |->
                         Rows[CHOOSE i \in Keyed : Rows[i].row.key = k].id],
          height |-> IF Keyed = {} THEN 0 ELSE 1]
CanBuild == \A i, j \in Keyed : Rows[i].row.key = Rows[j].row.key => i = j

WithIndex == [table EXCEPT !.indexes = Append(@, Built)]

\* When the catalog is full memory takes the index back.
CreateIndex ==
    /\ op = Idle
    /\ Len(table.indexes) < MaxIndexes
    /\ CanBuild
    /\ CatalogFits(WithIndex)
    /\ table' = WithIndex
    /\ stored' = Catalog(WithIndex)
    /\ UNCHANGED <<pages, op, diverged, misled>>

\* store_catalog reports an error after page 0 was written: memory takes back
\* an index that the page lists.
CreateIndexRevoked ==
    /\ Interrupted
    /\ op = Idle
    /\ Len(table.indexes) < MaxIndexes
    /\ CanBuild
    /\ CatalogFits(WithIndex)
    /\ stored' = [Catalog(table) EXCEPT !.revoked = <<Built>>]
    /\ diverged' = TRUE
    /\ UNCHANGED <<pages, table, op, misled>>

\* A statement that has scanned the table and walks the scan, to change the rows
\* whose values are in match; todo holds their places in the scan until they are
\* changed.  It works on its own copy of the page list.
Running(kind, match, column, value) ==
    [kind    |-> kind,
     scanned |-> Rows,
     todo    |-> {i \in DOMAIN Rows : Rows[i].row \in match},
     ids     |-> table.page_ids,
     match   |-> match,
     column  |-> column,
     value   |-> value]

\* The row the loop comes to next, and the statement after that row.
NextRow == op.scanned[Min(op.todo)]
PastRow == [op EXCEPT !.todo = @ \ {Min(@)}]

BeginDelete(match) ==
    /\ op = Idle
    /\ op' = Running("delete", match, "key", Null)
    /\ UNCHANGED <<pages, table, stored, diverged, misled>>

\* Index entries first, then the record.
DeleteRow ==
    /\ op.kind = "delete"
    /\ op.todo # {}
    /\ LET h == NextRow
       IN  /\ pages' = Deleted(pages, h.id)
           /\ table' = [table EXCEPT !.indexes =
                           [i \in DOMAIN @ |-> Erase(@[i], h.row.key)]]
    /\ op' = PastRow
    /\ UNCHANGED <<stored, diverged, misled>>

\* An index cannot be changed after those before it, or the record cannot.
DeleteInterrupted ==
    /\ Interrupted
    /\ op.kind = "delete"
    /\ op.todo # {}
    /\ \E i \in 1 .. Len(table.indexes) + 1 :
          table' = [table EXCEPT !.indexes =
                       [j \in DOMAIN @ |-> IF j < i THEN Erase(@[j], NextRow.row.key)
                                          ELSE @[j]]]
    /\ diverged' = (table' # table)
    /\ op' = Idle
    /\ UNCHANGED <<pages, stored, misled>>

FinishDelete ==
    /\ op.kind = "delete"
    /\ op.todo = {}
    /\ op' = Idle
    /\ UNCHANGED <<pages, table, stored, diverged, misled>>

\* Fault: only rows that are not updated count as conflicts.
UpdateConflictsOthersOnly(match, column, value) ==
    /\ Unique(column) /\ value # Null
    /\ \E i \in DOMAIN Rows : Rows[i].row \notin match /\ Rows[i].row[column] = value

\* The check of update_where before it changes anything.  A row that holds the
\* value conflicts unless it is the one row to update.
UpdateConflicts(match, column, value) ==
    LET hits == {i \in DOMAIN Rows : Rows[i].row \in match}
    IN  /\ Unique(column) /\ value # Null
        /\ \/ Cardinality(hits) > 1
           \/ \E i \in DOMAIN Rows : Rows[i].row[column] = value /\ hits # {i}

BeginUpdate(match, column, value) ==
    /\ op = Idle
    /\ ~UpdateConflicts(match, column, value)
    /\ op' = Running("update", match, column, value)
    /\ UNCHANGED <<pages, table, stored, diverged, misled>>

NewRow(h) == [h.row EXCEPT ![op.column] = op.value]

\* What stops an update at row h: an index has the new key, or the row has to
\* move and no page can hold it.
Stuck(h) ==
    \/ NewRow(h).key \notin {h.row.key, Null} /\ Indexed(NewRow(h).key)
    \/ ~StaysInPlace(pages, h.id, NewRow(h)) /\ TooLarge(NewRow(h))

\* Faults: the entry is left alone while the key stays, the old one is kept.
ReindexedWhenChanged(index, old, new, id, grow) ==
    IF old = new THEN index ELSE Put(Erase(index, old), new, id, grow)
ReindexedKeepingOld(index, old, new, id, grow) == Put(index, new, id, grow)

Reindexed(index, old, new, id, grow) == Put(Erase(index, old), new, id, grow)

UpdateRow(grow) ==
    /\ op.kind = "update"
    /\ op.todo # {}
    /\ CanGrow(grow)
    /\ LET h   == NextRow
           new == Updated(pages, op.ids, h.id, NewRow(h))
       IN  /\ ~Stuck(h)
           /\ Len(new.pages) <= MaxPages
           /\ pages' = new.pages
           /\ table' = [table EXCEPT !.indexes =
                           [i \in DOMAIN @ |->
                               Reindexed(@[i], h.row.key, NewRow(h).key, new.id, grow)]]
           /\ op' = [PastRow EXCEPT !.ids = new.ids]
           /\ misled' = misled \cup IF stored.revoked = <<>> THEN {} ELSE {h.id}
    /\ UNCHANGED <<stored, diverged>>

\* An early return, or an I/O error before the row is changed: the rows changed
\* so far stay changed, the page list of the statement is dropped and the
\* catalog is not stored.
UpdateFails ==
    /\ op.kind = "update"
    /\ op.todo # {}
    /\ Stuck(NextRow) \/ Interrupted
    /\ op' = Idle
    /\ diverged' = (diverged \/ op.ids # table.page_ids \/ stored # Catalog(table))
    /\ UNCHANGED <<pages, table, stored, misled>>

\* The row has moved and the old one cannot be deleted, or the row is changed
\* and an index cannot give up its old key or take the new one.
UpdateInterrupted ==
    /\ Interrupted
    /\ op.kind = "update"
    /\ op.todo # {}
    /\ ~Stuck(NextRow)
    /\ \E h \in {NextRow} : \E new \in {Updated(pages, op.ids, h.id, NewRow(h))} :
          /\ Len(new.pages) <= MaxPages
          /\ \/ /\ new.id # h.id
                /\ pages' = Inserted(pages, op.ids, NewRow(h)).pages
                /\ UNCHANGED <<table, misled>>
             \/ /\ pages' = new.pages
                /\ misled' = {new.id}
                /\ \E i \in DOMAIN table.indexes :
                      LET index  == table.indexes[i]
                          key    == NewRow(h).key
                          unlost == IF h.row.key = Null THEN {} ELSE {index}
                          unput  == IF key = Null THEN {}
                                    ELSE HalfPut(Erase(index, h.row.key), key, new.id)
                      IN  \E half \in unlost \cup unput :
                             table' = [table EXCEPT !.indexes =
                                Stopped([j \in DOMAIN @ |->
                                           Reindexed(@[j], h.row.key, key, new.id, FALSE)],
                                        i, half)]
    /\ op' = Idle
    /\ diverged' = TRUE
    /\ UNCHANGED stored

\* Fault: the page list of the statement is not taken over.
FinishUpdateKeepsPages ==
    /\ op.kind = "update"
    /\ op.todo = {}
    /\ Store(table)
    /\ op' = Idle
    /\ UNCHANGED <<pages, table, misled>>

FinishUpdate ==
    /\ op.kind = "update"
    /\ op.todo = {}
    /\ table' = [table EXCEPT !.page_ids = op.ids]
    /\ Store(table')
    /\ op' = Idle
    /\ UNCHANGED <<pages, misled>>

\* Shutdown flushes every page; open() takes the table from the catalog page, and
\* with it an index that memory had taken back.  An old root still leads to some
\* of the keys, no root to none.
Restart ==
    /\ op = Idle
    /\ \E keep \in SUBSET Key :
         table' = [page_ids |-> stored.page_ids,
                   indexes  |-> [i \in DOMAIN table.indexes |->
                      LET index == table.indexes[i]
                      IN  IF stored.heights[i] = index.height THEN index
                          ELSE [map    |-> Restrict(index.map,
                                              IF stored.heights[i] = 0 THEN {}
                                              ELSE keep \cap DOMAIN index.map),
                                height |-> stored.heights[i]]] \o stored.revoked]
    /\ stored' = Catalog(table')
    /\ UNCHANGED <<pages, op, diverged, misled>>

\* Predicates tell rows apart by their values.
Predicates == SUBSET {Rows[i].row : i \in DOMAIN Rows}

Next == \/ \E row \in Row, grow \in BOOLEAN : Insert(row, grow)
        \/ \E row \in Row : InsertInterrupted(row)
        \/ CreateIndex
        \/ CreateIndexRevoked
        \/ \E match \in Predicates : BeginDelete(match)
        \/ DeleteRow
        \/ DeleteInterrupted
        \/ FinishDelete
        \/ \E match \in Predicates, column \in {"key", "text"} :
              \E value \in Values(column) : BeginUpdate(match, column, value)
        \/ \E grow \in BOOLEAN : UpdateRow(grow)
        \/ UpdateFails
        \/ UpdateInterrupted
        \/ FinishUpdate
        \/ Restart

Spec == Init /\ [][Next]_vars
----------------------------------------------------------------------------
\* The page list in use: that of the running statement, if any.
CurrentIds == IF op = Idle THEN table.page_ids ELSE op.ids
Current == Scan(pages, CurrentIds)

\* An index never leads a lookup to a row of the table with another key, where
\* the filter above an index scan would drop the wrong row and answer nothing.
\* This holds after failed statements, interrupted ones and restarts, too.  Two
\* kinds of rows may be found under an old key: the row at which an UPDATE was
\* interrupted, and, after a restart, rows that were updated in place while the
\* catalog page had an index that a failed CREATE INDEX had taken back in memory.
EntriesSound ==
    \A i \in DOMAIN table.indexes : \A j \in DOMAIN Current :
       \A k \in DOMAIN table.indexes[i].map :
          table.indexes[i].map[k] = Current[j].id =>
             Current[j].row.key = k \/ Current[j].id \in misled

\* Between any two row changes every index holds exactly the non-null keys of
\* the table, with the row ids the rows have now: index scans and sequential
\* scans answer alike, and no two rows share an indexed key.
IndexesMatchHeap ==
    ~diverged =>
       \A i \in DOMAIN table.indexes :
          LET map == table.indexes[i].map
          IN  /\ DOMAIN map = {Current[j].row.key : j \in DOMAIN Current} \ {Null}
              /\ \A j \in DOMAIN Current :
                    Current[j].row.key # Null => map[Current[j].row.key] = Current[j].id

\* A UNIQUE text column holds no value twice, also inside an UPDATE, as long as no
\* I/O error has stopped a statement between two of its writes.
TextsUnique ==
    TextUnique /\ (IoErrors => ~diverged) =>
       \A i, j \in DOMAIN Current : Current[i].row.text = Current[j].row.text => i = j

\* Between statements a clean restart finds the table that memory holds.
CatalogCurrent == op = Idle /\ ~diverged => stored = Catalog(table)

Copies(row, hs) == Cardinality({i \in DOMAIN hs : hs[i].row = row})

\* What the finished statement should leave of a row it scanned.
Expected(h) == IF h.row \notin op.match THEN {h.row}
               ELSE IF op.kind = "delete" THEN {} ELSE {NewRow(h)}
ExpectedCopies(row) ==
    Cardinality({i \in DOMAIN op.scanned : row \in Expected(op.scanned[i])})

\* An UPDATE or DELETE that reports success has changed each matching row once
\* and no other, however the rows moved while it walked its scan; one that
\* fails, wherever it stops, has left the rows alone that it does not match.
StatementExact ==
    [][op # Idle /\ op' = Idle =>
          \A after \in {Rows'} :
             /\ op.todo = {} => \A row \in Row : ExpectedCopies(row) = Copies(row, after)
             /\ \A i \in DOMAIN op.scanned :
                   op.scanned[i].row \in op.match \/ op.scanned[i] \in ToSet(after)]_vars

\* README.md: "An update keeps its row ID when the replacement fits and
\* relocates the row when it must grow".  So no UPDATE makes a row disappear.
UpdateKeepsRows ==
    [][op.kind = "update" /\ op' = Idle => Len(Rows') = Len(op.scanned)]_vars

\* README.md: "Explicit and automatically created indexes are unique".  So no
\* two rows of a table with an index share a key.
IndexesUnique ==
    table.indexes # <<>> =>
       \A i, j \in DOMAIN Current :
          Current[i].row.key = Current[j].row.key /\ Current[i].row.key # Null => i = j
=============================================================================
