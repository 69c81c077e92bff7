----------------------------- MODULE Durability -----------------------------
(***************************************************************************)
(* What src/src/storage/disk_storage.cpp leaves in the file of a database  *)
(* while statements run on one table with a UNIQUE column `key`: changed   *)
(* pages stay in the buffer pool until they are evicted, a DELETE has ended*)
(* or the process shuts down; the catalog page and new pages are written   *)
(* at once.  The process may die between any two page writes, and page 0   *)
(* may refuse the table: it is full or cannot be written.  The index on    *)
(* `key` is a tree of one page; heap and tree share the page numbers.      *)
(***************************************************************************)
EXTENDS HeapPages

CONSTANTS Key, Text, Null,
          Inserts,   \* bound: the rows that are inserted; UPDATE makes others of them
          MaxPages   \* pages before the disk is full

Row == [key : Key \cup {Null}, text : Text]

ASSUME DurabilityAssumption == /\ Null \notin Key /\ Inserts \subseteq Row
                               /\ Size \in [Row -> Nat \ {0}]
                               /\ MaxPages \in Nat

VARIABLES pool,     \* pages as the buffer pool shows them; page 0 is left out
          file,     \* pages as the file has them
          table,    \* the StoredTable in memory: page list and root of the tree
          stored,   \* the table in the catalog page
          op,       \* the statement that is running
          unlisted, \* history: pages of the table that came with statements
                    \* whose catalog did not reach page 0
          durable,  \* history: rows untouched since the pool was last flushed
          gone      \* history: row ids that successful DELETEs removed

vars == <<pool, file, table, stored, op, unlisted, durable, gone>>

Idle == [kind |-> "idle"]
NoRoot == 0
Leaf(map) == [leaf |-> map]
IsLeaf(image) == "leaf" \in DOMAIN image

RowsOf(pgs, ids) == LET found == ScannedIds(pgs, ids)
                    IN  [i \in DOMAIN found |-> [id  |-> found[i],
                                                 row |-> Slot(pgs, found[i]).rec]]
Rows == RowsOf(pool, table.ids)

\* load_page and read_node refuse a page that has never been written.
Readable(p) == pool[p] # ZeroPage
TableReadable == \A p \in ToSet(table.ids) : Readable(p)
IndexReadable == \A p \in {table.root} \ {NoRoot} : Readable(p)
Entries == IF table.root = NoRoot THEN [k \in {} |-> <<0, 0>>] ELSE pool[table.root].leaf

With(map, key, id) == [k \in DOMAIN map \cup {key} |-> IF k = key THEN id ELSE map[k]]

\* A page write of a statement, or the error it stops with: a page cannot be
\* read, a key is there already, the disk is full.
Write(p, image) == [page |-> p, image |-> image]
Error == Write(0, ZeroPage)
Fails(write) == write = Error \/ write.page > MaxPages

\* Fault: the number is that of the statement's first new page.
NextPageStale(pgs) == Len(pool) + 1

\* The page that allocate_page returns.
NextPage(pgs) == Len(pgs) + 1

\* The writes that take the entry of key old out of the tree and then put in
\* one of key new, where pgs are the pages at that time.
EntryWrites(pgs, old, new, id) ==
    LET kept == Restrict(Entries, DOMAIN Entries \ {old})
        page == IF table.root = NoRoot THEN NextPage(pgs) ELSE table.root
    IN  IF {old, new} # {Null} /\ ~IndexReadable THEN <<Error>>
        ELSE (IF old = Null \/ table.root = NoRoot THEN <<>> ELSE <<Write(page, Leaf(kept))>>)
             \o (IF new = Null THEN <<>> ELSE <<Write(page, Leaf(With(kept, new, id)))>>)

\* The writes of an insertion into the heap.
HeapWrites(ids, row) ==
    IF TooLarge(row) THEN <<Error>>
    ELSE LET new == Inserted(pool, ids, row)
         IN  <<Write(new.id[1], new.pages[new.id[1]])>>

InsertWrites(row) ==
    LET new == Inserted(pool, table.ids, row)
    IN  HeapWrites(table.ids, row) \o EntryWrites(new.pages, Null, row.key, new.id)

DeleteWrites(h) ==
    EntryWrites(pool, h.row.key, Null, h.id)
      \o <<Write(h.id[1], Deleted(pool, h.id)[h.id[1]])>>

\* A row that must move is inserted before the old one is deleted.
UpdateWrites(ids, h, row) ==
    LET new   == Updated(pool, ids, h.id, row)
        taken == row.key \notin {h.row.key, Null} /\ (~IndexReadable \/ row.key \in DOMAIN Entries)
    IN  IF taken THEN <<Error>>
        ELSE (IF new.id = h.id THEN <<>> ELSE HeapWrites(ids, row))
             \o <<Write(h.id[1], new.pages[h.id[1]])>>
             \o EntryWrites(new.pages, h.row.key, row.key, new.id)
----------------------------------------------------------------------------
Init == /\ pool = <<>> /\ file = <<>>
        /\ table = [ids |-> <<>>, root |-> NoRoot]
        /\ stored = table
        /\ op = Idle
        /\ unlisted = {} /\ durable = {} /\ gone = {}

\* INSERT passes its scan and the look at the index.
BeginInsert(row) ==
    /\ row.key # Null => IndexReadable /\ row.key \notin DOMAIN Entries
    /\ op' = [kind   |-> "insert", todo |-> <<>>, writes |-> InsertWrites(row),
              ids    |-> Inserted(pool, table.ids, row).ids]
    /\ UNCHANGED <<pool, file, table, stored, unlisted, durable, gone>>

\* The scan of a DELETE, or of an UPDATE that passes its uniqueness test.
Matching(match) ==
    LET rows == Rows
        upTo[i \in 0 .. Len(rows)] ==
          IF i = 0 THEN <<>>
          ELSE IF rows[i].row \in match THEN Append(upTo[i - 1], rows[i]) ELSE upTo[i - 1]
    IN  upTo[Len(rows)]

BeginDelete(match) ==
    /\ \E found \in {Matching(match)} :
          op' = [kind |-> "delete", todo |-> found, writes |-> <<>>, ids |-> table.ids,
                 hits |-> {h.id : h \in ToSet(found)}]
    /\ UNCHANGED <<pool, file, table, stored, unlisted, durable, gone>>

Conflicts(found, value) ==
    /\ value # Null
    /\ \/ Len(found) > 1
       \/ \E h \in ToSet(Rows) : h.row.key = value /\ found # <<h>>

BeginUpdate(match, column, value) ==
    /\ \E found \in {Matching(match)} :
          /\ column = "key" => ~Conflicts(found, value)
          /\ op' = [kind |-> "update", todo |-> found, writes |-> <<>>, ids |-> table.ids,
                    match |-> match, column |-> column, value |-> value]
    /\ UNCHANGED <<pool, file, table, stored, unlisted, durable, gone>>

Untouched(id) == {h \in durable : h.id # id}

DeleteRow ==
    /\ op.kind = "delete"
    /\ op.writes = <<>> /\ op.todo # <<>>
    /\ op' = [op EXCEPT !.todo = Tail(@), !.writes = DeleteWrites(Head(op.todo))]
    /\ durable' = Untouched(Head(op.todo).id)
    /\ UNCHANGED <<pool, file, table, stored, unlisted, gone>>

NewRow(h) == [h.row EXCEPT ![op.column] = op.value]

\* Fault: the statement walks the heap that it changes, so that it comes to a
\* changed row again while the row matches.
UpdateRowRevisits ==
    /\ op.kind = "update"
    /\ op.writes = <<>> /\ op.todo # <<>>
    /\ LET h   == Head(op.todo)
           new == Updated(pool, op.ids, h.id, NewRow(h))
       IN  op' = [op EXCEPT !.todo = Tail(@) \o IF NewRow(h) \in op.match
                                                 THEN <<[id |-> new.id, row |-> NewRow(h)]>>
                                                 ELSE <<>>,
                            !.writes = UpdateWrites(op.ids, h, NewRow(h)),
                            !.ids = new.ids]
    /\ durable' = Untouched(Head(op.todo).id)
    /\ UNCHANGED <<pool, file, table, stored, unlisted, gone>>

UpdateRow ==
    /\ op.kind = "update"
    /\ op.writes = <<>> /\ op.todo # <<>>
    /\ LET h == Head(op.todo)
       IN  op' = [op EXCEPT !.todo = Tail(@),
                            !.writes = UpdateWrites(op.ids, h, NewRow(h)),
                            !.ids = Updated(pool, op.ids, h.id, NewRow(h)).ids]
    /\ durable' = Untouched(Head(op.todo).id)
    /\ UNCHANGED <<pool, file, table, stored, unlisted, gone>>

\* The next page is changed in the pool.  A new page is in the file at once, as
\* zeros; a new root is known to the table.
WritePage ==
    /\ op # Idle
    /\ op.writes # <<>>
    /\ ~Fails(Head(op.writes))
    /\ \E w \in {Head(op.writes)} :
          /\ IF w.page \in DOMAIN pool
             THEN pool' = [pool EXCEPT ![w.page] = w.image] /\ UNCHANGED file
             ELSE pool' = Append(pool, w.image) /\ file' = Append(file, ZeroPage)
          /\ table' = IF IsLeaf(w.image) THEN [table EXCEPT !.root = w.page] ELSE table
    /\ op' = [op EXCEPT !.writes = Tail(@)]
    /\ UNCHANGED <<stored, unlisted, durable, gone>>

\* The statement returns an error; what it has changed so far stays.
Fail ==
    /\ op # Idle
    /\ op.writes # <<>>
    /\ Fails(Head(op.writes))
    /\ op' = Idle
    /\ UNCHANGED <<pool, file, table, stored, unlisted, durable, gone>>

\* The end of an INSERT or UPDATE: store_catalog, which flushes no page.
Store ==
    /\ op.kind \in {"insert", "update"}
    /\ op.writes = <<>> /\ op.todo = <<>>
    /\ table' = [table EXCEPT !.ids = op.ids]
    /\ stored' = table'
    /\ unlisted' = {}
    /\ op' = Idle
    /\ UNCHANGED <<pool, file, durable, gone>>

\* store_catalog fails, and the statement with it: the catalog is too large for
\* page 0, or the write or the flush reports an error.  Memory keeps the new
\* pages.  Page 0 has the old table still, or the new one: then what the
\* statement leaves is what Store leaves.
StoreFails ==
    /\ op.kind \in {"insert", "update"}
    /\ op.writes = <<>> /\ op.todo = <<>>
    /\ table' = [table EXCEPT !.ids = op.ids]
    /\ unlisted' = unlisted \cup (ToSet(op.ids) \ ToSet(table.ids))
    /\ op' = Idle
    /\ UNCHANGED <<pool, file, stored, durable, gone>>

\* Fault: flush_all returns after the first page.
FlushedFirst == IF pool = <<>> THEN <<>> ELSE [file EXCEPT ![1] = pool[1]]

\* The file after flush_all.
Flushed == pool

\* Fault: a DELETE returns without flushing.
FinishDeleteUnflushed ==
    /\ op.kind = "delete"
    /\ op.writes = <<>> /\ op.todo = <<>>
    /\ gone' = gone \cup op.hits
    /\ op' = Idle
    /\ UNCHANGED <<pool, file, table, stored, unlisted, durable>>

FinishDelete ==
    /\ op.kind = "delete"
    /\ op.writes = <<>> /\ op.todo = <<>>
    /\ file' = Flushed
    /\ durable' = {h \in ToSet(Rows) : h.id[1] \notin unlisted}
    /\ gone' = gone \cup op.hits
    /\ op' = Idle
    /\ UNCHANGED <<pool, table, stored, unlisted>>

\* The flush of a DELETE fails, and the DELETE with it.  The pages that it wrote
\* first are WriteBack steps.
FlushFails ==
    /\ op.kind = "delete"
    /\ op.writes = <<>> /\ op.todo = <<>>
    /\ op' = Idle
    /\ UNCHANGED <<pool, file, table, stored, unlisted, durable, gone>>

\* A frame is given up and its page written; any fetch may need the frame.
WriteBack(p) ==
    /\ pool[p] # file[p]
    /\ file' = [file EXCEPT ![p] = pool[p]]
    /\ UNCHANGED <<pool, table, stored, op, unlisted, durable, gone>>

\* A clean shutdown, and open.
Restart ==
    /\ op = Idle
    /\ file' = Flushed
    /\ pool' = file'
    /\ table' = stored
    /\ unlisted' = {}
    /\ durable' = ToSet(RowsOf(pool, stored.ids))
    /\ UNCHANGED <<stored, op, gone>>

\* The process dies; open starts from the file.
Crash ==
    /\ pool' = file
    /\ table' = stored
    /\ unlisted' = {}
    /\ op' = Idle
    /\ UNCHANGED <<file, stored, durable, gone>>

\* A statement starts when none is running, and scans the table.
Begin ==
    /\ op = Idle
    /\ TableReadable
    /\ \/ \E row \in Inserts : BeginInsert(row)
       \/ \E match \in SUBSET {h.row : h \in ToSet(Rows)} :
             \/ BeginDelete(match)
             \/ \E value \in Text : BeginUpdate(match, "text", value)
             \/ \E value \in Key \cup {Null} : BeginUpdate(match, "key", value)

\* What the running statement does next.
Step == \/ DeleteRow \/ UpdateRow \/ WritePage \/ Fail
        \/ Store \/ StoreFails \/ FinishDelete \/ FlushFails

Next == \/ Begin
        \/ Step
        \/ \E p \in DOMAIN pool : WriteBack(p)
        \/ Restart
        \/ Crash

\* A statement that has started runs on: there is one thread and it never waits.
Spec == Init /\ [][Next]_vars /\ WF_vars(Step)
----------------------------------------------------------------------------
\* Catalog page and pool name only pages of the file, the tree's page is none
\* of the heap's, and a listed page is of the kind that it is listed as or has
\* never reached the file.
OwnsPage(t, p) == IF p = t.root THEN p \notin ToSet(t.ids) ELSE p \in ToSet(t.ids)

TypeOK ==
    /\ Len(pool) = Len(file) /\ Len(file) <= MaxPages
    /\ \A t \in {table, stored} :
          /\ ToSet(t.ids) \subseteq DOMAIN file
          /\ t.root \in (DOMAIN file \cup {NoRoot}) \ ToSet(t.ids)
          /\ \A p \in ToSet(t.ids) : ~IsLeaf(pool[p]) /\ ~IsLeaf(file[p])
          /\ t.root # NoRoot => file[t.root] = ZeroPage \/ IsLeaf(file[t.root])
    /\ op = Idle \/ op.kind \in {"insert", "update", "delete"}

\* A row that was in the table at a successful DELETE or clean shutdown and
\* that no statement has touched since is found after the process dies,
\* whenever that is and whichever pages have reached the file: its page is
\* listed, can be read, and has the row in its slot.  A DELETE stores no catalog:
\* rows on a page that came with a statement which could not store it, and so
\* reported an error, are promised nothing until a later statement has stored it.
CheckpointKept ==
    \A h \in durable : /\ h.id[1] \in ToSet(stored.ids)
                       /\ Live(file[h.id[1]], h.id[2])
                       /\ Slot(file, h.id).rec = h.row

\* A row that a successful DELETE removed does not come back, through no crash
\* and no reuse of its place.
DeletedForGood ==
    \A id \in gone : ~Live(file[id[1]], id[2]) /\ ~Live(pool[id[1]], id[2])

\* Every statement ends, with success or an error, also an UPDATE whose new
\* rows match its own condition and move to the end of the heap it walks.
StatementsEnd == op # Idle ~> op = Idle
=============================================================================
