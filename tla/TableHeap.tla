----------------------------- MODULE TableHeap -----------------------------
(***************************************************************************)
(* The operations of src/src/storage/table_heap.cpp.  `pages` is what      *)
(* the buffer pool shows (page 0, the catalog, is left out), so a page     *)
(* that cannot be fetched is a step that fails half way.                   *)
(***************************************************************************)
EXTENDS HeapPages

CONSTANTS Row,       \* rows a client stores
          MaxPages   \* bound: pages 1 .. MaxPages of the file

ASSUME HeapAssumption == /\ Size \in [Row -> Nat \ {0}]
                         /\ MaxPages \in Nat

VARIABLES pages,    \* sequence of page images, page 1 first
          page_ids  \* TableHeap::page_ids_, pages of this table in order

vars == <<pages, page_ids>>

RowIds == (1 .. MaxPages) \X (1 .. MaxSlots)
----------------------------------------------------------------------------
Init == pages = <<>> /\ page_ids = <<>>

CanInsert(row) == /\ ~TooLarge(row)
                  /\ LastPageFits(pages, page_ids, row) \/ Len(pages) < MaxPages

Insert(row) ==
    LET new == Inserted(pages, page_ids, row)
    IN  /\ CanInsert(row)
        /\ pages' = new.pages
        /\ page_ids' = new.ids

\* Fault: the page is listed before it is known to be usable.
InsertLeaksListed(row) ==
    /\ ~TooLarge(row)
    /\ ~LastPageFits(pages, page_ids, row)
    /\ Len(pages) < MaxPages
    /\ pages' = Append(pages, ZeroPage)
    /\ page_ids' = Append(page_ids, Len(pages'))

\* The new page is allocated and cannot be fetched: it belongs to nobody.
InsertLeaks(row) ==
    /\ ~TooLarge(row)
    /\ ~LastPageFits(pages, page_ids, row)
    /\ Len(pages) < MaxPages
    /\ pages' = Append(pages, ZeroPage)
    /\ UNCHANGED page_ids

Delete(id) ==
    /\ id \in LiveIds(pages, page_ids)
    /\ pages' = Deleted(pages, id)
    /\ UNCHANGED page_ids

Update(id, row) ==
    LET new == Updated(pages, page_ids, id, row)
    IN  /\ id \in LiveIds(pages, page_ids)
        /\ StaysInPlace(pages, id, row) \/ CanInsert(row)
        /\ pages' = new.pages
        /\ page_ids' = new.ids

\* The relocated row is in, the old one cannot be fetched any more to be
\* deleted: the update reports an error and both rows are there.
UpdateDuplicates(id, row) ==
    LET new == Inserted(pages, page_ids, row)
    IN  /\ id \in LiveIds(pages, page_ids)
        /\ ~StaysInPlace(pages, id, row)
        /\ CanInsert(row)
        /\ pages' = new.pages
        /\ page_ids' = new.ids

\* Another table or a tree of the same file takes a page.
OtherAllocates ==
    /\ Len(pages) < MaxPages
    /\ pages' = Append(pages, ZeroPage)
    /\ UNCHANGED page_ids

Next == \/ \E row \in Row : Insert(row) \/ InsertLeaks(row)
        \/ \E id \in RowIds : \/ Delete(id)
                              \/ \E row \in Row : Update(id, row) \/ UpdateDuplicates(id, row)
        \/ OtherAllocates

Spec == Init /\ [][Next]_vars
----------------------------------------------------------------------------
TypeOK == /\ Len(pages) <= MaxPages
          /\ \A p \in DOMAIN pages :
                /\ pages[p].free \in 0 .. PageSpace
                /\ \A s \in SlotsOf(pages[p]) :
                      \/ pages[p].slots[s] = Tombstone
                      \/ /\ pages[p].slots[s].rec \in Row
                         /\ pages[p].slots[s].len = Size[pages[p].slots[s].rec]
          /\ page_ids \in Seq(DOMAIN pages)

\* Every page of the table is a page the heap has written and is listed once:
\* load_page never meets a leaked page, and a scan yields no row twice.
PagesReadable ==
    /\ \A i \in DOMAIN page_ids : pages[page_ids[i]] # ZeroPage
    /\ IsInjective(page_ids)

\* Rows keep their order in a scan while other rows come, move and go: the
\* statements that walk a scan and change rows on the way rely on it.
ScanOrderStable ==
    [][LET before == ScannedIds(pages, page_ids)
           after  == ScannedIds(pages', page_ids')
       IN  \A i, j \in DOMAIN before : \A k, l \in DOMAIN after :
              i < j /\ after[k] = before[i] /\ after[l] = before[j] => k < l]_vars

\* The heap implements the row store; in particular no row id ever names a
\* second row, whatever is deleted, relocated or left half done.
Rows == INSTANCE RowStore WITH
           RowId <- RowIds,
           rows <- [id \in LiveIds(pages, page_ids) |-> Slot(pages, id).rec],
           retired <- {id \in ToSet(page_ids) \X (1 .. MaxSlots) :
                          id[2] \in SlotsOf(pages[id[1]]) /\ ~Live(pages[id[1]], id[2])}
RowStoreSpec == Rows!Spec
=============================================================================
