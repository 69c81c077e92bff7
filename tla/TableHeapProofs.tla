-------------------------- MODULE TableHeapProofs --------------------------
(***************************************************************************)
(* Proofs about TableHeap for every set of rows, every size of a row and   *)
(* of a page and every number of pages: the pages stay well formed, the    *)
(* heap implements RowStore, and a scan keeps its order.                   *)
(***************************************************************************)
EXTENDS TableHeap, HeapPagesProofs

USE HeapAssumption

\* The rows of a client are the rows that have a size.
LEMMA RecordsAreRows == Record = Row
  BY DEF Record

USE RecordsAreRows

IInv == HeapSound(pages, page_ids) /\ Len(pages) <= MaxPages
----------------------------------------------------------------------------
\* An empty heap is sound.
LEMMA InitInvariant == Init => IInv
<1>1. SUFFICES ASSUME Init
               PROVE  IInv
  OBVIOUS
<1>2. /\ pages \in Seq(Page) /\ page_ids \in Seq(Nat)
      /\ Len(pages) = 0 /\ DOMAIN pages = {} /\ DOMAIN page_ids = {}
  BY <1>1, EmptySeq DEF Init
<1>3. QED
  BY <1>2 DEF IInv, HeapSound, IsInjective

\* A page that another user of the file takes leaves the heap sound.
LEMMA AllocationKeeps ==
    ASSUME IInv, Len(pages) < MaxPages, pages' = Append(pages, ZeroPage), page_ids' = page_ids
    PROVE  IInv'
<1>1. HeapSound(pages', page_ids) /\ Len(pages') = Len(pages) + 1 /\ Len(pages) \in Nat
  BY ZeroPageSound, PageAdded DEF IInv
<1>2. QED
  BY <1>1 DEF IInv

\* A row that is added leaves the heap sound.
LEMMA InsertionKeeps ==
    ASSUME IInv, NEW row \in Row, CanInsert(row),
           pages' = Inserted(pages, page_ids, row).pages,
           page_ids' = Inserted(pages, page_ids, row).ids
    PROVE  IInv' /\ RowAdded(pages, page_ids, row, Inserted(pages, page_ids, row))
<1> DEFINE new == Inserted(pages, page_ids, row)
<1>1. /\ RowAdded(pages, page_ids, row, new)
      /\ Len(pages) \in Nat
      /\ Len(new.pages) = IF LastPageFits(pages, page_ids, row) THEN Len(pages)
                          ELSE Len(pages) + 1
  BY RowInserted DEF IInv, CanInsert
<1> HIDE DEF new
<1>2. Len(new.pages) <= MaxPages
  BY <1>1 DEF IInv, CanInsert
<1>3. pages' = new.pages /\ page_ids' = new.ids
  BY DEF new
<1>4. IInv'
  BY <1>1, <1>2, <1>3 DEF IInv, RowAdded
<1>5. QED
  BY <1>1, <1>4 DEF new

\* Every step leaves the heap sound.
LEMMA StepInvariant ==
    ASSUME IInv, [Next]_vars
    PROVE  IInv'
<1>1. ASSUME NEW row \in Row, Insert(row)
      PROVE  IInv'
  BY <1>1, InsertionKeeps DEF Insert
<1>2. ASSUME NEW row \in Row, InsertLeaks(row)
      PROVE  IInv'
  BY <1>2, AllocationKeeps DEF InsertLeaks
<1>3. ASSUME NEW id \in RowIds, Delete(id)
      PROVE  IInv'
  <2>1. id \in SlotIds(pages, page_ids)
    BY <1>3, LiveIdsAre DEF Delete
  <2>2. HeapSound(pages', page_ids) /\ Len(pages') = Len(pages)
    BY <1>3, <2>1, RowDeleted DEF IInv, Delete, OnlyChanged
  <2>3. QED
    BY <1>3, <2>2 DEF IInv, Delete
<1>4. ASSUME NEW id \in RowIds, NEW row \in Row, Update(id, row)
      PROVE  IInv'
  <2>1. id \in SlotIds(pages, page_ids)
    BY <1>4, LiveIdsAre DEF Update
  <2>2. CASE StaysInPlace(pages, id, row)
    <3>1. pages' = Overwritten(pages, id, row) /\ page_ids' = page_ids
      BY <1>4, <2>2 DEF Update, Updated
    <3>2. HeapSound(pages', page_ids) /\ Len(pages') = Len(pages)
      BY <2>1, <3>1, RowOverwritten DEF IInv, OnlyChanged
    <3>3. QED
      BY <3>1, <3>2 DEF IInv
  <2>3. CASE ~StaysInPlace(pages, id, row)
    <3>1. /\ CanInsert(row) /\ ~TooLarge(row)
          /\ pages' = Updated(pages, page_ids, id, row).pages
          /\ page_ids' = Updated(pages, page_ids, id, row).ids
      BY <1>4, <2>3 DEF Update, CanInsert
    <3>2. RowMoved(pages, page_ids, id, row, Updated(pages, page_ids, id, row))
      BY <2>1, <2>3, <3>1, RowRelocated DEF IInv
    <3>3. HeapSound(pages', page_ids') /\ Len(pages') = Len(Inserted(pages, page_ids, row).pages)
      BY <3>1, <3>2 DEF RowMoved
    <3>4. Len(pages') <= MaxPages
      BY <3>1, <3>3, RowInserted DEF IInv, CanInsert
    <3>5. QED
      BY <3>3, <3>4 DEF IInv
  <2>4. QED
    BY <2>2, <2>3
<1>5. ASSUME NEW id \in RowIds, NEW row \in Row, UpdateDuplicates(id, row)
      PROVE  IInv'
  BY <1>5, InsertionKeeps DEF UpdateDuplicates
<1>6. CASE OtherAllocates
  BY <1>6, AllocationKeeps DEF OtherAllocates
<1>7. CASE UNCHANGED vars
  BY <1>7 DEF IInv, vars
<1>8. QED
  BY <1>1, <1>2, <1>3, <1>4, <1>5, <1>6, <1>7 DEF Next

\* The heap is sound in every reachable state.
THEOREM HeapStaysSound == Spec => []IInv
  BY InitInvariant, StepInvariant, PTL DEF Spec

\* A sound heap is well typed.
LEMMA SoundTyped == IInv => TypeOK
<1>1. SUFFICES ASSUME IInv
               PROVE  TypeOK
  OBVIOUS
<1>2. ASSUME NEW p \in DOMAIN pages
      PROVE  /\ pages[p].free \in 0 .. PageSpace
             /\ \A s \in SlotsOf(pages[p]) :
                   \/ pages[p].slots[s] = Tombstone
                   \/ /\ pages[p].slots[s].rec \in Row
                      /\ pages[p].slots[s].len = Size[pages[p].slots[s].rec]
  <2>1. PageSound(pages[p])
    BY <1>1 DEF IInv, HeapSound
  <2>2. QED
    BY <2>1 DEF PageSound, Page, EntrySound
<1>3. page_ids \in Seq(DOMAIN pages)
  <2>1. page_ids \in Seq(Nat)
    BY <1>1 DEF IInv, HeapSound
  <2>2. Len(page_ids) \in Nat /\ page_ids \in [1 .. Len(page_ids) -> Nat]
    BY <2>1, LenProperties
  <2>3. page_ids \in [1 .. Len(page_ids) -> DOMAIN pages]
    BY <1>1, <2>2 DEF IInv, HeapSound
  <2>4. QED
    BY <2>2, <2>3, IsASeq
<1>4. QED
  BY <1>1, <1>2, <1>3 DEF TypeOK, IInv

\* TypeOK: every slot of every page holds a tombstone or a row of its length,
\* and the list of table_heap.cpp names pages of the file.
THEOREM HeapTypes == Spec => []TypeOK
  BY HeapStaysSound, SoundTyped, PTL

\* PagesReadable: load_page never meets a page of the list that was not written,
\* and no page is listed twice.
THEOREM HeapReadable == Spec => []PagesReadable
<1>1. IInv => PagesReadable
  BY DEF IInv, HeapSound, PagesReadable, ZeroPage
<1>2. QED
  BY <1>1, HeapStaysSound, PTL
----------------------------------------------------------------------------
\* A scan of more pages keeps the order that a scan had.
LEMMA OrderKept ==
    ASSUME NEW pgs, NEW ids, HeapSound(pgs, ids),
           NEW new, NEW longer, HeapSound(new, longer), Extends(longer, ids),
           NEW i \in DOMAIN ScannedIds(pgs, ids), NEW j \in DOMAIN ScannedIds(pgs, ids),
           NEW k \in DOMAIN ScannedIds(new, longer), NEW l \in DOMAIN ScannedIds(new, longer),
           i < j,
           ScannedIds(new, longer)[k] = ScannedIds(pgs, ids)[i],
           ScannedIds(new, longer)[l] = ScannedIds(pgs, ids)[j]
    PROVE  k < l
<1> DEFINE before == ScannedIds(pgs, ids)
           after == ScannedIds(new, longer)
<1>1. /\ ids \in Seq(Nat) /\ longer \in Seq(Nat) /\ IsInjective(longer)
  BY DEF HeapSound
<1>2. Before(ids, before[i], before[j]) /\ before[i] \in Nat \X Nat /\ before[j] \in Nat \X Nat
  BY SoundScan DEF ScanGood
<1>3. before[i] # before[j] /\ ~Before(longer, before[j], before[i])
  BY <1>1, <1>2, OneOrder
<1>4. k \in Nat /\ l \in Nat
  BY SoundScan
<1>5. k # l
  BY <1>3
<1>6. ~ (l < k)
  <2>1. l < k => Before(longer, after[l], after[k])
    BY SoundScan DEF ScanGood
  <2>2. QED
    BY <1>3, <2>1
<1>7. QED
  BY <1>4, <1>5, <1>6

\* No step takes a page off the list or moves one in it.
LEMMA ListGrows ==
    ASSUME IInv, [Next]_vars
    PROVE  Extends(page_ids', page_ids)
<1>1. Extends(page_ids, page_ids)
  <2>1. Len(page_ids) \in Nat
    BY LenProperties DEF IInv, HeapSound
  <2>2. QED
    BY <2>1 DEF Extends
<1>2. ASSUME NEW row \in Row, Insert(row)
      PROVE  Extends(page_ids', page_ids)
  BY <1>2, InsertionKeeps DEF Insert, RowAdded
<1>3. ASSUME NEW row \in Row, InsertLeaks(row)
      PROVE  Extends(page_ids', page_ids)
  BY <1>1, <1>3 DEF InsertLeaks
<1>4. ASSUME NEW id \in RowIds, Delete(id)
      PROVE  Extends(page_ids', page_ids)
  BY <1>1, <1>4 DEF Delete
<1>5. ASSUME NEW id \in RowIds, NEW row \in Row, Update(id, row)
      PROVE  Extends(page_ids', page_ids)
  <2>1. CASE StaysInPlace(pages, id, row)
    BY <1>1, <1>5, <2>1 DEF Update, Updated
  <2>2. CASE ~StaysInPlace(pages, id, row)
    <3>1. id \in SlotIds(pages, page_ids) /\ ~TooLarge(row)
      BY <1>5, <2>2, LiveIdsAre DEF Update, CanInsert
    <3>2. RowMoved(pages, page_ids, id, row, Updated(pages, page_ids, id, row))
      BY <2>2, <3>1, RowRelocated DEF IInv
    <3>3. QED
      BY <1>5, <3>2 DEF Update, RowMoved
  <2>3. QED
    BY <2>1, <2>2
<1>6. ASSUME NEW id \in RowIds, NEW row \in Row, UpdateDuplicates(id, row)
      PROVE  Extends(page_ids', page_ids)
  BY <1>6, InsertionKeeps DEF UpdateDuplicates, RowAdded
<1>7. CASE OtherAllocates
  BY <1>1, <1>7 DEF OtherAllocates
<1>8. CASE UNCHANGED vars
  BY <1>1, <1>8 DEF vars
<1>9. QED
  BY <1>2, <1>3, <1>4, <1>5, <1>6, <1>7, <1>8 DEF Next

\* ScanOrderStable: rows keep their order in TableHeap::scan while other rows
\* come, move and go, so that a statement which walks a scan and changes rows on
\* the way meets the rows it has not changed in the order it saw them.
THEOREM ScanOrder == Spec => ScanOrderStable
<1> DEFINE Stable == LET before == ScannedIds(pages, page_ids)
                         after  == ScannedIds(pages', page_ids')
                     IN  \A i, j \in DOMAIN before : \A k, l \in DOMAIN after :
                            i < j /\ after[k] = before[i] /\ after[l] = before[j] => k < l
<1>1. ASSUME IInv, [Next]_vars
      PROVE  Stable
  <2>1. HeapSound(pages, page_ids)
    BY <1>1 DEF IInv
  <2>2. HeapSound(pages', page_ids')
    BY <1>1, StepInvariant DEF IInv
  <2>3. Extends(page_ids', page_ids)
    BY <1>1, ListGrows
  <2>4. QED
    BY <2>1, <2>2, <2>3, OrderKept
<1>2. IInv /\ [Next]_vars => [Stable]_vars
  BY <1>1
<1>3. QED
  BY <1>2, HeapStaysSound, PTL DEF Spec, ScanOrderStable
----------------------------------------------------------------------------
\* What RowStore sees of a heap: its rows, and the ids that were given up.
RowsOf(pgs, ids) == [id \in LiveIds(pgs, ids) |-> Slot(pgs, id).rec]
Retired(pgs, ids) == {id \in ToSet(ids) \X (1 .. MaxSlots) :
                         id[2] \in SlotsOf(pgs[id[1]]) /\ ~Live(pgs[id[1]], id[2])}

\* A slot is live or retired, as it has a record or a tombstone.
LEMMA RetiredAre ==
    ASSUME NEW pgs, NEW ids
    PROVE  Retired(pgs, ids) = {id \in SlotIds(pgs, ids) : Slot(pgs, id).len = 0}
  BY DEF Retired, SlotIds, Live, Slot, SlotsOf

\* The rows of pgs and what was given up there.
Shows(pgs, ids, rows, retired) == RowsOf(pgs, ids) = rows /\ Retired(pgs, ids) = retired

\* A heap with the same slots and the same entries shows the same.
LEMMA SameShown ==
    ASSUME NEW pgs, NEW ids, NEW new,
           SlotIds(new, ids) = SlotIds(pgs, ids),
           \A id \in SlotIds(pgs, ids) : Slot(new, id) = Slot(pgs, id)
    PROVE  Shows(new, ids, RowsOf(pgs, ids), Retired(pgs, ids))
<1>1. LiveIds(new, ids) = LiveIds(pgs, ids) /\ LiveIds(pgs, ids) \subseteq SlotIds(pgs, ids)
  BY LiveIdsAre
<1>2. Retired(new, ids) = Retired(pgs, ids)
  BY RetiredAre
<1>3. RowsOf(new, ids) = RowsOf(pgs, ids)
  BY <1>1 DEF RowsOf
<1>4. QED
  BY <1>2, <1>3 DEF Shows

\* An added row is shown under an id that was neither live nor retired.
LEMMA AddedShown ==
    ASSUME NEW pgs, NEW ids, NEW row \in Row, NEW new, RowAdded(pgs, ids, row, new)
    PROVE  /\ new.id \notin LiveIds(pgs, ids) \cup Retired(pgs, ids)
           /\ Shows(new.pages, new.ids,
                    [id \in LiveIds(pgs, ids) \cup {new.id} |->
                        IF id = new.id THEN row ELSE RowsOf(pgs, ids)[id]],
                    Retired(pgs, ids))
<1>1. /\ new.id \notin SlotIds(pgs, ids)
      /\ SlotIds(new.pages, new.ids) = SlotIds(pgs, ids) \cup {new.id}
      /\ Slot(new.pages, new.id).rec = row /\ Slot(new.pages, new.id).len # 0
      /\ \A id \in SlotIds(pgs, ids) : Slot(new.pages, id) = Slot(pgs, id)
  BY RowEntry DEF RowAdded
<1>2. LiveIds(new.pages, new.ids) = LiveIds(pgs, ids) \cup {new.id}
  BY <1>1, LiveIdsAre
<1>3. Retired(new.pages, new.ids) = Retired(pgs, ids)
  BY <1>1, RetiredAre
<1>4. new.id \notin LiveIds(pgs, ids) \cup Retired(pgs, ids)
  BY <1>1, LiveIdsAre, RetiredAre
<1>5. \A id \in LiveIds(pgs, ids) : Slot(new.pages, id) = Slot(pgs, id) /\ id # new.id
  BY <1>1, LiveIdsAre
<1>6. RowsOf(new.pages, new.ids)
        = [id \in LiveIds(pgs, ids) \cup {new.id} |->
              IF id = new.id THEN row ELSE RowsOf(pgs, ids)[id]]
  BY <1>1, <1>2, <1>5 DEF RowsOf
<1>7. QED
  BY <1>3, <1>4, <1>6 DEF Shows

\* A deleted row is retired.
LEMMA DeletedShown ==
    ASSUME NEW pgs, NEW ids, NEW id \in LiveIds(pgs, ids), NEW new,
           OnlyChanged(pgs, ids, id, Tombstone, new)
    PROVE  Shows(new, ids, [i \in LiveIds(pgs, ids) \ {id} |-> RowsOf(pgs, ids)[i]],
                 Retired(pgs, ids) \cup {id})
<1>1. /\ id \in SlotIds(pgs, ids) /\ SlotIds(new, ids) = SlotIds(pgs, ids)
      /\ Slot(new, id).len = 0
      /\ \A i \in SlotIds(pgs, ids) \ {id} : Slot(new, i) = Slot(pgs, i)
  BY LiveIdsAre, TombstoneEntry DEF OnlyChanged
<1>2. LiveIds(new, ids) = LiveIds(pgs, ids) \ {id}
  BY <1>1, LiveIdsAre
<1>3. Retired(new, ids) = Retired(pgs, ids) \cup {id}
  BY <1>1, RetiredAre
<1>4. \A i \in LiveIds(pgs, ids) \ {id} : Slot(new, i) = Slot(pgs, i)
  BY <1>1, LiveIdsAre
<1>5. RowsOf(new, ids) = [i \in LiveIds(pgs, ids) \ {id} |-> RowsOf(pgs, ids)[i]]
  BY <1>2, <1>4 DEF RowsOf
<1>6. QED
  BY <1>3, <1>5 DEF Shows

\* A row that is overwritten keeps its id.
LEMMA OverwrittenShown ==
    ASSUME NEW pgs, NEW ids, NEW id \in LiveIds(pgs, ids), NEW row \in Row, NEW new,
           OnlyChanged(pgs, ids, id, [len |-> Size[row], rec |-> row], new)
    PROVE  Shows(new, ids, [RowsOf(pgs, ids) EXCEPT ![id] = row], Retired(pgs, ids))
<1>1. /\ id \in SlotIds(pgs, ids) /\ SlotIds(new, ids) = SlotIds(pgs, ids)
      /\ Slot(new, id).len # 0 /\ Slot(new, id).rec = row
      /\ Slot(pgs, id).len # 0
      /\ \A i \in SlotIds(pgs, ids) \ {id} : Slot(new, i) = Slot(pgs, i)
  BY LiveIdsAre, RowEntry DEF OnlyChanged
<1>2. LiveIds(new, ids) = LiveIds(pgs, ids)
  BY <1>1, LiveIdsAre
<1>3. Retired(new, ids) = Retired(pgs, ids)
  BY <1>1, RetiredAre
<1>4. \A i \in LiveIds(pgs, ids) \ {id} : Slot(new, i) = Slot(pgs, i)
  BY <1>1, LiveIdsAre
<1>5. RowsOf(new, ids) = [RowsOf(pgs, ids) EXCEPT ![id] = row]
  BY <1>1, <1>2, <1>4 DEF RowsOf
<1>6. QED
  BY <1>3, <1>5 DEF Shows

\* A row that moves gets an id of its own, and its old one is retired.
LEMMA MovedShown ==
    ASSUME NEW pgs, NEW ids, NEW id \in LiveIds(pgs, ids), NEW row \in Row, NEW new,
           RowMoved(pgs, ids, id, row, new)
    PROVE  /\ new.id \notin LiveIds(pgs, ids) \cup Retired(pgs, ids)
           /\ Shows(new.pages, new.ids,
                    [i \in (LiveIds(pgs, ids) \cup {new.id}) \ {id} |->
                        IF i = new.id THEN row ELSE RowsOf(pgs, ids)[i]],
                    Retired(pgs, ids) \cup {id})
<1>1. /\ id \in SlotIds(pgs, ids) /\ new.id \notin SlotIds(pgs, ids)
      /\ SlotIds(new.pages, new.ids) = SlotIds(pgs, ids) \cup {new.id}
      /\ Slot(new.pages, new.id).rec = row /\ Slot(new.pages, new.id).len # 0
      /\ Slot(new.pages, id).len = 0
      /\ \A i \in SlotIds(pgs, ids) \ {id} : Slot(new.pages, i) = Slot(pgs, i)
  BY LiveIdsAre, RowEntry, TombstoneEntry DEF RowMoved
<1>2. LiveIds(new.pages, new.ids) = (LiveIds(pgs, ids) \cup {new.id}) \ {id}
  BY <1>1, LiveIdsAre
<1>3. Retired(new.pages, new.ids) = Retired(pgs, ids) \cup {id}
  BY <1>1, RetiredAre
<1>4. new.id \notin LiveIds(pgs, ids) \cup Retired(pgs, ids)
  BY <1>1, LiveIdsAre, RetiredAre
<1>5. \A i \in LiveIds(pgs, ids) \ {id} : Slot(new.pages, i) = Slot(pgs, i) /\ i # new.id
  BY <1>1, LiveIdsAre
<1>6. RowsOf(new.pages, new.ids)
        = [i \in (LiveIds(pgs, ids) \cup {new.id}) \ {id} |->
              IF i = new.id THEN row ELSE RowsOf(pgs, ids)[i]]
  BY <1>1, <1>2, <1>5 DEF RowsOf
<1>7. QED
  BY <1>3, <1>4, <1>6 DEF Shows

\* The slots of a heap within the file are row ids of the store.
LEMMA SlotsWithinFile ==
    ASSUME NEW pgs, NEW ids, HeapSound(pgs, ids), Len(pgs) <= MaxPages
    PROVE  SlotIds(pgs, ids) \subseteq RowIds
<1>1. SUFFICES ASSUME NEW id \in SlotIds(pgs, ids)
               PROVE  id \in RowIds
  OBVIOUS
<1>2. id = <<id[1], id[2]>> /\ id[1] \in DOMAIN pgs
  BY SlotIdParts
<1>3. Len(pgs) \in Nat /\ DOMAIN pgs = 1 .. Len(pgs)
  BY LenProperties DEF HeapSound
<1>4. id[1] \in 1 .. MaxPages
  BY <1>2, <1>3
<1>5. id[2] \in 1 .. MaxSlots
  BY DEF SlotIds
<1>6. QED
  BY <1>2, <1>4, <1>5 DEF RowIds

\* The row store of a state, and of the next one.
LEMMA StoreOf ==
    /\ Rows!Fresh = RowIds \ (LiveIds(pages, page_ids) \cup Retired(pages, page_ids))
    /\ \A id, row :
          /\ Rows!Insert(id, row) <=>
                Shows(pages', page_ids',
                      [i \in LiveIds(pages, page_ids) \cup {id} |->
                          IF i = id THEN row ELSE RowsOf(pages, page_ids)[i]],
                      Retired(pages, page_ids))
          /\ Rows!Delete(id) <=>
                Shows(pages', page_ids',
                      [i \in LiveIds(pages, page_ids) \ {id} |-> RowsOf(pages, page_ids)[i]],
                      Retired(pages, page_ids) \cup {id})
          /\ Rows!Replace(id, row) <=>
                Shows(pages', page_ids', [RowsOf(pages, page_ids) EXCEPT ![id] = row],
                      Retired(pages, page_ids))
<1>1. /\ DOMAIN RowsOf(pages, page_ids) = LiveIds(pages, page_ids)
      /\ RowsOf(pages, page_ids) = [id \in LiveIds(pages, page_ids) |-> Slot(pages, id).rec]
  BY DEF RowsOf
<1>2. QED
  BY <1>1 DEF Rows!Fresh, Rows!Insert, Rows!Delete, Rows!Replace, Rows!With, Rows!Without,
              Shows, RowsOf, Retired

\* The store sees a row move.
LEMMA StoreMoves ==
    ASSUME NEW id, NEW new, NEW row,
           Shows(pages', page_ids',
                 [i \in (LiveIds(pages, page_ids) \cup {new}) \ {id} |->
                     IF i = new THEN row ELSE RowsOf(pages, page_ids)[i]],
                 Retired(pages, page_ids) \cup {id})
    PROVE  Rows!Relocate(id, new, row) /\ id \in Retired(pages', page_ids')
<1> DEFINE live == LiveIds(pages, page_ids)
           shown == RowsOf(pages, page_ids)
           with == [i \in live \cup {new} |-> IF i = new THEN row ELSE shown[i]]
<1>1. DOMAIN shown = live /\ shown = [i \in live |-> Slot(pages, i).rec]
  BY DEF RowsOf
<1>2. Rows!With(new, row) = with
  BY <1>1 DEF Rows!With
<1>3. DOMAIN with = live \cup {new}
  OBVIOUS
<1>4. Rows!Without(with, id) = [i \in (live \cup {new}) \ {id} |-> with[i]]
  BY <1>3 DEF Rows!Without
<1>5. [i \in (live \cup {new}) \ {id} |-> with[i]]
        = [i \in (live \cup {new}) \ {id} |-> IF i = new THEN row ELSE shown[i]]
  OBVIOUS
<1> HIDE DEF with
<1>6. RowsOf(pages', page_ids') = Rows!Without(Rows!With(new, row), id)
  BY <1>2, <1>4, <1>5 DEF Shows
<1>7. Retired(pages', page_ids') = Retired(pages, page_ids) \cup {id}
  BY DEF Shows
<1>8. QED
  BY <1>6, <1>7 DEF Rows!Relocate, RowsOf, Retired

\* The ids of the store's rows.
LEMMA StoreRows ==
    /\ DOMAIN RowsOf(pages, page_ids) = LiveIds(pages, page_ids)
    /\ [Rows!Next]_Rows!vars <=>
          \/ \E id \in Rows!Fresh, row \in Row : Rows!Insert(id, row)
          \/ \E id \in LiveIds(pages, page_ids) : \/ Rows!Delete(id)
                                                  \/ \E row \in Row : Rows!Replace(id, row)
          \/ \E id \in LiveIds(pages, page_ids) :
                /\ id \in Retired(pages', page_ids')
                /\ \E new \in Rows!Fresh, row \in Row : Rows!Relocate(id, new, row)
          \/ Shows(pages', page_ids', RowsOf(pages, page_ids), Retired(pages, page_ids))
<1>1. DOMAIN RowsOf(pages, page_ids) = LiveIds(pages, page_ids)
  BY DEF RowsOf
<1>2. QED
  BY <1>1 DEF Rows!Next, Rows!vars, Shows, RowsOf, Retired

\* Every step of the heap is a step of the row store or changes nothing there.
LEMMA RefineStep ==
    ASSUME IInv, [Next]_vars
    PROVE  [Rows!Next]_Rows!vars
<1> DEFINE live == LiveIds(pages, page_ids)
           retired == Retired(pages, page_ids)
           Same == Shows(pages', page_ids', RowsOf(pages, page_ids), retired)
<1>1. HeapSound(pages, page_ids) /\ Len(pages) <= MaxPages
  BY DEF IInv
<1>2. HeapSound(pages', page_ids') /\ Len(pages') <= MaxPages
  BY StepInvariant DEF IInv
<1>3. ASSUME NEW row \in Row, CanInsert(row),
             pages' = Inserted(pages, page_ids, row).pages,
             page_ids' = Inserted(pages, page_ids, row).ids
      PROVE  \E id \in Rows!Fresh : Rows!Insert(id, row)
  <2> DEFINE new == Inserted(pages, page_ids, row)
  <2>1. RowAdded(pages, page_ids, row, new)
    BY <1>3, InsertionKeeps
  <2>2. new.id \in RowIds
    BY <1>2, <1>3, <2>1, SlotsWithinFile DEF RowAdded
  <2>3. new.id \notin live \cup retired
    BY <2>1, AddedShown
  <2>4. Shows(new.pages, new.ids,
              [i \in live \cup {new.id} |->
                  IF i = new.id THEN row ELSE RowsOf(pages, page_ids)[i]], retired)
    BY <2>1, AddedShown
  <2> HIDE DEF new
  <2>5. pages' = new.pages /\ page_ids' = new.ids
    BY <1>3 DEF new
  <2>6. Rows!Insert(new.id, row)
    BY <2>4, <2>5, StoreOf
  <2>7. new.id \in Rows!Fresh
    BY <2>2, <2>3, StoreOf
  <2>8. QED
    BY <2>6, <2>7
<1>4. ASSUME pages' = Append(pages, ZeroPage), page_ids' = page_ids
      PROVE  Same
  <2>1. /\ SlotIds(pages', page_ids) = SlotIds(pages, page_ids)
        /\ \A id \in SlotIds(pages, page_ids) : Slot(pages', id) = Slot(pages, id)
    BY <1>1, <1>4, ZeroPageSound, PageAdded
  <2>2. QED
    BY <1>4, <2>1, SameShown
<1>5. ASSUME NEW row \in Row, Insert(row)
      PROVE  [Rows!Next]_Rows!vars
  BY <1>3, <1>5, StoreRows DEF Insert
<1>6. ASSUME NEW row \in Row, InsertLeaks(row)
      PROVE  [Rows!Next]_Rows!vars
  BY <1>4, <1>6, StoreRows DEF InsertLeaks
<1>7. ASSUME NEW id \in RowIds, Delete(id)
      PROVE  [Rows!Next]_Rows!vars
  <2>1. id \in live /\ id \in SlotIds(pages, page_ids)
    BY <1>7, LiveIdsAre DEF Delete
  <2>2. OnlyChanged(pages, page_ids, id, Tombstone, pages') /\ page_ids' = page_ids
    BY <1>1, <1>7, <2>1, RowDeleted DEF Delete
  <2>3. Rows!Delete(id)
    BY <2>1, <2>2, DeletedShown, StoreOf
  <2>4. QED
    BY <2>1, <2>3, StoreRows
<1>8. ASSUME NEW id \in RowIds, NEW row \in Row, Update(id, row)
      PROVE  [Rows!Next]_Rows!vars
  <2>1. id \in live /\ id \in SlotIds(pages, page_ids)
    BY <1>8, LiveIdsAre DEF Update
  <2>2. CASE StaysInPlace(pages, id, row)
    <3>1. pages' = Overwritten(pages, id, row) /\ page_ids' = page_ids
      BY <1>8, <2>2 DEF Update, Updated
    <3>2. OnlyChanged(pages, page_ids, id, [len |-> Size[row], rec |-> row], pages')
      BY <1>1, <2>1, <3>1, RowOverwritten
    <3>3. Rows!Replace(id, row)
      BY <2>1, <3>1, <3>2, OverwrittenShown, StoreOf
    <3>4. QED
      BY <2>1, <3>3, StoreRows
  <2>3. CASE ~StaysInPlace(pages, id, row)
    <3> DEFINE new == Updated(pages, page_ids, id, row)
    <3>1. ~TooLarge(row) /\ pages' = new.pages /\ page_ids' = new.ids
      BY <1>8, <2>3 DEF Update, CanInsert
    <3>2. RowMoved(pages, page_ids, id, row, new)
      BY <1>1, <2>1, <2>3, <3>1, RowRelocated
    <3> HIDE DEF new
    <3>3. new.id \in RowIds
      BY <1>2, <3>1, <3>2, SlotsWithinFile DEF RowMoved
    <3>4. new.id \notin live \cup retired
      BY <2>1, <3>2, MovedShown
    <3>5. Shows(new.pages, new.ids,
                [i \in (live \cup {new.id}) \ {id} |->
                    IF i = new.id THEN row ELSE RowsOf(pages, page_ids)[i]], retired \cup {id})
      BY <2>1, <3>2, MovedShown
    <3>6. Rows!Relocate(id, new.id, row) /\ id \in Retired(pages', page_ids')
      BY <3>1, <3>5, StoreMoves
    <3>7. new.id \in Rows!Fresh
      BY <3>3, <3>4, StoreOf
    <3>8. QED
      BY <2>1, <3>6, <3>7, StoreRows
  <2>4. QED
    BY <2>2, <2>3
<1>9. ASSUME NEW id \in RowIds, NEW row \in Row, UpdateDuplicates(id, row)
      PROVE  [Rows!Next]_Rows!vars
  BY <1>3, <1>9, StoreRows DEF UpdateDuplicates
<1>10. CASE OtherAllocates
  BY <1>4, <1>10, StoreRows DEF OtherAllocates
<1>11. CASE UNCHANGED vars
  <2>1. Same
    BY <1>11 DEF vars, Shows
  <2>2. QED
    BY <2>1, StoreRows
<1>12. QED
  BY <1>5, <1>6, <1>7, <1>8, <1>9, <1>10, <1>11 DEF Next

\* The heap implements the row store: a row id names one row from its insertion
\* to its deletion and nothing after that, whatever else is inserted, deleted,
\* relocated or left half done.  Indexes, which keep row ids, rely on it.
THEOREM HeapImplementsStore == Spec => RowStoreSpec
<1>1. Init => Rows!Init
  <2>1. SUFFICES ASSUME Init
                 PROVE  Rows!Init
    OBVIOUS
  <2>2. ToSet(page_ids) = {}
    BY <2>1, EmptySeq DEF Init, ToSet
  <2>3. LiveIds(pages, page_ids) = {} /\ Retired(pages, page_ids) = {}
    BY <2>2 DEF LiveIds, Retired
  <2>4. QED
    BY <2>3 DEF Rows!Init, Retired
<1>2. IInv /\ [Next]_vars => [Rows!Next]_Rows!vars
  BY RefineStep
<1>3. QED
  BY <1>1, <1>2, HeapStaysSound, PTL DEF Spec, RowStoreSpec, Rows!Spec
=============================================================================
