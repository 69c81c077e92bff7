----------------------------- MODULE HeapPages -----------------------------
(***************************************************************************)
(* src/src/storage/table_heap.cpp as functions: what a scan of a heap      *)
(* yields, and the pages and the page list that an insertion, a deletion   *)
(* and an update leave.  `pgs` are the pages of the file, `ids` the list   *)
(* TableHeap::page_ids_ of one table.                                      *)
(***************************************************************************)
EXTENDS RecordPage, SequencesExt

CONSTANT Size  \* row -> bytes of its serialized form

ASSUME SizeAssumption == Size \in [DOMAIN Size -> Nat \ {0}]

\* A page that was allocated and never written: load_page reports CorruptPage.
ZeroPage == [slots |-> <<>>, free |-> 0]

\* No record is empty, so a page has room for this many slots.
MaxSlots == PageSpace \div (SlotSize + 1)
Slot(pgs, id) == pgs[id[1]].slots[id[2]]

\* Row ids that scan() yields and the order it yields them in.
IdsOn(pgs, p) ==
    LET slots == pgs[p].slots
        upTo[s \in 0 .. Len(slots)] ==
          IF s = 0 THEN <<>>
          ELSE IF slots[s].len # 0 THEN Append(upTo[s - 1], <<p, s>>) ELSE upTo[s - 1]
    IN  upTo[Len(slots)]
ScannedIds(pgs, ids) ==
    LET upTo[i \in 0 .. Len(ids)] ==
          IF i = 0 THEN <<>> ELSE upTo[i - 1] \o IdsOn(pgs, ids[i])
    IN  upTo[Len(ids)]
LiveIds(pgs, ids) == {id \in ToSet(ids) \X (1 .. MaxSlots) : Live(pgs[id[1]], id[2])}

TooLarge(row) == Size[row] + SlotSize > PageSpace

\* insert() looks at the last page only.
LastPageFits(pgs, ids, row) == ids # <<>> /\ Fits(pgs[Last(ids)], Size[row])

\* Fault: insert() takes any page with room and makes it the last one.
InsertedReorders(pgs, ids, row) ==
    LET roomy == SelectSeq(ids, LAMBDA q : Fits(pgs[q], Size[row]))
        p     == IF roomy = <<>> THEN Len(pgs) + 1 ELSE Head(roomy)
    IN  [pages |-> IF roomy = <<>> THEN Append(pgs, WithRecord(EmptyPage, row, Size[row]))
                   ELSE [pgs EXCEPT ![p] = WithRecord(@, row, Size[row])],
         ids   |-> Append(SelectSeq(ids, LAMBDA q : q # p), p),
         id    |-> <<p, IF roomy = <<>> THEN 1 ELSE Len(pgs[p].slots) + 1>>]

\* The heap after insert(row): its pages, its page list, the new row id.
Inserted(pgs, ids, row) ==
    IF LastPageFits(pgs, ids, row)
    THEN LET p == Last(ids)
         IN  [pages |-> [pgs EXCEPT ![p] = WithRecord(@, row, Size[row])],
              ids   |-> ids,
              id    |-> <<p, Len(pgs[p].slots) + 1>>]
    ELSE LET p == Len(pgs) + 1
         IN  [pages |-> Append(pgs, WithRecord(EmptyPage, row, Size[row])),
              ids   |-> Append(ids, p),
              id    |-> <<p, 1>>]

Deleted(pgs, id) == [pgs EXCEPT ![id[1]] = WithoutRecord(@, id[2])]

Overwritten(pgs, id, row) == [pgs EXCEPT ![id[1]] = WithReplaced(@, id[2], row, Size[row])]

StaysInPlace(pgs, id, row) == FitsInPlace(pgs[id[1]], id[2], Size[row])

\* The heap after update(id, row): in place, or inserted first and then deleted.
Updated(pgs, ids, id, row) ==
    IF StaysInPlace(pgs, id, row)
    THEN [pages |-> Overwritten(pgs, id, row), ids |-> ids, id |-> id]
    ELSE LET new == Inserted(pgs, ids, row)
         IN  [new EXCEPT !.pages = Deleted(@, id)]
=============================================================================
