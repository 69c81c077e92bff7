-------------------------- MODULE DurabilityProofs --------------------------
(***************************************************************************)
(* Proofs about Durability for every set of keys and texts, every size of  *)
(* a row and of a page and every number of pages: whatever is written back *)
(* when, and whenever the process dies, rows of the last checkpoint are    *)
(* found again and deleted rows are not.                                   *)
(***************************************************************************)
EXTENDS Durability, HeapPagesProofs

USE PageAssumption, DurabilityAssumption

RowId == Nat \X Nat
Hit == [id : RowId, row : Row]
HeapEntry == [len : Nat \ {0}, rec : Row] \cup {Tombstone}
HeapPage == [slots : Seq(HeapEntry), free : Int]
LeafPage == [leaf : UNION {[K -> RowId] : K \in SUBSET Key}]
Image == HeapPage \cup LeafPage
PageWrite == [page : Nat, image : Image]
Table == [ids : Seq(Nat), root : Nat]
Operation ==
    {Idle}
      \cup [kind : {"insert"}, todo : {<<>>}, writes : Seq(PageWrite), ids : Seq(Nat)]
      \cup [kind : {"delete"}, todo : Seq(Hit), writes : Seq(PageWrite), ids : Seq(Nat),
            hits : SUBSET RowId]
      \cup [kind : {"update"}, todo : Seq(Hit), writes : Seq(PageWrite), ids : Seq(Nat),
            match : SUBSET Row, column : {"key"}, value : Key \cup {Null}]
      \cup [kind : {"update"}, todo : Seq(Hit), writes : Seq(PageWrite), ids : Seq(Nat),
            match : SUBSET Row, column : {"text"}, value : Text]

Typed ==
    /\ pool \in Seq(Image) /\ file \in Seq(Image)
    /\ Len(pool) = Len(file) /\ Len(file) <= MaxPages
    /\ table \in Table /\ stored \in Table
    /\ op \in Operation
    /\ durable \subseteq Hit /\ gone \subseteq RowId

Listed == ToSet(table.ids)

\* The catalog page lists the table's pages, which are heap pages, but for those
\* of statements that could not store it; it names the root as soon as a
\* statement that made one, or a later one, could.
TableSound ==
    /\ ToSet(stored.ids) \subseteq Listed
    /\ Listed \subseteq ToSet(stored.ids) \cup unlisted
    /\ \A p \in Listed : /\ p \in DOMAIN file
                         /\ pool[p] \in HeapPage /\ file[p] \in HeapPage
    /\ stored.root # NoRoot => stored.root = table.root

\* The root is a page of the file and no heap page.
RootSound ==
    table.root # NoRoot =>
       /\ table.root \in DOMAIN file /\ table.root \notin Listed
       /\ \A image \in {pool[table.root], file[table.root]} : image \in LeafPage \cup {ZeroPage}

\* What the running statement still has to write.
Pending == IF op = Idle THEN {} ELSE ToSet(op.writes)
Todo == IF op = Idle THEN {} ELSE ToSet(op.todo)
OpIds == IF op = Idle THEN Listed ELSE ToSet(op.ids)

\* The statement is about to stop with an error.
Doomed == op # Idle /\ op.writes # <<>> /\ Head(op.writes) = Error

\* The pages of the statement's list are heap pages, but for one that its next
\* write makes.
ListSound ==
    /\ Listed \subseteq OpIds
    /\ op # Idle /\ op.kind = "delete" => op.ids = table.ids
    /\ \A p \in OpIds :
          \/ /\ p \in DOMAIN pool /\ p # table.root
             /\ pool[p] \in HeapPage /\ file[p] \in HeapPage
          \/ /\ p = Len(pool) + 1 /\ Pending # {}
             /\ Doomed \/ (Head(op.writes).page = p /\ Head(op.writes).image \in HeapPage)

\* A statement writes heap pages of its list and one page of the tree, which is
\* the root or becomes it.
WritesSound ==
    /\ \A w \in Pending \ {Error} :
          /\ w.page # 0
          /\ w.image \in HeapPage => w.page \in OpIds
          /\ w.image \in LeafPage =>
                IF table.root # NoRoot THEN w.page = table.root
                ELSE /\ w.page > Len(pool) /\ w.page \notin OpIds
                     /\ \A v \in Pending : v.image \in LeafPage => v.page = w.page

\* New pages come in the order of their numbers.
NewPagesInOrder ==
    Pending # {} /\ ~Doomed =>
       \A k \in DOMAIN op.writes :
          \/ op.writes[k].page <= Len(pool) + 1
          \/ \E j \in 1 .. k - 1 : op.writes[j].page = op.writes[k].page - 1

\* Slots and what they hold: in the pool, in all that is still to be written
\* and, for those of the checkpoint and the deleted ones, in the file.
Holds(image, id, entries) ==
    /\ image \in HeapPage
    /\ id[2] \in SlotsOf(image) /\ image.slots[id[2]] \in entries

Rec(row) == [len : Nat \ {0}, rec : {row}]

\* Deleted rows on pages of the table.
Buried == {id \in gone : id[1] \in Listed}

Lasting == {<<h.id, Rec(h.row)>> : h \in durable}
              \cup {<<id, {Tombstone}>> : id \in Buried}

\* Rows that a DELETE has removed so far.
Dead == IF op # Idle /\ op.kind = "delete"
        THEN {id \in op.hits : Holds(pool[id[1]], id, {Tombstone})} ELSE {}

Passing == {<<h.id, HeapEntry>> : h \in Todo} \cup {<<id, {Tombstone}>> : id \in Dead}

PinsHeld ==
    /\ \A pin \in Lasting : Holds(file[pin[1][1]], pin[1], pin[2])
    /\ \A pin \in Lasting \cup Passing :
          /\ pin[1][1] \in Listed
          /\ Holds(pool[pin[1][1]], pin[1], pin[2])
          /\ \A w \in Pending : w.page = pin[1][1] => Holds(w.image, pin[1], pin[2])

\* An UPDATE comes to no row that was deleted before.
NoRevival == op # Idle /\ op.kind = "update" => \A h \in Todo : h.id \notin gone

\* A DELETE removes all that it has found: each row is dead, or still to be
\* visited, or its page is the last of the pending writes.
Covered ==
    op # Idle /\ op.kind = "delete" =>
       /\ \A id \in op.hits :
             \/ id \in {h.id : h \in Todo}
             \/ id \in Dead
             \/ /\ op.writes # <<>> /\ id[1] \in Listed
                /\ Last(op.writes).page = id[1]
                /\ Holds(Last(op.writes).image, id, {Tombstone})
       /\ \A k \in 1 .. Len(op.writes) - 1 :
             op.writes[k] = Error \/ op.writes[k].image \in LeafPage

\* A page that the table lost with a restart is neither listed nor written again.
OrphansHeld ==
    \A id \in gone :
       id[1] \notin Listed => /\ id[1] \in DOMAIN pool /\ id[1] \notin OpIds
                             /\ Holds(file[id[1]], id, {Tombstone})
                             /\ Holds(pool[id[1]], id, {Tombstone})

\* The catalog page lists the pages of the checkpoint.
CheckpointListed == \A h \in durable : h.id[1] \in ToSet(stored.ids)

IInv == /\ Typed /\ TableSound /\ RootSound /\ ListSound /\ WritesSound
        /\ NewPagesInOrder /\ PinsHeld /\ NoRevival /\ Covered
        /\ OrphansHeld /\ CheckpointListed
----------------------------------------------------------------------------
\* A page with every slot of pg, each with the same entry, slot s excepted.
KeepsBut(pg, s, new) ==
    /\ new \in HeapPage
    /\ \A t \in SlotsOf(pg) : t \in SlotsOf(new) /\ (t # s => new.slots[t] = pg.slots[t])

\* The slots of a heap page.
LEMMA PageSlots ==
    ASSUME NEW pg \in HeapPage
    PROVE  /\ pg.slots \in Seq(HeapEntry) /\ pg.free \in Int
           /\ Len(pg.slots) \in Nat /\ SlotsOf(pg) = 1 .. Len(pg.slots)
           /\ \A s \in SlotsOf(pg) : pg.slots[s] \in HeapEntry
<1>1. pg.slots \in Seq(HeapEntry) /\ pg.free \in Int
  BY DEF HeapPage
<1>2. Len(pg.slots) \in Nat /\ SlotsOf(pg) = 1 .. Len(pg.slots)
  BY <1>1, LenProperties DEF SlotsOf
<1>3. QED
  BY <1>1, <1>2, ElementOfSeq

\* Heap pages and pages of the tree are different things.
LEMMA Kinds ==
    /\ \A image \in HeapPage : ~IsLeaf(image) /\ image \notin LeafPage
    /\ \A image \in LeafPage : IsLeaf(image) /\ image # ZeroPage
    /\ ZeroPage \in HeapPage /\ EmptyPage \in HeapPage
    /\ EmptyPage.slots = <<>> /\ Len(<<>>) = 0
    /\ Tombstone \in HeapEntry
<1>1. \A image \in HeapPage : ~IsLeaf(image)
  BY DEF HeapPage, IsLeaf
<1>2. \A image \in LeafPage : IsLeaf(image)
  BY DEF LeafPage, IsLeaf
<1>3. <<>> \in Seq(HeapEntry) /\ Len(<<>>) = 0
  BY EmptySeq
<1>4. ZeroPage \in HeapPage /\ EmptyPage \in HeapPage /\ EmptyPage.slots = <<>>
  BY <1>3 DEF HeapPage, ZeroPage, EmptyPage
<1>5. Tombstone \in HeapEntry
  BY DEF HeapEntry
<1>6. QED
  BY <1>1, <1>2, <1>3, <1>4, <1>5

\* A record goes into a slot after all the others.
LEMMA RecordPut ==
    ASSUME NEW pg \in HeapPage, NEW row \in Row, NEW s
    PROVE  /\ KeepsBut(pg, s, WithRecord(pg, row, Size[row]))
           /\ Len(pg.slots) + 1 \notin SlotsOf(pg)
           /\ Len(pg.slots) + 1 \in Nat
<1> DEFINE e == [len |-> Size[row], rec |-> row]
           new == WithRecord(pg, row, Size[row])
           n == Len(pg.slots)
<1>1. /\ pg.slots \in Seq(HeapEntry) /\ pg.free \in Int /\ n \in Nat /\ SlotsOf(pg) = 1 .. n
  BY PageSlots
<1>2. e \in HeapEntry
  BY DEF HeapEntry
<1>3. /\ new.slots = Append(pg.slots, e) /\ new.free \in Int
      /\ new = [slots |-> new.slots, free |-> new.free]
  BY <1>1 DEF WithRecord
<1> HIDE DEF e, new
<1>4. /\ new.slots \in Seq(HeapEntry) /\ Len(new.slots) = n + 1
      /\ \A t \in 1 .. n : new.slots[t] = pg.slots[t]
  BY <1>1, <1>2, <1>3, AppendProperties
<1>5. new \in HeapPage
  BY <1>3, <1>4 DEF HeapPage
<1>6. SlotsOf(new) = 1 .. n + 1
  BY <1>4, <1>5, PageSlots
<1>7. KeepsBut(pg, s, new)
  BY <1>1, <1>4, <1>5, <1>6 DEF KeepsBut
<1>8. QED
  BY <1>1, <1>7 DEF new

EntryIn(pg, s, e) == [pg EXCEPT !.slots[s] = e]

\* Another entry in a slot leaves the other slots alone.
LEMMA EntryPut ==
    ASSUME NEW pg \in HeapPage, NEW s \in SlotsOf(pg), NEW e \in HeapEntry,
           NEW new, new = EntryIn(pg, s, e)
    PROVE  KeepsBut(pg, s, new) /\ s \in SlotsOf(new) /\ new.slots[s] = e
<1> DEFINE slots == [pg.slots EXCEPT ![s] = e]
<1>1. /\ pg.slots \in Seq(HeapEntry) /\ pg.free \in Int
      /\ SlotsOf(pg) = 1 .. Len(pg.slots) /\ s \in 1 .. Len(pg.slots)
  BY PageSlots
<1>2. /\ slots \in Seq(HeapEntry) /\ Len(slots) = Len(pg.slots) /\ slots[s] = e
      /\ \A t \in 1 .. Len(pg.slots) : t # s => slots[t] = pg.slots[t]
  BY <1>1, ExceptSeq
<1>3. new.slots = slots /\ new = [slots |-> slots, free |-> pg.free]
  <2>1. new = [pg EXCEPT !.slots = slots]
    BY DEF EntryIn
  <2> HIDE DEF slots
  <2>2. QED
    BY <2>1 DEF HeapPage
<1> HIDE DEF slots
<1>4. new \in HeapPage
  BY <1>1, <1>2, <1>3 DEF HeapPage
<1>5. SlotsOf(new) = SlotsOf(pg)
  BY <1>1, <1>2, <1>3, LenProperties DEF SlotsOf
<1>6. KeepsBut(pg, s, new)
  BY <1>1, <1>2, <1>3, <1>4, <1>5 DEF KeepsBut
<1>7. QED
  BY <1>2, <1>3, <1>5, <1>6
----------------------------------------------------------------------------
\* Images of the file's pages, of which the list names heap pages.
HeapList(pgs, ids) ==
    /\ pgs \in Seq(Image) /\ ids \in Seq(Nat)
    /\ \A p \in ToSet(ids) : p \in DOMAIN pgs /\ pgs[p] \in HeapPage

\* A row is put into a page of the list, where it takes a slot that was not
\* there, or into a new page, which is listed.
RowPut(pgs, ids, new) ==
    LET p == new.id[1]
    IN  /\ new.pages \in Seq(Image) /\ new.ids \in Seq(Nat) /\ new.id \in RowId
        /\ ToSet(new.ids) = ToSet(ids) \cup {p}
        /\ new.pages[p] \in HeapPage
        /\ \/ /\ p \in ToSet(ids) /\ Len(new.pages) = Len(pgs)
              /\ \A s : KeepsBut(pgs[p], s, new.pages[p])
              /\ new.id[2] \notin SlotsOf(pgs[p])
           \/ p = Len(pgs) + 1 /\ Len(new.pages) = Len(pgs) + 1
        /\ \A q \in DOMAIN pgs : q # p => new.pages[q] = pgs[q]

\* insert() puts a row.
LEMMA InsertPuts ==
    ASSUME NEW pgs, NEW ids, HeapList(pgs, ids), NEW row \in Row
    PROVE  RowPut(pgs, ids, Inserted(pgs, ids, row))
<1> DEFINE new == Inserted(pgs, ids, row)
<1>1. /\ pgs \in Seq(Image) /\ ids \in Seq(Nat)
      /\ Len(pgs) \in Nat /\ DOMAIN pgs = 1 .. Len(pgs)
      /\ Len(ids) \in Nat /\ DOMAIN ids = 1 .. Len(ids)
  BY LenProperties DEF HeapList
<1>2. CASE LastPageFits(pgs, ids, row)
  <2> DEFINE p == Last(ids)
             page == WithRecord(pgs[p], row, Size[row])
  <2>1. new = [pages |-> [pgs EXCEPT ![p] = page], ids |-> ids,
               id |-> <<p, Len(pgs[p].slots) + 1>>]
    BY <1>2 DEF Inserted
  <2>2. p \in ToSet(ids) /\ p \in DOMAIN pgs /\ pgs[p] \in HeapPage /\ p \in Nat
    <3>1. ids # <<>>
      BY <1>2 DEF LastPageFits
    <3>2. Len(ids) \in DOMAIN ids
      BY <1>1, <3>1, EmptySeq
    <3>3. p \in ToSet(ids)
      BY <3>2 DEF Last, ToSet
    <3>4. QED
      BY <1>1, <3>3 DEF HeapList
  <2>3. /\ \A s : KeepsBut(pgs[p], s, page)
        /\ Len(pgs[p].slots) + 1 \notin SlotsOf(pgs[p])
        /\ Len(pgs[p].slots) + 1 \in Nat
    BY <2>2, RecordPut
  <2> HIDE DEF page, p
  <2>4. page \in HeapPage /\ page \in Image
    BY <2>3 DEF KeepsBut, Image
  <2>5. /\ [pgs EXCEPT ![p] = page] \in Seq(Image) /\ [pgs EXCEPT ![p] = page][p] = page
        /\ Len([pgs EXCEPT ![p] = page]) = Len(pgs)
        /\ \A q \in DOMAIN pgs : q # p => [pgs EXCEPT ![p] = page][q] = pgs[q]
    BY <1>1, <2>2, <2>4, ExceptSeq
  <2>6. /\ new.pages = [pgs EXCEPT ![p] = page] /\ new.ids = ids
        /\ new.id = <<p, Len(pgs[p].slots) + 1>>
    BY <2>1
  <2> HIDE DEF new
  <2>7. /\ new.id \in RowId /\ new.id[1] = p
        /\ ToSet(ids) = ToSet(ids) \cup {p}
    BY <2>2, <2>3, <2>6 DEF RowId
  <2>8. /\ new.pages[p] \in HeapPage /\ new.pages \in Seq(Image) /\ new.ids \in Seq(Nat)
        /\ ToSet(new.ids) = ToSet(ids) \cup {p}
        /\ p \in ToSet(ids) /\ Len(new.pages) = Len(pgs)
        /\ new.id[2] \notin SlotsOf(pgs[p])
        /\ \A q \in DOMAIN pgs : q # p => new.pages[q] = pgs[q]
    BY <1>1, <2>2, <2>3, <2>4, <2>5, <2>6, <2>7
  <2>9. \A s : KeepsBut(pgs[p], s, new.pages[p])
    BY <2>3, <2>5, <2>6
  <2>10. RowPut(pgs, ids, new)
    BY <2>7, <2>8, <2>9 DEF RowPut
  <2>11. QED
    BY <2>10 DEF new
<1>3. CASE ~LastPageFits(pgs, ids, row)
  <2> DEFINE p == Len(pgs) + 1
             page == WithRecord(EmptyPage, row, Size[row])
  <2>1. new = [pages |-> Append(pgs, page), ids |-> Append(ids, p), id |-> <<p, 1>>]
    BY <1>3 DEF Inserted
  <2>2. page \in HeapPage /\ page \in Image /\ p \in Nat
    BY <1>1, Kinds, RecordPut DEF KeepsBut, Image
  <2> HIDE DEF page
  <2>3. /\ Append(pgs, page) \in Seq(Image) /\ Len(Append(pgs, page)) = p
        /\ Append(pgs, page)[p] = page
        /\ \A q \in DOMAIN pgs : Append(pgs, page)[q] = pgs[q]
    BY <1>1, <2>2, AppendProperties
  <2>4. /\ Append(ids, p) \in Seq(Nat) /\ Len(Append(ids, p)) = Len(ids) + 1
        /\ Append(ids, p)[Len(ids) + 1] = p
        /\ \A i \in DOMAIN ids : Append(ids, p)[i] = ids[i]
    BY <1>1, <2>2, AppendProperties
  <2>5. ToSet(Append(ids, p)) = ToSet(ids) \cup {p}
    <3> DEFINE longer == Append(ids, p)
    <3>1. DOMAIN longer = 1 .. Len(ids) + 1
      BY <2>4, LenProperties
    <3>2. DOMAIN longer = DOMAIN ids \cup {Len(ids) + 1}
      BY <1>1, <3>1
    <3> HIDE DEF longer
    <3>3. longer[Len(ids) + 1] = p /\ \A i \in DOMAIN ids : longer[i] = ids[i]
      BY <2>4 DEF longer
    <3>4. ToSet(longer) = ToSet(ids) \cup {p}
      BY <3>2, <3>3 DEF ToSet
    <3>5. QED
      BY <3>4 DEF longer
  <2>6. new.pages = Append(pgs, page) /\ new.ids = Append(ids, p) /\ new.id = <<p, 1>>
    BY <2>1
  <2> HIDE DEF new
  <2>7. new.id \in RowId /\ new.id[1] = p
    BY <2>2, <2>6 DEF RowId
  <2>8. QED
    BY <2>2, <2>3, <2>4, <2>5, <2>6, <2>7 DEF RowPut, new
<1>4. QED
  BY <1>2, <1>3

\* The entry of one slot is replaced; everything else stays.
SlotPut(pgs, id, e, new) ==
    /\ new \in Seq(Image) /\ Len(new) = Len(pgs)
    /\ KeepsBut(pgs[id[1]], id[2], new[id[1]])
    /\ Holds(new[id[1]], id, {e})
    /\ \A q \in DOMAIN pgs : q # id[1] => new[q] = pgs[q]

\* A row id that names a slot of a heap page.
Names(pgs, id) == /\ id \in RowId /\ id[1] \in DOMAIN pgs
                  /\ pgs[id[1]] \in HeapPage /\ id[2] \in SlotsOf(pgs[id[1]])

\* The page with another entry in the slot, in its place among the pages.
LEMMA PagePut ==
    ASSUME NEW pgs \in Seq(Image), NEW id, Names(pgs, id), NEW e \in HeapEntry,
           NEW page, page = EntryIn(pgs[id[1]], id[2], e)
    PROVE  SlotPut(pgs, id, e, [pgs EXCEPT ![id[1]] = page])
<1> DEFINE p == id[1]
           s == id[2]
           new == [pgs EXCEPT ![p] = page]
<1>1. p \in DOMAIN pgs /\ pgs[p] \in HeapPage /\ s \in SlotsOf(pgs[p])
  BY DEF Names
<1>2. KeepsBut(pgs[p], s, page) /\ s \in SlotsOf(page) /\ page.slots[s] = e
  <2> DEFINE pg == pgs[p]
  <2>1. pg \in HeapPage /\ s \in SlotsOf(pg) /\ page = EntryIn(pg, s, e)
    BY <1>1
  <2> HIDE DEF pg, p, s
  <2>2. KeepsBut(pg, s, page) /\ s \in SlotsOf(page) /\ page.slots[s] = e
    BY <2>1, EntryPut
  <2>3. QED
    BY <2>2 DEF pg
<1> HIDE DEF p, s
<1>3. page \in HeapPage /\ page \in Image
  BY <1>2 DEF KeepsBut, Image
<1>4. DOMAIN pgs = 1 .. Len(pgs)
  BY LenProperties
<1>5. /\ new \in Seq(Image) /\ Len(new) = Len(pgs) /\ new[p] = page
      /\ \A q \in DOMAIN pgs : q # p => new[q] = pgs[q]
  BY <1>1, <1>3, <1>4, ExceptSeq
<1> HIDE DEF new
<1>6. SlotPut(pgs, id, e, new)
  BY <1>2, <1>3, <1>5 DEF SlotPut, Holds, p, s
<1>7. QED
  BY <1>6 DEF new, p

\* erase() leaves a tombstone in the slot.
LEMMA DeletePuts ==
    ASSUME NEW pgs \in Seq(Image), NEW id, Names(pgs, id)
    PROVE  SlotPut(pgs, id, Tombstone, Deleted(pgs, id))
<1> DEFINE page == EntryIn(pgs[id[1]], id[2], Tombstone)
<1>1. Deleted(pgs, id) = [pgs EXCEPT ![id[1]] = page]
  BY DEF Deleted, WithoutRecord, EntryIn
<1> HIDE DEF page
<1>2. SlotPut(pgs, id, Tombstone, [pgs EXCEPT ![id[1]] = page])
  BY Kinds, PagePut DEF page
<1>3. QED
  BY <1>1, <1>2

\* update() in place puts the new record into the slot.
LEMMA OverwritePuts ==
    ASSUME NEW pgs \in Seq(Image), NEW id, Names(pgs, id), NEW row \in Row
    PROVE  SlotPut(pgs, id, [len |-> Size[row], rec |-> row], Overwritten(pgs, id, row))
<1> DEFINE e == [len |-> Size[row], rec |-> row]
           page == EntryIn(pgs[id[1]], id[2], e)
<1>1. Overwritten(pgs, id, row) = [pgs EXCEPT ![id[1]] = page]
  BY DEF Overwritten, WithReplaced, EntryIn
<1>2. e \in HeapEntry
  BY DEF HeapEntry
<1> HIDE DEF page, e
<1>3. SlotPut(pgs, id, e, [pgs EXCEPT ![id[1]] = page])
  BY <1>2, PagePut DEF page
<1>4. QED
  BY <1>1, <1>3 DEF e

\* What update() leaves of the heap: the row's page keeps its other slots, and
\* unless the row stays in its place the new one is where insert() puts it.
RowChanged(pgs, ids, id, row, new) ==
    /\ new.pages \in Seq(Image) /\ new.ids \in Seq(Nat) /\ new.id \in RowId
    /\ KeepsBut(pgs[id[1]], id[2], new.pages[id[1]])
    /\ IF new.id = id THEN new.ids = ids /\ Len(new.pages) = Len(pgs)
       ELSE /\ new.ids = Inserted(pgs, ids, row).ids /\ new.id = Inserted(pgs, ids, row).id
            /\ Len(new.pages) = Len(Inserted(pgs, ids, row).pages)

\* update() changes a row.
LEMMA UpdateChanges ==
    ASSUME NEW pgs, NEW ids, HeapList(pgs, ids), NEW id, Names(pgs, id), NEW row \in Row
    PROVE  RowChanged(pgs, ids, id, row, Updated(pgs, ids, id, row))
<1> DEFINE upd == Updated(pgs, ids, id, row)
           ins == Inserted(pgs, ids, row)
<1>1. pgs \in Seq(Image) /\ ids \in Seq(Nat) /\ Len(pgs) \in Nat /\ DOMAIN pgs = 1 .. Len(pgs)
  BY LenProperties DEF HeapList
<1>2. CASE StaysInPlace(pgs, id, row)
  <2>1. upd.pages = Overwritten(pgs, id, row) /\ upd.ids = ids /\ upd.id = id
    BY <1>2 DEF Updated
  <2>2. SlotPut(pgs, id, [len |-> Size[row], rec |-> row], Overwritten(pgs, id, row))
    BY <1>1, OverwritePuts
  <2> HIDE DEF upd
  <2>3. RowChanged(pgs, ids, id, row, upd)
    BY <1>1, <2>1, <2>2 DEF RowChanged, SlotPut, Names
  <2>4. QED
    BY <2>3 DEF upd
<1>3. CASE ~StaysInPlace(pgs, id, row)
  <2>1. /\ upd.pages = Deleted(ins.pages, id) /\ upd.ids = ins.ids /\ upd.id = ins.id
    BY <1>3 DEF Updated, Inserted
  <2>2. RowPut(pgs, ids, ins)
    BY InsertPuts
  <2> HIDE DEF upd, ins
  <2>3. KeepsBut(pgs[id[1]], id[2], ins.pages[id[1]]) /\ ins.id # id
    <3>1. CASE id[1] = ins.id[1]
      BY <1>1, <2>2, <3>1 DEF RowPut, Names
    <3>2. CASE id[1] # ins.id[1]
      BY <1>1, <2>2, <3>2 DEF RowPut, Names, KeepsBut
    <3>3. QED
      BY <3>1, <3>2
  <2>4. ins.pages \in Seq(Image) /\ DOMAIN ins.pages = 1 .. Len(ins.pages)
        /\ Len(ins.pages) \in {Len(pgs), Len(pgs) + 1}
    BY <2>2, LenProperties DEF RowPut
  <2>5. Names(ins.pages, id)
    BY <1>1, <2>3, <2>4 DEF Names, KeepsBut
  <2>6. SlotPut(ins.pages, id, Tombstone, Deleted(ins.pages, id))
    BY <2>4, <2>5, DeletePuts
  <2>7. KeepsBut(pgs[id[1]], id[2], upd.pages[id[1]])
    BY <2>1, <2>3, <2>6 DEF KeepsBut, SlotPut
  <2>8. RowChanged(pgs, ids, id, row, upd)
    BY <2>1, <2>2, <2>3, <2>6, <2>7 DEF RowChanged, RowPut, SlotPut, ins
  <2>9. QED
    BY <2>8 DEF upd
<1>4. QED
  BY <1>2, <1>3
----------------------------------------------------------------------------
\* The elements of a sequence, of two in a row and of a tail.
LEMMA ConcatSet ==
    ASSUME NEW S, NEW a \in Seq(S), NEW b \in Seq(S)
    PROVE  a \o b \in Seq(S) /\ ToSet(a \o b) = ToSet(a) \cup ToSet(b)
<1> DEFINE c == a \o b
<1>1. /\ Len(a) \in Nat /\ DOMAIN a = 1 .. Len(a)
      /\ Len(b) \in Nat /\ DOMAIN b = 1 .. Len(b)
  BY LenProperties
<1>2. c \in Seq(S) /\ Len(c) = Len(a) + Len(b)
  BY ConcatProperties
<1>3. \A i \in 1 .. Len(c) : c[i] = IF i <= Len(a) THEN a[i] ELSE b[i - Len(a)]
  BY <1>2, ConcatProperties
<1>4. DOMAIN c = 1 .. Len(c)
  BY <1>2, LenProperties
<1> HIDE DEF c
<1>5. ASSUME NEW x \in ToSet(c)
      PROVE  x \in ToSet(a) \cup ToSet(b)
  <2>1. PICK i \in 1 .. Len(c) : x = c[i]
    BY <1>4, <1>5 DEF ToSet
  <2>2. CASE i <= Len(a)
    <3>1. x = a[i] /\ i \in DOMAIN a
      BY <1>1, <1>2, <1>3, <2>1, <2>2
    <3>2. QED
      BY <3>1 DEF ToSet
  <2>3. CASE ~ (i <= Len(a))
    <3>1. x = b[i - Len(a)] /\ i - Len(a) \in DOMAIN b
      BY <1>1, <1>2, <1>3, <2>1, <2>3
    <3>2. QED
      BY <3>1 DEF ToSet
  <2>4. QED
    BY <2>2, <2>3
<1>6. ASSUME NEW x \in ToSet(a)
      PROVE  x \in ToSet(c)
  <2>1. PICK i \in 1 .. Len(a) : x = a[i]
    BY <1>1 DEF ToSet
  <2>2. i \in 1 .. Len(c) /\ i <= Len(a)
    BY <1>1, <1>2
  <2>3. x = c[i] /\ i \in DOMAIN c
    BY <1>3, <1>4, <2>1, <2>2
  <2>4. QED
    BY <2>3 DEF ToSet
<1>7. ASSUME NEW x \in ToSet(b)
      PROVE  x \in ToSet(c)
  <2>1. PICK i \in 1 .. Len(b) : x = b[i]
    BY <1>1 DEF ToSet
  <2>2. /\ Len(a) + i \in 1 .. Len(c) /\ ~ (Len(a) + i <= Len(a))
        /\ (Len(a) + i) - Len(a) = i
    BY <1>1, <1>2
  <2>3. x = c[Len(a) + i] /\ Len(a) + i \in DOMAIN c
    BY <1>3, <1>4, <2>1, <2>2
  <2>4. QED
    BY <2>3 DEF ToSet
<1>8. QED
  BY <1>2, <1>5, <1>6, <1>7 DEF c

\* Sequences of no and of one element.
LEMMA ShortSeqs ==
    /\ \A S : <<>> \in Seq(S)
    /\ ToSet(<<>>) = {} /\ Len(<<>>) = 0
    /\ \A x : <<x>> \in Seq({x}) /\ ToSet(<<x>>) = {x} /\ Len(<<x>>) = 1 /\ <<x>>[1] = x
<1>1. \A x : <<x>> \in Seq({x}) /\ Len(<<x>>) = 1 /\ <<x>>[1] = x
  OBVIOUS
<1>2. \A x : DOMAIN <<x>> = {1}
  OBVIOUS
<1>3. \A x : ToSet(<<x>>) = {x}
  BY <1>1, <1>2 DEF ToSet
<1>4. \A S : <<>> \in Seq(S) /\ Len(<<>>) = 0 /\ DOMAIN <<>> = {}
  BY EmptySeq, LenProperties
<1>5. ToSet(<<>>) = {}
  BY <1>4 DEF ToSet
<1>6. QED
  BY <1>1, <1>3, <1>4, <1>5

\* The elements of a sequence are elements of what it is a sequence over.
LEMMA SeqSet ==
    ASSUME NEW S, NEW a \in Seq(S)
    PROVE  /\ ToSet(a) \subseteq S
           /\ Len(a) \in Nat /\ DOMAIN a = 1 .. Len(a)
           /\ \A i \in 1 .. Len(a) : a[i] \in ToSet(a)
           /\ \A x \in ToSet(a) : \E i \in 1 .. Len(a) : x = a[i]
<1>1. Len(a) \in Nat /\ DOMAIN a = 1 .. Len(a)
  BY LenProperties
<1>2. \A i \in 1 .. Len(a) : a[i] \in S
  BY ElementOfSeq
<1>3. QED
  BY <1>1, <1>2 DEF ToSet

\* A sequence that is not empty: its head, and what its tail has of it.
LEMMA TailSet ==
    ASSUME NEW S, NEW a \in Seq(S), a # <<>>
    PROVE  /\ Head(a) = a[1] /\ Head(a) \in ToSet(a)
           /\ Tail(a) \in Seq(S) /\ Len(Tail(a)) = Len(a) - 1 /\ Len(a) \in Nat \ {0}
           /\ \A i \in 1 .. Len(a) - 1 : Tail(a)[i] = a[i + 1]
           /\ ToSet(a) = {Head(a)} \cup ToSet(Tail(a))
<1> DEFINE t == Tail(a)
<1>1. Len(a) \in Nat \ {0} /\ DOMAIN a = 1 .. Len(a)
  BY LenProperties, EmptySeq
<1>2. /\ Head(a) = a[1] /\ t \in Seq(S) /\ Len(t) = Len(a) - 1
      /\ \A i \in 1 .. Len(t) : t[i] = a[i + 1]
  BY HeadTailProperties
<1>3. DOMAIN t = 1 .. Len(t)
  BY <1>2, LenProperties
<1> HIDE DEF t
<1>4. ASSUME NEW x \in ToSet(a)
      PROVE  x = Head(a) \/ x \in ToSet(t)
  <2>1. PICK i \in 1 .. Len(a) : x = a[i]
    BY <1>1, <1>4 DEF ToSet
  <2>2. CASE i = 1
    BY <1>2, <2>1, <2>2
  <2>3. CASE i # 1
    <3>1. i - 1 \in 1 .. Len(t) /\ (i - 1) + 1 = i
      BY <1>1, <1>2, <2>1, <2>3
    <3>2. x = t[i - 1]
      BY <1>2, <2>1, <3>1
    <3>3. QED
      BY <1>3, <3>1, <3>2 DEF ToSet
  <2>4. QED
    BY <2>2, <2>3
<1>5. ASSUME NEW x \in ToSet(t)
      PROVE  x \in ToSet(a)
  <2>1. PICK i \in 1 .. Len(t) : x = t[i]
    BY <1>3, <1>5 DEF ToSet
  <2>2. x = a[i + 1] /\ i + 1 \in DOMAIN a
    BY <1>1, <1>2, <2>1
  <2>3. QED
    BY <2>2 DEF ToSet
<1>6. Head(a) \in ToSet(a)
  BY <1>1, <1>2 DEF ToSet
<1>7. QED
  BY <1>1, <1>2, <1>4, <1>5, <1>6 DEF t
----------------------------------------------------------------------------
\* The pages of the state are what TypeOK and the invariant say.
StateSound == Typed /\ TableSound /\ RootSound

\* The page of the tree, which an insertion of its first key makes.
TreePage(pgs) == IF table.root = NoRoot THEN NextPage(pgs) ELSE table.root

\* Writes of the tree alone.
OfTree(page, writes) ==
    /\ writes \in Seq(PageWrite)
    /\ \A w \in ToSet(writes) : w = Error \/ (w.image \in LeafPage /\ w.page = page)

\* Error is a page write that no statement makes otherwise.
LEMMA ErrorWrite ==
    Error \in PageWrite /\ Error.page = 0 /\ Error.image = ZeroPage
BY Kinds DEF PageWrite, Image, Error, Write

\* A tree that can be read maps keys to row ids.
LEMMA EntriesTyped ==
    ASSUME Typed, RootSound, IndexReadable
    PROVE  DOMAIN Entries \subseteq Key /\ Entries \in [DOMAIN Entries -> RowId]
<1>1. CASE table.root = NoRoot
  BY <1>1 DEF Entries
<1>2. CASE table.root # NoRoot
  <2>1. pool[table.root] \in LeafPage
    BY <1>2 DEF RootSound, IndexReadable, Readable
  <2>2. Entries = pool[table.root].leaf
    BY <1>2 DEF Entries
  <2>3. PICK K \in SUBSET Key : pool[table.root].leaf \in [K -> RowId]
    BY <2>1 DEF LeafPage
  <2>4. QED
    BY <2>2, <2>3
<1>3. QED
  BY <1>1, <1>2

\* A page of the tree, in a write of a page.
LEMMA LeafWrite ==
    ASSUME NEW page \in Nat, NEW K \in SUBSET Key, NEW map \in [K -> RowId]
    PROVE  OfTree(page, <<Write(page, Leaf(map))>>)
<1> DEFINE w == Write(page, Leaf(map))
<1>1. w.page = page /\ w.image = Leaf(map) /\ w = [page |-> page, image |-> w.image]
  BY DEF Write
<1>2. Leaf(map) \in LeafPage
  BY DEF Leaf, LeafPage
<1>3. w \in PageWrite
  BY <1>1, <1>2 DEF PageWrite, Image
<1> HIDE DEF w
<1>4. <<w>> \in Seq(PageWrite) /\ ToSet(<<w>>) = {w}
  BY <1>3, ShortSeqs
<1>5. OfTree(page, <<w>>)
  BY <1>1, <1>2, <1>4 DEF OfTree
<1>6. QED
  BY <1>5 DEF w

\* Two lots of such writes, one after the other.
LEMMA OfTreeConcat ==
    ASSUME NEW page, NEW a, OfTree(page, a), NEW b, OfTree(page, b)
    PROVE  OfTree(page, a \o b)
<1>1. a \in Seq(PageWrite) /\ b \in Seq(PageWrite)
  BY DEF OfTree
<1>2. a \o b \in Seq(PageWrite) /\ ToSet(a \o b) = ToSet(a) \cup ToSet(b)
  BY <1>1, ConcatSet
<1>3. QED
  BY <1>2 DEF OfTree

\* EntryWrites writes the tree's page only.
LEMMA EntryWritesTree ==
    ASSUME StateSound, NEW pgs, Len(pgs) \in Nat,
           NEW old \in Key \cup {Null}, NEW new \in Key \cup {Null}, NEW id \in RowId
    PROVE  OfTree(TreePage(pgs), EntryWrites(pgs, old, new, id))
<1> DEFINE kept == Restrict(Entries, DOMAIN Entries \ {old})
           page == TreePage(pgs)
           removal == IF old = Null \/ table.root = NoRoot THEN <<>>
                      ELSE <<Write(page, Leaf(kept))>>
           insertion == IF new = Null THEN <<>> ELSE <<Write(page, Leaf(With(kept, new, id)))>>
<1>1. page \in Nat
  BY DEF TreePage, NextPage, StateSound, Typed, Table
<1>2. OfTree(page, <<>>)
  BY ShortSeqs DEF OfTree
<1>3. CASE {old, new} # {Null} /\ ~IndexReadable
  <2>1. <<Error>> \in Seq(PageWrite) /\ ToSet(<<Error>>) = {Error}
    BY ErrorWrite, ShortSeqs
  <2>2. EntryWrites(pgs, old, new, id) = <<Error>>
    BY <1>3 DEF EntryWrites
  <2>3. QED
    BY <2>1, <2>2 DEF OfTree
<1>4. CASE {old, new} = {Null}
  <2>1. EntryWrites(pgs, old, new, id) = <<>> \o <<>>
    BY <1>4 DEF EntryWrites
  <2>2. QED
    BY <1>2, <2>1, OfTreeConcat
<1>5. CASE {old, new} # {Null} /\ IndexReadable
  <2>1. DOMAIN Entries \subseteq Key /\ Entries \in [DOMAIN Entries -> RowId]
    BY <1>5, EntriesTyped DEF StateSound
  <2>2. DOMAIN kept \subseteq Key /\ kept \in [DOMAIN kept -> RowId]
    BY <2>1 DEF Restrict
  <2>3. EntryWrites(pgs, old, new, id) = removal \o insertion
    BY <1>5 DEF EntryWrites, TreePage
  <2> HIDE DEF page, kept
  <2>4. OfTree(page, removal)
    BY <1>1, <1>2, <2>2, LeafWrite
  <2>5. OfTree(page, insertion)
    <3>1. CASE new = Null
      BY <1>2, <3>1
    <3>2. CASE new # Null
      <4> DEFINE K == DOMAIN kept \cup {new}
                 map == With(kept, new, id)
      <4>1. K \in SUBSET Key
        BY <2>2, <3>2
      <4>2. map \in [K -> RowId]
        BY <2>2 DEF With
      <4> HIDE DEF K, map
      <4>3. OfTree(page, <<Write(page, Leaf(map))>>)
        BY <1>1, <4>1, <4>2, LeafWrite
      <4>4. QED
        BY <3>2, <4>3 DEF map
    <3>3. QED
      BY <3>1, <3>2
  <2> HIDE DEF removal, insertion
  <2>6. OfTree(page, removal \o insertion)
    BY <2>4, <2>5, OfTreeConcat
  <2>7. QED
    BY <2>3, <2>6 DEF page
<1>6. QED
  BY <1>3, <1>4, <1>5
----------------------------------------------------------------------------
\* A list of heap pages of the pool, without the tree's page.
OpenList(ids) == HeapList(pool, ids) /\ table.root \notin ToSet(ids)

\* A new image of a page has its slots, all but that of row id with what they had.
KeptBy(w, id) ==
    w.page \in DOMAIN pool /\ pool[w.page] \in HeapPage =>
       \A s \in SlotsOf(pool[w.page]) :
          /\ s \in SlotsOf(w.image)
          /\ <<w.page, s>> # id => w.image.slots[s] = pool[w.page].slots[s]

\* A write of a statement that touches row id, has the list ids and writes the
\* tree's page `leaf`.
GoodWrite(w, ids, id, leaf) ==
    \/ w = Error
    \/ w.image \in HeapPage /\ w.page \in ToSet(ids) /\ w.page # 0 /\ KeptBy(w, id)
    \/ w.image \in LeafPage /\ w.page = leaf

\* At most two new pages: the first write is that of the first of them.
PagesFollow(writes) ==
    \A w \in ToSet(writes) : \/ w.page <= Len(pool) + 1
                             \/ w.page = Len(pool) + 2 /\ Head(writes).page = Len(pool) + 1

\* What a statement's step adds to its list is the page of its first write.
ListGrows(writes, before, ids) ==
    /\ ToSet(before) \subseteq ToSet(ids)
    /\ \A p \in ToSet(ids) \ ToSet(before) :
          /\ p = Len(pool) + 1 /\ writes # <<>>
          /\ Head(writes) = Error \/ (Head(writes).page = p /\ Head(writes).image \in HeapPage)

\* The writes of a statement's step, which takes the list `before` to ids.
Batch(writes, before, ids, id) ==
    /\ writes \in Seq(PageWrite) /\ ids \in Seq(Nat)
    /\ ListGrows(writes, before, ids)
    /\ writes # <<>> /\ Head(writes) # Error => PagesFollow(writes)
    /\ \E leaf \in Nat :
          /\ IF table.root # NoRoot THEN leaf = table.root
             ELSE leaf > Len(pool) /\ leaf \notin ToSet(ids)
          /\ \A w \in ToSet(writes) : GoodWrite(w, ids, id, leaf)

\* The head of a longer sequence.
LEMMA HeadConcat ==
    ASSUME NEW S, NEW a \in Seq(S), a # <<>>, NEW b \in Seq(S)
    PROVE  a \o b # <<>> /\ Head(a \o b) = Head(a)
<1> DEFINE c == a \o b
<1>1. Len(a) \in Nat \ {0} /\ Len(b) \in Nat
  BY LenProperties, EmptySeq
<1>2. /\ c \in Seq(S) /\ Len(c) = Len(a) + Len(b)
      /\ \A i \in 1 .. Len(a) + Len(b) : c[i] = IF i <= Len(a) THEN a[i] ELSE b[i - Len(a)]
  BY ConcatProperties
<1> HIDE DEF c
<1>3. c[1] = a[1] /\ c # <<>>
  BY <1>1, <1>2, ShortSeqs
<1>4. Head(c) = c[1] /\ Head(a) = a[1]
  BY <1>2, <1>3, TailSet
<1>5. QED
  BY <1>3, <1>4 DEF c

\* The last element of a longer sequence, and those before it.
LEMMA LastConcat ==
    ASSUME NEW S, NEW a \in Seq(S), NEW x \in S,
           NEW b \in Seq(S), Len(b) = 1, b[1] = x
    PROVE  /\ a \o b # <<>> /\ Last(a \o b) = x
           /\ \A k \in 1 .. Len(a \o b) - 1 : (a \o b)[k] \in ToSet(a)
<1> DEFINE c == a \o b
<1>1. /\ c \in Seq(S) /\ Len(c) = Len(a) + Len(b)
      /\ \A i \in 1 .. Len(a) + Len(b) : c[i] = IF i <= Len(a) THEN a[i] ELSE b[i - Len(a)]
  BY ConcatProperties
<1>2. /\ Len(a) \in Nat
      /\ \A i \in 1 .. Len(a) : a[i] \in ToSet(a)
  BY SeqSet
<1> HIDE DEF c
<1>3. c # <<>> /\ Last(c) = x
  <2>1. c[Len(a) + 1] = b[1]
    BY <1>1, <1>2
  <2>2. QED
    BY <1>1, <1>2, <2>1, ShortSeqs DEF Last
<1>4. \A k \in 1 .. Len(c) - 1 : c[k] \in ToSet(a)
  BY <1>1, <1>2
<1>5. QED
  BY <1>3, <1>4 DEF c

\* The write of an insertion into the heap.
LEMMA HeapWritesOne ==
    ASSUME StateSound, NEW ids, OpenList(ids), NEW row \in Row, NEW id,
           NEW new, new = Inserted(pool, ids, row)
    PROVE  \E w \in PageWrite :
              /\ HeapWrites(ids, row) = <<w>>
              /\ \/ w = Error
                 \/ w.page = new.id[1] /\ w.image \in HeapPage /\ KeptBy(w, id)
<1> DEFINE w == Write(new.id[1], new.pages[new.id[1]])
<1>1. CASE TooLarge(row)
  BY <1>1, ErrorWrite DEF HeapWrites
<1>2. CASE ~TooLarge(row)
  <2>1. HeapWrites(ids, row) = <<w>>
    BY <1>2 DEF HeapWrites
  <2>2. RowPut(pool, ids, new)
    BY InsertPuts DEF OpenList
  <2>3. /\ w.page = new.id[1] /\ w.image = new.pages[new.id[1]]
        /\ w = [page |-> w.page, image |-> w.image]
    BY DEF Write
  <2> HIDE DEF w
  <2>4. w.page \in Nat /\ w.image \in HeapPage
    BY <2>2, <2>3 DEF RowPut, RowId
  <2>5. w \in PageWrite
    BY <2>3, <2>4 DEF PageWrite, Image
  <2>6. Len(pool) \in Nat /\ DOMAIN pool = 1 .. Len(pool)
    BY LenProperties DEF StateSound, Typed
  <2>7. KeptBy(w, id)
    <3>1. SUFFICES ASSUME w.page \in DOMAIN pool, pool[w.page] \in HeapPage,
                          NEW s \in SlotsOf(pool[w.page])
                   PROVE  s \in SlotsOf(w.image) /\ w.image.slots[s] = pool[w.page].slots[s]
      BY DEF KeptBy
    <3>2. \A t : KeepsBut(pool[w.page], t, w.image)
      BY <2>2, <2>3, <2>6, <3>1 DEF RowPut
    <3>3. KeepsBut(pool[w.page], s + 1, w.image) /\ s # s + 1
      <4>1. s \in Nat
        BY <3>1, PageSlots
      <4>2. QED
        BY <3>2, <4>1
    <3>4. QED
      BY <3>1, <3>3 DEF KeepsBut
  <2>8. QED
    BY <2>1, <2>3, <2>4, <2>5, <2>7
<1>3. QED
  BY <1>1, <1>2

\* Writes of heap pages of the list.
OfHeap(heap, ids, id) ==
    /\ heap \in Seq(PageWrite) /\ heap # <<>>
    /\ \A w \in ToSet(heap) :
          \/ w = Error
          \/ w.image \in HeapPage /\ w.page \in ToSet(ids) /\ w.page # 0 /\ KeptBy(w, id)

\* Pages of the list are pages of the file, of which at most one is new.
Within(pgs, ids) ==
    /\ Len(pgs) \in {Len(pool), Len(pool) + 1}
    /\ \A p \in ToSet(ids) : p <= Len(pgs)

\* Writes of the heap, then of the tree, where pgs are the pages in between.
LEMMA HeapThenTree ==
    ASSUME StateSound, NEW before, NEW ids \in Seq(Nat), table.root \notin ToSet(ids),
           NEW pgs, Within(pgs, ids), NEW id,
           NEW heap, OfHeap(heap, ids, id), ListGrows(heap, before, ids),
           Len(pgs) # Len(pool) => Head(heap) = Error \/ Head(heap).page = Len(pool) + 1,
           NEW tree, OfTree(TreePage(pgs), tree)
    PROVE  Batch(heap \o tree, before, ids, id)
<1> DEFINE writes == heap \o tree
           leaf == TreePage(pgs)
<1>1. heap \in Seq(PageWrite) /\ heap # <<>> /\ tree \in Seq(PageWrite)
  BY DEF OfHeap, OfTree
<1>2. writes \in Seq(PageWrite) /\ ToSet(writes) = ToSet(heap) \cup ToSet(tree)
  BY <1>1, ConcatSet
<1>3. writes # <<>> /\ Head(writes) = Head(heap)
  BY <1>1, HeadConcat
<1>4. Len(pool) \in Nat /\ DOMAIN pool = 1 .. Len(pool) /\ Len(pgs) \in Nat
  BY LenProperties DEF StateSound, Typed, Within
<1> HIDE DEF writes
<1>5. /\ leaf \in Nat
      /\ table.root # NoRoot => leaf = table.root /\ leaf <= Len(pool)
      /\ table.root = NoRoot => leaf = Len(pgs) + 1
  <2>1. table.root \in Nat /\ (table.root # NoRoot => table.root \in DOMAIN file)
    BY DEF StateSound, Typed, RootSound, Table
  <2>2. DOMAIN file = 1 .. Len(pool)
    BY LenProperties DEF StateSound, Typed
  <2>3. QED
    BY <1>4, <2>1, <2>2 DEF TreePage, NextPage
<1>6. \A w \in ToSet(writes) : GoodWrite(w, ids, id, leaf)
  BY <1>2 DEF GoodWrite, OfHeap, OfTree
<1>7. ASSUME Head(writes) # Error
      PROVE  PagesFollow(writes)
  <2>1. SUFFICES ASSUME NEW w \in ToSet(writes)
                 PROVE  \/ w.page <= Len(pool) + 1
                        \/ w.page = Len(pool) + 2 /\ Head(writes).page = Len(pool) + 1
    BY DEF PagesFollow
  <2>2. CASE w = Error
    BY <1>4, <2>2, ErrorWrite
  <2>3. CASE w.page \in ToSet(ids)
    <3>1. w.page <= Len(pgs) /\ w.page \in Nat
      BY <2>3, SeqSet DEF Within
    <3>2. QED
      BY <1>4, <3>1 DEF Within
  <2>4. CASE w.page = leaf
    BY <1>3, <1>4, <1>5, <1>7, <2>4 DEF Within
  <2>5. QED
    BY <1>6, <2>2, <2>3, <2>4 DEF GoodWrite
<1>8. ListGrows(writes, before, ids)
  BY <1>3 DEF ListGrows
<1>9. IF table.root # NoRoot THEN leaf = table.root
      ELSE leaf > Len(pool) /\ leaf \notin ToSet(ids)
  <2>1. CASE table.root = NoRoot
    <3>1. leaf = Len(pgs) + 1 /\ leaf > Len(pool)
      BY <1>4, <1>5, <2>1 DEF Within
    <3>2. leaf \notin ToSet(ids)
      BY <1>4, <3>1 DEF Within
    <3>3. QED
      BY <2>1, <3>1, <3>2
  <2>2. QED
    BY <1>5, <2>1
<1> HIDE DEF leaf
<1>10. Batch(writes, before, ids, id)
  BY <1>2, <1>3, <1>5, <1>6, <1>7, <1>8, <1>9 DEF Batch
<1>11. QED
  BY <1>10 DEF writes

\* An insertion puts at most one page to the end of the file and of the list.
LEMMA InsertWithin ==
    ASSUME StateSound, NEW ids, OpenList(ids), NEW new, RowPut(pool, ids, new)
    PROVE  /\ new.ids \in Seq(Nat) /\ Within(new.pages, new.ids)
           /\ table.root \notin ToSet(new.ids) /\ ToSet(ids) \subseteq ToSet(new.ids)
           /\ new.id[1] \in ToSet(new.ids) /\ new.id[1] \in Nat \ {0} /\ new.id \in RowId
           /\ \A p \in ToSet(new.ids) \ ToSet(ids) : p = Len(pool) + 1 /\ p = new.id[1]
           /\ Len(new.pages) # Len(pool) => new.id[1] = Len(pool) + 1
           /\ Len(new.pages) \in Nat
<1>1. /\ Len(pool) \in Nat /\ DOMAIN pool = 1 .. Len(pool)
      /\ DOMAIN file = 1 .. Len(pool)
  BY LenProperties DEF StateSound, Typed
<1>2. \A p \in ToSet(ids) : p \in 1 .. Len(pool)
  BY <1>1 DEF OpenList, HeapList
<1>3. table.root = 0 \/ table.root \in 1 .. Len(pool)
  BY <1>1 DEF StateSound, RootSound, NoRoot
<1>4. /\ new.ids \in Seq(Nat) /\ new.id \in RowId
      /\ ToSet(new.ids) = ToSet(ids) \cup {new.id[1]}
      /\ \/ new.id[1] \in ToSet(ids) /\ Len(new.pages) = Len(pool)
         \/ new.id[1] = Len(pool) + 1 /\ Len(new.pages) = Len(pool) + 1
  BY DEF RowPut
<1>5. Within(new.pages, new.ids)
  BY <1>1, <1>2, <1>4 DEF Within
<1>6. table.root \notin ToSet(new.ids)
  BY <1>1, <1>3, <1>4 DEF OpenList
<1>7. QED
  BY <1>1, <1>2, <1>4, <1>5, <1>6

\* What an INSERT writes.
LEMMA InsertBatch ==
    ASSUME StateSound, NEW ids, ids = table.ids, OpenList(ids), NEW row \in Row, NEW id
    PROVE  Batch(InsertWrites(row), ids, Inserted(pool, ids, row).ids, id)
<1> DEFINE new == Inserted(pool, ids, row)
           tree == EntryWrites(new.pages, Null, row.key, new.id)
<1>1. RowPut(pool, ids, new)
  BY InsertPuts DEF OpenList
<1>2. InsertWrites(row) = HeapWrites(ids, row) \o tree
  BY DEF InsertWrites
<1>3. PICK w \in PageWrite :
         /\ HeapWrites(ids, row) = <<w>>
         /\ w = Error \/ (w.page = new.id[1] /\ w.image \in HeapPage /\ KeptBy(w, id))
  <2> HIDE DEF new
  <2>1. QED
    BY HeapWritesOne DEF new
<1> HIDE DEF new
<1>4. /\ new.ids \in Seq(Nat) /\ Within(new.pages, new.ids)
      /\ table.root \notin ToSet(new.ids) /\ ToSet(ids) \subseteq ToSet(new.ids)
      /\ new.id[1] \in ToSet(new.ids) /\ new.id[1] \in Nat \ {0} /\ new.id \in RowId
      /\ \A p \in ToSet(new.ids) \ ToSet(ids) : p = Len(pool) + 1 /\ p = new.id[1]
      /\ Len(new.pages) # Len(pool) => new.id[1] = Len(pool) + 1
      /\ Len(new.pages) \in Nat
  BY <1>1, InsertWithin
<1>5. row.key \in Key \cup {Null}
  BY DEF Row
<1>6. OfTree(TreePage(new.pages), tree)
  BY <1>4, <1>5, EntryWritesTree
<1> HIDE DEF tree
<1>7. <<w>> \in Seq(PageWrite) /\ ToSet(<<w>>) = {w} /\ <<w>> # <<>> /\ Head(<<w>>) = w
  BY <1>3, ShortSeqs
<1>8. OfHeap(<<w>>, new.ids, id)
  BY <1>3, <1>4, <1>7 DEF OfHeap
<1>9. ListGrows(<<w>>, ids, new.ids)
  BY <1>3, <1>4, <1>7 DEF ListGrows
<1>10. Len(new.pages) # Len(pool) => Head(<<w>>) = Error \/ Head(<<w>>).page = Len(pool) + 1
  BY <1>3, <1>4, <1>7
<1>11. Batch(<<w>> \o tree, ids, new.ids, id)
  BY <1>4, <1>6, <1>8, <1>9, <1>10, HeapThenTree
<1>12. QED
  BY <1>2, <1>3, <1>11 DEF new

\* A write of the page of a row that keeps the page's other slots.
LEMMA RowWrite ==
    ASSUME StateSound, NEW ids, OpenList(ids), NEW id, Names(pool, id), id[1] \in ToSet(ids),
           NEW image, KeepsBut(pool[id[1]], id[2], image)
    PROVE  LET w == Write(id[1], image)
           IN  /\ w \in PageWrite /\ w.page = id[1] /\ w.image = image /\ w.image \in HeapPage
               /\ KeptBy(w, id) /\ w.page # 0 /\ w.page <= Len(pool)
<1> DEFINE w == Write(id[1], image)
<1>1. w.page = id[1] /\ w.image = image /\ w = [page |-> w.page, image |-> w.image]
  BY DEF Write
<1>2. DOMAIN pool = 1 .. Len(pool)
  BY LenProperties DEF StateSound, Typed
<1>3. id[1] \in 1 .. Len(pool) /\ id = <<id[1], id[2]>>
  BY <1>2 DEF Names, RowId
<1>4. image \in HeapPage
  BY DEF KeepsBut
<1> HIDE DEF w
<1>5. w \in PageWrite
  BY <1>1, <1>3, <1>4 DEF PageWrite, Image
<1>6. KeptBy(w, id)
  BY <1>1, <1>3 DEF KeptBy, KeepsBut
<1>7. QED
  BY <1>1, <1>3, <1>4, <1>5, <1>6 DEF w

\* An update puts at most one page to the end of the file and of the list.
LEMMA UpdateWithin ==
    ASSUME StateSound, NEW ids, OpenList(ids), NEW id, Names(pool, id), NEW row \in Row,
           NEW upd, RowChanged(pool, ids, id, row, upd)
    PROVE  /\ upd.ids \in Seq(Nat) /\ Within(upd.pages, upd.ids)
           /\ table.root \notin ToSet(upd.ids) /\ ToSet(ids) \subseteq ToSet(upd.ids)
           /\ upd.id \in RowId /\ Len(upd.pages) \in Nat
           /\ upd.id = id => upd.ids = ids /\ Len(upd.pages) = Len(pool)
           /\ upd.id # id => /\ upd.id[1] \in ToSet(upd.ids) /\ upd.id[1] \in Nat \ {0}
                             /\ upd.id[1] = Inserted(pool, ids, row).id[1]
           /\ \A p \in ToSet(upd.ids) \ ToSet(ids) : /\ p = Len(pool) + 1 /\ upd.id # id
                                                     /\ p = upd.id[1]
           /\ Len(upd.pages) # Len(pool) => upd.id # id /\ upd.id[1] = Len(pool) + 1
<1> DEFINE ins == Inserted(pool, ids, row)
<1>1. CASE upd.id = id
  <2>1. upd.ids = ids /\ Len(upd.pages) = Len(pool) /\ upd.id \in RowId
    BY <1>1 DEF RowChanged
  <2>2. Len(pool) \in Nat /\ DOMAIN pool = 1 .. Len(pool)
    BY LenProperties DEF StateSound, Typed
  <2>3. \A p \in ToSet(ids) : p <= Len(pool)
    BY <2>2 DEF OpenList, HeapList
  <2>4. Within(upd.pages, upd.ids)
    BY <2>1, <2>3 DEF Within
  <2>5. QED
    BY <1>1, <2>1, <2>2, <2>4 DEF OpenList, HeapList
<1>2. CASE upd.id # id
  <2>1. RowPut(pool, ids, ins)
    BY InsertPuts DEF OpenList
  <2>2. upd.ids = ins.ids /\ upd.id = ins.id /\ Len(upd.pages) = Len(ins.pages)
    BY <1>2 DEF RowChanged
  <2> HIDE DEF ins
  <2>3. /\ ins.ids \in Seq(Nat) /\ Within(ins.pages, ins.ids)
        /\ table.root \notin ToSet(ins.ids) /\ ToSet(ids) \subseteq ToSet(ins.ids)
        /\ ins.id[1] \in ToSet(ins.ids) /\ ins.id[1] \in Nat \ {0} /\ ins.id \in RowId
        /\ \A p \in ToSet(ins.ids) \ ToSet(ids) : p = Len(pool) + 1 /\ p = ins.id[1]
        /\ Len(ins.pages) # Len(pool) => ins.id[1] = Len(pool) + 1
        /\ Len(ins.pages) \in Nat
    BY <2>1, InsertWithin
  <2>4. Within(upd.pages, upd.ids)
    BY <2>2, <2>3 DEF Within
  <2>5. QED
    BY <1>2, <2>2, <2>3, <2>4 DEF ins
<1>3. QED
  BY <1>1, <1>2

\* What an UPDATE writes for a row.
LEMMA UpdateBatch ==
    ASSUME StateSound, NEW ids, OpenList(ids), NEW h \in Hit, Names(pool, h.id),
           h.id[1] \in ToSet(ids), NEW row \in Row
    PROVE  Batch(UpdateWrites(ids, h, row), ids, Updated(pool, ids, h.id, row).ids, h.id)
<1> DEFINE upd == Updated(pool, ids, h.id, row)
           move == IF upd.id = h.id THEN <<>> ELSE HeapWrites(ids, row)
           w == Write(h.id[1], upd.pages[h.id[1]])
           heap == move \o <<w>>
           tree == EntryWrites(upd.pages, h.row.key, row.key, upd.id)
           taken == /\ row.key \notin {h.row.key, Null}
                    /\ ~IndexReadable \/ row.key \in DOMAIN Entries
<1>1. RowChanged(pool, ids, h.id, row, upd)
  BY UpdateChanges DEF OpenList
<1>2. UpdateWrites(ids, h, row) = IF taken THEN <<Error>> ELSE heap \o tree
  BY DEF UpdateWrites
<1>3. ASSUME upd.id # h.id
      PROVE  \E v \in PageWrite :
                /\ move = <<v>>
                /\ \/ v = Error
                   \/ /\ v.page = Inserted(pool, ids, row).id[1]
                      /\ v.image \in HeapPage /\ KeptBy(v, h.id)
  <2>1. move = HeapWrites(ids, row)
    BY <1>3
  <2>2. QED
    BY <2>1, HeapWritesOne
<1>4. upd.id = h.id => move = <<>>
  OBVIOUS
<1> HIDE DEF taken, move, upd
<1>5. /\ upd.ids \in Seq(Nat) /\ Within(upd.pages, upd.ids)
      /\ table.root \notin ToSet(upd.ids) /\ ToSet(ids) \subseteq ToSet(upd.ids)
      /\ upd.id \in RowId /\ Len(upd.pages) \in Nat
      /\ upd.id = h.id => upd.ids = ids /\ Len(upd.pages) = Len(pool)
      /\ upd.id # h.id => /\ upd.id[1] \in ToSet(upd.ids) /\ upd.id[1] \in Nat \ {0}
                          /\ upd.id[1] = Inserted(pool, ids, row).id[1]
      /\ \A p \in ToSet(upd.ids) \ ToSet(ids) : /\ p = Len(pool) + 1 /\ upd.id # h.id
                                                /\ p = upd.id[1]
      /\ Len(upd.pages) # Len(pool) => upd.id # h.id /\ upd.id[1] = Len(pool) + 1
  BY <1>1, UpdateWithin
<1>6. CASE taken
  <2>1. /\ <<Error>> \in Seq(PageWrite) /\ ToSet(<<Error>>) = {Error} /\ <<Error>> # <<>>
        /\ Head(<<Error>>) = Error
    BY ErrorWrite, ShortSeqs
  <2>2. OfHeap(<<Error>>, upd.ids, h.id)
    BY <2>1 DEF OfHeap
  <2>3. ListGrows(<<Error>>, ids, upd.ids)
    BY <1>5, <2>1 DEF ListGrows
  <2>4. OfTree(TreePage(upd.pages), <<>>)
    BY ShortSeqs DEF OfTree
  <2>5. Batch(<<Error>> \o <<>>, ids, upd.ids, h.id)
    BY <1>5, <2>1, <2>2, <2>3, <2>4, HeapThenTree
  <2>6. <<Error>> \o <<>> = <<Error>>
    BY <2>1, ConcatEmptySeq
  <2>7. QED
    BY <1>2, <1>6, <2>5, <2>6 DEF upd
<1>7. CASE ~taken
  <2>1. /\ w \in PageWrite /\ w.page = h.id[1] /\ w.image \in HeapPage
        /\ KeptBy(w, h.id) /\ w.page # 0
    BY <1>1, RowWrite DEF RowChanged
  <2>2. row.key \in Key \cup {Null} /\ h.row.key \in Key \cup {Null}
    BY DEF Row, Hit
  <2>3. OfTree(TreePage(upd.pages), tree)
    BY <1>5, <2>2, EntryWritesTree
  <2> HIDE DEF tree, w
  <2>4. <<w>> \in Seq(PageWrite) /\ ToSet(<<w>>) = {w} /\ <<w>> # <<>>
    BY <2>1, ShortSeqs
  <2>5. w.page \in ToSet(upd.ids)
    BY <1>5, <2>1
  <2>6. CASE upd.id = h.id
    <3>1. heap = <<w>>
      BY <1>4, <2>4, <2>6, ConcatEmptySeq
    <3> HIDE DEF heap
    <3>2. OfHeap(heap, upd.ids, h.id)
      BY <2>1, <2>4, <2>5, <3>1 DEF OfHeap
    <3>3. ListGrows(heap, ids, upd.ids)
      BY <1>5, <2>6 DEF ListGrows
    <3>4. Batch(heap \o tree, ids, upd.ids, h.id)
      BY <1>5, <2>3, <2>6, <3>2, <3>3, HeapThenTree
    <3>5. QED
      BY <1>2, <1>7, <3>4 DEF upd
  <2>7. CASE upd.id # h.id
    <3>1. PICK v \in PageWrite :
             /\ move = <<v>>
             /\ v = Error \/ (v.page = upd.id[1] /\ v.image \in HeapPage /\ KeptBy(v, h.id))
      BY <1>3, <1>5, <2>7
    <3>2. /\ <<v>> \in Seq(PageWrite) /\ ToSet(<<v>>) = {v} /\ <<v>> # <<>>
          /\ Head(<<v>>) = v
      BY <3>1, ShortSeqs
    <3>3. heap \in Seq(PageWrite) /\ ToSet(heap) = {v, w}
      <4> DEFINE last == <<w>>
      <4>1. /\ last \in Seq(PageWrite) /\ move \in Seq(PageWrite)
            /\ ToSet(move) = {v} /\ ToSet(last) = {w}
        BY <2>4, <3>1, <3>2
      <4> HIDE DEF last
      <4>2. move \o last \in Seq(PageWrite) /\ ToSet(move \o last) = {v} \cup {w}
        BY <4>1, ConcatSet
      <4>3. QED
        BY <4>2 DEF last
    <3>4. heap # <<>> /\ Head(heap) = v
      BY <2>4, <3>1, <3>2, HeadConcat
    <3> HIDE DEF heap
    <3>5. v # Error => v.page \in ToSet(upd.ids) /\ v.page # 0
      BY <1>5, <2>7, <3>1
    <3>6. OfHeap(heap, upd.ids, h.id)
      BY <2>1, <2>5, <3>1, <3>3, <3>4, <3>5 DEF OfHeap
    <3>7. ListGrows(heap, ids, upd.ids)
      BY <1>5, <3>1, <3>4 DEF ListGrows
    <3>8. Len(upd.pages) # Len(pool) => Head(heap) = Error \/ Head(heap).page = Len(pool) + 1
      BY <1>5, <3>1, <3>4
    <3>9. Batch(heap \o tree, ids, upd.ids, h.id)
      BY <1>5, <2>3, <3>6, <3>7, <3>8, HeapThenTree
    <3>10. QED
      BY <1>2, <1>7, <3>9 DEF upd
  <2>8. QED
    BY <2>6, <2>7
<1>8. QED
  BY <1>6, <1>7

\* What a DELETE writes for a row: pages of the tree, then the row's page.
RowLast(writes, id) ==
    /\ writes # <<>> /\ Last(writes).page = id[1]
    /\ Holds(Last(writes).image, id, {Tombstone})
    /\ \A k \in 1 .. Len(writes) - 1 : writes[k] = Error \/ writes[k].image \in LeafPage

\* The writes that delete a row of the list are such a batch and touch no other
\* slot; the last of them puts the tombstone.
LEMMA DeleteBatch ==
    ASSUME StateSound, NEW ids, OpenList(ids), NEW h \in Hit, Names(pool, h.id),
           h.id[1] \in ToSet(ids)
    PROVE  Batch(DeleteWrites(h), ids, ids, h.id) /\ RowLast(DeleteWrites(h), h.id)
<1> DEFINE image == Deleted(pool, h.id)[h.id[1]]
           w == Write(h.id[1], image)
           tree == EntryWrites(pool, h.row.key, Null, h.id)
           leaf == TreePage(pool)
           last == <<w>>
           writes == tree \o last
<1>1. DeleteWrites(h) = writes
  BY DEF DeleteWrites
<1>2. /\ Len(pool) \in Nat /\ DOMAIN pool = 1 .. Len(pool) /\ DOMAIN file = 1 .. Len(pool)
      /\ pool \in Seq(Image) /\ table.root \in Nat
  BY LenProperties DEF StateSound, Typed, Table
<1>3. KeepsBut(pool[h.id[1]], h.id[2], image) /\ Holds(image, h.id, {Tombstone})
  BY <1>2, DeletePuts DEF SlotPut
<1>4. /\ w \in PageWrite /\ w.page = h.id[1] /\ w.image = image /\ w.image \in HeapPage
      /\ KeptBy(w, h.id) /\ w.page # 0 /\ w.page <= Len(pool)
  <2> HIDE DEF image
  <2>1. QED
    BY <1>3, RowWrite
<1>5. OfTree(leaf, tree)
  <2>1. h.row.key \in Key \cup {Null} /\ h.id \in RowId
    BY DEF Hit, Row
  <2>2. QED
    BY <1>2, <2>1, EntryWritesTree
<1>6. /\ leaf \in Nat /\ leaf <= Len(pool) + 1
      /\ IF table.root # NoRoot THEN leaf = table.root
         ELSE leaf > Len(pool) /\ leaf \notin ToSet(ids)
  <2>1. table.root # NoRoot => table.root <= Len(pool)
    BY <1>2 DEF StateSound, RootSound
  <2>2. \A p \in ToSet(ids) : p <= Len(pool)
    BY <1>2 DEF OpenList, HeapList
  <2>3. QED
    BY <1>2, <2>1, <2>2 DEF TreePage, NextPage
<1> HIDE DEF w, tree, image, leaf
<1>7. /\ tree \in Seq(PageWrite) /\ last \in Seq(PageWrite) /\ ToSet(last) = {w}
      /\ Len(last) = 1 /\ last[1] = w
  BY <1>4, <1>5, ShortSeqs DEF OfTree
<1> HIDE DEF last
<1>8. writes \in Seq(PageWrite) /\ ToSet(writes) = ToSet(tree) \cup {w}
  BY <1>7, ConcatSet
<1>9. /\ writes # <<>> /\ Last(writes) = w
      /\ \A k \in 1 .. Len(writes) - 1 : writes[k] \in ToSet(tree)
  BY <1>4, <1>7, LastConcat
<1> HIDE DEF writes
<1>10. \A k \in 1 .. Len(writes) - 1 : writes[k] = Error \/ writes[k].image \in LeafPage
  BY <1>5, <1>9 DEF OfTree
<1>11. RowLast(writes, h.id)
  BY <1>3, <1>4, <1>9, <1>10 DEF RowLast
<1>12. \A v \in ToSet(writes) : GoodWrite(v, ids, h.id, leaf)
  BY <1>4, <1>5, <1>8 DEF GoodWrite, OfTree
<1>13. PagesFollow(writes)
  <2>1. \A v \in ToSet(writes) : v.page = 0 \/ v.page = leaf \/ v.page <= Len(pool)
    BY <1>4, <1>5, <1>8, ErrorWrite DEF OfTree
  <2>2. ASSUME NEW v \in ToSet(writes)
        PROVE  v.page <= Len(pool) + 1
    <3>1. v \in PageWrite
      BY <1>8, SeqSet
    <3>2. QED
      BY <1>2, <1>6, <2>1, <3>1 DEF PageWrite
  <2>3. QED
    BY <2>2 DEF PagesFollow
<1>14. ListGrows(writes, ids, ids)
  BY DEF ListGrows
<1>15. Batch(writes, ids, ids, h.id)
  BY <1>6, <1>8, <1>12, <1>13, <1>14 DEF Batch, OpenList, HeapList
<1>16. QED
  BY <1>1, <1>11, <1>15 DEF writes, last
----------------------------------------------------------------------------
\* The fields of a running statement.
LEMMA OpFields ==
    ASSUME op \in Operation, op # Idle
    PROVE  /\ op.kind \in {"insert", "delete", "update"}
           /\ op.writes \in Seq(PageWrite) /\ op.ids \in Seq(Nat) /\ op.todo \in Seq(Hit)
           /\ op.kind = "insert" => op.todo = <<>>
           /\ op.kind = "delete" => op.hits \subseteq RowId
           /\ op.kind = "update" => \A h \in Hit : NewRow(h) \in Row
<1>1. CASE op \in [kind : {"insert"}, todo : {<<>>}, writes : Seq(PageWrite), ids : Seq(Nat)]
  BY <1>1, ShortSeqs
<1>2. CASE op \in [kind : {"delete"}, todo : Seq(Hit), writes : Seq(PageWrite), ids : Seq(Nat),
                   hits : SUBSET RowId]
  BY <1>2
<1>3. CASE op \in [kind : {"update"}, todo : Seq(Hit), writes : Seq(PageWrite), ids : Seq(Nat),
                   match : SUBSET Row, column : {"key"}, value : Key \cup {Null}]
  <2>1. ASSUME NEW h \in Hit
        PROVE  NewRow(h) \in Row
    <3>1. h.row \in Row /\ op.column = "key" /\ op.value \in Key \cup {Null}
      BY <1>3 DEF Hit
    <3>2. NewRow(h) = [h.row EXCEPT !["key"] = op.value]
      BY <3>1 DEF NewRow
    <3>3. QED
      BY <3>1, <3>2 DEF Row
  <2>2. QED
    BY <1>3, <2>1
<1>4. CASE op \in [kind : {"update"}, todo : Seq(Hit), writes : Seq(PageWrite), ids : Seq(Nat),
                   match : SUBSET Row, column : {"text"}, value : Text]
  <2>1. ASSUME NEW h \in Hit
        PROVE  NewRow(h) \in Row
    <3>1. h.row \in Row /\ op.column = "text" /\ op.value \in Text
      BY <1>4 DEF Hit
    <3>2. NewRow(h) = [h.row EXCEPT !["text"] = op.value]
      BY <3>1 DEF NewRow
    <3>3. QED
      BY <3>1, <3>2 DEF Row
  <2>2. QED
    BY <1>4, <2>1
<1>5. QED
  BY <1>1, <1>2, <1>3, <1>4 DEF Operation

\* A statement goes on: other writes, rows to visit and list, and the rest as before.
GoesOn(old, new, todo, writes, ids) ==
    new = [old EXCEPT !.todo = todo, !.writes = writes, !.ids = ids]

\* What goes on is again a statement of the same kind, with the new parts.
LEMMA OpGoesOn ==
    ASSUME op \in Operation, op # Idle,
           NEW todo \in Seq(Hit), NEW writes \in Seq(PageWrite), NEW ids \in Seq(Nat),
           op.kind = "insert" => todo = <<>>,
           NEW new, GoesOn(op, new, todo, writes, ids)
    PROVE  /\ new \in Operation /\ new # Idle
           /\ new.todo = todo /\ new.writes = writes /\ new.ids = ids
           /\ new.kind = op.kind
           /\ op.kind = "delete" => new.hits = op.hits
<1>1. CASE op \in [kind : {"insert"}, todo : {<<>>}, writes : Seq(PageWrite), ids : Seq(Nat)]
  <2> DEFINE S == [kind : {"insert"}, todo : {<<>>}, writes : Seq(PageWrite), ids : Seq(Nat)]
  <2>1. new \in S /\ new.kind = "insert"
    BY <1>1 DEF GoesOn
  <2>2. /\ new.todo = todo /\ new.writes = writes /\ new.ids = ids /\ op.kind = "insert"
    BY <1>1 DEF GoesOn
  <2>3. QED
    BY <2>1, <2>2 DEF Operation, Idle
<1>2. CASE op \in [kind : {"delete"}, todo : Seq(Hit), writes : Seq(PageWrite), ids : Seq(Nat),
                   hits : SUBSET RowId]
  <2> DEFINE S == [kind : {"delete"}, todo : Seq(Hit), writes : Seq(PageWrite),
                   ids : Seq(Nat), hits : SUBSET RowId]
  <2>1. new \in S /\ new.kind = "delete"
    BY <1>2 DEF GoesOn
  <2>2. /\ new.todo = todo /\ new.writes = writes /\ new.ids = ids /\ op.kind = "delete"
        /\ new.hits = op.hits
    BY <1>2 DEF GoesOn
  <2>3. QED
    BY <2>1, <2>2 DEF Operation, Idle
<1>3. CASE op \in [kind : {"update"}, todo : Seq(Hit), writes : Seq(PageWrite), ids : Seq(Nat),
                   match : SUBSET Row, column : {"key"}, value : Key \cup {Null}]
  <2> DEFINE S == [kind : {"update"}, todo : Seq(Hit), writes : Seq(PageWrite),
                   ids : Seq(Nat), match : SUBSET Row, column : {"key"},
                   value : Key \cup {Null}]
  <2>1. new \in S /\ new.kind = "update"
    BY <1>3 DEF GoesOn
  <2>2. /\ new.todo = todo /\ new.writes = writes /\ new.ids = ids /\ op.kind = "update"
    BY <1>3 DEF GoesOn
  <2>3. QED
    BY <2>1, <2>2 DEF Operation, Idle
<1>4. CASE op \in [kind : {"update"}, todo : Seq(Hit), writes : Seq(PageWrite), ids : Seq(Nat),
                   match : SUBSET Row, column : {"text"}, value : Text]
  <2> DEFINE S == [kind : {"update"}, todo : Seq(Hit), writes : Seq(PageWrite),
                   ids : Seq(Nat), match : SUBSET Row, column : {"text"}, value : Text]
  <2>1. new \in S /\ new.kind = "update"
    BY <1>4 DEF GoesOn
  <2>2. /\ new.todo = todo /\ new.writes = writes /\ new.ids = ids /\ op.kind = "update"
    BY <1>4 DEF GoesOn
  <2>3. QED
    BY <2>1, <2>2 DEF Operation, Idle
<1>5. QED
  BY <1>1, <1>2, <1>3, <1>4 DEF Operation

\* What a step of a statement writes, and its list, are as the invariant says.
LEMMA BatchList ==
    ASSUME StateSound, UNCHANGED <<pool, file, table, stored, unlisted>>, op' # Idle,
           NEW before, OpenList(before), \A p \in ToSet(before) : file[p] \in HeapPage,
           Listed \subseteq ToSet(before),
           NEW id, Batch(op'.writes, before, op'.ids, id),
           op'.kind = "delete" => op'.ids = table.ids
    PROVE  ListSound' /\ WritesSound' /\ NewPagesInOrder'
<1> DEFINE writes == op'.writes
           ids == op'.ids
<1>1. /\ Pending' = ToSet(writes) /\ OpIds' = ToSet(ids) /\ Listed' = Listed
      /\ Doomed' <=> writes # <<>> /\ Head(writes) = Error
  BY DEF Pending, OpIds, Listed, Doomed
<1>2. /\ writes \in Seq(PageWrite) /\ ids \in Seq(Nat)
      /\ ListGrows(writes, before, ids)
      /\ writes # <<>> /\ Head(writes) # Error => PagesFollow(writes)
  BY DEF Batch
<1>3. PICK leaf \in Nat :
         /\ IF table.root # NoRoot THEN leaf = table.root
            ELSE leaf > Len(pool) /\ leaf \notin ToSet(ids)
         /\ \A w \in ToSet(writes) : GoodWrite(w, ids, id, leaf)
  BY DEF Batch
<1>4. Len(pool) \in Nat
  BY LenProperties DEF StateSound, Typed
<1> HIDE DEF writes, ids
<1>5. writes # <<>> => Head(writes) \in ToSet(writes)
  BY <1>2, TailSet
<1>6. ListSound'
  <2>1. Listed' \subseteq OpIds'
    BY <1>1, <1>2 DEF ListGrows
  <2>2. ASSUME NEW p \in ToSet(ids)
        PROVE  \/ /\ p \in DOMAIN pool /\ p # table.root
                  /\ pool[p] \in HeapPage /\ file[p] \in HeapPage
               \/ /\ p = Len(pool) + 1 /\ Pending' # {}
                  /\ Doomed' \/ (Head(writes).page = p /\ Head(writes).image \in HeapPage)
    <3>1. CASE p \in ToSet(before)
      BY <3>1 DEF OpenList, HeapList
    <3>2. CASE p \notin ToSet(before)
      BY <1>1, <1>2, <1>5, <2>2, <3>2 DEF ListGrows
    <3>3. QED
      BY <3>1, <3>2
  <2>3. QED
    BY <1>1, <2>1, <2>2 DEF ListSound, writes
<1>7. WritesSound'
  <2>1. SUFFICES ASSUME NEW w \in ToSet(writes) \ {Error}
                 PROVE  /\ w.page # 0
                        /\ w.image \in HeapPage => w.page \in ToSet(ids)
                        /\ w.image \in LeafPage =>
                              IF table.root # NoRoot THEN w.page = table.root
                              ELSE /\ w.page > Len(pool) /\ w.page \notin ToSet(ids)
                                   /\ \A v \in ToSet(writes) :
                                         v.image \in LeafPage => v.page = w.page
    BY <1>1 DEF WritesSound
  <2>2. \A v \in ToSet(writes) : v.image \in LeafPage => v.page = leaf
    BY <1>3, Kinds, ErrorWrite DEF GoodWrite
  <2>3. leaf # 0
    BY <1>3, <1>4 DEF NoRoot
  <2>4. CASE w.image \in LeafPage
    BY <1>3, <2>2, <2>3, <2>4, Kinds
  <2>5. CASE w.image \notin LeafPage
    BY <1>3, <2>1, <2>5 DEF GoodWrite
  <2>6. QED
    BY <2>4, <2>5
<1>8. NewPagesInOrder'
  <2>1. SUFFICES ASSUME Pending' # {}, ~Doomed', NEW k \in DOMAIN writes
                 PROVE  \/ writes[k].page <= Len(pool) + 1
                        \/ \E j \in 1 .. k - 1 : writes[j].page = writes[k].page - 1
    BY <1>1 DEF NewPagesInOrder, writes
  <2>2. /\ DOMAIN writes = 1 .. Len(writes) /\ Len(writes) \in Nat
        /\ writes[k] \in ToSet(writes)
    BY <1>2, <2>1, SeqSet
  <2>3. writes # <<>>
    BY <1>1, <2>1, ShortSeqs
  <2>4. PagesFollow(writes)
    BY <1>1, <1>2, <2>1, <2>3
  <2>5. CASE writes[k].page <= Len(pool) + 1
    BY <2>5
  <2>6. CASE ~ (writes[k].page <= Len(pool) + 1)
    <3>1. writes[k].page = Len(pool) + 2 /\ Head(writes).page = Len(pool) + 1
      BY <2>2, <2>4, <2>6 DEF PagesFollow
    <3>2. writes[1] = Head(writes)
      BY <1>2, <2>3, TailSet
    <3>3. k # 1
      BY <1>4, <3>1, <3>2
    <3>4. 1 \in 1 .. k - 1 /\ writes[1].page = writes[k].page - 1
      BY <1>4, <2>1, <2>2, <3>1, <3>2, <3>3
    <3>5. QED
      BY <3>4
  <2>7. QED
    BY <2>5, <2>6
<1>9. QED
  BY <1>6, <1>7, <1>8

\* No write of a step takes anything out of the slots of the table's pages, but
\* for the slot of the row that it touches.
LEMMA BatchPins ==
    ASSUME StateSound, NEW writes, NEW before, NEW ids, NEW id,
           Batch(writes, before, ids, id), Listed \subseteq ToSet(before),
           NEW i \in RowId, NEW entries, i[1] \in Listed, Holds(pool[i[1]], i, entries),
           i # id \/ entries = HeapEntry,
           NEW w \in ToSet(writes), w.page = i[1]
    PROVE  Holds(w.image, i, entries)
<1>1. PICK leaf \in Nat :
         /\ IF table.root # NoRoot THEN leaf = table.root
            ELSE leaf > Len(pool) /\ leaf \notin ToSet(ids)
         /\ GoodWrite(w, ids, id, leaf)
  BY DEF Batch
<1>2. /\ i[1] \in DOMAIN pool /\ i[1] # 0 /\ i[1] <= Len(pool) /\ pool[i[1]] \in HeapPage
      /\ i = <<i[1], i[2]>> /\ i[2] \in SlotsOf(pool[i[1]])
  <2>1. DOMAIN file = 1 .. Len(pool) /\ DOMAIN pool = 1 .. Len(pool)
    BY LenProperties DEF StateSound, Typed
  <2>2. i[1] \in DOMAIN file /\ pool[i[1]] \in HeapPage
    BY DEF StateSound, TableSound
  <2>3. QED
    BY <2>1, <2>2 DEF Holds, RowId
<1>3. w # Error
  BY <1>2, ErrorWrite
<1>4. w.page # leaf
  <2>1. CASE table.root # NoRoot
    BY <1>1, <2>1 DEF StateSound, RootSound
  <2>2. CASE table.root = NoRoot
    <3>1. i[1] \in ToSet(ids)
      BY DEF Batch, ListGrows
    <3>2. QED
      BY <1>1, <2>2, <3>1
  <2>3. QED
    BY <2>1, <2>2
<1>5. w.image \in HeapPage /\ KeptBy(w, id)
  BY <1>1, <1>3, <1>4 DEF GoodWrite
<1>6. /\ i[2] \in SlotsOf(w.image)
      /\ i # id => w.image.slots[i[2]] = pool[i[1]].slots[i[2]]
  BY <1>2, <1>5 DEF KeptBy
<1>7. w.image.slots[i[2]] \in HeapEntry
  BY <1>5, <1>6, PageSlots
<1>8. QED
  BY <1>5, <1>6, <1>7 DEF Holds
----------------------------------------------------------------------------
\* The pages of the table are an open list.
LEMMA TableList ==
    ASSUME StateSound
    PROVE  /\ OpenList(table.ids) /\ Listed = ToSet(table.ids)
           /\ \A p \in Listed : p \in DOMAIN pool /\ p \in DOMAIN file /\ p # table.root
                                /\ pool[p] \in HeapPage /\ file[p] \in HeapPage
<1>1. DOMAIN file = DOMAIN pool /\ 0 \notin DOMAIN file
  BY LenProperties DEF StateSound, Typed
<1>2. \A p \in Listed : /\ p \in DOMAIN pool /\ p \in DOMAIN file
                        /\ pool[p] \in HeapPage /\ file[p] \in HeapPage
  BY <1>1 DEF StateSound, TableSound
<1>3. table.root \notin Listed
  BY <1>1 DEF StateSound, TableSound, RootSound, NoRoot
<1>4. OpenList(table.ids)
  BY <1>2, <1>3 DEF OpenList, HeapList, Listed, StateSound, Typed, Table
<1>5. QED
  BY <1>2, <1>3, <1>4 DEF Listed

\* Between two rows the list of a statement is an open list, too.
LEMMA QuietList ==
    ASSUME StateSound, ListSound, op # Idle, op.writes = <<>>
    PROVE  /\ Pending = {} /\ OpenList(op.ids) /\ Listed \subseteq ToSet(op.ids)
           /\ \A p \in ToSet(op.ids) : p \in DOMAIN pool /\ p # table.root
                                       /\ pool[p] \in HeapPage /\ file[p] \in HeapPage
<1>1. Pending = {} /\ OpIds = ToSet(op.ids)
  BY ShortSeqs DEF Pending, OpIds
<1>2. \A p \in ToSet(op.ids) : p \in DOMAIN pool /\ p # table.root
                               /\ pool[p] \in HeapPage /\ file[p] \in HeapPage
  BY <1>1 DEF ListSound
<1>3. op.ids \in Seq(Nat) /\ pool \in Seq(Image)
  BY OpFields DEF StateSound, Typed
<1>4. QED
  BY <1>1, <1>2, <1>3 DEF OpenList, HeapList, ListSound

\* Pins name rows by their ids.
LEMMA PinIds ==
    ASSUME Typed, NEW pin \in Lasting \cup Passing
    PROVE  pin[1] \in RowId /\ pin[2] \subseteq HeapEntry
<1>1. CASE pin \in {<<h.id, Rec(h.row)>> : h \in durable}
  <2>1. PICK h \in durable : pin = <<h.id, Rec(h.row)>>
    BY <1>1
  <2>2. h.id \in RowId /\ h.row \in Row
    BY DEF Typed, Hit
  <2>3. QED
    BY <2>1, <2>2 DEF Rec, HeapEntry
<1>2. CASE pin \in {<<id, {Tombstone}>> : id \in Buried}
  BY <1>2, Kinds DEF Typed, Buried
<1>3. CASE pin \in {<<h.id, HeapEntry>> : h \in Todo}
  <2>1. PICK h \in Todo : pin = <<h.id, HeapEntry>>
    BY <1>3
  <2>2. op # Idle /\ h \in ToSet(op.todo)
    BY DEF Todo
  <2>3. h \in Hit
    BY <2>2, OpFields, SeqSet DEF Typed
  <2>4. QED
    BY <2>1, <2>3 DEF Hit
<1>4. CASE pin \in {<<id, {Tombstone}>> : id \in Dead}
  <2>1. PICK id \in Dead : pin = <<id, {Tombstone}>>
    BY <1>4
  <2>2. op # Idle /\ op.kind = "delete" /\ id \in op.hits
    BY DEF Dead
  <2>3. id \in RowId
    BY <2>2, OpFields DEF Typed
  <2>4. QED
    BY <2>1, <2>3, Kinds
<1>5. QED
  BY <1>1, <1>2, <1>3, <1>4 DEF Lasting, Passing

\* A step of a statement whose writes touch row id: the other pins hold, and
\* one of that row if it allows any entry or the writes put what it asks for.
LEMMA BatchHolds ==
    ASSUME StateSound, PinsHeld, UNCHANGED <<pool, file, table>>, op' # Idle,
           NEW before, NEW id, Batch(op'.writes, before, op'.ids, id),
           Listed \subseteq ToSet(before),
           Lasting' \subseteq Lasting, Passing' \subseteq Passing,
           \A pin \in Lasting' \cup Passing' :
              \/ pin[1] # id \/ pin[2] = HeapEntry
              \/ \A w \in ToSet(op'.writes) : w.page = id[1] => Holds(w.image, id, pin[2])
    PROVE  PinsHeld'
<1>1. Pending' = ToSet(op'.writes) /\ Listed' = Listed
  BY DEF Pending, Listed
<1>2. \A pin \in Lasting' : Holds(file'[pin[1][1]], pin[1], pin[2])
  BY DEF PinsHeld
<1>3. ASSUME NEW pin \in Lasting' \cup Passing'
      PROVE  /\ pin[1][1] \in Listed
             /\ Holds(pool[pin[1][1]], pin[1], pin[2])
             /\ \A w \in ToSet(op'.writes) :
                   w.page = pin[1][1] => Holds(w.image, pin[1], pin[2])
  <2>1. pin \in Lasting \cup Passing
    OBVIOUS
  <2>2. pin[1][1] \in Listed /\ Holds(pool[pin[1][1]], pin[1], pin[2]) /\ pin[1] \in RowId
    BY <2>1, PinIds DEF PinsHeld, StateSound
  <2>3. ASSUME NEW w \in ToSet(op'.writes), w.page = pin[1][1]
        PROVE  Holds(w.image, pin[1], pin[2])
    <3>1. CASE pin[1] # id \/ pin[2] = HeapEntry
      BY <2>2, <2>3, <3>1, BatchPins
    <3>2. CASE pin[1] = id /\ pin[2] # HeapEntry
      BY <2>3, <3>2
    <3>3. QED
      BY <3>1, <3>2
  <2>4. QED
    BY <2>2, <2>3
<1>4. QED
  BY <1>1, <1>2, <1>3 DEF PinsHeld

\* A row that is still to be visited has a slot of a page of the table.
LEMMA TodoNames ==
    ASSUME StateSound, PinsHeld, NEW h \in Todo
    PROVE  h \in Hit /\ h.id[1] \in Listed /\ Names(pool, h.id)
<1>1. op # Idle /\ h \in ToSet(op.todo)
  BY DEF Todo
<1>2. h \in Hit
  BY <1>1, OpFields, SeqSet DEF StateSound, Typed
<1>3. <<h.id, HeapEntry>> \in Passing
  BY DEF Passing
<1>4. h.id[1] \in Listed /\ Holds(pool[h.id[1]], h.id, HeapEntry)
  BY <1>3 DEF PinsHeld
<1>5. h.id[1] \in DOMAIN pool
  BY <1>4, TableList
<1>6. QED
  BY <1>2, <1>4, <1>5 DEF Names, Holds, Hit

\* The state of the pages is what it was.
LEMMA SameState ==
    ASSUME StateSound, UNCHANGED <<pool, file, table, stored, unlisted>>,
           op' \in Operation, durable' \subseteq Hit, gone' \subseteq RowId
    PROVE  StateSound'
<1>1. Typed'
  BY DEF StateSound, Typed
<1>2. Listed' = Listed
  BY DEF Listed
<1>3. TableSound' /\ RootSound'
  BY <1>2 DEF StateSound, TableSound, RootSound
<1>4. QED
  BY <1>1, <1>3 DEF StateSound

\* Pages that join the list of a statement are new ones, and no orphans.
LEMMA HistoryKept ==
    ASSUME IInv, UNCHANGED <<pool, file, table, stored, gone>>, durable' \subseteq durable,
           \A p \in OpIds' \ OpIds : p = Len(pool) + 1
    PROVE  OrphansHeld' /\ CheckpointListed'
<1>1. Len(pool) + 1 \notin DOMAIN pool
  BY LenProperties DEF IInv, Typed
<1>2. Listed' = Listed
  BY DEF Listed
<1>3. OrphansHeld'
  BY <1>1, <1>2 DEF IInv, OrphansHeld
<1>4. QED
  BY <1>3 DEF IInv, CheckpointListed

\* A statement comes to a row: the writes for it touch no other.
Visits(todo, writes, ids, id) ==
    /\ op # Idle /\ op.kind \in {"update", "delete"} /\ op.writes = <<>> /\ op.todo # <<>>
    /\ id = Head(op.todo).id
    /\ GoesOn(op, op', todo, writes, ids) /\ todo = Tail(op.todo)
    /\ Batch(writes, op.ids, ids, id)
    /\ durable' = Untouched(id)
    /\ UNCHANGED <<pool, file, table, stored, unlisted, gone>>
    /\ op.kind = "delete" => ids = op.ids /\ RowLast(writes, id)

\* The writes of a DELETE that hold a slot of the row's page put a tombstone there.
LEMMA RowLastHolds ==
    ASSUME NEW writes \in Seq(PageWrite), NEW id, id[1] # 0, RowLast(writes, id),
           NEW w \in ToSet(writes), w.page = id[1], w.image \in HeapPage
    PROVE  Holds(w.image, id, {Tombstone})
<1>1. PICK k \in 1 .. Len(writes) : w = writes[k]
  BY SeqSet
<1>2. Len(writes) \in Nat
  BY LenProperties
<1>3. ~ (k \in 1 .. Len(writes) - 1)
  BY <1>1, Kinds, ErrorWrite DEF RowLast
<1>4. k = Len(writes)
  BY <1>1, <1>2, <1>3
<1>5. w = Last(writes)
  BY <1>1, <1>4 DEF Last
<1>6. QED
  BY <1>5 DEF RowLast

\* Such a step keeps the invariant.
LEMMA VisitStep ==
    ASSUME IInv, NEW todo, NEW writes, NEW ids, NEW id, Visits(todo, writes, ids, id)
    PROVE  IInv'
<1> DEFINE h == Head(op.todo)
<1>1. /\ op \in Operation /\ op.kind \in {"insert", "delete", "update"}
      /\ op.todo \in Seq(Hit) /\ op # Idle
      /\ op.kind = "delete" => op.hits \subseteq RowId
  BY OpFields DEF IInv, Typed, Visits
<1>2. /\ h \in ToSet(op.todo) /\ todo \in Seq(Hit)
      /\ ToSet(op.todo) = {h} \cup ToSet(todo)
  BY <1>1, TailSet DEF Visits
<1>3. writes \in Seq(PageWrite) /\ ids \in Seq(Nat)
  BY DEF Visits, Batch
<1>4. /\ op' \in Operation /\ op' # Idle
      /\ op'.todo = todo /\ op'.writes = writes /\ op'.ids = ids
      /\ op'.kind = op.kind
      /\ op.kind = "delete" => op'.hits = op.hits
  <2>1. GoesOn(op, op', todo, writes, ids) /\ op.kind # "insert"
    BY DEF Visits
  <2>2. QED
    BY <1>1, <1>2, <1>3, <2>1, OpGoesOn
<1>5. h \in Todo /\ h \in Hit /\ h.id[1] \in Listed /\ id = h.id
  <2>1. h \in Todo
    BY <1>1, <1>2 DEF Todo
  <2>2. QED
    BY <2>1, TodoNames DEF IInv, StateSound, Visits
<1> HIDE DEF h
<1>6. StateSound /\ PinsHeld /\ ListSound
  BY DEF IInv, StateSound
<1>7. StateSound'
  <2>1. durable' \subseteq Hit /\ gone' \subseteq RowId
    BY DEF Visits, Untouched, IInv, Typed
  <2>2. QED
    BY <1>4, <1>6, <2>1, SameState DEF Visits
<1>8. /\ Pending = {} /\ OpenList(op.ids) /\ Listed \subseteq ToSet(op.ids)
      /\ \A p \in ToSet(op.ids) : file[p] \in HeapPage
  BY <1>1, <1>6, QuietList DEF Visits
<1>9. op.kind = "delete" => op.ids = table.ids
  BY <1>1 DEF IInv, ListSound
<1>10. ListSound' /\ WritesSound' /\ NewPagesInOrder'
  BY <1>4, <1>6, <1>8, <1>9, BatchList DEF Visits
<1>11. Todo' = ToSet(todo) /\ Todo = ToSet(op.todo)
  BY <1>1, <1>4 DEF Todo
<1>12. Dead' = Dead
  BY <1>1, <1>4 DEF Dead, Visits
<1>13. Lasting' \subseteq Lasting /\ Passing' \subseteq Passing
  <2>1. durable' \subseteq durable /\ Buried' = Buried
    BY DEF Visits, Untouched, Buried, Listed
  <2>2. QED
    BY <1>2, <1>11, <1>12, <2>1 DEF Lasting, Passing
<1>14. PinsHeld'
  <2>1. ASSUME NEW pin \in Lasting' \cup Passing', pin[1] = id, pin[2] # HeapEntry,
               NEW w \in ToSet(writes), w.page = id[1]
        PROVE  Holds(w.image, id, pin[2])
    <3>1. pin[2] = {Tombstone} /\ pin[1] \in gone \cup Dead
      <4>1. CASE pin \in {<<d.id, Rec(d.row)>> : d \in durable'}
        BY <2>1, <4>1 DEF Visits, Untouched
      <4>2. QED
        BY <1>12, <2>1, <4>1 DEF Lasting, Buried, Passing, Visits
    <3>2. op.kind = "delete"
      <4>1. CASE pin[1] \in gone
        BY <1>5, <2>1, <4>1 DEF IInv, NoRevival, Visits
      <4>2. CASE pin[1] \in Dead
        BY <4>2 DEF Dead
      <4>3. QED
        BY <3>1, <4>1, <4>2
    <3>3. Holds(pool[id[1]], id, HeapEntry) /\ id \in RowId
      <4>1. <<id, HeapEntry>> \in Passing
        BY <1>5 DEF Passing
      <4>2. QED
        BY <1>5, <1>6, <4>1 DEF PinsHeld, Hit
    <3>4. Batch(writes, op.ids, ids, id)
      BY DEF Visits
    <3>5. Holds(w.image, id, HeapEntry)
      BY <1>5, <1>6, <1>8, <2>1, <3>3, <3>4, BatchPins
    <3>6. id[1] # 0
      <4>1. id[1] \in DOMAIN pool
        BY <1>5, <1>6, TableList
      <4>2. QED
        BY <1>6, <4>1, LenProperties DEF StateSound, Typed
    <3>7. RowLast(writes, id)
      BY <3>2 DEF Visits
    <3>8. Holds(w.image, id, {Tombstone})
      BY <1>3, <2>1, <3>5, <3>6, <3>7, RowLastHolds DEF Holds
    <3>9. QED
      BY <3>1, <3>8
  <2>2. UNCHANGED <<pool, file, table>> /\ Batch(op'.writes, op.ids, op'.ids, id)
    BY <1>4 DEF Visits
  <2>3. QED
    BY <1>4, <1>6, <1>8, <1>13, <2>1, <2>2, BatchHolds
<1>15. NoRevival'
  <2>1. gone' = gone /\ Todo' \subseteq Todo
    BY <1>2, <1>11 DEF Visits
  <2>2. op'.kind = "update" => \A d \in Todo' : d.id \notin gone'
    BY <1>1, <1>4, <2>1 DEF IInv, NoRevival
  <2>3. QED
    BY <2>2 DEF NoRevival
<1>16. Covered'
  <2>1. SUFFICES ASSUME op.kind = "delete"
                 PROVE  /\ \A i \in op.hits :
                              \/ i \in {d.id : d \in Todo'} \/ i \in Dead'
                              \/ /\ writes # <<>> /\ i[1] \in Listed'
                                 /\ Last(writes).page = i[1]
                                 /\ Holds(Last(writes).image, i, {Tombstone})
                        /\ \A k \in 1 .. Len(writes) - 1 :
                              writes[k] = Error \/ writes[k].image \in LeafPage
    BY <1>4 DEF Covered
  <2>2. RowLast(writes, id)
    BY <2>1 DEF Visits
  <2>3. Listed' = Listed
    BY DEF Listed, Visits
  <2>4. ASSUME NEW i \in op.hits
        PROVE  i \in {d.id : d \in Todo} \/ i \in Dead
    BY <1>1, <2>1, <2>4 DEF IInv, Covered, Visits
  <2>5. ASSUME NEW i \in op.hits
        PROVE  \/ i \in {d.id : d \in Todo'} \/ i \in Dead'
               \/ /\ writes # <<>> /\ i[1] \in Listed'
                  /\ Last(writes).page = i[1]
                  /\ Holds(Last(writes).image, i, {Tombstone})
    <3>1. CASE i = id
      BY <1>5, <2>2, <2>3, <3>1 DEF RowLast
    <3>2. CASE i \in Dead
      BY <1>12, <3>2
    <3>3. CASE i \in {d.id : d \in Todo} /\ i # id
      BY <1>2, <1>5, <1>11, <3>3
    <3>4. QED
      BY <2>4, <3>1, <3>2, <3>3
  <2>6. QED
    BY <2>2, <2>5 DEF RowLast
<1>17. OrphansHeld' /\ CheckpointListed'
  BY <1>4, HistoryKept DEF Visits, Batch, ListGrows, OpIds, Untouched, IInv, OrphansHeld
<1>18. QED
  BY <1>7, <1>10, <1>14, <1>15, <1>16, <1>17 DEF IInv, StateSound

\* A statement that goes on with the list, or the rows to visit, it has.
LEMMA SameFields ==
    ASSUME op \in Operation, op # Idle, NEW todo, NEW writes
    PROVE  /\ GoesOn(op, [op EXCEPT !.todo = todo, !.writes = writes], todo, writes, op.ids)
           /\ GoesOn(op, [op EXCEPT !.writes = writes], op.todo, writes, op.ids)
<1>1. "todo" \in DOMAIN op /\ "ids" \in DOMAIN op /\ op = [f \in DOMAIN op |-> op[f]]
  BY DEF Operation
<1>2. QED
  BY <1>1 DEF GoesOn

\* The DELETE of the next row keeps the invariant.
LEMMA DeleteRowStep ==
    ASSUME IInv, DeleteRow
    PROVE  IInv'
<1> DEFINE h == Head(op.todo)
           writes == DeleteWrites(h)
<1>1. op \in Operation /\ op # Idle /\ op.todo \in Seq(Hit)
  <2>1. op \in Operation /\ op # Idle
    BY DEF IInv, Typed, DeleteRow, Idle
  <2>2. QED
    BY <2>1, OpFields
<1>2. StateSound /\ PinsHeld /\ ListSound
  BY DEF IInv, StateSound
<1>3. h \in Todo
  <2>1. op.todo # <<>>
    BY DEF DeleteRow
  <2>2. h \in ToSet(op.todo)
    BY <1>1, <2>1, TailSet
  <2>3. QED
    BY <1>1, <2>2 DEF Todo
<1>4. h \in Hit /\ h.id[1] \in Listed /\ Names(pool, h.id)
  BY <1>2, <1>3, TodoNames
<1>5. /\ op.writes = <<>> /\ op.todo # <<>> /\ op.kind = "delete"
      /\ op' = [op EXCEPT !.todo = Tail(op.todo), !.writes = writes]
      /\ durable' = Untouched(h.id)
      /\ UNCHANGED <<pool, file, table, stored, unlisted, gone>>
  BY DEF DeleteRow
<1>6. OpenList(op.ids) /\ Listed \subseteq ToSet(op.ids)
  BY <1>1, <1>2, <1>5, QuietList
<1> HIDE DEF h
<1>7. Batch(writes, op.ids, op.ids, h.id) /\ RowLast(writes, h.id)
  BY <1>2, <1>4, <1>6, DeleteBatch
<1> HIDE DEF writes
<1>8. GoesOn(op, op', Tail(op.todo), writes, op.ids)
  BY <1>1, <1>5, SameFields
<1>9. Visits(Tail(op.todo), writes, op.ids, h.id)
  BY <1>1, <1>5, <1>7, <1>8 DEF Visits, h
<1>10. QED
  BY <1>9, VisitStep

\* The UPDATE of the next row keeps the invariant.
LEMMA UpdateRowStep ==
    ASSUME IInv, UpdateRow
    PROVE  IInv'
<1> DEFINE h == Head(op.todo)
           writes == UpdateWrites(op.ids, h, NewRow(h))
           ids == Updated(pool, op.ids, h.id, NewRow(h)).ids
<1>1. op \in Operation /\ op # Idle /\ op.todo \in Seq(Hit)
  <2>1. op \in Operation /\ op # Idle
    BY DEF IInv, Typed, UpdateRow, Idle
  <2>2. QED
    BY <2>1, OpFields
<1>2. StateSound /\ PinsHeld /\ ListSound
  BY DEF IInv, StateSound
<1>3. h \in Todo
  <2>1. op.todo # <<>>
    BY DEF UpdateRow
  <2>2. h \in ToSet(op.todo)
    BY <1>1, <2>1, TailSet
  <2>3. QED
    BY <1>1, <2>2 DEF Todo
<1>4. h \in Hit /\ h.id[1] \in Listed /\ Names(pool, h.id)
  BY <1>2, <1>3, TodoNames
<1>5. /\ op.writes = <<>> /\ op.todo # <<>> /\ op.kind = "update"
      /\ op' = [op EXCEPT !.todo = Tail(op.todo), !.writes = writes, !.ids = ids]
      /\ durable' = Untouched(h.id)
      /\ UNCHANGED <<pool, file, table, stored, unlisted, gone>>
  BY DEF UpdateRow
<1>6. OpenList(op.ids) /\ Listed \subseteq ToSet(op.ids)
  BY <1>1, <1>2, <1>5, QuietList
<1>7. NewRow(h) \in Row
  BY <1>1, <1>4, <1>5, OpFields
<1> HIDE DEF h
<1>8. Batch(writes, op.ids, ids, h.id)
  BY <1>2, <1>4, <1>6, <1>7, UpdateBatch
<1> HIDE DEF writes, ids
<1>9. GoesOn(op, op', Tail(op.todo), writes, ids)
  BY <1>5 DEF GoesOn
<1>10. Visits(Tail(op.todo), writes, ids, h.id)
  BY <1>1, <1>5, <1>8, <1>9 DEF Visits, h
<1>11. QED
  BY <1>10, VisitStep
----------------------------------------------------------------------------
\* One page has another image in the pool; the file may have a new page.
PageDone(w) ==
    /\ pool' \in Seq(Image) /\ file' \in Seq(Image)
    /\ Len(pool') = Len(file') /\ Len(file') <= MaxPages
    /\ DOMAIN pool' = DOMAIN pool \cup {w.page} /\ DOMAIN file' = DOMAIN pool'
    /\ pool'[w.page] = w.image
    /\ \A q \in DOMAIN pool : /\ file'[q] = file[q]
                              /\ q # w.page => pool'[q] = pool[q]
    /\ IF w.page \in DOMAIN pool THEN Len(pool') = Len(pool)
       ELSE /\ Len(pool') = Len(pool) + 1 /\ w.page = Len(pool) + 1
            /\ file'[w.page] = ZeroPage

\* What the write w of the running statement is: of a heap page of its list, or
\* of the tree's page.
WriteFacts(w) ==
    /\ w \in PageWrite /\ w \in Pending /\ w # Error /\ ~Doomed
    /\ w.page \in 1 .. Len(pool) + 1
    /\ \/ /\ w.image \in HeapPage /\ w.page \in OpIds /\ w.page # table.root
       \/ /\ w.image \in LeafPage /\ w.page \notin OpIds
          /\ IF table.root # NoRoot THEN w.page = table.root
             ELSE /\ w.page = Len(pool) + 1
                  /\ \A v \in Pending : v.image \in LeafPage => v.page = w.page

\* The invariant makes the next write of a statement that goes on such a write.
LEMMA NextWrite ==
    ASSUME IInv, op # Idle, op.writes # <<>>, Head(op.writes) # Error
    PROVE  WriteFacts(Head(op.writes))
<1> DEFINE w == Head(op.writes)
<1>1. op.writes \in Seq(PageWrite)
  BY OpFields DEF IInv, Typed
<1>2. w = op.writes[1] /\ w \in ToSet(op.writes) /\ 1 \in DOMAIN op.writes
  BY <1>1, TailSet, SeqSet
<1>3. w \in PageWrite /\ w \in Pending /\ ~Doomed /\ Pending # {}
  BY <1>1, <1>2, SeqSet DEF Pending, Doomed
<1> HIDE DEF w
<1>4. /\ Len(pool) \in Nat /\ DOMAIN pool = 1 .. Len(pool) /\ DOMAIN file = 1 .. Len(pool)
      /\ table.root \in Nat
  BY LenProperties DEF IInv, Typed, Table
<1>5. w.page <= Len(pool) + 1
  BY <1>2, <1>3 DEF IInv, NewPagesInOrder
<1>6. w # Error
  BY DEF w
<1>7. /\ w.page # 0 /\ w.page \in Nat
      /\ w.image \in HeapPage => w.page \in OpIds
      /\ w.image \in LeafPage =>
            IF table.root # NoRoot THEN w.page = table.root
            ELSE /\ w.page > Len(pool) /\ w.page \notin OpIds
                 /\ \A v \in Pending : v.image \in LeafPage => v.page = w.page
  BY <1>3, <1>6 DEF IInv, WritesSound, PageWrite
<1>8. \A p \in OpIds : p # table.root
  <2>1. table.root # Len(pool) + 1
    BY <1>4 DEF IInv, RootSound, NoRoot
  <2>2. QED
    BY <2>1 DEF IInv, ListSound
<1>9. w.page \in 1 .. Len(pool) + 1
  BY <1>4, <1>5, <1>7
<1>10. CASE w.image \in HeapPage
  BY <1>3, <1>6, <1>7, <1>8, <1>9, <1>10 DEF WriteFacts, w
<1>11. CASE w.image \in LeafPage
  <2>1. table.root = NoRoot => w.page = Len(pool) + 1
    BY <1>4, <1>7, <1>9, <1>11
  <2>2. w.page \notin OpIds
    BY <1>7, <1>8, <1>11
  <2>3. WriteFacts(w)
    BY <1>3, <1>6, <1>7, <1>9, <1>11, <2>1, <2>2 DEF WriteFacts
  <2>4. QED
    BY <2>3 DEF w
<1>12. w.image \in Image
  BY <1>3 DEF PageWrite
<1>13. QED
  BY <1>10, <1>11, <1>12 DEF Image

\* What the write does to the pages and to the table.
LEMMA WriteDone ==
    ASSUME IInv, WritePage, NEW w, w = Head(op.writes)
    PROVE  /\ WriteFacts(w) /\ PageDone(w)
           /\ table' \in Table /\ table'.ids = table.ids
           /\ table'.root = IF w.image \in LeafPage THEN w.page ELSE table.root
           /\ op # Idle /\ op.writes # <<>>
           /\ GoesOn(op, op', op.todo, Tail(op.writes), op.ids)
           /\ UNCHANGED <<stored, unlisted, durable, gone>>
<1>1. /\ op # Idle /\ op.writes # <<>> /\ w # Error /\ ~ (w.page > MaxPages)
      /\ UNCHANGED <<stored, unlisted, durable, gone>>
  BY DEF WritePage, Fails
<1>2. WriteFacts(w)
  BY <1>1, NextWrite
<1>3. GoesOn(op, op', op.todo, Tail(op.writes), op.ids)
  BY <1>1, SameFields DEF IInv, Typed, WritePage
<1>4. /\ IF w.page \in DOMAIN pool
         THEN pool' = [pool EXCEPT ![w.page] = w.image] /\ UNCHANGED file
         ELSE pool' = Append(pool, w.image) /\ file' = Append(file, ZeroPage)
      /\ table' = IF IsLeaf(w.image) THEN [table EXCEPT !.root = w.page] ELSE table
  BY DEF WritePage
<1>5. /\ w.image \in Image /\ w.page \in Nat /\ ZeroPage \in Image
      /\ IsLeaf(w.image) <=> w.image \in LeafPage
  BY <1>2, Kinds DEF WriteFacts, PageWrite, Image
<1>6. /\ table' \in Table /\ table'.ids = table.ids
      /\ table'.root = IF w.image \in LeafPage THEN w.page ELSE table.root
  <2>1. table \in Table
    BY DEF IInv, Typed
  <2>2. QED
    BY <1>4, <1>5, <2>1 DEF Table
<1>7. /\ pool \in Seq(Image) /\ file \in Seq(Image) /\ Len(pool) = Len(file)
      /\ Len(file) <= MaxPages /\ Len(pool) \in Nat
      /\ DOMAIN pool = 1 .. Len(pool) /\ DOMAIN file = 1 .. Len(pool)
  BY LenProperties DEF IInv, Typed
<1>8. PageDone(w)
  <2>1. CASE w.page \in DOMAIN pool
    <3>1. pool' = [pool EXCEPT ![w.page] = w.image] /\ file' = file
      BY <1>4, <2>1
    <3>2. /\ pool' \in Seq(Image) /\ Len(pool') = Len(pool) /\ pool'[w.page] = w.image
          /\ \A q \in DOMAIN pool : q # w.page => pool'[q] = pool[q]
      BY <1>5, <1>7, <2>1, <3>1, ExceptSeq
    <3>3. DOMAIN pool' = DOMAIN pool
      BY <3>1
    <3>4. DOMAIN pool' = DOMAIN pool \cup {w.page} /\ DOMAIN file' = DOMAIN pool'
      BY <1>7, <2>1, <3>1, <3>3
    <3>5. QED
      BY <1>7, <2>1, <3>1, <3>2, <3>4 DEF PageDone
  <2>2. CASE w.page \notin DOMAIN pool
    <3>1. pool' = Append(pool, w.image) /\ file' = Append(file, ZeroPage)
      BY <1>4, <2>2
    <3>2. w.page = Len(pool) + 1
      BY <1>2, <1>7, <2>2 DEF WriteFacts
    <3>3. /\ pool' \in Seq(Image) /\ Len(pool') = Len(pool) + 1 /\ pool'[w.page] = w.image
          /\ \A q \in DOMAIN pool : pool'[q] = pool[q]
      BY <1>5, <1>7, <3>1, <3>2, AppendProperties
    <3>4. /\ file' \in Seq(Image) /\ Len(file') = Len(pool) + 1 /\ file'[w.page] = ZeroPage
          /\ \A q \in DOMAIN pool : file'[q] = file[q]
      BY <1>5, <1>7, <3>1, <3>2, AppendProperties
    <3>5. DOMAIN pool' = 1 .. Len(pool) + 1 /\ DOMAIN file' = 1 .. Len(pool) + 1
      BY <3>3, <3>4, LenProperties
    <3>6. DOMAIN pool' = DOMAIN pool \cup {w.page} /\ DOMAIN file' = DOMAIN pool'
      BY <1>7, <3>2, <3>5
    <3>7. Len(file') <= MaxPages
      BY <1>1, <1>5, <1>7, <3>2, <3>4
    <3>8. QED
      BY <2>2, <3>2, <3>3, <3>4, <3>6, <3>7 DEF PageDone
  <2>3. QED
    BY <2>1, <2>2
<1>9. QED
  BY <1>1, <1>2, <1>3, <1>6, <1>8

\* The state after the write, in terms of the invariant.
Effect(w) ==
    /\ WriteFacts(w) /\ PageDone(w)
    /\ table' \in Table /\ table'.ids = table.ids
    /\ table'.root = IF w.image \in LeafPage THEN w.page ELSE table.root
    /\ UNCHANGED <<stored, unlisted, durable, gone>>
    /\ op' \in Operation /\ op' # Idle /\ op # Idle /\ op'.kind = op.kind /\ op'.ids = op.ids
    /\ op.writes \in Seq(PageWrite) /\ op.writes # <<>> /\ w = Head(op.writes)
    /\ op'.writes = Tail(op.writes)
    /\ op.kind = "delete" => op'.hits = op.hits
    /\ Pending = {w} \cup Pending' /\ Todo' = Todo /\ OpIds' = OpIds /\ Listed' = Listed

\* WritePage has this effect.
LEMMA WriteEffect ==
    ASSUME IInv, WritePage, NEW w, w = Head(op.writes)
    PROVE  Effect(w)
<1>1. /\ WriteFacts(w) /\ PageDone(w)
      /\ table' \in Table /\ table'.ids = table.ids
      /\ table'.root = IF w.image \in LeafPage THEN w.page ELSE table.root
      /\ op # Idle /\ op.writes # <<>>
      /\ GoesOn(op, op', op.todo, Tail(op.writes), op.ids)
      /\ UNCHANGED <<stored, unlisted, durable, gone>>
  BY WriteDone
<1>2. /\ op \in Operation /\ op.writes \in Seq(PageWrite) /\ op.ids \in Seq(Nat)
      /\ op.todo \in Seq(Hit)
      /\ op.kind = "insert" => op.todo = <<>>
  BY <1>1, OpFields DEF IInv, Typed
<1>3. Tail(op.writes) \in Seq(PageWrite) /\ ToSet(op.writes) = {w} \cup ToSet(Tail(op.writes))
  BY <1>1, <1>2, TailSet
<1>4. /\ op' \in Operation /\ op' # Idle
      /\ op'.todo = op.todo /\ op'.writes = Tail(op.writes) /\ op'.ids = op.ids
      /\ op'.kind = op.kind
      /\ op.kind = "delete" => op'.hits = op.hits
  <2> DEFINE rest == Tail(op.writes)
  <2>1. rest \in Seq(PageWrite) /\ GoesOn(op, op', op.todo, rest, op.ids)
    BY <1>1, <1>3
  <2> HIDE DEF rest
  <2>2. /\ op' \in Operation /\ op' # Idle
        /\ op'.todo = op.todo /\ op'.writes = rest /\ op'.ids = op.ids
        /\ op'.kind = op.kind
        /\ op.kind = "delete" => op'.hits = op.hits
    BY <1>1, <1>2, <2>1, OpGoesOn
  <2>3. QED
    BY <2>2 DEF rest
<1>5. /\ Pending = {w} \cup Pending' /\ Todo' = Todo /\ OpIds' = OpIds /\ Listed' = Listed
  BY <1>1, <1>3, <1>4 DEF Pending, Todo, OpIds, Listed
<1>6. QED
  BY <1>1, <1>2, <1>4, <1>5 DEF Effect

\* Pages of the table and the tree's page stay what they are.
LEMMA WriteState ==
    ASSUME IInv, NEW w, Effect(w)
    PROVE  StateSound'
<1>1. Listed \subseteq OpIds /\ \A p \in Listed : p \in DOMAIN pool
  <2>1. DOMAIN pool = DOMAIN file
    BY LenProperties DEF IInv, Typed
  <2>2. QED
    BY <2>1 DEF IInv, ListSound, TableSound
<1>2. w.image \in LeafPage => w.image \notin HeapPage /\ w.page \notin OpIds
  BY Kinds DEF Effect, WriteFacts
<1>3. Typed'
  BY DEF Effect, PageDone, IInv, Typed
<1>4. table.root # NoRoot => table'.root = table.root
  BY <1>2 DEF Effect, WriteFacts
<1>5. TableSound'
  <2>1. ASSUME NEW p \in Listed
        PROVE  p \in DOMAIN file' /\ pool'[p] \in HeapPage /\ file'[p] \in HeapPage
    <3>1. p \in DOMAIN file' /\ file'[p] = file[p] /\ (p # w.page => pool'[p] = pool[p])
      BY <1>1 DEF Effect, PageDone
    <3>2. p = w.page => w.image \in HeapPage
      BY <1>1 DEF Effect, WriteFacts
    <3>3. QED
      BY <3>1, <3>2 DEF IInv, TableSound, Effect, PageDone
  <2>2. stored'.root # NoRoot => stored'.root = table'.root
    BY <1>4 DEF IInv, TableSound, Effect
  <2>3. Listed' = Listed /\ stored' = stored /\ unlisted' = unlisted
    BY DEF Effect
  <2>4. QED
    BY <2>1, <2>2, <2>3 DEF IInv, TableSound
<1>6. RootSound'
  <2>1. CASE w.image \in LeafPage
    <3>1. /\ table'.root = w.page /\ w.page \in DOMAIN file' /\ w.page \notin Listed
          /\ pool'[w.page] = w.image
      BY <1>1, <1>2, <2>1 DEF Effect, PageDone
    <3>2. file'[w.page] \in LeafPage \cup {ZeroPage}
      <4>1. CASE w.page \in DOMAIN pool
        <5>1. DOMAIN pool = 1 .. Len(pool) /\ Len(pool) \in Nat
          BY LenProperties DEF IInv, Typed
        <5>2. table.root # NoRoot /\ w.page = table.root
          BY <1>2, <2>1, <4>1, <5>1 DEF Effect, WriteFacts
        <5>3. file[w.page] \in LeafPage \cup {ZeroPage}
          BY <5>2 DEF IInv, RootSound
        <5>4. QED
          BY <4>1, <5>3 DEF Effect, PageDone
      <4>2. CASE w.page \notin DOMAIN pool
        BY <4>2 DEF Effect, PageDone
      <4>3. QED
        BY <4>1, <4>2
    <3>3. Listed' = Listed
      BY DEF Effect
    <3>4. QED
      BY <2>1, <3>1, <3>2, <3>3 DEF RootSound
  <2>2. CASE w.image \notin LeafPage
    <3>1. table'.root = table.root /\ w.page # table.root /\ Listed' = Listed
      BY <2>2 DEF Effect, WriteFacts
    <3>2. DOMAIN pool = DOMAIN file
      BY LenProperties DEF IInv, Typed
    <3>3. table.root # NoRoot => /\ table.root \in DOMAIN file' /\ table.root \notin Listed
                                 /\ pool'[table.root] = pool[table.root]
                                 /\ file'[table.root] = file[table.root]
      BY <3>1, <3>2 DEF IInv, RootSound, Effect, PageDone
    <3>4. QED
      BY <3>1, <3>3 DEF IInv, RootSound
  <2>3. QED
    BY <2>1, <2>2
<1>7. QED
  BY <1>3, <1>5, <1>6 DEF StateSound

\* The statement's list and the writes that are left stay what they are.
LEMMA WriteLists ==
    ASSUME IInv, NEW w, Effect(w)
    PROVE  ListSound' /\ WritesSound' /\ NewPagesInOrder'
<1>1. /\ Len(pool) \in Nat /\ DOMAIN pool = 1 .. Len(pool) /\ DOMAIN file = 1 .. Len(pool)
      /\ table.root \in Nat
  BY LenProperties DEF IInv, Typed, Table
<1>2. \/ /\ w.image \in HeapPage /\ w.image \notin LeafPage
         /\ w.page \in OpIds /\ w.page # table.root /\ table'.root = table.root
      \/ /\ w.image \in LeafPage /\ w.image \notin HeapPage
         /\ w.page \notin OpIds /\ table'.root = w.page
         /\ IF table.root # NoRoot THEN w.page = table.root
            ELSE /\ w.page = Len(pool) + 1
                 /\ \A v \in Pending : v.image \in LeafPage => v.page = w.page
  BY Kinds DEF Effect, WriteFacts
<1>3. /\ ~Doomed /\ w.page \in 1 .. Len(pool) + 1 /\ w = Head(op.writes)
      /\ Pending = {w} \cup Pending' /\ OpIds' = OpIds /\ Listed' = Listed
      /\ op'.ids = op.ids /\ op'.kind = op.kind /\ table'.ids = table.ids
      /\ op # Idle /\ op' # Idle
  BY DEF Effect, WriteFacts
<1>4. /\ DOMAIN pool' = DOMAIN pool \cup {w.page} /\ pool'[w.page] = w.image
      /\ \A q \in DOMAIN pool : file'[q] = file[q] /\ (q # w.page => pool'[q] = pool[q])
      /\ IF w.page \in DOMAIN pool THEN Len(pool') = Len(pool)
         ELSE /\ Len(pool') = Len(pool) + 1 /\ w.page = Len(pool) + 1
              /\ file'[w.page] = ZeroPage
  BY DEF Effect, PageDone
<1>5. ListSound'
  <2>1. ASSUME NEW p \in OpIds
        PROVE  p \in DOMAIN pool' /\ p # table'.root
               /\ pool'[p] \in HeapPage /\ file'[p] \in HeapPage
    <3>1. CASE /\ p \in DOMAIN pool /\ p # table.root
               /\ pool[p] \in HeapPage /\ file[p] \in HeapPage
      BY <1>2, <1>4, <3>1
    <3>2. CASE /\ p = Len(pool) + 1 /\ Pending # {}
               /\ Doomed \/ (Head(op.writes).page = p /\ Head(op.writes).image \in HeapPage)
      <4>1. w.page = p /\ w.image \in HeapPage /\ w.page \notin DOMAIN pool
        BY <1>1, <1>3, <3>2
      <4>2. pool'[p] \in HeapPage /\ file'[p] \in HeapPage /\ p \in DOMAIN pool'
        BY <1>4, <4>1, Kinds
      <4>3. QED
        BY <1>2, <4>1, <4>2
    <3>3. QED
      BY <3>1, <3>2 DEF IInv, ListSound
  <2>2. Listed \subseteq OpIds /\ (op.kind = "delete" => op.ids = table.ids)
    BY <1>3 DEF IInv, ListSound
  <2>3. QED
    BY <1>3, <2>1, <2>2 DEF ListSound
<1>6. WritesSound'
  <2>1. SUFFICES ASSUME NEW v \in Pending' \ {Error}
                 PROVE  /\ v.page # 0
                        /\ v.image \in HeapPage => v.page \in OpIds
                        /\ v.image \in LeafPage =>
                              IF table'.root # NoRoot THEN v.page = table'.root
                              ELSE /\ v.page > Len(pool') /\ v.page \notin OpIds
                                   /\ \A u \in Pending' :
                                         u.image \in LeafPage => u.page = v.page
    BY <1>3 DEF WritesSound
  <2>2. /\ v.page # 0 /\ (v.image \in HeapPage => v.page \in OpIds)
        /\ v.image \in LeafPage =>
              IF table.root # NoRoot THEN v.page = table.root
              ELSE /\ v.page > Len(pool) /\ v.page \notin OpIds
                   /\ \A u \in Pending : u.image \in LeafPage => u.page = v.page
    BY <1>3, <2>1 DEF IInv, WritesSound
  <2>3. v.page \in Nat
    <3>1. v \in ToSet(op.writes) /\ op.writes \in Seq(PageWrite)
      BY <1>3, <2>1 DEF Pending, Effect
    <3>2. v \in PageWrite
      BY <3>1, SeqSet
    <3>3. QED
      BY <3>2 DEF PageWrite
  <2>4. ASSUME v.image \in LeafPage
        PROVE  IF table'.root # NoRoot THEN v.page = table'.root
               ELSE /\ v.page > Len(pool') /\ v.page \notin OpIds
                    /\ \A u \in Pending' : u.image \in LeafPage => u.page = v.page
    <3>1. CASE w.image \in LeafPage
      <4>1. v.page = w.page
        BY <1>2, <1>3, <2>2, <2>4, <3>1
      <4>2. table'.root = w.page /\ w.page # NoRoot
        BY <1>1, <1>2, <1>3, <3>1 DEF NoRoot
      <4>3. QED
        BY <4>1, <4>2
    <3>2. CASE w.image \notin LeafPage
      <4>1. CASE table.root # NoRoot
        BY <1>2, <2>2, <2>4, <3>2, <4>1
      <4>2. CASE table.root = NoRoot
        <5>1. /\ v.page > Len(pool) /\ v.page \notin OpIds
              /\ \A u \in Pending : u.image \in LeafPage => u.page = v.page
          BY <2>2, <2>4, <4>2
        <5>2. v.page > Len(pool')
          <6>1. w.page \in OpIds
            BY <1>2, <3>2
          <6>2. CASE w.page \in DOMAIN pool
            BY <1>4, <5>1, <6>2
          <6>3. CASE w.page \notin DOMAIN pool
            <7>1. Len(pool') = Len(pool) + 1 /\ v.page # Len(pool) + 1
              BY <1>4, <5>1, <6>1, <6>3
            <7>2. QED
              BY <1>1, <2>3, <5>1, <7>1
          <6>4. QED
            BY <6>2, <6>3
        <5>3. QED
          BY <1>2, <1>3, <3>2, <4>2, <5>1, <5>2
      <4>3. QED
        BY <4>1, <4>2
    <3>3. QED
      BY <3>1, <3>2
  <2>5. QED
    BY <2>2, <2>4
<1>7. NewPagesInOrder'
  <2> DEFINE rest == Tail(op.writes)
             writes == op.writes
  <2>1. /\ op'.writes = rest /\ writes \in Seq(PageWrite) /\ writes # <<>>
    BY DEF Effect
  <2>2. /\ w = writes[1] /\ rest \in Seq(PageWrite) /\ Len(rest) = Len(writes) - 1
        /\ Len(writes) \in Nat \ {0}
        /\ \A i \in 1 .. Len(writes) - 1 : rest[i] = writes[i + 1]
    BY <1>3, <2>1, TailSet
  <2>3. /\ DOMAIN rest = 1 .. Len(writes) - 1 /\ DOMAIN writes = 1 .. Len(writes)
        /\ \A i \in 1 .. Len(writes) : writes[i].page \in Nat
    <3>1. \A i \in 1 .. Len(writes) : writes[i] \in PageWrite
      BY <2>1, ElementOfSeq
    <3>2. QED
      BY <2>1, <2>2, <3>1, LenProperties DEF PageWrite
  <2> HIDE DEF rest, writes
  <2>4. ASSUME NEW k \in DOMAIN rest
        PROVE  \/ rest[k].page <= Len(pool') + 1
               \/ \E j \in 1 .. k - 1 : rest[j].page = rest[k].page - 1
    <3>1. /\ k \in Nat /\ k + 1 \in 1 .. Len(writes) /\ (k + 1) - 1 = k
          /\ rest[k] = writes[k + 1] /\ rest[k].page \in Nat
      BY <2>2, <2>3, <2>4
    <3>2. \/ rest[k].page <= Len(pool) + 1
          \/ \E j \in 1 .. k : writes[j].page = rest[k].page - 1
      <4>1. \A i \in DOMAIN writes :
               \/ writes[i].page <= Len(pool) + 1
               \/ \E j \in 1 .. i - 1 : writes[j].page = writes[i].page - 1
        <5>1. Pending # {} /\ ~Doomed
          BY <1>3
        <5>2. QED
          BY <5>1 DEF IInv, NewPagesInOrder, writes
      <4>2. k + 1 \in DOMAIN writes
        BY <2>3, <3>1
      <4>3. \/ writes[k + 1].page <= Len(pool) + 1
            \/ \E j \in 1 .. (k + 1) - 1 : writes[j].page = writes[k + 1].page - 1
        BY <4>1, <4>2
      <4>4. QED
        BY <3>1, <4>3
    <3>3. Len(pool') \in {Len(pool), Len(pool) + 1} /\ w.page <= Len(pool')
      <4>1. CASE w.page \in DOMAIN pool
        <5>1. Len(pool') = Len(pool) /\ w.page \in 1 .. Len(pool)
          BY <1>1, <1>4, <4>1
        <5>2. QED
          BY <1>1, <5>1
      <4>2. CASE w.page \notin DOMAIN pool
        <5>1. Len(pool') = Len(pool) + 1 /\ w.page = Len(pool) + 1
          BY <1>4, <4>2
        <5>2. QED
          BY <1>1, <5>1
      <4>3. QED
        BY <4>1, <4>2
    <3>4. CASE rest[k].page <= Len(pool) + 1
      BY <1>1, <3>1, <3>3, <3>4
    <3>5. CASE \E j \in 1 .. k : writes[j].page = rest[k].page - 1
      <4>1. PICK j \in 1 .. k : writes[j].page = rest[k].page - 1
        BY <3>5
      <4>2. CASE j = 1
        BY <1>1, <1>3, <2>2, <3>1, <3>3, <4>1, <4>2
      <4>3. CASE j # 1
        <5>1. /\ j - 1 \in 1 .. k - 1 /\ j - 1 \in 1 .. Len(writes) - 1 /\ (j - 1) + 1 = j
          BY <2>2, <3>1, <4>1, <4>3
        <5>2. rest[j - 1] = writes[j]
          BY <2>2, <5>1
        <5>3. QED
          BY <4>1, <5>1, <5>2
      <4>4. QED
        BY <4>2, <4>3
    <3>6. QED
      BY <3>2, <3>4, <3>5
  <2>5. QED
    BY <2>1, <2>4 DEF NewPagesInOrder
<1>8. QED
  BY <1>5, <1>6, <1>7

\* Slots that held something hold it after the write.
LEMMA WriteKeeps ==
    ASSUME IInv, NEW w, Effect(w), NEW pin \in Lasting \cup Passing
    PROVE  /\ pin[1][1] \in Listed
           /\ Holds(file'[pin[1][1]], pin[1], pin[2]) \/ pin \notin Lasting
           /\ Holds(pool'[pin[1][1]], pin[1], pin[2])
           /\ \A v \in Pending' : v.page = pin[1][1] => Holds(v.image, pin[1], pin[2])
<1>1. /\ pin[1][1] \in Listed
      /\ Holds(file[pin[1][1]], pin[1], pin[2]) \/ pin \notin Lasting
      /\ Holds(pool[pin[1][1]], pin[1], pin[2])
      /\ \A v \in Pending : v.page = pin[1][1] => Holds(v.image, pin[1], pin[2])
  BY DEF IInv, PinsHeld
<1>2. /\ pin[1][1] \in DOMAIN pool
  BY <1>1, TableList DEF IInv, StateSound
<1>3. /\ file'[pin[1][1]] = file[pin[1][1]]
      /\ pool'[w.page] = w.image
      /\ pin[1][1] # w.page => pool'[pin[1][1]] = pool[pin[1][1]]
      /\ w \in Pending /\ Pending' \subseteq Pending
  BY <1>2 DEF Effect, PageDone
<1>4. Holds(pool'[pin[1][1]], pin[1], pin[2])
  BY <1>1, <1>3
<1>5. QED
  BY <1>1, <1>3, <1>4

\* A row that dies with the write is on its page, and it is the last write.
LEMMA WriteKills ==
    ASSUME IInv, NEW w, Effect(w), NEW i \in Dead' \ Dead
    PROVE  /\ i[1] \in Listed /\ Pending' = {}
           /\ Holds(pool'[i[1]], i, {Tombstone})
<1>1. /\ op.kind = "delete" /\ op # Idle /\ i \in op.hits
      /\ Holds(pool'[i[1]], i, {Tombstone}) /\ ~Holds(pool[i[1]], i, {Tombstone})
  BY DEF Effect, Dead
<1>2. i[1] \in Listed
  <2>1. CASE i \in {h.id : h \in Todo}
    BY <2>1, TodoNames DEF IInv, StateSound
  <2>2. CASE i \notin {h.id : h \in Todo}
    BY <1>1, <2>2 DEF IInv, Covered
  <2>3. QED
    BY <2>1, <2>2
<1>3. w.page = i[1] /\ w.image \in HeapPage /\ w # Error
  <2>1. i[1] \in DOMAIN pool
    BY <1>2, TableList DEF IInv, StateSound
  <2>2. w.page = i[1] /\ pool'[i[1]] = w.image
    BY <1>1, <2>1 DEF Effect, PageDone
  <2>3. QED
    BY <1>1, <2>2 DEF Holds, Effect, WriteFacts
<1>4. w \notin {v \in PageWrite : v = Error \/ v.image \in LeafPage}
  BY <1>3, Kinds
<1>5. /\ op.writes \in Seq(PageWrite) /\ op.writes # <<>> /\ w = op.writes[1]
      /\ Len(op.writes) \in Nat \ {0}
      /\ Len(Tail(op.writes)) = Len(op.writes) - 1 /\ Tail(op.writes) \in Seq(PageWrite)
      /\ w \in PageWrite
  BY TailSet, SeqSet DEF Effect
<1>6. \A k \in 1 .. Len(op.writes) - 1 :
         op.writes[k] = Error \/ op.writes[k].image \in LeafPage
  BY <1>1 DEF IInv, Covered
<1>7. Len(op.writes) = 1
  <2> DEFINE n == Len(op.writes)
  <2>1. ~ (1 \in 1 .. n - 1)
    BY <1>4, <1>5, <1>6
  <2>2. n \in Nat \ {0}
    BY <1>5
  <2> HIDE DEF n
  <2>3. n = 1
    BY <2>1, <2>2
  <2>4. QED
    BY <2>3 DEF n
<1>8. Tail(op.writes) = <<>>
  <2> DEFINE rest == Tail(op.writes)
  <2>1. rest \in Seq(PageWrite) /\ Len(rest) = 0
    BY <1>5, <1>7
  <2> HIDE DEF rest
  <2>2. rest = <<>>
    BY <2>1, EmptySeq
  <2>3. QED
    BY <2>2 DEF rest
<1>9. Pending' = {}
  BY <1>8, ShortSeqs DEF Effect, Pending
<1>10. QED
  BY <1>1, <1>2, <1>9

\* Slots stay pinned, and a DELETE is still to remove what it has not removed.
LEMMA WritePins ==
    ASSUME IInv, NEW w, Effect(w)
    PROVE  PinsHeld' /\ NoRevival' /\ Covered'
<1>1. Lasting' = Lasting /\ Listed' = Listed /\ Todo' = Todo
  BY DEF Effect, Lasting, Buried
<1>2. Dead \subseteq Dead'
  <2>1. ASSUME NEW i \in Dead
        PROVE  i \in Dead'
    <3> DEFINE pin == <<i, {Tombstone}>>
    <3>1. pin \in Lasting \cup Passing /\ pin[1] = i /\ pin[2] = {Tombstone}
      BY DEF Passing
    <3> HIDE DEF pin
    <3>2. Holds(pool'[pin[1][1]], pin[1], pin[2])
      BY <3>1, WriteKeeps
    <3>3. Holds(pool'[i[1]], i, {Tombstone})
      BY <3>1, <3>2
    <3>4. QED
      BY <3>3 DEF Dead, Effect
  <2>2. QED
    BY <2>1
<1>3. PinsHeld'
  <2>1. ASSUME NEW pin \in Lasting' \cup Passing'
        PROVE  /\ pin[1][1] \in Listed
               /\ Holds(pool'[pin[1][1]], pin[1], pin[2])
               /\ \A v \in Pending' : v.page = pin[1][1] => Holds(v.image, pin[1], pin[2])
    <3>1. CASE pin \in Lasting \cup Passing
      BY <3>1, WriteKeeps
    <3>2. CASE pin \notin Lasting \cup Passing
      <4>1. PICK i \in Dead' \ Dead : pin = <<i, {Tombstone}>>
        BY <1>1, <3>2 DEF Passing
      <4>2. QED
        BY <4>1, WriteKills
    <3>3. QED
      BY <3>1, <3>2
  <2>2. \A pin \in Lasting' : Holds(file'[pin[1][1]], pin[1], pin[2])
    BY <1>1, WriteKeeps
  <2>3. QED
    BY <1>1, <2>1, <2>2 DEF PinsHeld
<1>4. NoRevival'
  <2>1. op'.kind = "update" => \A h \in Todo' : h.id \notin gone'
    BY <1>1 DEF IInv, NoRevival, Effect
  <2>2. QED
    BY <2>1 DEF NoRevival
<1>5. Covered'
  <2> DEFINE rest == Tail(op.writes)
  <2>1. SUFFICES ASSUME op.kind = "delete"
                 PROVE  /\ \A i \in op.hits :
                              \/ i \in {h.id : h \in Todo} \/ i \in Dead'
                              \/ /\ rest # <<>> /\ i[1] \in Listed
                                 /\ Last(rest).page = i[1]
                                 /\ Holds(Last(rest).image, i, {Tombstone})
                        /\ \A k \in 1 .. Len(rest) - 1 :
                              rest[k] = Error \/ rest[k].image \in LeafPage
    BY <1>1 DEF Covered, Effect
  <2>2. /\ op.writes \in Seq(PageWrite) /\ op.writes # <<>> /\ w = op.writes[1]
        /\ Len(op.writes) \in Nat \ {0}
        /\ Len(rest) = Len(op.writes) - 1 /\ rest \in Seq(PageWrite)
        /\ \A k \in 1 .. Len(op.writes) - 1 : rest[k] = op.writes[k + 1]
    BY TailSet DEF Effect
  <2>3. /\ \A i \in op.hits :
              \/ i \in {h.id : h \in Todo} \/ i \in Dead
              \/ /\ i[1] \in Listed /\ Last(op.writes).page = i[1]
                 /\ Holds(Last(op.writes).image, i, {Tombstone})
        /\ \A k \in 1 .. Len(op.writes) - 1 :
              op.writes[k] = Error \/ op.writes[k].image \in LeafPage
    BY <2>1 DEF IInv, Covered, Effect
  <2> HIDE DEF rest
  <2>4. \A k \in 1 .. Len(rest) - 1 : rest[k] = Error \/ rest[k].image \in LeafPage
    <3>1. \A k \in 1 .. Len(rest) - 1 : /\ k \in 1 .. Len(op.writes) - 1
                                        /\ k + 1 \in 1 .. Len(op.writes) - 1
      BY <2>2
    <3>2. QED
      BY <2>2, <2>3, <3>1
  <2>5. ASSUME NEW i \in op.hits, i[1] \in Listed, Last(op.writes).page = i[1],
               Holds(Last(op.writes).image, i, {Tombstone})
        PROVE  \/ i \in Dead'
               \/ /\ rest # <<>> /\ Last(rest).page = i[1]
                  /\ Holds(Last(rest).image, i, {Tombstone})
    <3>1. CASE Len(op.writes) = 1
      <4>1. w = Last(op.writes)
        BY <2>2, <3>1 DEF Last
      <4>2. pool'[i[1]] = w.image
        BY <2>5, <4>1 DEF Effect, PageDone
      <4>3. QED
        BY <2>1, <2>5, <4>1, <4>2 DEF Dead, Effect
    <3>2. CASE Len(op.writes) # 1
      <4>1. /\ Len(rest) \in 1 .. Len(op.writes) - 1 /\ Len(rest) + 1 = Len(op.writes)
            /\ rest # <<>>
        <5> DEFINE n == Len(op.writes)
                   m == Len(rest)
        <5>1. n \in Nat \ {0} /\ n # 1 /\ m = n - 1
          BY <2>2, <3>2
        <5> HIDE DEF n, m
        <5>2. m \in 1 .. n - 1 /\ m + 1 = n /\ m # 0
          BY <5>1
        <5>3. QED
          BY <5>2, ShortSeqs DEF n, m
      <4>2. rest[Len(rest)] = op.writes[Len(op.writes)]
        BY <2>2, <4>1
      <4>3. Last(rest) = Last(op.writes)
        BY <4>2 DEF Last
      <4>4. QED
        BY <2>5, <4>1, <4>3
    <3>3. QED
      BY <3>1, <3>2
  <2>6. QED
    BY <1>2, <2>3, <2>4, <2>5
<1>6. QED
  BY <1>3, <1>4, <1>5

\* No write touches an orphan.
LEMMA WriteHistory ==
    ASSUME IInv, NEW w, Effect(w)
    PROVE  OrphansHeld' /\ CheckpointListed'
<1>1. DOMAIN pool = 1 .. Len(pool) /\ Len(pool) \in Nat
  BY LenProperties DEF IInv, Typed
<1>2. ASSUME NEW id \in gone, id[1] \notin Listed
      PROVE  /\ id[1] \in DOMAIN pool' /\ id[1] \notin OpIds
             /\ Holds(file'[id[1]], id, {Tombstone})
             /\ Holds(pool'[id[1]], id, {Tombstone})
  <2>1. /\ id[1] \in DOMAIN pool /\ id[1] \notin OpIds
        /\ Holds(file[id[1]], id, {Tombstone}) /\ Holds(pool[id[1]], id, {Tombstone})
    BY <1>2 DEF IInv, OrphansHeld
  <2>2. table.root # NoRoot => id[1] # table.root
    <3>1. pool[id[1]] \in HeapPage /\ pool[id[1]] # ZeroPage
      <4>1. SlotsOf(ZeroPage) = {}
        BY Kinds, PageSlots DEF ZeroPage
      <4>2. QED
        BY <2>1, <4>1 DEF Holds
    <3>2. QED
      BY <3>1, Kinds DEF IInv, RootSound
  <2>3. id[1] # w.page
    BY <1>1, <2>1, <2>2 DEF Effect, WriteFacts
  <2>4. QED
    BY <2>1, <2>3 DEF Effect, PageDone
<1>3. OrphansHeld'
  BY <1>2 DEF OrphansHeld, Effect
<1>4. QED
  BY <1>3 DEF IInv, CheckpointListed, Effect

\* A page write of a statement keeps the invariant.
LEMMA WritePageStep ==
    ASSUME IInv, WritePage
    PROVE  IInv'
<1>1. Effect(Head(op.writes))
  BY WriteEffect
<1>2. StateSound' /\ ListSound' /\ WritesSound' /\ NewPagesInOrder'
  BY <1>1, WriteState, WriteLists
<1>3. PinsHeld' /\ NoRevival' /\ Covered' /\ OrphansHeld' /\ CheckpointListed'
  BY <1>1, WritePins, WriteHistory
<1>4. QED
  BY <1>2, <1>3 DEF IInv, StateSound
----------------------------------------------------------------------------
\* A function on 1 .. n is a sequence.
LEMMA FunctionSeq ==
    ASSUME NEW S, NEW n \in Nat, NEW f \in [1 .. n -> S]
    PROVE  f \in Seq(S) /\ Len(f) = n
OBVIOUS

\* A scan of heap pages finds rows that are there.
LEMMA RowsGood ==
    ASSUME NEW pgs, NEW ids, HeapList(pgs, ids), NEW rows, rows = RowsOf(pgs, ids)
    PROVE  /\ rows \in Seq(Hit)
           /\ \A h \in ToSet(rows) : /\ h \in Hit /\ h.id[1] \in ToSet(ids)
                                     /\ Holds(pgs[h.id[1]], h.id, Rec(h.row))
<1> DEFINE found == ScannedIds(pgs, ids)
           hit(i) == [id |-> found[i], row |-> Slot(pgs, found[i]).rec]
<1>1. /\ ids \in Seq(Nat) /\ Len(ids) \in Nat /\ DOMAIN ids = 1 .. Len(ids)
  BY LenProperties DEF HeapList
<1>2. ScanGood(pgs, ids, Len(ids), found)
  <2>1. \A i \in 1 .. Len(ids) : pgs[ids[i]].slots \in Seq(HeapEntry)
    <3>1. \A i \in 1 .. Len(ids) : ids[i] \in ToSet(ids)
      BY <1>1, SeqSet
    <3>2. QED
      BY <3>1, PageSlots DEF HeapList
  <2>2. QED
    BY <1>1, <2>1, HeapScan
<1>3. rows = [i \in DOMAIN found |-> hit(i)]
  BY DEF RowsOf
<1> HIDE DEF found
<1>4. found \in Seq(Nat \X Nat) /\ Len(found) \in Nat /\ DOMAIN found = 1 .. Len(found)
  BY <1>2, LenProperties DEF ScanGood
<1>5. ASSUME NEW i \in 1 .. Len(found)
      PROVE  /\ hit(i) \in Hit /\ hit(i).id[1] \in ToSet(ids)
             /\ Holds(pgs[hit(i).id[1]], hit(i).id, Rec(hit(i).row))
  <2> DEFINE id == found[i]
             e == Slot(pgs, id)
  <2>1. id \in RowId
    BY <1>4, ElementOfSeq DEF RowId
  <2>2. PICK a \in 1 .. Len(ids) : id[1] = ids[a] /\ Live(pgs[ids[a]], id[2])
    BY <1>2 DEF ScanGood
  <2>3. id[1] \in ToSet(ids) /\ pgs[id[1]] \in HeapPage
    BY <1>1, <2>2, SeqSet DEF HeapList
  <2>4. id[2] \in SlotsOf(pgs[id[1]]) /\ e = pgs[id[1]].slots[id[2]] /\ e.len # 0
    BY <2>2 DEF Live, Slot
  <2>5. e \in HeapEntry
    BY <2>3, <2>4, PageSlots
  <2>6. hit(i).id = id /\ hit(i).row = e.rec /\ hit(i) = [id |-> id, row |-> e.rec]
    OBVIOUS
  <2> HIDE DEF id, e, hit
  <2>7. e.rec \in Row /\ e \in Rec(e.rec)
    BY <2>4, <2>5 DEF HeapEntry, Rec, Tombstone
  <2>8. Holds(pgs[id[1]], id, Rec(e.rec))
    BY <2>3, <2>4, <2>7 DEF Holds
  <2>9. hit(i) \in Hit
    BY <2>1, <2>6, <2>7 DEF Hit
  <2>10. QED
    BY <2>3, <2>6, <2>8, <2>9
<1> HIDE DEF hit
<1>6. rows \in [1 .. Len(found) -> Hit] /\ DOMAIN rows = 1 .. Len(found)
  BY <1>3, <1>4, <1>5
<1>7. rows \in Seq(Hit)
  BY <1>4, <1>6, FunctionSeq
<1>8. ASSUME NEW h \in ToSet(rows)
      PROVE  /\ h \in Hit /\ h.id[1] \in ToSet(ids)
             /\ Holds(pgs[h.id[1]], h.id, Rec(h.row))
  <2>1. PICK i \in 1 .. Len(found) : h = rows[i]
    BY <1>6 DEF ToSet
  <2>2. h = hit(i)
    BY <1>3, <1>4, <2>1
  <2>3. QED
    BY <1>5, <2>2
<1>9. QED
  BY <1>7, <1>8

\* The loop over the rows of a scan: those of the first n rows that match.
MatchingUpTo(match) ==
    LET rows == Rows
        upTo[i \in 0 .. Len(rows)] ==
          IF i = 0 THEN <<>>
          ELSE IF rows[i].row \in match THEN Append(upTo[i - 1], rows[i]) ELSE upTo[i - 1]
    IN  upTo

\* The loop is the function that its recursive definition says.
LEMMA MatchingUpToDef ==
    ASSUME NEW match, Len(Rows) \in Nat
    PROVE  /\ MatchingUpTo(match)[0] = <<>>
           /\ \A i \in 1 .. Len(Rows) :
                 MatchingUpTo(match)[i] =
                    IF Rows[i].row \in match THEN Append(MatchingUpTo(match)[i - 1], Rows[i])
                    ELSE MatchingUpTo(match)[i - 1]
<1> DEFINE rows == Rows
           More(f, i) == IF rows[i].row \in match THEN Append(f[i - 1], rows[i]) ELSE f[i - 1]
           Def(f, i) == IF i = 0 THEN <<>> ELSE More(f, i)
           S == {n \in Nat : \E f : f = [i \in 0 .. n |-> Def(f, i)]}
<1>1. 0 \in S
  <2> DEFINE f == [i \in 0 .. 0 |-> <<>>]
  <2>1. f = [i \in 0 .. 0 |-> Def(f, i)]
    OBVIOUS
  <2> HIDE DEF f
  <2>2. QED
    BY <2>1
<1>2. ASSUME NEW n \in Nat, n \in S
      PROVE  n + 1 \in S
  <2>1. PICK f : f = [i \in 0 .. n |-> Def(f, i)]
    BY <1>2
  <2> DEFINE g == [i \in 0 .. n + 1 |-> IF i = n + 1 THEN More(f, i) ELSE f[i]]
  <2> HIDE DEF rows
  <2>2. ASSUME NEW i \in 0 .. n + 1
        PROVE  g[i] = Def(g, i)
    <3>1. CASE i = 0
      BY <2>1, <3>1
    <3>2. CASE i = n + 1
      <4>1. g[i] = More(f, i) /\ g[i - 1] = f[i - 1] /\ i # 0
        BY <3>2
      <4> HIDE DEF g
      <4>2. QED
        BY <4>1
    <3>3. CASE i \in 1 .. n
      <4>1. g[i] = f[i] /\ g[i - 1] = f[i - 1] /\ i \in 0 .. n
        BY <3>3
      <4> HIDE DEF Def, g
      <4>2. f[i] = Def(f, i)
        BY <2>1, <4>1
      <4>3. QED
        BY <4>1, <4>2 DEF Def
    <3>4. QED
      BY <3>1, <3>2, <3>3
  <2>3. g = [i \in 0 .. n + 1 |-> Def(g, i)]
    BY <2>2
  <2> HIDE DEF g, Def
  <2>4. QED
    BY <2>3
<1>3. Nat \subseteq S
  <2> HIDE DEF S
  <2>1. QED
    BY <1>1, <1>2, Induction
<1>4. \E f : f = [i \in 0 .. Len(rows) |-> Def(f, i)]
  BY <1>3
<1>5. MatchingUpTo(match) = CHOOSE f : f = [i \in 0 .. Len(rows) |-> Def(f, i)]
  BY DEF MatchingUpTo
<1> HIDE DEF Def, rows
<1>6. MatchingUpTo(match) = [i \in 0 .. Len(rows) |-> Def(MatchingUpTo(match), i)]
  BY <1>4, <1>5
<1>7. \A i \in 0 .. Len(rows) : MatchingUpTo(match)[i] = Def(MatchingUpTo(match), i)
  BY <1>6
<1>8. Len(rows) \in Nat
  BY DEF rows
<1>9. MatchingUpTo(match)[0] = <<>>
  BY <1>7, <1>8, 0 \in 0 .. Len(rows) DEF Def
<1>10. ASSUME NEW i \in 1 .. Len(rows)
       PROVE  MatchingUpTo(match)[i] = More(MatchingUpTo(match), i)
  <2>1. i \in 0 .. Len(rows) /\ i # 0
    BY <1>8
  <2> HIDE DEF More
  <2>2. QED
    BY <1>7, <2>1 DEF Def
<1>11. QED
  BY <1>9, <1>10 DEF rows

\* What matches is some of what the scan found.
LEMMA MatchingGood ==
    ASSUME NEW match, Rows \in Seq(Hit)
    PROVE  Matching(match) \in Seq(Hit) /\ ToSet(Matching(match)) \subseteq ToSet(Rows)
<1> DEFINE T == ToSet(Rows)
           upTo == MatchingUpTo(match)
           S == {n \in Nat : n <= Len(Rows) => upTo[n] \in Seq(T)}
<1>1. Len(Rows) \in Nat /\ \A i \in 1 .. Len(Rows) : Rows[i] \in T
  BY SeqSet
<1>2. /\ upTo[0] = <<>>
      /\ \A i \in 1 .. Len(Rows) :
            upTo[i] = IF Rows[i].row \in match THEN Append(upTo[i - 1], Rows[i])
                      ELSE upTo[i - 1]
  BY <1>1, MatchingUpToDef
<1> HIDE DEF T, upTo
<1>3. 0 \in S
  BY <1>2, ShortSeqs
<1>4. ASSUME NEW n \in Nat, n \in S
      PROVE  n + 1 \in S
  <2>1. SUFFICES ASSUME n + 1 <= Len(Rows)
                 PROVE  upTo[n + 1] \in Seq(T)
    OBVIOUS
  <2>2. n + 1 \in 1 .. Len(Rows) /\ (n + 1) - 1 = n /\ n <= Len(Rows)
    BY <1>1, <2>1
  <2>3. upTo[n] \in Seq(T)
    BY <1>4, <2>2
  <2>4. Append(upTo[n], Rows[n + 1]) \in Seq(T)
    BY <1>1, <2>2, <2>3, AppendProperties
  <2>5. QED
    BY <1>2, <2>2, <2>3, <2>4
<1>5. Nat \subseteq S
  <2> HIDE DEF S
  <2>1. QED
    BY <1>3, <1>4, Induction
<1>6. upTo[Len(Rows)] \in Seq(T)
  BY <1>1, <1>5
<1>7. Matching(match) = upTo[Len(Rows)]
  BY DEF Matching, MatchingUpTo, upTo
<1>8. Matching(match) \in Seq(T)
  BY <1>6, <1>7
<1>9. T \subseteq Hit
  BY SeqSet DEF T
<1>10. Matching(match) \in Seq(Hit)
  BY <1>8, <1>9, SeqMonotonic
<1>11. ToSet(Matching(match)) \subseteq T
  BY <1>8, SeqSet
<1>12. QED
  BY <1>10, <1>11 DEF T

\* What a scan of the table finds are hits, and there.
LEMMA TableRows ==
    ASSUME StateSound
    PROVE  /\ Rows \in Seq(Hit) /\ ToSet(Rows) \subseteq Hit
           /\ \A h \in ToSet(Rows) : /\ h.id[1] \in Listed
                                     /\ Holds(pool[h.id[1]], h.id, Rec(h.row))
                                     /\ Holds(pool[h.id[1]], h.id, HeapEntry)
<1>1. HeapList(pool, table.ids) /\ Listed = ToSet(table.ids)
  BY TableList DEF OpenList
<1>2. /\ Rows \in Seq(Hit)
      /\ \A h \in ToSet(Rows) : /\ h \in Hit /\ h.id[1] \in Listed
                                /\ Holds(pool[h.id[1]], h.id, Rec(h.row))
  BY <1>1, RowsGood DEF Rows
<1>3. \A h \in Hit : Rec(h.row) \subseteq HeapEntry
  BY DEF Hit, Rec, HeapEntry
<1>4. QED
  BY <1>2, <1>3 DEF Holds

\* Slots of deleted rows have a tombstone in pool and file.
GoneHeld == \A id \in gone : /\ id[1] \in DOMAIN pool
                             /\ Holds(file[id[1]], id, {Tombstone})
                             /\ Holds(pool[id[1]], id, {Tombstone})

DurableHeld == \A h \in durable : /\ Holds(file[h.id[1]], h.id, Rec(h.row))
                                  /\ Holds(pool[h.id[1]], h.id, Rec(h.row))

\* The pins say so, whether the page is still listed or not.
LEMMA HistoryHolds ==
    ASSUME IInv
    PROVE  GoneHeld /\ DurableHeld
<1>1. ASSUME NEW id \in gone
      PROVE  /\ id[1] \in DOMAIN pool
             /\ Holds(file[id[1]], id, {Tombstone}) /\ Holds(pool[id[1]], id, {Tombstone})
  <2>1. CASE id[1] \in Listed
    <3> DEFINE pin == <<id, {Tombstone}>>
    <3>1. pin \in Lasting /\ pin[1] = id /\ pin[2] = {Tombstone}
      BY <2>1 DEF Lasting, Buried
    <3> HIDE DEF pin
    <3>2. Holds(file[id[1]], id, {Tombstone}) /\ Holds(pool[id[1]], id, {Tombstone})
      BY <3>1 DEF IInv, PinsHeld
    <3>3. QED
      BY <2>1, <3>2, TableList DEF IInv, StateSound
  <2>2. CASE id[1] \notin Listed
    BY <2>2 DEF IInv, OrphansHeld
  <2>3. QED
    BY <2>1, <2>2
<1>2. ASSUME NEW h \in durable
      PROVE  /\ Holds(file[h.id[1]], h.id, Rec(h.row))
             /\ Holds(pool[h.id[1]], h.id, Rec(h.row))
  <2> DEFINE pin == <<h.id, Rec(h.row)>>
  <2>1. pin \in Lasting /\ pin[1] = h.id /\ pin[2] = Rec(h.row)
    BY DEF Lasting
  <2> HIDE DEF pin
  <2>2. QED
    BY <2>1 DEF IInv, PinsHeld
<1>3. QED
  BY <1>1, <1>2 DEF GoneHeld, DurableHeld

\* When no statement runs, the invariant is about the pages and the history.
LEMMA IdleStep ==
    ASSUME StateSound', op' = Idle, GoneHeld', DurableHeld', CheckpointListed'
    PROVE  IInv'
<1>1. Pending' = {} /\ Todo' = {} /\ OpIds' = Listed' /\ Dead' = {} /\ Passing' = {}
  BY DEF Pending, Todo, OpIds, Dead, Passing
<1>2. DOMAIN pool' = DOMAIN file' /\ 0 \notin DOMAIN file'
  BY LenProperties DEF StateSound, Typed
<1>3. ListSound'
  BY <1>1, <1>2 DEF ListSound, StateSound, TableSound, RootSound, NoRoot
<1>4. WritesSound' /\ NewPagesInOrder'
  BY <1>1 DEF WritesSound, NewPagesInOrder
<1>5. PinsHeld'
  <2>1. ASSUME NEW pin \in Lasting'
        PROVE  /\ pin[1][1] \in Listed'
               /\ Holds(file'[pin[1][1]], pin[1], pin[2])
               /\ Holds(pool'[pin[1][1]], pin[1], pin[2])
    <3>1. CASE pin \in {<<h.id, Rec(h.row)>> : h \in durable'}
      <4>1. PICK h \in durable' : pin = <<h.id, Rec(h.row)>>
        BY <3>1
      <4>2. h.id[1] \in Listed'
        BY DEF CheckpointListed, StateSound, TableSound
      <4>3. QED
        BY <4>1, <4>2 DEF DurableHeld
    <3>2. CASE pin \in {<<id, {Tombstone}>> : id \in Buried'}
      BY <3>2 DEF Buried, GoneHeld
    <3>3. QED
      BY <3>1, <3>2 DEF Lasting
  <2>2. QED
    BY <1>1, <2>1 DEF PinsHeld
<1>6. NoRevival' /\ Covered'
  BY DEF NoRevival, Covered
<1>7. OrphansHeld'
  BY <1>1 DEF OrphansHeld, GoneHeld
<1>8. QED
  BY <1>3, <1>4, <1>5, <1>6, <1>7 DEF IInv, StateSound

\* A statement that stops with an error, its own or that of a flush, keeps the
\* invariant.
LEMMA StopStep ==
    ASSUME IInv, Fail \/ FlushFails
    PROVE  IInv'
<1>1. op' = Idle /\ UNCHANGED <<pool, file, table, stored, unlisted, durable, gone>>
  BY DEF Fail, FlushFails
<1>2. StateSound'
  BY <1>1, SameState DEF IInv, Typed, StateSound, Operation
<1>3. GoneHeld /\ DurableHeld /\ CheckpointListed
  BY HistoryHolds DEF IInv
<1>4. GoneHeld' /\ DurableHeld' /\ CheckpointListed'
  BY <1>1, <1>3 DEF GoneHeld, DurableHeld, CheckpointListed
<1>5. QED
  BY <1>1, <1>2, <1>4, IdleStep

\* A statement puts its list into the table and, if it can, into the catalog page.
LEMMA StoreStep ==
    ASSUME IInv, Store \/ StoreFails
    PROVE  IInv'
<1>1. /\ op # Idle /\ op.writes = <<>> /\ op' = Idle
      /\ table' = [table EXCEPT !.ids = op.ids]
      /\ \/ stored' = table'
         \/ /\ stored' = stored
            /\ unlisted' = unlisted \cup (ToSet(op.ids) \ ToSet(table.ids))
      /\ UNCHANGED <<pool, file, durable, gone>>
  BY DEF Store, StoreFails, Idle
<1>2. /\ Pending = {} /\ OpenList(op.ids) /\ Listed \subseteq ToSet(op.ids)
      /\ \A p \in ToSet(op.ids) : p \in DOMAIN pool /\ p # table.root
                                  /\ pool[p] \in HeapPage /\ file[p] \in HeapPage
  BY <1>1, QuietList DEF IInv, StateSound
<1>3. op.ids \in Seq(Nat) /\ table \in Table
  BY <1>1, OpFields DEF IInv, Typed
<1>4. table' \in Table /\ table'.ids = op.ids /\ table'.root = table.root
  BY <1>1, <1>3 DEF Table
<1>5. Typed'
  BY <1>1, <1>4 DEF IInv, Typed, Operation
<1>6. Listed' = ToSet(op.ids)
  BY <1>4 DEF Listed
<1>7. DOMAIN pool = DOMAIN file
  BY LenProperties DEF IInv, Typed
<1>8. ToSet(stored'.ids) \subseteq Listed' /\ Listed' \subseteq ToSet(stored'.ids) \cup unlisted'
  BY <1>1, <1>2, <1>4, <1>6 DEF IInv, TableSound, Listed
<1>9. TableSound'
  BY <1>1, <1>2, <1>4, <1>6, <1>7, <1>8 DEF IInv, TableSound
<1>10. RootSound'
  BY <1>1, <1>2, <1>4, <1>6 DEF IInv, RootSound
<1>11. GoneHeld /\ DurableHeld
  BY HistoryHolds
<1>12. GoneHeld' /\ DurableHeld'
  BY <1>1, <1>11 DEF GoneHeld, DurableHeld
<1>13. CheckpointListed'
  BY <1>1, <1>2, <1>4 DEF IInv, CheckpointListed, TableSound
<1>14. QED
  BY <1>1, <1>5, <1>9, <1>10, <1>12, <1>13, IdleStep DEF StateSound

\* A DELETE ends with a flush: what it found is dead in the file.
LEMMA FinishDeleteStep ==
    ASSUME IInv, FinishDelete
    PROVE  IInv'
<1>1. /\ op # Idle /\ op.kind = "delete" /\ op.writes = <<>> /\ op.todo = <<>> /\ op' = Idle
      /\ file' = pool /\ durable' = {h \in ToSet(Rows) : h.id[1] \notin unlisted}
      /\ gone' = gone \cup op.hits
      /\ UNCHANGED <<pool, table, stored, unlisted>>
  BY DEF FinishDelete, Idle, Flushed
<1>2. StateSound
  BY DEF IInv, StateSound
<1>3. /\ ToSet(Rows) \subseteq Hit
      /\ \A h \in ToSet(Rows) : /\ h.id[1] \in Listed
                                /\ Holds(pool[h.id[1]], h.id, Rec(h.row))
  BY <1>2, TableRows
<1>4. Typed'
  <2>1. gone' \subseteq RowId
    BY <1>1, OpFields DEF IInv, Typed
  <2>2. QED
    BY <1>1, <1>3, <2>1 DEF IInv, Typed, Operation
<1>5. DOMAIN pool = DOMAIN file /\ Listed' = Listed
  BY <1>1, LenProperties DEF IInv, Typed, Listed
<1>6. TableSound' /\ RootSound'
  BY <1>1, <1>5 DEF IInv, TableSound, RootSound
<1>7. ASSUME NEW id \in op.hits
      PROVE  id[1] \in DOMAIN pool /\ Holds(pool[id[1]], id, {Tombstone})
  <2>1. Todo = {}
    BY <1>1, ShortSeqs DEF Todo
  <2>2. id \in Dead
    BY <1>1, <2>1 DEF IInv, Covered
  <2> DEFINE pin == <<id, {Tombstone}>>
  <2>3. pin \in Passing /\ pin[1] = id /\ pin[2] = {Tombstone}
    BY <2>2 DEF Passing
  <2> HIDE DEF pin
  <2>4. id[1] \in Listed /\ Holds(pool[id[1]], id, {Tombstone})
    BY <2>3 DEF IInv, PinsHeld
  <2>5. QED
    BY <1>2, <2>4, TableList
<1>8. GoneHeld'
  BY <1>1, <1>7, HistoryHolds DEF GoneHeld
<1>9. DurableHeld'
  BY <1>1, <1>3 DEF DurableHeld
<1>10. CheckpointListed'
  BY <1>1, <1>3 DEF IInv, TableSound, CheckpointListed
<1>11. QED
  BY <1>1, <1>4, <1>6, <1>8, <1>9, <1>10, IdleStep DEF StateSound

\* A page written back is in the file what it was in the pool.
LEMMA WriteBackStep ==
    ASSUME IInv, NEW p \in DOMAIN pool, WriteBack(p)
    PROVE  IInv'
<1>1. /\ file' = [file EXCEPT ![p] = pool[p]]
      /\ UNCHANGED <<pool, table, stored, op, unlisted, durable, gone>>
  BY DEF WriteBack
<1>2. /\ file \in Seq(Image) /\ DOMAIN pool = 1 .. Len(file) /\ DOMAIN file = 1 .. Len(file)
      /\ pool[p] \in Image
  <2>1. /\ pool \in Seq(Image) /\ file \in Seq(Image) /\ Len(pool) = Len(file)
    BY DEF IInv, Typed
  <2>2. DOMAIN pool = 1 .. Len(file) /\ DOMAIN file = 1 .. Len(file)
    BY <2>1, LenProperties
  <2>3. QED
    BY <2>1, <2>2, ElementOfSeq
<1>3. /\ file' \in Seq(Image) /\ Len(file') = Len(file)
      /\ \A q \in DOMAIN file : file'[q] = IF q = p THEN pool[p] ELSE file[q]
      /\ DOMAIN file' = DOMAIN file
  BY <1>1, <1>2, ExceptSeq
<1>4. /\ Listed' = Listed /\ Pending' = Pending /\ Todo' = Todo /\ OpIds' = OpIds
      /\ (Doomed' <=> Doomed) /\ Lasting' = Lasting /\ Dead' = Dead /\ Passing' = Passing
  BY <1>1 DEF Listed, Pending, Todo, OpIds, Doomed, Buried, Lasting, Dead, Passing
<1>5. Typed'
  BY <1>1, <1>3 DEF IInv, Typed
<1>6. TableSound'
  BY <1>1, <1>2, <1>3, <1>4 DEF IInv, TableSound
<1>7. RootSound'
  BY <1>1, <1>2, <1>3, <1>4 DEF IInv, RootSound
<1>8. ListSound'
  BY <1>1, <1>2, <1>3, <1>4 DEF IInv, ListSound
<1>9. WritesSound' /\ NewPagesInOrder' /\ NoRevival' /\ Covered'
  BY <1>1, <1>4 DEF IInv, WritesSound, NewPagesInOrder, NoRevival, Covered
<1>10. PinsHeld'
  <2>1. \A pin \in Lasting : pin[1][1] \in DOMAIN file
    BY DEF IInv, PinsHeld, TableSound
  <2>2. \A pin \in Lasting : Holds(file'[pin[1][1]], pin[1], pin[2])
    BY <1>3, <2>1 DEF IInv, PinsHeld
  <2>3. \A pin \in Lasting \cup Passing :
          /\ pin[1][1] \in Listed
          /\ Holds(pool[pin[1][1]], pin[1], pin[2])
          /\ \A w \in Pending : w.page = pin[1][1] => Holds(w.image, pin[1], pin[2])
    BY DEF IInv, PinsHeld
  <2>4. QED
    BY <1>1, <1>4, <2>2, <2>3 DEF PinsHeld
<1>11. OrphansHeld' /\ CheckpointListed'
  BY <1>1, <1>2, <1>3, <1>4 DEF IInv, OrphansHeld, CheckpointListed
<1>12. QED
  BY <1>5, <1>6, <1>7, <1>8, <1>9, <1>10, <1>11 DEF IInv

\* The table of the catalog page is sound, and so are the rows on its pages.
LEMMA StoredSound ==
    ASSUME StateSound
    PROVE  /\ ToSet(RowsOf(pool, stored.ids)) \subseteq Hit
           /\ \A h \in ToSet(RowsOf(pool, stored.ids)) :
                 /\ h.id[1] \in ToSet(stored.ids)
                 /\ Holds(pool[h.id[1]], h.id, Rec(h.row))
<1>1. stored.ids \in Seq(Nat) /\ pool \in Seq(Image)
  BY DEF StateSound, Typed, Table
<1>2. \A p \in ToSet(stored.ids) : p \in DOMAIN pool /\ pool[p] \in HeapPage
  BY TableList DEF StateSound, TableSound
<1>3. HeapList(pool, stored.ids)
  BY <1>1, <1>2 DEF HeapList
<1>4. QED
  BY <1>3, RowsGood

\* A clean shutdown flushes, and open finds the table of the catalog page.
LEMMA RestartStep ==
    ASSUME IInv, Restart
    PROVE  IInv'
<1>1. /\ op' = Idle /\ file' = pool /\ pool' = pool /\ table' = stored
      /\ durable' = ToSet(RowsOf(pool, stored.ids))
      /\ UNCHANGED <<stored, gone>>
  BY DEF Restart, Flushed
<1>2. StateSound
  BY DEF IInv, StateSound
<1>3. /\ durable' \subseteq Hit
      /\ \A h \in durable' : /\ h.id[1] \in ToSet(stored.ids)
                             /\ Holds(pool[h.id[1]], h.id, Rec(h.row))
  BY <1>1, <1>2, StoredSound
<1>4. Typed'
  BY <1>1, <1>3 DEF IInv, Typed, Operation
<1>5. DOMAIN pool = DOMAIN file /\ Listed' = ToSet(stored.ids) /\ Listed' \subseteq Listed
  BY <1>1, LenProperties DEF IInv, Typed, Listed, TableSound
<1>6. TableSound' /\ RootSound'
  BY <1>1, <1>5 DEF IInv, TableSound, RootSound
<1>7. GoneHeld' /\ DurableHeld' /\ CheckpointListed'
  BY <1>1, <1>3, HistoryHolds DEF GoneHeld, DurableHeld, CheckpointListed
<1>8. QED
  BY <1>1, <1>4, <1>6, <1>7, IdleStep DEF StateSound

\* After a crash the pool has what the file has.
LEMMA CrashStep ==
    ASSUME IInv, Crash
    PROVE  IInv'
<1>1. /\ op' = Idle /\ pool' = file /\ file' = file /\ table' = stored
      /\ UNCHANGED <<stored, durable, gone>>
  BY DEF Crash
<1>2. Listed' = ToSet(stored.ids) /\ Listed' \subseteq Listed
  BY <1>1 DEF IInv, TableSound, Listed
<1>3. Typed'
  BY <1>1 DEF IInv, Typed, Operation
<1>4. TableSound' /\ RootSound'
  BY <1>1, <1>2 DEF IInv, TableSound, RootSound
<1>5. DOMAIN pool = DOMAIN file
  BY LenProperties DEF IInv, Typed
<1>6. GoneHeld' /\ DurableHeld' /\ CheckpointListed'
  BY <1>1, <1>5, HistoryHolds DEF IInv, GoneHeld, DurableHeld, CheckpointListed
<1>7. QED
  BY <1>1, <1>3, <1>4, <1>6, IdleStep DEF StateSound
----------------------------------------------------------------------------
\* The start of an INSERT keeps the invariant.
LEMMA BeginInsertStep ==
    ASSUME IInv, op = Idle, NEW row \in Inserts, BeginInsert(row)
    PROVE  IInv'
<1> DEFINE writes == InsertWrites(row)
           ids == Inserted(pool, table.ids, row).ids
<1>1. /\ op' = [kind |-> "insert", todo |-> <<>>, writes |-> writes, ids |-> ids]
      /\ UNCHANGED <<pool, file, table, stored, unlisted, durable, gone>>
  BY DEF BeginInsert
<1>2. StateSound /\ PinsHeld /\ row \in Row
  BY DEF IInv, StateSound
<1>3. /\ OpenList(table.ids) /\ Listed = ToSet(table.ids)
      /\ \A p \in Listed : p \in DOMAIN pool /\ file[p] \in HeapPage
  BY <1>2, TableList
<1>4. Batch(writes, table.ids, ids, <<0, 0>>)
  BY <1>2, <1>3, InsertBatch
<1> HIDE DEF writes, ids
<1>5. writes \in Seq(PageWrite) /\ ids \in Seq(Nat)
  BY <1>4 DEF Batch
<1>6. /\ op' \in Operation /\ op' # Idle /\ op'.kind = "insert"
      /\ op'.todo = <<>> /\ op'.writes = writes /\ op'.ids = ids
  BY <1>1, <1>5 DEF Operation, Idle
<1>7. StateSound'
  BY <1>1, <1>2, <1>6, SameState DEF IInv, Typed
<1>8. ListSound' /\ WritesSound' /\ NewPagesInOrder'
  BY <1>1, <1>2, <1>3, <1>4, <1>6, BatchList
<1>9. Lasting' = Lasting /\ Passing' = {}
  BY <1>1, <1>6, ShortSeqs DEF Lasting, Buried, Listed, Passing, Todo, Dead
<1>10. \A pin \in Lasting' \cup Passing' : pin[1] # <<0, 0>>
  <2>1. 0 \notin Listed
    BY <1>2, <1>3, LenProperties DEF StateSound, Typed
  <2>2. \A pin \in Lasting : pin[1][1] \in Listed
    BY <1>2 DEF PinsHeld
  <2>3. QED
    BY <1>9, <2>1, <2>2
<1>11. PinsHeld'
  <2>1. Batch(op'.writes, table.ids, op'.ids, <<0, 0>>)
    BY <1>4, <1>6
  <2>2. /\ Listed \subseteq ToSet(table.ids)
        /\ Lasting' \subseteq Lasting /\ Passing' \subseteq Passing
    BY <1>3, <1>9
  <2>3. QED
    BY <1>1, <1>2, <1>6, <1>10, <2>1, <2>2, BatchHolds
<1>12. NoRevival' /\ Covered'
  BY <1>6 DEF NoRevival, Covered
<1>13. OrphansHeld' /\ CheckpointListed'
  BY <1>1, <1>3, <1>4, <1>6, HistoryKept DEF Batch, ListGrows, OpIds
<1>14. QED
  BY <1>7, <1>8, <1>11, <1>12, <1>13 DEF IInv, StateSound

\* The start of a DELETE or UPDATE, which has scanned the table and written nothing.
Scans(found) ==
    /\ found \in Seq(Hit) /\ ToSet(found) \subseteq ToSet(Rows)
    /\ op' \in Operation /\ op' # Idle /\ op'.kind \in {"delete", "update"}
    /\ op'.todo = found /\ op'.writes = <<>> /\ op'.ids = table.ids
    /\ op'.kind = "delete" => op'.hits = {h.id : h \in ToSet(found)}
    /\ UNCHANGED <<pool, file, table, stored, unlisted, durable, gone>>

\* A statement that has only scanned keeps the invariant.
LEMMA ScanStep ==
    ASSUME IInv, NEW found, Scans(found)
    PROVE  IInv'
<1>1. StateSound /\ PinsHeld
  BY DEF IInv, StateSound
<1>2. /\ OpenList(table.ids) /\ Listed = ToSet(table.ids)
      /\ \A p \in Listed : p \in DOMAIN pool /\ file[p] \in HeapPage
  BY <1>1, TableList
<1>3. StateSound'
  BY <1>1, SameState DEF Scans, IInv, Typed
<1>4. /\ Pending' = {} /\ Todo' = ToSet(found) /\ Lasting' = Lasting /\ Listed' = Listed
  BY ShortSeqs DEF Scans, Pending, Todo, Lasting, Buried, Listed
<1>5. ListSound' /\ WritesSound' /\ NewPagesInOrder'
  <2>1. Len(pool) \in Nat /\ table.root \in Nat
    BY <1>1, LenProperties DEF StateSound, Typed, Table
  <2>2. \E leaf \in Nat : IF table.root # NoRoot THEN leaf = table.root
                          ELSE leaf > Len(pool) /\ leaf \notin ToSet(table.ids)
    <3>1. \A p \in ToSet(table.ids) : p <= Len(pool)
      BY <1>1, <1>2, LenProperties DEF StateSound, Typed
    <3>2. Len(pool) + 1 \in Nat /\ Len(pool) + 1 > Len(pool)
          /\ Len(pool) + 1 \notin ToSet(table.ids)
      BY <2>1, <3>1
    <3>3. QED
      BY <2>1, <3>2
  <2>3. Batch(<<>>, table.ids, table.ids, <<0, 0>>)
    BY <1>2, <2>2, ShortSeqs DEF Batch, ListGrows, OpenList, HeapList
  <2>4. Batch(op'.writes, table.ids, op'.ids, <<0, 0>>)
    BY <2>3 DEF Scans
  <2>5. QED
    BY <1>1, <1>2, <2>4, BatchList DEF Scans
<1>6. \A h \in ToSet(found) : /\ h.id[1] \in Listed
                              /\ Holds(pool[h.id[1]], h.id, Rec(h.row))
                              /\ Holds(pool[h.id[1]], h.id, HeapEntry)
  BY <1>1, TableRows DEF Scans
<1>7. PinsHeld'
  <2>1. ASSUME NEW pin \in Lasting' \cup Passing'
        PROVE  pin[1][1] \in Listed /\ Holds(pool[pin[1][1]], pin[1], pin[2])
    <3>1. CASE pin \in Lasting
      BY <1>1, <3>1 DEF PinsHeld
    <3>2. CASE pin \in {<<h.id, HeapEntry>> : h \in Todo'}
      <4>1. PICK h \in ToSet(found) : pin = <<h.id, HeapEntry>>
        BY <1>4, <3>2
      <4>2. QED
        BY <1>6, <4>1
    <3>3. CASE pin \in {<<id, {Tombstone}>> : id \in Dead'}
      <4>1. PICK id \in Dead' : pin = <<id, {Tombstone}>>
        BY <3>3
      <4>2. Holds(pool[id[1]], id, {Tombstone}) /\ id \in {h.id : h \in ToSet(found)}
        BY DEF Dead, Scans
      <4>3. QED
        BY <1>6, <4>1, <4>2
    <3>4. QED
      BY <1>4, <3>1, <3>2, <3>3 DEF Passing
  <2>2. \A pin \in Lasting' : Holds(file'[pin[1][1]], pin[1], pin[2])
    BY <1>1, <1>4 DEF PinsHeld, Scans
  <2>3. QED
    BY <1>4, <2>1, <2>2 DEF PinsHeld, Scans
<1>8. NoRevival'
  <2>1. ASSUME NEW h \in ToSet(found), h.id \in gone
        PROVE  FALSE
    <3>1. Holds(pool[h.id[1]], h.id, Rec(h.row))
      BY <1>6, <2>1
    <3> DEFINE pin == <<h.id, {Tombstone}>>
    <3>2. pin \in Lasting /\ pin[1] = h.id /\ pin[2] = {Tombstone}
      BY <1>6, <2>1 DEF Lasting, Buried
    <3> HIDE DEF pin
    <3>3. Holds(pool[h.id[1]], h.id, {Tombstone})
      BY <1>1, <3>2 DEF PinsHeld
    <3>4. Tombstone \in Rec(h.row)
      BY <3>1, <3>3 DEF Holds
    <3>5. QED
      BY <3>4 DEF Rec, Tombstone
  <2>2. QED
    BY <1>4, <2>1 DEF NoRevival, Scans
<1>9. Covered'
  BY <1>4, ShortSeqs DEF Covered, Scans
<1>10. OrphansHeld' /\ CheckpointListed'
  <2>1. OpIds' \subseteq OpIds
    BY <1>2 DEF Scans, OpIds, IInv, ListSound
  <2>2. QED
    BY <2>1, HistoryKept DEF Scans
<1>11. QED
  BY <1>3, <1>5, <1>7, <1>8, <1>9, <1>10 DEF IInv, StateSound

\* The start of a DELETE keeps the invariant.
LEMMA BeginDeleteStep ==
    ASSUME IInv, NEW match, BeginDelete(match)
    PROVE  IInv'
<1>1. StateSound
  BY DEF IInv, StateSound
<1>2. PICK found \in {Matching(match)} :
         op' = [kind |-> "delete", todo |-> found, writes |-> <<>>, ids |-> table.ids,
                hits |-> {h.id : h \in ToSet(found)}]
  BY DEF BeginDelete
<1>3. found \in Seq(Hit) /\ ToSet(found) \subseteq ToSet(Rows)
  BY <1>1, <1>2, TableRows, MatchingGood
<1>4. {h.id : h \in ToSet(found)} \subseteq RowId
  <2>1. ToSet(found) \subseteq Hit
    BY <1>1, <1>3, TableRows
  <2>2. QED
    BY <2>1 DEF Hit
<1>5. table.ids \in Seq(Nat) /\ <<>> \in Seq(PageWrite)
  BY <1>1, ShortSeqs DEF StateSound, Typed, Table
<1>6. op' \in Operation /\ op' # Idle /\ op'.kind = "delete"
  BY <1>2, <1>3, <1>4, <1>5 DEF Operation, Idle
<1>7. Scans(found)
  BY <1>2, <1>3, <1>6 DEF Scans, BeginDelete
<1>8. QED
  BY <1>7, ScanStep

\* The start of an UPDATE keeps the invariant.
LEMMA BeginUpdateStep ==
    ASSUME IInv, NEW match \in SUBSET Row, NEW column, NEW value, BeginUpdate(match, column, value),
           \/ column = "key" /\ value \in Key \cup {Null}
           \/ column = "text" /\ value \in Text
    PROVE  IInv'
<1>1. StateSound
  BY DEF IInv, StateSound
<1>2. PICK found \in {Matching(match)} :
         op' = [kind |-> "update", todo |-> found, writes |-> <<>>, ids |-> table.ids,
                match |-> match, column |-> column, value |-> value]
  BY DEF BeginUpdate
<1>3. found \in Seq(Hit) /\ ToSet(found) \subseteq ToSet(Rows)
  BY <1>1, <1>2, TableRows, MatchingGood
<1>4. table.ids \in Seq(Nat) /\ <<>> \in Seq(PageWrite)
  BY <1>1, ShortSeqs DEF StateSound, Typed, Table
<1>5. op' \in Operation /\ op' # Idle /\ op'.kind = "update"
  BY <1>2, <1>3, <1>4 DEF Operation, Idle
<1>6. Scans(found)
  BY <1>2, <1>3, <1>5 DEF Scans, BeginUpdate
<1>7. QED
  BY <1>6, ScanStep

\* The start of a statement keeps the invariant.
LEMMA BeginStep ==
    ASSUME IInv, Begin
    PROVE  IInv'
<1>1. op = Idle
  BY DEF Begin
<1>2. CASE \E row \in Inserts : BeginInsert(row)
  BY <1>1, <1>2, BeginInsertStep
<1>3. CASE \E match \in SUBSET {h.row : h \in ToSet(Rows)} :
              \/ BeginDelete(match)
              \/ \E value \in Text : BeginUpdate(match, "text", value)
              \/ \E value \in Key \cup {Null} : BeginUpdate(match, "key", value)
  <2>1. {h.row : h \in ToSet(Rows)} \subseteq Row
    BY TableRows DEF IInv, StateSound, Hit
  <2>2. PICK match \in SUBSET Row :
              \/ BeginDelete(match)
              \/ \E value \in Text : BeginUpdate(match, "text", value)
              \/ \E value \in Key \cup {Null} : BeginUpdate(match, "key", value)
    BY <1>3, <2>1
  <2>3. QED
    BY <2>2, BeginDeleteStep, BeginUpdateStep
<1>4. QED
  BY <1>2, <1>3 DEF Begin
----------------------------------------------------------------------------
\* The file of a new database.
LEMMA InitSound ==
    ASSUME Init
    PROVE  IInv
<1>1. /\ pool = <<>> /\ file = <<>> /\ table = [ids |-> <<>>, root |-> NoRoot]
      /\ stored = table /\ op = Idle /\ durable = {} /\ gone = {}
  BY DEF Init
<1>2. table \in Table /\ table.ids = <<>> /\ table.root = 0
  BY <1>1, ShortSeqs DEF Table, NoRoot
<1>3. Typed
  BY <1>1, <1>2, ShortSeqs DEF Typed, Operation
<1>4. Listed = {} /\ Pending = {} /\ OpIds = {} /\ Lasting = {} /\ Passing = {}
  BY <1>1, <1>2, ShortSeqs DEF Listed, Pending, OpIds, Buried, Lasting, Passing, Todo, Dead
<1>5. TableSound /\ RootSound
  BY <1>1, <1>2, <1>4 DEF TableSound, RootSound, NoRoot, Listed
<1>6. ListSound /\ WritesSound /\ NewPagesInOrder /\ PinsHeld
  BY <1>1, <1>4 DEF ListSound, WritesSound, NewPagesInOrder, PinsHeld
<1>7. NoRevival /\ Covered /\ OrphansHeld /\ CheckpointListed
  BY <1>1 DEF NoRevival, Covered, OrphansHeld, CheckpointListed
<1>8. QED
  BY <1>3, <1>5, <1>6, <1>7 DEF IInv

\* Every step keeps the invariant.
LEMMA StepSound ==
    ASSUME IInv, [Next]_vars
    PROVE  IInv'
<1>1. CASE Begin
  BY <1>1, BeginStep
<1>2. CASE Step
  BY <1>2, DeleteRowStep, UpdateRowStep, WritePageStep, StopStep, StoreStep, FinishDeleteStep
     DEF Step
<1>3. CASE \E p \in DOMAIN pool : WriteBack(p)
  BY <1>3, WriteBackStep
<1>4. CASE Restart
  BY <1>4, RestartStep
<1>5. CASE Crash
  BY <1>5, CrashStep
<1>6. CASE UNCHANGED vars
  <2>1. UNCHANGED <<pool, file, table, stored, op, unlisted, durable, gone>>
    BY <1>6 DEF vars
  <2>2. /\ Listed' = Listed /\ Pending' = Pending /\ Todo' = Todo /\ OpIds' = OpIds
        /\ (Doomed' <=> Doomed) /\ Lasting' = Lasting /\ Dead' = Dead /\ Passing' = Passing
    BY <2>1 DEF Listed, Pending, Todo, OpIds, Doomed, Buried, Lasting, Dead, Passing
  <2>3. (Typed /\ TableSound /\ RootSound /\ ListSound)'
    BY <2>1, <2>2 DEF IInv, Typed, TableSound, RootSound, ListSound
  <2>4. (WritesSound /\ NewPagesInOrder /\ PinsHeld /\ NoRevival /\ Covered)'
    BY <2>1, <2>2 DEF IInv, WritesSound, NewPagesInOrder, PinsHeld, NoRevival, Covered
  <2>5. (OrphansHeld /\ CheckpointListed)'
    BY <2>1, <2>2 DEF IInv, OrphansHeld, CheckpointListed
  <2>6. QED
    BY <2>3, <2>4, <2>5 DEF IInv
<1>7. QED
  BY <1>1, <1>2, <1>3, <1>4, <1>5, <1>6 DEF Next

\* The inductive invariant holds, whatever is written back when and wherever
\* the process dies.
THEOREM DurabilityInvariant == Spec => []IInv
<1>1. Init => IInv
  BY InitSound
<1>2. IInv /\ [Next]_vars => IInv'
  BY StepSound
<1>3. QED
  BY <1>1, <1>2, PTL DEF Spec
----------------------------------------------------------------------------
\* Catalog page and pool name only pages of the file, and the page of the tree
\* is none of the heap's.
THEOREM DurabilityTypes == Spec => []TypeOK
<1>1. ASSUME IInv
      PROVE  TypeOK
  <2>1. Typed /\ TableSound /\ RootSound
    BY <1>1 DEF IInv
  <2>2. /\ Len(pool) = Len(file) /\ Len(file) <= MaxPages
        /\ DOMAIN file = 1 .. Len(file) /\ Len(file) \in Nat
    BY <2>1, LenProperties DEF Typed
  <2>3. ASSUME NEW t \in {table, stored}
        PROVE  /\ ToSet(t.ids) \subseteq DOMAIN file
               /\ t.root \in (DOMAIN file \cup {NoRoot}) \ ToSet(t.ids)
               /\ \A p \in ToSet(t.ids) : ~IsLeaf(pool[p]) /\ ~IsLeaf(file[p])
               /\ t.root # NoRoot => file[t.root] = ZeroPage \/ IsLeaf(file[t.root])
    <3>1. ToSet(t.ids) \subseteq Listed /\ (t.root # NoRoot => t.root = table.root)
      BY <2>1 DEF TableSound, Listed
    <3>2. \A p \in Listed : p \in DOMAIN file /\ pool[p] \in HeapPage /\ file[p] \in HeapPage
      BY <2>1 DEF TableSound
    <3>3. NoRoot \notin Listed
      BY <2>2, <3>2 DEF NoRoot
    <3>4. t.root # NoRoot => /\ t.root \in DOMAIN file /\ t.root \notin Listed
                             /\ file[t.root] \in LeafPage \cup {ZeroPage}
      BY <2>1, <3>1 DEF RootSound
    <3>5. t.root # NoRoot => file[t.root] = ZeroPage \/ IsLeaf(file[t.root])
      BY <3>4, Kinds
    <3>6. \A p \in Listed : ~IsLeaf(pool[p]) /\ ~IsLeaf(file[p])
      BY <3>2, Kinds
    <3>7. QED
      BY <3>1, <3>2, <3>3, <3>4, <3>5, <3>6
  <2>4. op = Idle \/ op.kind \in {"insert", "update", "delete"}
    BY <2>1, OpFields DEF Typed
  <2>5. QED
    BY <2>2, <2>3, <2>4 DEF TypeOK
<1>2. QED
  BY <1>1, DurabilityInvariant, PTL

\* Rows untouched since the last successful DELETE or clean shutdown are found
\* after the process dies, whenever that is and whichever pages the pool has
\* written back, also when INSERTs and UPDATEs could not store the catalog: the
\* slot of such a row is pinned in the file, and page 0 lists its page.
THEOREM CheckpointSurvives == Spec => []CheckpointKept
<1>1. ASSUME IInv
      PROVE  CheckpointKept
  <2>1. SUFFICES ASSUME NEW h \in durable
                 PROVE  /\ h.id[1] \in ToSet(stored.ids)
                        /\ Live(file[h.id[1]], h.id[2])
                        /\ Slot(file, h.id).rec = h.row
    BY DEF CheckpointKept
  <2>2. Holds(file[h.id[1]], h.id, Rec(h.row))
    BY <1>1, HistoryHolds DEF DurableHeld
  <2>3. h.id[1] \in ToSet(stored.ids)
    BY <1>1 DEF IInv, CheckpointListed
  <2>4. /\ file[h.id[1]].slots[h.id[2]].len # 0 /\ file[h.id[1]].slots[h.id[2]].rec = h.row
        /\ h.id[2] \in SlotsOf(file[h.id[1]])
    BY <2>2 DEF Holds, Rec
  <2>5. QED
    BY <2>3, <2>4 DEF Live, Slot
<1>2. QED
  BY <1>1, DurabilityInvariant, PTL

\* No crash, no late write and no reuse of its page brings back a row that a
\* successful DELETE removed: its slot keeps a tombstone in pool and file.
THEOREM DeletedStaysDeleted == Spec => []DeletedForGood
<1>1. ASSUME IInv
      PROVE  DeletedForGood
  <2>1. SUFFICES ASSUME NEW id \in gone
                 PROVE  ~Live(file[id[1]], id[2]) /\ ~Live(pool[id[1]], id[2])
    BY DEF DeletedForGood
  <2>2. Holds(file[id[1]], id, {Tombstone}) /\ Holds(pool[id[1]], id, {Tombstone})
    BY <1>1, HistoryHolds DEF GoneHeld
  <2>3. file[id[1]].slots[id[2]].len = 0 /\ pool[id[1]].slots[id[2]].len = 0
    BY <2>2 DEF Holds, Tombstone
  <2>4. QED
    BY <2>3 DEF Live
<1>2. QED
  BY <1>1, DurabilityInvariant, PTL
=============================================================================
