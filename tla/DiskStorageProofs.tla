------------------------- MODULE DiskStorageProofs -------------------------
(***************************************************************************)
(* Proofs about DiskStorage for every set of keys and texts, every size of *)
(* a row and of a page and every number of pages and indexes: what indexes,*)
(* heap and catalog page have to do with each other after statements that  *)
(* succeed, fail or are interrupted, and what an UPDATE or DELETE does.    *)
(***************************************************************************)
EXTENDS DiskStorage, HeapPagesProofs, FiniteSetTheorems

USE StorageAssumption

RowId == Nat \X Nat
Maps == UNION {[K -> RowId] : K \in SUBSET Key}
Index == [map : Maps, height : Nat]
Hit == [id : RowId, row : Row]
Statement(kinds, column, values) ==
    [kind : kinds, scanned : Seq(Hit), todo : SUBSET Nat, ids : Seq(Nat),
     match : SUBSET Row, column : {column}, value : values]
Statements == Statement({"delete"}, "key", {Null})
              \cup Statement({"update"}, "key", Values("key"))
              \cup Statement({"update"}, "text", Values("text"))

\* What the catalog page has of a table with so many indexes.
CatalogEntry(indexes) ==
    [page_ids : Seq(Nat), heights : [indexes -> Nat], revoked : Seq(Index)]

Typed == /\ table \in [page_ids : Seq(Nat), indexes : Seq(Index)]
         /\ stored \in CatalogEntry(DOMAIN table.indexes)
         /\ op = Idle \/ op \in Statements
         /\ diverged \in BOOLEAN
         /\ misled # {} \/ stored.revoked # <<>> => diverged

\* The pages of every page list are sound; a statement adds pages to the list of
\* the table, and the catalog page may lack the last ones.
ListsSound == /\ HeapSound(pages, CurrentIds)
              /\ Extends(CurrentIds, table.page_ids)
              /\ Extends(table.page_ids, stored.page_ids)
              /\ op.kind = "delete" => op.ids = table.page_ids

RowAt(pgs, id) == Slot(pgs, id).rec

\* An index names slots of the file; those of the table that have a row have
\* one with the key, but for the ids in lost.
IndexTrue(index, pgs, ids, lost) ==
    \A k \in DOMAIN index.map :
       /\ IsSlot(pgs, index.map[k])
       /\ index.map[k] \in LiveIds(pgs, ids) =>
             RowAt(pgs, index.map[k]).key = k \/ index.map[k] \in lost

\* An index has the keys of the table and leads from each to its row.
IndexExact(index, pgs, ids) ==
    /\ DOMAIN index.map = {RowAt(pgs, id).key : id \in LiveIds(pgs, ids)} \ {Null}
    /\ \A id \in LiveIds(pgs, ids) :
          RowAt(pgs, id).key # Null => index.map[RowAt(pgs, id).key] = id

EntriesTrue == \A i \in DOMAIN table.indexes :
                  IndexTrue(table.indexes[i], pages, CurrentIds, misled)

\* So does an index that only the catalog page has.
RevokedTrue == \A i \in DOMAIN stored.revoked :
                  IndexTrue(stored.revoked[i], pages, CurrentIds, misled)

EntriesExact == ~diverged => \A i \in DOMAIN table.indexes :
                                IndexExact(table.indexes[i], pages, CurrentIds)

\* A DELETE changes nothing that is in the catalog page.
CatalogTrue == ~diverged /\ (op = Idle \/ op.kind = "delete") => stored = Catalog(table)

\* Rows of the scan that the statement leaves alone or has still to change.
Standing == {i \in DOMAIN op.scanned : i \in op.todo \/ op.scanned[i].row \notin op.match}

\* Those rows are where the scan has found them; it has found no row twice.
ScanTrue ==
    op # Idle =>
       /\ op.todo \subseteq {i \in DOMAIN op.scanned : op.scanned[i].row \in op.match}
       /\ \A i \in Standing :
             /\ op.scanned[i].id \in LiveIds(pages, table.page_ids)
             /\ RowAt(pages, op.scanned[i].id) = op.scanned[i].row
       /\ \A i, j \in DOMAIN op.scanned : op.scanned[i].id = op.scanned[j].id => i = j

\* What is left of a row of the scan by now.
SoFar(i) == IF i \in op.todo THEN {op.scanned[i].row} ELSE Expected(op.scanned[i])
Left == {i \in DOMAIN op.scanned : SoFar(i) # {}}

\* The rows of the table are what is left of the rows of the scan, one for one.
Traces(f) == /\ f \in [Left -> LiveIds(pages, op.ids)]
             /\ IsInjective(f)
             /\ \A id \in LiveIds(pages, op.ids) : \E i \in Left : f[i] = id
             /\ \A i \in Left : RowAt(pages, f[i]) \in SoFar(i)
             /\ \A i \in Standing : f[i] = op.scanned[i].id
RowsTraced == op # Idle => \E f \in [Left -> LiveIds(pages, op.ids)] : Traces(f)

IInv == /\ Typed /\ ListsSound /\ ScanTrue /\ EntriesTrue /\ EntriesExact
        /\ RevokedTrue /\ CatalogTrue /\ RowsTraced

\* No two rows of a page list have a text in common.
TextsDiffer(pgs, ids) ==
    \A x, y \in LiveIds(pgs, ids) : RowAt(pgs, x).text = RowAt(pgs, y).text => x = y

\* An UPDATE that gives rows a UNIQUE text gives it to one at most, and no other
\* row has it.
OneTakesText == op # Idle /\ op.kind = "update" /\ op.column = "text" =>
                   /\ \A i, j \in op.todo : i = j
                   /\ \A i \in op.todo : \A x \in LiveIds(pages, op.ids) :
                         RowAt(pages, x).text = op.value => x = op.scanned[i].id

TextsTrue == TextUnique /\ (IoErrors => ~diverged) =>
                TextsDiffer(pages, CurrentIds) /\ OneTakesText
----------------------------------------------------------------------------
\* The rows with a size are the rows of the table.
LEMMA RecordsAreRows == Record = Row
  BY DEF Record

\* A row id of a page list is a row id.
LEMMA LiveSlots ==
    ASSUME NEW pgs, NEW ids, HeapSound(pgs, ids), NEW id \in LiveIds(pgs, ids)
    PROVE  /\ id \in SlotIds(pgs, ids) /\ IsSlot(pgs, id) /\ id \in RowId
           /\ id[1] \in ToSet(ids)
           /\ RowAt(pgs, id) \in Row
<1>1. id \in SlotIds(pgs, ids) /\ Slot(pgs, id).len # 0
  BY LiveIdsAre
<1>2. /\ id = <<id[1], id[2]>> /\ id[1] \in DOMAIN pgs /\ PageSound(pgs[id[1]])
      /\ id[2] \in SlotsOf(pgs[id[1]])
      /\ Slot(pgs, id) \in Entry /\ EntrySound(Slot(pgs, id))
  BY <1>1, SlotIdParts
<1>3. RowAt(pgs, id) \in Row
  BY <1>1, <1>2, EntryLengths, RecordsAreRows DEF RowAt
<1>4. id[1] \in Nat /\ id[2] \in Nat
  <2>1. DOMAIN pgs = 1 .. Len(pgs) /\ Len(pgs) \in Nat
    BY LenProperties DEF HeapSound
  <2>2. SlotsOf(pgs[id[1]]) \subseteq Nat
    BY <1>2, SlotNumbers
  <2>3. QED
    BY <1>2, <2>1, <2>2
<1>5. id[1] \in ToSet(ids)
  BY <1>1 DEF SlotIds
<1>6. QED
  BY <1>1, <1>2, <1>3, <1>4, <1>5 DEF IsSlot, RowId

\* The rows of the first pages of a list.
LEMMA ShorterLive ==
    ASSUME NEW pgs, NEW longer, HeapSound(pgs, longer), NEW ids \in Seq(Nat),
           Extends(longer, ids)
    PROVE  LiveIds(pgs, ids) = {id \in LiveIds(pgs, longer) : id[1] \in ToSet(ids)}
<1>1. ToSet(ids) \subseteq ToSet(longer)
  BY ShorterSound
<1>2. QED
  BY <1>1 DEF LiveIds

\* Lists that go on after one another, and a list after itself.
LEMMA ExtendsOrder ==
    /\ \A ids \in Seq(Nat) : Extends(ids, ids)
    /\ \A x, y, z \in Seq(Nat) : Extends(x, y) /\ Extends(y, z) => Extends(x, z)
<1>1. ASSUME NEW ids \in Seq(Nat)
      PROVE  Extends(ids, ids)
  BY LenProperties DEF Extends
<1>2. ASSUME NEW x \in Seq(Nat), NEW y \in Seq(Nat), NEW z \in Seq(Nat),
             Extends(x, y), Extends(y, z)
      PROVE  Extends(x, z)
  <2>1. Len(x) \in Nat /\ Len(y) \in Nat /\ Len(z) \in Nat
    BY LenProperties
  <2>2. Len(z) <= Len(x) /\ \A i \in 1 .. Len(z) : i \in 1 .. Len(y)
    BY <1>2, <2>1 DEF Extends
  <2>3. QED
    BY <1>2, <2>2 DEF Extends
<1>3. QED
  BY <1>1, <1>2

\* What a scan of a sound heap yields: each row of its pages once.
LEMMA ScanRows ==
    ASSUME NEW pgs, NEW ids, HeapSound(pgs, ids)
    PROVE  LET hits == Scan(pgs, ids)
           IN  /\ hits \in Seq(Hit)
               /\ \A i \in DOMAIN hits : /\ hits[i].id \in LiveIds(pgs, ids)
                                         /\ hits[i].row = RowAt(pgs, hits[i].id)
               /\ \A i, j \in DOMAIN hits : hits[i].id = hits[j].id => i = j
               /\ \A id \in LiveIds(pgs, ids) : \E i \in DOMAIN hits : hits[i].id = id
<1> DEFINE found == ScannedIds(pgs, ids)
           hits == Scan(pgs, ids)
<1>1. /\ ScanGood(pgs, ids, Len(ids), found)
      /\ DOMAIN found = 1 .. Len(found) /\ Len(found) \in Nat
      /\ \A i \in DOMAIN found : found[i] \in Nat \X Nat
  BY SoundScan
<1>2. /\ ids \in Seq(Nat) /\ DOMAIN ids = 1 .. Len(ids) /\ IsInjective(ids)
  BY LenProperties DEF HeapSound
<1>3. hits = [i \in DOMAIN found |-> [id |-> found[i], row |-> RowAt(pgs, found[i])]]
  BY DEF Scan, RowAt
<1> HIDE DEF found, hits
<1>4. /\ DOMAIN hits = DOMAIN found
      /\ \A i \in DOMAIN hits : hits[i] = [id |-> found[i], row |-> RowAt(pgs, found[i])]
  BY <1>3
<1>5. ASSUME NEW i \in DOMAIN found
      PROVE  found[i] \in LiveIds(pgs, ids)
  <2>1. PICK a \in 1 .. Len(ids) : found[i][1] = ids[a] /\ Live(pgs[ids[a]], found[i][2])
    BY <1>1 DEF ScanGood
  <2>2. found[i] = <<ids[a], found[i][2]>> /\ found[i][2] \in SlotsOf(pgs[ids[a]])
    BY <1>1, <2>1 DEF Live
  <2>3. found[i] \in SlotIds(pgs, ids)
    BY <1>2, <2>2, SlotIdsAre
  <2>4. Slot(pgs, found[i]).len # 0
    BY <2>1 DEF Slot, Live
  <2>5. QED
    BY <2>3, <2>4, LiveIdsAre
<1>6. hits \in Seq(Hit)
  <2>1. \A i \in DOMAIN found : RowAt(pgs, found[i]) \in Row
    BY <1>5, LiveSlots
  <2>2. \A i \in 1 .. Len(found) : hits[i] \in Hit
    BY <1>1, <1>4, <2>1 DEF Hit, RowId
  <2>3. hits \in [1 .. Len(found) -> Hit]
    BY <1>1, <1>3, <1>4, <2>2
  <2>4. QED
    BY <1>1, <2>3, IsASeq
<1>7. ASSUME NEW i \in DOMAIN found, NEW j \in DOMAIN found, found[i] = found[j]
      PROVE  i = j
  <2>1. ASSUME NEW k \in DOMAIN found, NEW l \in DOMAIN found, k < l
        PROVE  found[k] # found[l]
    <3>1. Before(ids, found[k], found[l])
      BY <1>1, <2>1 DEF ScanGood
    <3>2. QED
      BY <1>1, <1>2, <3>1, OneOrder, ExtendsOrder
  <2>2. QED
    BY <1>1, <1>7, <2>1
<1>8. ASSUME NEW id \in LiveIds(pgs, ids)
      PROVE  \E i \in DOMAIN hits : hits[i].id = id
  <2>1. id \in SlotIds(pgs, ids) /\ Slot(pgs, id).len # 0
    BY LiveIdsAre
  <2>2. PICK a \in DOMAIN ids : \E s \in SlotsOf(pgs[ids[a]]) : id = <<ids[a], s>>
    BY <2>1, SlotIdsAre
  <2>3. PICK s \in SlotsOf(pgs[ids[a]]) : id = <<ids[a], s>>
    BY <2>2
  <2>4. Live(pgs[ids[a]], s)
    BY <2>1, <2>3 DEF Slot, Live
  <2>5. \E i \in 1 .. Len(found) : found[i] = <<ids[a], s>>
    BY <1>1, <1>2, <2>4 DEF ScanGood
  <2>6. QED
    BY <1>1, <1>4, <2>3, <2>5
<1>9. QED
  BY <1>4, <1>5, <1>6, <1>7, <1>8 DEF hits
----------------------------------------------------------------------------
\* A map takes keys to row ids.
LEMMA MapParts ==
    ASSUME NEW map
    PROVE  map \in Maps <=> /\ DOMAIN map \subseteq Key
                            /\ map = [k \in DOMAIN map |-> map[k]]
                            /\ \A k \in DOMAIN map : map[k] \in RowId
  BY DEF Maps

\* erase() takes a key away and nothing else.
LEMMA ErasedIndex ==
    ASSUME NEW index \in Index, NEW k
    PROVE  /\ Erase(index, k) \in Index
           /\ DOMAIN Erase(index, k).map = DOMAIN index.map \ {k}
           /\ \A x \in DOMAIN index.map \ {k} : Erase(index, k).map[x] = index.map[x]
           /\ Erase(index, k).height = index.height
<1> DEFINE map == [x \in DOMAIN index.map \ {k} |-> index.map[x]]
<1>1. index.map \in Maps /\ index.height \in Nat
  BY DEF Index
<1>2. Restrict(index.map, DOMAIN index.map \ {k}) = map
  BY DEF Restrict
<1>3. Erase(index, k) = [map |-> map, height |-> index.height]
  BY <1>2 DEF Erase, Index
<1>4. map \in Maps
  BY <1>1, MapParts
<1>5. QED
  BY <1>1, <1>3, <1>4 DEF Index

\* The next index has id for key k, unless that is NULL, and the rest as before.
HasPut(next, index, k, id) ==
    /\ next \in Index
    /\ DOMAIN next.map = DOMAIN index.map \cup ({k} \ {Null})
    /\ k # Null => next.map[k] = id
    /\ \A x \in DOMAIN index.map \ {k} : next.map[x] = index.map[x]

\* insert() adds the key, unless it is NULL, and changes nothing else.
LEMMA PutIndex ==
    ASSUME NEW index \in Index, NEW k \in Key \cup {Null}, NEW id \in RowId,
           NEW grow \in BOOLEAN
    PROVE  HasPut(Put(index, k, id, grow), index, k, id)
<1>1. index.map \in Maps /\ index.height \in Nat
  BY DEF Index
<1>2. CASE k = Null
  <2>1. Put(index, k, id, grow) = index
    BY <1>2 DEF Put
  <2>2. QED
    BY <1>2, <2>1 DEF HasPut
<1>3. CASE k # Null
  <2> DEFINE map == [x \in DOMAIN index.map \cup {k} |-> IF x = k THEN id ELSE index.map[x]]
  <2>2. Taller(index, grow) \in Nat
    BY <1>1 DEF Taller
  <2>3. Put(index, k, id, grow) = [map |-> map, height |-> Taller(index, grow)]
    BY <1>3 DEF Put
  <2>4. map \in Maps
    BY <1>1, <1>3, MapParts
  <2>5. Put(index, k, id, grow) \in Index
    BY <2>2, <2>3, <2>4 DEF Index
  <2>6. QED
    BY <1>3, <2>3, <2>5 DEF HasPut
<1>4. QED
  BY <1>2, <1>3

\* insert() that stops half way loses entries and makes none up.
LEMMA HalfPutIndex ==
    ASSUME NEW index \in Index, NEW k \in Key \cup {Null}, NEW id \in RowId,
           NEW half \in HalfPut(index, k, id)
    PROVE  /\ half \in Index
           /\ \A x \in DOMAIN half.map :
                 \/ x \in DOMAIN index.map /\ half.map[x] = index.map[x]
                 \/ x = k /\ half.map[x] = id
<1> DEFINE full == Put(index, k, id, FALSE)
<1>1. CASE half = index
  BY <1>1
<1>2. CASE half # index
  <2>1. PICK D \in SUBSET DOMAIN full.map :
               half = [index EXCEPT !.map = Restrict(full.map, D)]
    BY <1>2 DEF HalfPut
  <2>2. /\ full \in Index
        /\ DOMAIN full.map = DOMAIN index.map \cup ({k} \ {Null})
        /\ k # Null => full.map[k] = id
        /\ \A x \in DOMAIN index.map \ {k} : full.map[x] = index.map[x]
    <3> DEFINE grow == FALSE
    <3>1. grow \in BOOLEAN /\ full = Put(index, k, id, grow)
      OBVIOUS
    <3> HIDE DEF grow, full
    <3>2. HasPut(full, index, k, id)
      BY <3>1, PutIndex
    <3>3. QED
      BY <3>2 DEF HasPut
  <2> HIDE DEF full
  <2> DEFINE map == [x \in D |-> full.map[x]]
  <2>3. half = [map |-> map, height |-> index.height]
    BY <2>1 DEF Index, Restrict
  <2>4. map \in Maps
    BY <2>2, MapParts DEF Index
  <2>5. half \in Index
    BY <2>3, <2>4 DEF Index
  <2>6. ASSUME NEW x \in D
        PROVE  \/ x \in DOMAIN index.map /\ full.map[x] = index.map[x]
               \/ x = k /\ full.map[x] = id
    <3>1. Null \notin DOMAIN index.map
      BY MapParts DEF Index
    <3>2. QED
      BY <2>2, <3>1
  <2>7. QED
    BY <2>3, <2>5, <2>6
<1>3. QED
  BY <1>1, <1>2
----------------------------------------------------------------------------
\* What an operation on the heap does to the rows of a page list: those in gone
\* go, row comes with the ids in come, and the other rows stay.
Change(pgs, ids, gone, come, row, new, longer) ==
    /\ HeapSound(new, longer)
    /\ Extends(longer, ids)
    /\ SlotsKept(pgs, new)
    /\ LiveIds(new, longer) = (LiveIds(pgs, ids) \ gone) \cup come
    /\ \A id \in LiveIds(pgs, ids) \ gone : RowAt(new, id) = RowAt(pgs, id)
    /\ \A id \in come : /\ RowAt(new, id) = row /\ IsSlot(new, id) /\ id \in RowId
                        /\ id \in gone \/ ~IsSlot(pgs, id)

\* A row that is inserted comes with a new id.
LEMMA AddedChange ==
    ASSUME NEW pgs, NEW ids, HeapSound(pgs, ids), NEW row \in Row, ~TooLarge(row)
    PROVE  LET new == Inserted(pgs, ids, row)
           IN  Change(pgs, ids, {}, {new.id}, row, new.pages, new.ids)
<1> DEFINE new == Inserted(pgs, ids, row)
<1>1. RowAdded(pgs, ids, row, new)
  BY RowInserted, RecordsAreRows
<1> HIDE DEF new
<1>2. /\ [len |-> Size[row], rec |-> row].len # 0
  BY RowEntry, RecordsAreRows
<1>3. LiveIds(new.pages, new.ids) = (LiveIds(pgs, ids) \ {}) \cup {new.id}
  BY <1>1, <1>2, LiveIdsAre DEF RowAdded
<1>4. \A id \in LiveIds(pgs, ids) \ {} : RowAt(new.pages, id) = RowAt(pgs, id)
  BY <1>1, LiveIdsAre DEF RowAdded, RowAt
<1>5. IsSlot(new.pages, new.id) /\ new.id \in RowId
  BY <1>1, <1>3, LiveSlots DEF RowAdded
<1>6. RowAt(new.pages, new.id) = row
  BY <1>1 DEF RowAdded, RowAt
<1>7. QED
  BY <1>1, <1>3, <1>4, <1>5, <1>6 DEF Change, RowAdded, new

\* A row that is deleted goes.
LEMMA DeletedChange ==
    ASSUME NEW pgs, NEW ids, HeapSound(pgs, ids), NEW id \in LiveIds(pgs, ids), NEW row
    PROVE  Change(pgs, ids, {id}, {}, row, Deleted(pgs, id), ids)
<1> DEFINE new == Deleted(pgs, id)
<1>1. id \in SlotIds(pgs, ids)
  BY LiveIdsAre
<1>2. OnlyChanged(pgs, ids, id, Tombstone, new)
  BY <1>1, RowDeleted
<1> HIDE DEF new
<1>3. LiveIds(new, ids) = (LiveIds(pgs, ids) \ {id}) \cup {}
  BY <1>2, LiveIdsAre, TombstoneEntry DEF OnlyChanged
<1>4. \A other \in LiveIds(pgs, ids) \ {id} : RowAt(new, other) = RowAt(pgs, other)
  BY <1>2, LiveIdsAre DEF OnlyChanged, RowAt
<1>5. Extends(ids, ids)
  BY ExtendsOrder DEF HeapSound
<1>6. QED
  BY <1>2, <1>3, <1>4, <1>5 DEF Change, OnlyChanged, new

\* A row that is updated goes, and comes with the same id or with a new one.
LEMMA UpdatedChange ==
    ASSUME NEW pgs, NEW ids, HeapSound(pgs, ids), NEW id \in LiveIds(pgs, ids),
           NEW row \in Row, StaysInPlace(pgs, id, row) \/ ~TooLarge(row)
    PROVE  LET new == Updated(pgs, ids, id, row)
           IN  Change(pgs, ids, {id}, {new.id}, row, new.pages, new.ids)
<1> DEFINE new == Updated(pgs, ids, id, row)
           e == [len |-> Size[row], rec |-> row]
<1>1. id \in SlotIds(pgs, ids) /\ id \in LiveIds(pgs, ids) /\ row \in Record
  BY LiveIdsAre, RecordsAreRows
<1>2. e.len # 0 /\ e.rec = row
  BY <1>1, RowEntry
<1>3. CASE StaysInPlace(pgs, id, row)
  <2>1. /\ new.pages = Overwritten(pgs, id, row) /\ new.ids = ids /\ new.id = id
    BY <1>3 DEF Updated
  <2>2. OnlyChanged(pgs, ids, id, e, new.pages)
    BY <1>1, <2>1, RowOverwritten
  <2> HIDE DEF new, e
  <2>3. LiveIds(new.pages, ids) = (LiveIds(pgs, ids) \ {id}) \cup {id}
    BY <1>1, <1>2, <2>2, LiveIdsAre DEF OnlyChanged
  <2>4. \A other \in LiveIds(pgs, ids) \ {id} : RowAt(new.pages, other) = RowAt(pgs, other)
    BY <2>2, LiveIdsAre DEF OnlyChanged, RowAt
  <2>5. Extends(ids, ids)
    BY ExtendsOrder DEF HeapSound
  <2>6. IsSlot(new.pages, id) /\ id \in RowId
    BY <2>2, LiveSlots DEF OnlyChanged, SlotsKept
  <2>7. RowAt(new.pages, id) = row
    BY <1>2, <2>2 DEF OnlyChanged, RowAt
  <2>8. QED
    BY <2>1, <2>2, <2>3, <2>4, <2>5, <2>6, <2>7 DEF Change, OnlyChanged, new
<1>4. CASE ~StaysInPlace(pgs, id, row)
  <2>1. RowMoved(pgs, ids, id, row, new)
    BY <1>1, <1>4, RowRelocated
  <2>2. Slot(new.pages, new.id) = e
    BY <2>1 DEF RowMoved
  <2> HIDE DEF new, e
  <2>3. new.id # id
    BY <1>1, <2>1 DEF RowMoved
  <2>4. LiveIds(new.pages, new.ids) = (LiveIds(pgs, ids) \ {id}) \cup {new.id}
    BY <1>1, <1>2, <2>1, <2>2, <2>3, LiveIdsAre, TombstoneEntry DEF RowMoved
  <2>5. \A other \in LiveIds(pgs, ids) \ {id} : RowAt(new.pages, other) = RowAt(pgs, other)
    BY <2>1, LiveIdsAre DEF RowMoved, RowAt
  <2>6. IsSlot(new.pages, new.id) /\ new.id \in RowId
    BY <2>1, <2>4, LiveSlots DEF RowMoved
  <2>7. RowAt(new.pages, new.id) = row
    BY <1>2, <2>2 DEF RowAt
  <2>8. QED
    BY <2>1, <2>4, <2>5, <2>6, <2>7 DEF Change, RowMoved, new
<1>5. QED
  BY <1>3, <1>4

\* A page that is added and not named by any list changes no row.
LEMMA LeakChange ==
    ASSUME NEW pgs, NEW ids, HeapSound(pgs, ids), NEW row
    PROVE  Change(pgs, ids, {}, {}, row, Append(pgs, ZeroPage), ids)
<1> DEFINE new == Append(pgs, ZeroPage)
<1>1. /\ HeapSound(new, ids) /\ SlotsKept(pgs, new)
      /\ SlotIds(new, ids) = SlotIds(pgs, ids)
      /\ \A id \in SlotIds(pgs, ids) : Slot(new, id) = Slot(pgs, id)
  BY PageAdded, ZeroPageSound
<1> HIDE DEF new
<1>2. LiveIds(new, ids) = LiveIds(pgs, ids)
  BY <1>1, LiveIdsAre
<1>3. \A id \in LiveIds(pgs, ids) : RowAt(new, id) = RowAt(pgs, id)
  BY <1>1, LiveIdsAre DEF RowAt
<1>4. Extends(ids, ids)
  BY ExtendsOrder DEF HeapSound
<1>5. QED
  BY <1>1, <1>2, <1>3, <1>4 DEF Change, new
----------------------------------------------------------------------------
\* An index that keeps its entries and gains, at most, one for the row that comes
\* stays true, when an old entry for the id that comes has the right key or may
\* mislead.
LEMMA TrueKept ==
    ASSUME NEW pgs, NEW ids, HeapSound(pgs, ids), NEW gone, NEW come, NEW row \in Row,
           NEW new, NEW longer, Change(pgs, ids, gone, come, row, new, longer),
           NEW lost, NEW more, lost \subseteq more,
           NEW index, IndexTrue(index, pgs, ids, lost), NEW next,
           \A k \in DOMAIN next.map :
              \/ /\ k \in DOMAIN index.map /\ next.map[k] = index.map[k]
                 /\ next.map[k] \in come => row.key = k \/ next.map[k] \in more
              \/ row.key = k /\ next.map[k] \in come
    PROVE  IndexTrue(next, new, longer, more)
<1>1. SUFFICES ASSUME NEW k \in DOMAIN next.map
               PROVE  /\ IsSlot(new, next.map[k])
                      /\ next.map[k] \in LiveIds(new, longer) =>
                            RowAt(new, next.map[k]).key = k \/ next.map[k] \in more
  BY DEF IndexTrue
<1> DEFINE id == next.map[k]
<1>2. CASE id \in come
  BY <1>2 DEF Change
<1>3. CASE id \notin come
  <2>1. k \in DOMAIN index.map /\ id = index.map[k]
    BY <1>3
  <2>2. IsSlot(new, id)
    BY <2>1 DEF IndexTrue, Change, SlotsKept
  <2>3. ASSUME id \in LiveIds(new, longer)
        PROVE  RowAt(new, id).key = k \/ id \in more
    <3>1. id \in LiveIds(pgs, ids) \ gone
      BY <1>3, <2>3 DEF Change
    <3>2. RowAt(pgs, id).key = k \/ id \in lost
      BY <2>1, <3>1 DEF IndexTrue
    <3>3. QED
      BY <3>1, <3>2 DEF Change
  <2>4. QED
    BY <2>2, <2>3
<1>4. QED
  BY <1>2, <1>3

\* An index that stays is true, when its entries for the ids that come may mislead.
LEMMA SameKept ==
    ASSUME NEW pgs, NEW ids, HeapSound(pgs, ids), NEW gone, NEW come, NEW row \in Row,
           NEW new, NEW longer, Change(pgs, ids, gone, come, row, new, longer),
           NEW lost, NEW more, lost \subseteq more,
           NEW index, IndexTrue(index, pgs, ids, lost),
           \A k \in DOMAIN index.map : index.map[k] \in come => index.map[k] \in more
    PROVE  IndexTrue(index, new, longer, more)
<1>1. \A k \in DOMAIN index.map :
         \/ /\ k \in DOMAIN index.map /\ index.map[k] = index.map[k]
            /\ index.map[k] \in come => row.key = k \/ index.map[k] \in more
         \/ row.key = k /\ index.map[k] \in come
  OBVIOUS
<1>2. QED
  BY <1>1, TrueKept

\* An index without an entry for the row that comes stays true.
LEMMA NewRowKept ==
    ASSUME NEW pgs, NEW ids, HeapSound(pgs, ids), NEW row \in Row, NEW id,
           NEW new, NEW longer, Change(pgs, ids, {}, {id}, row, new, longer),
           NEW lost, NEW index, IndexTrue(index, pgs, ids, lost)
    PROVE  IndexTrue(index, new, longer, lost)
<1> DEFINE gone == {}
           come == {id}
<1>1. /\ \A k \in DOMAIN index.map : index.map[k] \in come => index.map[k] \in lost
      /\ Change(pgs, ids, gone, come, row, new, longer) /\ lost \subseteq lost
  BY DEF IndexTrue, Change
<1> HIDE DEF gone, come
<1>2. QED
  BY <1>1, SameKept

\* An index may mislead to more rows.
LEMMA MoreLost ==
    ASSUME NEW pgs, NEW ids, NEW lost, NEW more, lost \subseteq more,
           NEW index, IndexTrue(index, pgs, ids, lost)
    PROVE  IndexTrue(index, pgs, ids, more)
BY DEF IndexTrue

\* An index stays true for the first pages of a list.
LEMMA TrueShorter ==
    ASSUME NEW pgs, NEW longer, HeapSound(pgs, longer), NEW ids \in Seq(Nat),
           Extends(longer, ids),
           NEW lost, NEW index, IndexTrue(index, pgs, longer, lost), NEW next,
           \A k \in DOMAIN next.map : k \in DOMAIN index.map /\ next.map[k] = index.map[k]
    PROVE  IndexTrue(next, pgs, ids, lost)
<1>1. LiveIds(pgs, ids) \subseteq LiveIds(pgs, longer)
  BY ShorterLive
<1>2. QED
  BY <1>1 DEF IndexTrue

\* An index that keeps the keys D, loses those of the rows that go and gains the
\* key of the row that comes.
Adjusted(index, next, D, pgs, gone, come, row) ==
    /\ D \subseteq DOMAIN index.map
    /\ \A k \in DOMAIN index.map : k \in D <=> \A id \in gone : RowAt(pgs, id).key # k
    /\ \A k : k \in DOMAIN next.map <=> k \in D \/ (come # {} /\ k = row.key /\ k # Null)
    /\ come # {} => row.key \notin D
    /\ \A k \in D : next.map[k] = index.map[k]
    /\ \A id \in come : row.key # Null => next.map[row.key] = id

\* It stays exact.
LEMMA ExactKept ==
    ASSUME NEW pgs, NEW ids, HeapSound(pgs, ids),
           NEW gone \in SUBSET LiveIds(pgs, ids), NEW come, NEW row \in Row,
           NEW new, NEW longer, Change(pgs, ids, gone, come, row, new, longer),
           NEW index, IndexExact(index, pgs, ids), NEW next, NEW D,
           Adjusted(index, next, D, pgs, gone, come, row)
    PROVE  IndexExact(next, new, longer)
<1> DEFINE live == LiveIds(pgs, ids)
<1> USE DEF Adjusted
<1>1. /\ LiveIds(new, longer) = (live \ gone) \cup come
      /\ \A id \in live \ gone : RowAt(new, id) = RowAt(pgs, id)
      /\ \A id \in come : RowAt(new, id) = row
  BY DEF Change
<1>2. /\ DOMAIN index.map = {RowAt(pgs, id).key : id \in live} \ {Null}
      /\ \A id \in live : RowAt(pgs, id).key # Null => index.map[RowAt(pgs, id).key] = id
  BY DEF IndexExact
<1> HIDE DEF live
<1>3. ASSUME NEW id \in live \ gone, RowAt(pgs, id).key # Null
      PROVE  RowAt(pgs, id).key \in D
  <2>1. ASSUME NEW g \in gone, RowAt(pgs, g).key = RowAt(pgs, id).key
        PROVE  FALSE
    <3>1. g \in live
      BY DEF live
    <3>2. index.map[RowAt(pgs, id).key] = id /\ index.map[RowAt(pgs, g).key] = g
      BY <1>2, <1>3, <2>1, <3>1
    <3>3. QED
      BY <1>3, <2>1, <3>2
  <2>2. QED
    BY <1>2, <1>3, <2>1
<1>4. ASSUME NEW k \in D
      PROVE  k # Null /\ \E id \in live \ gone : RowAt(pgs, id).key = k
  <2>1. k # Null /\ \E id \in live : RowAt(pgs, id).key = k
    BY <1>2
  <2>2. QED
    BY <2>1
<1>5. DOMAIN next.map = {RowAt(new, id).key : id \in LiveIds(new, longer)} \ {Null}
  <2>1. ASSUME NEW k \in DOMAIN next.map
        PROVE  k # Null /\ \E id \in LiveIds(new, longer) : RowAt(new, id).key = k
    <3>1. CASE k \in D
      BY <1>1, <1>4, <3>1
    <3>2. CASE come # {} /\ k = row.key /\ k # Null
      BY <1>1, <3>2
    <3>3. QED
      BY <3>1, <3>2
  <2>2. ASSUME NEW id \in LiveIds(new, longer), RowAt(new, id).key # Null
        PROVE  RowAt(new, id).key \in DOMAIN next.map
    <3>1. CASE id \in come
      BY <1>1, <2>2, <3>1
    <3>2. CASE id \in live \ gone
      BY <1>1, <1>3, <2>2, <3>2
    <3>3. QED
      BY <1>1, <3>1, <3>2
  <2>3. QED
    BY <2>1, <2>2
<1>6. ASSUME NEW id \in LiveIds(new, longer), RowAt(new, id).key # Null
      PROVE  next.map[RowAt(new, id).key] = id
  <2>1. CASE id \in come
    BY <1>1, <1>6, <2>1
  <2>2. CASE id \in live \ gone
    BY <1>1, <1>2, <1>3, <1>6, <2>2
  <2>3. QED
    BY <1>1, <2>1, <2>2
<1>7. QED
  BY <1>5, <1>6 DEF IndexExact

\* A row of the table that an operation of a statement leaves alone, as the page
\* list of the table shows it.
LEMMA StandsKept ==
    ASSUME NEW pgs, NEW longer, HeapSound(pgs, longer), NEW ids \in Seq(Nat),
           Extends(longer, ids), NEW gone, NEW come, NEW row,
           NEW new, NEW more, Change(pgs, longer, gone, come, row, new, more),
           NEW id \in LiveIds(pgs, ids) \ gone
    PROVE  id \in LiveIds(new, ids) /\ RowAt(new, id) = RowAt(pgs, id)
<1>1. /\ HeapSound(new, more) /\ Extends(more, longer)
      /\ longer \in Seq(Nat) /\ more \in Seq(Nat)
  BY DEF HeapSound, Change
<1>2. Extends(more, ids)
  BY <1>1, ExtendsOrder
<1>3. /\ LiveIds(pgs, ids) = {x \in LiveIds(pgs, longer) : x[1] \in ToSet(ids)}
      /\ LiveIds(new, ids) = {x \in LiveIds(new, more) : x[1] \in ToSet(ids)}
  BY <1>1, <1>2, ShorterLive
<1>4. QED
  BY <1>3 DEF Change

\* A heap that changes stays sound for the lists that its list goes on after.
LEMMA ListsKept ==
    ASSUME NEW pgs, NEW ids, HeapSound(pgs, ids), NEW gone, NEW come, NEW row,
           NEW new, NEW longer, Change(pgs, ids, gone, come, row, new, longer),
           NEW first \in Seq(Nat), Extends(ids, first)
    PROVE  /\ longer \in Seq(Nat) /\ HeapSound(new, longer)
           /\ Extends(longer, first) /\ HeapSound(new, first)
<1>1. /\ HeapSound(new, longer) /\ Extends(longer, ids)
      /\ ids \in Seq(Nat) /\ longer \in Seq(Nat)
  BY DEF HeapSound, Change
<1>2. Extends(longer, first)
  BY <1>1, ExtendsOrder
<1>3. QED
  BY <1>1, <1>2, ShorterSound
----------------------------------------------------------------------------
\* A list of indexes made from another, index by index.
LEMMA IndexList ==
    ASSUME NEW indexes \in Seq(Index), NEW new, new = [i \in DOMAIN indexes |-> new[i]],
           \A i \in DOMAIN indexes : new[i] \in Index
    PROVE  new \in Seq(Index) /\ DOMAIN new = DOMAIN indexes
<1>1. DOMAIN indexes = 1 .. Len(indexes) /\ Len(indexes) \in Nat
  BY LenProperties
<1>2. new \in [1 .. Len(indexes) -> Index]
  BY <1>1
<1>3. QED
  BY <1>1, <1>2, IsASeq

\* What the catalog page gets is of its type.
LEMMA CatalogTyped ==
    ASSUME NEW t \in [page_ids : Seq(Nat), indexes : Seq(Index)]
    PROVE  /\ Catalog(t) \in CatalogEntry(DOMAIN t.indexes)
           /\ Catalog(t).page_ids = t.page_ids /\ Catalog(t).revoked = <<>>
           /\ <<>> \in Seq(Index) /\ DOMAIN <<>> = {}
<1>1. t.indexes \in Seq(Index)
  OBVIOUS
<1>2. \A i \in DOMAIN t.indexes : t.indexes[i] \in Index
  BY <1>1, ElementOfSeq, LenProperties
<1>3. \A i \in DOMAIN t.indexes : t.indexes[i].height \in Nat
  BY <1>2 DEF Index
<1>4. <<>> \in Seq(Index) /\ DOMAIN <<>> = {}
  BY EmptySeq
<1>5. QED
  BY <1>3, <1>4 DEF Catalog, CatalogEntry

\* What the invariant says of lists and indexes, in terms of their parts.
LEMMA Facts ==
    ASSUME IInv
    PROVE  /\ HeapSound(pages, CurrentIds) /\ CurrentIds \in Seq(Nat)
           /\ HeapSound(pages, table.page_ids) /\ table.page_ids \in Seq(Nat)
           /\ HeapSound(pages, stored.page_ids) /\ stored.page_ids \in Seq(Nat)
           /\ Extends(CurrentIds, table.page_ids)
           /\ Extends(CurrentIds, stored.page_ids)
           /\ Extends(table.page_ids, stored.page_ids)
           /\ table = [page_ids |-> table.page_ids, indexes |-> table.indexes]
           /\ table.indexes \in Seq(Index)
           /\ \A i \in DOMAIN table.indexes : table.indexes[i] \in Index
           /\ DOMAIN table.indexes = 1 .. Len(table.indexes) /\ Len(table.indexes) \in Nat
           /\ op # Idle => CurrentIds = op.ids /\ op.kind # "idle"
           /\ op = Idle => CurrentIds = table.page_ids /\ op.kind = "idle"
<1>1. /\ HeapSound(pages, CurrentIds) /\ Extends(CurrentIds, table.page_ids)
      /\ Extends(table.page_ids, stored.page_ids)
      /\ table.page_ids \in Seq(Nat) /\ stored.page_ids \in Seq(Nat)
      /\ table = [page_ids |-> table.page_ids, indexes |-> table.indexes]
      /\ table.indexes \in Seq(Index)
      /\ op = Idle \/ op \in Statements
  BY DEF IInv, ListsSound, Typed, CatalogEntry
<1>2. CurrentIds \in Seq(Nat)
  BY <1>1 DEF HeapSound
<1>3. HeapSound(pages, table.page_ids)
  BY <1>1, ShorterSound
<1>4. HeapSound(pages, stored.page_ids)
  BY <1>1, <1>3, ShorterSound
<1>5. Extends(CurrentIds, stored.page_ids)
  BY <1>1, <1>2, ExtendsOrder
<1>6. /\ \A i \in DOMAIN table.indexes : table.indexes[i] \in Index
      /\ DOMAIN table.indexes = 1 .. Len(table.indexes) /\ Len(table.indexes) \in Nat
  BY <1>1, ElementOfSeq, LenProperties
<1>7. op \in Statements => op.kind # "idle"
  BY DEF Statements, Statement
<1>8. Idle.kind = "idle"
  BY DEF Idle
<1>9. QED
  BY <1>1, <1>2, <1>3, <1>4, <1>5, <1>6, <1>7, <1>8 DEF CurrentIds

\* What it says of an index that only the catalog page has.
LEMMA RevokedFacts ==
    ASSUME IInv
    PROVE  /\ stored.revoked \in Seq(Index)
           /\ \A i \in DOMAIN stored.revoked :
                 /\ stored.revoked[i] \in Index
                 /\ IndexTrue(stored.revoked[i], pages, CurrentIds, misled)
           /\ ~diverged => stored.revoked = <<>> /\ DOMAIN stored.revoked = {}
<1>1. stored.revoked \in Seq(Index)
  BY DEF IInv, Typed, CatalogEntry
<1>2. \A i \in DOMAIN stored.revoked :
         /\ stored.revoked[i] \in Index
         /\ IndexTrue(stored.revoked[i], pages, CurrentIds, misled)
  BY <1>1, ElementOfSeq, LenProperties DEF IInv, RevokedTrue
<1>3. ~diverged => stored.revoked = <<>> /\ DOMAIN stored.revoked = {}
  BY EmptySeq DEF IInv, Typed
<1>4. QED
  BY <1>1, <1>2, <1>3

\* Between statements the invariant is about the table alone.
LEMMA IdleInvariant ==
    ASSUME op' = Idle, Typed', HeapSound(pages, table.page_ids)',
           Extends(table.page_ids, stored.page_ids)',
           (\A i \in DOMAIN table.indexes :
              IndexTrue(table.indexes[i], pages, table.page_ids, misled))',
           (~diverged => \A i \in DOMAIN table.indexes :
              IndexExact(table.indexes[i], pages, table.page_ids))',
           (\A i \in DOMAIN stored.revoked :
              IndexTrue(stored.revoked[i], pages, table.page_ids, misled))',
           (~diverged => stored = Catalog(table))'
    PROVE  IInv'
<1>1. CurrentIds' = table'.page_ids
  BY DEF CurrentIds
<1>2. table'.page_ids \in Seq(Nat)
  BY DEF Typed
<1>3. Extends(table'.page_ids, table'.page_ids)
  BY <1>2, ExtendsOrder
<1>4. op'.kind # "delete"
  BY DEF Idle
<1>5. ListsSound'
  BY <1>1, <1>3, <1>4 DEF ListsSound
<1>6. ScanTrue' /\ RowsTraced' /\ CatalogTrue'
  BY DEF ScanTrue, RowsTraced, CatalogTrue
<1>7. EntriesTrue' /\ EntriesExact' /\ RevokedTrue'
  BY <1>1 DEF EntriesTrue, EntriesExact, RevokedTrue
<1>8. QED
  BY <1>5, <1>6, <1>7 DEF IInv

\* The new table has no rows, an empty index at most, and is in the catalog page.
LEMMA InitInvariant == Init => IInv
<1>1. SUFFICES ASSUME Init
               PROVE  IInv
  OBVIOUS
<1>2. /\ pages \in Seq(Page) /\ DOMAIN pages = {}
      /\ table.page_ids = <<>> /\ <<>> \in Seq(Nat) /\ DOMAIN <<>> = {}
  BY <1>1, EmptySeq DEF Init
<1>3. HeapSound(pages, table.page_ids)
  BY <1>2 DEF HeapSound, IsInjective
<1>4. EmptyIndex \in Index /\ DOMAIN EmptyIndex.map = {}
  BY MapParts DEF EmptyIndex, Index
<1>5. /\ table.indexes \in Seq(Index)
      /\ \A i \in DOMAIN table.indexes : table.indexes[i] = EmptyIndex
  <2>1. CASE KeyUnique
    <3>1. table.indexes = <<EmptyIndex>>
      BY <1>1, <2>1 DEF Init
    <3>2. QED
      BY <1>4, <3>1
  <2>2. CASE ~KeyUnique
    <3>1. table.indexes = <<>>
      BY <1>1, <2>2 DEF Init
    <3>2. QED
      BY <1>2, <3>1, EmptySeq
  <2>3. QED
    BY <2>1, <2>2
<1>6. /\ table = [page_ids |-> table.page_ids, indexes |-> table.indexes]
      /\ table \in [page_ids : Seq(Nat), indexes : Seq(Index)]
  BY <1>1, <1>2, <1>5 DEF Init
<1>7. /\ op = Idle /\ diverged = FALSE /\ misled = {} /\ stored = Catalog(table)
      /\ CurrentIds = table.page_ids
      /\ stored.revoked = <<>> /\ DOMAIN stored.revoked = {}
  BY <1>1, <1>6, CatalogTyped DEF Init, CurrentIds
<1>8. Typed
  BY <1>6, <1>7, CatalogTyped DEF Typed
<1>9. ListsSound
  BY <1>2, <1>3, <1>6, <1>7, ExtendsOrder, CatalogTyped DEF ListsSound, Idle
<1>10. LiveIds(pages, CurrentIds) = {}
  BY <1>2, <1>7 DEF LiveIds, ToSet
<1>11. EntriesTrue /\ EntriesExact
  BY <1>4, <1>5, <1>10 DEF EntriesTrue, EntriesExact, IndexTrue, IndexExact
<1>12. ScanTrue /\ RowsTraced /\ CatalogTrue /\ RevokedTrue
  BY <1>7 DEF ScanTrue, RowsTraced, CatalogTrue, RevokedTrue
<1>13. QED
  BY <1>8, <1>9, <1>11, <1>12 DEF IInv
----------------------------------------------------------------------------
\* An index to which an insertion adds the new row, which is not in it yet.
LEMMA PutKept ==
    ASSUME NEW pgs, NEW ids, HeapSound(pgs, ids), NEW row \in Row, NEW id,
           NEW new, NEW longer, Change(pgs, ids, {}, {id}, row, new, longer),
           NEW lost, NEW index \in Index, IndexTrue(index, pgs, ids, lost),
           NEW grow \in BOOLEAN
    PROVE  LET next == Put(index, row.key, id, grow)
           IN  /\ next \in Index
               /\ IndexTrue(next, new, longer, lost)
               /\ IndexExact(index, pgs, ids) /\ row.key \notin DOMAIN index.map =>
                     IndexExact(next, new, longer)
<1> DEFINE next == Put(index, row.key, id, grow)
<1>1. id \in RowId /\ ~IsSlot(pgs, id) /\ row.key \in Key \cup {Null}
  BY DEF Change, Row
<1>2. /\ next \in Index
      /\ DOMAIN next.map = DOMAIN index.map \cup ({row.key} \ {Null})
      /\ row.key # Null => next.map[row.key] = id
      /\ \A x \in DOMAIN index.map \ {row.key} : next.map[x] = index.map[x]
  BY <1>1, PutIndex DEF HasPut
<1> HIDE DEF next
<1>3. Null \notin DOMAIN index.map
  BY MapParts DEF Index
<1>4. \A k \in DOMAIN index.map : index.map[k] \notin {id}
  BY <1>1 DEF IndexTrue
<1>5. IndexTrue(next, new, longer, lost)
  <2>1. \A k \in DOMAIN next.map :
           \/ /\ k \in DOMAIN index.map /\ next.map[k] = index.map[k]
              /\ next.map[k] \in {id} => row.key = k \/ next.map[k] \in lost
           \/ row.key = k /\ next.map[k] \in {id}
    BY <1>2, <1>3, <1>4
  <2>2. lost \subseteq lost
    OBVIOUS
  <2>3. QED
    BY <2>1, <2>2, TrueKept
<1>6. ASSUME IndexExact(index, pgs, ids), row.key \notin DOMAIN index.map
      PROVE  IndexExact(next, new, longer)
  <2> DEFINE D == DOMAIN index.map
             gone == {}
             come == {id}
  <2>1. Adjusted(index, next, D, pgs, gone, come, row)
    BY <1>2, <1>6 DEF Adjusted
  <2>2. /\ gone \in SUBSET LiveIds(pgs, ids)
        /\ Change(pgs, ids, gone, come, row, new, longer)
    OBVIOUS
  <2> HIDE DEF D, gone, come
  <2>3. QED
    BY <1>6, <2>1, <2>2, ExactKept
<1>7. QED
  BY <1>2, <1>5, <1>6 DEF next

\* INSERT adds the row to the heap and to every index, which have no such key.
LEMMA InsertKeeps ==
    ASSUME IInv, NEW row \in Row, NEW grow \in BOOLEAN, Insert(row, grow)
    PROVE  IInv'
<1> DEFINE new == Inserted(pages, table.page_ids, row)
           indexes == [i \in DOMAIN table.indexes |->
                          Put(table.indexes[i], row.key, new.id, grow)]
<1>1. /\ op = Idle /\ op' = Idle /\ misled' = misled
      /\ pages' = new.pages
      /\ table' = [page_ids |-> new.ids, indexes |-> indexes]
      /\ ~TooLarge(row) /\ ~Indexed(row.key)
  BY DEF Insert, CanInsert, Acceptable
<1>2. \/ stored' = Catalog(table') /\ diverged' = diverged
      \/ stored' = stored /\ diverged' = (diverged \/ stored # Catalog(table'))
  BY DEF Insert, Store
<1>3. CurrentIds = table.page_ids
  BY <1>1 DEF CurrentIds
<1>4. Change(pages, table.page_ids, {}, {new.id}, row, new.pages, new.ids)
  BY <1>1, Facts, AddedChange
<1> HIDE DEF new
<1>5. \A i \in DOMAIN table.indexes :
         /\ indexes[i] \in Index
         /\ IndexTrue(indexes[i], pages', table'.page_ids, misled')
         /\ ~diverged => IndexExact(indexes[i], pages', table'.page_ids)
  <2>1. SUFFICES ASSUME NEW i \in DOMAIN table.indexes
                 PROVE  /\ indexes[i] \in Index
                        /\ IndexTrue(indexes[i], pages', table'.page_ids, misled')
                        /\ ~diverged => IndexExact(indexes[i], pages', table'.page_ids)
    OBVIOUS
  <2>2. /\ table.indexes[i] \in Index
        /\ IndexTrue(table.indexes[i], pages, table.page_ids, misled)
        /\ ~diverged => IndexExact(table.indexes[i], pages, table.page_ids)
        /\ row.key \notin DOMAIN table.indexes[i].map
    BY <1>1, <1>3, Facts DEF IInv, EntriesTrue, EntriesExact, Indexed
  <2>3. indexes[i] = Put(table.indexes[i], row.key, new.id, grow)
    OBVIOUS
  <2>4. QED
    BY <1>1, <1>4, <2>2, <2>3, Facts, PutKept
<1>6. indexes \in Seq(Index) /\ DOMAIN indexes = DOMAIN table.indexes
  <2>1. indexes = [i \in DOMAIN table.indexes |-> indexes[i]]
    OBVIOUS
  <2> HIDE DEF indexes
  <2>2. QED
    BY <1>5, <2>1, Facts, IndexList
<1> HIDE DEF indexes
<1>7. /\ new.ids \in Seq(Nat) /\ HeapSound(new.pages, new.ids)
      /\ Extends(new.ids, stored.page_ids)
  BY <1>4, Facts, ListsKept
<1>8. /\ table' \in [page_ids : Seq(Nat), indexes : Seq(Index)]
      /\ Catalog(table') \in CatalogEntry(DOMAIN table.indexes)
      /\ Catalog(table').page_ids = new.ids
      /\ Catalog(table').revoked = <<>> /\ DOMAIN <<>> = {}
  BY <1>1, <1>6, <1>7, CatalogTyped
<1>9. Typed'
  BY <1>1, <1>6, <1>8, <1>2 DEF IInv, Typed
<1>10. Extends(new.ids, stored'.page_ids)
  BY <1>7, <1>8, <1>2, ExtendsOrder
<1>11. (\A i \in DOMAIN stored.revoked :
           IndexTrue(stored.revoked[i], pages, table.page_ids, misled))'
  <2>1. CASE stored' = Catalog(table')
    BY <1>8, <2>1
  <2>2. CASE stored' = stored
    <3>1. \A i \in DOMAIN stored.revoked :
             IndexTrue(stored.revoked[i], new.pages, new.ids, misled)
      BY <1>3, <1>4, Facts, RevokedFacts, NewRowKept
    <3>2. QED
      BY <1>1, <2>2, <3>1
  <2>3. QED
    BY <1>2, <2>1, <2>2
<1>12. (~diverged => stored = Catalog(table))' /\ (~diverged' => ~diverged)
  <2>1. CASE stored' = Catalog(table') /\ diverged' = diverged
    BY <2>1
  <2>2. CASE stored' = stored /\ diverged' = (diverged \/ stored # Catalog(table'))
    BY <2>2
  <2>3. QED
    BY <1>2, <2>1, <2>2
<1>13. op' = Idle /\ table'.indexes = indexes /\ table'.page_ids = new.ids /\ pages' = new.pages
  BY <1>1
<1>14. /\ (\A i \in DOMAIN table.indexes :
            IndexTrue(table.indexes[i], pages, table.page_ids, misled))'
      /\ (~diverged => \A i \in DOMAIN table.indexes :
            IndexExact(table.indexes[i], pages, table.page_ids))'
  BY <1>5, <1>6, <1>12, <1>13
<1>15. HeapSound(pages, table.page_ids)' /\ Extends(table.page_ids, stored.page_ids)'
  BY <1>7, <1>10, <1>13
<1>16. QED
  BY <1>9, <1>11, <1>12, <1>13, <1>14, <1>15, IdleInvariant

\* An insertion that stops half way leaves an index that is true, if not exact.
LEMMA HalfPutKept ==
    ASSUME NEW pgs, NEW ids, HeapSound(pgs, ids), NEW row \in Row, NEW id,
           NEW new, NEW longer, Change(pgs, ids, {}, {id}, row, new, longer),
           NEW lost, NEW index \in Index, IndexTrue(index, pgs, ids, lost),
           NEW half \in HalfPut(index, row.key, id)
    PROVE  half \in Index /\ IndexTrue(half, new, longer, lost)
<1>1. id \in RowId /\ ~IsSlot(pgs, id) /\ row.key \in Key \cup {Null}
  BY DEF Change, Row
<1>2. /\ half \in Index
      /\ \A x \in DOMAIN half.map :
            \/ x \in DOMAIN index.map /\ half.map[x] = index.map[x]
            \/ x = row.key /\ half.map[x] = id
  BY <1>1, HalfPutIndex
<1>3. \A k \in DOMAIN index.map : index.map[k] # id
  BY <1>1 DEF IndexTrue
<1>4. \A k \in DOMAIN half.map :
         \/ /\ k \in DOMAIN index.map /\ half.map[k] = index.map[k]
            /\ half.map[k] \in {id} => row.key = k \/ half.map[k] \in lost
         \/ row.key = k /\ half.map[k] \in {id}
  BY <1>2, <1>3
<1>5. lost \subseteq lost
  OBVIOUS
<1>6. QED
  BY <1>2, <1>4, <1>5, TrueKept

\* A statement that only adds a page leaves indexes and heap as they are.
LEMMA LeakKept ==
    ASSUME NEW pgs, NEW ids, HeapSound(pgs, ids), NEW lost, NEW index
    PROVE  LET new == Append(pgs, ZeroPage)
           IN  /\ HeapSound(new, ids)
               /\ IndexTrue(index, pgs, ids, lost) => IndexTrue(index, new, ids, lost)
               /\ IndexExact(index, pgs, ids) => IndexExact(index, new, ids)
<1> DEFINE new == Append(pgs, ZeroPage)
<1>1. PICK row : TRUE
  OBVIOUS
<1>2. Change(pgs, ids, {}, {}, row, new, ids)
  BY LeakChange
<1> HIDE DEF new
<1>3. /\ HeapSound(new, ids) /\ SlotsKept(pgs, new)
      /\ LiveIds(new, ids) = LiveIds(pgs, ids)
      /\ \A id \in LiveIds(pgs, ids) : RowAt(new, id) = RowAt(pgs, id)
  BY <1>2 DEF Change
<1>4. IndexTrue(index, pgs, ids, lost) => IndexTrue(index, new, ids, lost)
  BY <1>3 DEF IndexTrue, SlotsKept
<1>5. IndexExact(index, pgs, ids) => IndexExact(index, new, ids)
  <2>1. ASSUME IndexExact(index, pgs, ids)
        PROVE  {RowAt(pgs, id).key : id \in LiveIds(pgs, ids)}
                  = {RowAt(new, id).key : id \in LiveIds(new, ids)}
    BY <1>3
  <2>2. QED
    BY <1>3, <2>1 DEF IndexExact
<1>6. QED
  BY <1>3, <1>4, <1>5 DEF new

\* INSERT that is interrupted adds a page and no more, or loses index entries.
LEMMA InsertInterruptedKeeps ==
    ASSUME IInv, NEW row \in Row, InsertInterrupted(row)
    PROVE  IInv'
<1>1. /\ op = Idle /\ op' = Idle /\ misled' = misled /\ stored' = stored /\ ~diverged
      /\ ~TooLarge(row) /\ ~Indexed(row.key)
  BY DEF InsertInterrupted, Interrupted, CanInsert, Acceptable
<1>2. CurrentIds = table.page_ids
  BY <1>1 DEF CurrentIds
<1>3. \A i \in DOMAIN table.indexes :
         /\ table.indexes[i] \in Index
         /\ IndexTrue(table.indexes[i], pages, table.page_ids, misled)
         /\ IndexExact(table.indexes[i], pages, table.page_ids)
  BY <1>1, <1>2, Facts DEF IInv, EntriesTrue, EntriesExact
<1>4. stored'.revoked = stored.revoked /\ DOMAIN stored.revoked = {}
  BY <1>1, RevokedFacts
<1>5. CASE /\ UNCHANGED <<table, diverged>>
           /\ pages' = Append(pages, ZeroPage)
  <2>1. table' = table /\ diverged' = diverged
    BY <1>5
  <2>2. HeapSound(pages', table.page_ids)
    BY <1>5, Facts, LeakKept
  <2>3. \A i \in DOMAIN table.indexes :
           /\ IndexTrue(table.indexes[i], pages', table.page_ids, misled)
           /\ IndexExact(table.indexes[i], pages', table.page_ids)
    BY <1>3, <1>5, Facts, LeakKept
  <2>4. Typed'
    BY <1>1, <2>1 DEF IInv, Typed
  <2>5. (~diverged => stored = Catalog(table))'
    BY <1>1, <2>1 DEF IInv, CatalogTrue
  <2>6. Extends(table.page_ids, stored.page_ids)'
    BY <1>1, <2>1, Facts
  <2>7. QED
    BY <1>1, <1>4, <2>1, <2>2, <2>3, <2>4, <2>5, <2>6, IdleInvariant
<1>6. CASE /\ \E new \in {Inserted(pages, table.page_ids, row)}, i \in DOMAIN table.indexes :
                /\ pages' = new.pages
                /\ \E half \in HalfPut(table.indexes[i], row.key, new.id) :
                      table' = [table EXCEPT !.indexes =
                                   Stopped([j \in DOMAIN @ |-> Put(@[j], row.key, new.id, FALSE)],
                                           i, half)]
           /\ diverged' = TRUE
  <2> DEFINE new == Inserted(pages, table.page_ids, row)
             done == [j \in DOMAIN table.indexes |->
                         Put(table.indexes[j], row.key, new.id, FALSE)]
  <2>1. Change(pages, table.page_ids, {}, {new.id}, row, new.pages, new.ids)
    BY <1>1, Facts, AddedChange
  <2>2. PICK i \in DOMAIN table.indexes :
               /\ pages' = new.pages
               /\ \E half \in HalfPut(table.indexes[i], row.key, new.id) :
                     table' = [table EXCEPT !.indexes = Stopped(done, i, half)]
    BY <1>6
  <2> HIDE DEF new
  <2>3. PICK half \in HalfPut(table.indexes[i], row.key, new.id) :
              table' = [table EXCEPT !.indexes = Stopped(done, i, half)]
    BY <2>2
  <2> DEFINE indexes == Stopped(done, i, half)
  <2>4. table' = [page_ids |-> table.page_ids, indexes |-> indexes]
    BY <2>3, Facts
  <2>5. /\ new.ids \in Seq(Nat) /\ HeapSound(new.pages, new.ids)
        /\ Extends(new.ids, table.page_ids) /\ HeapSound(new.pages, table.page_ids)
    <3>1. Extends(table.page_ids, table.page_ids)
      BY Facts, ExtendsOrder
    <3>2. QED
      BY <2>1, <3>1, Facts, ListsKept
  <2>6. \A j \in DOMAIN table.indexes :
           indexes[j] \in Index /\ IndexTrue(indexes[j], new.pages, new.ids, misled)
    <3>1. SUFFICES ASSUME NEW j \in DOMAIN table.indexes
                   PROVE  /\ indexes[j] \in Index
                          /\ IndexTrue(indexes[j], new.pages, new.ids, misled)
      OBVIOUS
    <3>2. indexes[j] = IF j < i THEN Put(table.indexes[j], row.key, new.id, FALSE)
                       ELSE IF j = i THEN half ELSE table.indexes[j]
      BY DEF Stopped
    <3>3. /\ Put(table.indexes[j], row.key, new.id, FALSE) \in Index
          /\ IndexTrue(Put(table.indexes[j], row.key, new.id, FALSE),
                       new.pages, new.ids, misled)
      BY <1>3, <2>1, Facts, PutKept, FALSE \in BOOLEAN
    <3>4. ASSUME j = i
          PROVE  half \in Index /\ IndexTrue(half, new.pages, new.ids, misled)
      BY <1>3, <2>1, <2>2, <3>4, Facts, HalfPutKept
    <3>5. IndexTrue(table.indexes[j], new.pages, new.ids, misled)
      <4>1. new.id \in RowId /\ ~IsSlot(pages, new.id)
        BY <2>1 DEF Change
      <4> DEFINE index == table.indexes[j]
                 come == {new.id}
      <4>2. /\ \A k \in DOMAIN index.map : index.map[k] \in come => index.map[k] \in misled
            /\ IndexTrue(index, pages, table.page_ids, misled)
        BY <1>3, <4>1 DEF IndexTrue
      <4>3. Change(pages, table.page_ids, {}, come, row, new.pages, new.ids)
        BY <2>1
      <4> HIDE DEF index, come
      <4>4. misled \subseteq misled /\ HeapSound(pages, table.page_ids)
        BY Facts
      <4>5. IndexTrue(index, new.pages, new.ids, misled)
        BY <4>2, <4>3, <4>4, SameKept
      <4>6. QED
        BY <4>5 DEF index
    <3>6. QED
      BY <1>3, <3>2, <3>3, <3>4, <3>5
  <2>7. \A j \in DOMAIN table.indexes :
           IndexTrue(indexes[j], new.pages, table.page_ids, misled)
    BY <2>5, <2>6, Facts, TrueShorter
  <2>8. indexes = [j \in DOMAIN table.indexes |-> indexes[j]]
    BY DEF Stopped
  <2> HIDE DEF indexes
  <2>9. indexes \in Seq(Index) /\ DOMAIN indexes = DOMAIN table.indexes
    BY <2>6, <2>8, Facts, IndexList
  <2>10. /\ table' \in [page_ids : Seq(Nat), indexes : Seq(Index)]
        /\ table'.page_ids = table.page_ids /\ table'.indexes = indexes
        /\ diverged' = TRUE /\ pages' = new.pages
    <3>1. diverged' = TRUE /\ pages' = new.pages
      BY <1>6, <2>2
    <3>2. table.page_ids \in Seq(Nat)
      BY Facts
    <3>3. QED
      BY <2>4, <2>9, <3>1, <3>2
  <2>11. Typed'
    <3>1. stored' \in CatalogEntry(DOMAIN table.indexes)
      BY <1>1 DEF IInv, Typed
    <3>2. QED
      BY <1>1, <2>9, <2>10, <3>1 DEF Typed
  <2>12. HeapSound(pages', table'.page_ids) /\ Extends(table'.page_ids, stored'.page_ids)
    BY <1>1, <2>5, <2>10, Facts
  <2>13. \A j \in DOMAIN table'.indexes :
            IndexTrue(table'.indexes[j], pages', table'.page_ids, misled')
    BY <1>1, <2>7, <2>9, <2>10
  <2>14. QED
    BY <1>1, <1>4, <2>10, <2>11, <2>12, <2>13, IdleInvariant
<1>7. QED
  BY <1>5, <1>6 DEF InsertInterrupted

\* Some of the entries of an index.
LEMMA RestrictedMap ==
    ASSUME NEW index \in Index, NEW K, NEW map, map = Restrict(index.map, K \cap DOMAIN index.map)
    PROVE  /\ map \in Maps
           /\ \A k \in DOMAIN map : k \in DOMAIN index.map /\ map[k] = index.map[k]
<1>1. map = [k \in K \cap DOMAIN index.map |-> index.map[k]]
  BY DEF Restrict
<1>2. QED
  BY <1>1, MapParts DEF Index

\* What the restart makes of index i, with the keys an old root leads to.
Reopened(i, keep) ==
    IF stored.heights[i] = table.indexes[i].height THEN table.indexes[i]
    ELSE [map    |-> Restrict(table.indexes[i].map,
                              IF stored.heights[i] = 0 THEN {}
                              ELSE keep \cap DOMAIN table.indexes[i].map),
          height |-> stored.heights[i]]

\* It is an index with some of the entries; the same index, if the catalog page
\* has its height.
LEMMA ReopenedIndex ==
    ASSUME IInv, NEW i \in DOMAIN table.indexes, NEW keep
    PROVE  /\ Reopened(i, keep) \in Index
           /\ \A k \in DOMAIN Reopened(i, keep).map :
                 /\ k \in DOMAIN table.indexes[i].map
                 /\ Reopened(i, keep).map[k] = table.indexes[i].map[k]
           /\ stored = Catalog(table) => Reopened(i, keep) = table.indexes[i]
<1>1. table.indexes[i] \in Index
  BY Facts
<1>2. stored.heights[i] \in Nat
  BY DEF IInv, Typed, CatalogEntry
<1>3. stored = Catalog(table) => Reopened(i, keep) = table.indexes[i]
  BY DEF Catalog, Reopened
<1>4. CASE stored.heights[i] = table.indexes[i].height
  BY <1>1, <1>3, <1>4 DEF Reopened
<1>5. CASE stored.heights[i] # table.indexes[i].height
  <2> DEFINE K == IF stored.heights[i] = 0 THEN {} ELSE keep
             index == table.indexes[i]
             map == Restrict(index.map, K \cap DOMAIN index.map)
             h == stored.heights[i]
  <2>1. Reopened(i, keep) = [map |-> map, height |-> h]
    <3>1. Reopened(i, keep) =
             [map |-> Restrict(index.map, IF h = 0 THEN {} ELSE keep \cap DOMAIN index.map),
              height |-> h]
      BY <1>5 DEF Reopened
    <3>2. (IF h = 0 THEN {} ELSE keep \cap DOMAIN index.map) = K \cap DOMAIN index.map
      OBVIOUS
    <3>3. QED
      BY <3>1, <3>2
  <2>2. index \in Index /\ h \in Nat
    BY <1>1, <1>2
  <2>3. /\ map \in Maps
        /\ \A k \in DOMAIN map : k \in DOMAIN index.map /\ map[k] = index.map[k]
    <3> HIDE DEF K, index, h
    <3>1. QED
      BY <2>2, RestrictedMap
  <2> HIDE DEF map, h
  <2>4. QED
    BY <1>3, <2>1, <2>2, <2>3 DEF Index
<1>6. QED
  BY <1>4, <1>5

\* A restart takes page list and trees from the catalog page, an index that memory
\* had taken back among them.  While the page has the table that memory had, this
\* changes nothing.
LEMMA RestartKeeps ==
    ASSUME IInv, Restart
    PROVE  IInv'
<1>1. /\ op = Idle /\ op' = Idle /\ pages' = pages /\ stored' = Catalog(table')
      /\ diverged' = diverged /\ misled' = misled
  BY DEF Restart
<1>2. PICK keep \in SUBSET Key :
             table' = [page_ids |-> stored.page_ids,
                       indexes  |-> [i \in DOMAIN table.indexes |-> Reopened(i, keep)]
                                    \o stored.revoked]
  BY DEF Restart, Reopened
<1> DEFINE kept == [i \in DOMAIN table.indexes |-> Reopened(i, keep)]
           indexes == kept \o stored.revoked
<1>3. \A i \in DOMAIN table.indexes :
         /\ kept[i] \in Index
         /\ \A k \in DOMAIN kept[i].map : /\ k \in DOMAIN table.indexes[i].map
                                          /\ kept[i].map[k] = table.indexes[i].map[k]
         /\ stored = Catalog(table) => kept[i] = table.indexes[i]
  BY ReopenedIndex
<1>4. kept \in Seq(Index) /\ DOMAIN kept = DOMAIN table.indexes
  <2>1. kept = [i \in DOMAIN table.indexes |-> kept[i]]
    OBVIOUS
  <2> HIDE DEF kept
  <2>2. QED
    BY <1>3, <2>1, Facts, IndexList
<1>5. table'.page_ids = stored.page_ids /\ table'.indexes = indexes
  BY <1>2
<1> HIDE DEF kept
<1>6. ASSUME NEW i \in DOMAIN table.indexes
      PROVE  IndexTrue(kept[i], pages, stored.page_ids, misled)
  <2> DEFINE next == kept[i]
             index == table.indexes[i]
  <2>1. IndexTrue(index, pages, table.page_ids, misled)
    BY <1>1 DEF IInv, EntriesTrue, CurrentIds
  <2>2. \A k \in DOMAIN next.map : k \in DOMAIN index.map /\ next.map[k] = index.map[k]
    BY <1>3
  <2> HIDE DEF next, index
  <2>3. IndexTrue(next, pages, stored.page_ids, misled)
    BY <2>1, <2>2, Facts, TrueShorter
  <2>4. QED
    BY <2>3 DEF next
<1>7. ASSUME NEW i \in DOMAIN stored.revoked
      PROVE  IndexTrue(stored.revoked[i], pages, stored.page_ids, misled)
  BY RevokedFacts, Facts, TrueShorter
<1>8. /\ indexes \in Seq(Index)
      /\ \A i \in DOMAIN indexes : IndexTrue(indexes[i], pages, stored.page_ids, misled)
  <2> DEFINE m == Len(kept)
             n == Len(stored.revoked)
  <2>1. m \in Nat /\ n \in Nat /\ DOMAIN kept = 1 .. m /\ DOMAIN stored.revoked = 1 .. n
    BY <1>4, RevokedFacts, LenProperties
  <2>2. /\ indexes \in Seq(Index) /\ Len(indexes) = m + n
        /\ \A i \in 1 .. m + n : indexes[i] = IF i <= m THEN kept[i] ELSE stored.revoked[i - m]
    BY <1>4, RevokedFacts, ConcatProperties
  <2>3. DOMAIN indexes = 1 .. m + n
    BY <2>2, LenProperties
  <2> HIDE DEF indexes, m, n
  <2>4. ASSUME NEW i \in 1 .. m + n
        PROVE  IndexTrue(indexes[i], pages, stored.page_ids, misled)
    <3>1. CASE i <= m
      <4>1. i \in DOMAIN table.indexes /\ indexes[i] = kept[i]
        BY <1>4, <2>1, <2>2, <3>1
      <4>2. QED
        BY <1>6, <4>1
    <3>2. CASE ~(i <= m)
      <4>1. i - m \in DOMAIN stored.revoked /\ indexes[i] = stored.revoked[i - m]
        BY <2>1, <2>2, <3>2
      <4>2. QED
        BY <1>7, <4>1
    <3>3. QED
      BY <3>1, <3>2
  <2>5. QED
    BY <2>2, <2>3, <2>4
<1>9. ~diverged => table' = table
  <2>1. SUFFICES ASSUME ~diverged
                 PROVE  table' = table
    OBVIOUS
  <2>2. stored = Catalog(table) /\ stored.revoked = <<>>
    BY <1>1, <2>1, RevokedFacts DEF IInv, CatalogTrue
  <2>3. \A i \in DOMAIN table.indexes : kept[i] = table.indexes[i]
    BY <1>3, <2>2
  <2>4. kept = table.indexes
    BY <1>4, <2>3, Facts
  <2>5. indexes = table.indexes
    BY <1>4, <2>2, <2>4, ConcatEmptySeq
  <2>6. stored.page_ids = table.page_ids
    BY <2>2 DEF Catalog
  <2>7. QED
    BY <1>2, <2>5, <2>6, Facts DEF kept
<1>10. table' = [page_ids |-> stored.page_ids, indexes |-> indexes]
  BY <1>2 DEF kept
<1> HIDE DEF indexes
<1>11. table' \in [page_ids : Seq(Nat), indexes : Seq(Index)]
  BY <1>8, <1>10, Facts
<1>12. /\ stored' \in CatalogEntry(DOMAIN table'.indexes)
       /\ stored'.page_ids = table'.page_ids
       /\ stored'.revoked = <<>> /\ DOMAIN <<>> = {}
  BY <1>1, <1>11, CatalogTyped
<1>13. Typed'
  BY <1>1, <1>11, <1>12 DEF IInv, Typed
<1>14. HeapSound(pages, table.page_ids)' /\ Extends(table.page_ids, stored.page_ids)'
  BY <1>1, <1>5, <1>12, Facts, ExtendsOrder
<1>15. (~diverged => \A i \in DOMAIN table.indexes :
              IndexExact(table.indexes[i], pages, table.page_ids))'
  BY <1>1, <1>9 DEF IInv, EntriesExact, CurrentIds
<1>16. QED
  BY <1>1, <1>5, <1>8, <1>12, <1>13, <1>14, <1>15, IdleInvariant
----------------------------------------------------------------------------
\* The end of a DELETE; table and pages stay.
LEMMA FinishDeleteKeeps ==
    ASSUME IInv, FinishDelete
    PROVE  IInv'
<1>1. /\ op.kind = "delete" /\ op' = Idle /\ pages' = pages /\ table' = table
      /\ stored' = stored /\ diverged' = diverged /\ misled' = misled
  BY DEF FinishDelete
<1>2. CurrentIds = table.page_ids
  BY <1>1, Facts DEF IInv, ListsSound
<1>3. Typed'
  BY <1>1 DEF IInv, Typed
<1>4. HeapSound(pages, table.page_ids)' /\ Extends(table.page_ids, stored.page_ids)'
  BY <1>1, Facts
<1>5. /\ (\A i \in DOMAIN table.indexes :
            IndexTrue(table.indexes[i], pages, table.page_ids, misled))'
      /\ (~diverged => \A i \in DOMAIN table.indexes :
            IndexExact(table.indexes[i], pages, table.page_ids))'
  BY <1>1, <1>2 DEF IInv, EntriesTrue, EntriesExact
<1>6. (~diverged => stored = Catalog(table))'
  BY <1>1 DEF IInv, CatalogTrue
<1>7. (\A i \in DOMAIN stored.revoked :
           IndexTrue(stored.revoked[i], pages, table.page_ids, misled))'
  BY <1>1, <1>2, RevokedFacts
<1>8. QED
  BY <1>1, <1>7, <1>3, <1>4, <1>5, <1>6, IdleInvariant

\* The end of an UPDATE, whose page list becomes the table's.
LEMMA FinishUpdateKeeps ==
    ASSUME IInv, FinishUpdate
    PROVE  IInv'
<1>1. /\ op.kind = "update" /\ op' = Idle /\ pages' = pages /\ misled' = misled
      /\ table' = [table EXCEPT !.page_ids = op.ids]
  BY DEF FinishUpdate
<1>2. \/ stored' = Catalog(table') /\ diverged' = diverged
      \/ stored' = stored /\ diverged' = (diverged \/ stored # Catalog(table'))
  BY DEF FinishUpdate, Store
<1>3. CurrentIds = op.ids
  BY <1>1, Facts
<1>4. /\ table' = [page_ids |-> op.ids, indexes |-> table.indexes]
      /\ table'.page_ids = op.ids /\ table'.indexes = table.indexes
  BY <1>1, Facts
<1>5. table' \in [page_ids : Seq(Nat), indexes : Seq(Index)]
  BY <1>3, <1>4, Facts
<1>6. /\ Catalog(table') \in CatalogEntry(DOMAIN table.indexes)
      /\ Catalog(table').page_ids = op.ids
      /\ Catalog(table').revoked = <<>> /\ DOMAIN <<>> = {}
  BY <1>4, <1>5, CatalogTyped
<1>7. Typed'
  BY <1>1, <1>2, <1>4, <1>5, <1>6 DEF IInv, Typed
<1>8. HeapSound(pages, table.page_ids)' /\ Extends(table.page_ids, stored.page_ids)'
  BY <1>1, <1>2, <1>3, <1>4, <1>6, Facts, ExtendsOrder
<1>9. /\ (\A i \in DOMAIN table.indexes :
            IndexTrue(table.indexes[i], pages, table.page_ids, misled))'
      /\ (~diverged => \A i \in DOMAIN table.indexes :
            IndexExact(table.indexes[i], pages, table.page_ids))'
  BY <1>1, <1>2, <1>3, <1>4 DEF IInv, EntriesTrue, EntriesExact
<1>10. (\A i \in DOMAIN stored.revoked :
           IndexTrue(stored.revoked[i], pages, table.page_ids, misled))'
  BY <1>1, <1>2, <1>3, <1>4, <1>6, RevokedFacts
<1>11. (~diverged => stored = Catalog(table))'
  BY <1>2
<1>12. QED
  BY <1>1, <1>10, <1>7, <1>8, <1>9, <1>11, IdleInvariant

\* An UPDATE that gives up drops its page list; without a trace only if that was
\* the table's and the catalog page is current.
LEMMA UpdateFailsKeeps ==
    ASSUME IInv, UpdateFails
    PROVE  IInv'
<1>1. /\ op.kind = "update" /\ op' = Idle /\ pages' = pages /\ table' = table
      /\ stored' = stored /\ misled' = misled
      /\ diverged' = (diverged \/ op.ids # table.page_ids \/ stored # Catalog(table))
  BY DEF UpdateFails
<1>2. CurrentIds = op.ids
  BY <1>1, Facts
<1>3. Typed'
  BY <1>1 DEF IInv, Typed
<1>4. HeapSound(pages, table.page_ids)' /\ Extends(table.page_ids, stored.page_ids)'
  BY <1>1, Facts
<1>5. (\A i \in DOMAIN table.indexes :
          IndexTrue(table.indexes[i], pages, table.page_ids, misled))'
  <2>1. \A i \in DOMAIN table.indexes : IndexTrue(table.indexes[i], pages, CurrentIds, misled)
    BY DEF IInv, EntriesTrue
  <2>2. \A i \in DOMAIN table.indexes :
           IndexTrue(table.indexes[i], pages, table.page_ids, misled)
    BY <2>1, Facts, TrueShorter
  <2>3. QED
    BY <1>1, <2>2
<1>6. (~diverged => \A i \in DOMAIN table.indexes :
          IndexExact(table.indexes[i], pages, table.page_ids))'
  BY <1>1, <1>2 DEF IInv, EntriesExact
<1>7. (\A i \in DOMAIN stored.revoked :
           IndexTrue(stored.revoked[i], pages, table.page_ids, misled))'
  <2>1. \A i \in DOMAIN stored.revoked :
           IndexTrue(stored.revoked[i], pages, table.page_ids, misled)
    BY RevokedFacts, Facts, TrueShorter
  <2>2. QED
    BY <1>1, <2>1
<1>8. (~diverged => stored = Catalog(table))'
  <2>1. ~diverged' => stored = Catalog(table)
    BY <1>1
  <2>2. stored' = stored /\ table' = table
    BY <1>1
  <2>3. QED
    BY <2>1, <2>2
<1>9. op' = Idle
  BY <1>1
<1>10. QED
  BY <1>9, <1>7, <1>3, <1>4, <1>5, <1>6, <1>8, IdleInvariant
----------------------------------------------------------------------------
\* The map that is filled from the rows with a key leads from each key to the row.
LEMMA FilledMap ==
    ASSUME NEW hits, NEW keyed,
           \A i, j \in keyed : hits[i].row.key = hits[j].row.key => i = j,
           NEW map,
           map = [k \in {hits[i].row.key : i \in keyed} |->
                     hits[CHOOSE i \in keyed : hits[i].row.key = k].id]
    PROVE  /\ \A i \in keyed : /\ hits[i].row.key \in DOMAIN map
                               /\ map[hits[i].row.key] = hits[i].id
           /\ \A k \in DOMAIN map : \E i \in keyed : k = hits[i].row.key
           /\ map = [k \in DOMAIN map |-> map[k]]
<1>1. ASSUME NEW i \in keyed
      PROVE  map[hits[i].row.key] = hits[i].id
  <2>1. (CHOOSE j \in keyed : hits[j].row.key = hits[i].row.key) = i
    OBVIOUS
  <2>2. QED
    BY <2>1
<1>2. DOMAIN map = {hits[i].row.key : i \in keyed} /\ map = [k \in DOMAIN map |-> map[k]]
  OBVIOUS
<1>3. \A k \in DOMAIN map : \E i \in keyed : k = hits[i].row.key
  BY <1>2
<1>4. \A i \in keyed : hits[i].row.key \in DOMAIN map
  BY <1>2
<1>5. QED
  BY <1>1, <1>2, <1>3, <1>4

\* A map that leads from the key of each row of a scan to the row.
Fills(map, hits) ==
    /\ map = [k \in DOMAIN map |-> map[k]]
    /\ \A i \in DOMAIN hits : hits[i].row.key # Null =>
          hits[i].row.key \in DOMAIN map /\ map[hits[i].row.key] = hits[i].id
    /\ \A k \in DOMAIN map : \E i \in DOMAIN hits : k = hits[i].row.key /\ k # Null

\* An index that is filled from a scan without duplicates is true and exact.
LEMMA BuiltIndex ==
    ASSUME NEW pgs, NEW ids, HeapSound(pgs, ids), NEW index,
           Fills(index.map, Scan(pgs, ids)), NEW lost
    PROVE  /\ index.map \in Maps
           /\ IndexTrue(index, pgs, ids, lost) /\ IndexExact(index, pgs, ids)
<1> DEFINE hits == Scan(pgs, ids)
           map == index.map
           keyed == {i \in DOMAIN hits : hits[i].row.key # Null}
<1>1. /\ hits \in Seq(Hit)
      /\ \A i \in DOMAIN hits : /\ hits[i].id \in LiveIds(pgs, ids)
                                /\ hits[i].row = RowAt(pgs, hits[i].id)
      /\ \A id \in LiveIds(pgs, ids) : \E i \in DOMAIN hits : hits[i].id = id
  BY ScanRows
<1>2. \A id \in LiveIds(pgs, ids) : IsSlot(pgs, id) /\ id \in RowId /\ RowAt(pgs, id) \in Row
  BY LiveSlots
<1> HIDE DEF hits
<1>3. \A i \in keyed : /\ hits[i].row.key \in DOMAIN map
                       /\ map[hits[i].row.key] = hits[i].id
  BY DEF Fills, hits
<1>4. \A k \in DOMAIN map : \E i \in keyed : k = hits[i].row.key
  BY DEF Fills, hits
<1>5. map = [k \in DOMAIN map |-> map[k]]
  BY DEF Fills
<1> HIDE DEF map
<1>6. \A i \in keyed : /\ hits[i].row.key \in Key
                       /\ hits[i].id \in LiveIds(pgs, ids)
                       /\ hits[i].row.key = RowAt(pgs, hits[i].id).key
  BY <1>1, <1>2 DEF Row
<1>7. map \in Maps
  <2>1. ASSUME NEW k \in DOMAIN map
        PROVE  k \in Key /\ map[k] \in RowId
    BY <1>2, <1>3, <1>4, <1>6
  <2>2. QED
    BY <1>5, <2>1, MapParts
<1>8. IndexTrue(index, pgs, ids, lost)
  <2>1. ASSUME NEW k \in DOMAIN map
        PROVE  IsSlot(pgs, map[k]) /\ RowAt(pgs, map[k]).key = k
    BY <1>2, <1>3, <1>4, <1>6
  <2>2. QED
    BY <2>1 DEF IndexTrue, map
<1>9. IndexExact(index, pgs, ids)
  <2>1. ASSUME NEW id \in LiveIds(pgs, ids), RowAt(pgs, id).key # Null
        PROVE  RowAt(pgs, id).key \in DOMAIN map /\ map[RowAt(pgs, id).key] = id
    <3>1. PICK i \in DOMAIN hits : hits[i].id = id
      BY <1>1
    <3>2. i \in keyed /\ hits[i].row.key = RowAt(pgs, id).key
      BY <1>1, <2>1, <3>1
    <3>3. QED
      BY <1>3, <3>1, <3>2
  <2>2. ASSUME NEW k \in DOMAIN map
        PROVE  k # Null /\ \E id \in LiveIds(pgs, ids) : k = RowAt(pgs, id).key
    BY <1>4, <1>6
  <2> DEFINE keys == {RowAt(pgs, id).key : id \in LiveIds(pgs, ids)} \ {Null}
  <2>3. \A k \in DOMAIN map : k \in keys
    BY <2>2
  <2>4. \A k \in keys : k \in DOMAIN map
    <3>1. \A k \in keys : k # Null /\ \E id \in LiveIds(pgs, ids) : k = RowAt(pgs, id).key
      OBVIOUS
    <3>2. QED
      BY <2>1, <3>1
  <2> HIDE DEF keys
  <2>5. DOMAIN map = keys
    BY <2>3, <2>4
  <2>6. QED
    BY <2>1, <2>5 DEF IndexExact, keys, map
<1>10. QED
  BY <1>7, <1>8, <1>9 DEF map

\* The index that CREATE INDEX fills is true and exact.
LEMMA BuiltSound ==
    ASSUME IInv, op = Idle, CanBuild
    PROVE  /\ Built \in Index /\ IndexTrue(Built, pages, table.page_ids, misled)
           /\ IndexExact(Built, pages, table.page_ids)
<1> DEFINE hits == Rows
           keyed == Keyed
           map == [k \in {hits[i].row.key : i \in keyed} |->
                      hits[CHOOSE i \in keyed : hits[i].row.key = k].id]
           height == IF keyed = {} THEN 0 ELSE 1
           built == [map |-> map, height |-> height]
<1>1. /\ Built = built
      /\ \A i, j \in keyed : hits[i].row.key = hits[j].row.key => i = j
  BY DEF Built, CanBuild
<1>2. /\ hits = Scan(pages, table.page_ids)
      /\ keyed = {i \in DOMAIN hits : hits[i].row.key # Null}
  BY DEF Rows, Keyed
<1> HIDE DEF hits
<1>3. built.map = map /\ height \in Nat
  OBVIOUS
<1> HIDE DEF built, height
<1>4. /\ map \in Maps /\ IndexTrue(built, pages, table.page_ids, misled)
      /\ IndexExact(built, pages, table.page_ids)
  <2>1. HeapSound(pages, table.page_ids)
    BY Facts
  <2>2. /\ \A i \in keyed : hits[i].row.key \in DOMAIN map /\ map[hits[i].row.key] = hits[i].id
        /\ \A k \in DOMAIN map : \E i \in keyed : k = hits[i].row.key
        /\ map = [k \in DOMAIN map |-> map[k]]
    <3> HIDE DEF keyed
    <3>1. QED
      BY <1>1, FilledMap
  <2>3. /\ keyed \in SUBSET DOMAIN hits
        /\ \A i \in DOMAIN hits : i \in keyed <=> hits[i].row.key # Null
    BY <1>2
  <2> HIDE DEF map, keyed
  <2>4. Fills(built.map, hits)
    BY <1>3, <2>2, <2>3 DEF Fills
  <2>5. QED
    BY <1>2, <1>3, <2>1, <2>4, BuiltIndex
<1>5. built \in Index
  <2> HIDE DEF map
  <2>1. QED
    BY <1>3, <1>4 DEF built, Index
<1>6. QED
  BY <1>1, <1>4, <1>5

\* CREATE INDEX adds an index that is filled from a scan.
LEMMA CreateIndexKeeps ==
    ASSUME IInv, CreateIndex
    PROVE  IInv'
<1> DEFINE built == Built
           indexes == Append(table.indexes, built)
<1>1. /\ op = Idle /\ op' = Idle /\ pages' = pages
      /\ diverged' = diverged /\ misled' = misled
      /\ table' = [table EXCEPT !.indexes = indexes]
      /\ stored' = Catalog(table') /\ CanBuild
  BY DEF CreateIndex, WithIndex
<1>2. /\ built \in Index /\ IndexTrue(built, pages, table.page_ids, misled)
      /\ IndexExact(built, pages, table.page_ids)
  BY <1>1, BuiltSound
<1> HIDE DEF built
<1>3. CurrentIds = table.page_ids
  BY <1>1 DEF CurrentIds
<1> DEFINE n == Len(table.indexes)
<1>4. n \in Nat /\ DOMAIN table.indexes = 1 .. n
  BY Facts
<1>5. /\ indexes \in Seq(Index) /\ DOMAIN indexes = 1 .. n + 1
      /\ \A i \in 1 .. n : indexes[i] = table.indexes[i]
      /\ indexes[n + 1] = built
  <2>1. table.indexes \in Seq(Index)
    BY Facts
  <2>2. /\ indexes \in Seq(Index) /\ Len(indexes) = n + 1
        /\ \A i \in 1 .. n : indexes[i] = table.indexes[i]
        /\ indexes[n + 1] = built
    BY <1>2, <2>1, AppendProperties
  <2>3. QED
    BY <2>2, LenProperties
<1> HIDE DEF indexes, n
<1>6. table' = [page_ids |-> table.page_ids, indexes |-> indexes]
      /\ table'.page_ids = table.page_ids /\ table'.indexes = indexes
  BY <1>1, Facts
<1>7. /\ table' \in [page_ids : Seq(Nat), indexes : Seq(Index)]
       /\ stored' \in CatalogEntry(DOMAIN table'.indexes)
       /\ stored'.page_ids = table.page_ids
       /\ stored'.revoked = <<>> /\ DOMAIN <<>> = {}
  <2>1. table' \in [page_ids : Seq(Nat), indexes : Seq(Index)]
    BY <1>5, <1>6, Facts
  <2>2. QED
    BY <1>1, <1>6, <2>1, CatalogTyped
<1>8. Typed'
  BY <1>1, <1>7 DEF IInv, Typed
<1>9. HeapSound(pages, table.page_ids)' /\ Extends(table.page_ids, stored.page_ids)'
  BY <1>1, <1>6, <1>7, Facts, ExtendsOrder
<1>10. \A i \in 1 .. n + 1 :
          /\ IndexTrue(indexes[i], pages, table.page_ids, misled)
          /\ ~diverged => IndexExact(indexes[i], pages, table.page_ids)
  <2>1. SUFFICES ASSUME NEW i \in 1 .. n + 1
                 PROVE  /\ IndexTrue(indexes[i], pages, table.page_ids, misled)
                        /\ ~diverged => IndexExact(indexes[i], pages, table.page_ids)
    OBVIOUS
  <2>2. CASE i = n + 1
    BY <1>2, <1>5, <2>2
  <2>3. CASE i # n + 1
    <3>1. i \in 1 .. n
      BY <1>4, <2>3
    <3>2. QED
      BY <1>3, <1>4, <1>5, <3>1 DEF IInv, EntriesTrue, EntriesExact
  <2>4. QED
    BY <2>2, <2>3
<1>11. (~diverged => stored = Catalog(table))'
  BY <1>1
<1>12. QED
  BY <1>1, <1>7, <1>5, <1>6, <1>8, <1>9, <1>10, <1>11, IdleInvariant

\* CREATE INDEX that is taken back leaves in the catalog page an index that is true.
LEMMA CreateIndexRevokedKeeps ==
    ASSUME IInv, CreateIndexRevoked
    PROVE  IInv'
<1> DEFINE revoked == <<Built>>
<1>1. /\ op = Idle /\ op' = Idle /\ pages' = pages /\ table' = table
      /\ diverged' = TRUE /\ misled' = misled /\ CanBuild
      /\ stored' = [Catalog(table) EXCEPT !.revoked = revoked]
  BY DEF CreateIndexRevoked
<1>2. CurrentIds = table.page_ids
  BY <1>1 DEF CurrentIds
<1>3. /\ revoked \in Seq(Index)
      /\ \A i \in DOMAIN revoked : IndexTrue(revoked[i], pages, table.page_ids, misled)
  BY <1>1, BuiltSound
<1> HIDE DEF revoked
<1>4. Catalog(table) \in CatalogEntry(DOMAIN table.indexes)
  BY Facts, CatalogTyped
<1>5. /\ stored' \in CatalogEntry(DOMAIN table.indexes)
      /\ stored'.page_ids = table.page_ids /\ stored'.revoked = revoked
  BY <1>1, <1>3, <1>4 DEF CatalogEntry, Catalog
<1>6. Typed'
  BY <1>1, <1>5 DEF IInv, Typed
<1>7. HeapSound(pages, table.page_ids)' /\ Extends(table.page_ids, stored.page_ids)'
  BY <1>1, <1>5, Facts, ExtendsOrder
<1>8. (\A i \in DOMAIN table.indexes :
          IndexTrue(table.indexes[i], pages, table.page_ids, misled))'
  BY <1>1, <1>2 DEF IInv, EntriesTrue
<1>9. QED
  BY <1>1, <1>3, <1>5, <1>6, <1>7, <1>8, IdleInvariant
----------------------------------------------------------------------------
\* A statement begins with a scan of the table that shows each row once, and has
\* changed none of them.
LEMMA BeginKeeps ==
    ASSUME IInv, NEW kind \in {"delete", "update"}, NEW match \in Predicates,
           NEW column, NEW value,
           op = Idle, op' = Running(kind, match, column, value),
           \/ kind = "delete" /\ column = "key" /\ value = Null
           \/ kind = "update" /\ column \in {"key", "text"} /\ value \in Values(column),
           UNCHANGED <<pages, table, stored, diverged, misled>>
    PROVE  IInv'
<1> DEFINE hits == Scan(pages, table.page_ids)
<1>1. /\ hits \in Seq(Hit)
      /\ \A i \in DOMAIN hits : /\ hits[i].id \in LiveIds(pages, table.page_ids)
                                /\ hits[i].row = RowAt(pages, hits[i].id)
      /\ \A i, j \in DOMAIN hits : hits[i].id = hits[j].id => i = j
      /\ \A id \in LiveIds(pages, table.page_ids) : \E i \in DOMAIN hits : hits[i].id = id
  <2>1. HeapSound(pages, table.page_ids)
    BY Facts
  <2>2. QED
    BY <2>1, ScanRows
<1>2. /\ op'.kind = kind /\ op'.scanned = hits /\ op'.ids = table.page_ids
      /\ op'.todo = {i \in DOMAIN hits : hits[i].row \in match}
      /\ op'.match = match /\ op'.column = column /\ op'.value = value
  BY DEF Running, Rows
<1>3. match \in SUBSET Row
  <2>1. \A row \in match : \E i \in DOMAIN hits : row = hits[i].row
    BY DEF Predicates, Rows
  <2> HIDE DEF hits
  <2>2. \A i \in DOMAIN hits : hits[i].row \in Row
    <3>1. \A i \in DOMAIN hits : hits[i] \in Hit
      BY <1>1, ElementOfSeq, LenProperties
    <3>2. QED
      BY <3>1 DEF Hit
  <2>3. QED
    BY <2>1, <2>2
<1> HIDE DEF hits
<1>4. DOMAIN hits = 1 .. Len(hits) /\ Len(hits) \in Nat
  BY <1>1, LenProperties
<1>5. op' \in Statements
  <2>1. op' = [kind |-> kind, scanned |-> hits, todo |-> op'.todo, ids |-> table.page_ids,
               match |-> match, column |-> column, value |-> value]
    BY <1>2 DEF Running, Rows, hits
  <2>2. op'.todo \in SUBSET Nat
    BY <1>2, <1>4
  <2>3. table.page_ids \in Seq(Nat)
    BY Facts
  <2>4. op' \in Statement({kind}, column, {value})
    BY <1>1, <1>3, <2>1, <2>2, <2>3 DEF Statement
  <2>5. QED
    BY <2>4 DEF Statements, Statement
<1>6. /\ op' # Idle /\ CurrentIds = table.page_ids /\ CurrentIds' = table.page_ids
  BY <1>2 DEF Idle, CurrentIds
<1>7. /\ pages' = pages /\ table' = table /\ stored' = stored
      /\ diverged' = diverged /\ misled' = misled
  OBVIOUS
<1>8. Typed'
  BY <1>5, <1>7 DEF IInv, Typed
<1>9. ListsSound'
  BY <1>2, <1>6, <1>7, Facts DEF ListsSound
<1>10. EntriesTrue' /\ EntriesExact'
  BY <1>6, <1>7 DEF IInv, EntriesTrue, EntriesExact
<1>11. CatalogTrue' /\ RevokedTrue'
  BY <1>6, <1>7 DEF IInv, CatalogTrue, RevokedTrue
<1>12. ScanTrue'
  BY <1>1, <1>2, <1>7 DEF ScanTrue, Standing
<1>13. RowsTraced'
  <2> DEFINE live == LiveIds(pages, table.page_ids)
  <2>1. \A i \in DOMAIN hits : SoFar(i)' = {hits[i].row}
    BY <1>2 DEF SoFar, Expected
  <2>2. Left' = DOMAIN hits
    BY <1>2, <2>1 DEF Left
  <2>3. PICK f \in [DOMAIN hits -> live] : \A i \in DOMAIN hits : f[i] = hits[i].id
    <3>1. [i \in DOMAIN hits |-> hits[i].id] \in [DOMAIN hits -> live]
      BY <1>1
    <3>2. QED
      BY <3>1
  <2>4. LiveIds(pages, op.ids)' = live
    BY <1>2, <1>7
  <2> HIDE DEF live
  <2>5. IsInjective(f)
    BY <1>1, <2>3 DEF IsInjective
  <2>6. \A id \in live : \E i \in DOMAIN hits : f[i] = id
    <3>1. ASSUME NEW id \in live
          PROVE  \E i \in DOMAIN hits : f[i] = id
      <4>1. PICK i \in DOMAIN hits : hits[i].id = id
        BY <1>1 DEF live
      <4>2. QED
        BY <2>3, <4>1
    <3>2. QED
      BY <3>1
  <2>7. \A i \in DOMAIN hits : RowAt(pages, f[i]) \in {hits[i].row}
    BY <1>1, <2>3
  <2>8. \A i \in Standing' : f[i] = op'.scanned[i].id
    BY <1>2, <2>3 DEF Standing
  <2>9. Traces(f)'
    BY <1>7, <2>1, <2>2, <2>3, <2>4, <2>5, <2>6, <2>7, <2>8 DEF Traces
  <2>10. QED
    BY <2>2, <2>3, <2>4, <2>9 DEF RowsTraced
<1>14. QED
  BY <1>8, <1>9, <1>10, <1>11, <1>12, <1>13 DEF IInv

\* The row a statement comes to next is one that it has found and not changed yet.
LEMMA NextFacts ==
    ASSUME IInv, op # Idle, op.todo # {}
    PROVE  LET m == Min(op.todo)
               h == NextRow
           IN  /\ m \in op.todo /\ m \in DOMAIN op.scanned /\ h = op.scanned[m]
               /\ h \in Hit /\ h.row \in op.match
               /\ m \in Standing
               /\ h.id \in LiveIds(pages, table.page_ids)
               /\ h.id \in LiveIds(pages, op.ids)
               /\ RowAt(pages, h.id) = h.row
<1> DEFINE m == Min(op.todo)
           h == NextRow
<1>1. op \in Statements
  BY DEF IInv, Typed
<1>2. op.todo \in SUBSET Nat /\ op.scanned \in Seq(Hit)
  BY <1>1 DEF Statements, Statement
<1>3. m \in op.todo
  <2>1. \E n \in op.todo : \A k \in op.todo : n <= k
    BY <1>2, SmallestOf
  <2>2. QED
    BY <2>1 DEF Min
<1> HIDE DEF m
<1>4. h = op.scanned[m]
  BY DEF NextRow, m
<1>5. m \in DOMAIN op.scanned /\ op.scanned[m].row \in op.match
  BY <1>3 DEF IInv, ScanTrue
<1>6. op.scanned[m] \in Hit
  BY <1>2, <1>5, ElementOfSeq, LenProperties
<1>7. m \in Standing
  BY <1>3, <1>5 DEF Standing
<1>8. /\ op.scanned[m].id \in LiveIds(pages, table.page_ids)
      /\ RowAt(pages, op.scanned[m].id) = op.scanned[m].row
  BY <1>7 DEF IInv, ScanTrue
<1>9. LiveIds(pages, table.page_ids) \subseteq LiveIds(pages, op.ids)
  BY Facts, ShorterLive
<1>10. QED
  BY <1>3, <1>4, <1>5, <1>6, <1>7, <1>8, <1>9 DEF m

\* A statement that has changed its next row and goes on.
Advanced(come, row) ==
    /\ op # Idle /\ op' # Idle /\ op.todo # {}
    /\ Change(pages, op.ids, {NextRow.id}, come, row, pages', op'.ids)
    /\ op'.scanned = op.scanned /\ op'.todo = op.todo \ {Min(op.todo)}
    /\ op'.match = op.match /\ op'.kind = op.kind
    /\ op'.column = op.column /\ op'.value = op.value
    /\ table'.page_ids = table.page_ids

\* The rows that are left to change, and those the statement does not match, are
\* still where the scan has found them.
LEMMA ScanKept ==
    ASSUME IInv, NEW come, NEW row, Advanced(come, row)
    PROVE  ScanTrue' /\ Standing' = Standing \ {Min(op.todo)}
<1> DEFINE m == Min(op.todo)
           h == NextRow
<1>1. /\ m \in op.todo /\ m \in DOMAIN op.scanned /\ h = op.scanned[m]
      /\ h.row \in op.match
      /\ h.id \in LiveIds(pages, table.page_ids)
  BY NextFacts DEF Advanced
<1>2. /\ op'.scanned = op.scanned /\ op'.todo = op.todo \ {m} /\ op'.match = op.match
      /\ table'.page_ids = table.page_ids
      /\ Change(pages, op.ids, {h.id}, come, row, pages', op'.ids)
  BY DEF Advanced
<1> HIDE DEF m, h
<1>3. /\ op.todo \subseteq {i \in DOMAIN op.scanned : op.scanned[i].row \in op.match}
      /\ \A i \in Standing : /\ op.scanned[i].id \in LiveIds(pages, table.page_ids)
                             /\ RowAt(pages, op.scanned[i].id) = op.scanned[i].row
      /\ \A i, j \in DOMAIN op.scanned : op.scanned[i].id = op.scanned[j].id => i = j
  BY DEF IInv, ScanTrue, Advanced
<1>4. Standing' = Standing \ {m}
  BY <1>1, <1>2 DEF Standing
<1>5. ASSUME NEW i \in Standing \ {m}
      PROVE  /\ op.scanned[i].id \in LiveIds(pages', table.page_ids)
             /\ RowAt(pages', op.scanned[i].id) = op.scanned[i].row
  <2> DEFINE id == op.scanned[i].id
  <2>1. id # h.id
    BY <1>1, <1>3 DEF Standing
  <2>2. id \in LiveIds(pages, table.page_ids) \ {h.id} /\ RowAt(pages, id) = op.scanned[i].row
    BY <1>3, <2>1
  <2>3. /\ HeapSound(pages, op.ids) /\ table.page_ids \in Seq(Nat)
        /\ Extends(op.ids, table.page_ids)
    BY Facts DEF Advanced
  <2> HIDE DEF id
  <2>4. id \in LiveIds(pages', table.page_ids) /\ RowAt(pages', id) = RowAt(pages, id)
    BY <1>2, <2>2, <2>3, StandsKept
  <2>5. QED
    BY <2>2, <2>4 DEF id
<1>6. ScanTrue'
  BY <1>2, <1>3, <1>4, <1>5 DEF ScanTrue
<1>7. QED
  BY <1>4, <1>6 DEF m

\* What is left of the rows of the scan goes on being the rows of the table: the
\* next row is gone, or is the one that came.
LEMMA TracesKept ==
    ASSUME IInv, NEW come, NEW row, Advanced(come, row),
           \/ come = {} /\ Expected(NextRow) = {}
           \/ \E id : come = {id} /\ Expected(NextRow) = {row}
    PROVE  RowsTraced'
<1>1. PICK m, h, E : m = Min(op.todo) /\ h = NextRow /\ E = Expected(NextRow)
  OBVIOUS
<1> DEFINE live == LiveIds(pages, op.ids)
           later == LiveIds(pages', op'.ids)
<1>2. /\ m \in op.todo /\ m \in DOMAIN op.scanned /\ h = op.scanned[m]
      /\ m \in Standing /\ RowAt(pages, h.id) = h.row
  BY <1>1, NextFacts DEF Advanced
<1>3. /\ op'.scanned = op.scanned /\ op'.todo = op.todo \ {m} /\ op'.match = op.match
      /\ op'.kind = op.kind /\ op'.column = op.column /\ op'.value = op.value
      /\ Change(pages, op.ids, {h.id}, come, row, pages', op'.ids)
      /\ op' # Idle
  BY <1>1 DEF Advanced
<1>4. PICK c : come # {} => c \in come
  OBVIOUS
<1>5. /\ come = {} <=> E = {}
      /\ \A id \in come : id = c /\ row \in E
  BY <1>1, <1>4
<1>6. PICK f \in [Left -> live] : Traces(f)
  BY DEF IInv, RowsTraced, Advanced
<1>7. /\ IsInjective(f) /\ \A id \in live : \E i \in Left : f[i] = id
      /\ \A i \in Left : RowAt(pages, f[i]) \in SoFar(i)
      /\ \A i \in Standing : f[i] = op.scanned[i].id
  BY <1>6 DEF Traces
<1>8. SoFar(m) = {h.row} /\ m \in Left
  BY <1>2 DEF SoFar, Left
<1>9. \A x : Expected(x)' = Expected(x)
  BY <1>3 DEF Expected, NewRow
<1>10. /\ \A i \in DOMAIN op.scanned \ {m} : SoFar(i)' = SoFar(i)
      /\ SoFar(m)' = E
  BY <1>1, <1>2, <1>3, <1>9 DEF SoFar
<1>11. \A i : i \in Left' <=> (i \in Left /\ i # m) \/ (i = m /\ E # {})
  BY <1>2, <1>3, <1>8, <1>10 DEF Left
<1>12. f[m] = h.id /\ \A i \in Left : i # m => f[i] # h.id
  BY <1>2, <1>7, <1>8 DEF IsInjective
<1>13. HeapSound(pages, op.ids)
  BY Facts DEF Advanced
<1>14. /\ later = (live \ {h.id}) \cup come
       /\ \A id \in live \ {h.id} : RowAt(pages', id) = RowAt(pages, id)
       /\ \A id \in come : RowAt(pages', id) = row
       /\ \A id \in come : id \notin live \ {h.id}
  <2>1. \A id \in live : IsSlot(pages, id)
    BY <1>13, LiveSlots
  <2>2. QED
    BY <1>3, <2>1 DEF Change
<1> HIDE DEF live, later
<1>15. PICK g : /\ DOMAIN g = Left' /\ g = [i \in Left' |-> g[i]]
                /\ \A i \in Left' : g[i] = IF i = m THEN c ELSE f[i]
  <2> DEFINE new == [i \in Left' |-> IF i = m THEN c ELSE f[i]]
  <2>1. /\ DOMAIN new = Left' /\ new = [i \in Left' |-> new[i]]
        /\ \A i \in Left' : new[i] = IF i = m THEN c ELSE f[i]
    OBVIOUS
  <2> HIDE DEF new
  <2>2. QED
    BY <2>1
<1>16. ASSUME NEW i \in Left'
       PROVE  \/ i = m /\ g[i] = c /\ c \in come /\ row \in E
              \/ i # m /\ i \in Left /\ g[i] = f[i] /\ f[i] \in live \ {h.id}
  BY <1>4, <1>5, <1>6, <1>11, <1>12, <1>15
<1>17. g \in [Left' -> later]
  BY <1>14, <1>15, <1>16
<1>18. IsInjective(g)
  <2>1. SUFFICES ASSUME NEW i \in Left', NEW j \in Left', g[i] = g[j]
                 PROVE  i = j
    BY <1>15 DEF IsInjective
  <2>2. CASE i # m /\ j # m
    BY <1>6, <1>7, <1>16, <2>1, <2>2 DEF IsInjective
  <2>3. CASE i = m \/ j = m
    BY <1>14, <1>16, <2>1, <2>3
  <2>4. QED
    BY <2>2, <2>3
<1>19. ASSUME NEW id \in later
       PROVE  \E i \in Left' : g[i] = id
  <2>1. CASE id \in come
    BY <1>5, <1>11, <1>15, <2>1
  <2>2. CASE id \in live \ {h.id}
    <3>1. PICK i \in Left : f[i] = id
      BY <1>7, <2>2
    <3>2. i # m
      BY <1>12, <2>2, <3>1
    <3>3. QED
      BY <1>11, <1>15, <3>1, <3>2
  <2>3. QED
    BY <1>14, <2>1, <2>2
<1>20. ASSUME NEW i \in Left'
       PROVE  RowAt(pages', g[i]) \in SoFar(i)'
  <2>1. CASE i = m
    BY <1>10, <1>14, <1>16, <2>1
  <2>2. CASE i # m
    <3>1. i \in DOMAIN op.scanned
      BY <1>16, <2>2 DEF Left
    <3>2. QED
      BY <1>7, <1>10, <1>14, <1>16, <2>2, <3>1
  <2>3. QED
    BY <2>1, <2>2
<1>21. ASSUME NEW i \in Standing'
       PROVE  i \in Left' /\ g[i] = op'.scanned[i].id
  <2>1. i \in Standing /\ i # m
    BY <1>1, ScanKept
  <2>2. i \in Left
    BY <2>1 DEF Standing, Left, SoFar, Expected
  <2>3. QED
    BY <1>3, <1>7, <1>11, <1>15, <2>1, <2>2
<1>22. Traces(g)'
  BY <1>17, <1>18, <1>19, <1>20, <1>21 DEF Traces, later
<1>23. QED
  BY <1>17, <1>22 DEF RowsTraced, later
----------------------------------------------------------------------------
\* An index that gives up the key of a row that is deleted.
LEMMA ErasedKept ==
    ASSUME NEW pgs, NEW ids, HeapSound(pgs, ids), NEW g \in LiveIds(pgs, ids),
           NEW row \in Row, NEW new, NEW longer,
           Change(pgs, ids, {g}, {}, row, new, longer),
           NEW lost, NEW index \in Index, IndexTrue(index, pgs, ids, lost), NEW k,
           k = RowAt(pgs, g).key
    PROVE  /\ IndexTrue(Erase(index, k), new, longer, lost)
           /\ IndexExact(index, pgs, ids) => IndexExact(Erase(index, k), new, longer)
<1> DEFINE next == Erase(index, k)
           gone == {g}
           come == {}
<1>1. /\ DOMAIN next.map = DOMAIN index.map \ {k}
      /\ \A x \in DOMAIN next.map : next.map[x] = index.map[x]
  BY ErasedIndex
<1>2. /\ gone \in SUBSET LiveIds(pgs, ids)
      /\ Change(pgs, ids, gone, come, row, new, longer)
  OBVIOUS
<1>3. come = {} /\ \A x : x \in gone <=> x = g
  OBVIOUS
<1> HIDE DEF next, gone, come
<1>4. IndexTrue(next, new, longer, lost)
  <2>1. \A x \in DOMAIN next.map :
           \/ /\ x \in DOMAIN index.map /\ next.map[x] = index.map[x]
              /\ next.map[x] \in come => row.key = x \/ next.map[x] \in lost
           \/ row.key = x /\ next.map[x] \in come
    BY <1>1, <1>3
  <2>2. lost \subseteq lost
    OBVIOUS
  <2>3. QED
    BY <1>2, <2>1, <2>2, TrueKept
<1>5. ASSUME IndexExact(index, pgs, ids)
      PROVE  IndexExact(next, new, longer)
  <2> DEFINE D == DOMAIN next.map
  <2>1. Adjusted(index, next, D, pgs, gone, come, row)
    BY <1>1, <1>3 DEF Adjusted
  <2> HIDE DEF D
  <2>2. QED
    BY <1>2, <1>5, <2>1, ExactKept
<1>6. QED
  BY <1>4, <1>5 DEF next

\* An index that gives up the key of a row and takes the key of the row that
\* replaces it, which no other row has.
LEMMA ReindexedKept ==
    ASSUME NEW pgs, NEW ids, HeapSound(pgs, ids), NEW g \in LiveIds(pgs, ids),
           NEW row \in Row, NEW id, NEW new, NEW longer,
           Change(pgs, ids, {g}, {id}, row, new, longer),
           NEW lost, NEW index \in Index, IndexTrue(index, pgs, ids, lost), NEW k,
           k = RowAt(pgs, g).key, NEW grow \in BOOLEAN
    PROVE  LET next == Reindexed(index, k, row.key, id, grow)
           IN  /\ next \in Index
               /\ IndexTrue(next, new, longer, lost)
               /\ IndexExact(index, pgs, ids)
                  /\ (row.key \in {k, Null} \/ row.key \notin DOMAIN index.map) =>
                        IndexExact(next, new, longer)
<1> DEFINE next == Reindexed(index, k, row.key, id, grow)
           gone == {g}
           come == {id}
           less == Erase(index, k)
<1>1. /\ less \in Index
      /\ DOMAIN less.map = DOMAIN index.map \ {k}
      /\ \A x \in DOMAIN less.map : less.map[x] = index.map[x]
  BY ErasedIndex
<1>2. /\ gone \in SUBSET LiveIds(pgs, ids)
      /\ Change(pgs, ids, gone, come, row, new, longer)
      /\ come # {} /\ \A x : x \in come <=> x = id
      /\ \A x : x \in gone <=> x = g
  OBVIOUS
<1>3. row.key \in Key \cup {Null} /\ id \in RowId /\ (id = g \/ ~IsSlot(pgs, id))
  BY <1>2 DEF Change, Row
<1>4. next = Put(less, row.key, id, grow)
  BY DEF Reindexed
<1> HIDE DEF next, gone, come, less
<1>5. /\ next \in Index
      /\ DOMAIN next.map = DOMAIN less.map \cup ({row.key} \ {Null})
      /\ row.key # Null => next.map[row.key] = id
      /\ \A x \in DOMAIN less.map \ {row.key} : next.map[x] = less.map[x]
  BY <1>1, <1>3, <1>4, PutIndex DEF HasPut
<1>6. Null \notin DOMAIN index.map
  BY MapParts DEF Index
<1>7. IndexTrue(next, new, longer, lost)
  <2>1. ASSUME NEW x \in DOMAIN index.map, x # k, index.map[x] = id
        PROVE  id \in lost
    BY <1>3, <2>1 DEF IndexTrue
  <2>2. \A x \in DOMAIN next.map :
           \/ /\ x \in DOMAIN index.map /\ next.map[x] = index.map[x]
              /\ next.map[x] \in come => row.key = x \/ next.map[x] \in lost
           \/ row.key = x /\ next.map[x] \in come
    BY <1>1, <1>2, <1>5, <1>6, <2>1
  <2>3. lost \subseteq lost
    OBVIOUS
  <2>4. QED
    BY <1>2, <2>2, <2>3, TrueKept
<1>8. ASSUME IndexExact(index, pgs, ids),
             row.key \in {k, Null} \/ row.key \notin DOMAIN index.map
      PROVE  IndexExact(next, new, longer)
  <2> DEFINE D == DOMAIN less.map
  <2>1. row.key \notin D
    BY <1>1, <1>6, <1>8
  <2>2. Adjusted(index, next, D, pgs, gone, come, row)
    BY <1>1, <1>2, <1>5, <2>1 DEF Adjusted
  <2> HIDE DEF D
  <2>3. QED
    BY <1>2, <1>8, <2>2, ExactKept
<1>9. QED
  BY <1>5, <1>7, <1>8 DEF next
----------------------------------------------------------------------------
\* A statement that goes on is the one that ran, with a row less to do.
LEMMA PastRowFacts ==
    ASSUME op \in Statements, NEW ids \in Seq(Nat)
    PROVE  LET next == [PastRow EXCEPT !.ids = ids]
           IN  /\ next \in Statements /\ next # Idle
               /\ next.kind = op.kind /\ next.scanned = op.scanned
               /\ next.todo = op.todo \ {Min(op.todo)} /\ next.ids = ids
               /\ next.match = op.match /\ next.column = op.column /\ next.value = op.value
<1> DEFINE next == [PastRow EXCEPT !.ids = ids]
<1>1. PICK kinds \in {{"delete"}, {"update"}}, column \in {"key", "text"},
           values \in {{Null}, Values("key"), Values("text")} :
              /\ op \in Statement(kinds, column, values)
              /\ Statement(kinds, column, values) \subseteq Statements
  BY DEF Statements
<1> DEFINE todo == op.todo \ {Min(op.todo)}
<1>2. op.todo \in SUBSET Nat
  BY <1>1 DEF Statement
<1>3. todo \in SUBSET Nat
  BY <1>2
<1>4. op = [kind |-> op.kind, scanned |-> op.scanned, todo |-> op.todo, ids |-> op.ids,
            match |-> op.match, column |-> op.column, value |-> op.value]
  BY <1>1 DEF Statement
<1>5. PastRow = [op EXCEPT !.todo = todo]
  BY DEF PastRow
<1> HIDE DEF todo
<1>6. next = [kind |-> op.kind, scanned |-> op.scanned, todo |-> todo, ids |-> ids,
              match |-> op.match, column |-> op.column, value |-> op.value]
  <2>1. PastRow = [kind |-> op.kind, scanned |-> op.scanned, todo |-> todo, ids |-> op.ids,
                   match |-> op.match, column |-> op.column, value |-> op.value]
    BY <1>4, <1>5
  <2>2. QED
    BY <2>1
<1> HIDE DEF next
<1>7. next \in Statement(kinds, column, values)
  <2>1. /\ op.kind \in kinds /\ op.scanned \in Seq(Hit) /\ op.match \in SUBSET Row
        /\ op.column \in {column} /\ op.value \in values
    BY <1>1 DEF Statement
  <2>2. QED
    BY <1>3, <1>6, <2>1 DEF Statement
<1>8. next # Idle
  <2>1. next.kind # "idle"
    BY <1>7 DEF Statement
  <2>2. QED
    BY <2>1 DEF Idle
<1>9. QED
  BY <1>1, <1>6, <1>7, <1>8 DEF todo, next

\* DELETE takes the next row out of the indexes and out of the heap.
LEMMA DeleteRowKeeps ==
    ASSUME IInv, DeleteRow
    PROVE  IInv'
<1> DEFINE h == NextRow
           k == h.row.key
           indexes == [i \in DOMAIN table.indexes |-> Erase(table.indexes[i], k)]
<1>1. /\ op.kind = "delete" /\ op.todo # {} /\ op' = PastRow
      /\ pages' = Deleted(pages, h.id)
      /\ table' = [table EXCEPT !.indexes = indexes]
      /\ stored' = stored /\ diverged' = diverged /\ misled' = misled
  BY DEF DeleteRow
<1>2. /\ op # Idle /\ CurrentIds = op.ids /\ op.ids = table.page_ids /\ op \in Statements
  <2>1. op # Idle
    BY <1>1, Facts
  <2>2. QED
    BY <1>1, <2>1, Facts DEF IInv, ListsSound, Typed
<1>3. /\ h \in Hit /\ h.id \in LiveIds(pages, op.ids) /\ RowAt(pages, h.id) = h.row
  BY <1>1, <1>2, NextFacts
<1> HIDE DEF h
<1>4. h.row \in Row /\ k = RowAt(pages, h.id).key
  BY <1>3 DEF Hit
<1>5. HeapSound(pages, op.ids) /\ op.ids \in Seq(Nat)
  BY <1>2, Facts
<1>6. Change(pages, op.ids, {h.id}, {}, h.row, pages', op.ids)
  BY <1>1, <1>3, <1>5, DeletedChange
<1>7. /\ op' \in Statements /\ op' # Idle
      /\ op'.kind = op.kind /\ op'.scanned = op.scanned
      /\ op'.todo = op.todo \ {Min(op.todo)} /\ op'.ids = op.ids
      /\ op'.match = op.match /\ op'.column = op.column /\ op'.value = op.value
  <2>1. op' = [PastRow EXCEPT !.ids = op.ids]
    BY <1>1, <1>2 DEF PastRow, Statements, Statement
  <2>2. QED
    BY <1>2, <1>5, <2>1, PastRowFacts
<1> HIDE DEF k
<1>8. \A i \in DOMAIN table.indexes :
         /\ indexes[i] \in Index /\ indexes[i].height = table.indexes[i].height
         /\ IndexTrue(indexes[i], pages', op.ids, misled)
         /\ ~diverged => IndexExact(indexes[i], pages', op.ids)
  <2>1. SUFFICES ASSUME NEW i \in DOMAIN table.indexes
                 PROVE  /\ indexes[i] \in Index /\ indexes[i].height = table.indexes[i].height
                        /\ IndexTrue(indexes[i], pages', op.ids, misled)
                        /\ ~diverged => IndexExact(indexes[i], pages', op.ids)
    OBVIOUS
  <2> DEFINE index == table.indexes[i]
  <2>2. /\ index \in Index /\ IndexTrue(index, pages, op.ids, misled)
        /\ ~diverged => IndexExact(index, pages, op.ids)
    BY <1>2, Facts DEF IInv, EntriesTrue, EntriesExact
  <2>3. indexes[i] = Erase(index, k)
    OBVIOUS
  <2> HIDE DEF index, indexes
  <2>4. Erase(index, k) \in Index /\ Erase(index, k).height = index.height
    BY <2>2, ErasedIndex
  <2>5. /\ IndexTrue(Erase(index, k), pages', op.ids, misled)
        /\ IndexExact(index, pages, op.ids) => IndexExact(Erase(index, k), pages', op.ids)
    BY <1>3, <1>4, <1>5, <1>6, <2>2, ErasedKept
  <2>6. QED
    BY <2>2, <2>3, <2>4, <2>5 DEF index
<1>9. indexes \in Seq(Index) /\ DOMAIN indexes = DOMAIN table.indexes
  <2>1. indexes = [i \in DOMAIN table.indexes |-> indexes[i]]
    OBVIOUS
  <2> HIDE DEF indexes
  <2>2. QED
    BY <1>8, <2>1, Facts, IndexList
<1> HIDE DEF indexes
<1>10. /\ table' = [page_ids |-> table.page_ids, indexes |-> indexes]
       /\ table'.page_ids = table.page_ids /\ table'.indexes = indexes
       /\ table' \in [page_ids : Seq(Nat), indexes : Seq(Index)]
  BY <1>1, <1>9, Facts
<1>11. Advanced({}, h.row)
  BY <1>1, <1>2, <1>6, <1>7, <1>10 DEF Advanced, h
<1>12. ScanTrue' /\ RowsTraced'
  <2>1. Expected(NextRow) = {}
    BY <1>1, <1>2, NextFacts DEF Expected
  <2>2. QED
    BY <1>11, <2>1, ScanKept, TracesKept
<1>13. Typed'
  BY <1>1, <1>7, <1>9, <1>10 DEF IInv, Typed
<1>14. CurrentIds' = op.ids
  BY <1>7 DEF CurrentIds
<1>15. ListsSound'
  BY <1>1, <1>2, <1>5, <1>6, <1>7, <1>10, <1>14, Facts DEF ListsSound, Change
<1>16. EntriesTrue' /\ EntriesExact'
  BY <1>1, <1>8, <1>9, <1>10, <1>14 DEF EntriesTrue, EntriesExact
<1>17. RevokedTrue'
  <2> DEFINE gone == {h.id}
             come == {}
             row == h.row
  <2>1. Change(pages, op.ids, gone, come, row, pages', op.ids) /\ row \in Row
    BY <1>4, <1>6
  <2>2. \A i \in DOMAIN stored.revoked :
           /\ IndexTrue(stored.revoked[i], pages, op.ids, misled)
           /\ \A x \in DOMAIN stored.revoked[i].map :
                 stored.revoked[i].map[x] \in come => stored.revoked[i].map[x] \in misled
    BY <1>2, RevokedFacts
  <2>3. misled \subseteq misled
    OBVIOUS
  <2> HIDE DEF gone, come, row
  <2>4. \A i \in DOMAIN stored.revoked : IndexTrue(stored.revoked[i], pages', op.ids, misled)
    BY <1>5, <2>1, <2>2, <2>3, SameKept
  <2>5. QED
    BY <1>1, <1>14, <2>4 DEF RevokedTrue
<1>18. CatalogTrue'
  <2>1. Catalog(table)' = Catalog(table)
    BY <1>8, <1>9, <1>10 DEF Catalog
  <2>2. QED
    BY <1>1, <1>7, <2>1 DEF IInv, CatalogTrue
<1>19. QED
  BY <1>12, <1>13, <1>15, <1>16, <1>17, <1>18 DEF IInv

\* DELETE that is interrupted has taken the row out of some of the indexes.
LEMMA DeleteInterruptedKeeps ==
    ASSUME IInv, DeleteInterrupted
    PROVE  IInv'
<1> DEFINE k == NextRow.row.key
<1>1. /\ op.kind = "delete" /\ op.todo # {} /\ op' = Idle /\ pages' = pages
      /\ stored' = stored /\ misled' = misled /\ ~diverged /\ diverged' = (table' # table)
  BY DEF DeleteInterrupted, Interrupted
<1>2. PICK i \in 1 .. Len(table.indexes) + 1 :
             table' = [table EXCEPT !.indexes =
                          [j \in DOMAIN @ |-> IF j < i THEN Erase(@[j], k) ELSE @[j]]]
  BY DEF DeleteInterrupted
<1> DEFINE indexes == [j \in DOMAIN table.indexes |->
                          IF j < i THEN Erase(table.indexes[j], k) ELSE table.indexes[j]]
<1>3. CurrentIds = table.page_ids
  BY <1>1, Facts DEF IInv, ListsSound
<1> HIDE DEF k
<1>4. \A j \in DOMAIN table.indexes :
         /\ indexes[j] \in Index
         /\ IndexTrue(indexes[j], pages, table.page_ids, misled)
  <2>1. SUFFICES ASSUME NEW j \in DOMAIN table.indexes
                 PROVE  /\ indexes[j] \in Index
                        /\ IndexTrue(indexes[j], pages, table.page_ids, misled)
    OBVIOUS
  <2> DEFINE index == table.indexes[j]
             next == indexes[j]
  <2>2. index \in Index /\ IndexTrue(index, pages, table.page_ids, misled)
    BY <1>3, Facts DEF IInv, EntriesTrue
  <2>3. next = Erase(index, k) \/ next = index
    OBVIOUS
  <2> HIDE DEF index, next
  <2>4. /\ next \in Index
        /\ \A x \in DOMAIN next.map : x \in DOMAIN index.map /\ next.map[x] = index.map[x]
    BY <2>2, <2>3, ErasedIndex
  <2>5. /\ HeapSound(pages, table.page_ids) /\ table.page_ids \in Seq(Nat)
        /\ Extends(table.page_ids, table.page_ids)
    BY Facts, ExtendsOrder
  <2>6. IndexTrue(next, pages, table.page_ids, misled)
    BY <2>2, <2>4, <2>5, TrueShorter
  <2>7. QED
    BY <2>4, <2>6 DEF next
<1>5. indexes \in Seq(Index) /\ DOMAIN indexes = DOMAIN table.indexes
  <2>1. indexes = [j \in DOMAIN table.indexes |-> indexes[j]]
    OBVIOUS
  <2> HIDE DEF indexes
  <2>2. QED
    BY <1>4, <2>1, Facts, IndexList
<1>6. table' = [table EXCEPT !.indexes = indexes]
  BY <1>2
<1> HIDE DEF indexes
<1>7. /\ table' = [page_ids |-> table.page_ids, indexes |-> indexes]
      /\ table'.page_ids = table.page_ids /\ table'.indexes = indexes
      /\ table' \in [page_ids : Seq(Nat), indexes : Seq(Index)]
  BY <1>5, <1>6, Facts
<1>8. Typed'
  <2>1. diverged' \in BOOLEAN /\ misled' = {}
    BY <1>1 DEF IInv, Typed
  <2>2. QED
    BY <1>1, <1>5, <1>7, <2>1 DEF IInv, Typed
<1>9. HeapSound(pages, table.page_ids)' /\ Extends(table.page_ids, stored.page_ids)'
  BY <1>1, <1>7, Facts
<1>10. (~diverged => \A j \in DOMAIN table.indexes :
              IndexExact(table.indexes[j], pages, table.page_ids))'
  BY <1>1, <1>3 DEF IInv, EntriesExact
<1>11. (~diverged => stored = Catalog(table))'
  BY <1>1 DEF IInv, CatalogTrue
<1>12. (\A j \in DOMAIN stored.revoked :
           IndexTrue(stored.revoked[j], pages, table.page_ids, misled))'
  BY <1>1, RevokedFacts
<1>13. QED
  BY <1>1, <1>12, <1>4, <1>5, <1>7, <1>8, <1>9, <1>10, <1>11, IdleInvariant
----------------------------------------------------------------------------
\* The replacement of a row is a row.
LEMMA NewRowTyped ==
    ASSUME op \in Statements, op.kind = "update", NEW h \in Hit
    PROVE  NewRow(h) \in Row
<1>1. h.row = [key |-> h.row.key, text |-> h.row.text]
      /\ h.row.key \in Key \cup {Null} /\ h.row.text \in Text
  BY DEF Hit, Row
<1>2. \/ op.column = "key" /\ op.value \in Values("key")
      \/ op.column = "text" /\ op.value \in Values("text")
  BY DEF Statements, Statement
<1>3. CASE op.column = "key" /\ op.value \in Values("key")
  <2>1. op.value \in Key \cup {Null}
    BY <1>3 DEF Values
  <2>2. NewRow(h) = [key |-> op.value, text |-> h.row.text]
    BY <1>1, <1>3 DEF NewRow
  <2>3. QED
    BY <1>1, <2>1, <2>2 DEF Row
<1>4. CASE op.column = "text" /\ op.value \in Values("text")
  <2>1. op.value \in Text
    BY <1>4 DEF Values
  <2>2. NewRow(h) = [key |-> h.row.key, text |-> op.value]
    BY <1>1, <1>4 DEF NewRow
  <2>3. QED
    BY <1>1, <2>1, <2>2 DEF Row
<1>5. QED
  BY <1>2, <1>3, <1>4

\* UPDATE puts the next row's replacement into the heap and into the indexes.
LEMMA UpdateRowKeeps ==
    ASSUME IInv, NEW grow \in BOOLEAN, UpdateRow(grow)
    PROVE  IInv'
<1> DEFINE h == NextRow
           k == h.row.key
           row == NewRow(h)
           new == Updated(pages, op.ids, h.id, row)
           indexes == [i \in DOMAIN table.indexes |->
                          Reindexed(table.indexes[i], k, row.key, new.id, grow)]
<1>1. /\ op.kind = "update" /\ op.todo # {} /\ op' = [PastRow EXCEPT !.ids = new.ids]
      /\ pages' = new.pages
      /\ table' = [table EXCEPT !.indexes = indexes]
      /\ stored' = stored /\ diverged' = diverged
      /\ misled' = misled \cup IF stored.revoked = <<>> THEN {} ELSE {h.id}
      /\ ~Stuck(h)
  BY DEF UpdateRow
<1>2. /\ op # Idle /\ CurrentIds = op.ids /\ op \in Statements
  <2>1. op # Idle
    BY <1>1, Facts
  <2>2. QED
    BY <1>1, <2>1, Facts DEF IInv, Typed
<1>3. /\ h \in Hit /\ h.id \in LiveIds(pages, op.ids) /\ RowAt(pages, h.id) = h.row
      /\ h.row \in op.match
  BY <1>1, <1>2, NextFacts
<1>4. /\ row.key \in {k, Null} \/ ~Indexed(row.key)
      /\ StaysInPlace(pages, h.id, row) \/ ~TooLarge(row)
  BY <1>1 DEF Stuck
<1>5. Expected(NextRow) = {row}
  BY <1>1, <1>3 DEF Expected
<1> HIDE DEF h
<1>6. row \in Row /\ k = RowAt(pages, h.id).key
  BY <1>1, <1>2, <1>3, NewRowTyped
<1>7. HeapSound(pages, op.ids) /\ op.ids \in Seq(Nat)
  BY <1>2, Facts
<1> HIDE DEF row, k
<1>8. Change(pages, op.ids, {h.id}, {new.id}, row, new.pages, new.ids)
  BY <1>3, <1>4, <1>6, <1>7, UpdatedChange
<1> HIDE DEF new
<1>9. /\ new.ids \in Seq(Nat) /\ HeapSound(new.pages, new.ids)
      /\ Extends(new.ids, table.page_ids)
  <2>1. table.page_ids \in Seq(Nat) /\ Extends(op.ids, table.page_ids)
    BY <1>2, Facts
  <2>2. QED
    BY <1>7, <1>8, <2>1, ListsKept
<1>10. /\ op' \in Statements /\ op' # Idle
       /\ op'.kind = op.kind /\ op'.scanned = op.scanned
       /\ op'.todo = op.todo \ {Min(op.todo)} /\ op'.ids = new.ids
       /\ op'.match = op.match /\ op'.column = op.column /\ op'.value = op.value
  BY <1>1, <1>2, <1>9, PastRowFacts
<1>11. \A i \in DOMAIN table.indexes :
          /\ indexes[i] \in Index
          /\ IndexTrue(indexes[i], new.pages, new.ids, misled)
          /\ ~diverged => IndexExact(indexes[i], new.pages, new.ids)
  <2>1. SUFFICES ASSUME NEW i \in DOMAIN table.indexes
                 PROVE  /\ indexes[i] \in Index
                        /\ IndexTrue(indexes[i], new.pages, new.ids, misled)
                        /\ ~diverged => IndexExact(indexes[i], new.pages, new.ids)
    OBVIOUS
  <2> DEFINE index == table.indexes[i]
             next == indexes[i]
             id == new.id
  <2>2. /\ index \in Index /\ IndexTrue(index, pages, op.ids, misled)
        /\ ~diverged => IndexExact(index, pages, op.ids)
    BY <1>2, Facts DEF IInv, EntriesTrue, EntriesExact
  <2>3. row.key \in {k, Null} \/ row.key \notin DOMAIN index.map
    BY <1>4 DEF Indexed
  <2>4. next = Reindexed(index, k, row.key, id, grow)
    OBVIOUS
  <2>5. Change(pages, op.ids, {h.id}, {id}, row, new.pages, new.ids)
    BY <1>8
  <2> HIDE DEF index, next, id
  <2> DEFINE done == Reindexed(index, k, row.key, id, grow)
  <2>6. /\ done \in Index /\ IndexTrue(done, new.pages, new.ids, misled)
        /\ IndexExact(index, pages, op.ids)
           /\ (row.key \in {k, Null} \/ row.key \notin DOMAIN index.map) =>
                 IndexExact(done, new.pages, new.ids)
    BY <1>3, <1>6, <1>7, <2>2, <2>5, ReindexedKept
  <2> HIDE DEF done
  <2>7. next = done
    BY <2>4 DEF done
  <2>8. QED
    BY <2>2, <2>3, <2>6, <2>7 DEF next
<1>12. indexes \in Seq(Index) /\ DOMAIN indexes = DOMAIN table.indexes
  <2>1. indexes = [i \in DOMAIN table.indexes |-> indexes[i]]
    OBVIOUS
  <2> HIDE DEF indexes
  <2>2. QED
    BY <1>11, <2>1, Facts, IndexList
<1> HIDE DEF indexes
<1>13. /\ table' = [page_ids |-> table.page_ids, indexes |-> indexes]
       /\ table'.page_ids = table.page_ids /\ table'.indexes = indexes
       /\ table' \in [page_ids : Seq(Nat), indexes : Seq(Index)]
  BY <1>1, <1>12, Facts
<1>14. Advanced({new.id}, row)
  BY <1>1, <1>2, <1>8, <1>10, <1>13 DEF Advanced, h
<1>15. ScanTrue' /\ RowsTraced'
  BY <1>5, <1>14, ScanKept, TracesKept
<1>16. Typed'
  BY <1>1, <1>10, <1>12, <1>13 DEF IInv, Typed
<1>17. CurrentIds' = new.ids
  BY <1>10 DEF CurrentIds
<1>18. ListsSound'
  BY <1>1, <1>9, <1>10, <1>13, <1>17, Facts DEF ListsSound
<1>19. misled \subseteq misled'
  BY <1>1
<1>20. EntriesTrue' /\ EntriesExact'
  <2>1. \A i \in DOMAIN table.indexes : IndexTrue(indexes[i], new.pages, new.ids, misled')
    BY <1>11, <1>19, MoreLost
  <2>2. QED
    BY <1>1, <1>11, <1>12, <1>13, <1>17, <2>1 DEF EntriesTrue, EntriesExact
<1>21. RevokedTrue'
  <2> DEFINE gone == {h.id}
             come == {new.id}
  <2>1. Change(pages, op.ids, gone, come, row, new.pages, new.ids)
    BY <1>8
  <2>2. ASSUME NEW i \in DOMAIN stored.revoked
        PROVE  /\ IndexTrue(stored.revoked[i], pages, op.ids, misled)
               /\ \A x \in DOMAIN stored.revoked[i].map :
                     stored.revoked[i].map[x] \in come => stored.revoked[i].map[x] \in misled'
    <3>1. IndexTrue(stored.revoked[i], pages, op.ids, misled)
      BY <1>2, RevokedFacts
    <3>2. new.id = h.id \/ ~IsSlot(pages, new.id)
      BY <1>8 DEF Change
    <3>3. stored.revoked # <<>>
      BY <2>2, EmptySeq
    <3>4. h.id \in misled'
      BY <1>1, <3>3
    <3>5. QED
      BY <3>1, <3>2, <3>4 DEF IndexTrue
  <2> HIDE DEF gone, come
  <2>3. \A i \in DOMAIN stored.revoked :
           IndexTrue(stored.revoked[i], new.pages, new.ids, misled')
    BY <1>6, <1>7, <1>19, <2>1, <2>2, SameKept
  <2>4. QED
    BY <1>1, <1>17, <2>3 DEF RevokedTrue
<1>22. CatalogTrue'
  BY <1>1, <1>10 DEF CatalogTrue
<1>23. QED
  BY <1>15, <1>16, <1>18, <1>20, <1>21, <1>22 DEF IInv

\* The index next has entries of the other, and at most one more, from k to id.
From(next, index, k, id) ==
    /\ next \in Index
    /\ \A x \in DOMAIN next.map : \/ x \in DOMAIN index.map /\ next.map[x] = index.map[x]
                                  \/ x = k /\ next.map[x] = id

\* So has an index that gives up a key and takes another.
LEMMA ReindexedFrom ==
    ASSUME NEW index \in Index, NEW old, NEW k \in Key \cup {Null}, NEW id \in RowId
    PROVE  /\ From(index, index, k, id)
           /\ From(Reindexed(index, old, k, id, FALSE), index, k, id)
           /\ \A half \in HalfPut(Erase(index, old), k, id) : From(half, index, k, id)
<1> DEFINE less == Erase(index, old)
           full == Put(less, k, id, FALSE)
<1>1. /\ less \in Index /\ DOMAIN less.map = DOMAIN index.map \ {old}
      /\ \A x \in DOMAIN less.map : less.map[x] = index.map[x]
  BY ErasedIndex
<1>2. Reindexed(index, old, k, id, FALSE) = full
  BY DEF Reindexed
<1> HIDE DEF less
<1>3. /\ full \in Index /\ DOMAIN full.map = DOMAIN less.map \cup ({k} \ {Null})
      /\ k # Null => full.map[k] = id
      /\ \A x \in DOMAIN less.map \ {k} : full.map[x] = less.map[x]
  <2> DEFINE grow == FALSE
  <2>1. grow \in BOOLEAN /\ full = Put(less, k, id, grow)
    OBVIOUS
  <2> HIDE DEF grow, full
  <2>2. QED
    BY <1>1, <2>1, PutIndex DEF HasPut
<1>4. Null \notin DOMAIN less.map
  BY <1>1, MapParts DEF Index
<1> HIDE DEF full
<1>5. From(full, index, k, id)
  BY <1>1, <1>3, <1>4 DEF From
<1>6. ASSUME NEW half \in HalfPut(less, k, id)
      PROVE  From(half, index, k, id)
  <2>1. /\ half \in Index
        /\ \A x \in DOMAIN half.map : \/ x \in DOMAIN less.map /\ half.map[x] = less.map[x]
                                      \/ x = k /\ half.map[x] = id
    BY <1>1, HalfPutIndex
  <2>2. QED
    BY <1>1, <2>1 DEF From
<1>7. From(index, index, k, id)
  BY DEF From
<1>8. QED
  BY <1>2, <1>5, <1>6, <1>7 DEF less

\* An UPDATE that is interrupted after it has moved the row has left it twice, and
\* all indexes with the old one.
LEMMA MoveInterrupted ==
    ASSUME IInv, op # Idle, op.kind = "update", op.todo # {}, ~Stuck(NextRow), ~diverged,
           ~StaysInPlace(pages, NextRow.id, NewRow(NextRow)),
           pages' = Inserted(pages, op.ids, NewRow(NextRow)).pages,
           op' = Idle, table' = table, stored' = stored, misled' = misled, diverged' = TRUE
    PROVE  IInv'
<1> DEFINE h == NextRow
           row == NewRow(h)
           new == Inserted(pages, op.ids, row)
<1>1. h \in Hit /\ CurrentIds = op.ids /\ op \in Statements
  BY NextFacts, Facts DEF IInv, Typed
<1>2. row \in Row /\ ~TooLarge(row)
  BY <1>1, NewRowTyped DEF Stuck
<1> HIDE DEF h, row
<1>3. HeapSound(pages, op.ids) /\ op.ids \in Seq(Nat)
  BY <1>1, Facts
<1>4. Change(pages, op.ids, {}, {new.id}, row, new.pages, new.ids)
  BY <1>2, <1>3, AddedChange
<1>5. pages' = new.pages
  BY DEF row, h
<1> HIDE DEF new
<1>6. /\ new.ids \in Seq(Nat) /\ HeapSound(new.pages, new.ids)
      /\ Extends(new.ids, table.page_ids) /\ HeapSound(new.pages, table.page_ids)
      /\ table.page_ids \in Seq(Nat)
  <2>1. table.page_ids \in Seq(Nat) /\ Extends(op.ids, table.page_ids)
    BY <1>1, Facts
  <2>2. QED
    BY <1>3, <1>4, <2>1, ListsKept
<1>7. ASSUME NEW i \in DOMAIN table.indexes
      PROVE  IndexTrue(table.indexes[i], new.pages, table.page_ids, misled)
  <2> DEFINE index == table.indexes[i]
             come == {new.id}
  <2>1. IndexTrue(index, pages, op.ids, misled)
    BY <1>1 DEF IInv, EntriesTrue
  <2>2. \A k \in DOMAIN index.map : index.map[k] \in come => index.map[k] \in misled
    BY <1>4, <2>1 DEF IndexTrue, Change
  <2>3. Change(pages, op.ids, {}, come, row, new.pages, new.ids) /\ misled \subseteq misled
    BY <1>4
  <2> HIDE DEF index, come
  <2>4. IndexTrue(index, new.pages, new.ids, misled)
    BY <1>2, <1>3, <2>1, <2>2, <2>3, SameKept
  <2>5. \A k \in DOMAIN index.map : k \in DOMAIN index.map /\ index.map[k] = index.map[k]
    OBVIOUS
  <2>6. IndexTrue(index, new.pages, table.page_ids, misled)
    BY <1>6, <2>4, <2>5, TrueShorter
  <2>7. QED
    BY <2>6 DEF index
<1>8. Typed'
  BY DEF IInv, Typed
<1>9. HeapSound(pages, table.page_ids)' /\ Extends(table.page_ids, stored.page_ids)'
  BY <1>5, <1>6, Facts
<1>10. (\A i \in DOMAIN stored.revoked :
           IndexTrue(stored.revoked[i], pages, table.page_ids, misled))'
  BY RevokedFacts
<1>11. QED
  BY <1>10, <1>5, <1>7, <1>8, <1>9, IdleInvariant

\* An UPDATE that is interrupted between the heap and an index leaves entries that
\* lead to rows with their keys, but for the row that it has changed.
LEMMA ReindexInterrupted ==
    ASSUME IInv, op # Idle, op.kind = "update", op.todo # {}, ~Stuck(NextRow), ~diverged,
           NEW row, row = NewRow(NextRow),
           NEW new, new = Updated(pages, op.ids, NextRow.id, row),
           pages' = new.pages, misled' = {new.id},
           NEW indexes, indexes = [i \in DOMAIN table.indexes |-> indexes[i]],
           \A i \in DOMAIN table.indexes : From(indexes[i], table.indexes[i], row.key, new.id),
           table' = [table EXCEPT !.indexes = indexes],
           op' = Idle, stored' = stored, diverged' = TRUE
    PROVE  IInv'
<1> DEFINE h == NextRow
<1>1. /\ h \in Hit /\ CurrentIds = op.ids /\ op \in Statements
      /\ h.id \in LiveIds(pages, op.ids)
  BY NextFacts, Facts DEF IInv, Typed
<1>2. row \in Row /\ (StaysInPlace(pages, h.id, row) \/ ~TooLarge(row))
  BY <1>1, NewRowTyped DEF Stuck
<1>3. HeapSound(pages, op.ids) /\ op.ids \in Seq(Nat)
  BY <1>1, Facts
<1>4. Change(pages, op.ids, {h.id}, {new.id}, row, new.pages, new.ids)
  BY <1>1, <1>2, <1>3, UpdatedChange
<1> HIDE DEF h
<1>5. /\ new.ids \in Seq(Nat) /\ HeapSound(new.pages, new.ids)
      /\ Extends(new.ids, table.page_ids) /\ HeapSound(new.pages, table.page_ids)
      /\ table.page_ids \in Seq(Nat)
  <2>1. table.page_ids \in Seq(Nat) /\ Extends(op.ids, table.page_ids)
    BY <1>1, Facts
  <2>2. QED
    BY <1>3, <1>4, <2>1, ListsKept
<1>6. \A i \in DOMAIN table.indexes : indexes[i] \in Index
  BY DEF From
<1>7. indexes \in Seq(Index) /\ DOMAIN indexes = DOMAIN table.indexes
  BY <1>6, Facts, IndexList
<1>8. /\ table' = [page_ids |-> table.page_ids, indexes |-> indexes]
      /\ table'.page_ids = table.page_ids /\ table'.indexes = indexes
      /\ table' \in [page_ids : Seq(Nat), indexes : Seq(Index)]
  BY <1>7, Facts
<1>9. ASSUME NEW i \in DOMAIN table.indexes
      PROVE  IndexTrue(indexes[i], new.pages, table.page_ids, {new.id})
  <2> DEFINE index == table.indexes[i]
             next == indexes[i]
             id == new.id
             come == {id}
  <2>1. IndexTrue(index, pages, op.ids, {})
    <3>1. misled = {}
      BY DEF IInv, Typed
    <3>2. QED
      BY <1>1, <3>1 DEF IInv, EntriesTrue
  <2>2. \A x \in DOMAIN next.map : \/ x \in DOMAIN index.map /\ next.map[x] = index.map[x]
                                   \/ x = row.key /\ next.map[x] = id
    BY DEF From
  <2>3. /\ Change(pages, op.ids, {h.id}, come, row, new.pages, new.ids)
        /\ id \in come
    BY <1>4
  <2> HIDE DEF index, next, id
  <2>4. \A x \in DOMAIN next.map :
           \/ /\ x \in DOMAIN index.map /\ next.map[x] = index.map[x]
              /\ next.map[x] \in come => row.key = x \/ next.map[x] \in come
           \/ row.key = x /\ next.map[x] \in come
    BY <2>2
  <2> HIDE DEF come
  <2>5. {} \subseteq come
    OBVIOUS
  <2>6. IndexTrue(next, new.pages, new.ids, come)
    BY <1>2, <1>3, <2>1, <2>3, <2>4, <2>5, TrueKept
  <2>7. \A x \in DOMAIN next.map : x \in DOMAIN next.map /\ next.map[x] = next.map[x]
    OBVIOUS
  <2>8. IndexTrue(next, new.pages, table.page_ids, come)
    BY <1>5, <2>6, <2>7, TrueShorter
  <2>9. QED
    BY <2>8 DEF next, come, id
<1>10. Typed'
  BY <1>7, <1>8 DEF IInv, Typed
<1>11. HeapSound(pages, table.page_ids)' /\ Extends(table.page_ids, stored.page_ids)'
  BY <1>5, <1>8, Facts
<1>12. (\A i \in DOMAIN stored.revoked :
           IndexTrue(stored.revoked[i], pages, table.page_ids, misled))'
  BY RevokedFacts
<1>13. QED
  BY <1>12, <1>7, <1>8, <1>9, <1>10, <1>11, IdleInvariant

\* UPDATE that is interrupted, in either way.
LEMMA UpdateInterruptedKeeps ==
    ASSUME IInv, UpdateInterrupted
    PROVE  IInv'
<1> DEFINE h == NextRow
           row == NewRow(h)
           new == Updated(pages, op.ids, h.id, row)
           MovedTo(g, to) == /\ to.id # g.id
                             /\ pages' = Inserted(pages, op.ids, NewRow(g)).pages
                             /\ UNCHANGED <<table, misled>>
           Halves(g, to, i) ==
              (IF g.row.key = Null THEN {} ELSE {table.indexes[i]})
              \cup (IF NewRow(g).key = Null THEN {}
                    ELSE HalfPut(Erase(table.indexes[i], g.row.key), NewRow(g).key, to.id))
           Changed(g, to) ==
              /\ pages' = to.pages
              /\ misled' = {to.id}
              /\ \E i \in DOMAIN table.indexes : \E half \in Halves(g, to, i) :
                    table' = [table EXCEPT !.indexes =
                                Stopped([j \in DOMAIN @ |->
                                           Reindexed(@[j], g.row.key, NewRow(g).key,
                                                     to.id, FALSE)],
                                        i, half)]
<1>1. /\ op.kind = "update" /\ op.todo # {} /\ ~Stuck(NextRow) /\ ~diverged
      /\ op' = Idle /\ diverged' = TRUE /\ stored' = stored
  BY DEF UpdateInterrupted, Interrupted
<1>2. op # Idle
  BY <1>1, Facts
<1>3. CASE MovedTo(h, new)
  <2>1. ~StaysInPlace(pages, h.id, row)
    BY <1>3 DEF Updated
  <2>2. QED
    BY <1>1, <1>2, <1>3, <2>1, MoveInterrupted
<1>4. CASE Changed(h, new)
  <2>1. PICK i \in DOMAIN table.indexes :
               \E half \in {table.indexes[i]}
                           \cup HalfPut(Erase(table.indexes[i], h.row.key), row.key, new.id) :
                  table' = [table EXCEPT !.indexes =
                              Stopped([j \in DOMAIN table.indexes |->
                                         Reindexed(table.indexes[j], h.row.key, row.key,
                                                   new.id, FALSE)],
                                      i, half)]
    BY <1>4
  <2>2. PICK half \in {table.indexes[i]}
                      \cup HalfPut(Erase(table.indexes[i], h.row.key), row.key, new.id) :
               table' = [table EXCEPT !.indexes =
                           Stopped([j \in DOMAIN table.indexes |->
                                      Reindexed(table.indexes[j], h.row.key, row.key,
                                                new.id, FALSE)],
                                   i, half)]
    BY <2>1
  <2> DEFINE indexes == Stopped([j \in DOMAIN table.indexes |->
                                   Reindexed(table.indexes[j], h.row.key, row.key,
                                             new.id, FALSE)],
                                i, half)
  <2>3. row.key \in Key \cup {Null} /\ new.id \in RowId
    <3>1. h \in Hit /\ h.id \in LiveIds(pages, op.ids) /\ op \in Statements
      BY <1>1, <1>2, NextFacts DEF IInv, Typed
    <3>2. row \in Row /\ (StaysInPlace(pages, h.id, row) \/ ~TooLarge(row))
      BY <1>1, <3>1, NewRowTyped DEF Stuck
    <3> HIDE DEF h, row
    <3>3. Change(pages, op.ids, {h.id}, {new.id}, row, new.pages, new.ids)
      BY <1>2, <3>1, <3>2, Facts, UpdatedChange
    <3> HIDE DEF new
    <3>4. QED
      BY <3>2, <3>3 DEF Change, Row
  <2> HIDE DEF h, row, new
  <2>4. ASSUME NEW j \in DOMAIN table.indexes
        PROVE  From(indexes[j], table.indexes[j], row.key, new.id)
    <3>1. indexes[j] = IF j < i
                       THEN Reindexed(table.indexes[j], h.row.key, row.key, new.id, FALSE)
                       ELSE IF j = i THEN half ELSE table.indexes[j]
      BY DEF Stopped
    <3>2. /\ From(table.indexes[j], table.indexes[j], row.key, new.id)
          /\ From(Reindexed(table.indexes[j], h.row.key, row.key, new.id, FALSE),
                  table.indexes[j], row.key, new.id)
          /\ \A x \in HalfPut(Erase(table.indexes[j], h.row.key), row.key, new.id) :
                From(x, table.indexes[j], row.key, new.id)
      BY <2>3, Facts, ReindexedFrom
    <3>3. QED
      BY <3>1, <3>2
  <2>5. indexes = [j \in DOMAIN table.indexes |-> indexes[j]]
    BY DEF Stopped
  <2>6. table' = [table EXCEPT !.indexes = indexes]
    BY <2>2
  <2> HIDE DEF indexes
  <2>7. row = NewRow(NextRow) /\ new = Updated(pages, op.ids, NextRow.id, row)
    BY DEF row, new, h
  <2>8. QED
    BY <1>1, <1>2, <1>4, <2>4, <2>5, <2>6, <2>7, ReindexInterrupted
<1>5. MovedTo(h, new) \/ Changed(h, new)
  <2>1. \E g \in {NextRow} : \E to \in {Updated(pages, op.ids, g.id, NewRow(g))} :
           MovedTo(g, to) \/ Changed(g, to)
    BY Zenon DEF UpdateInterrupted
  <2> HIDE DEF MovedTo, Changed
  <2>2. QED
    BY <2>1
<1>6. QED
  BY <1>3, <1>4, <1>5
----------------------------------------------------------------------------
\* Every step of the program keeps the invariant.
LEMMA NextInvariant == IInv /\ [Next]_vars => IInv'
<1>1. SUFFICES ASSUME IInv, [Next]_vars
               PROVE  IInv'
  OBVIOUS
<1>2. ASSUME NEW row \in Row, NEW grow \in BOOLEAN, Insert(row, grow)
      PROVE  IInv'
  BY <1>1, <1>2, InsertKeeps
<1>3. ASSUME NEW row \in Row, InsertInterrupted(row)
      PROVE  IInv'
  BY <1>1, <1>3, InsertInterruptedKeeps
<1>4. CASE CreateIndex
  BY <1>1, <1>4, CreateIndexKeeps
<1>5. CASE CreateIndexRevoked
  BY <1>1, <1>5, CreateIndexRevokedKeeps
<1>6. ASSUME NEW match \in Predicates, BeginDelete(match)
      PROVE  IInv'
  BY <1>1, <1>6, BeginKeeps DEF BeginDelete
<1>7. CASE DeleteRow
  BY <1>1, <1>7, DeleteRowKeeps
<1>8. CASE DeleteInterrupted
  BY <1>1, <1>8, DeleteInterruptedKeeps
<1>9. CASE FinishDelete
  BY <1>1, <1>9, FinishDeleteKeeps
<1>10. ASSUME NEW match \in Predicates, NEW column \in {"key", "text"},
             NEW value \in Values(column), BeginUpdate(match, column, value)
      PROVE  IInv'
  BY <1>1, <1>10, BeginKeeps DEF BeginUpdate
<1>11. ASSUME NEW grow \in BOOLEAN, UpdateRow(grow)
       PROVE  IInv'
  BY <1>1, <1>11, UpdateRowKeeps
<1>12. CASE UpdateFails
  BY <1>1, <1>12, UpdateFailsKeeps
<1>13. CASE UpdateInterrupted
  BY <1>1, <1>13, UpdateInterruptedKeeps
<1>14. CASE FinishUpdate
  BY <1>1, <1>14, FinishUpdateKeeps
<1>15. CASE Restart
  BY <1>1, <1>15, RestartKeeps
<1>16. CASE UNCHANGED vars
  <2>1. /\ pages' = pages /\ table' = table /\ stored' = stored /\ op' = op
        /\ diverged' = diverged /\ misled' = misled
    BY <1>16 DEF vars
  <2>2. Typed' /\ ListsSound' /\ CatalogTrue' /\ RevokedTrue'
    BY <1>1, <2>1 DEF IInv, Typed, ListsSound, CatalogTrue, RevokedTrue, CurrentIds,
                          Catalog
  <2>3. ScanTrue' /\ EntriesTrue' /\ EntriesExact'
    BY <1>1, <2>1 DEF IInv, ScanTrue, EntriesTrue, EntriesExact, CurrentIds, Standing
  <2>4. RowsTraced'
    <3>1. Left' = Left /\ Standing' = Standing /\ \A i : SoFar(i)' = SoFar(i)
      BY <2>1 DEF Left, Standing, SoFar, Expected, NewRow
    <3>2. \A f : Traces(f)' <=> Traces(f)
      BY <2>1, <3>1 DEF Traces
    <3>3. QED
      BY <1>1, <2>1, <3>1, <3>2 DEF IInv, RowsTraced
  <2>5. QED
    BY <2>2, <2>3, <2>4 DEF IInv
<1>17. QED
  BY <1>1, <1>2, <1>3, <1>4, <1>6, <1>7, <1>8, <1>9, <1>10, <1>11, <1>12, <1>13, <1>14,
     <1>15, <1>16, <1>5 DEF Next

\* The invariant holds always: what a table, its catalog page and a running
\* statement are, and how indexes, rows and catalog page belong together.
THEOREM InvariantHolds == Spec => []IInv
<1>1. Init => IInv
  BY InitInvariant
<1>2. IInv /\ [Next]_vars => IInv'
  BY NextInvariant
<1>3. QED
  BY <1>1, <1>2, PTL DEF Spec

\* The rows that a scan of the page list in use yields.
LEMMA CurrentRows ==
    ASSUME IInv
    PROVE  /\ \A j \in DOMAIN Current :
                 /\ Current[j].id \in LiveIds(pages, CurrentIds)
                 /\ Current[j].row = RowAt(pages, Current[j].id)
           /\ \A i, j \in DOMAIN Current : Current[i].id = Current[j].id => i = j
           /\ \A id \in LiveIds(pages, CurrentIds) :
                 \E j \in DOMAIN Current : Current[j].id = id
<1>1. HeapSound(pages, CurrentIds)
  BY Facts
<1>2. QED
  BY <1>1, ScanRows DEF Current

\* The entries of every index are those EntriesSound asks for.
LEMMA SoundFromInvariant == IInv => EntriesSound
<1>1. SUFFICES ASSUME IInv, NEW i \in DOMAIN table.indexes, NEW j \in DOMAIN Current,
                      NEW k \in DOMAIN table.indexes[i].map,
                      table.indexes[i].map[k] = Current[j].id
               PROVE  Current[j].row.key = k \/ Current[j].id \in misled
  BY DEF EntriesSound
<1>2. /\ Current[j].id \in LiveIds(pages, CurrentIds)
      /\ Current[j].row = RowAt(pages, Current[j].id)
  BY <1>1, CurrentRows
<1>3. IndexTrue(table.indexes[i], pages, CurrentIds, misled)
  BY <1>1 DEF IInv, EntriesTrue
<1>4. QED
  BY <1>1, <1>2, <1>3 DEF IndexTrue

\* While no statement has left its traces, every index is exact.
LEMMA MatchFromInvariant == IInv => IndexesMatchHeap
<1>1. SUFFICES ASSUME IInv, ~diverged, NEW i \in DOMAIN table.indexes
               PROVE  LET map == table.indexes[i].map
                      IN  /\ DOMAIN map = {Current[j].row.key : j \in DOMAIN Current} \ {Null}
                          /\ \A j \in DOMAIN Current :
                                Current[j].row.key # Null =>
                                   map[Current[j].row.key] = Current[j].id
  BY DEF IndexesMatchHeap
<1>2. IndexExact(table.indexes[i], pages, CurrentIds)
  BY <1>1 DEF IInv, EntriesExact
<1> DEFINE map == table.indexes[i].map
           hits == Current
           live == LiveIds(pages, CurrentIds)
<1>3. /\ DOMAIN map = {RowAt(pages, id).key : id \in live} \ {Null}
      /\ \A id \in live : RowAt(pages, id).key # Null => map[RowAt(pages, id).key] = id
  BY <1>2 DEF IndexExact
<1>4. /\ \A j \in DOMAIN hits : /\ hits[j].id \in live
                                /\ hits[j].row = RowAt(pages, hits[j].id)
      /\ \A id \in live : \E j \in DOMAIN hits : hits[j].id = id
  BY <1>1, CurrentRows
<1> HIDE DEF map, hits, live
<1>5. {RowAt(pages, id).key : id \in live} = {hits[j].row.key : j \in DOMAIN hits}
  <2>1. ASSUME NEW id \in live
        PROVE  \E j \in DOMAIN hits : RowAt(pages, id).key = hits[j].row.key
    BY <1>4
  <2>2. ASSUME NEW j \in DOMAIN hits
        PROVE  \E id \in live : RowAt(pages, id).key = hits[j].row.key
    BY <1>4
  <2>3. QED
    BY <2>1, <2>2
<1>6. \A j \in DOMAIN hits : hits[j].row.key # Null => map[hits[j].row.key] = hits[j].id
  BY <1>3, <1>4
<1>7. QED
  BY <1>3, <1>5, <1>6 DEF map, hits

\* An index never leads a lookup to a row of the table with another key, whatever
\* statements failed or were interrupted and however old the catalog page is that
\* open() reads.
THEOREM EntriesAlwaysSound == Spec => []EntriesSound
  BY InvariantHolds, SoundFromInvariant, PTL

\* Between any two row changes of statements that succeed, every index holds
\* exactly the non-null keys of the table with the row ids the rows have now.
THEOREM IndexesAlwaysMatchHeap == Spec => []IndexesMatchHeap
  BY InvariantHolds, MatchFromInvariant, PTL

\* Between statements a clean restart finds the table that memory holds.
THEOREM CatalogAlwaysCurrent == Spec => []CatalogCurrent
<1>1. IInv => CatalogCurrent
  BY DEF IInv, CatalogTrue, CatalogCurrent
<1>2. QED
  BY <1>1, InvariantHolds, PTL
----------------------------------------------------------------------------
\* A statement that has changed all its rows leaves what is expected of the scan.
LEMMA ExpectedLeft ==
    ASSUME IInv, op # Idle, op.todo = {}, pages' = pages, table'.page_ids = op.ids,
           NEW row
    PROVE  ExpectedCopies(row) = Copies(row, Rows')
<1> DEFINE S == {i \in DOMAIN op.scanned : row \in Expected(op.scanned[i])}
           hits == Scan(pages, op.ids)
           T == {j \in DOMAIN hits : hits[j].row = row}
           live == LiveIds(pages, op.ids)
<1>1. /\ HeapSound(pages, op.ids) /\ op.scanned \in Seq(Hit)
  BY Facts DEF IInv, Typed, Statements, Statement
<1>2. /\ \A j \in DOMAIN hits : /\ hits[j].id \in live
                                /\ hits[j].row = RowAt(pages, hits[j].id)
      /\ \A j, k \in DOMAIN hits : hits[j].id = hits[k].id => j = k
      /\ \A id \in live : \E j \in DOMAIN hits : hits[j].id = id
  BY <1>1, ScanRows
<1>3. PICK f \in [Left -> live] : Traces(f)
  BY DEF IInv, RowsTraced
<1> HIDE DEF hits, live
<1>4. \A i \in DOMAIN op.scanned : SoFar(i) = Expected(op.scanned[i])
  BY DEF SoFar
<1>5. \A i \in S : i \in Left /\ RowAt(pages, f[i]) = row
  <2>1. \A i \in S : i \in Left
    BY <1>4 DEF Left
  <2>2. \A h : row \in Expected(h) => Expected(h) = {row}
    BY DEF Expected
  <2>3. QED
    BY <1>3, <1>4, <2>1, <2>2 DEF Traces
<1>6. ASSUME NEW j \in T
      PROVE  \E i \in S : f[i] = hits[j].id
  <2>1. hits[j].id \in live /\ RowAt(pages, hits[j].id) = row
    BY <1>2
  <2>2. PICK i \in Left : f[i] = hits[j].id
    BY <1>3, <2>1 DEF Traces, live
  <2>3. row \in Expected(op.scanned[i])
    BY <1>3, <1>4, <2>1, <2>2 DEF Traces, Left
  <2>4. QED
    BY <2>2, <2>3 DEF Left
<1>7. PICK g : /\ g = [i \in S |-> g[i]]
               /\ \A i \in S : g[i] \in DOMAIN hits /\ hits[g[i]].id = f[i]
  <2> DEFINE new == [i \in S |-> CHOOSE j \in DOMAIN hits : hits[j].id = f[i]]
  <2>1. \A i \in S : \E j \in DOMAIN hits : hits[j].id = f[i]
    BY <1>2, <1>3, <1>5
  <2>2. new = [i \in S |-> new[i]] /\ \A i \in S : new[i] \in DOMAIN hits /\ hits[new[i]].id = f[i]
    BY <2>1
  <2> HIDE DEF new
  <2>3. QED
    BY <2>2
<1>8. g \in [S -> T]
  <2>1. ASSUME NEW i \in S
        PROVE  g[i] \in T
    <3>1. f[i] \in live /\ RowAt(pages, f[i]) = row
      BY <1>3, <1>5
    <3>2. g[i] \in DOMAIN hits /\ hits[g[i]].id = f[i]
      BY <1>7
    <3>3. QED
      BY <1>2, <3>1, <3>2
  <2> HIDE DEF S, T
  <2>2. QED
    BY <1>7, <2>1
<1>9. g \in Bijection(S, T)
  <2>1. ASSUME NEW a \in S, NEW b \in S, g[a] = g[b]
        PROVE  a = b
    <3>1. f[a] = f[b]
      BY <1>7, <2>1
    <3>2. a \in Left /\ b \in Left
      BY <1>5, <2>1
    <3> HIDE DEF S, T
    <3>3. QED
      BY <1>3, <3>1, <3>2 DEF Traces, IsInjective
  <2>2. ASSUME NEW j \in T
        PROVE  \E i \in S : g[i] = j
    <3>1. PICK i \in S : f[i] = hits[j].id
      BY <1>6
    <3>2. g[i] \in DOMAIN hits /\ hits[g[i]].id = f[i]
      BY <1>7
    <3>3. QED
      BY <1>2, <3>1, <3>2
  <2> HIDE DEF S, T
  <2>3. QED
    BY <1>8, <2>1, <2>2 DEF Bijection, Injection, Surjection, IsInjective
<1>10. IsFiniteSet(S)
  <2>1. DOMAIN op.scanned = 1 .. Len(op.scanned) /\ Len(op.scanned) \in Nat
    BY <1>1, LenProperties
  <2>2. IsFiniteSet(1 .. Len(op.scanned))
    <3>1. PICK n \in Nat : n = Len(op.scanned)
      BY <2>1
    <3>2. 1 \in Int /\ n \in Int
      OBVIOUS
    <3>3. IsFiniteSet(1 .. n)
      BY <3>2, FS_Interval, Zenon
    <3>4. QED
      BY <3>1, <3>3
  <2>3. QED
    BY <2>1, <2>2, FS_Subset
<1>11. Cardinality(T) = Cardinality(S)
  <2>1. ExistsBijection(S, T)
    BY <1>9 DEF ExistsBijection
  <2> HIDE DEF S, T
  <2>2. QED
    BY <1>10, <2>1, FS_Bijection
<1>12. QED
  BY <1>11 DEF ExpectedCopies, Copies, Rows, hits

\* A row of the scan that the statement does not match is where it was found when
\* the statement ends, wherever it ends.
LEMMA OthersStand ==
    ASSUME IInv, IInv', op # Idle, op' = Idle, [Next]_vars,
           NEW i \in DOMAIN op.scanned, op.scanned[i].row \notin op.match
    PROVE  op.scanned[i] \in ToSet(Rows')
<1> DEFINE id == op.scanned[i].id
           hits == Scan(pages', table'.page_ids)
<1>1. /\ op \in Statements /\ op.scanned[i] \in Hit
      /\ id \in LiveIds(pages, table.page_ids) /\ RowAt(pages, id) = op.scanned[i].row
  <2>1. op \in Statements /\ i \in Standing
    BY DEF IInv, Typed, Standing
  <2>2. op.scanned \in Seq(Hit)
    BY <2>1 DEF Statements, Statement
  <2>3. QED
    BY <2>1, <2>2, ElementOfSeq, LenProperties DEF IInv, ScanTrue
<1>2. /\ HeapSound(pages, op.ids) /\ op.ids \in Seq(Nat)
      /\ HeapSound(pages, table.page_ids) /\ table.page_ids \in Seq(Nat)
      /\ Extends(op.ids, table.page_ids)
  BY Facts
<1>3. HeapSound(pages', table'.page_ids)
  BY DEF IInv, ListsSound, CurrentIds
<1> HIDE DEF id
<1>4. id \in LiveIds(pages', table'.page_ids) /\ RowAt(pages', id) = RowAt(pages, id)
  <2>1. CASE UNCHANGED <<pages, table>>
    BY <1>1, <2>1
  <2>2. CASE FinishUpdate
    <3>1. pages' = pages /\ table'.page_ids = op.ids
      BY <2>2, Facts DEF FinishUpdate
    <3>2. LiveIds(pages, table.page_ids) \subseteq LiveIds(pages, op.ids)
      BY <1>2, ShorterLive
    <3>3. QED
      BY <1>1, <3>1, <3>2
  <2>3. CASE DeleteInterrupted
    <3>1. pages' = pages /\ table'.page_ids = table.page_ids
      BY <2>3, Facts DEF DeleteInterrupted
    <3>2. QED
      BY <1>1, <3>1
  <2>4. CASE UpdateInterrupted
    <3> DEFINE h == NextRow
               row == NewRow(h)
               new == Updated(pages, op.ids, h.id, row)
    <3>1. /\ op.kind = "update" /\ op.todo # {} /\ ~Stuck(h)
          /\ table'.page_ids = table.page_ids
          /\ \/ new.id # h.id /\ pages' = Inserted(pages, op.ids, row).pages
             \/ pages' = new.pages
      BY <2>4, Facts DEF UpdateInterrupted
    <3>2. /\ h \in Hit /\ h.row \in op.match /\ h.id \in LiveIds(pages, op.ids)
          /\ \E j \in DOMAIN op.scanned : h = op.scanned[j]
      BY <3>1, NextFacts
    <3>3. id # h.id
      BY <3>2 DEF IInv, ScanTrue, id
    <3>4. row \in Row /\ (StaysInPlace(pages, h.id, row) \/ ~TooLarge(row))
      BY <1>1, <3>1, <3>2, NewRowTyped DEF Stuck
    <3>5. new.id # h.id => ~TooLarge(row)
      BY <3>4 DEF Updated
    <3> HIDE DEF h, row
    <3>6. Change(pages, op.ids, {h.id}, {new.id}, row, new.pages, new.ids)
      BY <1>2, <3>2, <3>4, UpdatedChange
    <3>7. CASE pages' = new.pages
      <4> DEFINE gone == {h.id}
                 come == {new.id}
      <4>1. id \in LiveIds(pages, table.page_ids) \ gone
        BY <1>1, <3>3
      <4>2. Change(pages, op.ids, gone, come, row, new.pages, new.ids)
        BY <3>6
      <4> HIDE DEF gone, come, new
      <4>3. /\ id \in LiveIds(new.pages, table.page_ids)
            /\ RowAt(new.pages, id) = RowAt(pages, id)
        BY <1>2, <4>1, <4>2, StandsKept
      <4>4. QED
        BY <3>1, <3>7, <4>3
    <3>8. CASE new.id # h.id /\ pages' = Inserted(pages, op.ids, row).pages
      <4> DEFINE gone == {}
                 added == Inserted(pages, op.ids, row)
                 come == {added.id}
      <4>1. id \in LiveIds(pages, table.page_ids) \ gone
        BY <1>1
      <4>2. Change(pages, op.ids, gone, come, row, added.pages, added.ids)
        BY <1>2, <3>4, <3>5, <3>8, AddedChange
      <4> HIDE DEF gone, come, added
      <4>3. /\ id \in LiveIds(added.pages, table.page_ids)
            /\ RowAt(added.pages, id) = RowAt(pages, id)
        BY <1>2, <4>1, <4>2, StandsKept
      <4>4. QED
        BY <3>1, <3>8, <4>3 DEF added
    <3>9. QED
      BY <3>1, <3>7, <3>8
  <2>5. QED
    <3>1. ~DeleteRow /\ ~\E grow \in BOOLEAN : UpdateRow(grow)
      <4>1. ASSUME DeleteRow
            PROVE  FALSE
        <5>1. op' = [PastRow EXCEPT !.ids = op.ids]
          BY <1>1, <4>1 DEF DeleteRow, PastRow, Statements, Statement
        <5>2. QED
          BY <1>1, <1>2, <5>1, PastRowFacts
      <4>2. ASSUME NEW grow \in BOOLEAN, UpdateRow(grow)
            PROVE  FALSE
        <5> DEFINE ids == Updated(pages, op.ids, NextRow.id, NewRow(NextRow)).ids
        <5>1. op' = [PastRow EXCEPT !.ids = ids]
          BY <4>2 DEF UpdateRow
        <5>2. op.kind = "update" /\ op # Idle /\ Idle.kind = "idle"
          BY <4>2 DEF UpdateRow, Idle
        <5> HIDE DEF ids
        <5>3. op'.kind = "update"
          BY <1>1, <5>1, <5>2 DEF PastRow, Statements, Statement
        <5>4. QED
          BY <5>2, <5>3
      <4>3. QED
        BY <4>1, <4>2
    <3>2. FinishDelete \/ UpdateFails => UNCHANGED <<pages, table>>
      BY DEF FinishDelete, UpdateFails
    <3>3. FinishDelete \/ FinishUpdate \/ UpdateFails \/ DeleteInterrupted \/ UpdateInterrupted
      BY <3>1 DEF Next, vars, Insert, InsertInterrupted, CreateIndex, CreateIndexRevoked,
                  BeginDelete, BeginUpdate, Restart
    <3>4. QED
      BY <2>1, <2>2, <2>3, <2>4, <3>2, <3>3
<1>5. /\ hits \in Seq(Hit)
      /\ \A j \in DOMAIN hits : hits[j].row = RowAt(pages', hits[j].id)
      /\ \E j \in DOMAIN hits : hits[j].id = id
  BY <1>3, <1>4, ScanRows
<1>6. PICK j \in DOMAIN hits : hits[j].id = id
  BY <1>5
<1> HIDE DEF hits
<1>7. hits[j] = op.scanned[i]
  <2>1. hits[j] \in Hit
    BY <1>5, <1>6, ElementOfSeq, LenProperties
  <2>2. hits[j].row = op.scanned[i].row
    BY <1>1, <1>4, <1>5, <1>6
  <2>3. hits[j].id = op.scanned[i].id
    BY <1>6 DEF id
  <2>4. QED
    BY <1>1, <2>1, <2>2, <2>3 DEF Hit
<1>8. op.scanned[i] \in ToSet(hits)
  BY <1>6, <1>7 DEF ToSet
<1>9. QED
  BY <1>8 DEF Rows, hits

\* An UPDATE or DELETE that succeeds has changed each matching row of its scan once
\* and no other, however the rows moved; one that fails or is interrupted, wherever
\* it stops, has left the rows alone that it does not match.
THEOREM StatementsAlwaysExact == Spec => StatementExact
<1> DEFINE Exact ==
              op # Idle /\ op' = Idle =>
                 \A after \in {Rows'} :
                    /\ op.todo = {} => \A row \in Row : ExpectedCopies(row) = Copies(row, after)
                    /\ \A i \in DOMAIN op.scanned :
                          op.scanned[i].row \in op.match \/ op.scanned[i] \in ToSet(after)
<1>1. IInv /\ IInv' /\ [Next]_vars => Exact
  <2>1. SUFFICES ASSUME IInv, IInv', [Next]_vars, op # Idle, op' = Idle
                 PROVE  /\ op.todo = {} =>
                              \A row \in Row : ExpectedCopies(row) = Copies(row, Rows')
                        /\ \A i \in DOMAIN op.scanned :
                              op.scanned[i].row \in op.match \/ op.scanned[i] \in ToSet(Rows')
    OBVIOUS
  <2>2. ASSUME op.todo = {}, NEW row \in Row
        PROVE  ExpectedCopies(row) = Copies(row, Rows')
    <3>1. FinishDelete \/ FinishUpdate
      BY <2>1, <2>2 DEF Next, vars, Insert, InsertInterrupted, CreateIndex,
                        CreateIndexRevoked, BeginDelete, BeginUpdate, DeleteRow,
                        DeleteInterrupted, UpdateRow, UpdateFails, UpdateInterrupted, Restart
    <3>2. pages' = pages /\ table'.page_ids = op.ids
      <4>1. CASE FinishDelete
        BY <2>1, <4>1 DEF FinishDelete, IInv, ListsSound
      <4>2. CASE FinishUpdate
        BY <2>1, <4>2, Facts DEF FinishUpdate
      <4>3. QED
        BY <3>1, <4>1, <4>2
    <3>3. QED
      BY <2>1, <2>2, <3>2, ExpectedLeft
  <2>3. QED
    BY <2>1, <2>2, OthersStand
<1>2. IInv /\ IInv' /\ [Next]_vars => [Exact]_vars
  BY <1>1
<1>3. QED
  BY <1>2, InvariantHolds, PTL DEF Spec, StatementExact
----------------------------------------------------------------------------
\* Rows that were on the page list before, and are as they were, differ as before.
LEMMA TextsFewer ==
    ASSUME NEW pgs, NEW ids, TextsDiffer(pgs, ids), NEW new, NEW longer,
           \A x \in LiveIds(new, longer) : x \in LiveIds(pgs, ids) /\ RowAt(new, x) = RowAt(pgs, x)
    PROVE  TextsDiffer(new, longer)
  BY DEF TextsDiffer

\* So does a row that comes with a text that no row has which stays.
LEMMA TextsMore ==
    ASSUME NEW pgs, NEW ids, TextsDiffer(pgs, ids), NEW new, NEW longer,
           NEW gone, NEW come, NEW row, Change(pgs, ids, gone, come, row, new, longer),
           \A x, y \in come : x = y,
           \A x \in LiveIds(pgs, ids) \ gone : RowAt(pgs, x).text # row.text
    PROVE  TextsDiffer(new, longer)
<1>1. SUFFICES ASSUME NEW x \in LiveIds(new, longer), NEW y \in LiveIds(new, longer),
                      RowAt(new, x).text = RowAt(new, y).text
               PROVE  x = y
  BY DEF TextsDiffer
<1>2. /\ x \in LiveIds(pgs, ids) \ gone \/ x \in come
      /\ y \in LiveIds(pgs, ids) \ gone \/ y \in come
  BY <1>1 DEF Change
<1>3. \A z \in come : RowAt(new, z) = row
  BY DEF Change
<1>4. \A z \in LiveIds(pgs, ids) \ gone : RowAt(new, z) = RowAt(pgs, z)
  BY DEF Change
<1>5. CASE x \in come /\ y \in come
  BY <1>5
<1>6. CASE x \in LiveIds(pgs, ids) \ gone /\ y \in LiveIds(pgs, ids) \ gone
  BY <1>1, <1>4, <1>6 DEF TextsDiffer
<1>7. CASE x \in come /\ y \in LiveIds(pgs, ids) \ gone
  BY <1>1, <1>3, <1>4, <1>7
<1>8. CASE y \in come /\ x \in LiveIds(pgs, ids) \ gone
  BY <1>1, <1>3, <1>4, <1>8
<1>9. QED
  BY <1>2, <1>5, <1>6, <1>7, <1>8

\* Between statements only the rows matter.
LEMMA IdleTexts ==
    ASSUME op' = Idle, TextsDiffer(pages, table.page_ids)'
    PROVE  TextsTrue'
  BY DEF TextsTrue, CurrentIds, OneTakesText

\* INSERT adds a row whose text no row has.
LEMMA InsertTexts ==
    ASSUME IInv, NEW row \in Row, NEW grow \in BOOLEAN, Insert(row, grow),
           TextUnique, TextsDiffer(pages, CurrentIds)
    PROVE  TextsTrue'
<1> DEFINE new == Inserted(pages, table.page_ids, row)
           hits == Scan(pages, table.page_ids)
<1>1. /\ op = Idle /\ op' = Idle /\ ~TooLarge(row)
      /\ pages' = new.pages /\ table'.page_ids = new.ids
      /\ \A i \in DOMAIN hits : hits[i].row.text # row.text
  BY DEF Insert, CanInsert, Acceptable, Rows
<1>2. TextsDiffer(pages, table.page_ids) /\ HeapSound(pages, table.page_ids)
  BY <1>1, Facts DEF CurrentIds
<1>3. \A x \in LiveIds(pages, table.page_ids) : RowAt(pages, x).text # row.text
  <2>1. /\ \A i \in DOMAIN hits : hits[i].row = RowAt(pages, hits[i].id)
        /\ \A x \in LiveIds(pages, table.page_ids) : \E i \in DOMAIN hits : hits[i].id = x
    BY <1>2, ScanRows
  <2> HIDE DEF hits
  <2>2. QED
    BY <1>1, <2>1
<1> DEFINE gone == {}
           come == {new.id}
<1>4. Change(pages, table.page_ids, gone, come, row, new.pages, new.ids)
  BY <1>1, <1>2, AddedChange
<1>5. /\ \A x, y \in come : x = y
      /\ \A x \in LiveIds(pages, table.page_ids) \ gone : RowAt(pages, x).text # row.text
  BY <1>3
<1> HIDE DEF new, gone, come
<1>6. TextsDiffer(new.pages, new.ids)
  BY <1>2, <1>4, <1>5, TextsMore
<1>7. QED
  BY <1>1, <1>6, IdleTexts

\* A set of places with at most one member.
LEMMA AtMostOne ==
    ASSUME NEW n \in Nat, NEW S \in SUBSET (1 .. n), ~(Cardinality(S) > 1),
           NEW i \in S, NEW j \in S
    PROVE  i = j
<1>1. 1 \in Int /\ n \in Int
  OBVIOUS
<1>2. IsFiniteSet(1 .. n)
  BY <1>1, FS_Interval, Zenon
<1>3. IsFiniteSet(S)
  BY <1>2, FS_Subset, Zenon
<1>4. SUFFICES ASSUME i # j
               PROVE  FALSE
  OBVIOUS
<1>5. IsFiniteSet({i}) /\ Cardinality({i}) = 1
  BY FS_Singleton, Zenon
<1>6. IsFiniteSet({i} \cup {j}) /\ Cardinality({i} \cup {j}) = 2
  <2>1. j \notin {i}
    BY <1>4
  <2>2. /\ IsFiniteSet({i} \cup {j})
        /\ Cardinality({i} \cup {j}) =
              IF j \in {i} THEN Cardinality({i}) ELSE Cardinality({i}) + 1
    BY <1>5, FS_AddElement, Zenon
  <2>3. QED
    BY <1>5, <2>1, <2>2
<1>7. {i} \cup {j} \in SUBSET S
  OBVIOUS
<1>8. Cardinality({i} \cup {j}) <= Cardinality(S) /\ Cardinality(S) \in Nat
  BY <1>3, <1>7, FS_Subset, FS_CardinalityType, Zenon
<1>9. QED
  BY <1>6, <1>8

\* UPDATE that begins has checked that one row at most takes the text.
LEMMA BeginUpdateTexts ==
    ASSUME IInv, NEW match \in Predicates, NEW column \in {"key", "text"},
           NEW value \in Values(column), BeginUpdate(match, column, value),
           TextUnique, TextsDiffer(pages, CurrentIds)
    PROVE  TextsTrue'
<1> DEFINE hits == Scan(pages, table.page_ids)
           places == {i \in DOMAIN hits : hits[i].row \in match}
<1>1. /\ op = Idle /\ op' # Idle /\ pages' = pages
      /\ op'.kind = "update" /\ op'.scanned = hits /\ op'.todo = places
      /\ op'.ids = table.page_ids /\ op'.column = column /\ op'.value = value
      /\ ~UpdateConflicts(match, column, value)
  BY DEF BeginUpdate, Running, Idle, Rows
<1>2. CurrentIds = table.page_ids /\ CurrentIds' = table.page_ids
  BY <1>1 DEF CurrentIds
<1>3. TextsDiffer(pages, CurrentIds)'
  BY <1>1, <1>2
<1>4. /\ hits \in Seq(Hit)
      /\ \A i \in DOMAIN hits : hits[i].row = RowAt(pages, hits[i].id)
      /\ \A x \in LiveIds(pages, table.page_ids) : \E i \in DOMAIN hits : hits[i].id = x
  <2>1. HeapSound(pages, table.page_ids)
    BY Facts
  <2>2. QED
    BY <2>1, ScanRows
<1>5. ASSUME column = "text"
      PROVE  /\ \A i, j \in places : i = j
             /\ \A i \in places : \A x \in LiveIds(pages, table.page_ids) :
                   RowAt(pages, x).text = value => x = hits[i].id
  <2>1. Unique(column) /\ value # Null
    BY <1>5 DEF Unique, Values
  <2>2. /\ ~(Cardinality(places) > 1)
        /\ \A i \in DOMAIN hits : hits[i].row.text = value => places = {i}
    BY <1>1, <1>5, <2>1 DEF UpdateConflicts, Rows
  <2>3. Len(hits) \in Nat /\ places \in SUBSET (1 .. Len(hits))
    BY <1>4, LenProperties
  <2> HIDE DEF hits, places
  <2>4. \A i, j \in places : i = j
    BY <2>2, <2>3, AtMostOne
  <2>5. QED
    BY <1>4, <2>2, <2>4
<1>6. OneTakesText'
  <2> HIDE DEF hits, places
  <2>1. QED
    BY <1>1, <1>5 DEF OneTakesText
<1>7. QED
  BY <1>3, <1>6 DEF TextsTrue

\* UPDATE gives its row the text that it had, or the one that no other row has.
LEMMA UpdateRowTexts ==
    ASSUME IInv, NEW grow \in BOOLEAN, UpdateRow(grow),
           TextsDiffer(pages, CurrentIds), OneTakesText
    PROVE  TextsTrue'
<1> DEFINE h == NextRow
           row == NewRow(h)
           new == Updated(pages, op.ids, h.id, row)
<1>1. /\ op.kind = "update" /\ op.todo # {} /\ op' = [PastRow EXCEPT !.ids = new.ids]
      /\ pages' = new.pages /\ ~Stuck(h)
  BY DEF UpdateRow
<1>2. op # Idle /\ CurrentIds = op.ids /\ op \in Statements
  <2>1. op # Idle
    BY <1>1, Facts
  <2>2. QED
    BY <1>1, <2>1, Facts DEF IInv, Typed
<1>3. /\ h \in Hit /\ h.id \in LiveIds(pages, op.ids) /\ RowAt(pages, h.id) = h.row
      /\ Min(op.todo) \in op.todo /\ h = op.scanned[Min(op.todo)]
  BY <1>1, <1>2, NextFacts
<1>4. row \in Row /\ (StaysInPlace(pages, h.id, row) \/ ~TooLarge(row))
  BY <1>1, <1>2, <1>3, NewRowTyped DEF Stuck
<1>5. HeapSound(pages, op.ids) /\ op.ids \in Seq(Nat)
  BY <1>2, Facts
<1>6. \A x \in LiveIds(pages, op.ids) \ {h.id} : RowAt(pages, x).text # row.text
  <2>1. CASE op.column = "text"
    <3>1. row.text = op.value
      BY <1>3, <2>1 DEF NewRow, Hit, Row
    <3>2. \A x \in LiveIds(pages, op.ids) : RowAt(pages, x).text = op.value => x = h.id
      BY <1>1, <1>2, <1>3, <2>1 DEF OneTakesText
    <3>3. QED
      BY <3>1, <3>2
  <2>2. CASE op.column = "key"
    <3>1. row.text = RowAt(pages, h.id).text
      BY <1>3, <2>2 DEF NewRow, Hit, Row
    <3> HIDE DEF row, h
    <3>2. QED
      BY <1>2, <1>3, <3>1 DEF TextsDiffer
  <2>3. QED
    BY <1>1, <1>2, <2>1, <2>2 DEF Statements, Statement
<1> DEFINE gone == {h.id}
           come == {new.id}
<1>7. Change(pages, op.ids, gone, come, row, new.pages, new.ids)
  BY <1>3, <1>4, <1>5, UpdatedChange
<1>8. /\ \A x, y \in come : x = y
      /\ \A x \in LiveIds(pages, op.ids) \ gone : RowAt(pages, x).text # row.text
      /\ TextsDiffer(pages, op.ids)
  BY <1>2, <1>6
<1> HIDE DEF h, row, new, gone, come
<1>9. new.ids \in Seq(Nat)
  BY <1>7 DEF Change, HeapSound
<1>10. TextsDiffer(new.pages, new.ids)
  BY <1>7, <1>8, TextsMore
<1>11. /\ op' # Idle /\ op'.ids = new.ids /\ op'.kind = op.kind /\ op'.column = op.column
       /\ op'.todo = op.todo \ {Min(op.todo)}
  BY <1>1, <1>2, <1>9, PastRowFacts
<1>12. op.column = "text" => op'.todo = {}
  <2>1. op.column = "text" => \A i \in op.todo : i = Min(op.todo)
    BY <1>1, <1>2, <1>3 DEF OneTakesText
  <2>2. QED
    BY <1>11, <2>1
<1>13. OneTakesText'
  BY <1>11, <1>12 DEF OneTakesText
<1>14. QED
  BY <1>1, <1>10, <1>11, <1>13 DEF TextsTrue, CurrentIds

\* Steps after which the rows of the page list in use are rows that were there, as
\* they were, and no UPDATE has more to do than before.
LEMMA OtherTexts ==
    ASSUME IInv, TextsDiffer(pages, CurrentIds), OneTakesText, Next, ~UpdateInterrupted,
           TextUnique, IoErrors => ~diverged',
           ~\E row \in Row, grow \in BOOLEAN : Insert(row, grow),
           ~\E match \in Predicates, column \in {"key", "text"} :
              \E value \in Values(column) : BeginUpdate(match, column, value),
           ~\E grow \in BOOLEAN : UpdateRow(grow)
    PROVE  TextsTrue'
<1>1. ASSUME NEW row \in Row, InsertInterrupted(row)
      PROVE  TextsTrue'
  <2>1. /\ op = Idle /\ op' = Idle /\ table' = table
        /\ pages' = Append(pages, ZeroPage)
    BY <1>1 DEF InsertInterrupted, Interrupted
  <2>2. HeapSound(pages, table.page_ids) /\ TextsDiffer(pages, table.page_ids)
    BY <2>1, Facts DEF CurrentIds
  <2>3. Change(pages, table.page_ids, {}, {}, row, pages', table.page_ids)
    BY <2>1, <2>2, LeakChange
  <2>4. \A x \in LiveIds(pages', table.page_ids) :
           x \in LiveIds(pages, table.page_ids) /\ RowAt(pages', x) = RowAt(pages, x)
    BY <2>3 DEF Change
  <2>5. TextsDiffer(pages', table.page_ids)
    BY <2>2, <2>4, TextsFewer
  <2>6. QED
    BY <2>1, <2>5, IdleTexts
<1>2. CASE CreateIndex \/ CreateIndexRevoked
  <2>1. op = Idle /\ op' = Idle /\ pages' = pages /\ table'.page_ids = table.page_ids
    BY <1>2, Facts DEF CreateIndex, CreateIndexRevoked, WithIndex
  <2>2. TextsDiffer(pages, table.page_ids)'
    BY <2>1 DEF CurrentIds
  <2>3. QED
    BY <2>1, <2>2, IdleTexts
<1>3. ASSUME NEW match \in Predicates, BeginDelete(match)
      PROVE  TextsTrue'
  <2>1. /\ op = Idle /\ op' # Idle /\ op'.kind = "delete" /\ pages' = pages
        /\ op'.ids = table.page_ids
    BY <1>3 DEF BeginDelete, Running, Idle
  <2>2. QED
    BY <2>1 DEF TextsTrue, CurrentIds, OneTakesText
<1>4. CASE DeleteRow
  <2>1. /\ op.kind = "delete" /\ op.todo # {} /\ op' = PastRow
        /\ pages' = Deleted(pages, NextRow.id)
    BY <1>4 DEF DeleteRow
  <2>2. op # Idle /\ CurrentIds = op.ids /\ op \in Statements
    <3>1. op # Idle
      BY <2>1, Facts
    <3>2. QED
      BY <2>1, <3>1, Facts DEF IInv, Typed
  <2>3. NextRow.id \in LiveIds(pages, op.ids) /\ HeapSound(pages, op.ids) /\ op.ids \in Seq(Nat)
    BY <2>1, <2>2, NextFacts, Facts
  <2>4. Change(pages, op.ids, {NextRow.id}, {}, NextRow.row, pages', op.ids)
    BY <2>1, <2>3, DeletedChange
  <2>5. \A x \in LiveIds(pages', op.ids) :
           x \in LiveIds(pages, op.ids) /\ RowAt(pages', x) = RowAt(pages, x)
    BY <2>4 DEF Change
  <2>6. TextsDiffer(pages', op.ids)
    BY <2>2, <2>5, TextsFewer
  <2>7. op' # Idle /\ op'.kind = "delete" /\ op'.ids = op.ids
    <3>1. op' = [PastRow EXCEPT !.ids = op.ids]
      BY <2>1, <2>2 DEF PastRow, Statements, Statement
    <3> DEFINE next == [PastRow EXCEPT !.ids = op.ids]
    <3>2. next # Idle /\ next.kind = op.kind /\ next.ids = op.ids
      BY <2>2, <2>3, PastRowFacts
    <3> HIDE DEF next
    <3>3. QED
      BY <2>1, <3>1, <3>2 DEF next
  <2>8. QED
    BY <2>6, <2>7 DEF TextsTrue, CurrentIds, OneTakesText
<1>5. CASE DeleteInterrupted \/ FinishDelete
  <2>1. /\ op.kind = "delete" /\ op' = Idle /\ pages' = pages
        /\ table'.page_ids = table.page_ids
    BY <1>5, Facts DEF DeleteInterrupted, FinishDelete
  <2>2. CurrentIds = table.page_ids
    BY <2>1, Facts DEF IInv, ListsSound
  <2>3. TextsDiffer(pages, table.page_ids)'
    BY <2>1, <2>2
  <2>4. QED
    BY <2>1, <2>3, IdleTexts
<1>6. CASE UpdateFails
  <2>1. op' = Idle /\ pages' = pages /\ table' = table
    BY <1>6 DEF UpdateFails
  <2>2. LiveIds(pages, table.page_ids) \subseteq LiveIds(pages, CurrentIds)
    BY Facts, ShorterLive
  <2>3. TextsDiffer(pages', table'.page_ids)
    BY <2>1, <2>2, TextsFewer
  <2>4. QED
    BY <2>1, <2>3, IdleTexts
<1>7. CASE FinishUpdate
  <2>1. op.kind = "update" /\ op' = Idle /\ pages' = pages /\ table'.page_ids = op.ids
    BY <1>7, Facts DEF FinishUpdate
  <2>2. CurrentIds = op.ids
    BY <2>1, Facts
  <2>3. TextsDiffer(pages, table.page_ids)'
    BY <2>1, <2>2
  <2>4. QED
    BY <2>1, <2>3, IdleTexts
<1>8. CASE Restart
  <2>1. /\ op = Idle /\ op' = Idle /\ pages' = pages
        /\ table'.page_ids = stored.page_ids
    BY <1>8 DEF Restart
  <2>2. LiveIds(pages, stored.page_ids) \subseteq LiveIds(pages, CurrentIds)
    BY Facts, ShorterLive
  <2>3. TextsDiffer(pages', table'.page_ids)
    BY <2>1, <2>2, TextsFewer
  <2>4. QED
    BY <2>1, <2>3, IdleTexts
<1>9. QED
  BY <1>1, <1>2, <1>3, <1>4, <1>5, <1>6, <1>7, <1>8 DEF Next

\* A statement that has left its traces has left them for good.
LEMMA DivergedStays == [Next]_vars /\ diverged => diverged'
<1>1. SUFFICES ASSUME Next, diverged
               PROVE  diverged'
  BY DEF vars
<1>2. QED
  BY <1>1 DEF Next, Insert, InsertInterrupted, CreateIndex, CreateIndexRevoked,
              BeginDelete, DeleteRow,
              DeleteInterrupted, Interrupted, FinishDelete, BeginUpdate, UpdateRow,
              UpdateFails, UpdateInterrupted, FinishUpdate, Restart, Store

\* Every step keeps the texts of a UNIQUE column apart.
LEMMA TextsInvariant == IInv /\ TextsTrue /\ [Next]_vars => TextsTrue'
<1>1. SUFFICES ASSUME IInv, TextsTrue, [Next]_vars, TextUnique, IoErrors => ~diverged'
               PROVE  TextsTrue'
  BY DEF TextsTrue
<1>2. TextsDiffer(pages, CurrentIds) /\ OneTakesText
  BY <1>1, DivergedStays DEF TextsTrue
<1>3. CASE UNCHANGED vars
  BY <1>2, <1>3 DEF vars, TextsTrue, TextsDiffer, OneTakesText, CurrentIds
<1>4. CASE Next
  <2>1. ~UpdateInterrupted
    BY <1>1 DEF UpdateInterrupted, Interrupted
  <2>2. ASSUME NEW row \in Row, NEW grow \in BOOLEAN, Insert(row, grow)
        PROVE  TextsTrue'
    BY <1>1, <1>2, <2>2, InsertTexts
  <2>3. ASSUME NEW match \in Predicates, NEW column \in {"key", "text"},
               NEW value \in Values(column), BeginUpdate(match, column, value)
        PROVE  TextsTrue'
    BY <1>1, <1>2, <2>3, BeginUpdateTexts
  <2>4. ASSUME NEW grow \in BOOLEAN, UpdateRow(grow)
        PROVE  TextsTrue'
    BY <1>1, <1>2, <2>4, UpdateRowTexts
  <2>5. QED
    BY <1>1, <1>2, <1>4, <2>1, <2>2, <2>3, <2>4, OtherTexts
<1>5. QED
  BY <1>1, <1>3, <1>4

\* A UNIQUE text column holds no value twice, also in the middle of an UPDATE and
\* after statements that fail, as long as no I/O error has cut one short: the check
\* before an UPDATE counts the rows it is to change and looks at all the others.
THEOREM TextsAlwaysUnique == Spec => []TextsUnique
<1>1. Init => IInv /\ TextsTrue
  <2>1. ASSUME Init
        PROVE  TextsTrue
    <3>1. op = Idle /\ table.page_ids = <<>>
      BY <2>1 DEF Init
    <3>2. LiveIds(pages, <<>>) = {}
      BY DEF LiveIds, ToSet
    <3>3. QED
      BY <3>1, <3>2 DEF TextsTrue, TextsDiffer, OneTakesText, CurrentIds
  <2>2. QED
    BY <2>1, InitInvariant
<1>2. IInv /\ TextsTrue /\ [Next]_vars => (IInv /\ TextsTrue)'
  BY NextInvariant, TextsInvariant
<1>3. IInv /\ TextsTrue => TextsUnique
  <2>1. SUFFICES ASSUME IInv, TextsDiffer(pages, CurrentIds),
                        NEW i \in DOMAIN Current, NEW j \in DOMAIN Current,
                        Current[i].row.text = Current[j].row.text
                 PROVE  i = j
    BY DEF TextsTrue, TextsUnique
  <2>2. Current[i].id = Current[j].id
    BY <2>1, CurrentRows DEF TextsDiffer
  <2>3. QED
    BY <2>1, <2>2, CurrentRows
<1>4. QED
  BY <1>1, <1>2, <1>3, PTL DEF Spec
=============================================================================
