---------------------------- MODULE SlottedPage ----------------------------
(***************************************************************************)
(* src/src/storage/slotted_page.cpp on the bytes of one page: a header, a  *)
(* slot directory that grows up behind it, serialized rows that grow down  *)
(* from the end.  A header field and each half of a slot entry take one    *)
(* cell of the page, like a byte of a record.  RecordPage is what the heap *)
(* needs to know of it.                                                    *)
(***************************************************************************)
EXTENDS Serialization

CONSTANTS PageSize,  \* cells of a page: 4096 bytes in the code
          Rows,      \* rows that are stored
          Deleted,   \* what a deleted slot holds
          MaxSlots   \* bound on the slots of the page

VARIABLES page,  \* SlottedPage::bytes_
          held   \* history: the row each slot was last given, or Deleted

vars == <<page, held>>

Cells == 0 .. PageSize - 1
Magic == 0
SlotCount == 1
FreeStart == 2
FreeEnd == 3
HeaderSize == 4
SlotSize == 2
kMagic == Base  \* no byte: the header fields are wider than one

ASSUME PageSizeAssumption == /\ PageSize \in Nat /\ PageSize >= HeaderSize
                             /\ \A row \in Rows : Serializable(row)
                             /\ Deleted \notin Rows

\* The slots of a page and their directory entries; slots count from 0.
Slots(pg) == 0 .. pg[SlotCount] - 1
Entry(slot) == HeaderSize + slot * SlotSize
Offset(pg, slot) == pg[Entry(slot)]
Length(pg, slot) == pg[Entry(slot) + 1]
FreeSpace(pg) == pg[FreeEnd] - pg[FreeStart]

\* read_record
Record(pg, slot) == [i \in 1 .. Length(pg, slot) |-> pg[Offset(pg, slot) + i - 1]]
----------------------------------------------------------------------------
\* validate(), which load_slotted_page asks before it takes a page.
Valid(pg) ==
    /\ pg[Magic] = kMagic
    /\ pg[FreeStart] = HeaderSize + pg[SlotCount] * SlotSize
    /\ pg[FreeStart] <= pg[FreeEnd] /\ pg[FreeEnd] <= PageSize
    /\ \A s \in Slots(pg) : /\ pg[FreeEnd] <= Offset(pg, s)
                            /\ Offset(pg, s) + Length(pg, s) <= PageSize
    /\ \A s, t \in Slots(pg) :
          \/ s = t \/ Length(pg, s) = 0 \/ Length(pg, t) = 0
          \/ Offset(pg, s) + Length(pg, s) <= Offset(pg, t)
          \/ Offset(pg, t) + Length(pg, t) <= Offset(pg, s)

\* The page after record is copied to cell `at`.
Copied(pg, record, at) ==
    [c \in Cells |-> IF c \in at .. at + Len(record) - 1 THEN record[c - at + 1] ELSE pg[c]]

Init == /\ page = [c \in Cells |-> CASE c = Magic     -> kMagic
                                     [] c = FreeStart -> HeaderSize
                                     [] c = FreeEnd   -> PageSize
                                     [] OTHER         -> 0]
        /\ held = <<>>

\* Fault: the slot entry is not counted.
RoomWithoutEntry(record) == Len(record) <= FreeSpace(page)

Room(record) == Len(record) + SlotSize <= FreeSpace(page)

InsertRecord(row) ==
    LET record == RowBytes(row)
        slot   == page[SlotCount]
        at     == page[FreeEnd] - Len(record)
    IN  /\ slot < MaxSlots
        /\ Room(record)
        /\ page' = [Copied(page, record, at) EXCEPT ![Entry(slot)]     = at,
                                                    ![Entry(slot) + 1] = Len(record),
                                                    ![SlotCount]       = slot + 1,
                                                    ![FreeStart]       = Entry(slot) + SlotSize,
                                                    ![FreeEnd]         = at]
        /\ held' = Append(held, row)

\* Fault: the last record gives its space back and keeps its slot.
DeleteRecordFreeing(slot) ==
    /\ slot \in Slots(page)
    /\ Length(page, slot) # 0
    /\ page' = [page EXCEPT ![Entry(slot) + 1] = 0,
                            ![FreeEnd] = IF slot = page[SlotCount] - 1
                                         THEN @ + Length(page, slot) ELSE @]
    /\ held' = [held EXCEPT ![slot + 1] = Deleted]

DeleteRecord(slot) ==
    /\ slot \in Slots(page)
    /\ Length(page, slot) # 0
    /\ page' = [page EXCEPT ![Entry(slot) + 1] = 0]
    /\ held' = [held EXCEPT ![slot + 1] = Deleted]

\* Fault: a shorter record leaves the length of the slot alone.
UpdateRecordKeepsLength(slot, row) ==
    LET record == RowBytes(row)
    IN  /\ slot \in Slots(page)
        /\ Length(page, slot) # 0
        /\ Len(record) <= Length(page, slot)
        /\ page' = Copied(page, record, Offset(page, slot))
        /\ held' = [held EXCEPT ![slot + 1] = row]

UpdateRecord(slot, row) ==
    LET record == RowBytes(row)
    IN  /\ slot \in Slots(page)
        /\ Length(page, slot) # 0
        /\ Len(record) <= Length(page, slot)
        /\ page' = [Copied(page, record, Offset(page, slot)) EXCEPT
                       ![Entry(slot) + 1] = Len(record)]
        /\ held' = [held EXCEPT ![slot + 1] = row]

Next == \/ \E row \in Rows : InsertRecord(row)
        \/ \E slot \in 0 .. MaxSlots - 1 : \/ DeleteRecord(slot)
                                           \/ \E row \in Rows : UpdateRecord(slot, row)

Spec == Init /\ [][Next]_vars
----------------------------------------------------------------------------
\* A page that was written can be loaded again: the directory never runs into
\* the records, and no record into another one, whatever was deleted, shrunk
\* or inserted up to the last cell.
LoadsAgain == Valid(page)

\* A live slot yields the row it was last given, also where a shorter row has
\* left the end of a longer one behind it, and a deleted one yields none.
RowsReadBack ==
    /\ Slots(page) = 0 .. Len(held) - 1
    /\ \A s \in Slots(page) :
          IF held[s + 1] = Deleted THEN Length(page, s) = 0
          ELSE IsRow(Record(page, s), held[s + 1])

\* A slot whose length is wrong is noticed: no part of a record and no record
\* with cells behind it is read as a row.
WrongLengthNoticed ==
    \A s \in Slots(page) :
       LET from == Offset(page, s)
       IN  held[s + 1] # Deleted =>
              \A n \in 0 .. PageSize - from :
                 n # Length(page, s) =>
                    Deserialized([i \in 1 .. n |-> page[from + i - 1]]).error # "none"

\* The bytes implement the page that TableHeap works on.
Abstract == INSTANCE RecordPage WITH PageSpace <- PageSize - HeaderSize, NoRecord <- Deleted
AsRecordPage ==
    [slots |-> [s \in 1 .. page[SlotCount] |->
                   [len |-> Length(page, s - 1),
                    rec |-> IF Length(page, s - 1) = 0 THEN Deleted
                            ELSE Deserialized(Record(page, s - 1)).values]],
     free  |-> FreeSpace(page)]

RecordPageStep(pg, next) ==
    \/ \E row \in Rows : /\ Abstract!Fits(pg, Len(RowBytes(row)))
                         /\ next = Abstract!WithRecord(pg, row, Len(RowBytes(row)))
    \/ \E s \in Abstract!SlotsOf(pg) :
          /\ Abstract!Live(pg, s)
          /\ \/ next = Abstract!WithoutRecord(pg, s)
             \/ \E row \in Rows :
                   /\ Abstract!FitsInPlace(pg, s, Len(RowBytes(row)))
                   /\ next = Abstract!WithReplaced(pg, s, row, Len(RowBytes(row)))

\* Every page starts as RecordPage's empty page, and every operation on its
\* bytes is the operation of RecordPage on the rows and lengths.
ImplementsRecordPage ==
    /\ AsRecordPage = Abstract!EmptyPage
    /\ [][\E pg \in {AsRecordPage}, next \in {AsRecordPage'} : RecordPageStep(pg, next)]_vars
=============================================================================
