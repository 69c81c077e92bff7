----------------------------- MODULE RecordPage -----------------------------
(***************************************************************************)
(* src/src/storage/slotted_page.cpp as the heap sees it: a list of slots   *)
(* that only grows, each holding a record or a tombstone, and an amount of *)
(* free space.  The 16-bit offsets and lengths behind it are left out.     *)
(***************************************************************************)
EXTENDS Integers, Sequences

CONSTANTS PageSpace,  \* bytes an empty page can give to records and slots
          SlotSize,   \* bytes of one slot entry: 4 in the code
          NoRecord    \* what a tombstone holds

ASSUME PageAssumption == PageSpace \in Nat /\ SlotSize \in Nat

EmptyPage == [slots |-> <<>>, free |-> PageSpace]
Tombstone == [len |-> 0, rec |-> NoRecord]

SlotsOf(pg) == DOMAIN pg.slots
Live(pg, s) == s \in SlotsOf(pg) /\ pg.slots[s].len # 0

\* A record of n bytes fits when its slot entry fits with it.
Fits(pg, n) == n + SlotSize <= pg.free

WithRecord(pg, rec, n) == [slots |-> Append(pg.slots, [len |-> n, rec |-> rec]),
                           free  |-> pg.free - n - SlotSize]

\* Fault: the last slot is given back, so its number is used again.
WithoutRecordTrimmed(pg, s) ==
    IF s = Len(pg.slots) THEN [pg EXCEPT !.slots = SubSeq(@, 1, s - 1)]
    ELSE [pg EXCEPT !.slots[s] = Tombstone]

WithoutRecord(pg, s) == [pg EXCEPT !.slots[s] = Tombstone]

\* An update overwrites the old bytes; it never moves a record within the page.
FitsInPlace(pg, s, n) == n <= pg.slots[s].len

\* Fault: the slot keeps the length of the old record.
WithReplacedOldLength(pg, s, rec, n) == [pg EXCEPT !.slots[s].rec = rec]

WithReplaced(pg, s, rec, n) == [pg EXCEPT !.slots[s] = [len |-> n, rec |-> rec]]
=============================================================================
