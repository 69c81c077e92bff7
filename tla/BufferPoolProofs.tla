-------------------------- MODULE BufferPoolProofs --------------------------
(***************************************************************************)
(* Proofs about BufferPool for every number of pages, frames and guards:   *)
(* its types and pins, that it loses no update, its capacity, the order in *)
(* which it gives up frames, and that it implements PageStore.             *)
(***************************************************************************)
EXTENDS BufferPool, FiniteSetTheorems, TLAPS

USE MaxPagesAssumption, PoolAssumption

\* Every image that a fetch, a flush or a failed write puts in the file is one.
LEMMA FlushedType ==
    ASSUME TypeOK, NEW f, NEW D, f \in [D -> Image], NEW W, W \subseteq Cached
    PROVE  Flushed(f, W) \in [D -> Image]
BY DEF TypeOK, Flushed, Frame, Cached

\* A failed write leaves an image in the page it was meant for.
LEMMA FailedWritesType ==
    ASSUME NEW f, NEW D, f \in [D -> Image], NEW p \in D, NEW c \in Image,
           NEW h \in FailedWrites(f, p, c)
    PROVE  h \in [D -> Image]
BY DEF FailedWrites, Image

\* allocate_page leaves a file that is one page longer.
LEMMA AppendedType ==
    ASSUME TypeOK, CanAllocate
    PROVE  /\ Appended \in [0 .. page_count -> Image]
           /\ SinceAppended \in [0 .. page_count -> SUBSET Image]
           /\ page_count + 1 \in 0 .. MaxPages
           /\ 0 .. page_count = 0 .. (page_count + 1) - 1
           /\ PageIds \subseteq 0 .. page_count
BY DEF TypeOK, DiskTypeOK, CanAllocate, Appended, SinceAppended, PageIds, Image

\* load() drops nothing that it does not hold.
LEMMA EvictionsCached ==
    ASSUME NEW E \in Evictions
    PROVE  E \subseteq Cached
BY DEF Evictions, Victims

\* The typing of the state after a fetch, successful or not, whatever file of
\* n pages it starts from.
LEMMA FetchedType ==
    ASSUME TypeOK,
           NEW n \in 0 .. MaxPages, PageIds \subseteq 0 .. n - 1,
           NEW f \in [0 .. n - 1 -> Image], NEW s \in [0 .. n - 1 -> SUBSET Image],
           NEW g \in Guards, NEW p \in 0 .. MaxPages - 1,
           page_count' = n,
           Fetched(f, s, g, p)
    PROVE  TypeOK'
<1>1. /\ clock' \in Nat
      /\ guards' \in [Guards -> Guard]
  BY DEF TypeOK, Fetched, Guard
<1>2. CASE p \in Cached /\ file' = f
           /\ frames' = [frames EXCEPT ![p] = Pinned(@)]
  <2>1. frames' \in [Cached -> Frame]
    <3>1. Pinned(frames[p]) \in Frame
      BY <1>2 DEF TypeOK, Frame, Pinned, Cached
    <3>2. QED
      BY <1>2, <3>1 DEF TypeOK, Cached
  <2>2. QED
    BY <1>1, <1>2, <2>1 DEF TypeOK, DiskTypeOK, Cached, PageIds, Fetched
<1>3. ASSUME p \in DOMAIN f \ Cached, NEW E \in Evictions,
             file' = Flushed(f, Dirty(E)),
             frames' = [q \in (Cached \ E) \cup {p} |->
                           IF q = p THEN NewFrame(f[p]) ELSE frames[q]]
      PROVE  TypeOK'
  <2>1. file' \in [0 .. n - 1 -> Image]
    BY <1>3, FlushedType, EvictionsCached DEF Dirty
  <2>2. NewFrame(f[p]) \in Frame
    BY <1>3 DEF NewFrame, Frame, TypeOK
  <2>3. frames' \in [(Cached \ E) \cup {p} -> Frame]
    BY <1>3, <2>2 DEF TypeOK
  <2>4. DOMAIN frames' \subseteq 0 .. n - 1
    BY <1>3 DEF TypeOK
  <2>5. QED
    BY <1>1, <2>1, <2>3, <2>4 DEF TypeOK, DiskTypeOK, Cached, PageIds, Fetched
<1>4. QED
  BY <1>2, <1>3 DEF Fetched

\* The same after a fetch that reports an error.
LEMMA NotFetchedType ==
    ASSUME TypeOK,
           NEW n \in 0 .. MaxPages, PageIds \subseteq 0 .. n - 1,
           NEW f \in [0 .. n - 1 -> Image], NEW s \in [0 .. n - 1 -> SUBSET Image],
           NEW p,
           page_count' = n,
           NotFetched(f, s, p)
    PROVE  TypeOK'
<1>1. clock' \in Nat /\ guards' \in [Guards -> Guard]
  BY DEF TypeOK, NotFetched
<1>2. CASE file' = f /\ since' = s /\ UNCHANGED frames
  BY <1>1, <1>2 DEF TypeOK, DiskTypeOK, Cached, PageIds
<1>3. ASSUME NEW E \in Evictions, NEW v \in Dirty(E),
             file' \in FailedWrites(f, v, frames[v].bytes),
             since' = Damaged(s, v),
             UNCHANGED frames
      PROVE  TypeOK'
  <2>1. v \in 0 .. n - 1 /\ frames[v].bytes \in Image
    BY EvictionsCached DEF Dirty, TypeOK, Frame
  <2>2. file' \in [0 .. n - 1 -> Image]
    BY <1>3, <2>1, FailedWritesType
  <2>3. since' \in [0 .. n - 1 -> SUBSET Image]
    BY <1>3, <2>1 DEF Damaged, Image
  <2>4. QED
    BY <1>1, <1>3, <2>2, <2>3 DEF TypeOK, DiskTypeOK, Cached, PageIds
<1>4. ASSUME NEW E \in Evictions,
             file' = Flushed(f, Dirty(E)),
             frames' = [q \in Cached \ E |-> frames[q]],
             since' = s
      PROVE  TypeOK'
  <2>1. file' \in [0 .. n - 1 -> Image]
    BY <1>4, FlushedType, EvictionsCached DEF Dirty
  <2>2. QED
    BY <1>1, <1>4, <2>1 DEF TypeOK, DiskTypeOK, Cached, PageIds
<1>5. QED
  BY <1>2, <1>3, <1>4 DEF NotFetched

\* BufferPool::unpin leaves a well-typed frame.
LEMMA UnpinnedType ==
    ASSUME TypeOK, NEW g \in Guards
    PROVE  Unpinned(g) \in [Cached -> Frame]
<1>1. ASSUME NEW p \in Cached
      PROVE  Unpin(frames[p], guards[g].dirty) \in Frame
  BY DEF TypeOK, Unpin, Frame, Guard
<1>2. QED
  BY <1>1 DEF TypeOK, Unpinned, Cached

\* Clearing dirty flags leaves well-typed frames.
LEMMA CleanedType ==
    ASSUME TypeOK, NEW W
    PROVE  Cleaned(W) \in [Cached -> Frame]
BY DEF TypeOK, Cleaned, Clean, Frame

\* A failing flush leaves images in the file.
LEMMA FailedFlushType ==
    ASSUME TypeOK, NEW v \in Dirty(Cached), NEW W \in SUBSET (Dirty(Cached) \ {v}),
           NEW h \in FailedWrites(Flushed(file, W), v, frames[v].bytes)
    PROVE  h \in [PageIds -> Image]
<1>1. Flushed(file, W) \in [PageIds -> Image]
  BY FlushedType DEF Dirty, TypeOK, DiskTypeOK
<1>2. v \in PageIds /\ frames[v].bytes \in Image
  BY DEF Dirty, TypeOK, Frame
<1>3. QED
  BY <1>1, <1>2, FailedWritesType

\* The empty pool that a new process starts with is well typed.
LEMMA EmptyFrames ==
    /\ [p \in {} |-> NullGuard] \in [{} -> Frame]
    /\ NullGuard \in Guard
BY DEF NullGuard, Guard

\* Every step of the pool, of its clients or of a crash preserves the types.
LEMMA TypeStep == TypeOK /\ [Next]_vars => TypeOK'
<1> SUFFICES ASSUME TypeOK, [Next]_vars
             PROVE  TypeOK'
  OBVIOUS
<1>1. ASSUME NEW g \in Guards, NEW p \in Ids, FetchPage(g, p)
      PROVE  TypeOK'
  BY <1>1, FetchedType DEF FetchPage, TypeOK, DiskTypeOK, Ids, PageIds
<1>2. ASSUME NEW p \in Ids, FetchFails(p)
      PROVE  TypeOK'
  BY <1>2, NotFetchedType DEF FetchFails, TypeOK, DiskTypeOK, PageIds
<1>3. ASSUME NEW g \in Guards, AllocatePage(g)
      PROVE  TypeOK'
  <2>1. page_count \in 0 .. MaxPages - 1 /\ page_count' = page_count + 1
    BY <1>3 DEF AllocatePage, CanAllocate, TypeOK, DiskTypeOK
  <2>2. Fetched(Appended, SinceAppended, g, page_count)
    BY <1>3 DEF AllocatePage
  <2>3. (page_count + 1) - 1 = page_count
    BY <2>1
  <2>4. QED
    BY <1>3, <2>1, <2>2, <2>3, AppendedType, FetchedType DEF AllocatePage
<1>4. CASE AllocateLeaks
  BY <1>4, AppendedType, NotFetchedType DEF AllocateLeaks
<1>5. CASE AllocateOnDisk
  BY <1>5, AppendedType DEF AllocateOnDisk, TypeOK, DiskTypeOK, PageIds, Cached
<1>6. ASSUME NEW g \in Guards, NEW c \in Content, Modify(g, c)
      PROVE  TypeOK'
  <2>1. ASSUME NEW p \in Cached
        PROVE  Rewritten(frames[p], c) \in Frame
    BY DEF TypeOK, Frame, Rewritten, Image
  <2>2. frames' \in [Cached -> Frame]
    BY <1>6, <2>1 DEF Modify, TypeOK, Cached
  <2>3. guards' \in [Guards -> Guard]
    BY <1>6 DEF Modify, TypeOK, Guard
  <2>4. since' \in [PageIds -> SUBSET Image]
    BY <1>6 DEF Modify, TypeOK, Image
  <2>5. QED
    BY <1>6, <2>2, <2>3, <2>4 DEF Modify, TypeOK, DiskTypeOK, PageIds, Cached
<1>7. ASSUME NEW g \in Guards, Release(g)
      PROVE  TypeOK'
  BY <1>7, UnpinnedType, EmptyFrames DEF Release, TypeOK, DiskTypeOK, PageIds, Cached
<1>8. ASSUME NEW g \in Guards, NEW h \in Guards, Move(g, h)
      PROVE  TypeOK'
  <2>1. guards' \in [Guards -> Guard]
    <3>1. guards[h] \in Guard /\ NullGuard \in Guard
      BY EmptyFrames DEF TypeOK
    <3>2. [guards EXCEPT ![g] = guards[h]] \in [Guards -> Guard]
      BY <3>1 DEF TypeOK
    <3>3. guards' = [[guards EXCEPT ![g] = guards[h]] EXCEPT ![h] = NullGuard]
      BY <1>8 DEF Move, TypeOK
    <3>4. QED
      BY <3>1, <3>2, <3>3
  <2>2. QED
    <3>1. /\ frames' \in [Cached -> Frame]
          /\ clock' \in Nat
      BY <1>8, UnpinnedType DEF Move, TypeOK
    <3>2. DOMAIN frames' = Cached
      BY <3>1
    <3>3. QED
      BY <1>8, <2>1, <3>1, <3>2 DEF Move, TypeOK, DiskTypeOK, PageIds, Cached
<1>9. ASSUME NEW p \in Ids, FlushPage(p)
      PROVE  TypeOK'
  <2>1. CASE file' = Flushed(file, {p}) /\ frames' = Cleaned({p}) /\ UNCHANGED since
    <3>1. file' \in [PageIds -> Image]
      BY <1>9, <2>1, FlushedType DEF FlushPage, Dirty, TypeOK, DiskTypeOK
    <3>2. QED
      BY <1>9, <2>1, <3>1, CleanedType DEF FlushPage, TypeOK, DiskTypeOK, PageIds, Cached
  <2>2. CASE /\ file' \in FailedWrites(file, p, frames[p].bytes)
             /\ since' = Damaged(since, p)
             /\ UNCHANGED frames
    <3>1. p \in PageIds /\ frames[p].bytes \in Image
      BY <1>9 DEF FlushPage, Dirty, TypeOK, Frame
    <3>2. file' \in [PageIds -> Image]
      BY <2>2, <3>1, FailedWritesType DEF TypeOK, DiskTypeOK
    <3>3. since' \in [PageIds -> SUBSET Image]
      BY <2>2, <3>1 DEF Damaged, TypeOK, Image
    <3>4. QED
      BY <1>9, <2>2, <3>2, <3>3 DEF FlushPage, TypeOK, DiskTypeOK, PageIds, Cached
  <2>3. QED
    BY <1>9, <2>1, <2>2 DEF FlushPage
<1>10. CASE FlushAll
  <2>1. CASE FlushAllDone /\ since' = [p \in PageIds |-> IF p \in Unreleased
                                                       THEN since[p] ELSE {View(p)}]
    <3>1. file' \in [PageIds -> Image]
      BY <2>1, FlushedType DEF FlushAllDone, Dirty, TypeOK, DiskTypeOK
    <3>2. since' \in [PageIds -> SUBSET Image]
      BY <2>1 DEF View, TypeOK, DiskTypeOK, Frame
    <3>3. QED
      BY <1>10, <2>1, <3>1, <3>2, CleanedType
      DEF FlushAll, FlushAllDone, TypeOK, DiskTypeOK, PageIds, Cached
  <2>2. CASE FlushAllDone /\ UNCHANGED since
    <3>1. file' \in [PageIds -> Image]
      BY <2>2, FlushedType DEF FlushAllDone, Dirty, TypeOK, DiskTypeOK
    <3>2. QED
      BY <1>10, <2>2, <3>1, CleanedType
      DEF FlushAll, FlushAllDone, TypeOK, DiskTypeOK, PageIds, Cached
  <2>3. ASSUME NEW v \in Dirty(Cached), NEW W \in SUBSET (Dirty(Cached) \ {v}),
               file' \in FailedWrites(Flushed(file, W), v, frames[v].bytes),
               frames' = Cleaned(W),
               since' = Damaged(since, v)
        PROVE  TypeOK'
    <3>1. file' \in [PageIds -> Image]
      BY <2>3, FailedFlushType
    <3>2. since' \in [PageIds -> SUBSET Image]
      BY <2>3 DEF Damaged, Dirty, TypeOK, Image
    <3>3. QED
      BY <1>10, <2>3, <3>1, <3>2, CleanedType
      DEF FlushAll, TypeOK, DiskTypeOK, PageIds, Cached
  <2>4. QED
    BY <1>10, <2>1, <2>2, <2>3 DEF FlushAll, FlushAllFails
<1>11. ASSUME NEW c \in Catalogs, StoreCatalog(c)
       PROVE  TypeOK'
  <2>1. file' \in [PageIds -> Image]
    BY <1>11 DEF StoreCatalog, TypeOK, DiskTypeOK, Image
  <2>2. since' \in [PageIds -> SUBSET Image]
    BY <1>11 DEF StoreCatalog, TypeOK, Image
  <2>3. QED
    BY <1>11, <2>1, <2>2 DEF StoreCatalog, TypeOK, DiskTypeOK, PageIds, Cached
<1>12. ASSUME file' \in [PageIds -> Image], Forget
       PROVE  TypeOK'
  BY <1>12, EmptyFrames DEF Forget, TypeOK, DiskTypeOK, PageIds, Cached
<1>13. CASE Shutdown
  <2>1. Flushed(file, Dirty(Cached)) \in [PageIds -> Image]
    BY FlushedType DEF Dirty, TypeOK, DiskTypeOK
  <2>2. QED
    BY <1>12, <1>13, <2>1, FailedFlushType DEF Shutdown
<1>14. CASE Crash
  BY <1>12, <1>14 DEF Crash, TypeOK, DiskTypeOK
<1>15. CASE UNCHANGED vars
  BY <1>15 DEF vars, TypeOK, DiskTypeOK, PageIds, Cached
<1>16. QED
  BY <1>1, <1>2, <1>3, <1>4, <1>5, <1>6, <1>7, <1>8, <1>9, <1>10, <1>11,
     <1>13, <1>14, <1>15 DEF Next

\* A process starts well typed.
LEMMA TypeInit == Init => TypeOK
BY EmptyFrames DEF Init, TypeOK, DiskTypeOK, PageIds, Cached, Image

\* TypeOK holds in every reachable state of the pool.
THEOREM TypeCorrect == Spec => []TypeOK
<1>1. Init => TypeOK
  BY TypeInit
<1>2. TypeOK /\ [Next]_vars => TypeOK'
  BY TypeStep
<1>3. QED
  BY <1>1, <1>2, PTL DEF Spec
----------------------------------------------------------------------------
\* Pins: every live guard is counted by the frame it points into.

\* The guards on a page can be counted.
LEMMA HoldersFinite ==
    ASSUME NEW p
    PROVE  IsFiniteSet(Holders(p)) /\ Cardinality(Holders(p)) \in Nat
<1>1. Holders(p) \subseteq Guards
  BY DEF Holders
<1>2. QED
  BY <1>1, FS_Subset, FS_CardinalityType

\* No guard is on a page that load() may drop.
LEMMA EvictedUnheld ==
    ASSUME TypeOK, PinsMatchGuards, NEW E \in Evictions, NEW g \in Guards,
           guards[g].live
    PROVE  guards[g].page \in Cached \ E
<1>1. ASSUME guards[g].page \in E
      PROVE  FALSE
  <2>1. frames[guards[g].page].pin_count = 0 /\ guards[g].page \in Cached
    BY <1>1 DEF Evictions, Victims
  <2>2. Cardinality(Holders(guards[g].page)) = 0
    BY <2>1 DEF PinsMatchGuards
  <2>3. Holders(guards[g].page) = {}
    BY <2>2, HoldersFinite, FS_EmptySet
  <2>4. QED
    BY <2>3 DEF Holders
<1>2. QED
  BY <1>1 DEF PinsMatchGuards

\* A fetch adds one pin and one guard to its page, and takes none from another.
LEMMA FetchedPins ==
    ASSUME TypeOK, PinsMatchGuards, NEW f, NEW s, NEW g \in Guards, NEW p,
           Fetched(f, s, g, p)
    PROVE  PinsMatchGuards'
<1> DEFINE taken == [live |-> TRUE, page |-> p, dirty |-> FALSE]
<1>1. /\ ~guards[g].live
      /\ guards' = [guards EXCEPT ![g] = taken]
  BY DEF Fetched
<1>2. /\ guards'[g].live /\ guards'[g].page = p
      /\ \A h \in Guards \ {g} : guards'[h] = guards[h]
  BY <1>1 DEF TypeOK
<1>3. /\ Holders(p)' = Holders(p) \cup {g}
      /\ g \notin Holders(p)
      /\ \A q : q # p => Holders(q)' = Holders(q)
  BY <1>1, <1>2 DEF Holders
<1>4. Cardinality(Holders(p)') = Cardinality(Holders(p)) + 1
  BY <1>3, HoldersFinite, FS_AddElement
<1>5. CASE p \in Cached /\ frames' = [frames EXCEPT ![p] = Pinned(@)]
  <2>1. /\ frames'[p].pin_count = frames[p].pin_count + 1
        /\ DOMAIN frames' = Cached
        /\ \A q \in Cached \ {p} : frames'[q] = frames[q]
    BY <1>5 DEF Pinned, TypeOK, Cached
  <2>2. \A h \in Guards : guards'[h].live => guards'[h].page \in DOMAIN frames'
    BY <1>2, <1>5, <2>1 DEF PinsMatchGuards
  <2>3. \A q \in DOMAIN frames' : frames'[q].pin_count = Cardinality(Holders(q)')
    <3>1. frames'[p].pin_count = Cardinality(Holders(p)')
      BY <1>4, <1>5, <2>1 DEF PinsMatchGuards
    <3>2. ASSUME NEW q \in Cached, q # p
          PROVE  frames'[q].pin_count = Cardinality(Holders(q)')
      <4>1. frames'[q] = frames[q] /\ Holders(q)' = Holders(q)
        BY <1>3, <2>1, <3>2
      <4>2. QED
        BY <3>2, <4>1 DEF PinsMatchGuards
    <3>3. QED
      BY <2>1, <3>1, <3>2
  <2>4. QED
    BY <2>2, <2>3 DEF PinsMatchGuards, Cached
<1>6. ASSUME p \notin Cached, NEW E \in Evictions,
             frames' = [q \in (Cached \ E) \cup {p} |->
                           IF q = p THEN NewFrame(f[p]) ELSE frames[q]]
      PROVE  PinsMatchGuards'
  <2>1. Holders(p) = {}
    BY <1>6 DEF Holders, PinsMatchGuards
  <2>2. Cardinality(Holders(p)') = 1
    BY <1>4, <2>1, FS_EmptySet
  <2>3. frames'[p].pin_count = 1
    BY <1>6 DEF NewFrame
  <2>4. \A q \in DOMAIN frames' : q # p => q \in Cached /\ frames'[q] = frames[q]
    BY <1>6
  <2>5. \A h \in Guards : guards'[h].live => guards'[h].page \in DOMAIN frames'
    BY <1>2, <1>6, EvictedUnheld
  <2>6. QED
    BY <1>3, <2>2, <2>3, <2>4, <2>5 DEF PinsMatchGuards, Cached
<1>7. QED
  BY <1>5, <1>6 DEF Fetched

\* A failed fetch drops at most a frame that no guard is on.
LEMMA NotFetchedPins ==
    ASSUME TypeOK, PinsMatchGuards, NEW f, NEW s, NEW p, NotFetched(f, s, p)
    PROVE  PinsMatchGuards'
<1>1. guards' = guards /\ \A q : Holders(q)' = Holders(q)
  BY DEF NotFetched, Holders
<1>2. CASE UNCHANGED frames
  BY <1>1, <1>2 DEF PinsMatchGuards, Cached
<1>3. ASSUME NEW E \in Evictions, frames' = [q \in Cached \ E |-> frames[q]]
      PROVE  PinsMatchGuards'
  BY <1>1, <1>3, EvictedUnheld DEF PinsMatchGuards, Cached
<1>4. QED
  BY <1>2, <1>3 DEF NotFetched

\* Frames that keep their pages and pins under unchanged guards.
LEMMA SamePins ==
    ASSUME TypeOK, PinsMatchGuards,
           Cached' = Cached,
           \A p \in Cached : frames'[p].pin_count = frames[p].pin_count,
           \A g \in Guards : /\ guards'[g].live = guards[g].live
                             /\ guards'[g].page = guards[g].page
    PROVE  PinsMatchGuards'
<1>1. \A q : Holders(q)' = Holders(q)
  BY DEF Holders
<1>2. QED
  BY <1>1 DEF PinsMatchGuards

\* A release takes one guard and one pin from its page.
LEMMA ReleasePins ==
    ASSUME TypeOK, PinsMatchGuards, NEW g \in Guards, NEW p, p = guards[g].page,
           Release(g)
    PROVE  PinsMatchGuards'
<1>1. /\ guards[g].live
      /\ p \in Cached
      /\ frames' = Unpinned(g)
      /\ guards' = [guards EXCEPT ![g] = NullGuard]
  BY DEF Release, PinsMatchGuards
<1>2. /\ ~guards'[g].live
      /\ \A h \in Guards \ {g} : guards'[h] = guards[h]
  BY <1>1 DEF TypeOK, NullGuard
<1>3. /\ Holders(p)' = Holders(p) \ {g}
      /\ g \in Holders(p)
      /\ \A q : q # p => Holders(q)' = Holders(q)
  BY <1>1, <1>2 DEF Holders
<1>4. /\ Cardinality(Holders(p)') = Cardinality(Holders(p)) - 1
      /\ Cardinality(Holders(p)') \in Nat
      /\ Cardinality(Holders(p)) \in Nat
  BY <1>3, HoldersFinite, FS_RemoveElement, FS_CardinalityType
<1>5. /\ DOMAIN frames' = Cached
      /\ frames'[p].pin_count = IF frames[p].pin_count > 0
                                THEN frames[p].pin_count - 1 ELSE 0
      /\ \A q \in Cached \ {p} : frames'[q] = frames[q]
  BY <1>1 DEF Unpinned, Unpin, TypeOK, Cached
<1>6. frames[p].pin_count = Cardinality(Holders(p))
  BY <1>1 DEF PinsMatchGuards
<1>7. frames'[p].pin_count = Cardinality(Holders(p)')
  BY <1>4, <1>5, <1>6
<1>8. \A h \in Guards : guards'[h].live => guards'[h].page \in Cached
  BY <1>2 DEF PinsMatchGuards
<1>9. QED
  BY <1>3, <1>5, <1>7, <1>8 DEF PinsMatchGuards, Cached

\* A move assignment releases the page it held, if any, and takes over the other.
LEMMA MovePins ==
    ASSUME TypeOK, PinsMatchGuards, NEW g \in Guards, NEW h \in Guards,
           NEW p, p = guards[g].page, NEW r, r = guards[h].page,
           Move(g, h)
    PROVE  PinsMatchGuards'
<1>1. /\ g # h
      /\ guards[h].live
      /\ r \in Cached
      /\ guards' = [guards EXCEPT ![g] = guards[h], ![h] = NullGuard]
  BY DEF Move, PinsMatchGuards
<1>2. /\ guards'[g] = guards[h]
      /\ ~guards'[h].live
      /\ \A x \in Guards \ {g, h} : guards'[x] = guards[x]
  BY <1>1 DEF TypeOK, NullGuard
<1>3. \A x \in Guards : guards'[x].live => guards'[x].page \in Cached
  BY <1>1, <1>2 DEF PinsMatchGuards
<1>4. /\ h \in Holders(r)
      /\ IsFiniteSet(Holders(r))
      /\ Cardinality(Holders(r)) \in Nat
  BY <1>1, HoldersFinite DEF Holders
<1>5. CASE ~guards[g].live
  <2>1. frames' = frames
    BY <1>5 DEF Move
  <2>2. /\ Holders(r)' = (Holders(r) \ {h}) \cup {g}
        /\ g \notin Holders(r) \ {h}
        /\ \A q : q # r => Holders(q)' = Holders(q)
    BY <1>1, <1>2, <1>5 DEF Holders
  <2>3. Cardinality(Holders(r)') = Cardinality(Holders(r))
    <3>1. /\ IsFiniteSet(Holders(r) \ {h})
          /\ Cardinality(Holders(r) \ {h}) = Cardinality(Holders(r)) - 1
      BY <1>4, FS_RemoveElement
    <3>2. Cardinality((Holders(r) \ {h}) \cup {g}) = Cardinality(Holders(r) \ {h}) + 1
      BY <2>2, <3>1, FS_AddElement
    <3>3. QED
      BY <1>4, <2>2, <3>1, <3>2
  <2>4. QED
    BY <1>3, <2>1, <2>2, <2>3 DEF PinsMatchGuards, Cached
<1>6. CASE guards[g].live
  <2>1. frames' = Unpinned(g) /\ p \in Cached
    BY <1>6 DEF Move, PinsMatchGuards
  <2>2. /\ DOMAIN frames' = Cached
        /\ frames'[p].pin_count = IF frames[p].pin_count > 0
                                  THEN frames[p].pin_count - 1 ELSE 0
        /\ \A q \in Cached \ {p} : frames'[q] = frames[q]
    BY <2>1 DEF Unpinned, Unpin, TypeOK, Cached
  <2>3. /\ g \in Holders(p)
        /\ IsFiniteSet(Holders(p))
        /\ Cardinality(Holders(p)) \in Nat
    BY <1>6, HoldersFinite DEF Holders
  <2>4. CASE p = r
    <3>1. /\ Holders(p)' = Holders(p) \ {h}
          /\ \A q : q # p => Holders(q)' = Holders(q)
      BY <1>1, <1>2, <1>6, <2>4 DEF Holders
    <3>2. /\ Cardinality(Holders(p)') = Cardinality(Holders(p)) - 1
          /\ Cardinality(Holders(p)') \in Nat
      BY <1>4, <2>3, <2>4, <3>1, FS_RemoveElement, FS_CardinalityType
    <3>3. frames'[p].pin_count = Cardinality(Holders(p)')
      BY <2>1, <2>2, <2>3, <3>2 DEF PinsMatchGuards
    <3>4. QED
      BY <1>3, <2>2, <3>1, <3>3 DEF PinsMatchGuards, Cached
  <2>5. CASE p # r
    <3>1. /\ Holders(p)' = Holders(p) \ {g}
          /\ Holders(r)' = (Holders(r) \ {h}) \cup {g}
          /\ g \notin Holders(r) \ {h}
          /\ \A q : q # p /\ q # r => Holders(q)' = Holders(q)
      BY <1>1, <1>2, <1>6, <2>5 DEF Holders
    <3>2. /\ Cardinality(Holders(p)') = Cardinality(Holders(p)) - 1
          /\ Cardinality(Holders(p)') \in Nat
      BY <2>3, <3>1, FS_RemoveElement, FS_CardinalityType
    <3>3. frames'[p].pin_count = Cardinality(Holders(p)')
      BY <2>1, <2>2, <2>3, <3>2 DEF PinsMatchGuards
    <3>4. Cardinality(Holders(r)') = Cardinality(Holders(r))
      <4>1. /\ IsFiniteSet(Holders(r) \ {h})
            /\ Cardinality(Holders(r) \ {h}) = Cardinality(Holders(r)) - 1
        BY <1>4, FS_RemoveElement
      <4>2. Cardinality(Holders(r)') = Cardinality(Holders(r) \ {h}) + 1
        BY <3>1, <4>1, FS_AddElement
      <4>3. QED
        BY <1>4, <4>1, <4>2
    <3>5. frames'[r].pin_count = Cardinality(Holders(r)')
      BY <1>1, <2>2, <2>5, <3>4 DEF PinsMatchGuards
    <3>6. QED
      BY <1>3, <2>2, <3>1, <3>3, <3>5 DEF PinsMatchGuards, Cached
  <2>6. QED
    BY <2>4, <2>5
<1>7. QED
  BY <1>5, <1>6

\* A flush leaves pins alone.
LEMMA CleanedPins ==
    ASSUME NEW W
    PROVE  /\ DOMAIN Cleaned(W) = Cached
           /\ \A p \in Cached : /\ Cleaned(W)[p].pin_count = frames[p].pin_count
                                /\ Cleaned(W)[p].bytes = frames[p].bytes
                                /\ Cleaned(W)[p].last_used = frames[p].last_used
BY DEF Cleaned, Clean

\* A new process has neither pins nor guards.
LEMMA ForgetPins ==
    ASSUME Forget
    PROVE  PinsMatchGuards'
BY DEF Forget, PinsMatchGuards, Cached, NullGuard

\* Every step keeps pins and guards in agreement.
LEMMA PinsStep == TypeOK /\ PinsMatchGuards /\ [Next]_vars => PinsMatchGuards'
<1> SUFFICES ASSUME TypeOK, PinsMatchGuards, [Next]_vars
             PROVE  PinsMatchGuards'
  OBVIOUS
<1>1. ASSUME NEW g \in Guards, NEW p \in Ids, FetchPage(g, p)
      PROVE  PinsMatchGuards'
  BY <1>1, FetchedPins DEF FetchPage
<1>2. ASSUME NEW p \in Ids, FetchFails(p)
      PROVE  PinsMatchGuards'
  BY <1>2, NotFetchedPins DEF FetchFails
<1>3. ASSUME NEW g \in Guards, AllocatePage(g)
      PROVE  PinsMatchGuards'
  BY <1>3, FetchedPins DEF AllocatePage
<1>4. CASE AllocateLeaks
  BY <1>4, NotFetchedPins DEF AllocateLeaks
<1>5. CASE AllocateOnDisk
  BY <1>5, SamePins DEF AllocateOnDisk, Cached
<1>6. ASSUME NEW g \in Guards, NEW c \in Content, Modify(g, c)
      PROVE  PinsMatchGuards'
  <2>1. Cached' = Cached /\ \A p \in Cached : frames'[p].pin_count = frames[p].pin_count
    BY <1>6 DEF Modify, Rewritten, Cached, TypeOK
  <2>2. \A h \in Guards : /\ guards'[h].live = guards[h].live
                          /\ guards'[h].page = guards[h].page
    BY <1>6 DEF Modify, TypeOK, Guard
  <2>3. QED
    BY <2>1, <2>2, SamePins
<1>7. ASSUME NEW g \in Guards, Release(g)
      PROVE  PinsMatchGuards'
  BY <1>7, ReleasePins
<1>8. ASSUME NEW g \in Guards, NEW h \in Guards, Move(g, h)
      PROVE  PinsMatchGuards'
  BY <1>8, MovePins
<1>9. ASSUME NEW p \in Ids, FlushPage(p)
      PROVE  PinsMatchGuards'
  BY <1>9, SamePins, CleanedPins DEF FlushPage, Cached
<1>10. CASE FlushAll
  BY <1>10, SamePins, CleanedPins DEF FlushAll, FlushAllDone, FlushAllFails, Cached
<1>11. ASSUME NEW c \in Catalogs, StoreCatalog(c)
       PROVE  PinsMatchGuards'
  BY <1>11, SamePins DEF StoreCatalog, Cached
<1>12. CASE Shutdown \/ Crash
  BY <1>12, ForgetPins DEF Shutdown, Crash
<1>13. CASE UNCHANGED vars
  BY <1>13, SamePins DEF vars, Cached
<1>14. QED
  BY <1>1, <1>2, <1>3, <1>4, <1>5, <1>6, <1>7, <1>8, <1>9, <1>10, <1>11,
     <1>12, <1>13 DEF Next

\* Pin counts and guards agree in every reachable state: no live guard points
\* into a frame that load() has freed, and no released guard leaves a pin.
THEOREM PinsCorrect == Spec => []PinsMatchGuards
<1>1. Init => PinsMatchGuards
  BY DEF Init, PinsMatchGuards, Cached, NullGuard
<1>2. TypeOK /\ PinsMatchGuards /\ [Next]_vars => PinsMatchGuards'
  BY PinsStep
<1>3. QED
  BY <1>1, <1>2, TypeCorrect, PTL DEF Spec
----------------------------------------------------------------------------
\* Clean frames: what the pool may drop without writing is what the file holds.

\* Page 0 shows the catalog's magic in the file and in its frame, so that no
\* client has modified it.
CatalogInv ==
    /\ page_count > 0
    /\ file[CatalogPage] \in Catalogs
    /\ CatalogPage \in Cached => /\ frames[CatalogPage].bytes \in Catalogs
                                /\ ~frames[CatalogPage].dirty
    /\ \A g \in Guards : guards[g].live /\ guards[g].dirty => guards[g].page # CatalogPage

CleanInv == CleanFramesMatchFile /\ CatalogInv

\* An empty guard takes a clean page: nothing becomes released or unreleased.
LEMMA FetchedUnreleased ==
    ASSUME TypeOK, NEW f, NEW s, NEW g \in Guards, NEW p, Fetched(f, s, g, p)
    PROVE  Unreleased' = Unreleased
<1>1. /\ ~guards[g].live
      /\ guards'[g].dirty = FALSE
      /\ \A h \in Guards \ {g} : guards'[h] = guards[h]
  BY DEF Fetched, TypeOK
<1>2. QED
  BY <1>1 DEF Unreleased

\* A fetched frame is clean and equals its page; a dropped one was written first.
LEMMA FetchedClean ==
    ASSUME TypeOK, CleanInv, NEW D,
           NEW f \in [D -> Image], PageIds \subseteq D, \A q \in PageIds : f[q] = file[q],
           NEW s, NEW g \in Guards, NEW p,
           Fetched(f, s, g, p)
    PROVE  CleanFramesMatchFile'
<1>1. Unreleased' = Unreleased
  BY FetchedUnreleased
<1>2. CASE p \in Cached /\ frames' = [frames EXCEPT ![p] = Pinned(@)] /\ file' = f
  <2>1. /\ DOMAIN frames' = Cached
        /\ \A q \in Cached : /\ frames'[q].bytes = frames[q].bytes
                             /\ frames'[q].dirty = frames[q].dirty
    BY <1>2 DEF Pinned, TypeOK, Cached
  <2>2. \A q \in Cached : file'[q] = file[q]
    BY <1>2 DEF TypeOK
  <2>3. QED
    BY <1>1, <2>1, <2>2 DEF CleanInv, CleanFramesMatchFile, Cached
<1>3. ASSUME p \in DOMAIN f \ Cached, NEW E \in Evictions,
             file' = Flushed(f, Dirty(E)),
             frames' = [q \in (Cached \ E) \cup {p} |->
                           IF q = p THEN NewFrame(f[p]) ELSE frames[q]]
      PROVE  CleanFramesMatchFile'
  <2>1. E \subseteq Cached /\ p \notin E
    BY <1>3, EvictionsCached
  <2>2. file'[p] = f[p] /\ \A q \in Cached \ E : file'[q] = file[q]
    BY <1>3, <2>1 DEF Flushed, Dirty, TypeOK
  <2>3. frames'[p].bytes = f[p]
    BY <1>3 DEF NewFrame
  <2>4. \A q \in DOMAIN frames' : q # p => q \in Cached \ E /\ frames'[q] = frames[q]
    BY <1>3
  <2>5. QED
    BY <1>1, <2>2, <2>3, <2>4 DEF CleanInv, CleanFramesMatchFile, Cached
<1>4. QED
  BY <1>2, <1>3 DEF Fetched

\* So it is when the fetch fails, whatever a failed write of the victim leaves.
LEMMA NotFetchedClean ==
    ASSUME TypeOK, CleanInv, NEW D,
           NEW f \in [D -> Image], PageIds \subseteq D, \A q \in PageIds : f[q] = file[q],
           NEW s, NEW p,
           NotFetched(f, s, p)
    PROVE  CleanFramesMatchFile'
<1>1. Unreleased' = Unreleased
  BY DEF NotFetched, Unreleased
<1>2. CASE file' = f /\ UNCHANGED frames
  BY <1>1, <1>2 DEF CleanInv, CleanFramesMatchFile, Cached, TypeOK
<1>3. ASSUME NEW E \in Evictions, NEW v \in Dirty(E),
             file' \in FailedWrites(f, v, frames[v].bytes),
             UNCHANGED frames
      PROVE  CleanFramesMatchFile'
  <2>1. \A q \in Cached : q # v => file'[q] = file[q]
    BY <1>3 DEF FailedWrites, TypeOK
  <2>2. frames[v].dirty
    BY DEF Dirty
  <2>3. QED
    BY <1>1, <1>3, <2>1, <2>2 DEF CleanInv, CleanFramesMatchFile, Cached
<1>4. ASSUME NEW E \in Evictions,
             file' = Flushed(f, Dirty(E)),
             frames' = [q \in Cached \ E |-> frames[q]]
      PROVE  CleanFramesMatchFile'
  <2>1. \A q \in Cached \ E : file'[q] = file[q]
    BY <1>4 DEF Flushed, Dirty, TypeOK
  <2>2. QED
    BY <1>1, <1>4, <2>1 DEF CleanInv, CleanFramesMatchFile, Cached
<1>5. QED
  BY <1>2, <1>3, <1>4 DEF NotFetched

\* allocate_page leaves the other pages of the file alone.
LEMMA AppendedSame ==
    ASSUME TypeOK, CanAllocate
    PROVE  \A q \in PageIds : Appended[q] = file[q]
BY DEF TypeOK, DiskTypeOK, PageIds, Appended

\* Giving up guard g leaves its page dirty if g had modified it.
LEMMA UnpinnedClean ==
    ASSUME TypeOK, NEW g \in Guards
    PROVE  /\ DOMAIN Unpinned(g) = Cached
           /\ \A q \in Cached :
                 /\ Unpinned(g)[q].bytes = frames[q].bytes
                 /\ Unpinned(g)[q].dirty = (frames[q].dirty \/
                                              (q = guards[g].page /\ guards[g].dirty))
BY DEF Unpinned, Unpin, TypeOK, Cached, Frame, Guard

\* Writing the frames of W and marking them clean, in a flush that ends.
LEMMA FlushClean ==
    ASSUME TypeOK, CleanInv, NEW W, W \subseteq Cached,
           file' = Flushed(file, Dirty(W)),
           frames' = Cleaned(W),
           UNCHANGED guards
    PROVE  CleanFramesMatchFile'
<1>1. Unreleased' = Unreleased
  BY DEF Unreleased
<1>2. ASSUME NEW q \in Cached \ {CatalogPage}, ~frames'[q].dirty, q \notin Unreleased
      PROVE  frames'[q].bytes = file'[q]
  <2>1. file'[q] = IF q \in W /\ frames[q].dirty THEN frames[q].bytes ELSE file[q]
    BY DEF Flushed, Dirty, TypeOK, DiskTypeOK
  <2>2. frames'[q].bytes = frames[q].bytes
    BY CleanedPins
  <2>3. frames[q].dirty => q \in W
    BY <1>2 DEF Cleaned
  <2>4. QED
    BY <1>2, <2>1, <2>2, <2>3 DEF CleanInv, CleanFramesMatchFile
<1>3. QED
  BY <1>1, <1>2, CleanedPins DEF CleanInv, CleanFramesMatchFile, Cached

\* A flush that fails at frame v, which stays dirty.
LEMMA FailedFlushClean ==
    ASSUME TypeOK, CleanInv, NEW v \in Dirty(Cached),
           NEW W \in SUBSET (Dirty(Cached) \ {v}),
           file' \in FailedWrites(Flushed(file, W), v, frames[v].bytes),
           frames' = Cleaned(W),
           UNCHANGED guards
    PROVE  CleanFramesMatchFile'
<1>1. Unreleased' = Unreleased
  BY DEF Unreleased
<1>2. ASSUME NEW q \in Cached \ {CatalogPage}, ~frames'[q].dirty, q \notin Unreleased
      PROVE  frames'[q].bytes = file'[q]
  <2>1. q # v
    BY <1>2 DEF Cleaned, Dirty
  <2>2. file'[q] = Flushed(file, W)[q]
    BY <2>1 DEF FailedWrites, Flushed, TypeOK, DiskTypeOK
  <2>3. Flushed(file, W)[q] = IF q \in W THEN frames[q].bytes ELSE file[q]
    BY DEF Flushed, TypeOK, DiskTypeOK
  <2>4. frames'[q].bytes = frames[q].bytes
    BY CleanedPins
  <2>5. frames[q].dirty => q \in W
    BY <1>2 DEF Cleaned
  <2>6. QED
    BY <1>2, <2>2, <2>3, <2>4, <2>5 DEF CleanInv, CleanFramesMatchFile
<1>3. QED
  BY <1>1, <1>2, CleanedPins DEF CleanInv, CleanFramesMatchFile, Cached

\* Every step of the pool, of its clients or of a crash keeps clean frames clean.
LEMMA CleanStep == TypeOK /\ PinsMatchGuards /\ CleanInv /\ [Next]_vars => CleanFramesMatchFile'
<1> SUFFICES ASSUME TypeOK, PinsMatchGuards, CleanInv, [Next]_vars
             PROVE  CleanFramesMatchFile'
  OBVIOUS
<1>0. /\ page_count \in Nat
      /\ file \in [PageIds -> Image]
      /\ \A q \in PageIds : file[q] = file[q]
  BY DEF TypeOK, DiskTypeOK
<1>1. ASSUME NEW g \in Guards, NEW p \in Ids, FetchPage(g, p)
      PROVE  CleanFramesMatchFile'
  BY <1>0, <1>1, FetchedClean DEF FetchPage
<1>2. ASSUME NEW p \in Ids, FetchFails(p)
      PROVE  CleanFramesMatchFile'
  BY <1>0, <1>2, NotFetchedClean DEF FetchFails
<1>3. ASSUME NEW g \in Guards, AllocatePage(g)
      PROVE  CleanFramesMatchFile'
  BY <1>0, <1>3, AppendedType, AppendedSame, FetchedClean DEF AllocatePage
<1>4. CASE AllocateLeaks
  BY <1>0, <1>4, AppendedType, AppendedSame, NotFetchedClean DEF AllocateLeaks
<1>5. CASE AllocateOnDisk
  BY <1>0, <1>5, AppendedSame
  DEF AllocateOnDisk, CleanInv, CleanFramesMatchFile, Cached,
      Unreleased, TypeOK
<1>6. ASSUME NEW g \in Guards, NEW c \in Content, Modify(g, c)
      PROVE  CleanFramesMatchFile'
  <2>1. guards[g].page \in Unreleased'
    BY <1>6 DEF Modify, Unreleased, TypeOK, Guard
  <2>2. \A q : q \in Unreleased => q \in Unreleased'
    BY <1>6 DEF Modify, Unreleased, TypeOK, Guard
  <2>3. DOMAIN frames' = Cached
        /\ \A q \in Cached : q # guards[g].page => frames'[q] = frames[q]
    BY <1>6 DEF Modify, TypeOK, Cached
  <2>4. QED
    BY <1>0, <1>6, <2>1, <2>2, <2>3
    DEF Modify, CleanInv, CleanFramesMatchFile, Cached
<1>7. ASSUME NEW g \in Guards, Release(g)
      PROVE  CleanFramesMatchFile'
  <2>1. \A q \in Unreleased : q \in Unreleased' \/ (q = guards[g].page /\ guards[g].dirty)
    <3>1. \A h \in Guards \ {g} : guards'[h] = guards[h]
      BY <1>7 DEF Release, TypeOK
    <3>2. SUFFICES ASSUME NEW q \in Unreleased
                   PROVE  q \in Unreleased' \/ (q = guards[g].page /\ guards[g].dirty)
      OBVIOUS
    <3>3. PICK x \in Guards : guards[x].live /\ guards[x].dirty /\ guards[x].page = q
      BY DEF Unreleased
    <3>4. CASE x = g
      BY <3>3, <3>4
    <3>5. CASE x # g
      BY <3>1, <3>3, <3>5 DEF Unreleased
    <3>6. QED
      BY <3>4, <3>5
  <2>2. frames' = Unpinned(g) /\ file' = file /\ page_count' = page_count
    BY <1>7 DEF Release
  <2>3. ASSUME NEW q \in DOMAIN frames' \ {CatalogPage},
               ~frames'[q].dirty, q \notin Unreleased'
        PROVE  frames'[q].bytes = file'[q]
    <3>1. q \in Cached /\ ~frames[q].dirty /\ frames'[q].bytes = frames[q].bytes
      BY <2>2, <2>3, UnpinnedClean
    <3>2. q \notin Unreleased
      BY <2>1, <2>2, <2>3, <3>1, UnpinnedClean
    <3>3. QED
      BY <2>2, <3>1, <3>2 DEF CleanInv, CleanFramesMatchFile
  <2>4. QED
    BY <1>0, <2>2, <2>3, UnpinnedClean
    DEF CleanInv, CleanFramesMatchFile, Cached
<1>8. ASSUME NEW g \in Guards, NEW h \in Guards, Move(g, h)
      PROVE  CleanFramesMatchFile'
  <2>1. /\ guards[h].live
        /\ guards'[g] = guards[h]
        /\ \A x \in Guards \ {g, h} : guards'[x] = guards[x]
    BY <1>8 DEF Move, TypeOK
  <2>2. \A q \in Unreleased :
           (q \in Unreleased') \/ (q = guards[g].page /\ guards[g].dirty /\ guards[g].live)
    <3>1. ASSUME NEW x \in Guards, guards[x].live, guards[x].dirty, x # g
          PROVE  guards[x].page \in Unreleased'
      <4>1. CASE x = h
        BY <2>1, <3>1, <4>1 DEF Unreleased
      <4>2. CASE x # h
        BY <2>1, <3>1, <4>2 DEF Unreleased
      <4>3. QED
        BY <4>1, <4>2
    <3>2. ASSUME NEW q \in Unreleased
          PROVE  (q \in Unreleased')
                 \/ (q = guards[g].page /\ guards[g].dirty /\ guards[g].live)
      <4>1. PICK x \in Guards : guards[x].live /\ guards[x].dirty /\ guards[x].page = q
        BY DEF Unreleased
      <4>2. QED
        BY <3>1, <4>1
    <3>3. QED
      BY <3>2
  <2>3. CASE ~guards[g].live
    <3>1. frames' = frames /\ file' = file /\ page_count' = page_count
      BY <1>8, <2>3 DEF Move
    <3>2. \A q \in Unreleased : q \in Unreleased'
      BY <2>2, <2>3
    <3>3. QED
      BY <1>0, <3>1, <3>2
      DEF CleanInv, CleanFramesMatchFile, Cached
  <2>4. CASE guards[g].live
    <3>1. frames' = Unpinned(g) /\ file' = file /\ page_count' = page_count
      BY <1>8, <2>4 DEF Move
    <3>2. ASSUME NEW q \in DOMAIN frames' \ {CatalogPage},
                 ~frames'[q].dirty, q \notin Unreleased'
          PROVE  frames'[q].bytes = file'[q]
      <4>1. q \in Cached /\ ~frames[q].dirty /\ frames'[q].bytes = frames[q].bytes
        BY <3>1, <3>2, UnpinnedClean
      <4>2. q \notin Unreleased
        BY <2>2, <3>1, <3>2, <4>1, UnpinnedClean
      <4>3. QED
        BY <3>1, <4>1, <4>2 DEF CleanInv, CleanFramesMatchFile
    <3>3. QED
      BY <1>0, <3>1, <3>2, UnpinnedClean
      DEF CleanInv, CleanFramesMatchFile, Cached
  <2>5. QED
    BY <2>3, <2>4
<1>9. ASSUME NEW p \in Ids, FlushPage(p)
      PROVE  CleanFramesMatchFile'
  <2>1. p \in Cached /\ frames[p].dirty /\ Dirty({p}) = {p} /\ p \in Dirty(Cached)
    BY <1>9 DEF FlushPage, Dirty
  <2>2. CASE file' = Flushed(file, {p}) /\ frames' = Cleaned({p})
    BY <1>0, <1>9, <2>1, <2>2, FlushClean DEF FlushPage
  <2>3. CASE file' \in FailedWrites(file, p, frames[p].bytes) /\ UNCHANGED frames
    <3>1. \A q \in Cached : q # p => file'[q] = file[q]
      BY <2>3 DEF FailedWrites, TypeOK, DiskTypeOK
    <3>2. QED
      BY <1>0, <1>9, <2>1, <2>3, <3>1
      DEF FlushPage, CleanInv, CleanFramesMatchFile, Cached, Unreleased
  <2>4. QED
    BY <1>9, <2>2, <2>3 DEF FlushPage
<1>10. CASE FlushAll
  <2>1. CASE FlushAllDone
    BY <1>0, <1>10, <2>1, FlushClean DEF FlushAll, FlushAllDone
  <2>2. CASE FlushAllFails
    BY <1>0, <1>10, <2>2, FailedFlushClean DEF FlushAll, FlushAllFails
  <2>3. QED
    BY <1>10, <2>1, <2>2 DEF FlushAll
<1>11. ASSUME NEW c \in Catalogs, StoreCatalog(c)
       PROVE  CleanFramesMatchFile'
  <2>1. \A q \in Cached \ {CatalogPage} : file'[q] = file[q]
    BY <1>11 DEF StoreCatalog, TypeOK, DiskTypeOK
  <2>2. QED
    BY <1>0, <1>11, <2>1
    DEF StoreCatalog, CleanInv, CleanFramesMatchFile, Cached, Unreleased
<1>12. CASE Shutdown \/ Crash
  BY <1>0, <1>12 DEF Shutdown, Crash, Forget, CleanFramesMatchFile, Cached
<1>13. CASE UNCHANGED vars
  BY <1>0, <1>13
  DEF vars, CleanInv, CleanFramesMatchFile, Cached, Unreleased
<1>14. QED
  BY <1>1, <1>2, <1>3, <1>4, <1>5, <1>6, <1>7, <1>8, <1>9, <1>10, <1>11,
     <1>12, <1>13 DEF Next

\* No dirty frame is page 0's, so that no write of a frame changes the page.
LEMMA CatalogNotWritten ==
    ASSUME TypeOK, CatalogInv, NEW f, NEW n \in Nat, 0 \in 0 .. n, f \in [0 .. n -> Image]
    PROVE  /\ \A W : W \subseteq Dirty(Cached) =>
                   Flushed(f, W)[CatalogPage] = f[CatalogPage]
           /\ \A W, v, c, h : /\ W \subseteq Dirty(Cached) /\ v \in Dirty(Cached)
                             /\ h \in FailedWrites(Flushed(f, W), v, c)
                             => h[CatalogPage] = f[CatalogPage]
<1>1. CatalogPage \notin Dirty(Cached) /\ CatalogPage \in 0 .. n
  BY DEF CatalogInv, Dirty, CatalogPage
<1>2. \A W : W \subseteq Dirty(Cached) => Flushed(f, W)[CatalogPage] = f[CatalogPage]
  BY <1>1 DEF Flushed
<1>3. ASSUME NEW W, NEW v, NEW c, NEW h, W \subseteq Dirty(Cached), v \in Dirty(Cached),
             h \in FailedWrites(Flushed(f, W), v, c)
      PROVE  h[CatalogPage] = Flushed(f, W)[CatalogPage]
  BY <1>1, <1>3 DEF FailedWrites, Flushed
<1>4. QED
  BY <1>2, <1>3

\* So neither a fetch nor an eviction changes page 0 in the file.
LEMMA FetchKeepsCatalog ==
    ASSUME TypeOK, CatalogInv, NEW f, NEW n \in Nat, 0 \in 0 .. n, f \in [0 .. n -> Image],
           NEW s, NEW p, (\E g \in Guards : Fetched(f, s, g, p)) \/ NotFetched(f, s, p)
    PROVE  file'[CatalogPage] = f[CatalogPage]
<1>1. CASE file' = f
  BY <1>1
<1>2. ASSUME NEW E \in Evictions, file' = Flushed(f, Dirty(E))
      PROVE  file'[CatalogPage] = f[CatalogPage]
  BY <1>2, EvictionsCached, CatalogNotWritten DEF Dirty
<1>3. ASSUME NEW E \in Evictions, NEW v \in Dirty(E),
             file' \in FailedWrites(f, v, frames[v].bytes)
      PROVE  file'[CatalogPage] = f[CatalogPage]
  <2>1. v \in Dirty(Cached) /\ Flushed(f, {}) = f
    BY EvictionsCached DEF Dirty, Flushed
  <2>2. QED
    BY <1>3, <2>1, CatalogNotWritten
<1>4. QED
  BY <1>1, <1>2, <1>3 DEF Fetched, NotFetched

\* A fetch, of page 0 too, shows the page as it is in the file.
LEMMA FetchedCatalog ==
    ASSUME TypeOK, CatalogInv, NEW n \in Nat, 0 \in 0 .. n, NEW f \in [0 .. n -> Image],
           f[CatalogPage] \in Catalogs, NEW s, NEW g \in Guards, NEW p, Fetched(f, s, g, p),
           page_count' > 0
    PROVE  CatalogInv'
<1>1. \A h \in Guards : guards'[h].live /\ guards'[h].dirty => guards'[h].page # CatalogPage
  BY DEF Fetched, TypeOK, CatalogInv
<1>2. CASE p \in Cached /\ frames' = [frames EXCEPT ![p] = Pinned(@)] /\ file' = f
  BY <1>1, <1>2 DEF CatalogInv, Pinned, TypeOK, Cached
<1>3. ASSUME p \in DOMAIN f \ Cached, NEW E \in Evictions,
             file' = Flushed(f, Dirty(E)),
             frames' = [q \in (Cached \ E) \cup {p} |->
                           IF q = p THEN NewFrame(f[p]) ELSE frames[q]]
      PROVE  CatalogInv'
  <2>1. file'[CatalogPage] = f[CatalogPage]
    BY FetchKeepsCatalog
  <2>2. QED
    BY <1>1, <1>3, <2>1 DEF CatalogInv, Cached, NewFrame
<1>4. QED
  BY <1>2, <1>3 DEF Fetched

\* A fetch that fails writes at most the page of another frame.
LEMMA NotFetchedCatalog ==
    ASSUME TypeOK, CatalogInv, NEW n \in Nat, 0 \in 0 .. n, NEW f \in [0 .. n -> Image],
           f[CatalogPage] \in Catalogs, NEW s, NEW p, NotFetched(f, s, p),
           page_count' > 0
    PROVE  CatalogInv'
<1>1. guards' = guards
  BY DEF NotFetched
<1>2. CASE file' = f /\ UNCHANGED frames
  BY <1>1, <1>2 DEF CatalogInv, Cached
<1>3. ASSUME NEW E \in Evictions, NEW v \in Dirty(E),
             file' \in FailedWrites(f, v, frames[v].bytes), UNCHANGED frames
      PROVE  CatalogInv'
  <2>1. file'[CatalogPage] = f[CatalogPage]
    BY FetchKeepsCatalog
  <2>2. QED
    BY <1>1, <1>3, <2>1 DEF CatalogInv, Cached
<1>4. ASSUME NEW E \in Evictions, file' = Flushed(f, Dirty(E)),
             frames' = [q \in Cached \ E |-> frames[q]]
      PROVE  CatalogInv'
  <2>1. file'[CatalogPage] = f[CatalogPage]
    BY FetchKeepsCatalog
  <2>2. QED
    BY <1>1, <1>4, <2>1 DEF CatalogInv, Cached
<1>5. QED
  BY <1>2, <1>3, <1>4 DEF NotFetched

\* Every step keeps page 0 out of the clients' reach.
LEMMA CatalogStep == TypeOK /\ PinsMatchGuards /\ CatalogInv /\ [Next]_vars => CatalogInv'
<1> SUFFICES ASSUME TypeOK, PinsMatchGuards, CatalogInv, [Next]_vars
             PROVE  CatalogInv'
  OBVIOUS
<1>0. /\ page_count \in Nat /\ page_count > 0 /\ page_count - 1 \in Nat
      /\ PageIds = 0 .. page_count - 1 /\ 0 \in PageIds /\ 0 \in 0 .. page_count
      /\ file \in [PageIds -> Image] /\ file[CatalogPage] \in Catalogs
      /\ CanAllocate => /\ Appended \in [0 .. page_count -> Image]
                        /\ Appended[CatalogPage] \in Catalogs
  <2>1. /\ page_count \in Nat /\ page_count > 0 /\ file \in [PageIds -> Image]
        /\ file[CatalogPage] \in Catalogs /\ PageIds = 0 .. page_count - 1
    BY DEF TypeOK, DiskTypeOK, CatalogInv, PageIds
  <2>2. CanAllocate => Appended[CatalogPage] = file[CatalogPage]
    BY <2>1, AppendedSame DEF CatalogPage
  <2>3. QED
    BY <2>1, <2>2, AppendedType
<1>1. ASSUME NEW g \in Guards, NEW p \in Ids, FetchPage(g, p)
      PROVE  CatalogInv'
  BY <1>0, <1>1, FetchedCatalog DEF FetchPage
<1>2. ASSUME NEW p \in Ids, FetchFails(p)
      PROVE  CatalogInv'
  BY <1>0, <1>2, NotFetchedCatalog DEF FetchFails
<1>3. ASSUME NEW g \in Guards, AllocatePage(g)
      PROVE  CatalogInv'
  <2>1. page_count' > 0
    BY <1>0, <1>3 DEF AllocatePage
  <2>2. QED
    BY <1>0, <1>3, <2>1, FetchedCatalog DEF AllocatePage
<1>4. CASE AllocateLeaks
  <2>1. page_count' > 0
    BY <1>0, <1>4 DEF AllocateLeaks
  <2>2. QED
    BY <1>0, <1>4, <2>1, NotFetchedCatalog DEF AllocateLeaks
<1>5. CASE AllocateOnDisk
  BY <1>0, <1>5 DEF AllocateOnDisk, CatalogInv, Cached
<1>6. ASSUME NEW g \in Guards, NEW c \in Content, Modify(g, c)
      PROVE  CatalogInv'
  <2>1. guards[g].page \in Cached /\ guards[g].page # CatalogPage
    BY <1>6 DEF Modify, Decodes, PinsMatchGuards, CatalogInv
  <2>2. /\ DOMAIN frames' = Cached
        /\ CatalogPage \in Cached => frames'[CatalogPage] = frames[CatalogPage]
    BY <1>6, <2>1 DEF Modify, TypeOK, Cached
  <2>3. \A h \in Guards : /\ guards'[h].live = guards[h].live
                          /\ guards'[h].page = guards[h].page
                          /\ h # g => guards'[h].dirty = guards[h].dirty
    BY <1>6 DEF Modify, TypeOK, Guard
  <2>4. QED
    BY <1>0, <1>6, <2>1, <2>2, <2>3 DEF Modify, CatalogInv, Cached
<1>7. ASSUME NEW g \in Guards, frames' = Unpinned(g), guards[g].live
      PROVE  CatalogPage \in DOMAIN frames' => /\ frames'[CatalogPage].bytes \in Catalogs
                                             /\ ~frames'[CatalogPage].dirty
  BY <1>7, UnpinnedClean DEF CatalogInv
<1>8. ASSUME NEW g \in Guards, Release(g)
      PROVE  CatalogInv'
  <2>1. \A h \in Guards : guards'[h] = guards[h] \/ guards'[h] = NullGuard
    BY <1>8 DEF Release, TypeOK
  <2>2. QED
    BY <1>7, <1>8, <2>1 DEF Release, CatalogInv, NullGuard, Cached
<1>9. ASSUME NEW g \in Guards, NEW h \in Guards, Move(g, h)
      PROVE  CatalogInv'
  <2>1. \A x \in Guards : \/ guards'[x] = NullGuard
                          \/ \E y \in Guards : guards'[x] = guards[y]
    BY <1>9 DEF Move, TypeOK
  <2>2. \A x \in Guards : guards'[x].live /\ guards'[x].dirty => guards'[x].page # CatalogPage
    BY <2>1 DEF CatalogInv, NullGuard
  <2>3. QED
    BY <1>7, <1>9, <2>2 DEF Move, CatalogInv, Cached
<1>10. ASSUME NEW W, \A q \in W : q \in Cached, frames' = Cleaned(W), guards' = guards,
              file'[CatalogPage] = file[CatalogPage], page_count' = page_count
       PROVE  CatalogInv'
  <2>1. CatalogPage \in Cached /\ frames'[CatalogPage].dirty => frames[CatalogPage].dirty
    BY <1>10 DEF Cleaned, Clean
  <2>2. QED
    BY <1>10, <2>1, CleanedPins DEF CatalogInv, Cached
<1>11. ASSUME NEW p \in Ids, FlushPage(p)
       PROVE  CatalogInv'
  <2>1. p \in Dirty(Cached) /\ p \in Cached /\ Flushed(file, {}) = file
    BY <1>0, <1>11 DEF FlushPage, Dirty, Flushed
  <2>2. file'[CatalogPage] = file[CatalogPage]
    BY <1>0, <1>11, <2>1, CatalogNotWritten DEF FlushPage
  <2>3. CASE frames' = Cleaned({p})
    BY <1>10, <1>11, <2>1, <2>2, <2>3 DEF FlushPage
  <2>4. CASE UNCHANGED frames
    BY <1>11, <2>2, <2>4 DEF FlushPage, CatalogInv, Cached
  <2>5. QED
    BY <1>11, <2>3, <2>4 DEF FlushPage
<1>12. CASE FlushAll
  <2>1. Dirty(Cached) \subseteq Cached
    BY DEF Dirty
  <2>2. CASE FlushAllDone
    BY <1>0, <1>10, <1>12, <2>1, <2>2, CatalogNotWritten DEF FlushAll, FlushAllDone
  <2>3. CASE FlushAllFails
    BY <1>0, <1>10, <1>12, <2>1, <2>3, CatalogNotWritten DEF FlushAll, FlushAllFails
  <2>4. QED
    BY <1>12, <2>2, <2>3 DEF FlushAll
<1>13. ASSUME NEW c \in Catalogs, StoreCatalog(c)
       PROVE  CatalogInv'
  BY <1>0, <1>13 DEF StoreCatalog, CatalogInv, Cached, CatalogPage
<1>14. CASE Shutdown \/ Crash
  <2>1. file'[CatalogPage] = file[CatalogPage]
    BY <1>0, <1>14, CatalogNotWritten DEF Shutdown, Crash
  <2>2. QED
    BY <1>14, <2>1 DEF Shutdown, Crash, Forget, CatalogInv, Cached, NullGuard
<1>15. CASE UNCHANGED vars
  BY <1>15 DEF vars, CatalogInv, Cached
<1>16. QED
  BY <1>1, <1>2, <1>3, <1>4, <1>5, <1>6, <1>8, <1>9, <1>11, <1>12, <1>13, <1>14, <1>15
  DEF Next

\* The inductive invariant behind the two theorems below.
LEMMA CleanCorrect == Spec => []CleanInv
<1>1. Init => CleanInv
  BY DEF Init, CleanInv, CleanFramesMatchFile, CatalogInv, Cached, NullGuard, CatalogPage,
         PageIds
<1>2. TypeOK /\ PinsMatchGuards /\ CleanInv /\ [Next]_vars => CleanInv'
  BY CleanStep, CatalogStep DEF CleanInv
<1>3. QED
  BY <1>1, <1>2, TypeCorrect, PinsCorrect, PTL DEF Spec

\* The pool never drops a frame that differs from the file without writing it:
\* a clean frame whose guards have changed nothing equals the page on disk.
THEOREM NoUpdateLost == Spec => []CleanFramesMatchFile
<1>1. CleanInv => CleanFramesMatchFile
  BY DEF CleanInv
<1>2. QED
  BY <1>1, CleanCorrect, PTL

\* Whatever page ids clients ask for, a frame of page 0 is never dirty, and so the
\* pool never writes over the catalog that store_catalog has put there.
THEOREM CatalogSafe == Spec => []CatalogNotOverwritten
<1>1. CleanInv => CatalogNotOverwritten
  BY DEF CleanInv, CatalogInv, CatalogNotOverwritten, Unreleased
<1>2. QED
  BY <1>1, CleanCorrect, PTL
----------------------------------------------------------------------------

\* The frames are finitely many.
LEMMA CachedFinite ==
    ASSUME TypeOK
    PROVE  IsFiniteSet(Cached) /\ Cardinality(Cached) \in Nat
<1>1. page_count - 1 \in Int
  BY DEF TypeOK, DiskTypeOK
<1>2. IsFiniteSet(PageIds)
  BY <1>1, FS_Interval DEF PageIds
<1>3. QED
  BY <1>2, FS_Subset, FS_CardinalityType DEF TypeOK

\* Dropping frames leaves no more of them.
LEMMA FewerFrames ==
    ASSUME TypeOK, WithinCapacity, NEW S, S \subseteq Cached
    PROVE  Cardinality(S) <= Capacity
BY CachedFinite, FS_Subset, FS_CardinalityType DEF WithinCapacity

\* load() makes room before it takes a frame for another page.
LEMMA FetchedCapacity ==
    ASSUME TypeOK, WithinCapacity, NEW f, NEW s, NEW g, NEW p, Fetched(f, s, g, p)
    PROVE  WithinCapacity'
<1>1. CASE p \in Cached /\ frames' = [frames EXCEPT ![p] = Pinned(@)]
  BY <1>1 DEF WithinCapacity, Cached, TypeOK
<1>2. ASSUME p \notin Cached, NEW E \in Evictions,
             frames' = [q \in (Cached \ E) \cup {p} |->
                           IF q = p THEN NewFrame(f[p]) ELSE frames[q]]
      PROVE  WithinCapacity'
  <2>1. /\ DOMAIN frames' = (Cached \ E) \cup {p}
        /\ p \notin Cached \ E
    BY <1>2
  <2>2. IsFiniteSet(Cached \ E)
    BY CachedFinite, FS_Subset
  <2>3. Cardinality((Cached \ E) \cup {p}) = Cardinality(Cached \ E) + 1
    BY <2>1, <2>2, FS_AddElement
  <2>4. Cardinality(Cached \ E) < Capacity
    <3>1. CASE Cardinality(Cached) < Capacity
      <4>1. Cached \ E = Cached
        BY <3>1 DEF Evictions
      <4>2. QED
        BY <3>1, <4>1
    <3>2. CASE ~(Cardinality(Cached) < Capacity)
      <4>1. PICK v \in Cached : E = {v}
        BY <3>2 DEF Evictions, Victims
      <4>2. Cardinality(Cached \ {v}) = Cardinality(Cached) - 1
        BY <4>1, CachedFinite, FS_RemoveElement
      <4>3. QED
        BY <4>1, <4>2, CachedFinite DEF WithinCapacity
    <3>3. QED
      BY <3>1, <3>2
  <2>5. Cardinality(Cached \ E) \in Nat
    BY <2>2, FS_CardinalityType
  <2>6. QED
    BY <2>1, <2>3, <2>4, <2>5 DEF WithinCapacity, Cached
<1>3. QED
  BY <1>1, <1>2 DEF Fetched

\* A failed load may lose a frame and never gains one.
LEMMA NotFetchedCapacity ==
    ASSUME TypeOK, WithinCapacity, NEW f, NEW s, NEW p, NotFetched(f, s, p)
    PROVE  WithinCapacity'
<1>1. CASE UNCHANGED frames
  BY <1>1 DEF WithinCapacity, Cached
<1>2. ASSUME NEW E \in Evictions, frames' = [q \in Cached \ E |-> frames[q]]
      PROVE  WithinCapacity'
  <2>1. DOMAIN frames' = Cached \ E
    BY <1>2
  <2>2. QED
    BY <2>1, FewerFrames DEF WithinCapacity, Cached
<1>3. QED
  BY <1>1, <1>2 DEF NotFetched

\* An empty pool is within every capacity.
LEMMA NoFrames == DOMAIN frames' = {} => WithinCapacity'
BY FS_EmptySet DEF WithinCapacity, Cached

\* Every step keeps the pool within its capacity.
LEMMA CapacityStep == TypeOK /\ WithinCapacity /\ [Next]_vars => WithinCapacity'
<1> SUFFICES ASSUME TypeOK, WithinCapacity, [Next]_vars
             PROVE  WithinCapacity'
  OBVIOUS
<1>1. ASSUME DOMAIN frames' = Cached
      PROVE  WithinCapacity'
  BY <1>1 DEF WithinCapacity, Cached
<1>2. ASSUME NEW g \in Guards, NEW p \in Ids, FetchPage(g, p)
      PROVE  WithinCapacity'
  BY <1>2, FetchedCapacity DEF FetchPage
<1>3. ASSUME NEW p \in Ids, FetchFails(p)
      PROVE  WithinCapacity'
  BY <1>3, NotFetchedCapacity DEF FetchFails
<1>4. ASSUME NEW g \in Guards, AllocatePage(g)
      PROVE  WithinCapacity'
  BY <1>4, FetchedCapacity DEF AllocatePage
<1>5. CASE AllocateLeaks
  BY <1>5, NotFetchedCapacity DEF AllocateLeaks
<1>6. ASSUME NEW g \in Guards, NEW c \in Content, Modify(g, c)
      PROVE  WithinCapacity'
  BY <1>1, <1>6 DEF Modify, TypeOK, Cached
<1>7. ASSUME NEW g \in Guards, Release(g)
      PROVE  WithinCapacity'
  BY <1>1, <1>7, UnpinnedType DEF Release
<1>8. ASSUME NEW g \in Guards, NEW h \in Guards, Move(g, h)
      PROVE  WithinCapacity'
  BY <1>1, <1>8, UnpinnedType DEF Move, Cached
<1>9. ASSUME NEW p \in Ids, FlushPage(p)
      PROVE  WithinCapacity'
  BY <1>1, <1>9, CleanedType DEF FlushPage, Cached
<1>10. CASE FlushAll
  BY <1>1, <1>10, CleanedType DEF FlushAll, FlushAllDone, FlushAllFails
<1>11. CASE AllocateOnDisk \/ (\E c \in Catalogs : StoreCatalog(c)) \/ UNCHANGED vars
  BY <1>1, <1>11 DEF AllocateOnDisk, StoreCatalog, vars, Cached
<1>12. CASE Shutdown \/ Crash
  <2>1. DOMAIN frames' = {}
    BY <1>12 DEF Shutdown, Crash, Forget
  <2>2. QED
    BY <2>1, NoFrames
<1>13. QED
  BY <1>2, <1>3, <1>4, <1>5, <1>6, <1>7, <1>8, <1>9, <1>10, <1>11, <1>12 DEF Next

\* The pool never holds more frames than it was made for.
THEOREM CapacityKept == Spec => []WithinCapacity
<1>1. Init => WithinCapacity
  <2>1. SUFFICES ASSUME Init
                 PROVE  WithinCapacity
    OBVIOUS
  <2>2. DOMAIN frames = {}
    BY <2>1 DEF Init
  <2>3. QED
    BY <2>2, FS_EmptySet DEF WithinCapacity, Cached
<1>2. QED
  BY <1>1, CapacityStep, TypeCorrect, PTL DEF Spec
----------------------------------------------------------------------------
\* A step that gives no frame a new time keeps the times apart.
LEMMA SameTimes ==
    ASSUME TypeOK, LastUsedDistinct,
           DOMAIN frames' \subseteq Cached, clock' = clock,
           \A q \in DOMAIN frames' : frames'[q].last_used = frames[q].last_used
    PROVE  LastUsedDistinct'
BY DEF LastUsedDistinct, Cached

\* A step that advances the clock and stamps one frame with it does so too.
LEMMA NewTime ==
    ASSUME TypeOK, LastUsedDistinct, NEW p, clock' = clock + 1,
           DOMAIN frames' \subseteq Cached \cup {p},
           \A q \in DOMAIN frames' :
              frames'[q].last_used = IF q = p THEN clock + 1 ELSE frames[q].last_used
    PROVE  LastUsedDistinct'
<1>1. /\ clock \in Nat
      /\ \A q \in Cached : frames[q].last_used \in Nat /\ frames[q].last_used <= clock
  BY DEF TypeOK, Frame, LastUsedDistinct
<1>2. \A q \in DOMAIN frames' : q # p => q \in Cached
  OBVIOUS
<1>3. ASSUME NEW q \in DOMAIN frames', NEW r \in DOMAIN frames'
      PROVE  /\ frames'[q].last_used <= clock'
             /\ q # r => frames'[q].last_used # frames'[r].last_used
  BY <1>1, <1>2 DEF LastUsedDistinct
<1>4. QED
  BY <1>3 DEF LastUsedDistinct, Cached

\* fetch_page stamps the frame it hands out.
LEMMA FetchedTimes ==
    ASSUME TypeOK, LastUsedDistinct, NEW f, NEW s, NEW g, NEW p, Fetched(f, s, g, p)
    PROVE  LastUsedDistinct'
<1>1. clock' = clock + 1
  BY DEF Fetched
<1>2. CASE p \in Cached /\ frames' = [frames EXCEPT ![p] = Pinned(@)]
  BY <1>1, <1>2, NewTime DEF Pinned, Cached
<1>3. ASSUME NEW E \in Evictions,
             frames' = [q \in (Cached \ E) \cup {p} |->
                           IF q = p THEN NewFrame(f[p]) ELSE frames[q]]
      PROVE  LastUsedDistinct'
  BY <1>1, <1>3, NewTime DEF NewFrame
<1>4. QED
  BY <1>2, <1>3 DEF Fetched

\* A fetch that fails stamps none.
LEMMA NotFetchedTimes ==
    ASSUME TypeOK, LastUsedDistinct, NEW f, NEW s, NEW p, NotFetched(f, s, p)
    PROVE  LastUsedDistinct'
<1>1. clock' = clock
  BY DEF NotFetched
<1>2. CASE UNCHANGED frames
  BY <1>1, <1>2, SameTimes DEF Cached
<1>3. ASSUME NEW E \in Evictions, frames' = [q \in Cached \ E |-> frames[q]]
      PROVE  LastUsedDistinct'
  BY <1>1, <1>3, SameTimes
<1>4. QED
  BY <1>2, <1>3 DEF NotFetched

\* unpin stamps the frame it lets go of.
LEMMA UnpinnedTimes ==
    ASSUME TypeOK, LastUsedDistinct, NEW g \in Guards, clock' = clock + 1,
           frames' = Unpinned(g)
    PROVE  LastUsedDistinct'
BY NewTime DEF Unpinned, Unpin, Cached

\* Writing frames back leaves their times alone.
LEMMA CleanedTimes ==
    ASSUME TypeOK, LastUsedDistinct, NEW W, clock' = clock, frames' = Cleaned(W)
    PROVE  LastUsedDistinct'
BY SameTimes DEF Cleaned, Clean

\* Every step keeps the times of the frames apart.
LEMMA TimesStep == TypeOK /\ LastUsedDistinct /\ [Next]_vars => LastUsedDistinct'
<1> SUFFICES ASSUME TypeOK, LastUsedDistinct, [Next]_vars
             PROVE  LastUsedDistinct'
  OBVIOUS
<1>1. ASSUME UNCHANGED <<frames, clock>>
      PROVE  LastUsedDistinct'
  BY <1>1 DEF LastUsedDistinct, Cached
<1>2. ASSUME NEW g \in Guards, NEW p \in Ids, FetchPage(g, p)
      PROVE  LastUsedDistinct'
  BY <1>2, FetchedTimes DEF FetchPage
<1>3. ASSUME NEW p \in Ids, FetchFails(p)
      PROVE  LastUsedDistinct'
  BY <1>3, NotFetchedTimes DEF FetchFails
<1>4. ASSUME NEW g \in Guards, AllocatePage(g)
      PROVE  LastUsedDistinct'
  BY <1>4, FetchedTimes DEF AllocatePage
<1>5. CASE AllocateLeaks
  BY <1>5, NotFetchedTimes DEF AllocateLeaks
<1>6. ASSUME NEW g \in Guards, NEW c \in Content, Modify(g, c)
      PROVE  LastUsedDistinct'
  <2>1. /\ clock' = clock
        /\ frames' = [frames EXCEPT ![guards[g].page] = Rewritten(@, c)]
    BY <1>6 DEF Modify
  <2>2. QED
    BY <2>1, SameTimes DEF Rewritten, Cached
<1>7. ASSUME NEW g \in Guards, Release(g)
      PROVE  LastUsedDistinct'
  BY <1>7, UnpinnedTimes DEF Release
<1>8. ASSUME NEW g \in Guards, NEW h \in Guards, Move(g, h)
      PROVE  LastUsedDistinct'
  BY <1>1, <1>8, UnpinnedTimes DEF Move
<1>9. ASSUME NEW p \in Ids, FlushPage(p)
      PROVE  LastUsedDistinct'
  BY <1>1, <1>9, CleanedTimes DEF FlushPage
<1>10. CASE FlushAll
  BY <1>10, CleanedTimes DEF FlushAll, FlushAllDone, FlushAllFails
<1>11. CASE AllocateOnDisk \/ (\E c \in Catalogs : StoreCatalog(c)) \/ UNCHANGED vars
  BY <1>1, <1>11 DEF AllocateOnDisk, StoreCatalog, vars
<1>12. CASE Shutdown \/ Crash
  <2>1. DOMAIN frames' = {}
    BY <1>12 DEF Shutdown, Crash, Forget
  <2>2. QED
    BY <2>1 DEF LastUsedDistinct, Cached
<1>13. QED
  BY <1>2, <1>3, <1>4, <1>5, <1>6, <1>7, <1>8, <1>9, <1>10, <1>11, <1>12 DEF Next

\* No two frames were last used at the same time, so load() has exactly one
\* frame to give up and the order of the hash map decides nothing.
THEOREM VictimDetermined == Spec => []LastUsedDistinct
<1>1. Init => LastUsedDistinct
  BY DEF Init, LastUsedDistinct, Cached
<1>2. QED
  BY <1>1, TimesStep, TypeCorrect, PTL DEF Spec
----------------------------------------------------------------------------
\* What a restart may find.

\* The page in the file and the page that clients read are both among the images
\* that a restart may find: the refinement needs it when the process ends.
Survivors == \A p \in PageIds : file[p] \in since[p] /\ View(p) \in since[p]

\* History s with the pages of D damaged.
DamagedSet(s, D) == [q \in DOMAIN s |-> IF q \in D THEN s[q] \cup {Torn} ELSE s[q]]

\* The pages that the pool alone writes, while they are in frames.
Pooled == Cached \ {CatalogPage}

\* No frame that is to be written holds page 0.
LEMMA DirtyPooled ==
    ASSUME CatalogInv
    PROVE  /\ Dirty(Cached) \subseteq Pooled
           /\ \A E \in Evictions : Dirty(E) \subseteq Pooled
BY EvictionsCached DEF CatalogInv, Dirty, Pooled

\* What the owner of page q reads while the file is f.
Shown(f, q) == IF q \in Pooled THEN frames[q].bytes ELSE f[q]

\* A file and a history that agree with the current ones where these are defined,
\* for the calls that first append a page.
Extends(f, s, n) == /\ n \in 0 .. MaxPages
                    /\ PageIds \subseteq 0 .. n - 1
                    /\ f \in [0 .. n - 1 -> Image]
                    /\ s \in [0 .. n - 1 -> SUBSET Image]
                    /\ \A q \in PageIds : f[q] = file[q] /\ s[q] = since[q]
                    /\ \A q \in 0 .. n - 1 : f[q] \in s[q]

\* The present file and history, when nothing is appended.
LEMMA ExtendsSame ==
    ASSUME TypeOK, Survivors
    PROVE  Extends(file, since, page_count)
BY DEF TypeOK, DiskTypeOK, Survivors, Extends, PageIds

\* The file and history after allocate_page.
LEMMA ExtendsAppended ==
    ASSUME TypeOK, Survivors, CanAllocate
    PROVE  Extends(Appended, SinceAppended, page_count + 1)
<1>1. /\ Appended \in [0 .. page_count -> Image]
      /\ SinceAppended \in [0 .. page_count -> SUBSET Image]
      /\ page_count + 1 \in 0 .. MaxPages
      /\ 0 .. page_count = 0 .. (page_count + 1) - 1
      /\ PageIds \subseteq 0 .. page_count
  BY AppendedType
<1>2. page_count \in Nat
  BY DEF TypeOK, DiskTypeOK
<1>3. \A q \in PageIds : Appended[q] = file[q] /\ SinceAppended[q] = since[q]
  BY <1>1, <1>2 DEF Appended, SinceAppended, PageIds
<1>4. \A q \in 0 .. page_count : Appended[q] \in SinceAppended[q]
  <2>1. \A q \in 0 .. page_count : q = page_count \/ q \in PageIds
    BY <1>2 DEF PageIds
  <2>2. Appended[page_count] = Zero /\ SinceAppended[page_count] = {Zero}
    BY <1>2 DEF Appended, SinceAppended
  <2>3. QED
    BY <1>3, <2>1, <2>2 DEF Survivors
<1>5. QED
  BY <1>1, <1>3, <1>4 DEF Extends

\* A fetch changes what no client reads, and the history not at all.  A frame
\* that load() drops was written, or it is clean and nobody holds it.
LEMMA FetchedShown ==
    ASSUME TypeOK, PinsMatchGuards, CleanInv, NEW n, NEW f, NEW s, Extends(f, s, n),
           NEW g \in Guards, NEW p, page_count' = n, Fetched(f, s, g, p)
    PROVE  /\ \A q \in 0 .. n - 1 : View(q)' = Shown(f, q)
           /\ since' = s
           /\ Unreleased' = Unreleased
<1>1. since' = s /\ Unreleased' = Unreleased
  <2>1. Unreleased' = Unreleased
    BY FetchedUnreleased
  <2>2. QED
    BY <2>1 DEF Fetched
<1>2. CASE p \in Cached /\ frames' = [frames EXCEPT ![p] = Pinned(@)] /\ file' = f
  BY <1>1, <1>2 DEF Shown, Pooled, View, Cached, Pinned, TypeOK
<1>3. ASSUME p \in DOMAIN f \ Cached, NEW E \in Evictions,
             file' = Flushed(f, Dirty(E)),
             frames' = [q \in (Cached \ E) \cup {p} |->
                           IF q = p THEN NewFrame(f[p]) ELSE frames[q]]
      PROVE  \A q \in 0 .. n - 1 : View(q)' = Shown(f, q)
  <2>1. SUFFICES ASSUME NEW q \in 0 .. n - 1
                 PROVE  View(q)' = Shown(f, q)
    OBVIOUS
  <2>2. E \subseteq Cached
    BY EvictionsCached
  <2>3. /\ file'[q] = IF q \in Dirty(E) THEN frames[q].bytes ELSE f[q]
        /\ CatalogPage \notin Dirty(E)
    BY <1>3, DirtyPooled DEF Flushed, Extends, CleanInv, Pooled
  <2>4. CASE q = p
    <3>1. q \notin Dirty(E)
      BY <1>3, <2>2, <2>4 DEF Dirty
    <3>2. QED
      BY <1>3, <2>3, <2>4, <3>1 DEF View, Shown, Pooled, NewFrame, Cached
  <2>5. CASE q \in Cached \ E /\ q # p
    <3>1. q \notin Dirty(E)
      BY <2>5 DEF Dirty
    <3>2. QED
      BY <1>3, <2>3, <2>5, <3>1 DEF View, Shown, Pooled, Cached
  <2>6. CASE q \in E
    <3>1. q \notin Unreleased
      BY <2>6, EvictedUnheld DEF Unreleased
    <3>2. q \in Cached /\ q \in PageIds
      BY <2>2, <2>6 DEF TypeOK
    <3>3. q = CatalogPage \/ frames[q].dirty \/ frames[q].bytes = f[q]
      BY <3>1, <3>2 DEF CleanInv, CleanFramesMatchFile, Extends
    <3>4. q \notin DOMAIN frames'
      BY <1>3, <2>2, <2>6
    <3>5. QED
      BY <2>3, <2>6, <3>2, <3>3, <3>4 DEF View, Shown, Pooled, Cached, Dirty
  <2>7. CASE q \notin Cached /\ q # p
    BY <1>3, <2>2, <2>3, <2>7 DEF View, Shown, Pooled, Cached, Dirty
  <2>8. QED
    BY <2>2, <2>4, <2>5, <2>6, <2>7
<1>4. QED
  BY <1>1, <1>2, <1>3 DEF Fetched

\* Nor does a fetch that fails; it may damage the page of one frame.
LEMMA NotFetchedShown ==
    ASSUME TypeOK, PinsMatchGuards, CleanInv, NEW n, NEW f, NEW s, Extends(f, s, n),
           NEW p, page_count' = n, NotFetched(f, s, p)
    PROVE  /\ \A q \in 0 .. n - 1 : View(q)' = Shown(f, q)
           /\ since' = s \/ \E v \in Cached : since' = DamagedSet(s, {v})
           /\ Unreleased' = Unreleased
<1>1. Unreleased' = Unreleased
  BY DEF NotFetched, Unreleased
<1>2. CASE file' = f /\ since' = s /\ UNCHANGED frames
  BY <1>1, <1>2 DEF View, Shown, Pooled, Cached
<1>3. ASSUME NEW E \in Evictions, NEW v \in Dirty(E),
             file' \in FailedWrites(f, v, frames[v].bytes),
             since' = Damaged(s, v), UNCHANGED frames
      PROVE  /\ \A q \in 0 .. n - 1 : View(q)' = Shown(f, q)
             /\ \E w \in Cached : since' = DamagedSet(s, {w})
  <2>1. v \in Cached /\ v # CatalogPage
    BY EvictionsCached, DirtyPooled DEF Dirty, Pooled, CleanInv
  <2>2. \A q \in 0 .. n - 1 : q # v => file'[q] = f[q]
    BY <1>3 DEF FailedWrites, Extends
  <2>3. since' = DamagedSet(s, {v})
    BY <1>3 DEF Damaged, DamagedSet, Extends
  <2>4. QED
    BY <1>3, <2>1, <2>2, <2>3 DEF View, Shown, Pooled, Cached
<1>4. ASSUME NEW E \in Evictions,
             file' = Flushed(f, Dirty(E)), since' = s,
             frames' = [q \in Cached \ E |-> frames[q]]
      PROVE  \A q \in 0 .. n - 1 : View(q)' = Shown(f, q)
  <2>1. SUFFICES ASSUME NEW q \in 0 .. n - 1
                 PROVE  View(q)' = Shown(f, q)
    OBVIOUS
  <2>2. E \subseteq Cached
    BY EvictionsCached
  <2>3. /\ file'[q] = IF q \in Dirty(E) THEN frames[q].bytes ELSE f[q]
        /\ CatalogPage \notin Dirty(E)
    BY <1>4, DirtyPooled DEF Flushed, Extends, CleanInv, Pooled
  <2>4. CASE q \in E
    <3>1. q \notin Unreleased
      BY <2>4, EvictedUnheld DEF Unreleased
    <3>2. q \in Cached /\ q \in PageIds
      BY <2>2, <2>4 DEF TypeOK
    <3>3. q = CatalogPage \/ frames[q].dirty \/ frames[q].bytes = f[q]
      BY <3>1, <3>2 DEF CleanInv, CleanFramesMatchFile, Extends
    <3>4. QED
      BY <1>4, <2>3, <2>4, <3>2, <3>3 DEF View, Shown, Pooled, Cached, Dirty
  <2>5. CASE q \notin E
    BY <1>4, <2>2, <2>3, <2>5 DEF View, Shown, Pooled, Cached, Dirty
  <2>6. QED
    BY <2>4, <2>5
<1>5. QED
  BY <1>1, <1>2, <1>3, <1>4 DEF NotFetched

\* What a client may read is what a restart may find, whatever was appended.
LEMMA ShownSurvives ==
    ASSUME TypeOK, Survivors, NEW n, NEW f, NEW s, Extends(f, s, n)
    PROVE  \A q \in 0 .. n - 1 : Shown(f, q) \in s[q]
BY DEF Shown, Pooled, View, Survivors, Extends, TypeOK

\* A write leaves in the file an image that was there or in a frame.
LEMMA FlushedSurvives ==
    ASSUME TypeOK, Survivors, NEW n, NEW f, NEW s, Extends(f, s, n),
           NEW W, W \subseteq Pooled
    PROVE  \A q \in 0 .. n - 1 : Flushed(f, W)[q] \in s[q]
BY ShownSurvives DEF Shown, Flushed, Extends

\* A failed write leaves such an image, or a torn one in the page it was for.
LEMMA FailedWriteSurvives ==
    ASSUME TypeOK, Survivors, NEW n, NEW f, NEW s, Extends(f, s, n),
           NEW W, W \subseteq Pooled, NEW v \in Pooled,
           NEW h \in FailedWrites(Flushed(f, W), v, frames[v].bytes)
    PROVE  \A q \in 0 .. n - 1 : h[q] \in DamagedSet(s, {v})[q]
<1>1. \A q \in 0 .. n - 1 : Flushed(f, W)[q] \in s[q] /\ Shown(f, q) \in s[q]
  BY FlushedSurvives, ShownSurvives
<1>2. DOMAIN Flushed(f, W) = 0 .. n - 1 /\ DOMAIN s = 0 .. n - 1
  BY DEF Flushed, Extends
<1>3. \A q \in 0 .. n - 1 : q # v => h[q] = Flushed(f, W)[q]
  BY <1>2 DEF FailedWrites
<1>4. v \in 0 .. n - 1 => h[v] \in {Flushed(f, W)[v], frames[v].bytes, Torn}
  BY <1>2 DEF FailedWrites
<1>5. QED
  BY <1>1, <1>2, <1>3, <1>4 DEF DamagedSet, Shown

\* A write of nothing but page v, for the operations that stop at it.
LEMMA FlushedNothing ==
    ASSUME NEW f, NEW D, NEW R, f \in [D -> R]
    PROVE  Flushed(f, {}) = f
BY DEF Flushed

\* A fetch that succeeds writes at most what a client reads.
LEMMA FetchedSurvives ==
    ASSUME TypeOK, CatalogInv, Survivors, NEW n, NEW f, NEW s, Extends(f, s, n),
           NEW g, NEW p, Fetched(f, s, g, p)
    PROVE  \A q \in 0 .. n - 1 : file'[q] \in s[q]
<1>1. CASE file' = f
  BY <1>1 DEF Extends
<1>2. ASSUME NEW E \in Evictions, file' = Flushed(f, Dirty(E))
      PROVE  \A q \in 0 .. n - 1 : file'[q] \in s[q]
  BY <1>2, FlushedSurvives, DirtyPooled
<1>3. QED
  BY <1>1, <1>2 DEF Fetched

\* A fetch that fails tears at most the page whose damage it records.
LEMMA NotFetchedSurvives ==
    ASSUME TypeOK, CatalogInv, Survivors, NEW n, NEW f, NEW s, Extends(f, s, n),
           NEW p, NotFetched(f, s, p)
    PROVE  \A q \in 0 .. n - 1 : file'[q] \in since'[q] /\ s[q] \subseteq since'[q]
<1>1. CASE file' = f /\ since' = s
  BY <1>1 DEF Extends
<1>2. ASSUME NEW E \in Evictions, file' = Flushed(f, Dirty(E)), since' = s
      PROVE  \A q \in 0 .. n - 1 : file'[q] \in since'[q] /\ s[q] \subseteq since'[q]
  BY <1>2, FlushedSurvives, DirtyPooled
<1>3. ASSUME NEW E \in Evictions, NEW v \in Dirty(E),
             file' \in FailedWrites(f, v, frames[v].bytes), since' = Damaged(s, v)
      PROVE  \A q \in 0 .. n - 1 : file'[q] \in since'[q] /\ s[q] \subseteq since'[q]
  <2>1. v \in Pooled /\ Flushed(f, {}) = f
    BY DirtyPooled, FlushedNothing DEF Extends
  <2>2. since' = DamagedSet(s, {v})
    BY <1>3 DEF Damaged, DamagedSet, Extends
  <2>3. \A q \in 0 .. n - 1 : file'[q] \in DamagedSet(s, {v})[q]
    BY <1>3, <2>1, FailedWriteSurvives
  <2>4. QED
    BY <2>2, <2>3 DEF DamagedSet, Extends
<1>4. QED
  BY <1>1, <1>2, <1>3 DEF NotFetched
----------------------------------------------------------------------------
\* The steps of the page store.

\* What holds in every state the refinement starts a step from.
RefineInv == TypeOK /\ PinsMatchGuards /\ CleanInv /\ Survivors

\* A step whose pages, history and unreleased pages stay is a stutter.
LEMMA StoreStutters ==
    ASSUME page_count' = page_count, \A q \in PageIds : View(q)' = View(q),
           since' = since, Unreleased' = Unreleased
    PROVE  UNCHANGED Store!vars
BY DEF Store!vars, PageIds

\* One that tears the page of a frame in the file is a Damage.
LEMMA StoreDamage ==
    ASSUME TypeOK, page_count' = page_count, \A q \in PageIds : View(q)' = View(q),
           NEW v \in Cached, since' = DamagedSet(since, {v}), Unreleased' = Unreleased
    PROVE  Store!Next
<1>1. Store!Damage({v})
  BY DEF Store!Damage, Store!Damaged, Store!PageIds, PageIds, DamagedSet, TypeOK
<1>2. {v} \in Store!AtMostOne
  BY DEF Store!AtMostOne, Store!PageIds, PageIds, TypeOK
<1>3. QED
  BY <1>1, <1>2 DEF Store!Next

\* One that appends a page, and tears at most one, is an Allocate.
LEMMA StoreAllocate ==
    ASSUME TypeOK, CanAllocate, page_count' = page_count + 1,
           \A q \in 0 .. page_count : View(q)' = Shown(Appended, q),
           Unreleased' = Unreleased,
           \/ since' = SinceAppended
           \/ \E v \in Cached : since' = DamagedSet(SinceAppended, {v})
    PROVE  Store!Next
<1>1. page_count \in Nat /\ Cached \subseteq PageIds
  BY DEF TypeOK, DiskTypeOK
<1>2. PageIds' = 0 .. page_count
  BY <1>1 DEF PageIds
<1>3. \A q \in 0 .. page_count :
         Shown(Appended, q) = IF q = page_count THEN Zero ELSE View(q)
  BY <1>1 DEF Shown, Pooled, View, Appended, PageIds
<1>4. [q \in PageIds |-> View(q)]' =
        [q \in 0 .. page_count |->
           IF q = page_count THEN Zero ELSE [r \in PageIds |-> View(r)][q]]
  BY <1>1, <1>2, <1>3 DEF PageIds
<1>5. PICK D : /\ D \in {{}} \cup {{v} : v \in Cached}
               /\ since' = DamagedSet(SinceAppended, D)
  <2>1. SinceAppended = DamagedSet(SinceAppended, {})
    BY DEF SinceAppended, DamagedSet
  <2>2. QED
    BY <2>1
<1>6. \A q \in D : q # page_count
  BY <1>1, <1>5 DEF PageIds
<1>7. since' = [q \in 0 .. page_count |->
                  IF q = page_count THEN {Zero} ELSE Store!Damaged(D)[q]]
  <2>1. since' = [q \in 0 .. page_count |->
                    IF q \in D THEN SinceAppended[q] \cup {Torn} ELSE SinceAppended[q]]
    BY <1>5 DEF DamagedSet, SinceAppended
  <2>2. ASSUME NEW q \in 0 .. page_count, q # page_count
        PROVE  /\ SinceAppended[q] = since[q]
               /\ Store!Damaged(D)[q] = IF q \in D THEN since[q] \cup {Torn} ELSE since[q]
    BY <1>1, <2>2 DEF SinceAppended, Store!Damaged, Store!PageIds
  <2>3. SinceAppended[page_count] = {Zero} /\ page_count \notin D
    BY <1>1, <1>6 DEF SinceAppended
  <2>4. QED
    BY <2>1, <2>2, <2>3
<1>8. D \in Store!AtMostOne
  BY <1>1, <1>5 DEF Store!AtMostOne, Store!PageIds, PageIds
<1>9. Store!Allocate(D)
  BY <1>4, <1>7 DEF Store!Allocate, CanAllocate
<1>10. QED
  BY <1>8, <1>9 DEF Store!Next

\* fetch_page is invisible, but for the damage of a failed eviction.
LEMMA FetchRefines ==
    ASSUME RefineInv, NEW p \in Ids,
           (\E g \in Guards : FetchPage(g, p)) \/ FetchFails(p)
    PROVE  Store!Next \/ UNCHANGED Store!vars
<1>1. Extends(file, since, page_count)
  BY ExtendsSame DEF RefineInv
<1>2. \A q \in 0 .. page_count - 1 : Shown(file, q) = View(q)
  BY DEF Shown, Pooled, View
<1>3. ASSUME NEW g \in Guards, FetchPage(g, p)
      PROVE  UNCHANGED Store!vars
  <2>1. Fetched(file, since, g, p) /\ page_count' = page_count
    BY <1>3 DEF FetchPage
  <2>2. /\ \A q \in 0 .. page_count - 1 : View(q)' = Shown(file, q)
        /\ since' = since
        /\ Unreleased' = Unreleased
    BY <1>1, <2>1, FetchedShown DEF RefineInv
  <2>3. QED
    BY <1>2, <2>1, <2>2, StoreStutters DEF PageIds
<1>4. ASSUME FetchFails(p)
      PROVE  Store!Next \/ UNCHANGED Store!vars
  <2>1. NotFetched(file, since, p) /\ page_count' = page_count
    BY <1>4 DEF FetchFails
  <2>2. /\ \A q \in 0 .. page_count - 1 : View(q)' = Shown(file, q)
        /\ since' = since \/ \E v \in Cached : since' = DamagedSet(since, {v})
        /\ Unreleased' = Unreleased
    BY <1>1, <2>1, NotFetchedShown DEF RefineInv
  <2>3. CASE since' = since
    BY <1>2, <2>1, <2>2, <2>3, StoreStutters DEF PageIds
  <2>4. ASSUME NEW v \in Cached, since' = DamagedSet(since, {v})
        PROVE  Store!Next
    BY <1>2, <2>1, <2>2, <2>4, StoreDamage DEF PageIds, RefineInv
  <2>5. QED
    BY <2>2, <2>3, <2>4
<1>5. QED
  BY <1>3, <1>4

\* allocate_page shows a zero page, also when the fetch after it fails.
LEMMA AllocateRefines ==
    ASSUME RefineInv,
           (\E g \in Guards : AllocatePage(g)) \/ AllocateLeaks \/ AllocateOnDisk
    PROVE  Store!Next
<1>1. CanAllocate /\ page_count' = page_count + 1 /\ page_count \in Nat
  BY DEF AllocatePage, AllocateLeaks, AllocateOnDisk, RefineInv, TypeOK, DiskTypeOK
<1>2. Extends(Appended, SinceAppended, page_count + 1)
  BY <1>1, ExtendsAppended DEF RefineInv
<1>3. 0 .. (page_count + 1) - 1 = 0 .. page_count
  BY <1>1
<1>4. ASSUME NEW g \in Guards, AllocatePage(g)
      PROVE  Store!Next
  <2>1. Fetched(Appended, SinceAppended, g, page_count)
    BY <1>4 DEF AllocatePage
  <2>2. /\ \A q \in 0 .. (page_count + 1) - 1 : View(q)' = Shown(Appended, q)
        /\ since' = SinceAppended
        /\ Unreleased' = Unreleased
    BY <1>1, <1>2, <2>1, FetchedShown DEF RefineInv
  <2>3. QED
    BY <1>1, <1>3, <2>2, StoreAllocate DEF RefineInv
<1>5. CASE AllocateLeaks
  <2>1. NotFetched(Appended, SinceAppended, page_count)
    BY <1>5 DEF AllocateLeaks
  <2>2. /\ \A q \in 0 .. (page_count + 1) - 1 : View(q)' = Shown(Appended, q)
        /\ since' = SinceAppended \/ \E v \in Cached : since' = DamagedSet(SinceAppended, {v})
        /\ Unreleased' = Unreleased
    BY <1>1, <1>2, <2>1, NotFetchedShown DEF RefineInv
  <2>3. QED
    BY <1>1, <1>3, <2>2, StoreAllocate DEF RefineInv
<1>6. CASE AllocateOnDisk
  <2>1. \A q \in 0 .. page_count : View(q)' = Shown(Appended, q)
    BY <1>6 DEF AllocateOnDisk, View, Shown, Pooled, Cached
  <2>2. since' = SinceAppended /\ Unreleased' = Unreleased
    BY <1>6 DEF AllocateOnDisk, Unreleased
  <2>3. QED
    BY <1>1, <2>1, <2>2, StoreAllocate DEF RefineInv
<1>7. QED
  BY <1>4, <1>5, <1>6

\* A write through a guard is a Modify, and its page is held from then on.
LEMMA ModifyRefines ==
    ASSUME RefineInv, NEW g \in Guards, NEW c \in Content, Modify(g, c)
    PROVE  Store!Next
<1> DEFINE p == guards[g].page
<1>1. p \in Cached /\ p \in PageIds /\ p # CatalogPage /\ guards[g].live
  BY DEF Modify, Decodes, RefineInv, CleanInv, CatalogInv, PinsMatchGuards, TypeOK
<1>2. \A q \in PageIds : View(q)' = IF q = p THEN c ELSE View(q)
  BY <1>1 DEF Modify, RefineInv, TypeOK, View, Cached, Rewritten
<1>3. PageIds' = PageIds /\ page_count' = page_count
  BY DEF Modify, PageIds
<1>4. [q \in PageIds |-> View(q)]' = [[q \in PageIds |-> View(q)] EXCEPT ![p] = c]
  BY <1>1, <1>2, <1>3
<1>5. since' = [since EXCEPT ![p] = @ \cup {c}]
  BY DEF Modify
<1>6. Unreleased' = Unreleased \cup {p}
  <2>1. \A h \in Guards : /\ guards'[h].live = guards[h].live
                          /\ guards'[h].page = guards[h].page
                          /\ guards'[h].dirty = IF h = g THEN TRUE ELSE guards[h].dirty
    BY DEF Modify, RefineInv, TypeOK, Guard
  <2>2. guards[g].live
    BY <1>1
  <2>3. QED
    BY <2>1, <2>2 DEF Unreleased
<1>7. Store!Modify(p, c)
  BY <1>3, <1>4, <1>5, <1>6 DEF Store!Modify
<1>8. p \in Store!PageIds /\ c \in Image
  BY <1>1 DEF Store!PageIds, PageIds, Image
<1>9. QED
  BY <1>7, <1>8 DEF Store!Next

\* A guard that lets go, or is moved from, may release its page.
LEMMA ReleaseRefines ==
    ASSUME RefineInv,
           \/ \E g \in Guards : Release(g)
           \/ \E g, h \in Guards : Move(g, h)
    PROVE  Store!Next
<1>1. /\ page_count' = page_count /\ file' = file /\ since' = since
      /\ frames' = frames \/ \E g \in Guards : frames' = Unpinned(g)
  BY DEF Release, Move
<1>2. \A q \in PageIds : View(q)' = View(q)
  BY <1>1, UnpinnedClean DEF View, Cached, RefineInv
<1>3. [q \in PageIds |-> View(q)]' = [q \in PageIds |-> View(q)]
  BY <1>1, <1>2 DEF PageIds
<1>4. \A x \in Guards : guards'[x].live /\ guards'[x].dirty =>
         \E y \in Guards : guards[y].live /\ guards[y].dirty
                            /\ guards'[x].page = guards[y].page
  BY DEF Release, Move, NullGuard, RefineInv, TypeOK
<1>5. Unreleased' \in SUBSET Unreleased
  BY <1>4 DEF Unreleased
<1>6. QED
  BY <1>1, <1>3, <1>5 DEF Store!Release, Store!Next

\* Reading is not changed by writing frames back.
LEMMA CleanedView ==
    ASSUME TypeOK, NEW W, W \subseteq Cached, NEW V, V \subseteq Pooled,
           \/ file' = Flushed(file, V)
           \/ \E v \in Pooled : file' \in FailedWrites(Flushed(file, V), v, frames[v].bytes),
           frames' = Cleaned(W)
    PROVE  \A q \in PageIds : View(q)' = View(q)
<1>1. DOMAIN frames' = Cached /\ \A q \in Cached : frames'[q].bytes = frames[q].bytes
  BY CleanedPins DEF Cleaned
<1>2. \A q \in PageIds : q \notin Pooled => file'[q] = file[q]
  BY DEF FailedWrites, Flushed, TypeOK, DiskTypeOK
<1>3. QED
  BY <1>1, <1>2 DEF View, Cached, Pooled

\* A failed write that is recorded as damage is a Damage.
LEMMA FailedFlushRefines ==
    ASSUME RefineInv, page_count' = page_count, Unreleased' = Unreleased,
           NEW v \in Pooled, NEW W, W \subseteq Pooled, NEW V, V \subseteq Cached,
           file' \in FailedWrites(Flushed(file, W), v, frames[v].bytes),
           frames' = Cleaned(V), since' = Damaged(since, v)
    PROVE  Store!Next
<1>1. \A q \in PageIds : View(q)' = View(q)
  BY CleanedView DEF RefineInv
<1>2. since' = DamagedSet(since, {v})
  BY DEF Damaged, DamagedSet, RefineInv, TypeOK
<1>3. QED
  BY <1>1, <1>2, StoreDamage DEF RefineInv, Pooled

\* flush_page is a Damage, or nothing to a reader.
LEMMA FlushPageRefines ==
    ASSUME RefineInv, NEW p \in Ids, FlushPage(p)
    PROVE  Store!Next \/ UNCHANGED Store!vars
<1>1. page_count' = page_count /\ Unreleased' = Unreleased /\ p \in Pooled
  BY DirtyPooled DEF FlushPage, Unreleased, RefineInv, CleanInv
<1>2. CASE file' = Flushed(file, {p}) /\ frames' = Cleaned({p}) /\ UNCHANGED since
  BY <1>1, <1>2, CleanedView, StoreStutters DEF RefineInv, Pooled
<1>3. CASE /\ file' \in FailedWrites(file, p, frames[p].bytes)
           /\ since' = Damaged(since, p)
           /\ UNCHANGED frames
  <2>1. Flushed(file, {}) = file /\ Cleaned({}) = frames
    BY DEF Flushed, Cleaned, RefineInv, TypeOK, DiskTypeOK, Cached
  <2>2. QED
    BY <1>1, <1>3, <2>1, FailedFlushRefines
<1>4. QED
  BY <1>2, <1>3 DEF FlushPage

\* flush_all that ends is a Sync, or nothing when only the last flush of the
\* stream failed.
LEMMA FlushAllRefines ==
    ASSUME RefineInv, FlushAll
    PROVE  Store!Next \/ UNCHANGED Store!vars
<1>1. page_count' = page_count /\ Unreleased' = Unreleased /\ PageIds' = PageIds
  BY DEF FlushAll, Unreleased, PageIds
<1>2. ASSUME FlushAllDone,
             \/ UNCHANGED since
             \/ since' = [p \in PageIds |->
                            IF p \in Unreleased THEN since[p] ELSE {View(p)}]
      PROVE  Store!Next \/ UNCHANGED Store!vars
  <2>0. Dirty(Cached) \subseteq Pooled
    BY DirtyPooled DEF RefineInv, CleanInv
  <2>1. \A q \in PageIds : View(q)' = View(q)
    BY <1>2, <2>0, CleanedView DEF FlushAllDone, RefineInv
  <2>2. CASE UNCHANGED since
    BY <1>1, <2>1, <2>2, StoreStutters
  <2>3. CASE since' = [p \in PageIds |->
                         IF p \in Unreleased THEN since[p] ELSE {View(p)}]
    <3>1. Store!Sync
      BY <1>1, <2>1, <2>3 DEF Store!Sync, Store!PageIds, PageIds
    <3>2. QED
      BY <3>1 DEF Store!Next
  <2>4. QED
    BY <1>2, <2>2, <2>3
<1>3. CASE FlushAllFails
  <2>1. PICK v \in Dirty(Cached), W \in SUBSET Dirty(Cached) :
           /\ file' \in FailedWrites(Flushed(file, W), v, frames[v].bytes)
           /\ frames' = Cleaned(W)
           /\ since' = Damaged(since, v)
    BY <1>3 DEF FlushAllFails
  <2>2. v \in Pooled /\ W \subseteq Pooled /\ W \subseteq Cached
    BY <2>1, DirtyPooled DEF RefineInv, CleanInv, Pooled
  <2>3. QED
    BY <1>1, <2>1, <2>2, FailedFlushRefines
<1>4. QED
  BY <1>2, <1>3 DEF FlushAll

\* store_catalog changes the page that the catalog reads past the pool.
LEMMA StoreCatalogRefines ==
    ASSUME RefineInv, NEW c \in Catalogs, StoreCatalog(c)
    PROVE  Store!Next
<1>1. /\ CatalogPage \in PageIds
      /\ page_count' = page_count /\ PageIds' = PageIds
      /\ file \in [PageIds -> Image]
  BY DEF StoreCatalog, RefineInv, CleanInv, CatalogInv, TypeOK, DiskTypeOK,
         PageIds, CatalogPage
<1>2. \A q \in PageIds : View(q)' = IF q = CatalogPage THEN c ELSE View(q)
  BY <1>1 DEF StoreCatalog, View, Cached
<1>3. [q \in PageIds |-> View(q)]' = [[q \in PageIds |-> View(q)] EXCEPT ![CatalogPage] = c]
  BY <1>1, <1>2
<1>4. since' = [since EXCEPT ![CatalogPage] = {c}] /\ Unreleased' = Unreleased
  BY DEF StoreCatalog, Unreleased
<1>5. Store!WriteThrough(CatalogPage, c)
  BY <1>1, <1>3, <1>4 DEF Store!WriteThrough
<1>6. CatalogPage \in Store!PageIds /\ c \in Image
  BY <1>1 DEF Store!PageIds, PageIds, Image
<1>7. QED
  BY <1>5, <1>6 DEF Store!Next

\* After a restart clients read the file, and nothing else is left.
LEMMA ForgottenView ==
    ASSUME Forget
    PROVE  /\ page_count' = page_count /\ PageIds' = PageIds
           /\ \A q \in PageIds : View(q)' = file'[q]
           /\ Unreleased' = {}
           /\ since' = [q \in PageIds |-> {file'[q]}]
BY DEF Forget, PageIds, View, Cached, Unreleased, NullGuard

\* A process that ends without having flushed leaves what a restart may find.
LEMMA CrashRefines ==
    ASSUME RefineInv, Crash
    PROVE  Store!Next
<1>1. file' = file /\ Forget /\ file \in [PageIds -> Image]
  BY DEF Crash, RefineInv, TypeOK, DiskTypeOK
<1>2. \A q \in PageIds : file[q] \in Image /\ file[q] \in since[q]
  BY <1>1 DEF RefineInv, Survivors
<1>3. [q \in PageIds |-> View(q)]' = [q \in PageIds |-> file[q]]
  BY <1>1, ForgottenView
<1>4. Store!Restart({})
  BY <1>1, <1>2, <1>3, ForgottenView
  DEF Store!Restart, Store!Damaged, Store!PageIds, PageIds
<1>5. QED
  BY <1>4 DEF Store!Next, Store!AtMostOne

\* A shutdown loses nothing, unless its last flush fails.
LEMMA ShutdownRefines ==
    ASSUME RefineInv, Shutdown
    PROVE  Store!Next
<1>1. Forget /\ Unreleased = {}
  BY DEF Shutdown, Unreleased
<1>2. CASE file' = Flushed(file, Dirty(Cached))
  <2>1. \A q \in PageIds : file'[q] = View(q)
    <3>1. Dirty(Cached) \subseteq Pooled
      BY DirtyPooled DEF RefineInv, CleanInv
    <3>2. \A q \in Pooled : q \in Dirty(Cached) \/ frames[q].bytes = file[q]
      BY <1>1 DEF Dirty, Pooled, RefineInv, CleanInv, CleanFramesMatchFile
    <3>3. QED
      BY <1>2, <3>1, <3>2 DEF Flushed, View, Pooled, RefineInv, TypeOK, DiskTypeOK
  <2>2. Store!CleanRestart
    BY <1>1, <2>1, ForgottenView DEF Store!CleanRestart, Store!PageIds, PageIds
  <2>3. QED
    BY <2>2 DEF Store!Next
<1>3. ASSUME NEW v \in Dirty(Cached), NEW W \in SUBSET (Dirty(Cached) \ {v}),
             file' \in FailedWrites(Flushed(file, W), v, frames[v].bytes)
      PROVE  Store!Next
  <2>1. v \in Pooled /\ W \subseteq Pooled /\ v \in PageIds /\ v \in Cached /\ W \subseteq Cached
    BY DirtyPooled DEF RefineInv, CleanInv, TypeOK, Pooled
  <2>2. Extends(file, since, page_count)
    BY ExtendsSame DEF RefineInv
  <2>3. \A q \in 0 .. page_count - 1 : file'[q] \in DamagedSet(since, {v})[q]
    BY <1>3, <2>1, <2>2, FailedWriteSurvives DEF RefineInv
  <2>4. file' \in [PageIds -> Image]
    <3>1. Flushed(file, W) \in [PageIds -> Image]
      BY <2>1, FlushedType DEF RefineInv, TypeOK, DiskTypeOK
    <3>2. frames[v].bytes \in Image
      BY <2>1 DEF RefineInv, TypeOK, Frame
    <3>3. QED
      BY <1>3, <2>1, <3>1, <3>2, FailedWritesType
  <2>5. DamagedSet(since, {v}) = Store!Damaged({v})
    BY DEF DamagedSet, Store!Damaged, Store!PageIds, PageIds, RefineInv, TypeOK
  <2>6. [q \in PageIds |-> View(q)]' = [q \in PageIds |-> file'[q]]
    BY <1>1, ForgottenView
  <2>7. Store!Restart({v})
    BY <1>1, <2>3, <2>4, <2>5, <2>6, ForgottenView
    DEF Store!Restart, Store!PageIds, PageIds
  <2>8. {v} \in Store!AtMostOne
    BY <2>1 DEF Store!AtMostOne, Store!PageIds, PageIds
  <2>9. QED
    BY <2>7, <2>8 DEF Store!Next
<1>4. QED
  BY <1>2, <1>3 DEF Shutdown

\* Every step of the pool is a step of the page store, or none.
LEMMA RefineStep == RefineInv /\ [Next]_vars => [Store!Next]_Store!vars
<1> SUFFICES ASSUME RefineInv, [Next]_vars
             PROVE  Store!Next \/ UNCHANGED Store!vars
  BY DEF Store!vars
<1>1. ASSUME NEW p \in Ids, (\E g \in Guards : FetchPage(g, p)) \/ FetchFails(p)
      PROVE  Store!Next \/ UNCHANGED Store!vars
  BY <1>1, FetchRefines
<1>2. CASE (\E g \in Guards : AllocatePage(g)) \/ AllocateLeaks \/ AllocateOnDisk
  BY <1>2, AllocateRefines
<1>3. ASSUME NEW g \in Guards, NEW c \in Content, Modify(g, c)
      PROVE  Store!Next
  BY <1>3, ModifyRefines
<1>4. CASE (\E g \in Guards : Release(g)) \/ (\E g, h \in Guards : Move(g, h))
  BY <1>4, ReleaseRefines
<1>5. ASSUME NEW p \in Ids, FlushPage(p)
      PROVE  Store!Next \/ UNCHANGED Store!vars
  BY <1>5, FlushPageRefines
<1>6. CASE FlushAll
  BY <1>6, FlushAllRefines
<1>7. ASSUME NEW c \in Catalogs, StoreCatalog(c)
      PROVE  Store!Next
  BY <1>7, StoreCatalogRefines
<1>8. CASE Shutdown \/ Crash
  BY <1>8, ShutdownRefines, CrashRefines
<1>9. CASE UNCHANGED vars
  <2>1. UNCHANGED <<page_count, file, frames, guards, since>>
    BY <1>9 DEF vars
  <2>2. (\A q \in PageIds : View(q)' = View(q)) /\ Unreleased' = Unreleased
    BY <2>1 DEF View, Cached, Unreleased
  <2>3. QED
    BY <2>1, <2>2, StoreStutters
<1>10. QED
  BY <1>1, <1>2, <1>3, <1>4, <1>5, <1>6, <1>7, <1>8, <1>9 DEF Next
----------------------------------------------------------------------------
\* Survivors is an invariant.

\* A write of several frames, at most one of which fails and is recorded, keeps
\* what clients read and what the file holds among what a restart may find.
LEMMA FlushSurvives ==
    ASSUME RefineInv, page_count' = page_count, NEW W, W \subseteq Pooled,
           NEW V, V \subseteq Cached, frames' = Cleaned(V),
           \/ file' = Flushed(file, W) /\ since' = since
           \/ \E v \in Pooled :
                 /\ file' \in FailedWrites(Flushed(file, W), v, frames[v].bytes)
                 /\ since' = Damaged(since, v)
    PROVE  Survivors'
<1>1. Extends(file, since, page_count) /\ PageIds' = PageIds
  BY ExtendsSame DEF RefineInv, PageIds
<1>2. \A q \in PageIds : View(q)' = View(q) /\ View(q) \in since[q]
  BY CleanedView DEF RefineInv, Survivors
<1>3. CASE file' = Flushed(file, W) /\ since' = since
  <2>1. \A q \in PageIds : file'[q] \in since'[q]
    BY <1>1, <1>3, FlushedSurvives DEF RefineInv, PageIds
  <2>2. QED
    BY <1>1, <1>2, <1>3, <2>1 DEF Survivors
<1>4. ASSUME NEW v \in Pooled,
             file' \in FailedWrites(Flushed(file, W), v, frames[v].bytes),
             since' = Damaged(since, v)
      PROVE  Survivors'
  <2>1. since' = DamagedSet(since, {v})
    BY <1>4 DEF Damaged, DamagedSet, RefineInv, TypeOK
  <2>2. \A q \in PageIds : file'[q] \in since'[q]
    BY <1>1, <1>4, <2>1, FailedWriteSurvives DEF RefineInv, PageIds
  <2>3. \A q \in PageIds : since[q] \subseteq since'[q]
    BY <2>1 DEF DamagedSet, RefineInv, TypeOK
  <2>4. QED
    BY <1>1, <1>2, <2>2, <2>3 DEF Survivors
<1>5. QED
  BY <1>3, <1>4

\* So does a fetch, successful or not, of a page that exists or was just made.
LEMMA FetchSurvives ==
    ASSUME RefineInv, NEW n, NEW f, NEW s, Extends(f, s, n), page_count' = n, NEW p,
           (\E g \in Guards : Fetched(f, s, g, p)) \/ NotFetched(f, s, p)
    PROVE  Survivors'
<1>1. \A q \in 0 .. n - 1 : Shown(f, q) \in s[q]
  BY ShownSurvives DEF RefineInv
<1>2. \A q \in 0 .. n - 1 : View(q)' = Shown(f, q)
  BY FetchedShown, NotFetchedShown DEF RefineInv
<1>3. \A q \in 0 .. n - 1 : file'[q] \in since'[q] /\ s[q] \subseteq since'[q]
  <2>1. ASSUME NEW g \in Guards, Fetched(f, s, g, p)
        PROVE  \A q \in 0 .. n - 1 : file'[q] \in since'[q] /\ s[q] \subseteq since'[q]
    <3>1. \A q \in 0 .. n - 1 : file'[q] \in s[q]
      BY <2>1, FetchedSurvives DEF RefineInv, CleanInv
    <3>2. since' = s
      BY <2>1 DEF Fetched
    <3>3. QED
      BY <3>1, <3>2
  <2>2. CASE NotFetched(f, s, p)
    BY <2>2, NotFetchedSurvives DEF RefineInv, CleanInv
  <2>3. QED
    BY <2>1, <2>2
<1>4. QED
  BY <1>1, <1>2, <1>3 DEF Survivors, PageIds

\* Every step keeps Survivors.
LEMMA SurvivorsStep == RefineInv /\ [Next]_vars => Survivors'
<1> SUFFICES ASSUME RefineInv, [Next]_vars
             PROVE  Survivors'
  OBVIOUS
<1>0. /\ Extends(file, since, page_count)
      /\ CanAllocate => Extends(Appended, SinceAppended, page_count + 1)
  BY ExtendsSame, ExtendsAppended DEF RefineInv
<1>1. ASSUME NEW p \in Ids, (\E g \in Guards : FetchPage(g, p)) \/ FetchFails(p)
      PROVE  Survivors'
  BY <1>0, <1>1, FetchSurvives DEF FetchPage, FetchFails
<1>2. CASE (\E g \in Guards : AllocatePage(g)) \/ AllocateLeaks
  BY <1>0, <1>2, FetchSurvives DEF AllocatePage, AllocateLeaks
<1>3. CASE AllocateOnDisk
  <2>1. \A q \in 0 .. page_count : /\ View(q)' = Shown(Appended, q)
                                   /\ file'[q] = Appended[q] /\ since'[q] = SinceAppended[q]
    BY <1>3 DEF AllocateOnDisk, View, Shown, Pooled, Cached
  <2>2. /\ \A q \in 0 .. (page_count + 1) - 1 : Shown(Appended, q) \in SinceAppended[q]
        /\ \A q \in 0 .. (page_count + 1) - 1 : Appended[q] \in SinceAppended[q]
    BY <1>0, <1>3, ShownSurvives DEF AllocateOnDisk, RefineInv, Extends
  <2>3. PageIds' = 0 .. page_count /\ 0 .. page_count = 0 .. (page_count + 1) - 1
    BY <1>3 DEF AllocateOnDisk, PageIds, RefineInv, TypeOK, DiskTypeOK
  <2>4. QED
    BY <2>1, <2>2, <2>3 DEF Survivors
<1>4. ASSUME NEW g \in Guards, NEW c \in Content, Modify(g, c)
      PROVE  Survivors'
  <2>1. guards[g].page \in PageIds /\ guards[g].page # CatalogPage
    BY <1>4 DEF Modify, Decodes, RefineInv, CleanInv, CatalogInv, PinsMatchGuards, TypeOK
  <2>2. \A q \in PageIds :
           /\ since'[q] = IF q = guards[g].page THEN since[q] \cup {c} ELSE since[q]
           /\ View(q)' = IF q = guards[g].page THEN c ELSE View(q)
    BY <1>4, <2>1
    DEF Modify, RefineInv, PinsMatchGuards, TypeOK, View, Cached, Rewritten
  <2>3. PageIds' = PageIds /\ file' = file
    BY <1>4 DEF Modify, PageIds
  <2>4. QED
    BY <2>2, <2>3 DEF Survivors, RefineInv
<1>5. CASE (\E g \in Guards : Release(g)) \/ (\E g, h \in Guards : Move(g, h))
  <2>1. /\ page_count' = page_count /\ file' = file /\ since' = since
        /\ frames' = frames \/ \E g \in Guards : frames' = Unpinned(g)
    BY <1>5 DEF Release, Move
  <2>2. \A q \in PageIds : View(q)' = View(q)
    BY <2>1, UnpinnedClean DEF View, Cached, RefineInv
  <2>3. QED
    BY <2>1, <2>2 DEF Survivors, RefineInv, PageIds
<1>6. ASSUME NEW p \in Ids, FlushPage(p)
      PROVE  Survivors'
  <2>1. /\ Flushed(file, {}) = file /\ Cleaned({}) = frames /\ {p} \subseteq Pooled
        /\ page_count' = page_count
    BY <1>6, DirtyPooled DEF FlushPage, Flushed, Cleaned, RefineInv, CleanInv, TypeOK,
                             DiskTypeOK, Cached
  <2>2. CASE file' = Flushed(file, {p}) /\ frames' = Cleaned({p}) /\ UNCHANGED since
    BY <2>1, <2>2, FlushSurvives DEF Pooled
  <2>3. CASE /\ file' \in FailedWrites(file, p, frames[p].bytes)
             /\ since' = Damaged(since, p)
             /\ UNCHANGED frames
    BY <2>1, <2>3, FlushSurvives
  <2>4. QED
    BY <1>6, <2>2, <2>3 DEF FlushPage
<1>7. CASE FlushAll
  <2>1. page_count' = page_count /\ PageIds' = PageIds /\ Dirty(Cached) \subseteq Pooled
    BY <1>7, DirtyPooled DEF FlushAll, PageIds, RefineInv, CleanInv
  <2>2. CASE FlushAllDone /\ UNCHANGED since
    BY <2>1, <2>2, FlushSurvives DEF FlushAllDone
  <2>3. CASE /\ FlushAllDone
             /\ since' = [p \in PageIds |->
                            IF p \in Unreleased THEN since[p] ELSE {View(p)}]
    <3>1. \A q \in PageIds : View(q)' = View(q)
      BY <2>1, <2>3, CleanedView DEF FlushAllDone, RefineInv
    <3>2. \A q \in PageIds : \/ file'[q] = View(q)
                             \/ q \in Unreleased /\ file'[q] = file[q]
      <4>1. \A q \in PageIds : /\ q \in Dirty(Cached) => file'[q] = frames[q].bytes
                               /\ q \notin Dirty(Cached) => file'[q] = file[q]
        BY <2>3 DEF FlushAllDone, Flushed, RefineInv, TypeOK, DiskTypeOK
      <4>2. \A q \in Pooled : \/ q \in Dirty(Cached) \/ q \in Unreleased
                             \/ frames[q].bytes = file[q]
        BY DEF Dirty, Pooled, RefineInv, CleanInv, CleanFramesMatchFile
      <4>3. QED
        BY <2>1, <4>1, <4>2 DEF View, Pooled
    <3>3. QED
      BY <2>1, <2>3, <3>1, <3>2 DEF Survivors, RefineInv
  <2>4. CASE FlushAllFails
    <3>1. PICK v \in Dirty(Cached), W \in SUBSET Dirty(Cached) :
             /\ file' \in FailedWrites(Flushed(file, W), v, frames[v].bytes)
             /\ frames' = Cleaned(W)
             /\ since' = Damaged(since, v)
      BY <2>4 DEF FlushAllFails
    <3>2. QED
      BY <2>1, <3>1, FlushSurvives DEF Pooled
  <2>5. QED
    BY <1>7, <2>2, <2>3, <2>4 DEF FlushAll
<1>8. ASSUME NEW c \in Catalogs, StoreCatalog(c)
      PROVE  Survivors'
  <2>1. /\ PageIds' = PageIds /\ frames' = frames
        /\ \A q \in PageIds : q # CatalogPage => file'[q] = file[q] /\ since'[q] = since[q]
    BY <1>8 DEF StoreCatalog, RefineInv, TypeOK, DiskTypeOK, PageIds
  <2>2. CatalogPage \in PageIds => since'[CatalogPage] = {file'[CatalogPage]}
    BY <1>8 DEF StoreCatalog, RefineInv, TypeOK, DiskTypeOK
  <2>3. View(CatalogPage)' = file'[CatalogPage]
    BY DEF View
  <2>4. \A q \in PageIds : q # CatalogPage => View(q)' = View(q)
    BY <2>1 DEF View, Cached
  <2>5. QED
    BY <2>1, <2>2, <2>3, <2>4 DEF Survivors, RefineInv
<1>9. CASE Shutdown \/ Crash
  <2>1. Forget
    BY <1>9 DEF Shutdown, Crash
  <2>2. QED
    BY <2>1, ForgottenView DEF Survivors
<1>10. CASE UNCHANGED vars
  BY <1>10 DEF vars, RefineInv, Survivors, PageIds, View, Cached
<1>11. QED
  BY <1>1, <1>2, <1>3, <1>4, <1>5, <1>6, <1>7, <1>8, <1>9, <1>10 DEF Next

\* Survivors holds throughout.
LEMMA SurvivorsKept == Spec => []Survivors
<1>1. Init => Survivors
  BY DEF Init, Survivors, View, Cached, PageIds
<1>2. TypeOK /\ PinsMatchGuards /\ CleanInv /\ Survivors /\ [Next]_vars => Survivors'
  BY SurvivorsStep DEF RefineInv
<1>3. QED
  BY <1>1, <1>2, TypeCorrect, PinsCorrect, CleanCorrect, PTL DEF Spec

\* The pool implements the page store: a reader of a page sees what was last
\* written there, whatever is fetched, evicted or flushed meanwhile, and after a
\* crash no image older than the last flush that succeeded.
THEOREM PoolImplementsStore == Spec => StoreSpec
<1>1. Init => Store!Init
  <2>1. SUFFICES ASSUME Init
                 PROVE  Store!Init
    OBVIOUS
  <2>2. Cached = {} /\ Unreleased = {} /\ PageIds = 0 .. page_count - 1
    BY <2>1 DEF Init, Cached, Unreleased, NullGuard, PageIds
  <2>3. \A p \in PageIds : View(p) = file[p] /\ file[p] \in Image
    BY <2>1, <2>2 DEF View, Init, Image
  <2>4. since = [p \in PageIds |-> {file[p]}] /\ page_count \in 0 .. MaxPages
    BY <2>1 DEF Init
  <2>5. QED
    BY <2>2, <2>3, <2>4 DEF Store!Init, Store!PageIds
<1>2. TypeOK /\ PinsMatchGuards /\ CleanInv /\ Survivors /\ [Next]_vars
        => [Store!Next]_Store!vars
  BY RefineStep DEF RefineInv
<1>3. QED
  BY <1>1, <1>2, TypeCorrect, PinsCorrect, CleanCorrect, SurvivorsKept, PTL
  DEF Spec, StoreSpec, Store!Spec
=============================================================================
