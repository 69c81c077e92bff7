----------------------------- MODULE BufferPool -----------------------------
(***************************************************************************)
(* src/src/storage/buffer_pool.cpp over one DiskManager: frames that cache *)
(* pages, guards that pin them, eviction of the least recently used frame, *)
(* flushes that may fail, a process that may end at any point.  The        *)
(* clients are the heap, the trees (through guards) and the catalog, which *)
(* writes its page 0 behind the pool's back.  Every call runs to its end   *)
(* before the next one starts: the program has one thread.                 *)
(***************************************************************************)
EXTENDS DiskManager

CONSTANTS Capacity,  \* frames of the pool: 16 in disk_storage.cpp
          Guards,    \* PageGuard objects of the clients
          MaxClock   \* bound on clock_, so that TLC has finitely many states

ASSUME PoolAssumption == /\ Capacity \in Nat
                         /\ IsFiniteSet(Guards)
                         /\ MaxClock \in Nat

VARIABLES frames,  \* BufferPool::frames_: page id -> Frame
          clock,   \* BufferPool::clock_
          guards,  \* the clients' PageGuard objects
          since    \* history: images of a page since it was last flushed for good

vars == <<page_count, file, frames, clock, guards, since>>

CatalogPage == 0

\* Page ids a client may ask for: those of its pages, and through a torn node or
\* catalog any other, page 0 and ids beyond the file included.
Ids == 0 .. MaxPages - 1

Frame == [bytes : Image, pin_count : Nat, last_used : Nat, dirty : BOOLEAN]
Guard == [live : BOOLEAN, page : 0 .. MaxPages - 1, dirty : BOOLEAN]
NullGuard == [live |-> FALSE, page |-> 0, dirty |-> FALSE]

Cached == DOMAIN frames
Holders(p) == {g \in Guards : guards[g].live /\ guards[g].page = p}
Dirty(P) == {p \in P : frames[p].dirty}

\* What the owner of page p reads: the catalog reads page 0 past the pool.
View(p) == IF p \in Cached \ {CatalogPage} THEN frames[p].bytes ELSE file[p]

\* Pages that a live guard has modified and not yet handed back.
Unreleased == {guards[g].page : g \in {h \in Guards : guards[h].live /\ guards[h].dirty}}
----------------------------------------------------------------------------
\* A database that load_catalog has accepted: page 0 is a catalog page.
Init == /\ page_count \in 1 .. MaxPages
        /\ file \in [PageIds -> Content \cup Catalogs \cup {Zero}]
        /\ \A p \in PageIds : file[p] \in Catalogs <=> p = CatalogPage
        /\ frames = [p \in {} |-> NullGuard]
        /\ clock = 0
        /\ guards = [g \in Guards |-> NullGuard]
        /\ since = [p \in PageIds |-> {file[p]}]

\* The frame that load() gives up: unpinned, with the smallest last_used.
Victims == {v \in Cached :
              /\ frames[v].pin_count = 0
              /\ \A q \in Cached : frames[q].pin_count = 0 =>
                                     frames[v].last_used <= frames[q].last_used}

\* Fault: the capacity test is off by one.
EvictionsLate == IF Cardinality(Cached) <= Capacity THEN {{}} ELSE {{v} : v \in Victims}

\* The sets of pages load() may drop before it reads another one: nothing
\* while there is room, none at all when every frame is pinned.
Evictions == IF Cardinality(Cached) < Capacity THEN {{}} ELSE {{v} : v \in Victims}

\* File f after the frames of W are written to it.
Flushed(f, W) == [p \in DOMAIN f |-> IF p \in W THEN frames[p].bytes ELSE f[p]]

Clean(fr) == [bytes |-> fr.bytes, pin_count |-> fr.pin_count,
              last_used |-> fr.last_used, dirty |-> FALSE]

Cleaned(W) == [p \in Cached |-> IF p \in W THEN Clean(frames[p]) ELSE frames[p]]

Damaged(s, v) == [s EXCEPT ![v] = @ \cup {Torn}]

NewFrame(image) == [bytes |-> image, pin_count |-> 1, last_used |-> clock + 1,
                    dirty |-> FALSE]

Pinned(fr) == [bytes |-> fr.bytes, pin_count |-> fr.pin_count + 1,
               last_used |-> clock + 1, dirty |-> fr.dirty]

\* fetch_page(p) into the empty guard g, with file f and history s.
Fetched(f, s, g, p) ==
    /\ ~guards[g].live
    /\ clock < MaxClock
    /\ \/ /\ p \in Cached
          /\ frames' = [frames EXCEPT ![p] = Pinned(@)]
          /\ file' = f
       \/ /\ p \in DOMAIN f \ Cached
          /\ \E E \in Evictions :
                /\ file' = Flushed(f, Dirty(E))
                /\ frames' = [q \in (Cached \ E) \cup {p} |->
                                 IF q = p THEN NewFrame(f[p]) ELSE frames[q]]
    /\ clock' = clock + 1
    /\ guards' = [guards EXCEPT ![g] = [live |-> TRUE, page |-> p, dirty |-> FALSE]]
    /\ since' = s

\* fetch_page(p) that reports an error: no frame to give up, or the victim
\* cannot be written and stays, or the victim is gone and p cannot be read.
NotFetched(f, s, p) ==
    /\ p \notin Cached
    /\ \/ /\ Evictions = {}
          /\ file' = f
          /\ since' = s
          /\ UNCHANGED frames
       \/ \E E \in Evictions : \E v \in Dirty(E) :
             /\ file' \in FailedWrites(f, v, frames[v].bytes)
             /\ since' = Damaged(s, v)
             /\ UNCHANGED frames
       \/ \E E \in Evictions :
             /\ file' = Flushed(f, Dirty(E))
             /\ frames' = [q \in Cached \ E |-> frames[q]]
             /\ since' = s
    /\ UNCHANGED <<clock, guards>>

FetchPage(g, p) == Fetched(file, since, g, p) /\ UNCHANGED page_count

FetchFails(p) == NotFetched(file, since, p) /\ UNCHANGED page_count

\* History of a file that has just grown by one page.
SinceAppended == [p \in 0 .. page_count |->
                     IF p = page_count THEN {Zero} ELSE since[p]]

\* BufferPool::allocate_page: a new page on disk, then fetched.  When the
\* fetch fails the page stays allocated and nobody knows its id.
AllocatePage(g) ==
    /\ CanAllocate
    /\ page_count' = page_count + 1
    /\ Fetched(Appended, SinceAppended, g, page_count)

AllocateLeaks ==
    /\ CanAllocate
    /\ page_count' = page_count + 1
    /\ NotFetched(Appended, SinceAppended, page_count)

\* Fault: the file grows and page_count_ does not.
AllocateUncounted ==
    /\ CanAllocate
    /\ file' = Appended
    /\ since' = SinceAppended
    /\ UNCHANGED <<page_count, frames, clock, guards>>

\* DiskManager::allocate_page called by the heap, which fetches the page later.
AllocateOnDisk ==
    /\ CanAllocate
    /\ page_count' = page_count + 1
    /\ file' = Appended
    /\ since' = SinceAppended
    /\ UNCHANGED <<frames, clock, guards>>

Rewritten(fr, c) == [bytes |-> c, pin_count |-> fr.pin_count,
                     last_used |-> fr.last_used, dirty |-> fr.dirty]

\* Fault: read_node takes any page for a node.
DecodesAny(image) == TRUE

\* read_node and load_page refuse a page with the magic of another kind of page.
Decodes(image) == image \notin Catalogs

\* A client decodes the page under its guard, changes the bytes and calls
\* mark_dirty: the frame itself learns that it is dirty only when the guard is
\* released.
Modify(g, c) ==
    LET p == guards[g].page
    IN  /\ guards[g].live
        /\ Decodes(frames[p].bytes)
        /\ frames' = [frames EXCEPT ![p] = Rewritten(@, c)]
        /\ guards' = [guards EXCEPT ![g].dirty = TRUE]
        /\ since' = [since EXCEPT ![p] = @ \cup {c}]
        /\ UNCHANGED <<page_count, file, clock>>

\* Faults of unpin: the flag of this guard replaces the flag of the frame, it is
\* not taken over, the clock is read before it is advanced.
UnpinOverwrites(fr, dirty) ==
    [fr EXCEPT !.pin_count = @ - 1, !.last_used = clock + 1, !.dirty = dirty]
UnpinForgets(fr, dirty) ==
    [fr EXCEPT !.pin_count = @ - 1, !.last_used = clock + 1]
UnpinPostIncrement(fr, dirty) ==
    [fr EXCEPT !.pin_count = @ - 1, !.last_used = clock, !.dirty = @ \/ dirty]

\* BufferPool::unpin: a frame one of whose guards has been released.
Unpin(fr, dirty) ==
    [bytes |-> fr.bytes,
     pin_count |-> IF fr.pin_count > 0 THEN fr.pin_count - 1 ELSE 0,
     last_used |-> clock + 1,
     dirty |-> fr.dirty \/ dirty]

Unpinned(g) == [frames EXCEPT ![guards[g].page] = Unpin(@, guards[g].dirty)]

\* PageGuard::release, also run by the destructor.
Release(g) ==
    /\ guards[g].live
    /\ clock < MaxClock
    /\ frames' = Unpinned(g)
    /\ clock' = clock + 1
    /\ guards' = [guards EXCEPT ![g] = NullGuard]
    /\ UNCHANGED <<page_count, file, since>>

\* Fault: a move assignment that does not release the page it held.
MoveLeaks(g, h) ==
    /\ g # h
    /\ guards[h].live
    /\ guards' = [guards EXCEPT ![g] = guards[h], ![h] = NullGuard]
    /\ UNCHANGED <<page_count, file, frames, clock, since>>

\* PageGuard move assignment g = std::move(h): g lets go of its page first.
Move(g, h) ==
    /\ g # h
    /\ guards[h].live
    /\ \/ /\ ~guards[g].live
          /\ UNCHANGED <<frames, clock>>
       \/ /\ guards[g].live
          /\ clock < MaxClock
          /\ frames' = Unpinned(g)
          /\ clock' = clock + 1
    /\ guards' = [guards EXCEPT ![g] = guards[h], ![h] = NullGuard]
    /\ UNCHANGED <<page_count, file, since>>

\* flush_page(p) of a dirty frame; pins do not matter.
FlushPage(p) ==
    /\ p \in Dirty(Cached)
    /\ \/ /\ file' = Flushed(file, {p})
          /\ frames' = Cleaned({p})
          /\ UNCHANGED since
       \/ /\ file' \in FailedWrites(file, p, frames[p].bytes)
          /\ since' = Damaged(since, p)
          /\ UNCHANGED frames
    /\ UNCHANGED <<page_count, clock, guards>>

\* flush_all: every dirty frame is written, in the order of a hash map, until
\* one write fails; then the stream is flushed.
FlushAllDone ==
    /\ file' = Flushed(file, Dirty(Cached))
    /\ frames' = Cleaned(Cached)

FlushAllFails ==
    \E v \in Dirty(Cached) : \E W \in SUBSET (Dirty(Cached) \ {v}) :
       /\ file' \in FailedWrites(Flushed(file, W), v, frames[v].bytes)
       /\ frames' = Cleaned(W)
       /\ since' = Damaged(since, v)

FlushAll ==
    /\ \/ /\ FlushAllDone
          /\ \/ since' = [p \in PageIds |->
                             IF p \in Unreleased THEN since[p] ELSE {View(p)}]
             \/ UNCHANGED since     \* the final stream flush failed
       \/ FlushAllFails
    /\ UNCHANGED <<page_count, clock, guards>>

\* store_catalog writes page 0 through the DiskManager, not through the pool.  A
\* write that fails leaves the old catalog, the new one or a mixture, which has
\* their magic.
StoreCatalog(c) ==
    /\ file' = [file EXCEPT ![CatalogPage] = c]
    /\ since' = [since EXCEPT ![CatalogPage] = {c}]
    /\ UNCHANGED <<page_count, frames, clock, guards>>

\* The process is gone: the next one opens the file with an empty pool.
Forget == /\ frames' = [p \in {} |-> NullGuard]
          /\ clock' = 0
          /\ guards' = [g \in Guards |-> NullGuard]
          /\ since' = [p \in PageIds |-> {file'[p]}]
          /\ UNCHANGED page_count

\* ~BufferPool: one last flush_all whose error nobody sees.
Shutdown ==
    /\ \A g \in Guards : ~guards[g].live
    /\ \/ file' = Flushed(file, Dirty(Cached))
       \/ \E v \in Dirty(Cached) : \E W \in SUBSET (Dirty(Cached) \ {v}) :
             file' \in FailedWrites(Flushed(file, W), v, frames[v].bytes)
    /\ Forget

Crash == UNCHANGED file /\ Forget

Next == \/ \E g \in Guards, p \in Ids : FetchPage(g, p)
        \/ \E p \in Ids : FetchFails(p)
        \/ \E g \in Guards : AllocatePage(g)
        \/ AllocateLeaks
        \/ AllocateOnDisk
        \/ \E g \in Guards, c \in Content : Modify(g, c)
        \/ \E g \in Guards : Release(g)
        \/ \E g, h \in Guards : Move(g, h)
        \/ \E p \in Ids : FlushPage(p)
        \/ FlushAll
        \/ \E c \in Catalogs : StoreCatalog(c)
        \/ Shutdown
        \/ Crash

Spec == Init /\ [][Next]_vars
----------------------------------------------------------------------------
TypeOK == /\ DiskTypeOK
          /\ Cached \subseteq PageIds
          /\ frames \in [Cached -> Frame]
          /\ clock \in Nat
          /\ guards \in [Guards -> Guard]
          /\ since \in [PageIds -> SUBSET Image]

\* A frame's pin count is the number of live guards on it, across moves,
\* double fetches, evictions and failed loads: no guard ever points into a
\* frame that load() has freed, and no pin is leaked.
PinsMatchGuards ==
    /\ \A g \in Guards : guards[g].live => guards[g].page \in Cached
    /\ \A p \in Cached : frames[p].pin_count = Cardinality(Holders(p))

\* A frame that is clean and that no live guard has modified equals the page
\* in the file, so dropping it loses nothing, even after a flush that ran
\* while a guard was still out and after failed flushes.  Only page 0 may change
\* in the file without the pool.
CleanFramesMatchFile ==
    \A p \in Cached \ {CatalogPage} :
       ~frames[p].dirty /\ p \notin Unreleased => frames[p].bytes = file[p]

\* The pool never writes page 0.  An id in a torn node may bring the page into a
\* frame, which goes stale when the catalog is stored past the pool; but no client
\* decodes the page, so that no guard marks it dirty and no eviction, flush or
\* shutdown puts an old catalog over a new one.
CatalogNotOverwritten ==
    CatalogPage \in Cached => ~frames[CatalogPage].dirty /\ CatalogPage \notin Unreleased

\* The pool never outgrows its capacity, however loads fail.
WithinCapacity == Cardinality(Cached) <= Capacity

\* last_used orders the frames strictly, so the choice of a victim does not
\* depend on the iteration order of the hash map.
LastUsedDistinct ==
    \A p, q \in Cached : /\ frames[p].last_used <= clock
                         /\ p # q => frames[p].last_used # frames[q].last_used

\* The pool implements the page store: fetching, evicting and flushing are
\* invisible to a reader, and a restart finds nothing older than the last
\* successful flush.
Store == INSTANCE PageStore WITH
            count <- page_count,
            pages <- [p \in PageIds |-> View(p)],
            survives <- since,
            unreleased <- Unreleased
StoreSpec == Store!Spec
=============================================================================
