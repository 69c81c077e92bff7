---------------------------- MODULE DiskManager ----------------------------
(***************************************************************************)
(* One .cdb file as src/src/storage/disk_manager.cpp sees it: a row of     *)
(* fixed-size pages, appended by allocate_page, overwritten by write_page. *)
(* A page image is abstract.  The operators describe the file an operation *)
(* leaves; the modules that own a file use them in their actions.          *)
(***************************************************************************)
EXTENDS Integers, FiniteSets

CONSTANTS MaxPages,  \* page ids the file may use: 2^32 in the code
          Content,   \* images that heaps and trees write
          Catalogs,  \* images with the catalog's magic, whole ones and mixtures
          Zero,      \* the image allocate_page writes
          Torn       \* what a failed write of a heap or tree page may leave behind

ASSUME MaxPagesAssumption == MaxPages \in Nat \ {0}

VARIABLES page_count,  \* DiskManager::page_count_
          file         \* page id -> image in the file

diskVars == <<page_count, file>>

Image == Content \cup Catalogs \cup {Zero, Torn}

\* Page ids that read_page and write_page accept.
PageIds == 0 .. page_count - 1

DiskTypeOK == /\ page_count \in 0 .. MaxPages
              /\ file \in [PageIds -> Image]

\* allocate_page refuses when no page id is left.  When the write fails it counts
\* no page; what the file may hold behind the last page is left out.
CanAllocate == page_count < MaxPages

\* The file after a successful allocate_page: a zero page at the end.
Appended == [p \in 0 .. page_count |-> IF p = page_count THEN Zero ELSE file[p]]

\* The files a failed write_page may leave: the stream reports an error, and
\* the page holds the old bytes, the new ones or a mixture.
FailedWrites(f, p, c) == {[f EXCEPT ![p] = x] : x \in {f[p], c, Torn}}
=============================================================================
