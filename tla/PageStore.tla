----------------------------- MODULE PageStore -----------------------------
(***************************************************************************)
(* What the clients of one database file are promised: numbered pages that *)
(* hold the image last written to them, whatever the buffer pool does with *)
(* its frames; and, when the process ends, a page image that is no older   *)
(* than the last successful flush.                                         *)
(***************************************************************************)
EXTENDS Integers

CONSTANTS MaxPages,  \* page ids are 0 .. MaxPages - 1
          Image,     \* the images a page can show
          Zero,      \* the image of a page that was allocated and never written
          Torn       \* the image a failed write may leave in the file

VARIABLES count,       \* pages allocated so far
          pages,       \* page id -> the image a client reads there
          survives,    \* page id -> the images a restart may find there
          unreleased   \* pages modified through a guard that is still alive

vars == <<count, pages, survives, unreleased>>

PageIds == 0 .. count - 1

Init == /\ count \in 0 .. MaxPages
        /\ pages \in [PageIds -> Image]
        /\ survives = [p \in PageIds |-> {pages[p]}]
        /\ unreleased = {}

\* A failed write of a page that is still held in memory: the reader notices
\* nothing, a restart may.
Damaged(D) == [p \in PageIds |->
                 IF p \in D THEN survives[p] \cup {Torn} ELSE survives[p]]

\* A page is appended to the file; it is zero until somebody writes it.
\* Pages D are damaged on the way.
Allocate(D) ==
    /\ count < MaxPages
    /\ count' = count + 1
    /\ pages' = [p \in 0 .. count |-> IF p = count THEN Zero ELSE pages[p]]
    /\ survives' = [p \in 0 .. count |->
                       IF p = count THEN {Zero} ELSE Damaged(D)[p]]
    /\ UNCHANGED unreleased

\* A page is changed in memory: from now on a restart may find the new image.
Modify(p, c) ==
    /\ pages' = [pages EXCEPT ![p] = c]
    /\ survives' = [survives EXCEPT ![p] = @ \cup {c}]
    /\ unreleased' = unreleased \cup {p}
    /\ UNCHANGED count

\* A page is written straight to the file; a failed write leaves the old
\* image, the new one or a torn one.
WriteThrough(p, c) ==
    /\ \E x \in {pages[p], c, Torn} :
          /\ pages' = [pages EXCEPT ![p] = x]
          /\ survives' = [survives EXCEPT ![p] = {x}]
    /\ UNCHANGED <<count, unreleased>>

\* Guards are released: their modifications belong to the pool from now on.
Release == /\ unreleased' \in SUBSET unreleased
           /\ UNCHANGED <<count, pages, survives>>

Damage(D) == /\ survives' = Damaged(D)
             /\ UNCHANGED <<count, pages, unreleased>>

\* A successful flush: what clients read is what a restart will find, except
\* for pages whose modification has not been released yet.
Sync == /\ survives' = [p \in PageIds |->
                           IF p \in unreleased THEN survives[p] ELSE {pages[p]}]
        /\ UNCHANGED <<count, pages, unreleased>>

\* The process ends and the file is opened again; pages D were damaged by a
\* last, failing flush.
Restart(D) == /\ pages' \in [PageIds -> Image]
              /\ \A p \in PageIds : pages'[p] \in Damaged(D)[p]
              /\ survives' = [p \in PageIds |-> {pages'[p]}]
              /\ unreleased' = {}
              /\ UNCHANGED count

\* A shutdown whose last flush succeeds loses nothing.
CleanRestart == /\ unreleased = {}
                /\ survives' = [p \in PageIds |-> {pages[p]}]
                /\ UNCHANGED <<count, pages, unreleased>>

\* At most one write fails before an operation gives up.
AtMostOne == {{}} \cup {{p} : p \in PageIds}

Next == \/ \E D \in AtMostOne : Allocate(D) \/ Damage(D) \/ Restart(D)
        \/ Release
        \/ Sync
        \/ CleanRestart
        \/ \E p \in PageIds, c \in Image : Modify(p, c) \/ WriteThrough(p, c)

Spec == Init /\ [][Next]_vars
=============================================================================
