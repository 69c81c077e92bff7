----------------------------- MODULE BPlusTree -----------------------------
(***************************************************************************)
(* src/src/storage/b_plus_tree.cpp: a B+ tree whose nodes are pages of the *)
(* buffer pool.  An insertion is the list of what the pool shows after     *)
(* each page it writes, in the order of the code; when the pool cannot     *)
(* provide a page it stops after some of them.  `nodes` is what the pool   *)
(* shows.                                                                  *)
(***************************************************************************)
EXTENDS Integers, FiniteSets, SequencesExt

CONSTANTS Key,      \* 64-bit keys in the code
          RowId,    \* what the tree maps them to
          Entry,    \* the <<key, row id>> pairs its callers insert
          MaxKeys,  \* max_keys_: keys a node may hold, 200 by default
          MaxPages  \* bound on the pages of the file

ASSUME TreeAssumption == /\ Key \subseteq Int
                         /\ Entry \subseteq Key \X RowId
                         /\ MaxKeys \in Nat /\ MaxKeys >= 2
                         /\ MaxPages \in Nat

VARIABLES nodes,  \* page id -> node, pages 1, 2, ... of the file
          root,   \* root_page_id_, NoPage while the tree is empty
          intact  \* history: no operation has stopped half way

vars == <<nodes, root, intact>>

NoPage == 0

Leaf(keys, rows, next) ==
    [leaf |-> TRUE, keys |-> keys, rows |-> rows, children |-> <<>>, next |-> next]
Internal(keys, children) ==
    [leaf |-> FALSE, keys |-> keys, rows |-> <<>>, children |-> children, next |-> NoPage]

\* A page that was allocated and never written: read_node reports CorruptNode.
Unwritten == Leaf(<<>>, <<>>, -1)

\* Positions as the standard algorithms give them, counted from 1.
LowerBound(keys, k) == Cardinality({i \in DOMAIN keys : keys[i] < k}) + 1
UpperBound(keys, k) == Cardinality({i \in DOMAIN keys : keys[i] <= k}) + 1

\* Fault: the search goes left of a separator equal to the key.
ChildForLower(node, k) == node.children[LowerBound(node.keys, k)]

ChildFor(node, k) == node.children[UpperBound(node.keys, k)]

\* The pages from page p down to the leaf where key k belongs.
PathFrom(ns, p, k) ==
    LET down[q \in DOMAIN ns] ==
          IF ns[q].leaf THEN <<q>> ELSE <<q>> \o down[ChildFor(ns[q], k)]
    IN  down[p]

Path(k) == PathFrom(nodes, root, k)

FoundIn(node, k) == {node.rows[i] : i \in {j \in DOMAIN node.keys : node.keys[j] = k}}

\* find(k): the row ids found, none or one; a page that cannot be read is an
\* error and finds nothing.
Find(k) == IF root = NoPage THEN {} ELSE FoundIn(nodes[Last(Path(k))], k)

Lookup == LET found == [k \in Key |-> Find(k)]
          IN  [k \in {j \in Key : found[j] # {}} |-> CHOOSE r \in found[k] : TRUE]

\* Fault: a scan that takes an emptied leaf for the end of the chain.
RangeLeavesUntilEmpty(lower, upper) ==
    LET from[p \in DOMAIN nodes \cup {NoPage}] ==
          IF p = NoPage THEN <<>>
          ELSE IF nodes[p].keys = <<>> \/ \E k \in ToSet(nodes[p].keys) : k > upper
          THEN <<p>>
          ELSE <<p>> \o from[nodes[p].next]
    IN  IF root = NoPage \/ lower > upper THEN <<>> ELSE from[Last(Path(lower))]

\* range(lower, upper): the leaves it reads, from the one where lower belongs
\* along the chain until one with a larger key, one that cannot be read or the
\* end, and the row ids it takes from them.  An absent bound is one beyond
\* every key.
RangeLeaves(lower, upper) ==
    LET from[p \in DOMAIN nodes \cup {NoPage}] ==
          IF p = NoPage THEN <<>>
          ELSE IF nodes[p] = Unwritten \/ \E k \in ToSet(nodes[p].keys) : k > upper
          THEN <<p>>
          ELSE <<p>> \o from[nodes[p].next]
    IN  IF root = NoPage \/ lower > upper THEN <<>> ELSE from[Last(Path(lower))]

RangeRows(lower, upper) ==
    FoldLeft(LAMBDA rows, p : rows \o SubSeq(nodes[p].rows,
                                              LowerBound(nodes[p].keys, lower),
                                              UpperBound(nodes[p].keys, upper) - 1),
             <<>>, RangeLeaves(lower, upper))
----------------------------------------------------------------------------
\* Inserting changes the pages one allocate_page (which leaves an unwritten
\* page) or write_node at a time; `shown` is what the pool shows after each.
Allocated(ns, node) ==
    LET new == Append(ns, Unwritten)
    IN  <<new, [new EXCEPT ![Len(new)] = node]>>

NoSplit == [happened |-> FALSE]
Split(separator, right) == [happened |-> TRUE, separator |-> separator, right |-> right]

\* Faults of a split: the right half is not written, or the left half of a
\* leaf keeps the old link.
SplitIntoUnwritten(ns, p, left, right, separator) ==
    LET new == Append(ns, Unwritten)
    IN  [shown |-> <<new, [new EXCEPT ![p] = left]>>, split |-> Split(separator, Len(new))]
SplitIntoUnlinked(ns, p, left, right, separator) ==
    LET new    == Append(ns, Unwritten)
        halved == [new EXCEPT ![p] = [left EXCEPT !.next = right.next]]
    IN  [shown |-> <<new, halved, [halved EXCEPT ![Len(new)] = right]>>,
         split |-> Split(separator, Len(new))]

\* Page p keeps the left half of its node, a new page takes the right half.
SplitInto(ns, p, left, right, separator) ==
    LET new    == Append(ns, Unwritten)
        halved == [new EXCEPT ![p] = left]
    IN  [shown |-> <<new, halved, [halved EXCEPT ![Len(new)] = right]>>,
         split |-> Split(separator, Len(new))]

SplitLeaf(ns, p, node) ==
    LET middle == Len(node.keys) \div 2
    IN  SplitInto(ns, p,
          Leaf(SubSeq(node.keys, 1, middle), SubSeq(node.rows, 1, middle), Len(ns) + 1),
          Leaf(SubSeq(node.keys, middle + 1, Len(node.keys)),
               SubSeq(node.rows, middle + 1, Len(node.rows)), node.next),
          node.keys[middle + 1])

SplitInternal(ns, p, node) ==
    LET middle == Len(node.keys) \div 2
    IN  SplitInto(ns, p,
          Internal(SubSeq(node.keys, 1, middle), SubSeq(node.children, 1, middle + 1)),
          Internal(SubSeq(node.keys, middle + 2, Len(node.keys)),
                   SubSeq(node.children, middle + 2, Len(node.children))),
          node.keys[middle + 1])

\* Fault: a node may hold one key too many.
WriteOrSplitLate(ns, p, node) ==
    IF Len(node.keys) <= MaxKeys + 1
    THEN [shown |-> <<[ns EXCEPT ![p] = node]>>, split |-> NoSplit]
    ELSE IF node.leaf THEN SplitLeaf(ns, p, node)
    ELSE SplitInternal(ns, p, node)

\* A node with too many keys gives its upper half to a new page.
WriteOrSplit(ns, p, node) ==
    IF Len(node.keys) <= MaxKeys
    THEN [shown |-> <<[ns EXCEPT ![p] = node]>>, split |-> NoSplit]
    ELSE IF node.leaf THEN SplitLeaf(ns, p, node)
    ELSE SplitInternal(ns, p, node)

LeafWith(node, k, r) ==
    LET i == LowerBound(node.keys, k)
    IN  Leaf(InsertAt(node.keys, i, k), InsertAt(node.rows, i, r), node.next)

\* The parent of a node that was split, found on the way down to key k.
ParentWith(node, k, split) ==
    LET i == UpperBound(node.keys, k)
    IN  Internal(InsertAt(node.keys, i, split.separator),
                 InsertAt(node.children, i + 1, split.right))

\* What inserting into page p makes of what was done below it.
Returned(p, k, below) ==
    IF ~below.split.happened THEN below
    ELSE LET this == WriteOrSplit(Last(below.shown), p, ParentWith(nodes[p], k, below.split))
         IN  [shown |-> below.shown \o this.shown, split |-> this.split]

\* insert_recursive(root, k, r): what the pool shows after each change, and
\* whether the root was split.
InsertRecursive(k, r) ==
    LET inserted[p \in DOMAIN nodes] ==
          IF nodes[p].leaf THEN WriteOrSplit(nodes, p, LeafWith(nodes[p], k, r))
          ELSE Returned(p, k, inserted[ChildFor(nodes[p], k)])
    IN  inserted[root]

\* insert(k, r): all its changes and the root it ends with.
InsertPlan(k, r) ==
    IF root = NoPage
    THEN [shown |-> Allocated(nodes, Leaf(<<k>>, <<r>>, NoPage)), root |-> Len(nodes) + 1]
    ELSE LET done == InsertRecursive(k, r)
             last == Last(done.shown)
         IN  IF ~done.split.happened THEN [shown |-> done.shown, root |-> root]
             ELSE [shown |-> done.shown \o
                      Allocated(last, Internal(<<done.split.separator>>,
                                               <<root, done.split.right>>)),
                   root  |-> Len(last) + 1]
----------------------------------------------------------------------------
Init == nodes = <<>> /\ root = NoPage /\ intact = TRUE

Readable == root # NoPage => nodes[root] # Unwritten

Insert(k, r) ==
    /\ Readable
    /\ Find(k) = {}          \* else DuplicateKey
    /\ \E plan \in {InsertPlan(k, r)} :
          /\ nodes' = Last(plan.shown)
          /\ Len(nodes') <= MaxPages
          /\ root' = plan.root
    /\ UNCHANGED intact

\* The pool fails after n of the changes.  A caller that keeps its tree object
\* after a failed first insert has a root that was never written.
InsertFails(k, r) ==
    /\ intact               \* bound: one operation stops half way
    /\ Readable
    /\ Find(k) = {}
    /\ \E plan \in {InsertPlan(k, r)} :
          \E n \in 1 .. Len(plan.shown) - 1 :
             /\ nodes' = plan.shown[n]
             /\ Len(nodes') <= MaxPages
             /\ root' \in IF root = NoPage THEN {NoPage, plan.root} ELSE {root}
    /\ intact' = FALSE

Erase(k) ==
    /\ root # NoPage
    /\ Find(k) # {}          \* else nothing to do
    /\ LET p    == Last(Path(k))
           node == nodes[p]
           i    == LowerBound(node.keys, k)
       IN  nodes' = [nodes EXCEPT ![p] =
                        Leaf(RemoveAt(node.keys, i), RemoveAt(node.rows, i), node.next)]
    /\ UNCHANGED <<root, intact>>

\* The heap or another tree takes the next page of the file.
OtherAllocates ==
    /\ Len(nodes) < MaxPages
    /\ nodes' = Append(nodes, Unwritten)
    /\ UNCHANGED <<root, intact>>

Next == \/ \E e \in Entry : Insert(e[1], e[2]) \/ InsertFails(e[1], e[2])
        \/ \E k \in Key : Erase(k)
        \/ OtherAllocates

Spec == Init /\ [][Next]_vars
----------------------------------------------------------------------------
NodeOK(node) ==
    /\ Len(node.keys) <= MaxKeys
    /\ \A i \in 1 .. Len(node.keys) - 1 : node.keys[i] < node.keys[i + 1]
    /\ IF node.leaf THEN Len(node.rows) = Len(node.keys)
       ELSE Len(node.children) = Len(node.keys) + 1

\* The types, and what read_node checks: every page a tree has written, also
\* by an operation that stopped half way, is a node it can read again.
TypeOK == /\ \A p \in DOMAIN nodes :
                /\ ToSet(nodes[p].keys) \subseteq Key
                /\ ToSet(nodes[p].rows) \subseteq RowId
                /\ ToSet(nodes[p].children) \subseteq DOMAIN nodes
                /\ nodes[p].next \in DOMAIN nodes \cup {NoPage, -1}
                /\ NodeOK(nodes[p])
          /\ root \in DOMAIN nodes \cup {NoPage}
          /\ intact \in BOOLEAN

\* Every search passes as many pages, no page is the child of two nodes or
\* twice of one, and no search of a tree that is intact ends in a page that was
\* allocated for a split and never written.
Balanced ==
    root # NoPage =>
       /\ \A j, k \in Key : Len(Path(j)) = Len(Path(k))
       /\ \A p \in DOMAIN nodes :
             /\ root \notin ToSet(nodes[p].children)
             /\ \A q \in DOMAIN nodes :
                   \A i \in DOMAIN nodes[p].children, m \in DOMAIN nodes[q].children :
                      nodes[p].children[i] = nodes[q].children[m] => p = q /\ i = m
       /\ intact => \A k \in Key : nodes[Last(Path(k))] # Unwritten

\* The leaf where the search for a key ends is linked to the leaf where the
\* search for the next larger key ends that belongs elsewhere, and the search
\* for each key of a leaf ends there: the two ways into the tree, find() from
\* the root and range() along the chain, agree.
ChainAgreesWithTree ==
    intact /\ root # NoPage =>
       \A k \in Key :
          LET leaf   == Last(Path(k))
              beyond == {j \in Key : j > k /\ Last(Path(j)) # leaf}
          IN  /\ nodes[leaf].next = IF beyond = {} THEN NoPage ELSE Last(Path(Min(beyond)))
              /\ \A j \in ToSet(nodes[leaf].keys) : Last(Path(j)) = leaf

\* range() returns the row ids of the keys between its bounds in key order,
\* also over leaves that erase() has emptied.
RangeInOrder ==
    intact =>
       LET map == Lookup
       IN  \A lower, upper \in Key :
              LET rows == RangeRows(lower, upper)
                  keys == {k \in DOMAIN map : lower <= k /\ k <= upper}
              IN  /\ \A p \in ToSet(RangeLeaves(lower, upper)) : nodes[p] # Unwritten
                  /\ Len(rows) = Cardinality(keys)
                  /\ \A k \in keys : rows[Cardinality({j \in keys : j <= k})] = map[k]

\* The tree implements the map of its keys: inserting or erasing a key changes
\* what find() returns for that key and for no other, across splits of leaves,
\* of inner nodes and of the root, and an operation that stops half way never
\* makes find() return a foreign row id.
Index == INSTANCE KeyMap WITH map <- Lookup
KeyMapSpec == Index!Spec
=============================================================================
