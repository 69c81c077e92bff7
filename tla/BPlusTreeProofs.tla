--------------------------- MODULE BPlusTreeProofs ---------------------------
(***************************************************************************)
(* Proofs about BPlusTree for every set of keys, every capacity of a node  *)
(* and every number of pages.                                              *)
(***************************************************************************)
EXTENDS BPlusTree, FiniteSetTheorems, WellFoundedInduction, SequenceTheorems, TLAPS

\* A set of numbers that is not empty has a smallest one.
LEMMA SmallestOf ==
    ASSUME NEW S \in SUBSET Nat, S # {}
    PROVE  \E n \in S : \A m \in S : n <= m
<1>1. IsWellFoundedOn({ss \in Nat \X Nat : ss[1] < ss[2]}, Nat)
  BY NatLessThanWellFounded DEF OpToRel
<1>2. PICK n \in S : \A m \in S : ~ (<<m, n>> \in {ss \in Nat \X Nat : ss[1] < ss[2]})
  BY <1>1, WFMin
<1>3. ASSUME NEW m \in S
      PROVE  n <= m
  <2>1. m \in Nat /\ n \in Nat
    OBVIOUS
  <2>2. <<m, n>> \in Nat \X Nat /\ <<m, n>>[1] = m /\ <<m, n>>[2] = n
    BY <2>1
  <2>3. ~ (m < n)
    BY <1>2, <2>2
  <2>4. QED
    BY <2>1, <2>3
<1>4. QED
  BY <1>3

\* Induction: a set with 0 and with the successor of each number in it has all.
LEMMA Induction ==
    ASSUME NEW S, 0 \in S, \A n \in Nat : n \in S => n + 1 \in S
    PROVE  Nat \subseteq S
<1>1. SUFFICES ASSUME Nat \ S # {}
               PROVE  FALSE
  OBVIOUS
<1>2. PICK n \in Nat \ S : \A m \in Nat \ S : n <= m
  BY <1>1, SmallestOf
<1>3. n - 1 \in Nat /\ n - 1 \in S
  BY <1>2
<1>4. QED
  BY <1>3, <1>2

----------------------------------------------------------------------------
\* A set that holds with a position every smaller one is an interval from 1.
LEMMA Segment ==
    ASSUME NEW n \in Nat, NEW S \in SUBSET (1 .. n),
           \A i \in S, j \in 1 .. n : j < i => j \in S
    PROVE  Cardinality(S) \in 0 .. n /\ S = 1 .. Cardinality(S)
<1> DEFINE T == {i \in Nat : i \in 1 .. n + 1 /\ i \notin S}
<1>1. T # {} /\ T \in SUBSET Nat
  BY n + 1 \in T
<1>2. PICK u \in T : \A m \in T : u <= m
  BY <1>1, SmallestOf
<1>3. u \in 1 .. n + 1 /\ u \notin S
  BY <1>2
<1>4. S = 1 .. u - 1
  <2>1. ASSUME NEW i \in 1 .. u - 1
        PROVE  i \in S
    BY <2>1, <1>2, <1>3
  <2>2. ASSUME NEW i \in S
        PROVE  i \in 1 .. u - 1
    <3>1. ~ (u < i)
      BY <1>3
    <3>2. QED
      BY <1>3, <3>1
  <2>3. QED
    BY <2>1, <2>2
<1>5. Cardinality(1 .. u - 1) = u - 1
  BY <1>3, FS_Interval, u - 1 \in Int, IF 1 > u - 1 THEN u = 1 ELSE TRUE
<1>6. QED
  BY <1>3, <1>4, <1>5

\* Strictly increasing keys.
Sorted(keys) == \A i, j \in 1 .. Len(keys) : i < j => keys[i] < keys[j]

\* Where the keys of a node are no more larger than k,
LEMMA UpperPosition ==
    ASSUME NEW keys \in Seq(Int), Sorted(keys), NEW k \in Int
    PROVE  /\ UpperBound(keys, k) \in 1 .. Len(keys) + 1
           /\ \A i \in 1 .. Len(keys) : keys[i] <= k <=> i < UpperBound(keys, k)
<1> DEFINE S == {i \in DOMAIN keys : keys[i] <= k}
<1>1. DOMAIN keys = 1 .. Len(keys) /\ Len(keys) \in Nat /\ \A i \in 1 .. Len(keys) : keys[i] \in Int
  BY LenProperties, ElementOfSeq
<1>2. S \in SUBSET (1 .. Len(keys))
  BY <1>1
<1>3. \A i \in S, j \in 1 .. Len(keys) : j < i => j \in S
  BY <1>1 DEF Sorted
<1>4. Cardinality(S) \in 0 .. Len(keys) /\ S = 1 .. Cardinality(S)
  <2> HIDE DEF S
  <2>1. QED
    BY <1>1, <1>2, <1>3, Segment
<1>5. UpperBound(keys, k) = Cardinality(S) + 1
  BY DEF UpperBound
<1>6. \A i \in 1 .. Len(keys) : i \in S <=> i < Cardinality(S) + 1
  <2> HIDE DEF S
  <2>1. QED
    BY <1>1, <1>4
<1>7. \A i \in 1 .. Len(keys) : i \in S <=> keys[i] <= k
  BY <1>1
<1> HIDE DEF S
<1>8. QED
  BY <1>1, <1>4, <1>5, <1>6, <1>7

\* and where they are no more smaller than k.
LEMMA LowerPosition ==
    ASSUME NEW keys \in Seq(Int), Sorted(keys), NEW k \in Int
    PROVE  /\ LowerBound(keys, k) \in 1 .. Len(keys) + 1
           /\ \A i \in 1 .. Len(keys) : keys[i] < k <=> i < LowerBound(keys, k)
<1> DEFINE S == {i \in DOMAIN keys : keys[i] < k}
<1>1. DOMAIN keys = 1 .. Len(keys) /\ Len(keys) \in Nat /\ \A i \in 1 .. Len(keys) : keys[i] \in Int
  BY LenProperties, ElementOfSeq
<1>2. S \in SUBSET (1 .. Len(keys))
  BY <1>1
<1>3. \A i \in S, j \in 1 .. Len(keys) : j < i => j \in S
  BY <1>1 DEF Sorted
<1>4. Cardinality(S) \in 0 .. Len(keys) /\ S = 1 .. Cardinality(S)
  <2> HIDE DEF S
  <2>1. QED
    BY <1>1, <1>2, <1>3, Segment
<1>5. LowerBound(keys, k) = Cardinality(S) + 1
  BY DEF LowerBound
<1>6. \A i \in 1 .. Len(keys) : i \in S <=> i < Cardinality(S) + 1
  <2> HIDE DEF S
  <2>1. QED
    BY <1>1, <1>4
<1>7. \A i \in 1 .. Len(keys) : i \in S <=> keys[i] < k
  BY <1>1
<1> HIDE DEF S
<1>8. QED
  BY <1>1, <1>4, <1>5, <1>6, <1>7

\* A sequence with an element inserted,
LEMMA InsertAtElements ==
    ASSUME NEW S, NEW s \in Seq(S), NEW e \in S, NEW i \in 1 .. Len(s) + 1
    PROVE  /\ InsertAt(s, i, e) \in Seq(S)
           /\ Len(InsertAt(s, i, e)) = Len(s) + 1
           /\ \A j \in 1 .. Len(s) + 1 :
                 InsertAt(s, i, e)[j] = IF j < i THEN s[j] ELSE IF j = i THEN e ELSE s[j - 1]
<1> DEFINE a == SubSeq(s, 1, i - 1)
           b == SubSeq(s, i, Len(s))
<1>1. Len(s) \in Nat
  OBVIOUS
<1>2. a \in Seq(S) /\ Len(a) = i - 1 /\ \A j \in 1 .. i - 1 : a[j] = s[j]
  BY <1>1
<1>3. b \in Seq(S) /\ Len(b) = Len(s) - i + 1 /\ \A j \in 1 .. Len(s) - i + 1 : b[j] = s[i + j - 1]
  BY <1>1
<1> HIDE DEF a, b
<1>4. InsertAt(s, i, e) = (a \o << e >>) \o b
  BY DEF InsertAt, a, b
<1>5. a \o << e >> \in Seq(S) /\ Len(a \o << e >>) = i
      /\ \A j \in 1 .. i : (a \o << e >>)[j] = IF j < i THEN s[j] ELSE e
  BY <1>1, <1>2
<1> DEFINE c == a \o << e >>
<1> HIDE DEF c
<1>6. c \in Seq(S) /\ Len(c) = i /\ \A j \in 1 .. i : c[j] = IF j < i THEN s[j] ELSE e
  BY <1>5 DEF c
<1>7. c \o b \in Seq(S) /\ Len(c \o b) = Len(s) + 1
      /\ \A j \in 1 .. Len(s) + 1 : (c \o b)[j] = IF j <= i THEN c[j] ELSE b[j - i]
  <2>1. /\ c \o b \in Seq(S) /\ Len(c \o b) = i + (Len(s) - i + 1)
        /\ \A j \in 1 .. i + (Len(s) - i + 1) : (c \o b)[j] = IF j <= i THEN c[j] ELSE b[j - i]
    BY <1>3, <1>6, ConcatProperties
  <2>2. i + (Len(s) - i + 1) = Len(s) + 1
    BY <1>1
  <2>3. QED
    BY <2>1, <2>2
<1> DEFINE d == c \o b
<1> HIDE DEF d
<1>8. ASSUME NEW j \in 1 .. Len(s) + 1
      PROVE  d[j] = IF j < i THEN s[j] ELSE IF j = i THEN e ELSE s[j - 1]
  <2>1. CASE j <= i
    BY <2>1, <1>1, <1>6, <1>7 DEF d
  <2>2. CASE ~ (j <= i)
    <3>0. d[j] = b[j - i]
      BY <2>2, <1>7 DEF d
    <3>1. d[j] = b[j - i] /\ j - i \in 1 .. Len(s) - i + 1 /\ i + (j - i) - 1 = j - 1
      BY <3>0, <2>2, <1>1
    <3>2. b[j - i] = s[i + (j - i) - 1]
      BY <3>1, <1>3
    <3>3. b[j - i] = s[j - 1]
      BY <3>1, <3>2
    <3>4. j # i /\ ~ (j < i)
      BY <2>2
    <3>5. QED
      BY <3>1, <3>3, <3>4
  <2>3. QED
    BY <2>1, <2>2
<1>9. QED
  BY <1>4, <1>7, <1>8 DEF c, d

\* or removed.
LEMMA RemoveAtElements ==
    ASSUME NEW S, NEW s \in Seq(S), NEW i \in 1 .. Len(s)
    PROVE  /\ RemoveAt(s, i) \in Seq(S)
           /\ Len(RemoveAt(s, i)) = Len(s) - 1
           /\ \A j \in 1 .. Len(s) - 1 :
                 RemoveAt(s, i)[j] = IF j < i THEN s[j] ELSE s[j + 1]
<1> DEFINE a == SubSeq(s, 1, i - 1)
           b == SubSeq(s, i + 1, Len(s))
<1>1. Len(s) \in Nat
  OBVIOUS
<1>2. a \in Seq(S) /\ Len(a) = i - 1 /\ \A j \in 1 .. i - 1 : a[j] = s[j]
  BY <1>1
<1>3. b \in Seq(S) /\ Len(b) = Len(s) - i /\ \A j \in 1 .. Len(s) - i : b[j] = s[i + j]
  BY <1>1
<1> HIDE DEF a, b
<1>4. RemoveAt(s, i) = a \o b
  BY DEF RemoveAt, a, b
<1>5. a \o b \in Seq(S) /\ Len(a \o b) = Len(s) - 1
      /\ \A j \in 1 .. Len(s) - 1 : (a \o b)[j] = IF j < i THEN a[j] ELSE b[j - i + 1]
  <2>1. /\ a \o b \in Seq(S) /\ Len(a \o b) = Len(a) + Len(b)
        /\ \A j \in 1 .. Len(a) + Len(b) :
              (a \o b)[j] = IF j <= Len(a) THEN a[j] ELSE b[j - Len(a)]
    BY <1>2, <1>3, ConcatProperties
  <2>2. Len(a) + Len(b) = Len(s) - 1 /\ i \in Int
    BY <1>1, <1>2, <1>3
  <2>3. \A j \in 1 .. Len(s) - 1 : (j <= Len(a) <=> j < i) /\ j - Len(a) = j - i + 1
    BY <1>1, <1>2, <2>2
  <2> DEFINE c == a \o b
  <2> HIDE DEF c
  <2>4. \A j \in 1 .. Len(s) - 1 : c[j] = IF j < i THEN a[j] ELSE b[j - i + 1]
    BY <2>1, <2>2, <2>3 DEF c
  <2>5. QED
    BY <2>1, <2>2, <2>4 DEF c
<1>6. \A j \in 1 .. Len(s) - 1 : ~ (j < i) => j - i + 1 \in 1 .. Len(s) - i /\ i + (j - i + 1) = j + 1
  BY <1>1
<1> DEFINE c == a \o b
<1> HIDE DEF c
<1>7. \A j \in 1 .. Len(s) - 1 : c[j] = IF j < i THEN s[j] ELSE s[j + 1]
  <2>1. ASSUME NEW j \in 1 .. Len(s) - 1, j < i
        PROVE  c[j] = s[j]
    BY <2>1, <1>2, <1>5, <1>1 DEF c
  <2>2. ASSUME NEW j \in 1 .. Len(s) - 1, ~ (j < i)
        PROVE  c[j] = s[j + 1]
    BY <2>2, <1>3, <1>5, <1>6, <1>1 DEF c
  <2>3. QED
    BY <2>1, <2>2
<1>8. QED
  BY <1>4, <1>5, <1>7 DEF c

\* A part of a sequence.
LEMMA Part ==
    ASSUME NEW S, NEW s \in Seq(S), NEW a \in 1 .. Len(s) + 1, NEW b \in 0 .. Len(s), a <= b + 1
    PROVE  /\ SubSeq(s, a, b) \in Seq(S)
           /\ Len(SubSeq(s, a, b)) = b - a + 1
           /\ \A j \in 1 .. b - a + 1 : SubSeq(s, a, b)[j] = s[a + j - 1]
  OBVIOUS
----------------------------------------------------------------------------
\* What a node is made of,
Node == [leaf : BOOLEAN, keys : Seq(Key), rows : Seq(RowId), children : Seq(Nat), next : Int]

Shape(node, n) ==
    /\ node \in Node
    /\ Sorted(node.keys)
    /\ node.next \in (1 .. n) \cup {NoPage, -1}
    /\ \A i \in 1 .. Len(node.children) : node.children[i] \in 1 .. n
    /\ IF node.leaf THEN Len(node.rows) = Len(node.keys) /\ node.children = <<>>
       ELSE node.rows = <<>> /\ Len(node.children) = Len(node.keys) + 1

\* Key x belongs below the i-th child of a node with these keys.
Between(keys, i, x) == /\ i > 1 => keys[i - 1] <= x
                       /\ i <= Len(keys) => x < keys[i]

\* and how it fits in at height l, when the keys below it are in x.
Fits(node, level, span, l, x) ==
    /\ \A i \in 1 .. Len(node.keys) : node.keys[i] \in x
    /\ node.leaf <=> l = 0
    /\ \A i \in 1 .. Len(node.children) :
          /\ level[node.children[i]] + 1 = l
          /\ span[node.children[i]] \subseteq x
          /\ \A y \in span[node.children[i]] : Between(node.keys, i, y)

\* No page is the child of two nodes or twice of one,
OneParent(ns) ==
    \A p, q \in 1 .. Len(ns) :
       \A i \in 1 .. Len(ns[p].children), m \in 1 .. Len(ns[q].children) :
          ns[p].children[i] = ns[q].children[m] => p = q /\ i = m

\* and a root is the child of none.
Parentless(ns, c) ==
    \A p \in 1 .. Len(ns) : \A i \in 1 .. Len(ns[p].children) : ns[p].children[i] # c

\* Every page, also one that no search reaches, has a height, and the keys at
\* and below it are in its span.
Sound(ns, level, span) ==
    /\ ns \in Seq(Node)
    /\ level \in [1 .. Len(ns) -> Nat]
    /\ span \in [1 .. Len(ns) -> SUBSET Int]
    /\ \A p \in 1 .. Len(ns) :
          /\ Shape(ns[p], Len(ns))
          /\ Len(ns[p].keys) <= MaxKeys
          /\ Fits(ns[p], level, span, level[p], span[p])
    /\ OneParent(ns)

\* The parts of a node have their types.
LEMMA NodeTypes ==
    ASSUME NEW n \in Nat, NEW node, Shape(node, n)
    PROVE  /\ node.leaf \in BOOLEAN
           /\ node.keys \in Seq(Key) /\ node.keys \in Seq(Int) /\ Len(node.keys) \in Nat
           /\ node.rows \in Seq(RowId) /\ node.children \in Seq(Nat)
           /\ Len(node.children) \in Nat
           /\ \A i \in 1 .. Len(node.keys) : node.keys[i] \in Key /\ node.keys[i] \in Int
           /\ DOMAIN node.keys = 1 .. Len(node.keys)
           /\ DOMAIN node.rows = 1 .. Len(node.rows)
           /\ DOMAIN node.children = 1 .. Len(node.children)
<1>1. /\ node.leaf \in BOOLEAN /\ node.keys \in Seq(Key)
      /\ node.rows \in Seq(RowId) /\ node.children \in Seq(Nat)
  BY DEF Shape, Node
<1>2. Key \subseteq Int
  BY TreeAssumption
<1>3. node.keys \in Seq(Int)
  BY <1>1, <1>2, SeqMonotonic
<1>4. QED
  BY <1>1, <1>2, <1>3, LenProperties, ElementOfSeq

\* What Sound says of one page.
LEMMA SoundPage ==
    ASSUME NEW ns, NEW level, NEW span, Sound(ns, level, span), NEW p \in 1 .. Len(ns)
    PROVE  /\ Len(ns) \in Nat /\ DOMAIN ns = 1 .. Len(ns)
           /\ level[p] \in Nat /\ span[p] \subseteq Int
           /\ Shape(ns[p], Len(ns)) /\ Len(ns[p].keys) <= MaxKeys
           /\ Fits(ns[p], level, span, level[p], span[p])
<1>1. Len(ns) \in Nat /\ DOMAIN ns = 1 .. Len(ns)
  BY LenProperties DEF Sound
<1>2. QED
  BY <1>1 DEF Sound

\* The child of a node for a key.
LEMMA ChildPlace ==
    ASSUME NEW node, NEW n \in Nat, Shape(node, n), ~ node.leaf, NEW j \in Int
    PROVE  /\ UpperBound(node.keys, j) \in 1 .. Len(node.children)
           /\ ChildFor(node, j) = node.children[UpperBound(node.keys, j)]
           /\ ChildFor(node, j) \in 1 .. n
           /\ \A i \in 1 .. Len(node.keys) :
                 node.keys[i] <= j <=> i < UpperBound(node.keys, j)
<1>1. node.keys \in Seq(Int) /\ Sorted(node.keys) /\ Len(node.children) = Len(node.keys) + 1
  BY NodeTypes DEF Shape
<1>2. /\ UpperBound(node.keys, j) \in 1 .. Len(node.keys) + 1
      /\ \A i \in 1 .. Len(node.keys) : node.keys[i] <= j <=> i < UpperBound(node.keys, j)
  BY <1>1, UpperPosition
<1>3. UpperBound(node.keys, j) \in 1 .. Len(node.children)
  BY <1>1, <1>2
<1>4. QED
  BY <1>2, <1>3 DEF ChildFor, Shape

\* It is the child between whose keys the key lies.
LEMMA ChildBetween ==
    ASSUME NEW node, NEW n \in Nat, Shape(node, n), ~ node.leaf, NEW j \in Int,
           NEW i \in 1 .. Len(node.children)
    PROVE  Between(node.keys, i, j) <=> i = UpperBound(node.keys, j)
<1> DEFINE u == UpperBound(node.keys, j)
           h == Len(node.keys)
<1>1. h \in Nat /\ \A m \in 1 .. h : node.keys[m] \in Int
  BY NodeTypes
<1>2. u \in 1 .. h + 1 /\ i \in 1 .. h + 1 /\ \A m \in 1 .. h : node.keys[m] <= j <=> m < u
  BY ChildPlace, <1>1 DEF Shape
<1> HIDE DEF u
<1>3. CASE i = u
  <2>1. i > 1 => i - 1 \in 1 .. h /\ i - 1 < u
    BY <1>3, <1>2, <1>1
  <2>2. i <= h => i \in 1 .. h /\ ~ (i < u)
    BY <1>3, <1>2, <1>1
  <2>3. i > 1 => node.keys[i - 1] <= j
    BY <2>1, <1>2
  <2>4. i <= h => j < node.keys[i]
    BY <2>2, <1>1, <1>2
  <2>5. Between(node.keys, i, j)
    BY <2>3, <2>4 DEF Between
  <2>6. QED
    BY <2>5, <1>3 DEF u
<1>4. CASE i < u
  BY <1>1, <1>2, <1>4 DEF Between, u
<1>5. CASE i > u
  <2>1. i > 1 /\ i - 1 \in 1 .. h /\ ~ (i - 1 < u)
    BY <1>5, <1>2, <1>1
  <2>2. ~ (node.keys[i - 1] <= j)
    BY <2>1, <1>2
  <2>3. QED
    BY <2>1, <2>2, <1>5, <1>2 DEF Between, u
<1>6. QED
  BY <1>2, <1>3, <1>4, <1>5

\* One step down: the child is a page, one lower, and its keys are the page's.
LEMMA ChildBelow ==
    ASSUME NEW ns, NEW level, NEW span, Sound(ns, level, span), NEW p \in 1 .. Len(ns),
           ~ ns[p].leaf, NEW j \in Int
    PROVE  /\ ChildFor(ns[p], j) \in 1 .. Len(ns)
           /\ level[ChildFor(ns[p], j)] \in Nat
           /\ level[ChildFor(ns[p], j)] + 1 = level[p]
           /\ span[ChildFor(ns[p], j)] \subseteq span[p]
<1>1. Shape(ns[p], Len(ns)) /\ Fits(ns[p], level, span, level[p], span[p]) /\ Len(ns) \in Nat
  BY SoundPage
<1>2. /\ UpperBound(ns[p].keys, j) \in 1 .. Len(ns[p].children)
      /\ ChildFor(ns[p], j) = ns[p].children[UpperBound(ns[p].keys, j)]
      /\ ChildFor(ns[p], j) \in 1 .. Len(ns)
  BY <1>1, ChildPlace
<1>3. level[ChildFor(ns[p], j)] \in Nat
  BY <1>2 DEF Sound
<1>4. QED
  BY <1>1, <1>2, <1>3 DEF Fits

\* Heights are bounded.
LEMMA Bounded ==
    ASSUME NEW N \in Nat, NEW level \in [1 .. N -> Nat]
    PROVE  \E h \in Nat : \A p \in 1 .. N : level[p] <= h
<1> DEFINE S == {n \in Nat : n <= N => \E h \in Nat : \A p \in 1 .. n : level[p] <= h}
<1>1. 0 \in S
  OBVIOUS
<1>2. ASSUME NEW n \in Nat, n \in S
      PROVE  n + 1 \in S
  <2>1. SUFFICES ASSUME n + 1 <= N
                 PROVE  \E h \in Nat : \A p \in 1 .. n + 1 : level[p] <= h
    OBVIOUS
  <2>2. PICK h \in Nat : \A p \in 1 .. n : level[p] <= h
    BY <1>2, <2>1
  <2>3. level[n + 1] \in Nat
    BY <2>1
  <2> DEFINE g == IF level[n + 1] <= h THEN h ELSE level[n + 1]
  <2>4. g \in Nat /\ h <= g /\ level[n + 1] <= g
    BY <2>3
  <2> HIDE DEF g
  <2>5. ASSUME NEW p \in 1 .. n + 1
        PROVE  level[p] <= g
    <3>1. CASE p = n + 1
      BY <3>1, <2>4
    <3>2. CASE p \in 1 .. n
      BY <3>2, <2>2, <2>4, <2>1, level[p] \in Nat
    <3>3. QED
      BY <3>1, <3>2
  <2>6. QED
    BY <2>4, <2>5
<1>3. Nat \subseteq S
  <2> HIDE DEF S
  <2>1. QED
    BY <1>1, <1>2, Induction
<1>4. N \in S
  <2> HIDE DEF S
  <2>1. QED
    BY <1>3
<1>5. QED
  BY <1>4
----------------------------------------------------------------------------
\* The searches for key k from every page.
Searches(ns, k, f) ==
    f = [q \in DOMAIN ns |-> IF ns[q].leaf THEN <<q>> ELSE <<q>> \o f[ChildFor(ns[q], k)]]

\* They exist, since each step leads one level down,
LEMMA SearchesExist ==
    ASSUME NEW ns, NEW level, NEW span, Sound(ns, level, span), NEW k \in Int
    PROVE  \E f : Searches(ns, k, f)
<1> DEFINE P(n) == {q \in DOMAIN ns : level[q] <= n}
           Def(f, q) == IF ns[q].leaf THEN <<q>> ELSE <<q>> \o f[ChildFor(ns[q], k)]
           S == {n \in Nat : \E f : f = [q \in P(n) |-> Def(f, q)]}
<1>1. DOMAIN ns = 1 .. Len(ns) /\ level \in [1 .. Len(ns) -> Nat] /\ Len(ns) \in Nat
  BY LenProperties DEF Sound
<1>2. 0 \in S
  <2> DEFINE f == [q \in P(0) |-> <<q>>]
  <2>1. \A q \in P(0) : ns[q].leaf
    <3>1. ASSUME NEW q \in P(0)
          PROVE  ns[q].leaf
      <4>1. q \in 1 .. Len(ns) /\ level[q] <= 0 /\ level[q] \in Nat
        BY <1>1
      <4>2. Fits(ns[q], level, span, level[q], span[q])
        BY <4>1, SoundPage
      <4>3. level[q] = 0
        BY <4>1
      <4>4. QED
        BY <4>2, <4>3 DEF Fits
    <3>2. QED
      BY <3>1
  <2>2. f = [q \in P(0) |-> Def(f, q)]
    BY <2>1
  <2> HIDE DEF f
  <2>3. QED
    BY <2>2
<1>3. ASSUME NEW n \in Nat, n \in S
      PROVE  n + 1 \in S
  <2>1. PICK f : f = [q \in P(n) |-> Def(f, q)]
    BY <1>3
  <2> DEFINE g == [q \in P(n + 1) |-> Def(f, q)]
  <2>2. ASSUME NEW q \in P(n + 1), ~ ns[q].leaf
        PROVE  g[ChildFor(ns[q], k)] = f[ChildFor(ns[q], k)]
    <3> DEFINE c == ChildFor(ns[q], k)
    <3>1. q \in 1 .. Len(ns) /\ level[q] <= n + 1
      BY <1>1
    <3>2. c \in 1 .. Len(ns) /\ level[c] \in Nat /\ level[c] + 1 = level[q]
      BY <3>1, <2>2, ChildBelow
    <3> HIDE DEF c
    <3>3. level[c] <= n /\ level[c] <= n + 1
      BY <3>1, <3>2
    <3>4. c \in P(n) /\ c \in P(n + 1)
      BY <3>2, <3>3, <1>1
    <3> HIDE DEF Def, P
    <3>5. g[c] = Def(f, c) /\ f[c] = Def(f, c)
      BY <3>4, <2>1
    <3>6. QED
      BY <3>5 DEF c
  <2>3. \A q \in P(n + 1) : Def(f, q) = Def(g, q)
    <3> HIDE DEF g, P
    <3>1. QED
      BY <2>2
  <2>4. g = [q \in P(n + 1) |-> Def(g, q)]
    <3>1. g = [q \in P(n + 1) |-> Def(f, q)]
      OBVIOUS
    <3> HIDE DEF g, P, Def
    <3>2. QED
      BY <3>1, <2>3
  <2> HIDE DEF g, P, Def
  <2>5. QED
    BY <2>4
<1>4. Nat \subseteq S
  <2> HIDE DEF S
  <2>1. QED
    BY <1>2, <1>3, Induction
<1>5. PICK h \in Nat : \A p \in 1 .. Len(ns) : level[p] <= h
  BY <1>1, Bounded
<1>6. P(h) = DOMAIN ns
  BY <1>1, <1>5
<1>7. \E f : f = [q \in P(h) |-> Def(f, q)]
  <2> HIDE DEF P, Def
  <2>1. QED
    BY <1>4
<1>8. QED
  <2> HIDE DEF P
  <2>1. QED
    BY <1>6, <1>7 DEF Searches

\* so that a search follows its definition.
LEMMA PathStep ==
    ASSUME NEW ns, NEW level, NEW span, Sound(ns, level, span), NEW k \in Int,
           NEW p \in 1 .. Len(ns)
    PROVE  PathFrom(ns, p, k) = IF ns[p].leaf THEN <<p>>
                                ELSE <<p>> \o PathFrom(ns, ChildFor(ns[p], k), k)
<1> DEFINE f == CHOOSE f : Searches(ns, k, f)
<1>1. Searches(ns, k, f)
  BY SearchesExist
<1>2. \A q : PathFrom(ns, q, k) = f[q]
  BY DEF PathFrom, Searches
<1> HIDE DEF f
<1>3. p \in DOMAIN ns
  BY SoundPage
<1>4. f[p] = IF ns[p].leaf THEN <<p>> ELSE <<p>> \o f[ChildFor(ns[p], k)]
  BY <1>1, <1>3 DEF Searches
<1>5. QED
  BY <1>2, <1>4

\* Induction along a search: what holds of the leaves, and of a page when it
\* holds of the child the search takes, holds of every page.
LEMMA AlongSearch ==
    ASSUME NEW ns, NEW level, NEW span, Sound(ns, level, span), NEW k \in Int, NEW G,
           \A p \in 1 .. Len(ns) : ns[p].leaf => p \in G,
           \A p \in 1 .. Len(ns) : ~ ns[p].leaf /\ ChildFor(ns[p], k) \in G => p \in G
    PROVE  \A p \in 1 .. Len(ns) : p \in G
<1> DEFINE S == {n \in Nat : \A p \in 1 .. Len(ns) : level[p] = n => p \in G}
<1>1. 0 \in S
  <2>1. ASSUME NEW p \in 1 .. Len(ns), level[p] = 0
        PROVE  ns[p].leaf
    BY <2>1, SoundPage DEF Fits
  <2>2. QED
    BY <2>1
<1>2. ASSUME NEW n \in Nat, n \in S
      PROVE  n + 1 \in S
  <2>1. ASSUME NEW p \in 1 .. Len(ns), level[p] = n + 1
        PROVE  p \in G
    <3>1. CASE ns[p].leaf
      BY <3>1
    <3>2. CASE ~ ns[p].leaf
      <4> DEFINE c == ChildFor(ns[p], k)
      <4>1. c \in 1 .. Len(ns) /\ level[c] \in Nat /\ level[c] + 1 = level[p]
        BY <3>2, ChildBelow
      <4> HIDE DEF c
      <4>2. level[c] = n
        BY <4>1, <2>1
      <4>3. c \in G
        BY <4>1, <4>2, <1>2
      <4>4. QED
        BY <4>3, <3>2 DEF c
    <3>3. QED
      BY <3>1, <3>2
  <2>2. QED
    BY <2>1
<1>3. Nat \subseteq S
  <2> HIDE DEF S
  <2>1. QED
    BY <1>1, <1>2, Induction
<1>4. ASSUME NEW p \in 1 .. Len(ns)
      PROVE  p \in G
  BY <1>3, SoundPage
<1>5. QED
  BY <1>4

\* A search stays inside the file,
LEMMA PathInside ==
    ASSUME NEW ns, NEW level, NEW span, Sound(ns, level, span), NEW k \in Int
    PROVE  \A p \in 1 .. Len(ns) : PathFrom(ns, p, k) \in Seq(1 .. Len(ns))
                                   /\ Len(PathFrom(ns, p, k)) \in Nat \ {0}
<1> DEFINE Good(p) == PathFrom(ns, p, k) \in Seq(1 .. Len(ns))
                      /\ Len(PathFrom(ns, p, k)) \in Nat \ {0}
           G == {p \in 1 .. Len(ns) : Good(p)}
<1>1. ASSUME NEW p \in 1 .. Len(ns), ns[p].leaf
      PROVE  p \in G
  <2> DEFINE one == <<p>>
  <2>1. PathFrom(ns, p, k) = one
    BY <1>1, PathStep
  <2>2. one \in Seq(1 .. Len(ns)) /\ Len(one) = 1
    OBVIOUS
  <2> HIDE DEF one
  <2>3. Good(p)
    BY <2>1, <2>2, 1 \in Nat \ {0}
  <2>4. QED
    BY <2>3
<1>2. ASSUME NEW p \in 1 .. Len(ns), ~ ns[p].leaf, ChildFor(ns[p], k) \in G
      PROVE  p \in G
  <2> DEFINE rest == PathFrom(ns, ChildFor(ns[p], k), k)
             one == <<p>>
  <2>1. PathFrom(ns, p, k) = one \o rest
    BY <1>2, PathStep
  <2>2. rest \in Seq(1 .. Len(ns)) /\ Len(rest) \in Nat
    BY <1>2
  <2>3. one \in Seq(1 .. Len(ns)) /\ Len(one) = 1
    OBVIOUS
  <2> HIDE DEF rest, one
  <2>4. one \o rest \in Seq(1 .. Len(ns)) /\ Len(one \o rest) \in Nat \ {0}
    <3>1. one \o rest \in Seq(1 .. Len(ns)) /\ Len(one \o rest) = Len(one) + Len(rest)
      BY <2>2, <2>3, ConcatProperties
    <3>2. QED
      BY <3>1, <2>2, <2>3
  <2>5. Good(p)
    BY <2>1, <2>4
  <2>6. QED
    BY <2>5
<1>3. \A p \in 1 .. Len(ns) : p \in G
  <2> HIDE DEF G
  <2>1. QED
    BY <1>1, <1>2, AlongSearch
<1>4. QED
  BY <1>3

\* and finds in a leaf what its child finds.
FindFrom(ns, p, k) == FoundIn(ns[Last(PathFrom(ns, p, k))], k)

\* A search that passes a page finds in its leaf what it finds from the child.
LEMMA FindStep ==
    ASSUME NEW ns, NEW level, NEW span, Sound(ns, level, span), NEW k \in Int,
           NEW p \in 1 .. Len(ns)
    PROVE  /\ ns[p].leaf => FindFrom(ns, p, k) = FoundIn(ns[p], k)
           /\ ~ ns[p].leaf => FindFrom(ns, p, k) = FindFrom(ns, ChildFor(ns[p], k), k)
<1>1. CASE ns[p].leaf
  <2>1. PathFrom(ns, p, k) = <<p>>
    BY <1>1, PathStep
  <2>2. Last(<<p>>) = p
    BY DEF Last
  <2>3. QED
    BY <2>1, <2>2, <1>1 DEF FindFrom
<1>2. CASE ~ ns[p].leaf
  <2> DEFINE c == ChildFor(ns[p], k)
             rest == PathFrom(ns, c, k)
  <2>1. PathFrom(ns, p, k) = <<p>> \o rest
    BY <1>2, PathStep
  <2>2. c \in 1 .. Len(ns)
    BY <1>2, ChildBelow
  <2> HIDE DEF c
  <2>3. rest \in Seq(1 .. Len(ns)) /\ Len(rest) \in Nat \ {0}
    BY <2>2, PathInside
  <2>4. FindFrom(ns, c, k) = FoundIn(ns[Last(rest)], k)
    BY DEF FindFrom
  <2> HIDE DEF rest
  <2>5. Last(<<p>> \o rest) = Last(rest)
    BY <2>3 DEF Last
  <2>6. QED
    BY <2>1, <2>4, <2>5, <1>2 DEF FindFrom, c
<1>3. QED
  BY <1>1, <1>2
\* Where a search ends.
EndOf(ns, p, k) == Last(PathFrom(ns, p, k))

\* A search that passes a page ends where it ends from the child.
LEMMA EndStep ==
    ASSUME NEW ns, NEW level, NEW span, Sound(ns, level, span), NEW k \in Int,
           NEW p \in 1 .. Len(ns)
    PROVE  EndOf(ns, p, k) = IF ns[p].leaf THEN p ELSE EndOf(ns, ChildFor(ns[p], k), k)
<1>1. CASE ns[p].leaf
  <2>1. PathFrom(ns, p, k) = <<p>>
    BY <1>1, PathStep
  <2>2. Last(<<p>>) = p
    BY DEF Last
  <2>3. QED
    BY <2>1, <2>2, <1>1 DEF EndOf
<1>2. CASE ~ ns[p].leaf
  <2> DEFINE c == ChildFor(ns[p], k)
             rest == PathFrom(ns, c, k)
  <2>1. PathFrom(ns, p, k) = <<p>> \o rest
    BY <1>2, PathStep
  <2>2. c \in 1 .. Len(ns)
    BY <1>2, ChildBelow
  <2>3. EndOf(ns, c, k) = Last(rest)
    BY DEF EndOf
  <2> HIDE DEF c
  <2>4. rest \in Seq(1 .. Len(ns)) /\ Len(rest) \in Nat \ {0}
    BY <2>2, PathInside
  <2> HIDE DEF rest
  <2>5. Last(<<p>> \o rest) = Last(rest)
    BY <2>4 DEF Last
  <2>6. QED
    BY <2>1, <2>3, <2>5, <1>2 DEF EndOf, c
<1>3. QED
  BY <1>1, <1>2

\* It is a leaf, lower or where the search begins.
LEMMA EndInside ==
    ASSUME NEW ns, NEW level, NEW span, Sound(ns, level, span), NEW k \in Int
    PROVE  \A p \in 1 .. Len(ns) : EndOf(ns, p, k) \in 1 .. Len(ns) /\ ns[EndOf(ns, p, k)].leaf
<1> DEFINE G == {p \in 1 .. Len(ns) : EndOf(ns, p, k) \in 1 .. Len(ns)
                                      /\ ns[EndOf(ns, p, k)].leaf}
<1>1. ASSUME NEW p \in 1 .. Len(ns), ns[p].leaf
      PROVE  p \in G
  <2>1. EndOf(ns, p, k) = p
    BY <1>1, EndStep
  <2>2. QED
    BY <2>1, <1>1
<1>2. ASSUME NEW p \in 1 .. Len(ns), ~ ns[p].leaf, ChildFor(ns[p], k) \in G
      PROVE  p \in G
  <2>1. EndOf(ns, p, k) = EndOf(ns, ChildFor(ns[p], k), k)
    BY <1>2, EndStep
  <2>2. QED
    BY <2>1, <1>2
<1>3. \A p \in 1 .. Len(ns) : p \in G
  <2> HIDE DEF G
  <2>1. QED
    BY <1>1, <1>2, AlongSearch
<1>4. QED
  BY <1>3

----------------------------------------------------------------------------
\* Pages that nothing has changed, down to their leaves, give the same answers.
Closed(ns, U) == /\ U \subseteq 1 .. Len(ns)
                 /\ \A p \in U : \A i \in 1 .. Len(ns[p].children) : ns[p].children[i] \in U

Unchanged(ns, ns2, U) == U \subseteq 1 .. Len(ns2) /\ \A p \in U : ns2[p] = ns[p]
SameFinds(ns, ns2, U, j) == \A p \in U : /\ FindFrom(ns2, p, j) = FindFrom(ns, p, j)
                                        /\ EndOf(ns2, p, j) = EndOf(ns, p, j)

\* Pages left alone down to their leaves find the same in both files, in the
\* same leaves.
LEMMA Untouched ==
    ASSUME NEW ns, NEW level, NEW span, Sound(ns, level, span),
           NEW ns2, NEW level2, NEW span2, Sound(ns2, level2, span2),
           NEW U, Closed(ns, U), Unchanged(ns, ns2, U), NEW j \in Int
    PROVE  SameFinds(ns, ns2, U, j)
<1> DEFINE Same(p) == /\ FindFrom(ns2, p, j) = FindFrom(ns, p, j)
                      /\ EndOf(ns2, p, j) = EndOf(ns, p, j)
           G == {p \in 1 .. Len(ns) : p \in U => Same(p)}
<1>1. ASSUME NEW p \in 1 .. Len(ns), ns[p].leaf
      PROVE  p \in G
  <2>1. ASSUME p \in U
        PROVE  Same(p)
    <3>1. FindFrom(ns, p, j) = FoundIn(ns[p], j) /\ EndOf(ns, p, j) = p
      BY <1>1, FindStep, EndStep
    <3>2. ns2[p] = ns[p] /\ p \in 1 .. Len(ns2)
      BY <2>1 DEF Unchanged
    <3>3. FindFrom(ns2, p, j) = FoundIn(ns2[p], j) /\ EndOf(ns2, p, j) = p
      BY <3>2, <1>1, FindStep, EndStep
    <3>4. QED
      BY <3>1, <3>2, <3>3
  <2>2. QED
    BY <2>1
<1>2. ASSUME NEW p \in 1 .. Len(ns), ~ ns[p].leaf, ChildFor(ns[p], j) \in G
      PROVE  p \in G
  <2>1. ASSUME p \in U
        PROVE  Same(p)
    <3> DEFINE c == ChildFor(ns[p], j)
    <3>1. FindFrom(ns, p, j) = FindFrom(ns, c, j) /\ EndOf(ns, p, j) = EndOf(ns, c, j)
      BY <1>2, FindStep, EndStep
    <3>2. ns2[p] = ns[p] /\ p \in 1 .. Len(ns2)
      BY <2>1 DEF Unchanged
    <3>3. FindFrom(ns2, p, j) = FindFrom(ns2, c, j) /\ EndOf(ns2, p, j) = EndOf(ns2, c, j)
      BY <3>2, <1>2, FindStep, EndStep
    <3>4. c \in U
      <4>1. Shape(ns[p], Len(ns)) /\ Len(ns) \in Nat
        BY SoundPage
      <4>2. UpperBound(ns[p].keys, j) \in 1 .. Len(ns[p].children)
            /\ c = ns[p].children[UpperBound(ns[p].keys, j)]
        BY <4>1, <1>2, ChildPlace
      <4>3. QED
        BY <4>2, <2>1 DEF Closed
    <3>5. Same(c)
      BY <3>4, <1>2
    <3>6. QED
      BY <3>1, <3>3, <3>5
  <2>2. QED
    BY <2>1
<1>3. \A p \in 1 .. Len(ns) : p \in G
  <2> HIDE DEF G
  <2>1. QED
    BY <1>1, <1>2, AlongSearch
<1>4. QED
  BY <1>3 DEF Closed, SameFinds

\* What is found in a node is found at a key of it, and once.
LEMMA FoundInNode ==
    ASSUME NEW n \in Nat, NEW node, Shape(node, n), node.leaf, NEW j
    PROVE  /\ FoundIn(node, j) \subseteq RowId
           /\ \A r, s \in FoundIn(node, j) : r = s
           /\ FoundIn(node, j) # {} <=> \E i \in 1 .. Len(node.keys) : node.keys[i] = j
           /\ \A r : r \in FoundIn(node, j) <=>
                        \E i \in 1 .. Len(node.keys) : node.keys[i] = j /\ r = node.rows[i]
<1>1. /\ DOMAIN node.keys = 1 .. Len(node.keys) /\ Len(node.rows) = Len(node.keys)
      /\ Sorted(node.keys) /\ node.rows \in Seq(RowId) /\ Len(node.keys) \in Nat
      /\ \A i \in 1 .. Len(node.keys) : node.keys[i] \in Int
  BY NodeTypes DEF Shape
<1>2. \A i \in 1 .. Len(node.keys) : node.rows[i] \in RowId
  BY <1>1, ElementOfSeq
<1>3. \A r : r \in FoundIn(node, j) <=>
                 \E i \in 1 .. Len(node.keys) : node.keys[i] = j /\ r = node.rows[i]
  BY <1>1 DEF FoundIn
<1>4. \A i, m \in 1 .. Len(node.keys) : node.keys[i] = node.keys[m] => i = m
  BY <1>1 DEF Sorted
<1>5. FoundIn(node, j) \subseteq RowId
  BY <1>2, <1>3
<1>6. \A r, s \in FoundIn(node, j) : r = s
  BY <1>3, <1>4
<1>7. FoundIn(node, j) # {} <=> \E i \in 1 .. Len(node.keys) : node.keys[i] = j
  BY <1>3
<1>8. QED
  BY <1>3, <1>5, <1>6, <1>7

\* A search finds one row id at most, and only for a key in the page's span.
LEMMA FindInSpan ==
    ASSUME NEW ns, NEW level, NEW span, Sound(ns, level, span), NEW j \in Int
    PROVE  \A p \in 1 .. Len(ns) : /\ FindFrom(ns, p, j) \subseteq RowId
                                   /\ \A r, s \in FindFrom(ns, p, j) : r = s
                                   /\ FindFrom(ns, p, j) # {} => j \in span[p]
<1> DEFINE Good(p) == /\ FindFrom(ns, p, j) \subseteq RowId
                      /\ \A r, s \in FindFrom(ns, p, j) : r = s
                      /\ FindFrom(ns, p, j) # {} => j \in span[p]
           G == {p \in 1 .. Len(ns) : Good(p)}
<1>1. ASSUME NEW p \in 1 .. Len(ns), ns[p].leaf
      PROVE  p \in G
  <2>1. FindFrom(ns, p, j) = FoundIn(ns[p], j)
    BY <1>1, FindStep
  <2>2. Shape(ns[p], Len(ns)) /\ Len(ns) \in Nat /\ Fits(ns[p], level, span, level[p], span[p])
    BY SoundPage
  <2>3. QED
    BY <2>1, <2>2, <1>1, FoundInNode DEF Fits
<1>2. ASSUME NEW p \in 1 .. Len(ns), ~ ns[p].leaf, ChildFor(ns[p], j) \in G
      PROVE  p \in G
  <2>1. FindFrom(ns, p, j) = FindFrom(ns, ChildFor(ns[p], j), j)
    BY <1>2, FindStep
  <2>2. span[ChildFor(ns[p], j)] \subseteq span[p]
    BY <1>2, ChildBelow
  <2>3. Good(ChildFor(ns[p], j))
    BY <1>2
  <2>4. Good(p)
    BY <2>1, <2>2, <2>3
  <2>5. QED
    BY <2>4
<1>3. \A p \in 1 .. Len(ns) : p \in G
  <2> HIDE DEF G
  <2>1. QED
    BY <1>1, <1>2, AlongSearch
<1>4. QED
  BY <1>3
----------------------------------------------------------------------------
\* A longer file does not disturb a node,
LEMMA ShapeGrows ==
    ASSUME NEW n \in Nat, NEW m \in Nat, n <= m, NEW node, Shape(node, n)
    PROVE  Shape(node, m)
<1>1. 1 .. n \subseteq 1 .. m
  OBVIOUS
<1>2. QED
  BY <1>1 DEF Shape

\* nor do heights and spans of pages that are not its children.
LEMMA FitsSame ==
    ASSUME NEW node, NEW level, NEW span, NEW level2, NEW span2, NEW l, NEW x,
           Fits(node, level, span, l, x),
           \A i \in 1 .. Len(node.children) : /\ level2[node.children[i]] = level[node.children[i]]
                                              /\ span2[node.children[i]] = span[node.children[i]]
    PROVE  Fits(node, level2, span2, l, x)
  BY DEF Fits

\* A page that was never written is an empty leaf.
LEMMA UnwrittenFits ==
    ASSUME NEW n \in Nat, NEW level, NEW span
    PROVE  /\ Shape(Unwritten, n) /\ Len(Unwritten.keys) = 0 /\ Len(Unwritten.children) = 0
           /\ Fits(Unwritten, level, span, 0, {}) /\ Unwritten \in Node
<1>1. /\ Unwritten.leaf = TRUE /\ Unwritten.keys = <<>> /\ Unwritten.rows = <<>>
      /\ Unwritten.children = <<>> /\ Unwritten.next = -1
  BY DEF Unwritten, Leaf
<1>2. Unwritten \in Node
  BY DEF Unwritten, Leaf, Node
<1>3. Len(<<>>) = 0
  OBVIOUS
<1>4. Shape(Unwritten, n)
  BY <1>1, <1>2, <1>3 DEF Shape, Sorted
<1>5. Fits(Unwritten, level, span, 0, {})
  BY <1>1, <1>3 DEF Fits
<1>6. QED
  BY <1>1, <1>2, <1>3, <1>4, <1>5

\* The same pages, heights and spans as before, and perhaps more.
Keeps(ns, level, span, ns2, level2, span2, U) ==
    \A p \in U : ns2[p] = ns[p] /\ level2[p] = level[p] /\ span2[p] = span[p]

\* Allocating a page.
LEMMA Allocating ==
    ASSUME NEW ns, NEW level, NEW span, Sound(ns, level, span)
    PROVE  \E level2, span2 :
              LET ns2 == Append(ns, Unwritten)
              IN  /\ Sound(ns2, level2, span2)
                  /\ Keeps(ns, level, span, ns2, level2, span2, 1 .. Len(ns))
                  /\ Len(ns2) = Len(ns) + 1 /\ ns2[Len(ns) + 1] = Unwritten
                  /\ Parentless(ns2, Len(ns) + 1)
                  /\ \A c : Parentless(ns, c) => Parentless(ns2, c)
<1> DEFINE n == Len(ns) + 1
           ns2 == Append(ns, Unwritten)
           level2 == [p \in 1 .. n |-> IF p = n THEN 0 ELSE level[p]]
           span2 == [p \in 1 .. n |-> IF p = n THEN {} ELSE span[p]]
<1>1. /\ ns \in Seq(Node) /\ Len(ns) \in Nat /\ n \in Nat /\ Unwritten \in Node
      /\ level \in [1 .. Len(ns) -> Nat] /\ span \in [1 .. Len(ns) -> SUBSET Int]
  BY SMTT(30), LenProperties, UnwrittenFits DEF Sound
<1>2. /\ ns2 \in Seq(Node) /\ Len(ns2) = n /\ ns2[n] = Unwritten
      /\ \A p \in 1 .. Len(ns) : ns2[p] = ns[p]
  BY <1>1
<1>3. level2 \in [1 .. n -> Nat] /\ span2 \in [1 .. n -> SUBSET Int]
  BY <1>1
<1>4. /\ \A p \in 1 .. Len(ns) : p \in 1 .. n /\ p # n /\ level2[p] = level[p] /\ span2[p] = span[p]
      /\ n \in 1 .. n /\ level2[n] = 0 /\ span2[n] = {}
  BY <1>1
<1>5. \A p \in 1 .. n : p = n \/ p \in 1 .. Len(ns)
  BY <1>1
<1>6. \A p \in 1 .. Len(ns) : \A i \in 1 .. Len(ns[p].children) : ns[p].children[i] \in 1 .. Len(ns)
  BY SoundPage DEF Shape
<1>7. Len(Unwritten.children) = 0 /\ Len(Unwritten.keys) = 0
  BY UnwrittenFits
<1> HIDE DEF n, ns2, level2, span2
<1>8. ASSUME NEW p \in 1 .. n
      PROVE  /\ Shape(ns2[p], n) /\ Len(ns2[p].keys) <= MaxKeys
             /\ Fits(ns2[p], level2, span2, level2[p], span2[p])
  <2>1. CASE p = n
    <3>1. Shape(Unwritten, n) /\ Fits(Unwritten, level2, span2, 0, {})
      BY <1>1, UnwrittenFits
    <3>2. Len(Unwritten.keys) <= MaxKeys
      BY <1>7, TreeAssumption
    <3>3. QED
      BY <3>1, <3>2, <2>1, <1>2, <1>4
  <2>2. CASE p \in 1 .. Len(ns)
    <3>1. Shape(ns[p], Len(ns)) /\ Len(ns[p].keys) <= MaxKeys
          /\ Fits(ns[p], level, span, level[p], span[p])
      BY <2>2, SoundPage
    <3>2. Shape(ns[p], n)
      BY <3>1, <1>1, ShapeGrows DEF n
    <3>3. Fits(ns[p], level2, span2, level[p], span[p])
      BY <3>1, <2>2, <1>4, <1>6, FitsSame
    <3>4. QED
      BY <3>1, <3>2, <3>3, <2>2, <1>2, <1>4
  <2>3. QED
    BY <2>1, <2>2, <1>5
<1>9. OneParent(ns2)
  <2>1. OneParent(ns)
    BY DEF Sound
  <2>2. SUFFICES ASSUME NEW p \in 1 .. n, NEW q \in 1 .. n,
                        NEW i \in 1 .. Len(ns2[p].children), NEW m \in 1 .. Len(ns2[q].children),
                        ns2[p].children[i] = ns2[q].children[m]
                 PROVE  p = q /\ i = m
    BY <1>2 DEF OneParent
  <2>3. p # n /\ q # n
    BY <1>2, <1>7
  <2>4. p \in 1 .. Len(ns) /\ q \in 1 .. Len(ns)
    BY <2>3, <1>5
  <2>5. QED
    BY SMTT(30), <2>1, <2>2, <2>4, <1>2 DEF OneParent
<1>10. Sound(ns2, level2, span2)
  BY <1>2, <1>3, <1>8, <1>9 DEF Sound
<1>11. ASSUME NEW c, Parentless(ns, c) \/ c = n
       PROVE  Parentless(ns2, c)
  <2>1. SUFFICES ASSUME NEW p \in 1 .. n, NEW i \in 1 .. Len(ns2[p].children)
                 PROVE  ns2[p].children[i] # c
    BY <1>2 DEF Parentless
  <2>2. p \in 1 .. Len(ns)
    BY <1>2, <1>5, <1>7
  <2>3. ns[p].children[i] \in 1 .. Len(ns) /\ ns2[p] = ns[p]
    BY <2>1, <2>2, <1>2, <1>6
  <2>4. QED
    BY <1>11, <2>1, <2>2, <2>3, <1>4 DEF Parentless
<1>12. Keeps(ns, level, span, ns2, level2, span2, 1 .. Len(ns))
  BY <1>2, <1>4 DEF Keeps
<1>13. QED
  BY <1>2, <1>10, <1>11, <1>12 DEF ns2, n
\* The children of a node are its own: none is p, twice there or another's.
Own(ns, p, node) ==
    /\ \A i \in 1 .. Len(node.children) : node.children[i] # p
    /\ \A i, m \in 1 .. Len(node.children) : node.children[i] = node.children[m] => i = m
    /\ \A q \in 1 .. Len(ns) : q # p =>
          \A i \in 1 .. Len(node.children), m \in 1 .. Len(ns[q].children) :
             ns[q].children[m] # node.children[i]

\* Writing a node that fits: at its old height with a smaller span, or at any
\* height into a page that has no parent.
LEMMA Writing ==
    ASSUME NEW ns, NEW level, NEW span, Sound(ns, level, span), NEW p \in 1 .. Len(ns),
           NEW node, NEW l \in Nat, NEW x \in SUBSET Int,
           Shape(node, Len(ns)), Len(node.keys) <= MaxKeys, Fits(node, level, span, l, x),
           Own(ns, p, node),
           Parentless(ns, p) \/ (l = level[p] /\ x \subseteq span[p])
    PROVE  Sound([ns EXCEPT ![p] = node], [level EXCEPT ![p] = l], [span EXCEPT ![p] = x])
<1> DEFINE ns2 == [ns EXCEPT ![p] = node]
           level2 == [level EXCEPT ![p] = l]
           span2 == [span EXCEPT ![p] = x]
<1>1. /\ ns \in Seq(Node) /\ Len(ns) \in Nat /\ node \in Node
      /\ level \in [1 .. Len(ns) -> Nat] /\ span \in [1 .. Len(ns) -> SUBSET Int]
  BY LenProperties DEF Sound, Shape
<1>2. /\ ns2 \in Seq(Node) /\ Len(ns2) = Len(ns)
      /\ \A q \in 1 .. Len(ns) : ns2[q] = IF q = p THEN node ELSE ns[q]
  BY <1>1, ExceptSeq
<1>3. /\ level2 \in [1 .. Len(ns) -> Nat] /\ span2 \in [1 .. Len(ns) -> SUBSET Int]
      /\ \A q \in 1 .. Len(ns) : level2[q] = IF q = p THEN l ELSE level[q]
      /\ \A q \in 1 .. Len(ns) : span2[q] = IF q = p THEN x ELSE span[q]
  BY <1>1
<1> HIDE DEF ns2, level2, span2
<1>4. ASSUME NEW q \in 1 .. Len(ns)
      PROVE  /\ Shape(ns2[q], Len(ns)) /\ Len(ns2[q].keys) <= MaxKeys
             /\ Fits(ns2[q], level2, span2, level2[q], span2[q])
  <2>1. CASE q = p
    <3>1. \A i \in 1 .. Len(node.children) :
             /\ level2[node.children[i]] = level[node.children[i]]
             /\ span2[node.children[i]] = span[node.children[i]]
      BY <1>3 DEF Own, Shape
    <3>2. Fits(node, level2, span2, l, x)
      BY <3>1, FitsSame
    <3>3. QED
      BY <2>1, <3>2, <1>2, <1>3
  <2>2. CASE q # p
    <3>1. Shape(ns[q], Len(ns)) /\ Len(ns[q].keys) <= MaxKeys
          /\ Fits(ns[q], level, span, level[q], span[q])
      BY SoundPage
    <3>2. ASSUME NEW i \in 1 .. Len(ns[q].children)
          PROVE  LET c == ns[q].children[i]
                 IN  level2[c] = level[c] /\ span2[c] \subseteq span[c]
      BY <3>1, <1>3 DEF Parentless, Shape
    <3>3. Fits(ns[q], level2, span2, level[q], span[q])
      BY <3>1, <3>2 DEF Fits
    <3>4. QED
      BY <2>2, <3>1, <3>3, <1>2, <1>3
  <2>3. QED
    BY <2>1, <2>2
<1>5. OneParent(ns2)
  <2>1. OneParent(ns)
    BY DEF Sound
  <2>2. SUFFICES ASSUME NEW q \in 1 .. Len(ns), NEW s \in 1 .. Len(ns),
                        NEW i \in 1 .. Len(ns2[q].children), NEW m \in 1 .. Len(ns2[s].children),
                        ns2[q].children[i] = ns2[s].children[m]
                 PROVE  q = s /\ i = m
    BY <1>2 DEF OneParent
  <2>3. CASE q # p /\ s # p
    <3>1. ns2[q] = ns[q] /\ ns2[s] = ns[s]
      BY <2>3, <1>2
    <3>2. /\ i \in 1 .. Len(ns[q].children) /\ m \in 1 .. Len(ns[s].children)
          /\ ns[q].children[i] = ns[s].children[m]
      BY <3>1, <2>2
    <3>3. QED
      BY <2>1, <3>2 DEF OneParent
  <2>4. CASE q = p /\ s = p
    BY <2>2, <2>4, <1>2 DEF Own
  <2>5. CASE q = p /\ s # p
    BY <2>2, <2>5, <1>2 DEF Own
  <2>6. CASE q # p /\ s = p
    BY <2>2, <2>6, <1>2 DEF Own
  <2>7. QED
    BY <2>3, <2>4, <2>5, <2>6
<1>6. Sound(ns2, level2, span2)
  BY <1>2, <1>3, <1>4, <1>5 DEF Sound
<1>7. QED
  BY <1>6 DEF ns2, level2, span2

\* A page without parent stays one when no child of the new node is that page.
LEMMA WritingParents ==
    ASSUME NEW ns, NEW level, NEW span, Sound(ns, level, span), NEW p \in 1 .. Len(ns),
           NEW node, NEW c, Parentless(ns, c),
           \A i \in 1 .. Len(node.children) : node.children[i] # c
    PROVE  Parentless([ns EXCEPT ![p] = node], c)
<1>1. ns \in Seq(Node) /\ DOMAIN ns = 1 .. Len(ns) /\ Len(ns) \in Nat
  BY LenProperties DEF Sound
<1> DEFINE ns2 == [ns EXCEPT ![p] = node]
<1>2. Len(ns2) = Len(ns) /\ \A q \in 1 .. Len(ns) : ns2[q] = IF q = p THEN node ELSE ns[q]
  BY <1>1
<1> HIDE DEF ns2
<1>3. Parentless(ns2, c)
  BY <1>2 DEF Parentless
<1>4. QED
  BY <1>3 DEF ns2
----------------------------------------------------------------------------
\* The pages from p down to the leaf where key k belongs: one at each height,
\* and each but p the child of another.
Route(ns, level, p, k, W) ==
    /\ p \in W /\ W \subseteq 1 .. Len(ns)
    /\ \A q \in W : level[q] <= level[p]
    /\ \A q, s \in W : level[q] = level[s] => q = s
    /\ \A q \in W : ~ ns[q].leaf => ChildFor(ns[q], k) \in W
    /\ \A q \in W : q # p => \E s \in W : ~ ns[s].leaf /\ q = ChildFor(ns[s], k)

\* There is a route from every page.
LEMMA RouteExists ==
    ASSUME NEW ns, NEW level, NEW span, Sound(ns, level, span), NEW k \in Int,
           NEW p \in 1 .. Len(ns)
    PROVE  \E W : Route(ns, level, p, k, W)
<1> DEFINE G == {q \in 1 .. Len(ns) : \E W : Route(ns, level, q, k, W)}
<1>1. ASSUME NEW q \in 1 .. Len(ns), ns[q].leaf
      PROVE  q \in G
  <2>1. Route(ns, level, q, k, {q})
    BY <1>1, SoundPage DEF Route
  <2>2. QED
    BY <2>1
<1>2. ASSUME NEW q \in 1 .. Len(ns), ~ ns[q].leaf, ChildFor(ns[q], k) \in G
      PROVE  q \in G
  <2> DEFINE c == ChildFor(ns[q], k)
  <2>1. PICK W : Route(ns, level, c, k, W)
    BY <1>2
  <2>2. c \in 1 .. Len(ns) /\ level[c] \in Nat /\ level[c] + 1 = level[q] /\ level[q] \in Nat
    BY <1>2, ChildBelow, SoundPage
  <2>3. \A s \in W : level[s] \in Nat /\ s \in 1 .. Len(ns)
    BY <2>1, SoundPage DEF Route
  <2> DEFINE V == W \cup {q}
  <2>4. c \in W /\ c = ChildFor(ns[q], k)
    BY <2>1 DEF Route
  <2> HIDE DEF c
  <2>5. \A s \in W : level[s] < level[q] /\ s # q
    BY <2>1, <2>2, <2>3 DEF Route
  <2>6. \A s \in V : level[s] <= level[q]
    BY <2>2, <2>3, <2>5
  <2>7. \A r, s \in V : level[r] = level[s] => r = s
    BY <2>1, <2>2, <2>3, <2>5 DEF Route
  <2>8. \A r \in V : ~ ns[r].leaf => ChildFor(ns[r], k) \in V
    BY <2>1, <2>4 DEF Route
  <2>9. \A r \in V : r # q => \E s \in V : ~ ns[s].leaf /\ r = ChildFor(ns[s], k)
    <3>1. ASSUME NEW r \in W
          PROVE  \E s \in V : ~ ns[s].leaf /\ r = ChildFor(ns[s], k)
      <4>1. CASE r = c
        BY <4>1, <2>4, <1>2
      <4>2. CASE r # c
        BY <4>2, <2>1 DEF Route
      <4>3. QED
        BY <4>1, <4>2
    <3>2. QED
      BY <3>1
  <2>10. Route(ns, level, q, k, V)
    BY <2>3, <2>6, <2>7, <2>8, <2>9 DEF Route
  <2>11. QED
    BY <2>10
<1>3. \A q \in 1 .. Len(ns) : q \in G
  <2> HIDE DEF G
  <2>1. QED
    BY <1>1, <1>2, AlongSearch
<1>4. QED
  BY <1>3

\* A child on the route from a page without parent is the child its parent
\* there has for k; every other page is off the route down to its leaves.
ParentsOnRoute(ns, k, W) ==
    \A q \in 1 .. Len(ns) : \A i \in 1 .. Len(ns[q].children) :
       ns[q].children[i] \in W => q \in W /\ ~ ns[q].leaf /\ i = UpperBound(ns[q].keys, k)

\* Pages on a route are children along it, those off it have children off it.
LEMMA RouteParents ==
    ASSUME NEW ns, NEW level, NEW span, Sound(ns, level, span), NEW k \in Int,
           NEW p \in 1 .. Len(ns), Parentless(ns, p), NEW W, Route(ns, level, p, k, W)
    PROVE  ParentsOnRoute(ns, k, W) /\ Closed(ns, (1 .. Len(ns)) \ W)
<1>1. ASSUME NEW q \in 1 .. Len(ns), NEW i \in 1 .. Len(ns[q].children),
             ns[q].children[i] \in W
      PROVE  q \in W /\ ~ ns[q].leaf /\ i = UpperBound(ns[q].keys, k)
  <2>1. ns[q].children[i] # p
    BY DEF Parentless
  <2>2. PICK s \in W : ~ ns[s].leaf /\ ns[q].children[i] = ChildFor(ns[s], k)
    BY <1>1, <2>1 DEF Route
  <2>3. s \in 1 .. Len(ns)
    BY DEF Route
  <2>4. Shape(ns[s], Len(ns)) /\ Len(ns) \in Nat
    BY <2>3, SoundPage
  <2>5. /\ UpperBound(ns[s].keys, k) \in 1 .. Len(ns[s].children)
        /\ ChildFor(ns[s], k) = ns[s].children[UpperBound(ns[s].keys, k)]
    BY <2>2, <2>4, ChildPlace
  <2>6. q = s /\ i = UpperBound(ns[s].keys, k)
    BY <2>2, <2>3, <2>5 DEF Sound, OneParent
  <2>7. QED
    BY <2>2, <2>6
<1>2. \A q \in 1 .. Len(ns) : \A i \in 1 .. Len(ns[q].children) :
         ns[q].children[i] \in 1 .. Len(ns)
  BY SoundPage DEF Shape
<1>3. ParentsOnRoute(ns, k, W)
  BY <1>1 DEF ParentsOnRoute
<1>4. QED
  BY <1>1, <1>2, <1>3 DEF Closed

\* The spans with k added along the route.
Widened(ns, span, k, W) ==
    [p \in 1 .. Len(ns) |-> IF p \in W THEN span[p] \cup {k} ELSE span[p]]

\* A sound file stays sound when the spans along the route of k take k in.
LEMMA Widening ==
    ASSUME NEW ns, NEW level, NEW span, Sound(ns, level, span), NEW k \in Int,
           NEW p \in 1 .. Len(ns), Parentless(ns, p), NEW W, Route(ns, level, p, k, W)
    PROVE  Sound(ns, level, Widened(ns, span, k, W))
<1>0. ParentsOnRoute(ns, k, W)
  BY RouteParents
<1> DEFINE span2 == Widened(ns, span, k, W)
<1>1. span \in [1 .. Len(ns) -> SUBSET Int]
  BY DEF Sound
<1>2. span2 \in [1 .. Len(ns) -> SUBSET Int]
  BY <1>1 DEF Widened
<1>3. \A q \in 1 .. Len(ns) : span2[q] = IF q \in W THEN span[q] \cup {k} ELSE span[q]
  BY DEF Widened
<1> HIDE DEF span2
<1>4. ASSUME NEW q \in 1 .. Len(ns)
      PROVE  Fits(ns[q], level, span2, level[q], span2[q])
  <2>1. Fits(ns[q], level, span, level[q], span[q]) /\ Shape(ns[q], Len(ns)) /\ Len(ns) \in Nat
    BY SoundPage
  <2>2. span[q] \subseteq span2[q]
    BY <1>3
  <2>3. ASSUME NEW i \in 1 .. Len(ns[q].children)
        PROVE  /\ span2[ns[q].children[i]] \subseteq span2[q]
               /\ \A y \in span2[ns[q].children[i]] : Between(ns[q].keys, i, y)
    <3> DEFINE c == ns[q].children[i]
    <3>1. c \in 1 .. Len(ns)
      BY <2>1 DEF Shape
    <3>2. span[c] \subseteq span[q] /\ \A y \in span[c] : Between(ns[q].keys, i, y)
      BY <2>1 DEF Fits
    <3>3. CASE c \in W
      <4>1. q \in W /\ ~ ns[q].leaf /\ i = UpperBound(ns[q].keys, k)
        BY <3>3, <1>0 DEF ParentsOnRoute
      <4>2. Between(ns[q].keys, i, k)
        BY <4>1, <2>1, ChildBetween
      <4> HIDE DEF c
      <4>3. span2[c] = span[c] \cup {k} /\ span2[q] = span[q] \cup {k}
        BY <3>1, <3>3, <4>1, <1>3
      <4>4. QED
        BY <4>2, <4>3, <3>2 DEF c
    <3>4. CASE c \notin W
      <4> HIDE DEF c
      <4>1. span2[c] = span[c]
        BY <3>1, <3>4, <1>3
      <4>2. QED
        BY <4>1, <3>2, <2>2 DEF c
    <3>5. QED
      BY <3>3, <3>4
  <2>4. QED
    BY <2>1, <2>2, <2>3 DEF Fits
<1>5. Sound(ns, level, span2)
  BY <1>2, <1>4 DEF Sound
<1>6. QED
  BY <1>5 DEF span2
----------------------------------------------------------------------------
\* What a search finds from a node that was not written yet.
FindIn(ns, node, j) == IF node.leaf THEN FoundIn(node, j)
                       ELSE FindFrom(ns, ChildFor(node, j), j)

\* and where it ends when the node is page q's.
EndIn(ns, node, q, j) == IF node.leaf THEN q ELSE EndOf(ns, ChildFor(node, j), j)

\* The pages below p answer the same when no page lower than p has changed.
LEMMA LowerSame ==
    ASSUME NEW ns, NEW level, NEW span, Sound(ns, level, span),
           NEW ns2, NEW level2, NEW span2, Sound(ns2, level2, span2),
           NEW l \in Nat, Len(ns) <= Len(ns2),
           \A q \in 1 .. Len(ns) : level[q] < l => ns2[q] = ns[q],
           NEW j \in Int
    PROVE  \A q \in 1 .. Len(ns) : level[q] < l => /\ FindFrom(ns2, q, j) = FindFrom(ns, q, j)
                                                  /\ EndOf(ns2, q, j) = EndOf(ns, q, j)
<1> DEFINE U == {q \in 1 .. Len(ns) : level[q] < l}
<1>1. Len(ns) \in Nat /\ Len(ns2) \in Nat
  BY LenProperties DEF Sound
<1>2. U \subseteq 1 .. Len(ns2)
  BY <1>1
<1>3. ASSUME NEW q \in U, NEW i \in 1 .. Len(ns[q].children)
      PROVE  ns[q].children[i] \in U
  <2>1. Shape(ns[q], Len(ns)) /\ Fits(ns[q], level, span, level[q], span[q]) /\ level[q] \in Nat
    BY SoundPage
  <2> DEFINE c == ns[q].children[i]
  <2>2. c \in 1 .. Len(ns) /\ level[c] + 1 = level[q]
    BY <2>1 DEF Shape, Fits
  <2> HIDE DEF c
  <2>3. level[c] \in Nat
    BY <2>2, SoundPage
  <2>4. level[c] < l
    BY <2>1, <2>2, <2>3
  <2>5. QED
    BY <2>2, <2>4 DEF c
<1>4. Closed(ns, U)
  BY <1>3 DEF Closed
<1>5. Unchanged(ns, ns2, U)
  BY <1>2 DEF Unchanged
<1> HIDE DEF U
<1>6. SameFinds(ns, ns2, U, j)
  BY <1>4, <1>5, Untouched
<1>7. QED
  BY <1>6 DEF U, SameFinds

\* So a page that was written finds what its node finds.
FitsInto(ns, level, span, ns2, q, l, x) ==
    /\ Fits(ns2[q], level, span, l, x)
    /\ \A i \in 1 .. Len(ns2[q].children) : ns2[q].children[i] \in 1 .. Len(ns)
    /\ \A s \in 1 .. Len(ns) : level[s] < l => ns2[s] = ns[s]

\* What a search from a written page finds, and where it ends, is decided by
\* the pages below it.
LEMMA WrittenFinds ==
    ASSUME NEW ns, NEW level, NEW span, Sound(ns, level, span),
           NEW ns2, NEW level2, NEW span2, Sound(ns2, level2, span2),
           Len(ns) <= Len(ns2), NEW q \in 1 .. Len(ns2), NEW l \in Nat,
           NEW x, FitsInto(ns, level, span, ns2, q, l, x), NEW j \in Int
    PROVE  /\ FindFrom(ns2, q, j) = FindIn(ns, ns2[q], j)
           /\ EndOf(ns2, q, j) = EndIn(ns, ns2[q], q, j)
<1>1. CASE ns2[q].leaf
  BY <1>1, FindStep, EndStep DEF FindIn, EndIn
<1>2. CASE ~ ns2[q].leaf
  <2> DEFINE c == ChildFor(ns2[q], j)
             u == UpperBound(ns2[q].keys, j)
  <2>1. Shape(ns2[q], Len(ns2)) /\ Len(ns2) \in Nat
    BY SoundPage
  <2>2. u \in 1 .. Len(ns2[q].children) /\ c = ns2[q].children[u]
    BY <1>2, <2>1, ChildPlace
  <2> HIDE DEF u
  <2>3. c \in 1 .. Len(ns) /\ level[c] + 1 = l
    BY <2>2 DEF Fits, FitsInto
  <2>4. level[c] \in Nat
    BY <2>3, SoundPage
  <2>5. level[c] < l
    BY <2>3, <2>4
  <2>6. FindFrom(ns2, c, j) = FindFrom(ns, c, j) /\ EndOf(ns2, c, j) = EndOf(ns, c, j)
    BY <2>3, <2>5, LowerSame DEF FitsInto
  <2>7. FindFrom(ns2, q, j) = FindFrom(ns2, c, j) /\ EndOf(ns2, q, j) = EndOf(ns2, c, j)
    BY <1>2, FindStep, EndStep
  <2>8. QED
    BY <2>6, <2>7, <1>2 DEF FindIn, EndIn
<1>3. QED
  BY <1>1, <1>2

\* The pages s shows when a node is written to page p: no other page that was
\* there has changed.
After(ns, level, span, p, node, s, level2, span2) ==
    /\ Sound(s, level2, span2)
    /\ Len(ns) <= Len(s)
    /\ Keeps(ns, level, span, s, level2, span2, (1 .. Len(ns)) \ {p})
    /\ level2[p] = level[p]
    /\ \A c \in 1 .. Len(ns) :
          Parentless(ns, c) /\ (\A i \in 1 .. Len(node.children) : node.children[i] # c) =>
             Parentless(s, c)

\* On the way, nothing is found that is neither in the old nor in the new node.
OnTheWay(ns, level, span, p, node, s) ==
    /\ \E level2, span2 : After(ns, level, span, p, node, s, level2, span2)
    /\ \A j \in Int : FindFrom(s, p, j) \subseteq FindFrom(ns, p, j) \cup FindIn(ns, node, j)

\* At the end, the page finds what the node finds; if it was split, the half
\* where a key belongs does.
Unsplit(ns, level, span, p, node, s) ==
    /\ \E level2, span2 : /\ After(ns, level, span, p, node, s, level2, span2)
                          /\ span2[p] = span[p]
    /\ s[p] = node
    /\ \A j \in Int : /\ FindFrom(s, p, j) = FindIn(ns, node, j)
                      /\ EndOf(s, p, j) = EndIn(ns, node, p, j)

Lower(x, sep) == {y \in x : y < sep}
Upper(x, sep) == {y \in x : y >= sep}

Halved(ns, level, span, p, node, s, sep, right) ==
    /\ sep \in Key /\ sep \in span[p] /\ \E y \in span[p] : y < sep
    /\ right \in 1 .. Len(s) /\ right \notin 1 .. Len(ns) /\ Parentless(s, right)
    /\ \E level2, span2 : /\ After(ns, level, span, p, node, s, level2, span2)
                          /\ level2[right] = level[p]
                          /\ span2[p] = Lower(span[p], sep) /\ span2[right] = Upper(span[p], sep)
    /\ node.leaf => s[p].next = right /\ s[right].next = node.next
    /\ \A j \in Int :
          LET half == IF j >= sep THEN right ELSE p
          IN  /\ FindFrom(s, half, j) = FindIn(ns, node, j)
              /\ EndOf(s, half, j) = EndIn(ns, node, half, j)

\* The two halves of a node.
Halves(ns, level, span, p, node, left, right, sep) ==
    /\ Shape(left, Len(ns) + 1) /\ Shape(right, Len(ns) + 1)
    /\ Len(left.keys) <= MaxKeys /\ Len(right.keys) <= MaxKeys
    /\ Fits(left, level, span, level[p], Lower(span[p], sep))
    /\ Fits(right, level, span, level[p], Upper(span[p], sep))
    /\ Own(ns, p, left) /\ Own(ns, p, right)
    /\ \A i \in 1 .. Len(left.children) : /\ left.children[i] \in 1 .. Len(ns)
                                          /\ \E m \in 1 .. Len(node.children) :
                                                left.children[i] = node.children[m]
    /\ \A i \in 1 .. Len(right.children) : /\ right.children[i] \in 1 .. Len(ns)
                                           /\ \E m \in 1 .. Len(node.children) :
                                                 right.children[i] = node.children[m]
    /\ \A i \in 1 .. Len(left.children), m \in 1 .. Len(right.children) :
          left.children[i] # right.children[m]
    /\ sep \in Key /\ sep \in span[p] /\ \E y \in span[p] : y < sep
    /\ \A j \in Int : /\ FindIn(ns, left, j) \subseteq FindIn(ns, node, j)
                      /\ FindIn(ns, IF j >= sep THEN right ELSE left, j) = FindIn(ns, node, j)
                      /\ \A q : EndIn(ns, IF j >= sep THEN right ELSE left, q, j) =
                                   EndIn(ns, node, q, j)
    /\ node.leaf => left.next = Len(ns) + 1 /\ right.next = node.next

\* What each half finds is found through the pages as they were.
LEMMA SplitIntoHalves ==
    ASSUME NEW ns, NEW level, NEW span, Sound(ns, level, span), NEW p \in 1 .. Len(ns),
           NEW node, NEW left, NEW right, NEW sep,
           Halves(ns, level, span, p, node, left, right, sep)
    PROVE  LET R == SplitInto(ns, p, left, right, sep)
           IN  /\ R.shown \in Seq(Seq(Node)) /\ Len(R.shown) = 3
               /\ R.split = Split(sep, Len(ns) + 1)
               /\ OnTheWay(ns, level, span, p, node, R.shown[1])
               /\ OnTheWay(ns, level, span, p, node, R.shown[2])
               /\ OnTheWay(ns, level, span, p, node, R.shown[3])
               /\ Halved(ns, level, span, p, node, R.shown[3], sep, Len(ns) + 1)
<1> DEFINE n == Len(ns) + 1
           l == level[p]
           low == Lower(span[p], sep)
           up == Upper(span[p], sep)
           s1 == Append(ns, Unwritten)
           s2 == [s1 EXCEPT ![p] = left]
           s3 == [s2 EXCEPT ![n] = right]
<1>1. /\ Len(ns) \in Nat /\ n \in Nat /\ l \in Nat /\ span[p] \subseteq Int
      /\ p \in 1 .. n /\ n \in 1 .. n /\ p # n /\ n \notin 1 .. Len(ns)
      /\ \A q \in 1 .. n : q = n \/ q \in 1 .. Len(ns)
  <2>1. /\ Len(ns) \in Nat /\ l \in Nat /\ span[p] \subseteq Int
    BY SoundPage
  <2>2. QED
    BY <2>1
<1>2. low \subseteq span[p] /\ up \subseteq span[p] /\ low \in SUBSET Int /\ up \in SUBSET Int
  BY <1>1 DEF Lower, Upper
<1>3. PICK l1, x1 :
         /\ Sound(s1, l1, x1)
         /\ Keeps(ns, level, span, s1, l1, x1, 1 .. Len(ns))
         /\ Len(s1) = n /\ s1[n] = Unwritten
         /\ Parentless(s1, n)
         /\ \A c : Parentless(ns, c) => Parentless(s1, c)
  BY Allocating
<1> DEFINE l2 == [l1 EXCEPT ![p] = l]
           x2 == [x1 EXCEPT ![p] = low]
           l3 == [l2 EXCEPT ![n] = l]
           x3 == [x2 EXCEPT ![n] = up]
<1> HIDE DEF n, l, low, up
<1>4. \A q \in 1 .. Len(ns) : s1[q] = ns[q] /\ l1[q] = level[q] /\ x1[q] = span[q]
  BY <1>3 DEF Keeps
<1>5. /\ Shape(left, n) /\ Shape(right, n)
      /\ Len(left.keys) <= MaxKeys /\ Len(right.keys) <= MaxKeys
      /\ Fits(left, level, span, l, low) /\ Fits(right, level, span, l, up)
      /\ Own(ns, p, left) /\ Own(ns, p, right)
  BY DEF Halves, n, l, low, up
<1>6. /\ \A i \in 1 .. Len(left.children) : left.children[i] \in 1 .. Len(ns)
      /\ \A i \in 1 .. Len(right.children) : right.children[i] \in 1 .. Len(ns)
      /\ \A i \in 1 .. Len(left.children), m \in 1 .. Len(right.children) :
            left.children[i] # right.children[m]
  BY DEF Halves
<1>7. Len(Unwritten.children) = 0
  BY UnwrittenFits, <1>1
<1> HIDE DEF s1, l2, x2, l3, x3
<1>8. Sound(s2, l2, x2)
  <2>1. Fits(left, l1, x1, l, low)
    BY <1>4, <1>5, <1>6, FitsSame
  <2>2. Own(s1, p, left)
    BY <1>1, <1>3, <1>4, <1>5, <1>7 DEF Own
  <2>3. l = l1[p] /\ low \subseteq x1[p]
    BY <1>2, <1>4 DEF l
  <2>4. Shape(left, Len(s1)) /\ p \in 1 .. Len(s1)
    BY <1>1, <1>3, <1>5
  <2>5. QED
    BY <1>1, <1>2, <1>3, <1>5, <2>1, <2>2, <2>3, <2>4, Writing DEF l2, x2
<1>9. /\ s1 \in Seq(Node) /\ DOMAIN s1 = 1 .. n
      /\ l1 \in [1 .. n -> Nat] /\ x1 \in [1 .. n -> SUBSET Int]
  <2>1. s1 \in Seq(Node) /\ l1 \in [1 .. n -> Nat] /\ x1 \in [1 .. n -> SUBSET Int]
    BY <1>3 DEF Sound
  <2>2. QED
    BY <2>1, <1>3, LenProperties
<1>10. /\ Len(s2) = n /\ s2[p] = left /\ l2[p] = l /\ x2[p] = low
       /\ \A q \in 1 .. n : q # p => s2[q] = s1[q] /\ l2[q] = l1[q] /\ x2[q] = x1[q]
  <2>1. Len(s2) = n /\ s2[p] = left /\ \A q \in 1 .. n : q # p => s2[q] = s1[q]
    BY <1>1, <1>3, <1>9
  <2>2. l2[p] = l /\ x2[p] = low
    BY <1>1, <1>9 DEF l2, x2
  <2>3. \A q \in 1 .. n : q # p => l2[q] = l1[q] /\ x2[q] = x1[q]
    BY <1>1, <1>9 DEF l2, x2
  <2>4. QED
    BY <2>1, <2>2, <2>3
<1>11. Parentless(s2, n)
  <2>1. p \in 1 .. Len(s1)
    BY <1>1, <1>3
  <2>2. \A i \in 1 .. Len(left.children) : left.children[i] # n
    BY <1>1, <1>6
  <2>3. QED
    BY <1>3, <2>1, <2>2, WritingParents
<1>12. Sound(s3, l3, x3)
  <2>1. \A i \in 1 .. Len(right.children) :
           /\ l2[right.children[i]] = level[right.children[i]]
           /\ x2[right.children[i]] = span[right.children[i]]
    BY <1>1, <1>4, <1>5, <1>6, <1>10 DEF Own
  <2>2. Fits(right, l2, x2, l, up)
    BY <1>5, <2>1, FitsSame
  <2>3. Own(s2, n, right)
    <3>1. \A i \in 1 .. Len(right.children) : right.children[i] # n
      BY <1>1, <1>6
    <3>2. \A i, m \in 1 .. Len(right.children) : right.children[i] = right.children[m] => i = m
      BY <1>5 DEF Own
    <3>3. ASSUME NEW q \in 1 .. Len(s2), q # n,
                 NEW i \in 1 .. Len(right.children), NEW m \in 1 .. Len(s2[q].children)
          PROVE  s2[q].children[m] # right.children[i]
      <4>1. CASE q = p
        BY <3>3, <4>1, <1>6, <1>10
      <4>2. CASE q # p
        <5>1. q \in 1 .. Len(ns) /\ s2[q] = ns[q]
          BY <3>3, <4>2, <1>1, <1>4, <1>10
        <5>2. QED
          BY <3>3, <4>2, <5>1, <1>5 DEF Own
      <4>3. QED
        BY <4>1, <4>2
    <3>4. QED
      BY <3>1, <3>2, <3>3 DEF Own
  <2>4. Shape(right, Len(s2)) /\ n \in 1 .. Len(s2)
    BY <1>1, <1>5, <1>10
  <2> HIDE DEF s2
  <2>5. QED
    BY <1>1, <1>2, <1>5, <1>8, <1>11, <2>2, <2>3, <2>4, Writing DEF l3, x3
<1>13. /\ s2 \in Seq(Node) /\ DOMAIN s2 = 1 .. n
       /\ l2 \in [1 .. n -> Nat] /\ x2 \in [1 .. n -> SUBSET Int]
  <2>1. s2 \in Seq(Node) /\ l2 \in [1 .. n -> Nat] /\ x2 \in [1 .. n -> SUBSET Int]
    BY <1>8, <1>10 DEF Sound
  <2>2. QED
    BY <2>1, <1>10, LenProperties
<1>14. /\ Len(s3) = n /\ s3[n] = right /\ l3[n] = l /\ x3[n] = up
       /\ \A q \in 1 .. n : q # n => s3[q] = s2[q] /\ l3[q] = l2[q] /\ x3[q] = x2[q]
  <2> HIDE DEF s2
  <2>1. Len(s3) = n /\ s3[n] = right /\ \A q \in 1 .. n : q # n => s3[q] = s2[q]
    BY <1>1, <1>10, <1>13
  <2>2. l3[n] = l /\ x3[n] = up
    BY <1>1, <1>13 DEF l3, x3
  <2>3. \A q \in 1 .. n : q # n => l3[q] = l2[q] /\ x3[q] = x2[q]
    BY <1>1, <1>13 DEF l3, x3
  <2>4. QED
    BY <2>1, <2>2, <2>3
<1> HIDE DEF s2, s3
<1>15. s3 \in Seq(Node)
  BY <1>12 DEF Sound
<1>16. PICK R : R = SplitInto(ns, p, left, right, sep)
  OBVIOUS
<1>17. /\ R.shown = << s1, s2, s3 >> /\ R.split = Split(sep, n)
  <2>1. SplitInto(ns, p, left, right, sep) =
           [shown |-> << s1, s2, [s2 EXCEPT ![Len(s1)] = right] >>,
            split |-> Split(sep, Len(s1))]
    BY DEF SplitInto, s1, s2
  <2>2. [s2 EXCEPT ![Len(s1)] = right] = s3
    BY <1>3 DEF s3
  <2>3. R = [shown |-> << s1, s2, s3 >>, split |-> Split(sep, n)]
    BY <2>1, <2>2, <1>3, <1>16, Zenon
  <2>4. QED
    BY <2>3
<1>18. /\ R.shown \in Seq(Seq(Node)) /\ Len(R.shown) = 3
       /\ R.shown[1] = s1 /\ R.shown[2] = s2 /\ R.shown[3] = s3
  BY <1>9, <1>13, <1>15, <1>17
<1>19. \A q \in 1 .. Len(ns) : q \in 1 .. n /\ q # n
  BY <1>1
<1>20. \A q \in 1 .. Len(ns) : q # p =>
          /\ s1[q] = ns[q] /\ s2[q] = ns[q] /\ s3[q] = ns[q]
          /\ l1[q] = level[q] /\ l2[q] = level[q] /\ l3[q] = level[q]
          /\ x1[q] = span[q] /\ x2[q] = span[q] /\ x3[q] = span[q]
  BY <1>4, <1>10, <1>14, <1>19
<1>21. s3[p] = left /\ l3[p] = l /\ x3[p] = low
  BY <1>1, <1>10, <1>14
<1>22. \A q \in 1 .. Len(ns) : level[q] < l => s2[q] = ns[q] /\ s3[q] = ns[q]
  <2>1. ASSUME NEW q \in 1 .. Len(ns), level[q] < l
        PROVE  s2[q] = ns[q] /\ s3[q] = ns[q]
    <3>1. q # p
      BY <2>1, <1>1 DEF l
    <3>2. QED
      BY <3>1, <1>20
  <2>2. QED
    BY <2>1
<1>23. /\ Len(ns) <= n /\ Len(ns) <= Len(s1) /\ Len(ns) <= Len(s2) /\ Len(ns) <= Len(s3)
       /\ p \in 1 .. Len(s1) /\ p \in 1 .. Len(s2) /\ p \in 1 .. Len(s3) /\ n \in 1 .. Len(s3)
  BY <1>1, <1>3, <1>10, <1>14
<1>24. ASSUME NEW c \in 1 .. Len(ns), Parentless(ns, c),
              \A i \in 1 .. Len(node.children) : node.children[i] # c
       PROVE  Parentless(s1, c) /\ Parentless(s2, c) /\ Parentless(s3, c)
  <2>1. Parentless(s1, c)
    BY <1>3, <1>24
  <2>2. /\ \A i \in 1 .. Len(left.children) : left.children[i] # c
        /\ \A i \in 1 .. Len(right.children) : right.children[i] # c
    BY <1>24 DEF Halves
  <2>3. Parentless(s2, c)
    BY <1>3, <1>23, <2>1, <2>2, WritingParents DEF s2
  <2>4. n \in 1 .. Len(s2)
    BY <1>1, <1>10
  <2>5. Parentless(s3, c)
    BY <1>8, <2>2, <2>3, <2>4, WritingParents DEF s3
  <2>6. QED
    BY <2>1, <2>3, <2>5
<1>25. After(ns, level, span, p, node, s1, l1, x1)
  <2>1. Keeps(ns, level, span, s1, l1, x1, (1 .. Len(ns)) \ {p})
    BY <1>20 DEF Keeps
  <2>2. l1[p] = level[p]
    BY <1>4
  <2>3. QED
    BY <2>1, <2>2, <1>3, <1>23, <1>24 DEF After
<1>26. After(ns, level, span, p, node, s2, l2, x2)
  <2>1. Keeps(ns, level, span, s2, l2, x2, (1 .. Len(ns)) \ {p})
    BY <1>20 DEF Keeps
  <2>2. l2[p] = level[p]
    BY <1>10 DEF l
  <2>3. QED
    BY <2>1, <2>2, <1>8, <1>23, <1>24 DEF After
<1>27. After(ns, level, span, p, node, s3, l3, x3)
  <2>1. Keeps(ns, level, span, s3, l3, x3, (1 .. Len(ns)) \ {p})
    BY <1>20 DEF Keeps
  <2>2. l3[p] = level[p]
    BY <1>21 DEF l
  <2>3. QED
    BY <2>1, <2>2, <1>12, <1>23, <1>24 DEF After
<1>28. ASSUME NEW j \in Int
       PROVE  /\ FindFrom(s1, p, j) = FindFrom(ns, p, j)
              /\ FindFrom(s2, p, j) = FindIn(ns, left, j)
              /\ FindFrom(s3, p, j) = FindIn(ns, left, j)
              /\ FindFrom(s3, n, j) = FindIn(ns, right, j)
              /\ EndOf(s3, p, j) = EndIn(ns, left, p, j)
              /\ EndOf(s3, n, j) = EndIn(ns, right, n, j)
  <2>1. FindFrom(s1, p, j) = FindFrom(ns, p, j)
    <3>1. Closed(ns, 1 .. Len(ns))
      BY SoundPage DEF Closed, Shape
    <3>2. Unchanged(ns, s1, 1 .. Len(ns))
      BY <1>3, <1>4, <1>19 DEF Unchanged
    <3>3. SameFinds(ns, s1, 1 .. Len(ns), j)
      BY <3>1, <3>2, <1>3, Untouched
    <3>4. QED
      BY <3>3 DEF SameFinds
  <2>2. FindFrom(s2, p, j) = FindIn(ns, left, j)
    <3>9. FitsInto(ns, level, span, s2, p, l, low)
      BY <1>1, <1>5, <1>6, <1>10, <1>14, <1>21, <1>22 DEF FitsInto
    <3>1. s2[p] = left
      BY <1>10
    <3>2. FindFrom(s2, p, j) = FindIn(ns, s2[p], j)
      BY <3>9, <1>1, <1>8, <1>23, WrittenFinds
    <3>3. QED
      BY <3>1, <3>2
  <2>3. FindFrom(s3, p, j) = FindIn(ns, left, j) /\ EndOf(s3, p, j) = EndIn(ns, left, p, j)
    <3>9. FitsInto(ns, level, span, s3, p, l, low)
      BY <1>1, <1>5, <1>6, <1>10, <1>14, <1>21, <1>22 DEF FitsInto
    <3>1. /\ FindFrom(s3, p, j) = FindIn(ns, s3[p], j)
          /\ EndOf(s3, p, j) = EndIn(ns, s3[p], p, j)
      BY <3>9, <1>1, <1>12, <1>23, WrittenFinds
    <3>2. QED
      BY <3>1, <1>21
  <2>4. FindFrom(s3, n, j) = FindIn(ns, right, j) /\ EndOf(s3, n, j) = EndIn(ns, right, n, j)
    <3>9. FitsInto(ns, level, span, s3, n, l, up)
      BY <1>1, <1>5, <1>6, <1>10, <1>14, <1>21, <1>22 DEF FitsInto
    <3>1. /\ FindFrom(s3, n, j) = FindIn(ns, s3[n], j)
          /\ EndOf(s3, n, j) = EndIn(ns, s3[n], n, j)
      BY <3>9, <1>1, <1>12, <1>23, WrittenFinds
    <3>2. QED
      BY <3>1, <1>14
  <2>5. QED
    BY <2>1, <2>2, <2>3, <2>4
<1>29. \A j \in Int : /\ FindIn(ns, left, j) \subseteq FindIn(ns, node, j)
                      /\ FindIn(ns, IF j >= sep THEN right ELSE left, j) = FindIn(ns, node, j)
                      /\ \A q : EndIn(ns, IF j >= sep THEN right ELSE left, q, j) =
                                   EndIn(ns, node, q, j)
  BY DEF Halves
<1>30. OnTheWay(ns, level, span, p, node, s1)
  BY <1>25, <1>28 DEF OnTheWay
<1>31. OnTheWay(ns, level, span, p, node, s2)
  BY <1>26, <1>28, <1>29 DEF OnTheWay
<1>32. OnTheWay(ns, level, span, p, node, s3)
  BY <1>27, <1>28, <1>29 DEF OnTheWay
<1>33. Halved(ns, level, span, p, node, s3, sep, n)
  <2> DEFINE half(j) == IF j >= sep THEN n ELSE p
  <2>1. \A j \in Int : /\ FindFrom(s3, half(j), j) = FindIn(ns, node, j)
                       /\ EndOf(s3, half(j), j) = EndIn(ns, node, half(j), j)
    <3>1. ASSUME NEW j \in Int
          PROVE  /\ FindFrom(s3, half(j), j) = FindIn(ns, node, j)
                 /\ EndOf(s3, half(j), j) = EndIn(ns, node, half(j), j)
      <4>1. CASE j >= sep
        BY <4>1, <1>28, <1>29
      <4>2. CASE ~ (j >= sep)
        BY <4>2, <1>28, <1>29
      <4>3. QED
        BY <4>1, <4>2
    <3>2. QED
      BY <3>1
  <2>2. Parentless(s3, n)
    <3>1. \A i \in 1 .. Len(right.children) : right.children[i] # n
      BY <1>1, <1>6
    <3>2. n \in 1 .. Len(s2)
      BY <1>1, <1>10
    <3>3. QED
      BY <1>8, <1>11, <3>1, <3>2, WritingParents DEF s3
  <2>3. /\ l3[n] = level[p] /\ x3[p] = Lower(span[p], sep) /\ x3[n] = Upper(span[p], sep)
    BY <1>14, <1>21 DEF l, low, up
  <2>4. sep \in Key /\ sep \in span[p] /\ \E y \in span[p] : y < sep
    BY DEF Halves
  <2>5. node.leaf => s3[p].next = n /\ s3[n].next = node.next
    BY <1>14, <1>21 DEF Halves, n
  <2>6. QED
    BY <2>1, <2>2, <2>3, <2>4, <2>5, <1>1, <1>23, <1>27 DEF Halved
<1>34. QED
  BY <1>30, <1>31, <1>32, <1>33, <1>16, <1>17, <1>18 DEF n
----------------------------------------------------------------------------
\* A node that is about to be written to page p.
ToWrite(ns, level, span, p, node) ==
    /\ Shape(node, Len(ns)) /\ Len(node.keys) <= MaxKeys + 1
    /\ Fits(node, level, span, level[p], span[p])
    /\ Own(ns, p, node)

\* The middle of a node with too many keys.
LEMMA Middle ==
    ASSUME NEW h \in Nat, h = MaxKeys + 1
    PROVE  /\ h \div 2 \in 1 .. h - 1 /\ h \div 2 <= MaxKeys
           /\ h - (h \div 2) <= MaxKeys /\ h - (h \div 2) - 1 <= MaxKeys
           /\ h - (h \div 2) \in Nat /\ h - (h \div 2) - 1 \in Nat
<1>1. MaxKeys \in Nat /\ MaxKeys >= 2
  BY TreeAssumption
<1>2. QED
  BY <1>1

\* A part of increasing keys is increasing.
LEMMA PartOfKeys ==
    ASSUME NEW keys \in Seq(Key), Sorted(keys), NEW a \in 1 .. Len(keys) + 1,
           NEW b \in 0 .. Len(keys), a <= b + 1
    PROVE  /\ SubSeq(keys, a, b) \in Seq(Key) /\ Len(SubSeq(keys, a, b)) = b - a + 1
           /\ \A j \in 1 .. b - a + 1 : SubSeq(keys, a, b)[j] = keys[a + j - 1]
           /\ Sorted(SubSeq(keys, a, b))
<1> DEFINE s == SubSeq(keys, a, b)
<1>1. Len(keys) \in Nat
  BY LenProperties
<1>2. s \in Seq(Key) /\ Len(s) = b - a + 1 /\ \A j \in 1 .. b - a + 1 : s[j] = keys[a + j - 1]
  BY Part
<1> HIDE DEF s
<1>3. ASSUME NEW i \in 1 .. Len(s), NEW j \in 1 .. Len(s), i < j
      PROVE  s[i] < s[j]
  <2>1. /\ a + i - 1 \in 1 .. Len(keys) /\ a + j - 1 \in 1 .. Len(keys)
        /\ a + i - 1 < a + j - 1 /\ i \in 1 .. b - a + 1 /\ j \in 1 .. b - a + 1
    BY <1>1, <1>2, <1>3
  <2>2. keys[a + i - 1] < keys[a + j - 1]
    BY <2>1 DEF Sorted
  <2>3. QED
    BY <1>2, <2>1, <2>2
<1>4. Sorted(s)
  BY <1>3 DEF Sorted
<1>5. QED
  BY <1>2, <1>4 DEF s

\* The parts of a leaf as the code makes one.
IsLeaf(node, keys, rows, next) ==
    /\ node \in Node /\ node.leaf
    /\ node.keys = keys /\ node.rows = rows /\ node.children = <<>> /\ node.next = next

\* The code's way of making a leaf gives these parts.
LEMMA LeafParts ==
    ASSUME NEW keys \in Seq(Key), NEW rows \in Seq(RowId), NEW next \in Int
    PROVE  IsLeaf(Leaf(keys, rows, next), keys, rows, next)
  BY DEF IsLeaf, Leaf, Node

\* The parts of an inner node.
IsInternal(node, keys, children) ==
    /\ node \in Node /\ ~ node.leaf
    /\ node.keys = keys /\ node.rows = <<>> /\ node.children = children /\ node.next = NoPage

\* The code's way of making an inner node gives these parts.
LEMMA InternalParts ==
    ASSUME NEW keys \in Seq(Key), NEW children \in Seq(Nat)
    PROVE  IsInternal(Internal(keys, children), keys, children)
  BY DEF IsInternal, Internal, Node, NoPage

\* The halves of a leaf.
LEMMA LeafHalves ==
    ASSUME NEW ns, NEW level, NEW span, Sound(ns, level, span), NEW p \in 1 .. Len(ns),
           NEW node, ToWrite(ns, level, span, p, node), Len(node.keys) = MaxKeys + 1,
           node.leaf
    PROVE  LET middle == Len(node.keys) \div 2
           IN  Halves(ns, level, span, p, node,
                 Leaf(SubSeq(node.keys, 1, middle), SubSeq(node.rows, 1, middle), Len(ns) + 1),
                 Leaf(SubSeq(node.keys, middle + 1, Len(node.keys)),
                      SubSeq(node.rows, middle + 1, Len(node.rows)), node.next),
                 node.keys[middle + 1])
<1> DEFINE h == Len(node.keys)
           mid == h \div 2
           lk == SubSeq(node.keys, 1, mid)
           lr == SubSeq(node.rows, 1, mid)
           rk == SubSeq(node.keys, mid + 1, h)
           rr == SubSeq(node.rows, mid + 1, Len(node.rows))
           n == Len(ns) + 1
           left == Leaf(lk, lr, n)
           right == Leaf(rk, rr, node.next)
           sep == node.keys[mid + 1]
<1>1. /\ node.keys \in Seq(Key) /\ node.rows \in Seq(RowId) /\ h \in Nat /\ Len(ns) \in Nat
      /\ Len(node.rows) = h /\ Sorted(node.keys) /\ node.children = <<>>
      /\ node.next \in (1 .. Len(ns)) \cup {NoPage, -1}
      /\ \A i \in 1 .. h : node.keys[i] \in Key /\ node.keys[i] \in Int /\ node.keys[i] \in span[p]
      /\ level[p] = 0 /\ span[p] \subseteq Int
  BY SoundPage, NodeTypes DEF ToWrite, Shape, Fits
<1>2. mid \in 1 .. h - 1 /\ mid <= MaxKeys /\ h - mid <= MaxKeys
  BY <1>1, Middle
<1> HIDE DEF mid, h
<1>3. /\ lk \in Seq(Key) /\ Len(lk) = mid /\ Sorted(lk)
      /\ \A i \in 1 .. mid : lk[i] = node.keys[i]
  <2>1. 1 \in 1 .. h + 1 /\ mid \in 0 .. h /\ 1 <= mid + 1 /\ mid - 1 + 1 = mid
    BY <1>1, <1>2
  <2>2. /\ lk \in Seq(Key) /\ Len(lk) = mid - 1 + 1 /\ Sorted(lk)
        /\ \A i \in 1 .. mid - 1 + 1 : lk[i] = node.keys[1 + i - 1]
    BY <1>1, <2>1, PartOfKeys DEF h
  <2>3. \A i \in 1 .. mid : 1 + i - 1 = i
    OBVIOUS
  <2> HIDE DEF lk
  <2>4. QED
    BY <2>1, <2>2, <2>3
<1>4. /\ lr \in Seq(RowId) /\ Len(lr) = mid /\ \A i \in 1 .. mid : lr[i] = node.rows[i]
  BY <1>1, <1>2
<1>5. /\ rk \in Seq(Key) /\ Len(rk) = h - mid /\ Sorted(rk)
      /\ \A i \in 1 .. h - mid : rk[i] = node.keys[mid + i]
  <2>1. mid + 1 \in 1 .. h + 1 /\ h \in 0 .. h /\ mid + 1 <= h + 1 /\ h - (mid + 1) + 1 = h - mid
    BY <1>1, <1>2
  <2>2. /\ rk \in Seq(Key) /\ Len(rk) = h - (mid + 1) + 1 /\ Sorted(rk)
        /\ \A i \in 1 .. h - (mid + 1) + 1 : rk[i] = node.keys[(mid + 1) + i - 1]
    BY ZenonT(60), <1>1, <2>1, PartOfKeys DEF h
  <2>3. \A i \in 1 .. h - mid : (mid + 1) + i - 1 = mid + i
    BY <1>1, <1>2
  <2> HIDE DEF rk
  <2>4. QED
    BY <2>1, <2>2, <2>3
<1>6. /\ rr \in Seq(RowId) /\ Len(rr) = h - mid /\ \A i \in 1 .. h - mid : rr[i] = node.rows[mid + i]
  BY <1>1, <1>2
<1> HIDE DEF lk, lr, rk, rr
<1>7. /\ left \in Node /\ left.leaf /\ left.keys = lk /\ left.rows = lr
      /\ left.children = <<>> /\ left.next = n
  <2>1. n \in Int
    BY <1>1
  <2>2. IsLeaf(left, lk, lr, n)
    BY <2>1, <1>3, <1>4, LeafParts
  <2> HIDE DEF left
  <2>3. QED
    BY <2>2 DEF IsLeaf
<1>8. /\ right \in Node /\ right.leaf /\ right.keys = rk /\ right.rows = rr
      /\ right.children = <<>> /\ right.next = node.next
  <2>1. node.next \in Int
    BY <1>1 DEF NoPage
  <2>2. IsLeaf(right, rk, rr, node.next)
    BY <2>1, <1>5, <1>6, LeafParts
  <2> HIDE DEF right
  <2>3. QED
    BY <2>2 DEF IsLeaf
<1> HIDE DEF left, right
<1>9. mid + 1 \in 1 .. h /\ sep \in Key /\ sep \in Int /\ sep \in span[p]
  <2>1. mid + 1 \in 1 .. h
    BY <1>1, <1>2
  <2>2. QED
    BY <2>1, <1>1
<1>10. \A i \in 1 .. mid : node.keys[i] < sep
  <2>1. \A i \in 1 .. mid : i \in 1 .. h /\ i < mid + 1
    BY <1>1, <1>2
  <2>2. QED
    BY <2>1, <1>1, <1>9 DEF Sorted, h
<1>11. \A i \in mid + 1 .. h : node.keys[i] >= sep
  <2>1. ASSUME NEW i \in mid + 1 .. h
        PROVE  node.keys[i] >= sep
    <3>1. i \in 1 .. h /\ (i = mid + 1 \/ mid + 1 < i)
      BY <1>1, <1>2
    <3>2. QED
      BY <3>1, <1>1, <1>9 DEF Sorted, h
  <2>2. QED
    BY <2>1
<1>12. Shape(left, n)
  <2>1. n \in 1 .. n
    BY <1>1
  <2>2. QED
    BY <2>1, <1>3, <1>4, <1>7 DEF Shape
<1>13. Shape(right, n)
  <2>1. node.next \in (1 .. n) \cup {NoPage, -1}
    BY <1>1
  <2>2. QED
    BY <2>1, <1>5, <1>6, <1>8 DEF Shape
<1>14. Len(<<>>) = 0
  OBVIOUS
<1>15. Fits(left, level, span, level[p], Lower(span[p], sep))
  <2>1. \A i \in 1 .. Len(left.keys) : left.keys[i] \in Lower(span[p], sep)
    <3>1. ASSUME NEW i \in 1 .. mid
          PROVE  lk[i] \in Lower(span[p], sep)
      <4>1. i \in 1 .. h
        BY <1>1, <1>2
      <4> HIDE DEF sep
      <4>2. QED
        BY <4>1, <1>1, <1>3, <1>10 DEF Lower
    <3>2. QED
      BY <3>1, <1>3, <1>7
  <2>2. QED
    BY <2>1, <1>1, <1>7, <1>14 DEF Fits
<1>16. Fits(right, level, span, level[p], Upper(span[p], sep))
  <2>1. \A i \in 1 .. Len(right.keys) : right.keys[i] \in Upper(span[p], sep)
    <3>1. ASSUME NEW i \in 1 .. h - mid
          PROVE  rk[i] \in Upper(span[p], sep)
      <4>1. mid + i \in 1 .. h /\ mid + i \in mid + 1 .. h
        BY <1>1, <1>2
      <4> HIDE DEF sep
      <4>2. QED
        BY <4>1, <1>1, <1>5, <1>11 DEF Upper
    <3>2. QED
      BY <3>1, <1>5, <1>8
  <2>2. QED
    BY <2>1, <1>1, <1>8, <1>14 DEF Fits
<1>17. Own(ns, p, left) /\ Own(ns, p, right)
  BY <1>7, <1>8, <1>14 DEF Own
<1>18. ASSUME NEW j \in Int
       PROVE  /\ FindIn(ns, left, j) \subseteq FindIn(ns, node, j)
              /\ FindIn(ns, IF j >= sep THEN right ELSE left, j) = FindIn(ns, node, j)
              /\ \A q : EndIn(ns, IF j >= sep THEN right ELSE left, q, j) = EndIn(ns, node, q, j)
  <2>9. /\ \A q : EndIn(ns, left, q, j) = q /\ EndIn(ns, right, q, j) = q
        /\ \A q : EndIn(ns, node, q, j) = q
    BY <1>7, <1>8 DEF EndIn
  <2>1. \A r : r \in FoundIn(node, j) <=> \E i \in 1 .. h : node.keys[i] = j /\ r = node.rows[i]
    BY <1>1, FoundInNode DEF ToWrite, h
  <2>2. \A r : r \in FoundIn(left, j) <=>
                  \E i \in 1 .. mid : node.keys[i] = j /\ r = node.rows[i]
    <3>1. \A r : r \in FoundIn(left, j) <=>
                    \E i \in 1 .. Len(left.keys) : left.keys[i] = j /\ r = left.rows[i]
      BY <1>1, <1>7, <1>12, FoundInNode, n \in Nat
    <3>2. QED
      BY <3>1, <1>3, <1>4, <1>7
  <2>3. \A r : r \in FoundIn(right, j) <=>
                  \E i \in mid + 1 .. h : node.keys[i] = j /\ r = node.rows[i]
    <3>1. \A r : r \in FoundIn(right, j) <=>
                    \E i \in 1 .. Len(right.keys) : right.keys[i] = j /\ r = right.rows[i]
      BY <1>1, <1>8, <1>13, FoundInNode, n \in Nat
    <3>2. \A r : r \in FoundIn(right, j) <=>
                    \E i \in 1 .. h - mid : node.keys[mid + i] = j /\ r = node.rows[mid + i]
      BY <3>1, <1>5, <1>6, <1>8
    <3>3. \A i \in 1 .. h - mid : mid + i \in mid + 1 .. h
      BY <1>1, <1>2
    <3>4. \A i \in mid + 1 .. h : i - mid \in 1 .. h - mid /\ mid + (i - mid) = i
      BY <1>1, <1>2
    <3>5. QED
      BY <3>2, <3>3, <3>4
  <2>4. /\ FindIn(ns, left, j) = FoundIn(left, j) /\ FindIn(ns, right, j) = FoundIn(right, j)
        /\ FindIn(ns, node, j) = FoundIn(node, j)
    BY <1>7, <1>8 DEF FindIn
  <2>5. FoundIn(left, j) \subseteq FoundIn(node, j)
    BY <2>1, <2>2, <1>1, <1>2
  <2>6. CASE j >= sep
    <3>1. \A i \in 1 .. h : node.keys[i] = j => i \in mid + 1 .. h
      BY <2>6, <1>1, <1>2, <1>9, <1>10
    <3>2. \A i \in mid + 1 .. h : i \in 1 .. h
      BY <1>1, <1>2
    <3>3. \A r : r \in FoundIn(right, j) <=> r \in FoundIn(node, j)
      BY <2>1, <2>3, <3>1, <3>2
    <3>4. FoundIn(right, j) = FoundIn(node, j)
      BY <3>3
    <3>5. FindIn(ns, IF j >= sep THEN right ELSE left, j) = FindIn(ns, right, j)
      BY <2>6
    <3>6. QED
      BY <3>4, <3>5, <2>4, <2>5, <2>6, <2>9
  <2>7. CASE ~ (j >= sep)
    <3>1. \A i \in 1 .. h : node.keys[i] = j => i \in 1 .. mid
      BY <2>7, <1>1, <1>2, <1>9, <1>11
    <3>2. \A i \in 1 .. mid : i \in 1 .. h
      BY <1>1, <1>2
    <3>3. \A r : r \in FoundIn(left, j) <=> r \in FoundIn(node, j)
      BY <2>1, <2>2, <3>1, <3>2
    <3>4. FoundIn(left, j) = FoundIn(node, j)
      BY <3>3
    <3>5. FindIn(ns, IF j >= sep THEN right ELSE left, j) = FindIn(ns, left, j)
      BY <2>7
    <3>6. QED
      BY <3>4, <3>5, <2>4, <2>5, <2>7, <2>9
  <2>8. QED
    BY <2>6, <2>7
<1>19. \E y \in span[p] : y < sep
  <2>1. 1 \in 1 .. mid /\ 1 \in 1 .. h
    BY <1>1, <1>2
  <2>2. node.keys[1] \in span[p] /\ node.keys[1] < sep
    BY <2>1, <1>1, <1>10
  <2>3. QED
    BY <2>2
<1>20. Len(left.keys) <= MaxKeys /\ Len(right.keys) <= MaxKeys
  BY <1>2, <1>3, <1>5, <1>7, <1>8
<1>21. Halves(ns, level, span, p, node, left, right, sep)
  <2> HIDE DEF sep
  <2>1. Len(left.children) = 0 /\ Len(right.children) = 0
    BY <1>7, <1>8, <1>14
  <2>3. left.next = Len(ns) + 1 /\ right.next = node.next
    BY <1>7, <1>8 DEF n
  <2>2. QED
    BY <2>1, <2>3, <1>9, <1>12, <1>13, <1>15, <1>16, <1>17, <1>18, <1>19, <1>20 DEF Halves
<1>22. QED
  BY <1>21 DEF left, right, sep, lk, lr, rk, rr, mid, h, n

\* The halves of an inner node; the key between them goes up.
LEMMA InternalHalves ==
    ASSUME NEW ns, NEW level, NEW span, Sound(ns, level, span), NEW p \in 1 .. Len(ns),
           NEW node, ToWrite(ns, level, span, p, node), Len(node.keys) = MaxKeys + 1,
           ~ node.leaf
    PROVE  LET middle == Len(node.keys) \div 2
           IN  Halves(ns, level, span, p, node,
                 Internal(SubSeq(node.keys, 1, middle), SubSeq(node.children, 1, middle + 1)),
                 Internal(SubSeq(node.keys, middle + 2, Len(node.keys)),
                          SubSeq(node.children, middle + 2, Len(node.children))),
                 node.keys[middle + 1])
<1> DEFINE h == Len(node.keys)
           mid == h \div 2
           lk == SubSeq(node.keys, 1, mid)
           lc == SubSeq(node.children, 1, mid + 1)
           rk == SubSeq(node.keys, mid + 2, h)
           rc == SubSeq(node.children, mid + 2, Len(node.children))
           n == Len(ns) + 1
           left == Internal(lk, lc)
           right == Internal(rk, rc)
           sep == node.keys[mid + 1]
           child(i) == node.children[i]
<1>1. /\ node.keys \in Seq(Key) /\ node.children \in Seq(Nat) /\ h \in Nat /\ Len(ns) \in Nat
      /\ Len(node.children) = h + 1 /\ Sorted(node.keys)
      /\ \A i \in 1 .. h : node.keys[i] \in Key /\ node.keys[i] \in Int /\ node.keys[i] \in span[p]
      /\ level[p] # 0 /\ span[p] \subseteq Int
  BY SoundPage, NodeTypes DEF ToWrite, Shape, Fits
<1>2. mid \in 1 .. h - 1 /\ mid <= MaxKeys /\ h - mid - 1 <= MaxKeys /\ h - mid - 1 \in Nat
  BY <1>1, Middle
<1>3. \A i \in 1 .. h + 1 : /\ child(i) \in 1 .. Len(ns) /\ level[child(i)] + 1 = level[p]
                            /\ span[child(i)] \subseteq span[p]
                            /\ \A y \in span[child(i)] : Between(node.keys, i, y)
  BY <1>1 DEF ToWrite, Shape, Fits
<1>4. \A i, m \in 1 .. h + 1 : child(i) = child(m) => i = m
  BY <1>1 DEF ToWrite, Own
<1> HIDE DEF mid, h
<1>5. /\ lk \in Seq(Key) /\ Len(lk) = mid /\ Sorted(lk)
      /\ \A i \in 1 .. mid : lk[i] = node.keys[i]
  <2>1. 1 \in 1 .. h + 1 /\ mid \in 0 .. h /\ 1 <= mid + 1 /\ mid - 1 + 1 = mid
    BY <1>1, <1>2
  <2>2. /\ lk \in Seq(Key) /\ Len(lk) = mid - 1 + 1 /\ Sorted(lk)
        /\ \A i \in 1 .. mid - 1 + 1 : lk[i] = node.keys[1 + i - 1]
    BY <1>1, <2>1, PartOfKeys DEF h
  <2>3. \A i \in 1 .. mid : 1 + i - 1 = i
    OBVIOUS
  <2> HIDE DEF lk
  <2>4. QED
    BY <2>1, <2>2, <2>3
<1>6. /\ rk \in Seq(Key) /\ Len(rk) = h - mid - 1 /\ Sorted(rk)
      /\ \A i \in 1 .. h - mid - 1 : rk[i] = node.keys[mid + 1 + i]
  <2>1. mid + 2 \in 1 .. h + 1 /\ h \in 0 .. h /\ mid + 2 <= h + 1
        /\ h - (mid + 2) + 1 = h - mid - 1
    BY <1>1, <1>2
  <2>2. /\ rk \in Seq(Key) /\ Len(rk) = h - (mid + 2) + 1 /\ Sorted(rk)
        /\ \A i \in 1 .. h - (mid + 2) + 1 : rk[i] = node.keys[(mid + 2) + i - 1]
    BY <1>1, <2>1, PartOfKeys DEF h
  <2>3. \A i \in 1 .. h - mid - 1 : (mid + 2) + i - 1 = mid + 1 + i
    BY <1>1, <1>2
  <2> HIDE DEF rk
  <2>4. QED
    BY <2>1, <2>2, <2>3
<1>7. /\ lc \in Seq(Nat) /\ Len(lc) = mid + 1 /\ \A i \in 1 .. mid + 1 : lc[i] = child(i)
  <2>1. 1 \in 1 .. Len(node.children) + 1 /\ mid + 1 \in 0 .. Len(node.children)
        /\ 1 <= (mid + 1) + 1 /\ (mid + 1) - 1 + 1 = mid + 1
    BY <1>1, <1>2
  <2>2. /\ lc \in Seq(Nat) /\ Len(lc) = (mid + 1) - 1 + 1
        /\ \A i \in 1 .. (mid + 1) - 1 + 1 : lc[i] = child(1 + i - 1)
    BY SMTT(30), <1>1, <2>1, Part
  <2>3. \A i \in 1 .. mid + 1 : 1 + i - 1 = i
    OBVIOUS
  <2> HIDE DEF lc, child
  <2>4. QED
    BY <2>1, <2>2, <2>3
<1>8. /\ rc \in Seq(Nat) /\ Len(rc) = h - mid /\ \A i \in 1 .. h - mid : rc[i] = child(mid + 1 + i)
  <2>1. mid + 2 \in 1 .. Len(node.children) + 1
        /\ Len(node.children) \in 0 .. Len(node.children)
        /\ mid + 2 <= Len(node.children) + 1
        /\ Len(node.children) - (mid + 2) + 1 = h - mid
    BY <1>1, <1>2
  <2>2. /\ rc \in Seq(Nat) /\ Len(rc) = Len(node.children) - (mid + 2) + 1
        /\ \A i \in 1 .. Len(node.children) - (mid + 2) + 1 : rc[i] = child((mid + 2) + i - 1)
    BY ZenonT(40), <1>1, <2>1, Part
  <2>3. \A i \in 1 .. h - mid : (mid + 2) + i - 1 = mid + 1 + i
    BY <1>1, <1>2
  <2> HIDE DEF rc, child
  <2>4. QED
    BY <2>1, <2>2, <2>3
<1> HIDE DEF lk, lc, rk, rc, child
<1>9. /\ left \in Node /\ ~ left.leaf /\ left.keys = lk /\ left.rows = <<>>
      /\ left.children = lc /\ left.next = NoPage
  <2>1. IsInternal(left, lk, lc)
    BY <1>5, <1>7, InternalParts
  <2> HIDE DEF left
  <2>2. QED
    BY <2>1 DEF IsInternal
<1>10. /\ right \in Node /\ ~ right.leaf /\ right.keys = rk /\ right.rows = <<>>
       /\ right.children = rc /\ right.next = NoPage
  <2>1. IsInternal(right, rk, rc)
    BY <1>6, <1>8, InternalParts
  <2> HIDE DEF right
  <2>2. QED
    BY <2>1 DEF IsInternal
<1> HIDE DEF left, right
<1>11. mid + 1 \in 1 .. h /\ sep \in Key /\ sep \in Int /\ sep \in span[p]
  <2>1. mid + 1 \in 1 .. h
    BY <1>1, <1>2
  <2>2. QED
    BY <2>1, <1>1
<1>12. \A i \in 1 .. mid : node.keys[i] < sep
  <2>1. \A i \in 1 .. mid : i \in 1 .. h /\ i < mid + 1
    BY <1>1, <1>2
  <2>2. QED
    BY <2>1, <1>1, <1>11 DEF Sorted, h
<1>13. \A i \in mid + 1 .. h : node.keys[i] >= sep
  <2>1. ASSUME NEW i \in mid + 1 .. h
        PROVE  node.keys[i] >= sep
    <3>1. i \in 1 .. h /\ (i = mid + 1 \/ mid + 1 < i)
      BY <1>1, <1>2
    <3>2. QED
      BY SMTT(30), <3>1, <1>1, <1>11 DEF Sorted, h
  <2>2. QED
    BY <2>1
<1>14. /\ \A i \in 1 .. mid + 1 : i \in 1 .. h + 1
       /\ \A i \in 1 .. h - mid : mid + 1 + i \in 1 .. h + 1 /\ mid + i \in mid + 1 .. h
                                  /\ mid + i \in 1 .. h
       /\ Len(left.children) = mid + 1 /\ Len(right.children) = h - mid
       /\ Len(left.keys) = mid /\ Len(right.keys) = h - mid - 1
  <2>1. /\ \A i \in 1 .. mid + 1 : i \in 1 .. h + 1
        /\ \A i \in 1 .. h - mid : mid + 1 + i \in 1 .. h + 1 /\ mid + i \in mid + 1 .. h
                                   /\ mid + i \in 1 .. h
    BY <1>1, <1>2
  <2>2. QED
    BY <2>1, <1>5, <1>6, <1>7, <1>8, <1>9, <1>10
<1>15. /\ \A i \in 1 .. Len(left.children) : left.children[i] = child(i) /\ i \in 1 .. h + 1
       /\ \A i \in 1 .. Len(right.children) : right.children[i] = child(mid + 1 + i)
                                              /\ mid + 1 + i \in 1 .. h + 1
  BY <1>7, <1>8, <1>9, <1>10, <1>14
<1>16. n \in Nat /\ \A i \in 1 .. Len(ns) : i \in 1 .. n
  BY <1>1
<1>17. Shape(left, n) /\ Shape(right, n)
  <2>1. \A i \in 1 .. Len(left.children) : left.children[i] \in 1 .. n
    BY <1>3, <1>15, <1>16
  <2>2. \A i \in 1 .. Len(right.children) : right.children[i] \in 1 .. n
    BY <1>3, <1>15, <1>16
  <2>3. Len(left.children) = Len(left.keys) + 1 /\ Len(right.children) = Len(right.keys) + 1
    BY <1>14, <1>1, <1>2
  <2>4. Sorted(left.keys) /\ Sorted(right.keys)
    BY <1>5, <1>6, <1>9, <1>10
  <2> HIDE DEF n
  <2>5. QED
    BY <2>1, <2>2, <2>3, <2>4, <1>9, <1>10 DEF Shape
<1>18. \A i \in 1 .. mid + 1 : \A y \in span[child(i)] :
          y \in Lower(span[p], sep) /\ Between(lk, i, y)
  <2>1. SUFFICES ASSUME NEW i \in 1 .. mid + 1, NEW y \in span[child(i)]
                 PROVE  y \in Lower(span[p], sep) /\ Between(lk, i, y)
    OBVIOUS
  <2>2. i \in 1 .. h /\ i \in 1 .. h + 1 /\ i <= h
    BY <1>1, <1>2
  <2>3. y \in span[p] /\ y \in Int /\ Between(node.keys, i, y)
    BY <2>2, <1>1, <1>3
  <2>4. y < node.keys[i] /\ node.keys[i] \in Int
    BY <2>2, <2>3, <1>1 DEF Between, h
  <2>5. node.keys[i] <= sep
    <3>1. i = mid + 1 \/ i \in 1 .. mid
      BY <1>1, <1>2
    <3>2. QED
      BY <3>1, <2>4, <1>11, <1>12
  <2>6. y < sep
    BY <2>3, <2>4, <2>5, <1>11
  <2>7. i > 1 => i - 1 \in 1 .. mid /\ lk[i - 1] = node.keys[i - 1]
    BY <1>5, <1>2
  <2>8. i <= mid => lk[i] = node.keys[i]
    BY <1>5
  <2>9. Between(lk, i, y)
    BY <2>3, <2>4, <2>7, <2>8, <1>5 DEF Between
  <2> HIDE DEF sep
  <2>10. QED
    BY <2>3, <2>6, <2>9 DEF Lower
<1>19. \A i \in 1 .. h - mid : \A y \in span[child(mid + 1 + i)] :
          y \in Upper(span[p], sep) /\ Between(rk, i, y)
  <2>1. SUFFICES ASSUME NEW i \in 1 .. h - mid, NEW y \in span[child(mid + 1 + i)]
                 PROVE  y \in Upper(span[p], sep) /\ Between(rk, i, y)
    OBVIOUS
  <2>2. /\ mid + 1 + i \in 1 .. h + 1 /\ mid + 1 + i > 1 /\ (mid + 1 + i) - 1 = mid + i
        /\ mid + i \in mid + 1 .. h /\ mid + i \in 1 .. h
    BY <1>1, <1>2
  <2>3. y \in span[p] /\ y \in Int /\ Between(node.keys, mid + 1 + i, y)
    BY <2>2, <1>1, <1>3
  <2>4. node.keys[mid + i] <= y /\ node.keys[mid + i] \in Int
    BY <2>2, <2>3, <1>1 DEF Between
  <2>5. y >= sep
    BY SMTT(30), <2>2, <2>3, <2>4, <1>11, <1>13
  <2>6. i > 1 => rk[i - 1] = node.keys[mid + i]
    <3>1. SUFFICES ASSUME i > 1
                   PROVE  rk[i - 1] = node.keys[mid + i]
      OBVIOUS
    <3>2. i - 1 \in 1 .. h - mid - 1 /\ mid + 1 + (i - 1) = mid + i
      BY <3>1, <1>1, <1>2
    <3>3. QED
      BY <3>2, <1>6
  <2>7. i <= h - mid - 1 => rk[i] = node.keys[mid + 1 + i] /\ mid + 1 + i <= h
    BY <1>1, <1>2, <1>6
  <2>8. i <= h - mid - 1 => y < node.keys[mid + 1 + i]
    BY <2>3, <2>7 DEF Between, h
  <2>9. Between(rk, i, y)
    BY <2>4, <2>6, <2>7, <2>8, <1>6 DEF Between
  <2> HIDE DEF sep
  <2>10. QED
    BY <2>3, <2>5, <2>9 DEF Upper
<1>20. Fits(left, level, span, level[p], Lower(span[p], sep))
  <2>1. \A i \in 1 .. Len(left.keys) : left.keys[i] \in Lower(span[p], sep)
    <3>1. \A i \in 1 .. mid : i \in 1 .. h
      BY <1>1, <1>2
    <3> HIDE DEF sep
    <3>2. QED
      BY <3>1, <1>1, <1>5, <1>9, <1>12 DEF Lower
  <2> HIDE DEF sep
  <2>2. ASSUME NEW i \in 1 .. Len(left.children)
        PROVE  /\ level[left.children[i]] + 1 = level[p]
               /\ span[left.children[i]] \subseteq Lower(span[p], sep)
               /\ \A y \in span[left.children[i]] : Between(left.keys, i, y)
    <3>1. left.children[i] = child(i) /\ i \in 1 .. h + 1 /\ i \in 1 .. mid + 1
      BY <1>14, <1>15
    <3>2. QED
      BY <3>1, <1>3, <1>9, <1>18
  <2>3. QED
    BY <2>1, <2>2, <1>1, <1>9 DEF Fits
<1>21. Fits(right, level, span, level[p], Upper(span[p], sep))
  <2>1. \A i \in 1 .. Len(right.keys) : right.keys[i] \in Upper(span[p], sep)
    <3>1. \A i \in 1 .. h - mid - 1 : mid + 1 + i \in 1 .. h /\ mid + 1 + i \in mid + 1 .. h
      BY <1>1, <1>2
    <3>2. \A i \in 1 .. h - mid - 1 : rk[i] \in span[p] /\ rk[i] >= sep
      BY <3>1, <1>1, <1>6, <1>13
    <3> HIDE DEF sep
    <3>3. QED
      BY <3>2, <1>6, <1>10 DEF Upper
  <2> HIDE DEF sep
  <2>2. ASSUME NEW i \in 1 .. Len(right.children)
        PROVE  /\ level[right.children[i]] + 1 = level[p]
               /\ span[right.children[i]] \subseteq Upper(span[p], sep)
               /\ \A y \in span[right.children[i]] : Between(right.keys, i, y)
    <3>1. right.children[i] = child(mid + 1 + i) /\ mid + 1 + i \in 1 .. h + 1
          /\ i \in 1 .. h - mid
      BY <1>14, <1>15
    <3>2. QED
      BY <3>1, <1>3, <1>10, <1>19
  <2>3. QED
    BY <2>1, <2>2, <1>1, <1>10 DEF Fits
<1>22. Own(ns, p, left)
  <2>1. Own(ns, p, node) /\ Len(node.children) = h + 1
    BY <1>1 DEF ToWrite
  <2>2. QED
    BY <2>1, <1>4, <1>15 DEF Own, child
<1>23. Own(ns, p, right)
  <2>1. Own(ns, p, node) /\ Len(node.children) = h + 1
    BY <1>1 DEF ToWrite
  <2>2. \A i \in 1 .. Len(right.children) : right.children[i] # p
    BY <2>1, <1>15 DEF Own, child
  <2>3. ASSUME NEW i \in 1 .. Len(right.children), NEW m \in 1 .. Len(right.children),
               right.children[i] = right.children[m]
        PROVE  i = m
    <3>1. mid + 1 + i = mid + 1 + m
      BY <2>3, <1>4, <1>15
    <3>2. QED
      BY <3>1, <1>1, <1>2
  <2>4. ASSUME NEW q \in 1 .. Len(ns), q # p,
               NEW i \in 1 .. Len(right.children), NEW m \in 1 .. Len(ns[q].children)
        PROVE  ns[q].children[m] # right.children[i]
    <3>1. mid + 1 + i \in 1 .. Len(node.children)
          /\ right.children[i] = node.children[mid + 1 + i]
      BY <2>1, <1>15 DEF child
    <3>2. QED
      BY <2>1, <2>4, <3>1 DEF Own
  <2>5. QED
    BY <2>2, <2>3, <2>4 DEF Own
<1>24. \A i \in 1 .. Len(left.children), m \in 1 .. Len(right.children) :
          left.children[i] # right.children[m]
  <2>1. \A i \in 1 .. Len(left.children), m \in 1 .. Len(right.children) : i # mid + 1 + m
    BY <1>1, <1>2, <1>14
  <2>2. QED
    BY <2>1, <1>4, <1>15
<1>25. /\ \A i \in 1 .. Len(left.children) : /\ left.children[i] \in 1 .. Len(ns)
                                             /\ \E m \in 1 .. Len(node.children) :
                                                   left.children[i] = node.children[m]
       /\ \A i \in 1 .. Len(right.children) : /\ right.children[i] \in 1 .. Len(ns)
                                              /\ \E m \in 1 .. Len(node.children) :
                                                    right.children[i] = node.children[m]
  BY <1>1, <1>3, <1>15 DEF child
<1>26. \E y \in span[p] : y < sep
  <2>1. 1 \in 1 .. mid /\ 1 \in 1 .. h
    BY <1>1, <1>2
  <2>2. node.keys[1] \in span[p] /\ node.keys[1] < sep
    BY <2>1, <1>1, <1>12
  <2>3. QED
    BY <2>2
<1>27. ASSUME NEW j \in Int
       PROVE  /\ FindIn(ns, left, j) \subseteq FindIn(ns, node, j)
              /\ FindIn(ns, IF j >= sep THEN right ELSE left, j) = FindIn(ns, node, j)
              /\ \A q : EndIn(ns, IF j >= sep THEN right ELSE left, q, j) = EndIn(ns, node, q, j)
  <2> DEFINE u == UpperBound(node.keys, j)
  <2>1. Shape(node, Len(ns))
    BY DEF ToWrite
  <2>2. /\ u \in 1 .. h + 1 /\ ChildFor(node, j) = child(u)
        /\ \A i \in 1 .. h : node.keys[i] <= j <=> i < u
    BY <2>1, <1>1, ChildPlace DEF h, child
  <2>3. Between(node.keys, u, j)
    BY <2>1, <2>2, <1>1, ChildBetween
  <2> HIDE DEF u
  <2>4. FindIn(ns, node, j) = FindFrom(ns, child(u), j)
        /\ \A q : EndIn(ns, node, q, j) = EndOf(ns, child(u), j)
    BY <2>2 DEF FindIn, EndIn
  <2>5. CASE j >= sep
    <3> DEFINE w == u - (mid + 1)
    <3>1. mid + 1 < u
      BY <2>2, <2>5, <1>11
    <3>2. w \in 1 .. h - mid /\ mid + 1 + w = u
      BY <3>1, <2>2, <1>1, <1>2
    <3> HIDE DEF w
    <3>3. /\ w > 1 => w - 1 \in 1 .. h - mid - 1 /\ mid + 1 + (w - 1) = u - 1 /\ u > 1
          /\ w <= h - mid - 1 => w \in 1 .. h - mid - 1 /\ mid + 1 + w = u /\ u <= h
      BY SMTT(30), <3>2, <1>1, <1>2
    <3>4. Between(rk, w, j)
      BY <3>3, <2>3, <1>6 DEF Between, h
    <3>5. w = UpperBound(rk, j)
      BY <3>2, <3>4, <1>10, <1>14, <1>16, <1>17, ChildBetween
    <3>6. ChildFor(right, j) = child(u)
      BY <3>2, <3>5, <1>10, <1>14, <1>15 DEF ChildFor
    <3>7. FindIn(ns, right, j) = FindFrom(ns, child(u), j)
          /\ \A q : EndIn(ns, right, q, j) = EndOf(ns, child(u), j)
      BY <3>6, <1>10 DEF FindIn, EndIn
    <3>8. FindIn(ns, left, j) = {}
      <4> DEFINE c == ChildFor(left, j)
                 v == UpperBound(left.keys, j)
      <4>1. v \in 1 .. Len(left.children) /\ c = left.children[v]
        BY <1>9, <1>16, <1>17, ChildPlace
      <4>2. c = child(v) /\ v \in 1 .. mid + 1 /\ v \in 1 .. h + 1
        BY <4>1, <1>14, <1>15
      <4> HIDE DEF c, v
      <4>3. j \notin span[c]
        BY <4>2, <2>5, <1>11, <1>18 DEF Lower
      <4>4. c \in 1 .. Len(ns)
        BY <4>2, <1>3
      <4>5. FindFrom(ns, c, j) = {}
        BY <4>3, <4>4, FindInSpan
      <4>6. QED
        BY <4>5, <1>9 DEF FindIn, c
    <3>9. FindIn(ns, IF j >= sep THEN right ELSE left, j) = FindIn(ns, right, j)
      BY <2>5
    <3>10. QED
      BY <3>7, <3>8, <3>9, <2>4, <2>5
  <2>6. CASE ~ (j >= sep)
    <3>1. u \in 1 .. mid + 1
      <4>1. ~ (mid + 1 < u)
        BY <2>2, <2>6, <1>11
      <4>2. QED
        BY <4>1, <2>2, <1>2, <1>1
    <3>2. /\ u > 1 => u - 1 \in 1 .. mid
          /\ u <= mid => u \in 1 .. mid /\ u <= h
      BY <3>1, <1>1, <1>2
    <3>3. Between(lk, u, j)
      BY <3>2, <2>3, <1>5 DEF Between, h
    <3>4. u = UpperBound(lk, j)
      BY <3>1, <3>3, <1>9, <1>14, <1>16, <1>17, ChildBetween
    <3>5. ChildFor(left, j) = child(u)
      BY <3>1, <3>4, <1>9, <1>14, <1>15 DEF ChildFor
    <3>6. FindIn(ns, left, j) = FindFrom(ns, child(u), j)
          /\ \A q : EndIn(ns, left, q, j) = EndOf(ns, child(u), j)
      BY <3>5, <1>9 DEF FindIn, EndIn
    <3>7. FindIn(ns, IF j >= sep THEN right ELSE left, j) = FindIn(ns, left, j)
      BY <2>6
    <3>8. QED
      BY <3>6, <3>7, <2>4, <2>6
  <2>7. QED
    BY <2>5, <2>6
<1>28. Len(left.keys) <= MaxKeys /\ Len(right.keys) <= MaxKeys
  BY <1>2, <1>14
<1>29. Halves(ns, level, span, p, node, left, right, sep)
  <2> HIDE DEF sep
  <2>1. QED
    BY <1>11, <1>17, <1>20, <1>21, <1>22, <1>23, <1>24, <1>25, <1>26, <1>27, <1>28 DEF Halves
<1>30. QED
  BY <1>29 DEF left, right, sep, lk, lc, rk, rc, mid, h
----------------------------------------------------------------------------
\* What WriteOrSplit shows and returns.
Written(ns, level, span, p, node, R) ==
    /\ R.shown \in Seq(Seq(Node)) /\ Len(R.shown) \in Nat \ {0}
    /\ \A i \in 1 .. Len(R.shown) : OnTheWay(ns, level, span, p, node, R.shown[i])
    /\ ~ R.split.happened => Unsplit(ns, level, span, p, node, Last(R.shown))
    /\ R.split.happened => Halved(ns, level, span, p, node, Last(R.shown),
                                  R.split.separator, R.split.right)

\* A split is one.
LEMMA SplitWritten ==
    ASSUME NEW ns, NEW level, NEW span, Sound(ns, level, span), NEW p \in 1 .. Len(ns),
           NEW node, NEW left, NEW right, NEW sep,
           Halves(ns, level, span, p, node, left, right, sep)
    PROVE  Written(ns, level, span, p, node, SplitInto(ns, p, left, right, sep))
<1> DEFINE R == SplitInto(ns, p, left, right, sep)
<1>1. /\ R.shown \in Seq(Seq(Node)) /\ Len(R.shown) = 3
      /\ R.split = Split(sep, Len(ns) + 1)
      /\ OnTheWay(ns, level, span, p, node, R.shown[1])
      /\ OnTheWay(ns, level, span, p, node, R.shown[2])
      /\ OnTheWay(ns, level, span, p, node, R.shown[3])
      /\ Halved(ns, level, span, p, node, R.shown[3], sep, Len(ns) + 1)
  BY SplitIntoHalves
<1> HIDE DEF R
<1>2. Last(R.shown) = R.shown[3]
  BY <1>1 DEF Last
<1>3. R.split.happened /\ R.split.separator = sep /\ R.split.right = Len(ns) + 1
  BY <1>1 DEF Split
<1>4. \A i \in 1 .. 3 : i = 1 \/ i = 2 \/ i = 3
  OBVIOUS
<1>5. Written(ns, level, span, p, node, R)
  BY <1>1, <1>2, <1>3, <1>4 DEF Written
<1>6. QED
  BY <1>5 DEF R

\* Writing a node that is not too large is one.
LEMMA UnsplitWritten ==
    ASSUME NEW ns, NEW level, NEW span, Sound(ns, level, span), NEW p \in 1 .. Len(ns),
           NEW node, ToWrite(ns, level, span, p, node), Len(node.keys) <= MaxKeys
    PROVE  Written(ns, level, span, p, node,
                   [shown |-> << [ns EXCEPT ![p] = node] >>, split |-> NoSplit])
<1> DEFINE s == [ns EXCEPT ![p] = node]
           level2 == [level EXCEPT ![p] = level[p]]
           span2 == [span EXCEPT ![p] = span[p]]
           R == [shown |-> << s >>, split |-> NoSplit]
<1>1. /\ ns \in Seq(Node) /\ Len(ns) \in Nat /\ node \in Node /\ level[p] \in Nat
      /\ span[p] \in SUBSET Int
      /\ level \in [1 .. Len(ns) -> Nat] /\ span \in [1 .. Len(ns) -> SUBSET Int]
      /\ Shape(node, Len(ns)) /\ Fits(node, level, span, level[p], span[p]) /\ Own(ns, p, node)
  BY SoundPage DEF Sound, ToWrite, Shape
<1>2. Sound(s, level2, span2)
  BY <1>1, Writing
<1>3. /\ s \in Seq(Node) /\ Len(s) = Len(ns) /\ s[p] = node
      /\ \A q \in 1 .. Len(ns) : q # p => s[q] = ns[q]
  BY <1>1, ExceptSeq
<1>4. /\ level2[p] = level[p] /\ span2[p] = span[p]
      /\ \A q \in 1 .. Len(ns) : q # p => level2[q] = level[q] /\ span2[q] = span[q]
  BY <1>1
<1>5. \A c : /\ Parentless(ns, c)
             /\ \A i \in 1 .. Len(node.children) : node.children[i] # c
             => Parentless(s, c)
  BY WritingParents
<1> HIDE DEF s, level2, span2
<1>6. After(ns, level, span, p, node, s, level2, span2)
  <2>1. Keeps(ns, level, span, s, level2, span2, (1 .. Len(ns)) \ {p})
    BY <1>3, <1>4 DEF Keeps
  <2>2. Len(ns) <= Len(s)
    BY <1>1, <1>3
  <2>3. \A c \in 1 .. Len(ns) :
           Parentless(ns, c) /\ (\A i \in 1 .. Len(node.children) : node.children[i] # c) =>
              Parentless(s, c)
    BY <1>5
  <2>4. QED
    BY <2>1, <2>2, <2>3, <1>2, <1>4 DEF After
<1>7. ASSUME NEW j \in Int
      PROVE  FindFrom(s, p, j) = FindIn(ns, node, j) /\ EndOf(s, p, j) = EndIn(ns, node, p, j)
  <2> DEFINE l == level[p]
  <2>1. \A q \in 1 .. Len(ns) : level[q] < l => q # p
    BY <1>1
  <2>2. FitsInto(ns, level, span, s, p, l, span[p])
    BY <2>1, <1>1, <1>3 DEF FitsInto, Shape
  <2>3. Len(ns) <= Len(s) /\ p \in 1 .. Len(s) /\ l \in Nat
    BY <1>1, <1>3
  <2> HIDE DEF l
  <2>4. FindFrom(s, p, j) = FindIn(ns, s[p], j) /\ EndOf(s, p, j) = EndIn(ns, s[p], p, j)
    BY <2>2, <2>3, <1>2, WrittenFinds
  <2>5. QED
    BY <2>4, <1>3
<1>8. OnTheWay(ns, level, span, p, node, s)
  BY <1>6, <1>7 DEF OnTheWay
<1>9. Unsplit(ns, level, span, p, node, s)
  BY <1>3, <1>4, <1>6, <1>7 DEF Unsplit
<1> DEFINE shown == << s >>
<1>10. shown \in Seq(Seq(Node)) /\ Len(shown) = 1 /\ shown[1] = s
  BY <1>3
<1>11. R.shown = shown /\ R.split = NoSplit
  OBVIOUS
<1> HIDE DEF shown, R
<1>12. Last(R.shown) = s
  BY <1>10, <1>11 DEF Last
<1>13. ~ R.split.happened
  BY <1>11 DEF NoSplit
<1>14. \A i \in 1 .. Len(R.shown) : R.shown[i] = s
  <2>1. \A i \in 1 .. 1 : i = 1
    OBVIOUS
  <2>2. QED
    BY <2>1, <1>10, <1>11
<1>15. R.shown \in Seq(Seq(Node)) /\ Len(R.shown) \in Nat \ {0}
  BY <1>10, <1>11
<1>16. Written(ns, level, span, p, node, R)
  BY <1>8, <1>9, <1>12, <1>13, <1>14, <1>15 DEF Written
<1>17. QED
  BY <1>16 DEF R, s

\* So WriteOrSplit is one for every node with one key too many at most.
LEMMA WritingOrSplitting ==
    ASSUME NEW ns, NEW level, NEW span, Sound(ns, level, span), NEW p \in 1 .. Len(ns),
           NEW node, ToWrite(ns, level, span, p, node)
    PROVE  Written(ns, level, span, p, node, WriteOrSplit(ns, p, node))
<1>1. MaxKeys \in Nat /\ Len(node.keys) \in Nat /\ Len(node.keys) <= MaxKeys + 1
  <2>1. Shape(node, Len(ns)) /\ Len(ns) \in Nat
    BY SoundPage DEF ToWrite
  <2>2. QED
    BY <2>1, TreeAssumption, NodeTypes DEF ToWrite
<1>2. CASE Len(node.keys) <= MaxKeys
  BY <1>2, UnsplitWritten DEF WriteOrSplit
<1>3. CASE ~ (Len(node.keys) <= MaxKeys) /\ node.leaf
  <2>1. Len(node.keys) = MaxKeys + 1
    BY <1>1, <1>3
  <2>2. WriteOrSplit(ns, p, node) = SplitLeaf(ns, p, node)
    BY <1>3 DEF WriteOrSplit
  <2>3. Written(ns, level, span, p, node, SplitLeaf(ns, p, node))
    BY <2>1, <1>3, LeafHalves, SplitWritten DEF SplitLeaf
  <2>4. QED
    BY <2>2, <2>3
<1>4. CASE ~ (Len(node.keys) <= MaxKeys) /\ ~ node.leaf
  <2>1. Len(node.keys) = MaxKeys + 1
    BY <1>1, <1>4
  <2>2. WriteOrSplit(ns, p, node) = SplitInternal(ns, p, node)
    BY <1>4 DEF WriteOrSplit
  <2>3. Written(ns, level, span, p, node, SplitInternal(ns, p, node))
    BY <2>1, <1>4, InternalHalves, SplitWritten DEF SplitInternal
  <2>4. QED
    BY <2>2, <2>3
<1>5. QED
  BY <1>2, <1>3, <1>4
----------------------------------------------------------------------------
\* A key inserted where it belongs keeps the keys increasing.
LEMMA InsertSorted ==
    ASSUME NEW keys \in Seq(Key), Sorted(keys), NEW e \in Key, NEW i \in 1 .. Len(keys) + 1,
           \A m \in 1 .. Len(keys) : /\ m < i => keys[m] < e
                                     /\ m >= i => e < keys[m]
    PROVE  Sorted(InsertAt(keys, i, e))
<1> DEFINE K == InsertAt(keys, i, e)
           h == Len(keys)
<1>1. h \in Nat /\ (\A m \in 1 .. h : keys[m] \in Int) /\ e \in Int
  BY LenProperties, ElementOfSeq, TreeAssumption
<1>2. /\ Len(K) = h + 1
      /\ \A j \in 1 .. h + 1 : K[j] = IF j < i THEN keys[j] ELSE IF j = i THEN e ELSE keys[j - 1]
  BY InsertAtElements
<1>3. \A m \in 1 .. h : (m < i => keys[m] < e) /\ (m >= i => e < keys[m])
  OBVIOUS
<1>4. \A a, b \in 1 .. h : a < b => keys[a] < keys[b]
  BY DEF Sorted
<1> HIDE DEF K, h
<1>5. ASSUME NEW a \in 1 .. h + 1, NEW b \in 1 .. h + 1, a < b
      PROVE  K[a] < K[b]
  <2>1. CASE b < i
    <3>1. a \in 1 .. h /\ b \in 1 .. h /\ a < i
      BY <1>1, <1>5, <2>1, i \in 1 .. h + 1 DEF h
    <3>2. QED
      BY <3>1, <2>1, <1>2, <1>4, <1>5
  <2>2. CASE b = i
    <3>1. a \in 1 .. h /\ a < i
      BY <1>1, <1>5, <2>2
    <3>2. QED
      BY <3>1, <2>2, <1>2, <1>3
  <2>3. CASE b > i /\ a < i
    <3>1. a \in 1 .. h /\ b - 1 \in 1 .. h /\ b - 1 >= i /\ ~ (b < i) /\ b # i
          /\ i \in 1 .. h + 1
      BY <1>1, <1>5, <2>3 DEF h
    <3>2. keys[a] < e /\ e < keys[b - 1]
      BY <3>1, <2>3, <1>3
    <3>3. K[a] = keys[a] /\ K[b] = keys[b - 1]
      BY <3>1, <2>3, <1>2
    <3>4. QED
      BY <3>1, <3>2, <3>3, <1>1
  <2>4. CASE b > i /\ a = i
    <3>1. b - 1 \in 1 .. h /\ b - 1 >= i /\ ~ (b < i) /\ b # i
      BY <1>1, <1>5, <2>4
    <3>2. QED
      BY <3>1, <2>4, <1>2, <1>3
  <2>5. CASE b > i /\ a > i
    <3>1. /\ a - 1 \in 1 .. h /\ b - 1 \in 1 .. h /\ a - 1 < b - 1
          /\ ~ (b < i) /\ b # i /\ ~ (a < i) /\ a # i
      BY <1>1, <1>5, <2>5, i \in 1 .. h + 1 DEF h
    <3>2. QED
      BY <3>1, <1>2, <1>4
  <2>6. QED
    BY <2>1, <2>2, <2>3, <2>4, <2>5, <1>5, i \in 1 .. h + 1 DEF h
<1>6. Sorted(K)
  BY <1>2, <1>5 DEF Sorted
<1>7. QED
  BY <1>6 DEF K

\* A sequence t that is s with e at position i.
Inserted(t, s, i, e) ==
    /\ Len(t) = Len(s) + 1 /\ t[i] = e
    /\ \A j \in 1 .. Len(s) : /\ j < i => t[j] = s[j]
                              /\ j >= i => t[j + 1] = s[j]

\* InsertAt of the community modules makes such a sequence.
LEMMA Inserting ==
    ASSUME NEW S, NEW s \in Seq(S), NEW e \in S, NEW i \in 1 .. Len(s) + 1
    PROVE  InsertAt(s, i, e) \in Seq(S) /\ Inserted(InsertAt(s, i, e), s, i, e)
<1> DEFINE t == InsertAt(s, i, e)
           h == Len(s)
<1>1. /\ t \in Seq(S) /\ Len(t) = h + 1
      /\ \A j \in 1 .. h + 1 : t[j] = IF j < i THEN s[j] ELSE IF j = i THEN e ELSE s[j - 1]
  BY InsertAtElements
<1>2. h \in Nat /\ i \in 1 .. h + 1
  OBVIOUS
<1> HIDE DEF t, h
<1>3. t[i] = e
  BY <1>1, <1>2
<1>4. ASSUME NEW j \in 1 .. h
      PROVE  (j < i => t[j] = s[j]) /\ (j >= i => t[j + 1] = s[j])
  <2>1. j \in 1 .. h + 1 /\ j + 1 \in 1 .. h + 1 /\ (j + 1) - 1 = j
    BY <1>2
  <2>2. j < i => t[j] = s[j]
    BY <1>1, <2>1
  <2>3. j >= i => ~ (j + 1 < i) /\ j + 1 # i
    BY <1>2
  <2>4. j >= i => t[j + 1] = s[j]
    BY <1>1, <2>1, <2>3
  <2>5. QED
    BY <2>2, <2>4
<1>5. Inserted(t, s, i, e)
  BY <1>1, <1>3, <1>4 DEF Inserted, h
<1>6. QED
  BY <1>1, <1>5 DEF t

\* Each of its positions comes from one of these.
LEMMA InsertedFrom ==
    ASSUME NEW h \in Nat, NEW i \in 1 .. h + 1, NEW m \in 1 .. h + 1
    PROVE  \/ m \in 1 .. h /\ m < i
           \/ m = i
           \/ \E n \in 1 .. h : n >= i /\ m = n + 1
<1>1. CASE m > i
  <2>1. m - 1 \in 1 .. h /\ m - 1 >= i /\ m = (m - 1) + 1
    BY <1>1
  <2>2. QED
    BY <2>1
<1>2. QED
  BY <1>1

\* What inserting adds to what is found.
New(k, r, j) == IF j = k THEN {r} ELSE {}

\* The leaf with the new key.
LEMMA LeafToWrite ==
    ASSUME NEW ns, NEW level, NEW span, Sound(ns, level, span), NEW p \in 1 .. Len(ns),
           ns[p].leaf, NEW k \in Key, k \in span[p], NEW r \in RowId, FoundIn(ns[p], k) = {}
    PROVE  /\ ToWrite(ns, level, span, p, LeafWith(ns[p], k, r))
           /\ LeafWith(ns[p], k, r).leaf /\ LeafWith(ns[p], k, r).next = ns[p].next
           /\ \A j \in Int : FindIn(ns, LeafWith(ns[p], k, r), j) =
                                FindFrom(ns, p, j) \cup New(k, r, j)
<1> DEFINE old == ns[p]
           h == Len(old.keys)
           i == LowerBound(old.keys, k)
           K == InsertAt(old.keys, i, k)
           V == InsertAt(old.rows, i, r)
           node == Leaf(K, V, old.next)
<1>1. /\ old.keys \in Seq(Key) /\ old.keys \in Seq(Int) /\ old.rows \in Seq(RowId) /\ h \in Nat
      /\ Len(ns) \in Nat
      /\ Len(old.rows) = h /\ Sorted(old.keys) /\ old.children = <<>>
      /\ old.next \in (1 .. Len(ns)) \cup {NoPage, -1}
      /\ \A m \in 1 .. h : old.keys[m] \in Key /\ old.keys[m] \in Int /\ old.keys[m] \in span[p]
      /\ level[p] = 0 /\ span[p] \subseteq Int /\ h <= MaxKeys
  BY SoundPage, NodeTypes DEF Shape, Fits
<1>2. k \in Int /\ MaxKeys \in Nat
  BY TreeAssumption
<1>3. /\ i \in 1 .. h + 1
      /\ \A m \in 1 .. h : old.keys[m] < k <=> m < i
  BY <1>1, <1>2, LowerPosition
<1>4. \A m \in 1 .. h : old.keys[m] # k
  <2>1. Shape(old, Len(ns))
    BY SoundPage
  <2>2. FoundIn(old, k) # {} <=> \E m \in 1 .. Len(old.keys) : old.keys[m] = k
    BY <1>1, <2>1, FoundInNode
  <2>3. QED
    BY <2>2
<1> HIDE DEF i, h
<1>5. \A m \in 1 .. h : /\ m < i => old.keys[m] < k
                        /\ m >= i => k < old.keys[m]
  BY <1>1, <1>2, <1>3, <1>4
<1>6. Sorted(K)
  BY <1>1, <1>3, <1>5, InsertSorted DEF h
<1>7. K \in Seq(Key) /\ Inserted(K, old.keys, i, k)
  BY <1>1, <1>3, Inserting DEF h
<1>8. V \in Seq(RowId) /\ Inserted(V, old.rows, i, r)
  <2>1. i \in 1 .. Len(old.rows) + 1
    BY <1>1, <1>3
  <2>2. QED
    BY <1>1, <2>1, Inserting
<1> HIDE DEF K, V
<1>9. node \in Node /\ node.leaf /\ node.keys = K /\ node.rows = V /\ node.children = <<>>
      /\ node.next = old.next
  <2>1. old.next \in Int
    BY <1>1 DEF NoPage
  <2>2. IsLeaf(node, K, V, old.next)
    BY <2>1, <1>7, <1>8, LeafParts
  <2> HIDE DEF node
  <2>3. QED
    BY <2>2 DEF IsLeaf
<1> HIDE DEF node
<1>10. Len(<<>>) = 0
  OBVIOUS
<1> DEFINE at(m) == /\ m < i => K[m] = old.keys[m] /\ V[m] = old.rows[m]
                    /\ m >= i => K[m + 1] = old.keys[m] /\ V[m + 1] = old.rows[m]
<1>20. /\ Len(K) = h + 1 /\ Len(V) = h + 1 /\ K[i] = k /\ V[i] = r
       /\ \A m \in 1 .. h : at(m)
  BY <1>1, <1>7, <1>8 DEF Inserted, h
<1>11. Shape(node, Len(ns))
  BY <1>1, <1>6, <1>9, <1>10, <1>20 DEF Shape
<1>12. ASSUME NEW m \in 1 .. h + 1
       PROVE  K[m] \in span[p]
  <2>1. CASE m \in 1 .. h /\ m < i
    BY <2>1, <1>1, <1>20
  <2>2. CASE m = i
    BY <2>2, <1>20
  <2>3. CASE \E n \in 1 .. h : n >= i /\ m = n + 1
    BY <2>3, <1>1, <1>20
  <2>4. QED
    BY <2>1, <2>2, <2>3, <1>1, <1>3, InsertedFrom
<1>13. Fits(node, level, span, level[p], span[p])
  BY <1>1, <1>20, <1>9, <1>10, <1>12 DEF Fits
<1>14. Own(ns, p, node)
  BY <1>9, <1>10 DEF Own
<1>15. Len(node.keys) <= MaxKeys + 1
  BY <1>1, <1>2, <1>20, <1>9
<1>16. ToWrite(ns, level, span, p, node)
  BY <1>11, <1>13, <1>14, <1>15 DEF ToWrite
<1>17. ASSUME NEW j \in Int
       PROVE  FindIn(ns, node, j) = FindFrom(ns, p, j) \cup New(k, r, j)
  <2>1. FindFrom(ns, p, j) = FoundIn(old, j) /\ FindIn(ns, node, j) = FoundIn(node, j)
    BY <1>9, FindStep DEF FindIn
  <2>2. \A x : x \in FoundIn(old, j) <=> \E m \in 1 .. h : old.keys[m] = j /\ x = old.rows[m]
    BY ZenonT(40), <1>1, SoundPage, FoundInNode DEF h
  <2>3. \A x : x \in FoundIn(node, j) <=> \E m \in 1 .. h + 1 : K[m] = j /\ x = V[m]
    <3>1. \A x : x \in FoundIn(node, j) <=>
                    \E m \in 1 .. Len(node.keys) : node.keys[m] = j /\ x = node.rows[m]
      BY <1>1, <1>9, <1>11, FoundInNode
    <3>2. QED
      BY <3>1, <1>20, <1>9
  <2>4. ASSUME NEW x, x \in FoundIn(node, j)
        PROVE  x \in FoundIn(old, j) \cup New(k, r, j)
    <3>1. PICK m \in 1 .. h + 1 : K[m] = j /\ x = V[m]
      BY <2>3, <2>4
    <3>2. CASE m \in 1 .. h /\ m < i
      BY <3>1, <3>2, <2>2, <1>20
    <3>3. CASE m = i
      BY <3>1, <3>3, <1>20 DEF New
    <3>4. CASE \E n \in 1 .. h : n >= i /\ m = n + 1
      BY <3>1, <3>4, <2>2, <1>20
    <3>5. QED
      BY <3>2, <3>3, <3>4, <1>1, <1>3, InsertedFrom
  <2>5. ASSUME NEW x, x \in FoundIn(old, j) \cup New(k, r, j)
        PROVE  x \in FoundIn(node, j)
    <3>1. CASE x \in FoundIn(old, j)
      <4>1. PICK m \in 1 .. h : old.keys[m] = j /\ x = old.rows[m]
        BY <2>2, <3>1
      <4>2. CASE m < i
        <5>1. m \in 1 .. h + 1 /\ K[m] = old.keys[m] /\ V[m] = old.rows[m]
          BY <4>2, <1>1, <1>20
        <5>2. QED
          BY <5>1, <4>1, <2>3
      <4>3. CASE m >= i
        <5>1. m + 1 \in 1 .. h + 1 /\ K[m + 1] = old.keys[m] /\ V[m + 1] = old.rows[m]
          BY <4>3, <1>1, <1>20
        <5>2. QED
          BY <5>1, <4>1, <2>3
      <4>4. QED
        BY <4>2, <4>3, <1>3
    <3>2. CASE x \notin FoundIn(old, j)
      <4>1. j = k /\ x = r
        BY <3>2, <2>5 DEF New
      <4>2. i \in 1 .. h + 1 /\ K[i] = k /\ V[i] = r
        BY <1>3, <1>20
      <4>3. QED
        BY <4>1, <4>2, <2>3
    <3>3. QED
      BY <3>1, <3>2
  <2>6. FoundIn(node, j) = FoundIn(old, j) \cup New(k, r, j)
    BY <2>4, <2>5
  <2>7. QED
    BY <2>1, <2>6
<1>18. LeafWith(ns[p], k, r) = node
  BY DEF LeafWith, node, K, V, i
<1>19. QED
  BY <1>9, <1>16, <1>17, <1>18

\* Where a key belongs after one more has been inserted next to it.
LEMMA BetweenInserted ==
    ASSUME NEW keys \in Seq(Int), NEW i \in 1 .. Len(keys) + 1, NEW sep \in Int,
           NEW K, Inserted(K, keys, i, sep), NEW y \in Int,
           NEW m \in 1 .. Len(keys) + 1, Between(keys, m, y)
    PROVE  /\ m < i => Between(K, m, y)
           /\ m = i /\ y < sep => Between(K, i, y)
           /\ m = i /\ y >= sep => Between(K, i + 1, y)
           /\ m > i => Between(K, m + 1, y)
<1> DEFINE h == Len(keys)
<1>1. /\ h \in Nat /\ i \in 1 .. h + 1 /\ m \in 1 .. h + 1
      /\ \A a \in 1 .. h : keys[a] \in Int
  OBVIOUS
<1>2. /\ Len(K) = h + 1 /\ K[i] = sep
      /\ \A a \in 1 .. h : (a < i => K[a] = keys[a]) /\ (a >= i => K[a + 1] = keys[a])
  BY DEF Inserted
<1>3. (m > 1 => keys[m - 1] <= y) /\ (m <= h => y < keys[m])
  BY DEF Between
<1> HIDE DEF h
<1>4. ASSUME m < i
      PROVE  Between(K, m, y)
  <2>1. m > 1 => m - 1 \in 1 .. h /\ m - 1 < i
    BY <1>1, <1>4
  <2>2. m \in 1 .. h /\ K[m] = keys[m]
    BY <1>1, <1>2, <1>4
  <2>3. m > 1 => K[m - 1] = keys[m - 1]
    BY <2>1, <1>2
  <2>4. QED
    BY <1>3, <2>2, <2>3, <1>1 DEF Between
<1>5. ASSUME m = i
      PROVE  /\ y < sep => Between(K, i, y)
             /\ y >= sep => Between(K, i + 1, y)
  <2>1. i > 1 => i - 1 \in 1 .. h /\ i - 1 < i
    BY <1>1
  <2>2. i > 1 => K[i - 1] = keys[i - 1]
    BY <2>1, <1>2
  <2>3. y < sep => Between(K, i, y)
    BY <1>2, <1>3, <1>5, <2>2 DEF Between
  <2>4. i + 1 <= h + 1 => i \in 1 .. h
    BY <1>1
  <2>5. i + 1 <= h + 1 => K[i + 1] = keys[i] /\ y < keys[i]
    BY <2>4, <1>2, <1>3, <1>5
  <2>6. (i + 1) - 1 = i
    BY <1>1
  <2>7. y >= sep => Between(K, i + 1, y)
    BY <1>2, <2>5, <2>6 DEF Between
  <2>8. QED
    BY <2>3, <2>7
<1>6. ASSUME m > i
      PROVE  Between(K, m + 1, y)
  <2>1. m - 1 \in 1 .. h /\ m - 1 >= i /\ (m - 1) + 1 = m /\ (m + 1) - 1 = m /\ m > 1
    BY <1>1, <1>6
  <2>2. K[m] = keys[m - 1]
    BY <2>1, <1>2
  <2>3. m + 1 <= h + 1 => m \in 1 .. h /\ m >= i
    BY <1>1, <1>6
  <2>4. m + 1 <= h + 1 => K[m + 1] = keys[m] /\ y < keys[m]
    BY <2>3, <1>2, <1>3
  <2>5. QED
    BY <1>2, <1>3, <2>1, <2>2, <2>4 DEF Between
<1>7. QED
  BY <1>4, <1>5, <1>6

\* Page q, below p, was split at sep: page right has the upper half.
ChildSplit(ns, level, span, p, k, q, x, sep, right) ==
    /\ q = ChildFor(ns[p], k) /\ x \subseteq span[p]
    /\ \A y \in x : Between(ns[p].keys, UpperBound(ns[p].keys, k), y)
    /\ sep \in Key /\ sep \in x /\ \E y \in x : y < sep
    /\ right \in 1 .. Len(ns) /\ Parentless(ns, right)
    /\ level[right] = level[q]
    /\ span[q] = Lower(x, sep) /\ span[right] = Upper(x, sep)

\* The child the parent with the new separator has for a key, and what it
\* finds there.
ParentChild(ns, p, k, q, sep, right, j) ==
    IF UpperBound(ns[p].keys, j) # UpperBound(ns[p].keys, k) THEN ChildFor(ns[p], j)
    ELSE IF j >= sep THEN right ELSE q

ParentFinds(ns, p, k, node, q, sep, right) ==
    \A j \in Int :
       LET c == ParentChild(ns, p, k, q, sep, right, j)
       IN  /\ FindIn(ns, node, j) = FindFrom(ns, c, j)
           /\ \A s : EndIn(ns, node, s, j) = EndOf(ns, c, j)

\* The parent of a node that was split.
LEMMA ParentToWrite ==
    ASSUME NEW ns, NEW level, NEW span, Sound(ns, level, span), NEW p \in 1 .. Len(ns),
           ~ ns[p].leaf, NEW k \in Key, NEW q, NEW x, NEW split,
           ChildSplit(ns, level, span, p, k, q, x, split.separator, split.right)
    PROVE  /\ ToWrite(ns, level, span, p, ParentWith(ns[p], k, split))
           /\ ~ ParentWith(ns[p], k, split).leaf
           /\ ParentFinds(ns, p, k, ParentWith(ns[p], k, split), q, split.separator, split.right)
           /\ \A c : Parentless(ns, c) /\ c # split.right =>
                 \A i \in 1 .. Len(ParentWith(ns[p], k, split).children) :
                    ParentWith(ns[p], k, split).children[i] # c
<1> DEFINE old == ns[p]
           h == Len(old.keys)
           i == UpperBound(old.keys, k)
           sep == split.separator
           right == split.right
           K == InsertAt(old.keys, i, sep)
           C == InsertAt(old.children, i + 1, right)
           node == Internal(K, C)
<1>1. /\ old.keys \in Seq(Key) /\ old.keys \in Seq(Int) /\ h \in Nat /\ Len(ns) \in Nat
      /\ Len(old.children) = h + 1 /\ Sorted(old.keys) /\ old.children \in Seq(Nat)
      /\ span[p] \subseteq Int /\ level[p] \in Nat /\ h <= MaxKeys
  BY SoundPage, NodeTypes DEF Shape
<1>2. /\ \A m \in 1 .. h : old.keys[m] \in Key /\ old.keys[m] \in Int /\ old.keys[m] \in span[p]
      /\ \A m \in 1 .. h + 1 :
            /\ old.children[m] \in 1 .. Len(ns)
            /\ level[old.children[m]] + 1 = level[p] /\ span[old.children[m]] \subseteq span[p]
            /\ level[old.children[m]] \in Nat
            /\ \A y \in span[old.children[m]] : Between(old.keys, m, y)
  <2>1. Shape(old, Len(ns)) /\ Fits(old, level, span, level[p], span[p])
    BY SoundPage
  <2>2. \A m \in 1 .. h : old.keys[m] \in Key /\ old.keys[m] \in Int
    BY <2>1, <1>1, NodeTypes
  <2>3. \A m \in 1 .. h : old.keys[m] \in span[p]
    BY <2>1 DEF Fits
  <2>4. \A m \in 1 .. h + 1 : old.children[m] \in 1 .. Len(ns)
    BY <2>1, <1>1 DEF Shape
  <2>5. \A c \in 1 .. Len(ns) : level[c] \in Nat
    BY SoundPage
  <2>6. \A m \in 1 .. h + 1 :
            /\ level[old.children[m]] + 1 = level[p] /\ span[old.children[m]] \subseteq span[p]
            /\ \A y \in span[old.children[m]] : Between(old.keys, m, y)
    BY <2>1, <1>1 DEF Fits
  <2> HIDE DEF old, h
  <2>7. QED
    BY <2>2, <2>3, <2>4, <2>5, <2>6
<1>3. k \in Int /\ MaxKeys \in Nat /\ Key \subseteq Int
  BY TreeAssumption
<1>4. i \in 1 .. h + 1 /\ q = old.children[i]
  <2>1. Shape(old, Len(ns)) /\ ~ old.leaf
    BY SoundPage
  <2>2. i \in 1 .. Len(old.children) /\ ChildFor(old, k) = old.children[i]
    BY <2>1, <1>1, <1>3, ChildPlace
  <2>3. q = ChildFor(old, k)
    BY DEF ChildSplit
  <2>4. QED
    BY <2>2, <2>3, <1>1
<1> HIDE DEF i, h
<1>5. /\ x \subseteq span[p] /\ \A y \in x : Between(old.keys, i, y)
      /\ sep \in Key /\ sep \in x /\ \E y \in x : y < sep
      /\ right \in 1 .. Len(ns) /\ Parentless(ns, right) /\ level[right] = level[q]
      /\ span[q] = Lower(x, sep) /\ span[right] = Upper(x, sep)
  BY DEF ChildSplit, i
<1> HIDE DEF sep, right
<1>6. \A m \in 1 .. h : /\ m < i => old.keys[m] < sep
                        /\ m >= i => sep < old.keys[m]
  <2>1. PICK y \in x : y < sep
    BY <1>5
  <2>2. Between(old.keys, i, y) /\ Between(old.keys, i, sep) /\ y \in Int /\ sep \in Int
    BY <1>5, <1>1
  <2>3. (i > 1 => old.keys[i - 1] <= y) /\ (i <= h => sep < old.keys[i])
    BY <2>2 DEF Between, h
  <2>4. ASSUME NEW m \in 1 .. h, m < i
        PROVE  old.keys[m] < sep
    <3>1. i - 1 \in 1 .. h /\ i > 1
      BY <1>1, <1>4, <2>4
    <3>2. m = i - 1 \/ m < i - 1
      BY <1>4, <2>4
    <3>3. m < i - 1 => old.keys[m] < old.keys[i - 1]
      BY <3>1, <1>1 DEF Sorted, h
    <3>4. QED
      BY <3>1, <3>2, <3>3, <2>1, <2>2, <2>3, <1>2
  <2>5. ASSUME NEW m \in 1 .. h, m >= i
        PROVE  sep < old.keys[m]
    <3>1. i \in 1 .. h
      BY <1>1, <1>4, <2>5
    <3>2. m > i => old.keys[i] < old.keys[m]
      BY <3>1, <1>1 DEF Sorted, h
    <3>3. QED
      BY <3>1, <3>2, <2>2, <2>3, <2>5, <1>2, <1>4
  <2>6. QED
    BY <2>4, <2>5
<1>7. Sorted(K)
  BY <1>1, <1>4, <1>5, <1>6, InsertSorted DEF h
<1>8. K \in Seq(Key) /\ Inserted(K, old.keys, i, sep)
  BY <1>1, <1>4, <1>5, Inserting DEF h
<1>9. C \in Seq(Nat) /\ Inserted(C, old.children, i + 1, right)
  <2>1. i + 1 \in 1 .. Len(old.children) + 1 /\ right \in Nat
    BY <1>1, <1>4, <1>5
  <2>2. QED
    BY <1>1, <2>1, Inserting
<1> HIDE DEF K, C
<1>10. /\ node \in Node /\ ~ node.leaf /\ node.keys = K /\ node.rows = <<>>
       /\ node.children = C /\ node.next = NoPage
  <2>1. IsInternal(node, K, C)
    BY <1>8, <1>9, InternalParts
  <2> HIDE DEF node
  <2>2. QED
    BY <2>1 DEF IsInternal
<1> HIDE DEF node
<1>11. /\ Len(K) = h + 1 /\ K[i] = sep
       /\ \A m \in 1 .. h : (m < i => K[m] = old.keys[m]) /\ (m >= i => K[m + 1] = old.keys[m])
  BY <1>8 DEF Inserted, h
<1>12. /\ Len(C) = h + 2 /\ C[i + 1] = right
       /\ \A m \in 1 .. h + 1 : /\ m < i + 1 => C[m] = old.children[m]
                                /\ m >= i + 1 => C[m + 1] = old.children[m]
  <2>1. /\ Len(C) = (h + 1) + 1 /\ C[i + 1] = right
        /\ \A m \in 1 .. h + 1 : /\ m < i + 1 => C[m] = old.children[m]
                                 /\ m >= i + 1 => C[m + 1] = old.children[m]
    BY <1>1, <1>9 DEF Inserted
  <2>2. QED
    BY <2>1, <1>1
\* Each child of the new node is the new page or an old child.
<1>13. ASSUME NEW m \in 1 .. h + 2
       PROVE  \/ m \in 1 .. h + 1 /\ m <= i /\ C[m] = old.children[m]
              \/ m = i + 1 /\ C[m] = right
              \/ \E n \in 1 .. h + 1 : n > i /\ m = n + 1 /\ C[m] = old.children[n]
  <2>1. CASE m <= i
    <3>1. m \in 1 .. h + 1 /\ m < i + 1
      BY <2>1, <1>1, <1>4
    <3>2. QED
      BY <3>1, <2>1, <1>12
  <2>2. CASE m = i + 1
    BY <2>2, <1>12
  <2>3. CASE m > i + 1
    <3>1. m - 1 \in 1 .. h + 1 /\ m - 1 >= i + 1 /\ m - 1 > i /\ m = (m - 1) + 1
      BY <2>3, <1>1, <1>4
    <3>2. C[m] = old.children[m - 1]
      BY <3>1, <1>12
    <3>3. QED
      BY <3>1, <3>2
  <2>4. QED
    BY <2>1, <2>2, <2>3, <1>1, <1>4
<1>14. ASSUME NEW m \in 1 .. h + 1, NEW y \in Int, Between(old.keys, m, y)
       PROVE  /\ m < i => Between(K, m, y)
              /\ m = i /\ y < sep => Between(K, i, y)
              /\ m = i /\ y >= sep => Between(K, i + 1, y)
              /\ m > i => Between(K, m + 1, y)
  <2>1. sep \in Int
    BY <1>3, <1>5
  <2>2. QED
    BY <1>1, <1>4, <1>8, <1>14, <2>1, BetweenInserted DEF h
<1>15. ASSUME NEW m \in 1 .. h + 2
       PROVE  /\ C[m] \in 1 .. Len(ns) /\ C[m] # p
              /\ level[C[m]] + 1 = level[p] /\ span[C[m]] \subseteq span[p]
              /\ \A y \in span[C[m]] : Between(K, m, y)
  <2>1. CASE m \in 1 .. h + 1 /\ m < i /\ C[m] = old.children[m]
    <3>1. ASSUME NEW y \in span[C[m]]
          PROVE  Between(K, m, y)
      <4>1. y \in Int /\ Between(old.keys, m, y)
        BY <2>1, <3>1, <1>1, <1>2
      <4>2. QED
        BY <4>1, <2>1, <1>14
    <3>2. \A y \in span[C[m]] : Between(K, m, y)
      BY <3>1
    <3>3. /\ C[m] \in 1 .. Len(ns) /\ level[C[m]] + 1 = level[p] /\ level[C[m]] \in Nat
          /\ span[C[m]] \subseteq span[p]
      BY <2>1, <1>2
    <3>4. C[m] # p
      BY <3>3, <1>1
    <3>5. QED
      BY <3>2, <3>3, <3>4
  <2>2. CASE m = i /\ C[m] = old.children[m]
    <3>1. ASSUME NEW y \in span[C[m]]
          PROVE  Between(K, m, y)
      <4>1. y \in x /\ y < sep /\ y \in Int
        BY <2>2, <3>1, <1>1, <1>4, <1>5 DEF Lower
      <4>2. Between(old.keys, i, y)
        BY <4>1, <1>5
      <4>3. QED
        BY <4>1, <4>2, <2>2, <1>4, <1>14
    <3>2. \A y \in span[C[m]] : Between(K, m, y)
      BY <3>1
    <3>3. /\ C[m] \in 1 .. Len(ns) /\ level[C[m]] + 1 = level[p] /\ level[C[m]] \in Nat
          /\ span[C[m]] \subseteq span[p]
      BY <2>2, <1>2, <1>4
    <3>4. C[m] # p
      BY SMTT(30), <3>3, <1>1
    <3>5. QED
      BY <3>2, <3>3, <3>4
  <2>3. CASE m = i + 1 /\ C[m] = right
    <3>1. ASSUME NEW y \in span[C[m]]
          PROVE  Between(K, m, y) /\ y \in span[p]
      <4>1. y \in x /\ y >= sep /\ y \in Int /\ y \in span[p]
        BY <2>3, <3>1, <1>1, <1>5 DEF Upper
      <4>2. Between(old.keys, i, y)
        BY <4>1, <1>5
      <4>3. QED
        BY <4>1, <4>2, <2>3, <1>4, <1>14
    <3>2. level[right] + 1 = level[p] /\ level[right] \in Nat
      BY <1>2, <1>4, <1>5
    <3>3. right # p
      BY <3>2, <1>1
    <3>4. QED
      BY <2>3, <3>1, <3>2, <3>3, <1>5
  <2>4. CASE \E n \in 1 .. h + 1 : n > i /\ m = n + 1 /\ C[m] = old.children[n]
    <3>1. PICK n \in 1 .. h + 1 : n > i /\ m = n + 1 /\ C[m] = old.children[n]
      BY <2>4
    <3>2. ASSUME NEW y \in span[C[m]]
          PROVE  Between(K, m, y)
      <4>1. y \in Int /\ Between(old.keys, n, y)
        BY <3>1, <3>2, <1>1, <1>2
      <4>2. QED
        BY <4>1, <3>1, <1>14
    <3>3. \A y \in span[C[m]] : Between(K, m, y)
      BY <3>2
    <3>4. /\ C[m] \in 1 .. Len(ns) /\ level[C[m]] + 1 = level[p] /\ level[C[m]] \in Nat
          /\ span[C[m]] \subseteq span[p]
      BY <3>1, <1>2
    <3>5. C[m] # p
      BY SMTT(30), <3>4, <1>1
    <3>6. QED
      BY <3>3, <3>4, <3>5
  <2>5. QED
    BY <2>1, <2>2, <2>3, <2>4, <1>13, <1>4
<1>16. Len(<<>>) = 0
  OBVIOUS
<1>17. Shape(node, Len(ns))
  <2>1. Len(C) = Len(K) + 1
    BY <1>1, <1>11, <1>12
  <2>2. \A m \in 1 .. Len(C) : C[m] \in 1 .. Len(ns)
    BY <1>12, <1>15
  <2>3. QED
    BY <2>1, <2>2, <1>7, <1>10 DEF Shape, NoPage
<1>18. ASSUME NEW m \in 1 .. h + 1
       PROVE  K[m] \in span[p]
  <2>1. CASE m \in 1 .. h /\ m < i
    BY <2>1, <1>2, <1>11
  <2>2. CASE m = i
    BY <2>2, <1>5, <1>11
  <2>3. CASE \E n \in 1 .. h : n >= i /\ m = n + 1
    BY <2>3, <1>2, <1>11
  <2>4. QED
    BY <2>1, <2>2, <2>3, <1>1, <1>4, InsertedFrom
<1>19. Fits(node, level, span, level[p], span[p])
  <2>1. level[p] # 0
    <3>1. Fits(old, level, span, level[p], span[p])
      BY SoundPage
    <3>2. QED
      BY <3>1 DEF Fits
  <2>2. \A m \in 1 .. Len(C) : /\ level[C[m]] + 1 = level[p] /\ span[C[m]] \subseteq span[p]
                               /\ \A y \in span[C[m]] : Between(K, m, y)
    BY <1>12, <1>15
  <2>3. \A m \in 1 .. Len(K) : K[m] \in span[p]
    BY <1>11, <1>18
  <2>4. QED
    BY <2>1, <2>2, <2>3, <1>10 DEF Fits
\* The new page was nobody's child, an old child is nobody else's.
<1>20. /\ \A a, b \in 1 .. h + 1 : old.children[a] = old.children[b] => a = b
       /\ \A a \in 1 .. h + 1 : old.children[a] # right
       /\ \A s \in 1 .. Len(ns) : s # p =>
             \A b \in 1 .. Len(ns[s].children) :
                /\ ns[s].children[b] # right
                /\ \A a \in 1 .. h + 1 : ns[s].children[b] # old.children[a]
  <2>1. OneParent(ns) /\ p \in 1 .. Len(ns)
    BY DEF Sound
  <2>2. \A s \in 1 .. Len(ns) : \A a \in 1 .. Len(old.children), b \in 1 .. Len(ns[s].children) :
           old.children[a] = ns[s].children[b] => p = s /\ a = b
    BY <2>1 DEF OneParent
  <2>3. \A s \in 1 .. Len(ns) : \A b \in 1 .. Len(ns[s].children) : ns[s].children[b] # right
    BY <1>5 DEF Parentless
  <2>4. \A s \in 1 .. Len(ns) : \A a \in 1 .. h + 1, b \in 1 .. Len(ns[s].children) :
           old.children[a] = ns[s].children[b] => p = s /\ a = b
    BY <2>2, <1>1
  <2>5. \A a, b \in 1 .. h + 1 : old.children[a] = old.children[b] => a = b
    BY <2>1, <2>4, <1>1
  <2>6. \A a \in 1 .. h + 1 : old.children[a] # right
    BY <2>1, <2>3, <1>1
  <2> HIDE DEF old
  <2>7. QED
    BY <2>3, <2>4, <2>5, <2>6
<1>21. ASSUME NEW a \in 1 .. h + 2, NEW b \in 1 .. h + 2, C[a] = C[b]
       PROVE  a = b
  <2> DEFINE kind(m, n) == \/ n = m /\ m \in 1 .. h + 1 /\ m <= i
                           \/ n \in 1 .. h + 1 /\ n > i /\ m = n + 1
  <2>1. ASSUME NEW m \in 1 .. h + 2
        PROVE  \/ m = i + 1 /\ C[m] = right
               \/ \E n \in 1 .. h + 1 : kind(m, n) /\ C[m] = old.children[n]
    <3>1. CASE m \in 1 .. h + 1 /\ m <= i /\ C[m] = old.children[m]
      <4>1. kind(m, m)
        BY <3>1
      <4>2. QED
        BY <3>1, <4>1
    <3>2. CASE m = i + 1 /\ C[m] = right
      BY <3>2
    <3>3. CASE \E n \in 1 .. h + 1 : n > i /\ m = n + 1 /\ C[m] = old.children[n]
      <4>1. PICK n \in 1 .. h + 1 : n > i /\ m = n + 1 /\ C[m] = old.children[n]
        BY <3>3
      <4>2. kind(m, n)
        BY <4>1
      <4>3. QED
        BY <4>1, <4>2
    <3>4. QED
      BY <3>1, <3>2, <3>3, <1>13
  <2>2. CASE a = i + 1 /\ C[a] = right
    BY <2>1, <2>2, <1>20, <1>21
  <2>3. CASE b = i + 1 /\ C[b] = right
    BY <2>1, <2>3, <1>20, <1>21
  <2>4. CASE /\ \E n \in 1 .. h + 1 : kind(a, n) /\ C[a] = old.children[n]
             /\ \E n \in 1 .. h + 1 : kind(b, n) /\ C[b] = old.children[n]
    <3>1. PICK n \in 1 .. h + 1 : kind(a, n) /\ C[a] = old.children[n]
      BY <2>4
    <3>2. PICK t \in 1 .. h + 1 : kind(b, t) /\ C[b] = old.children[t]
      BY <2>4
    <3>3. n = t
      BY <3>1, <3>2, <1>20, <1>21
    <3>4. QED
      BY <3>1, <3>2, <3>3, <1>1, <1>4
  <2>5. QED
    BY <2>1, <2>2, <2>3, <2>4
<1>22. \A m \in 1 .. h + 2 : C[m] = right \/ \E n \in 1 .. h + 1 : C[m] = old.children[n]
  BY <1>13
<1>23. Own(ns, p, node)
  <2>1. \A m \in 1 .. h + 2 : C[m] # p
    BY <1>15
  <2>2. \A a, b \in 1 .. h + 2 : C[a] = C[b] => a = b
    BY <1>21
  <2>3. ASSUME NEW s \in 1 .. Len(ns), s # p, NEW a \in 1 .. h + 2,
               NEW b \in 1 .. Len(ns[s].children)
        PROVE  ns[s].children[b] # C[a]
    BY <2>3, <1>20, <1>22
  <2>4. QED
    BY <2>1, <2>2, <2>3, <1>10, <1>12 DEF Own
<1>24. ToWrite(ns, level, span, p, node)
  <2>1. Len(node.keys) <= MaxKeys + 1
    BY <1>1, <1>3, <1>10, <1>11
  <2>2. QED
    BY <2>1, <1>17, <1>19, <1>23 DEF ToWrite
<1>25. ASSUME NEW c, Parentless(ns, c), c # right, NEW m \in 1 .. Len(node.children)
       PROVE  node.children[m] # c
  <2>1. \A n \in 1 .. h + 1 : old.children[n] # c
    BY <1>1, <1>25 DEF Parentless
  <2>2. m \in 1 .. h + 2
    BY <1>25, <1>10, <1>12
  <2>3. QED
    BY <2>1, <2>2, <1>10, <1>22, <1>25
<1>26. ASSUME NEW j \in Int
       PROVE  LET c == ParentChild(ns, p, k, q, sep, right, j)
              IN  /\ FindIn(ns, node, j) = FindFrom(ns, c, j)
                  /\ \A s : EndIn(ns, node, s, j) = EndOf(ns, c, j)
  <2> DEFINE u == UpperBound(old.keys, j)
             c == IF u # i THEN ChildFor(old, j) ELSE IF j >= sep THEN right ELSE q
  <2>1. u \in 1 .. h + 1 /\ ChildFor(old, j) = old.children[u] /\ Between(old.keys, u, j)
    <3>1. Shape(old, Len(ns)) /\ ~ old.leaf
      BY SoundPage
    <3>2. u \in 1 .. Len(old.children) /\ ChildFor(old, j) = old.children[u]
      BY <3>1, <1>1, ChildPlace
    <3>3. QED
      BY <3>1, <3>2, <1>1, ChildBetween
  <2> DEFINE Good == /\ FindIn(ns, node, j) = FindFrom(ns, c, j)
                     /\ \A s : EndIn(ns, node, s, j) = EndOf(ns, c, j)
  <2> SUFFICES Good
    BY DEF i, ParentChild
  <2> HIDE DEF u
  <2>2. ASSUME NEW m \in 1 .. h + 2, Between(K, m, j), C[m] = c
        PROVE  Good
    <3>1. m \in 1 .. Len(node.children) /\ node.children[m] = c
      BY <2>2, <1>10, <1>12
    <3>2. m = UpperBound(node.keys, j)
      BY <3>1, <2>2, <1>1, <1>10, <1>17, ChildBetween
    <3>3. ChildFor(node, j) = c
      BY <3>1, <3>2 DEF ChildFor
    <3>4. QED
      BY <3>3, <1>10 DEF FindIn, EndIn
  <2> HIDE DEF i, Good
  <2>9. j \in Int /\ u \in Int /\ i \in Int
    BY <2>1, <1>1, <1>4
  <2>3. CASE u < i
    <3>1. u \in 1 .. h + 2 /\ u \in 1 .. h + 1 /\ u < i + 1 /\ u # i
      BY SMTT(30), <2>1, <2>3, <1>1, <1>4
    <3>2. Between(K, u, j)
      BY <3>1, <2>1, <2>3, <1>14
    <3>3. C[u] = old.children[u]
      BY <3>1, <1>12
    <3>4. c = old.children[u]
      BY <3>1, <2>1
    <3>5. QED
      BY <3>1, <3>2, <3>3, <3>4, <2>2
  <2>4. CASE u = i /\ j < sep
    <3>1. i \in 1 .. h + 2 /\ i \in 1 .. h + 1 /\ i < i + 1
      BY <1>1, <1>4
    <3>2. Between(K, i, j)
      BY <3>1, <2>1, <2>4, <1>14
    <3>3. C[i] = q
      BY <3>1, <1>4, <1>12
    <3>4. ~ (j >= sep)
      BY <2>4, <2>9, <1>3, <1>5
    <3>5. c = q
      BY <3>4, <2>4
    <3>6. QED
      BY <3>1, <3>2, <3>3, <3>5, <2>2
  <2>5. CASE u = i /\ j >= sep
    <3>1. i + 1 \in 1 .. h + 2
      BY <1>1, <1>4
    <3>2. Between(K, i + 1, j)
      BY <2>1, <2>5, <1>14
    <3>3. c = right
      BY <2>5
    <3>4. QED
      BY <3>1, <3>2, <3>3, <1>12, <2>2
  <2>6. CASE u > i
    <3> HIDE DEF c, old
    <3>1. u + 1 \in 1 .. h + 2 /\ u \in 1 .. h + 1 /\ u >= i + 1 /\ u # i
      <4>1. u \in 1 .. h + 1 /\ u \in Int /\ i \in Int /\ h \in Nat
        BY <2>1, <2>9, <1>1
      <4>2. QED
        BY <4>1, <2>6
    <3> USE DEF c, old
    <3>2. Between(K, u + 1, j)
      BY <3>1, <2>1, <2>6, <1>14
    <3>3. C[u + 1] = old.children[u]
      BY <3>1, <1>12
    <3>4. c = old.children[u]
      BY <3>1, <2>1
    <3>5. QED
      BY <3>1, <3>2, <3>3, <3>4, <2>2
  <2>7. sep \in Int
    BY <1>3, <1>5
  <2>8. QED
    BY <2>3, <2>4, <2>5, <2>6, <2>7, <2>9
<1>27. ParentFinds(ns, p, k, node, q, sep, right)
  BY <1>26 DEF ParentFinds
<1>28. ParentWith(ns[p], k, split) = node
  BY DEF ParentWith, node, K, C, i, sep, right
<1>29. QED
  BY <1>10, <1>24, <1>25, <1>27, <1>28 DEF sep, right
----------------------------------------------------------------------------
\* A route W for key k, whose pages have k in their spans.
Along(ns, level, span, k, W) ==
    /\ Sound(ns, level, span) /\ W \subseteq 1 .. Len(ns)
    /\ \A q, s \in W : level[q] = level[s] => q = s
    /\ \A q \in W : ~ ns[q].leaf => ChildFor(ns[q], k) \in W
    /\ ParentsOnRoute(ns, k, W) /\ Closed(ns, (1 .. Len(ns)) \ W)
    /\ \A q \in W : k \in span[q]

\* The pages that inserting below p leaves alone.
Off(ns, level, W, p) == (1 .. Len(ns)) \ {q \in W : level[q] <= level[p]}

\* The pages s while or after k is inserted below p.
Below(ns, level, span, W, p, s, level2, span2) ==
    /\ Sound(s, level2, span2) /\ Len(ns) <= Len(s)
    /\ Keeps(ns, level, span, s, level2, span2, Off(ns, level, W, p))
    /\ level2[p] = level[p]
    /\ \A c \in 1 .. Len(ns) : Parentless(ns, c) => Parentless(s, c)

\* On the way: nothing is found that was not there or is inserted.
FindsPart(ns, p, k, r, s) ==
    \A j \in Int : FindFrom(s, p, j) \subseteq FindFrom(ns, p, j) \cup New(k, r, j)

Midway(ns, level, span, W, p, k, r, s) ==
    /\ \E level2, span2 : Below(ns, level, span, W, p, s, level2, span2)
    /\ FindsPart(ns, p, k, r, s)

\* Done, without a split of page p,
FindsAll(ns, p, k, r, s) ==
    \A j \in Int : FindFrom(s, p, j) = FindFrom(ns, p, j) \cup New(k, r, j)

\* where the searches that ended in the leaf of k with keys from `at` end in
\* page `new`, and every other one where it did;
Moved(ns, p, k, j, at, new) ==
    IF EndOf(ns, p, j) = EndOf(ns, p, k) /\ j >= at THEN new ELSE EndOf(ns, p, j)

\* and page `new` is leaf t itself, or a new page linked in behind it.
Linking(ns, span, s, t, at, new) ==
    /\ \A e \in 1 .. Len(ns) : ns[e].leaf /\ e # t => s[e].next = ns[e].next
    /\ \/ new = t /\ s[t].next = ns[t].next
       \/ /\ new \in 1 .. Len(s) /\ new \notin 1 .. Len(ns)
          /\ s[t].next = new /\ s[new].next = ns[t].next
          /\ at \in Key /\ at \in span[t] /\ \E y \in span[t] : y < at

EndsAll(ns, span, p, k, s) ==
    \E at, new : /\ Linking(ns, span, s, EndOf(ns, p, k), at, new)
                 /\ \A j \in Int : EndOf(s, p, j) = Moved(ns, p, k, j, at, new)

InsertedBelow(ns, level, span, W, p, k, r, s) ==
    /\ \E level2, span2 : Below(ns, level, span, W, p, s, level2, span2)
    /\ FindsAll(ns, p, k, r, s)
    /\ EndsAll(ns, span, p, k, s)

\* or with one.
FindsInHalves(ns, p, k, r, s, sep, right) ==
    \A j \in Int : FindFrom(s, IF j >= sep THEN right ELSE p, j) =
                      FindFrom(ns, p, j) \cup New(k, r, j)

EndsInHalves(ns, span, p, k, s, sep, right) ==
    \E at, new : /\ Linking(ns, span, s, EndOf(ns, p, k), at, new)
                 /\ \A j \in Int : EndOf(s, IF j >= sep THEN right ELSE p, j) =
                                     Moved(ns, p, k, j, at, new)

SplitBelow(ns, level, span, W, p, k, r, s, sep, right) ==
    /\ sep \in Key /\ sep \in span[p] /\ \E y \in span[p] : y < sep
    /\ right \in 1 .. Len(s) /\ right \notin 1 .. Len(ns) /\ Parentless(s, right)
    /\ \E level2, span2 :
          /\ Below(ns, level, span, W, p, s, level2, span2)
          /\ level2[right] = level[p]
          /\ span2[p] = Lower(span[p], sep) /\ span2[right] = Upper(span[p], sep)
    /\ FindsInHalves(ns, p, k, r, s, sep, right)
    /\ EndsInHalves(ns, span, p, k, s, sep, right)

\* What inserting below p shows and returns.
Done(ns, level, span, W, p, k, r, R) ==
    /\ R.shown \in Seq(Seq(Node)) /\ Len(R.shown) \in Nat \ {0}
    /\ \A i \in 1 .. Len(R.shown) : Midway(ns, level, span, W, p, k, r, R.shown[i])
    /\ ~ R.split.happened => InsertedBelow(ns, level, span, W, p, k, r, Last(R.shown))
    /\ R.split.happened => SplitBelow(ns, level, span, W, p, k, r, Last(R.shown),
                                      R.split.separator, R.split.right)

\* The child of a page of the route is lower, and the page is not on the part
\* below it.
LEMMA StepDown ==
    ASSUME NEW ns, NEW level, NEW span, NEW k \in Int, NEW W, Along(ns, level, span, k, W),
           NEW p \in W, ~ ns[p].leaf
    PROVE  /\ p \in 1 .. Len(ns) /\ Sound(ns, level, span)
           /\ ChildFor(ns[p], k) \in W /\ ChildFor(ns[p], k) \in 1 .. Len(ns)
           /\ p \in Off(ns, level, W, ChildFor(ns[p], k))
           /\ Off(ns, level, W, p) \subseteq Off(ns, level, W, ChildFor(ns[p], k))
           /\ (1 .. Len(ns)) \ W \subseteq Off(ns, level, W, ChildFor(ns[p], k))
<1> DEFINE q == ChildFor(ns[p], k)
<1>1. /\ Sound(ns, level, span) /\ W \subseteq 1 .. Len(ns) /\ p \in 1 .. Len(ns)
      /\ q \in W
  BY DEF Along
<1>2. level[q] \in Nat /\ level[q] + 1 = level[p]
  BY <1>1, ChildBelow
<1>3. \A s \in 1 .. Len(ns) : level[s] \in Nat
  BY <1>1, SoundPage
<1> HIDE DEF q
<1>4. p \in Off(ns, level, W, q)
  BY <1>1, <1>2 DEF Off
<1>5. ASSUME NEW s, s \in Off(ns, level, W, p)
      PROVE  s \in Off(ns, level, W, q)
  BY <1>1, <1>2, <1>3, <1>5 DEF Off
<1>6. (1 .. Len(ns)) \ W \subseteq Off(ns, level, W, q)
  BY DEF Off
<1>7. QED
  BY <1>1, <1>4, <1>5, <1>6 DEF q

\* The other children of a page of the route answer as before.
SiblingFinds(ns, p, k, s, j) ==
    /\ FindFrom(ns, ChildFor(ns[p], j), j) = FindFrom(ns, p, j)
    /\ FindFrom(s, ChildFor(ns[p], j), j) = FindFrom(s, p, j)
    /\ EndOf(s, ChildFor(ns[p], j), j) = EndOf(s, p, j)
    /\ UpperBound(ns[p].keys, j) # UpperBound(ns[p].keys, k) =>
          /\ FindFrom(s, ChildFor(ns[p], j), j) = FindFrom(ns, ChildFor(ns[p], j), j)
          /\ EndOf(s, ChildFor(ns[p], j), j) = EndOf(ns, ChildFor(ns[p], j), j)
    /\ UpperBound(ns[p].keys, j) = UpperBound(ns[p].keys, k) =>
          ChildFor(ns[p], j) = ChildFor(ns[p], k)

\* A change below one child of p leaves what the other children find as it was.
LEMMA Siblings ==
    ASSUME NEW ns, NEW level, NEW span, NEW k \in Int, NEW W, Along(ns, level, span, k, W),
           NEW p \in W, ~ ns[p].leaf, NEW s, NEW level2, NEW span2,
           Below(ns, level, span, W, ChildFor(ns[p], k), s, level2, span2), NEW j \in Int
    PROVE  SiblingFinds(ns, p, k, s, j)
<1> DEFINE q == ChildFor(ns[p], k)
           c == ChildFor(ns[p], j)
           u == UpperBound(ns[p].keys, j)
           U == (1 .. Len(ns)) \ W
<1>1. /\ p \in 1 .. Len(ns) /\ Sound(ns, level, span) /\ p \in Off(ns, level, W, q)
      /\ U \subseteq Off(ns, level, W, q)
  BY StepDown
<1>2. Sound(s, level2, span2) /\ Len(ns) <= Len(s)
      /\ Keeps(ns, level, span, s, level2, span2, Off(ns, level, W, q))
  BY DEF Below
<1>3. s[p] = ns[p] /\ level2[p] = level[p] /\ span2[p] = span[p]
  BY <1>1, <1>2 DEF Keeps
<1>4. Len(ns) \in Nat /\ Len(s) \in Nat
  BY <1>1, <1>2 DEF Sound
<1>5. p \in 1 .. Len(s)
  BY <1>1, <1>2, <1>4
<1>6. /\ FindFrom(ns, c, j) = FindFrom(ns, p, j) /\ FindFrom(s, c, j) = FindFrom(s, p, j)
      /\ EndOf(s, c, j) = EndOf(s, p, j)
  BY <1>1, <1>2, <1>3, <1>5, FindStep, EndStep
<1>7. /\ c \in 1 .. Len(ns) /\ u \in 1 .. Len(ns[p].children) /\ c = ns[p].children[u]
      /\ q = ns[p].children[UpperBound(ns[p].keys, k)]
  BY <1>1, <1>4, SoundPage, ChildPlace
<1>8. ASSUME u # UpperBound(ns[p].keys, k)
      PROVE  FindFrom(s, c, j) = FindFrom(ns, c, j) /\ EndOf(s, c, j) = EndOf(ns, c, j)
  <2>1. ParentsOnRoute(ns, k, W) /\ Closed(ns, U)
    BY DEF Along
  <2>2. c \in U
    BY <2>1, <1>1, <1>7, <1>8 DEF ParentsOnRoute
  <2>3. Unchanged(ns, s, U)
    <3>1. U \subseteq 1 .. Len(s)
      BY <1>2, <1>4
    <3>2. \A a \in U : s[a] = ns[a]
      BY <1>1, <1>2 DEF Keeps
    <3>3. QED
      BY <3>1, <3>2 DEF Unchanged
  <2>4. SameFinds(ns, s, U, j)
    BY <2>1, <2>3, <1>1, <1>2, Untouched
  <2>5. QED
    BY <2>2, <2>4 DEF SameFinds
<1>9. u = UpperBound(ns[p].keys, k) => c = q
  BY <1>7
<1>10. QED
  BY <1>6, <1>8, <1>9 DEF SiblingFinds

\* A search that begins off the route ends off it, the search for k on it.
LEMMA EndsApart ==
    ASSUME NEW ns, NEW level, NEW span, NEW k \in Int, NEW W, Along(ns, level, span, k, W)
    PROVE  /\ \A p \in W : EndOf(ns, p, k) \in W
           /\ \A j \in Int : \A p \in (1 .. Len(ns)) \ W : EndOf(ns, p, j) \notin W
<1>1. /\ Sound(ns, level, span) /\ W \subseteq 1 .. Len(ns)
      /\ \A q \in W : ~ ns[q].leaf => ChildFor(ns[q], k) \in W
      /\ Closed(ns, (1 .. Len(ns)) \ W)
  BY DEF Along
<1>2. \A p \in W : EndOf(ns, p, k) \in W
  <2> DEFINE G == {p \in 1 .. Len(ns) : p \in W => EndOf(ns, p, k) \in W}
  <2>1. ASSUME NEW p \in 1 .. Len(ns), ns[p].leaf
        PROVE  p \in G
    BY <2>1, <1>1, EndStep
  <2>2. ASSUME NEW p \in 1 .. Len(ns), ~ ns[p].leaf, ChildFor(ns[p], k) \in G
        PROVE  p \in G
    <3>1. EndOf(ns, p, k) = EndOf(ns, ChildFor(ns[p], k), k)
      BY <2>2, <1>1, EndStep
    <3>2. QED
      BY <3>1, <2>2, <1>1
  <2>3. \A p \in 1 .. Len(ns) : p \in G
    <3> HIDE DEF G
    <3>1. QED
      BY <2>1, <2>2, <1>1, AlongSearch
  <2>4. QED
    BY <2>3, <1>1
<1>3. ASSUME NEW j \in Int
      PROVE  \A p \in (1 .. Len(ns)) \ W : EndOf(ns, p, j) \notin W
  <2> DEFINE G == {p \in 1 .. Len(ns) : p \notin W => EndOf(ns, p, j) \notin W}
  <2>1. ASSUME NEW p \in 1 .. Len(ns), ns[p].leaf
        PROVE  p \in G
    BY <2>1, <1>1, EndStep
  <2>2. ASSUME NEW p \in 1 .. Len(ns), ~ ns[p].leaf, ChildFor(ns[p], j) \in G
        PROVE  p \in G
    <3>1. EndOf(ns, p, j) = EndOf(ns, ChildFor(ns[p], j), j)
      BY <2>2, <1>1, EndStep
    <3>2. ASSUME p \notin W
          PROVE  ChildFor(ns[p], j) \notin W
      <4> DEFINE u == UpperBound(ns[p].keys, j)
      <4>1. Shape(ns[p], Len(ns)) /\ Len(ns) \in Nat
        BY <1>1, SoundPage
      <4>2. u \in 1 .. Len(ns[p].children) /\ ChildFor(ns[p], j) = ns[p].children[u]
        BY <4>1, <2>2, ChildPlace
      <4>3. QED
        BY <4>2, <3>2, <1>1 DEF Closed
    <3>3. QED
      BY <3>1, <3>2, <2>2
  <2>3. \A p \in 1 .. Len(ns) : p \in G
    <3> HIDE DEF G
    <3>1. QED
      BY <2>1, <2>2, <1>1, AlongSearch
  <2>4. QED
    BY <2>3
<1>4. QED
  BY <1>2, <1>3

\* So the searches that move below a child of the route are the ones that move
\* below its parent.
LEMMA MovedUp ==
    ASSUME NEW ns, NEW level, NEW span, NEW k \in Int, NEW W, Along(ns, level, span, k, W),
           NEW p \in W, ~ ns[p].leaf, NEW j \in Int, NEW at, NEW new
    PROVE  LET q == ChildFor(ns[p], k)
           IN  /\ EndOf(ns, q, k) = EndOf(ns, p, k)
               /\ UpperBound(ns[p].keys, j) = UpperBound(ns[p].keys, k) =>
                     Moved(ns, p, k, j, at, new) = Moved(ns, q, k, j, at, new)
               /\ UpperBound(ns[p].keys, j) # UpperBound(ns[p].keys, k) =>
                     Moved(ns, p, k, j, at, new) = EndOf(ns, ChildFor(ns[p], j), j)
<1> DEFINE q == ChildFor(ns[p], k)
           c == ChildFor(ns[p], j)
           u == UpperBound(ns[p].keys, j)
<1>1. /\ p \in 1 .. Len(ns) /\ Sound(ns, level, span) /\ q \in W /\ q \in 1 .. Len(ns)
  BY StepDown
<1>2. EndOf(ns, q, k) = EndOf(ns, p, k) /\ EndOf(ns, c, j) = EndOf(ns, p, j)
  BY <1>1, EndStep
<1>3. Shape(ns[p], Len(ns)) /\ Len(ns) \in Nat
  BY <1>1, SoundPage
<1>4. /\ u \in 1 .. Len(ns[p].children) /\ c = ns[p].children[u] /\ c \in 1 .. Len(ns)
      /\ q = ns[p].children[UpperBound(ns[p].keys, k)]
  BY <1>1, <1>3, ChildPlace
<1>5. ASSUME u = UpperBound(ns[p].keys, k)
      PROVE  Moved(ns, p, k, j, at, new) = Moved(ns, q, k, j, at, new)
  <2>1. c = q
    BY <1>4, <1>5
  <2> HIDE DEF c, q, u
  <2>2. QED
    BY <2>1, <1>2 DEF Moved
<1>6. ASSUME u # UpperBound(ns[p].keys, k)
      PROVE  Moved(ns, p, k, j, at, new) = EndOf(ns, c, j)
  <2>1. c \notin W
    BY <1>1, <1>4, <1>6 DEF Along, ParentsOnRoute
  <2>2. EndOf(ns, c, j) \notin W /\ EndOf(ns, p, k) \in W
    BY <2>1, <1>4, EndsApart
  <2> HIDE DEF c, q, u
  <2>3. QED
    BY <2>2, <1>2 DEF Moved
<1>7. QED
  BY <1>2, <1>5, <1>6

\* What holds below a child of the route holds below its parent.
LEMMA Up ==
    ASSUME NEW ns, NEW level, NEW span, NEW k \in Int, NEW W, Along(ns, level, span, k, W),
           NEW p \in W, ~ ns[p].leaf, NEW s, NEW level2, NEW span2,
           Below(ns, level, span, W, ChildFor(ns[p], k), s, level2, span2), NEW r
    PROVE  /\ Below(ns, level, span, W, p, s, level2, span2)
           /\ FindsPart(ns, ChildFor(ns[p], k), k, r, s) => FindsPart(ns, p, k, r, s)
           /\ FindsAll(ns, ChildFor(ns[p], k), k, r, s) => FindsAll(ns, p, k, r, s)
           /\ EndsAll(ns, span, ChildFor(ns[p], k), k, s) => EndsAll(ns, span, p, k, s)
<1> DEFINE q == ChildFor(ns[p], k)
           same(j) == UpperBound(ns[p].keys, j) = UpperBound(ns[p].keys, k)
<1>1. Off(ns, level, W, p) \subseteq Off(ns, level, W, q)
  BY StepDown
<1>2. /\ Sound(s, level2, span2) /\ Len(ns) <= Len(s)
      /\ Keeps(ns, level, span, s, level2, span2, Off(ns, level, W, q))
      /\ \A c \in 1 .. Len(ns) : Parentless(ns, c) => Parentless(s, c)
  BY DEF Below
<1>3. level2[p] = level[p]
  <2>1. p \in Off(ns, level, W, q)
    BY StepDown
  <2>2. QED
    BY <2>1, <1>2 DEF Keeps
<1>4. Below(ns, level, span, W, p, s, level2, span2)
  BY <1>1, <1>2, <1>3 DEF Below, Keeps
<1>5. ASSUME NEW j \in Int
      PROVE  /\ same(j) => /\ FindFrom(ns, q, j) = FindFrom(ns, p, j)
                           /\ FindFrom(s, q, j) = FindFrom(s, p, j)
             /\ ~ same(j) => FindFrom(s, p, j) = FindFrom(ns, p, j) /\ New(k, r, j) = {}
  <2>1. ~ same(j) => j # k
    OBVIOUS
  <2>2. ~ same(j) => New(k, r, j) = {}
    BY <2>1 DEF New
  <2>3. SiblingFinds(ns, p, k, s, j)
    BY Siblings
  <2>4. QED
    BY <2>2, <2>3 DEF SiblingFinds
<1>9. ASSUME EndsAll(ns, span, q, k, s)
      PROVE  EndsAll(ns, span, p, k, s)
  <2>1. PICK at, new : /\ Linking(ns, span, s, EndOf(ns, q, k), at, new)
                       /\ \A j \in Int : EndOf(s, q, j) = Moved(ns, q, k, j, at, new)
    BY <1>9 DEF EndsAll
  <2>2. EndOf(ns, q, k) = EndOf(ns, p, k)
    BY MovedUp
  <2>3. ASSUME NEW j \in Int
        PROVE  EndOf(s, p, j) = Moved(ns, p, k, j, at, new)
    <3>1. SiblingFinds(ns, p, k, s, j)
      BY Siblings
    <3>2. /\ EndOf(s, ChildFor(ns[p], j), j) = EndOf(s, p, j)
          /\ same(j) => ChildFor(ns[p], j) = q
          /\ ~ same(j) => EndOf(s, p, j) = EndOf(ns, ChildFor(ns[p], j), j)
      BY <3>1 DEF SiblingFinds
    <3>3. /\ same(j) => Moved(ns, p, k, j, at, new) = Moved(ns, q, k, j, at, new)
          /\ ~ same(j) => Moved(ns, p, k, j, at, new) = EndOf(ns, ChildFor(ns[p], j), j)
      BY MovedUp
    <3> HIDE DEF q, same
    <3>4. QED
      BY <3>2, <3>3, <2>1
  <2>4. QED
    BY <2>1, <2>2, <2>3 DEF EndsAll
<1> HIDE DEF q, same
<1>6. ASSUME FindsPart(ns, q, k, r, s)
      PROVE  FindsPart(ns, p, k, r, s)
  BY <1>5, <1>6 DEF FindsPart
<1>7. ASSUME FindsAll(ns, q, k, r, s)
      PROVE  FindsAll(ns, p, k, r, s)
  BY <1>5, <1>7 DEF FindsAll
<1>8. QED
  BY <1>4, <1>6, <1>7, <1>9 DEF q

\* A node to be written to page p: the leaf itself, or an inner node from which
\* the searches end where they have moved to.
Ready(ns, span, p, k, last, node) ==
    \/ node.leaf /\ ns[p].leaf /\ last = ns /\ node.next = ns[p].next
    \/ /\ ~ node.leaf /\ ~ ns[p].leaf
       /\ \E at, new : /\ Linking(ns, span, last, EndOf(ns, p, k), at, new)
                       /\ \A j \in Int : \A q : EndIn(last, node, q, j) =
                                                    Moved(ns, p, k, j, at, new)

\* Writing an inner node leaves the links of the leaves.
LEMMA LinkingKept ==
    ASSUME NEW ns, NEW span, NEW t \in 1 .. Len(ns), ns[t].leaf,
           NEW last, NEW at, NEW new, Linking(ns, span, last, t, at, new),
           NEW s, Len(last) \in Nat, Len(s) \in Nat, Len(ns) <= Len(last), Len(last) <= Len(s),
           Len(ns) \in Nat,
           \A q \in 1 .. Len(last) : q \notin 1 .. Len(ns) \/ ns[q].leaf => s[q] = last[q]
    PROVE  Linking(ns, span, s, t, at, new)
<1>1. \A e \in 1 .. Len(ns) : ns[e].leaf => s[e] = last[e]
  OBVIOUS
<1>2. \A e \in 1 .. Len(ns) : ns[e].leaf /\ e # t => s[e].next = ns[e].next
  BY <1>1 DEF Linking
<1>3. CASE new = t /\ last[t].next = ns[t].next
  BY <1>1, <1>2, <1>3 DEF Linking
<1>4. CASE /\ new \in 1 .. Len(last) /\ new \notin 1 .. Len(ns)
           /\ last[t].next = new /\ last[new].next = ns[t].next
           /\ at \in Key /\ at \in span[t] /\ \E y \in span[t] : y < at
  <2>1. new \in 1 .. Len(s) /\ s[new] = last[new]
    BY <1>4
  <2>2. QED
    BY <2>1, <1>1, <1>2, <1>4 DEF Linking
<1>5. QED
  BY <1>3, <1>4 DEF Linking

\* Where the searches end when the node has been written in one piece,
LEMMA UnsplitEnds ==
    ASSUME NEW ns, NEW level, NEW span, Sound(ns, level, span), NEW k \in Int,
           NEW p \in 1 .. Len(ns), NEW last, NEW level2, NEW span2, Sound(last, level2, span2),
           Len(ns) <= Len(last), NEW node, Ready(ns, span, p, k, last, node),
           NEW s, Unsplit(last, level2, span2, p, node, s)
    PROVE  EndsAll(ns, span, p, k, s)
<1>1. PICK level3, span3 : After(last, level2, span2, p, node, s, level3, span3)
  BY DEF Unsplit
<1>2. /\ Len(last) \in Nat /\ Len(s) \in Nat /\ Len(last) <= Len(s) /\ Len(ns) \in Nat
      /\ \A q \in 1 .. Len(last) : q # p => s[q] = last[q]
  BY <1>1 DEF After, Keeps, Sound
<1>3. s[p] = node /\ \A j \in Int : EndOf(s, p, j) = EndIn(last, node, p, j)
  BY DEF Unsplit
<1>4. CASE node.leaf /\ ns[p].leaf /\ last = ns /\ node.next = ns[p].next
  <2>1. \A j \in Int : EndOf(ns, p, j) = p
    BY <1>4, EndStep
  <2>2. Linking(ns, span, s, p, 0, p)
    BY <1>2, <1>3, <1>4 DEF Linking
  <2>3. \A j \in Int : EndOf(s, p, j) = Moved(ns, p, k, j, 0, p)
    BY <2>1, <1>3, <1>4 DEF Moved, EndIn
  <2>4. QED
    BY <2>1, <2>2, <2>3 DEF EndsAll
<1>5. CASE /\ ~ node.leaf /\ ~ ns[p].leaf
           /\ \E at, new : /\ Linking(ns, span, last, EndOf(ns, p, k), at, new)
                           /\ \A j \in Int : \A q : EndIn(last, node, q, j) =
                                                        Moved(ns, p, k, j, at, new)
  <2>1. PICK at, new : /\ Linking(ns, span, last, EndOf(ns, p, k), at, new)
                       /\ \A j \in Int : \A q : EndIn(last, node, q, j) =
                                                    Moved(ns, p, k, j, at, new)
    BY <1>5
  <2>2. EndOf(ns, p, k) \in 1 .. Len(ns) /\ ns[EndOf(ns, p, k)].leaf
    BY EndInside
  <2>3. Linking(ns, span, s, EndOf(ns, p, k), at, new)
    BY <2>1, <2>2, <1>2, <1>5, LinkingKept
  <2>4. QED
    BY <2>1, <2>3, <1>3 DEF EndsAll
<1>6. QED
  BY <1>4, <1>5 DEF Ready

\* and when it was split.
LEMMA HalvedEnds ==
    ASSUME NEW ns, NEW level, NEW span, Sound(ns, level, span), NEW k \in Int,
           NEW p \in 1 .. Len(ns), NEW last, NEW level2, NEW span2, Sound(last, level2, span2),
           Len(ns) <= Len(last), span2[p] = span[p],
           NEW node, Ready(ns, span, p, k, last, node),
           NEW s, NEW sep, NEW right, Halved(last, level2, span2, p, node, s, sep, right)
    PROVE  EndsInHalves(ns, span, p, k, s, sep, right)
<1>1. PICK level3, span3 : After(last, level2, span2, p, node, s, level3, span3)
  BY DEF Halved
<1>2. /\ Len(last) \in Nat /\ Len(s) \in Nat /\ Len(last) <= Len(s) /\ Len(ns) \in Nat
      /\ \A q \in 1 .. Len(last) : q # p => s[q] = last[q]
  BY <1>1 DEF After, Keeps, Sound
<1>3. /\ node.leaf => s[p].next = right /\ s[right].next = node.next
      /\ \A j \in Int : EndOf(s, IF j >= sep THEN right ELSE p, j) =
                           EndIn(last, node, IF j >= sep THEN right ELSE p, j)
      /\ sep \in Key /\ sep \in span[p] /\ \E y \in span[p] : y < sep
      /\ right \in 1 .. Len(s) /\ right \notin 1 .. Len(last)
  BY DEF Halved
<1>4. CASE node.leaf /\ ns[p].leaf /\ last = ns /\ node.next = ns[p].next
  <2>1. \A j \in Int : EndOf(ns, p, j) = p
    BY <1>4, EndStep
  <2>2. Linking(ns, span, s, p, sep, right)
    BY <1>2, <1>3, <1>4 DEF Linking
  <2>3. \A j \in Int : EndOf(s, IF j >= sep THEN right ELSE p, j) =
                          Moved(ns, p, k, j, sep, right)
    BY <2>1, <1>3, <1>4 DEF Moved, EndIn
  <2>4. QED
    BY <2>1, <2>2, <2>3 DEF EndsInHalves
<1>5. CASE /\ ~ node.leaf /\ ~ ns[p].leaf
           /\ \E at, new : /\ Linking(ns, span, last, EndOf(ns, p, k), at, new)
                           /\ \A j \in Int : \A q : EndIn(last, node, q, j) =
                                                        Moved(ns, p, k, j, at, new)
  <2>1. PICK at, new : /\ Linking(ns, span, last, EndOf(ns, p, k), at, new)
                       /\ \A j \in Int : \A q : EndIn(last, node, q, j) =
                                                    Moved(ns, p, k, j, at, new)
    BY <1>5
  <2>2. EndOf(ns, p, k) \in 1 .. Len(ns) /\ ns[EndOf(ns, p, k)].leaf
    BY EndInside
  <2>3. Linking(ns, span, s, EndOf(ns, p, k), at, new)
    BY <2>1, <2>2, <1>2, <1>5, LinkingKept
  <2>4. QED
    BY <2>1, <2>3, <1>3 DEF EndsInHalves
<1>6. QED
  BY <1>4, <1>5 DEF Ready

\* Writing a node to page p, on pages where something was inserted below p.
LEMMA WrittenDone ==
    ASSUME NEW ns, NEW level, NEW span, NEW k \in Int, NEW W, Along(ns, level, span, k, W),
           NEW p \in W, NEW last, NEW level2, NEW span2,
           Below(ns, level, span, W, p, last, level2, span2), span2[p] = span[p],
           NEW node, NEW R, Written(last, level2, span2, p, node, R), NEW r,
           FindsPart(ns, p, k, r, last),
           \A j \in Int : FindIn(last, node, j) = FindFrom(ns, p, j) \cup New(k, r, j),
           Ready(ns, span, p, k, last, node),
           \A c \in 1 .. Len(ns) : Parentless(last, c) =>
              \A i \in 1 .. Len(node.children) : node.children[i] # c
    PROVE  Done(ns, level, span, W, p, k, r, R)
<1>1. /\ p \in 1 .. Len(ns) /\ Len(ns) \in Nat /\ Sound(last, level2, span2)
      /\ Len(last) \in Nat /\ Len(ns) <= Len(last)
      /\ Keeps(ns, level, span, last, level2, span2, Off(ns, level, W, p))
      /\ level2[p] = level[p] /\ p \in 1 .. Len(last)
      /\ \A c \in 1 .. Len(ns) : Parentless(ns, c) => Parentless(last, c)
  <2>1. /\ p \in 1 .. Len(ns) /\ Sound(ns, level, span) /\ Sound(last, level2, span2)
        /\ Len(ns) <= Len(last)
    BY DEF Along, Below
  <2>2. Len(ns) \in Nat /\ Len(last) \in Nat
    BY <2>1 DEF Sound
  <2>3. p \in 1 .. Len(last)
    BY <2>1, <2>2
  <2>4. QED
    BY <2>1, <2>2, <2>3 DEF Below
<1>2. Off(ns, level, W, p) \subseteq (1 .. Len(last)) \ {p}
  <2>1. level[p] \in Nat
    BY <1>1, SoundPage DEF Along
  <2>2. QED
    BY <1>1, <2>1 DEF Off
<1>3. ASSUME NEW s, NEW level3, NEW span3, After(last, level2, span2, p, node, s, level3, span3)
      PROVE  Below(ns, level, span, W, p, s, level3, span3)
  <2>1. /\ Sound(s, level3, span3) /\ Len(last) <= Len(s)
        /\ Keeps(last, level2, span2, s, level3, span3, (1 .. Len(last)) \ {p})
        /\ level3[p] = level2[p]
        /\ \A c \in 1 .. Len(last) :
              Parentless(last, c) /\ (\A i \in 1 .. Len(node.children) : node.children[i] # c) =>
                 Parentless(s, c)
    BY <1>3 DEF After
  <2>2. Len(s) \in Nat
    BY <2>1 DEF Sound
  <2>3. Len(ns) <= Len(s)
    BY <1>1, <2>1, <2>2
  <2>4. Keeps(ns, level, span, s, level3, span3, Off(ns, level, W, p))
    BY <1>1, <1>2, <2>1 DEF Keeps
  <2>5. ASSUME NEW c \in 1 .. Len(ns), Parentless(ns, c)
        PROVE  Parentless(s, c)
    <3>1. c \in 1 .. Len(last) /\ Parentless(last, c)
      BY <1>1, <2>5
    <3>2. QED
      BY <3>1, <2>1
  <2>6. QED
    BY <1>1, <2>1, <2>3, <2>4, <2>5 DEF Below
<1>4. ASSUME NEW s, OnTheWay(last, level2, span2, p, node, s)
      PROVE  Midway(ns, level, span, W, p, k, r, s)
  <2>1. \E level3, span3 : Below(ns, level, span, W, p, s, level3, span3)
    BY <1>3, <1>4 DEF OnTheWay
  <2>2. \A j \in Int : FindFrom(s, p, j) \subseteq FindFrom(last, p, j) \cup FindIn(last, node, j)
    BY <1>4 DEF OnTheWay
  <2>3. FindsPart(ns, p, k, r, s)
    BY <2>2 DEF FindsPart
  <2>4. QED
    BY <2>1, <2>3 DEF Midway
<1>5. ASSUME NEW s, Unsplit(last, level2, span2, p, node, s)
      PROVE  InsertedBelow(ns, level, span, W, p, k, r, s)
  <2>1. \E level3, span3 : Below(ns, level, span, W, p, s, level3, span3)
    BY <1>3, <1>5 DEF Unsplit
  <2>2. FindsAll(ns, p, k, r, s)
    BY <1>5 DEF FindsAll, Unsplit
  <2>3. EndsAll(ns, span, p, k, s)
    BY <1>1, <1>5, UnsplitEnds DEF Along
  <2>4. QED
    BY <2>1, <2>2, <2>3 DEF InsertedBelow
<1>6. ASSUME NEW s, NEW sep, NEW right, Halved(last, level2, span2, p, node, s, sep, right)
      PROVE  SplitBelow(ns, level, span, W, p, k, r, s, sep, right)
  <2>1. /\ sep \in Key /\ sep \in span[p] /\ \E y \in span[p] : y < sep
        /\ right \in 1 .. Len(s) /\ right \notin 1 .. Len(last) /\ Parentless(s, right)
    BY <1>6 DEF Halved
  <2>2. right \notin 1 .. Len(ns)
    BY <2>1, <1>1
  <2>3. PICK level3, span3 : /\ After(last, level2, span2, p, node, s, level3, span3)
                             /\ level3[right] = level2[p]
                             /\ span3[p] = Lower(span2[p], sep)
                             /\ span3[right] = Upper(span2[p], sep)
    BY <1>6 DEF Halved
  <2>4. Below(ns, level, span, W, p, s, level3, span3)
    BY <1>3, <2>3
  <2>5. /\ level3[right] = level[p]
        /\ span3[p] = Lower(span[p], sep) /\ span3[right] = Upper(span[p], sep)
    BY <2>3, <1>1
  <2>6. FindsInHalves(ns, p, k, r, s, sep, right)
    BY <1>6 DEF FindsInHalves, Halved
  <2>7. EndsInHalves(ns, span, p, k, s, sep, right)
    BY <1>1, <1>6, HalvedEnds DEF Along
  <2>8. QED
    BY <2>1, <2>2, <2>4, <2>5, <2>6, <2>7 DEF SplitBelow
<1>7. QED
  BY <1>4, <1>5, <1>6 DEF Written, Done

\* Inserting into a leaf.
LEMMA LeafDone ==
    ASSUME NEW ns, NEW level, NEW span, NEW k \in Key, NEW W, Along(ns, level, span, k, W),
           NEW p \in W, ns[p].leaf, FoundIn(ns[p], k) = {}, NEW r \in RowId
    PROVE  Done(ns, level, span, W, p, k, r, WriteOrSplit(ns, p, LeafWith(ns[p], k, r)))
<1> DEFINE node == LeafWith(ns[p], k, r)
<1>1. /\ p \in 1 .. Len(ns) /\ Sound(ns, level, span) /\ k \in span[p] /\ k \in Int
  BY TreeAssumption DEF Along
<1>2. /\ ToWrite(ns, level, span, p, node)
      /\ \A j \in Int : FindIn(ns, node, j) = FindFrom(ns, p, j) \cup New(k, r, j)
      /\ Ready(ns, span, p, k, ns, node)
  BY <1>1, LeafToWrite DEF Ready
<1>3. Len(node.children) = 0
  <2>1. node.children = <<>>
    BY DEF LeafWith, Leaf
  <2> HIDE DEF node
  <2>2. QED
    BY <2>1
<1> HIDE DEF node
<1>4. Written(ns, level, span, p, node, WriteOrSplit(ns, p, node))
  BY <1>1, <1>2, WritingOrSplitting
<1>5. Below(ns, level, span, W, p, ns, level, span)
  <2>1. Len(ns) \in Nat
    BY <1>1 DEF Sound
  <2>2. QED
    BY <1>1, <2>1 DEF Below, Keeps
<1>6. FindsPart(ns, p, k, r, ns)
  BY DEF FindsPart
<1>7. \A c \in 1 .. Len(ns) : Parentless(ns, c) =>
         \A i \in 1 .. Len(node.children) : node.children[i] # c
  BY <1>3
<1>8. Done(ns, level, span, W, p, k, r, WriteOrSplit(ns, p, node))
  BY <1>1, <1>2, <1>4, <1>5, <1>6, <1>7, WrittenDone
<1>9. QED
  BY <1>8 DEF node

\* What a child shows is also seen from its parent.
LEMMA MidwayUp ==
    ASSUME NEW ns, NEW level, NEW span, NEW k \in Int, NEW W, Along(ns, level, span, k, W),
           NEW p \in W, ~ ns[p].leaf, NEW s, NEW r
    PROVE  /\ Midway(ns, level, span, W, ChildFor(ns[p], k), k, r, s) =>
                 Midway(ns, level, span, W, p, k, r, s)
           /\ InsertedBelow(ns, level, span, W, ChildFor(ns[p], k), k, r, s) =>
                 InsertedBelow(ns, level, span, W, p, k, r, s)
<1> DEFINE q == ChildFor(ns[p], k)
<1>1. ASSUME Midway(ns, level, span, W, q, k, r, s)
      PROVE  Midway(ns, level, span, W, p, k, r, s)
  <2>1. PICK level2, span2 : Below(ns, level, span, W, q, s, level2, span2)
    BY <1>1 DEF Midway
  <2>2. FindsPart(ns, q, k, r, s)
    BY <1>1 DEF Midway
  <2>3. Below(ns, level, span, W, p, s, level2, span2) /\ FindsPart(ns, p, k, r, s)
    BY <2>1, <2>2, Up
  <2>4. QED
    BY <2>3 DEF Midway
<1>2. ASSUME InsertedBelow(ns, level, span, W, q, k, r, s)
      PROVE  InsertedBelow(ns, level, span, W, p, k, r, s)
  <2>1. PICK level2, span2 : Below(ns, level, span, W, q, s, level2, span2)
    BY <1>2 DEF InsertedBelow
  <2>2. FindsAll(ns, q, k, r, s)
    BY <1>2 DEF InsertedBelow
  <2>3. EndsAll(ns, span, q, k, s)
    BY <1>2 DEF InsertedBelow
  <2>4. /\ Below(ns, level, span, W, p, s, level2, span2) /\ FindsAll(ns, p, k, r, s)
        /\ EndsAll(ns, span, p, k, s)
    BY <2>1, <2>2, <2>3, Up
  <2>5. QED
    BY <2>4 DEF InsertedBelow
<1>3. QED
  BY <1>1, <1>2

\* A node whose child was split can be written to its page.
LEMMA SplitParent ==
    ASSUME NEW ns, NEW level, NEW span, NEW k \in Key, NEW W, Along(ns, level, span, k, W),
           NEW p \in W, ~ ns[p].leaf, NEW r, NEW last, NEW split,
           FindsPart(ns, ChildFor(ns[p], k), k, r, last),
           SplitBelow(ns, level, span, W, ChildFor(ns[p], k), k, r, last,
                      split.separator, split.right)
    PROVE  Done(ns, level, span, W, p, k, r,
                WriteOrSplit(last, p, ParentWith(ns[p], k, split)))
<1> DEFINE q == ChildFor(ns[p], k)
           sep == split.separator
           right == split.right
           node == ParentWith(ns[p], k, split)
<1>1. k \in Int
  BY TreeAssumption
<1>2. PICK level2, span2 : /\ Below(ns, level, span, W, q, last, level2, span2)
                           /\ level2[right] = level[q]
                           /\ span2[q] = Lower(span[q], sep) /\ span2[right] = Upper(span[q], sep)
  BY DEF SplitBelow
<1>3. /\ sep \in Key /\ sep \in span[q] /\ \E y \in span[q] : y < sep
      /\ right \in 1 .. Len(last) /\ right \notin 1 .. Len(ns) /\ Parentless(last, right)
      /\ FindsInHalves(ns, q, k, r, last, sep, right)
  BY DEF SplitBelow
<1>4. /\ p \in 1 .. Len(ns) /\ Sound(ns, level, span) /\ q \in 1 .. Len(ns)
  BY <1>1, StepDown
<1>20. Below(ns, level, span, W, ChildFor(ns[p], k), last, level2, span2)
  BY <1>2
<1>5. last[p] = ns[p] /\ level2[p] = level[p] /\ span2[p] = span[p]
  <2>1. p \in Off(ns, level, W, ChildFor(ns[p], k))
    BY <1>1, StepDown
  <2>2. QED
    BY <2>1, <1>20 DEF Below, Keeps
<1>6. Below(ns, level, span, W, p, last, level2, span2) /\ FindsPart(ns, p, k, r, last)
  BY <1>1, <1>2, Up
<1>7. Sound(last, level2, span2) /\ Len(ns) <= Len(last) /\ level2[q] = level[q]
  BY <1>2 DEF Below
<1>8. p \in 1 .. Len(last)
  BY <1>4, <1>7 DEF Sound
<1>9. span[q] \subseteq span[p]
  BY <1>1, <1>4, ChildBelow
<1>10. \A y \in span[q] : Between(ns[p].keys, UpperBound(ns[p].keys, k), y)
  <2>1. /\ UpperBound(ns[p].keys, k) \in 1 .. Len(ns[p].children)
        /\ q = ns[p].children[UpperBound(ns[p].keys, k)]
    BY <1>1, <1>4, SoundPage, ChildPlace
  <2>2. Fits(ns[p], level, span, level[p], span[p])
    BY <1>4, SoundPage
  <2>3. QED
    BY <2>1, <2>2 DEF Fits
<1>11. ChildSplit(last, level2, span2, p, k, q, span[q], sep, right)
  BY <1>2, <1>3, <1>5, <1>7, <1>9, <1>10 DEF ChildSplit
<1>12. /\ ToWrite(last, level2, span2, p, node)
       /\ ParentFinds(last, p, k, node, q, sep, right) /\ ~ node.leaf
       /\ \A c : Parentless(last, c) /\ c # right =>
             \A i \in 1 .. Len(node.children) : node.children[i] # c
  BY <1>5, <1>7, <1>8, <1>11, ParentToWrite
<1> HIDE DEF node
<1>13. Written(last, level2, span2, p, node, WriteOrSplit(last, p, node))
  BY <1>7, <1>8, <1>12, WritingOrSplitting
<1>14. \A c \in 1 .. Len(ns) : Parentless(last, c) =>
          \A i \in 1 .. Len(node.children) : node.children[i] # c
  BY <1>3, <1>12
<1>15. ASSUME NEW j \in Int
       PROVE  FindIn(last, node, j) = FindFrom(ns, p, j) \cup New(k, r, j)
  <2> DEFINE same == UpperBound(ns[p].keys, j) = UpperBound(ns[p].keys, k)
  <2>1. FindIn(last, node, j) =
          FindFrom(last, IF ~ same THEN ChildFor(ns[p], j)
                         ELSE IF j >= sep THEN right ELSE q, j)
    BY <1>5, <1>12 DEF ParentFinds, ParentChild
  <2>2. ~ same => j # k
    OBVIOUS
  <2>3. FindFrom(last, IF j >= sep THEN right ELSE q, j) = FindFrom(ns, q, j) \cup New(k, r, j)
    BY <1>3 DEF FindsInHalves
  <2>4. /\ FindFrom(ns, ChildFor(ns[p], j), j) = FindFrom(ns, p, j)
        /\ ~ same => FindFrom(last, ChildFor(ns[p], j), j) = FindFrom(ns, ChildFor(ns[p], j), j)
        /\ same => ChildFor(ns[p], j) = q
    <3>1. SiblingFinds(ns, p, k, last, j)
      BY <1>1, <1>20, Siblings
    <3>2. QED
      BY <3>1 DEF SiblingFinds
  <2> HIDE DEF same, q
  <2>5. CASE same
    BY <2>1, <2>3, <2>4, <2>5
  <2>6. CASE ~ same
    BY <2>1, <2>2, <2>4, <2>6 DEF New
  <2>7. QED
    BY <2>5, <2>6
<1>18. Ready(ns, span, p, k, last, node)
  <2>1. PICK at, new : /\ Linking(ns, span, last, EndOf(ns, q, k), at, new)
                       /\ \A j \in Int : EndOf(last, IF j >= sep THEN right ELSE q, j) =
                                           Moved(ns, q, k, j, at, new)
    BY DEF SplitBelow, EndsInHalves
  <2>2. EndOf(ns, q, k) = EndOf(ns, p, k)
    BY <1>1, MovedUp
  <2>3. ASSUME NEW j \in Int, NEW e
        PROVE  EndIn(last, node, e, j) = Moved(ns, p, k, j, at, new)
    <3> DEFINE same == UpperBound(ns[p].keys, j) = UpperBound(ns[p].keys, k)
    <3>1. EndIn(last, node, e, j) =
            EndOf(last, IF ~ same THEN ChildFor(ns[p], j)
                        ELSE IF j >= sep THEN right ELSE q, j)
      BY <1>5, <1>12 DEF ParentFinds, ParentChild
    <3>2. ~ same => EndOf(last, ChildFor(ns[p], j), j) = EndOf(ns, ChildFor(ns[p], j), j)
      <4>1. SiblingFinds(ns, p, k, last, j)
        BY <1>1, <1>20, Siblings
      <4>2. QED
        BY <4>1 DEF SiblingFinds
    <3>3. /\ same => Moved(ns, p, k, j, at, new) = Moved(ns, q, k, j, at, new)
          /\ ~ same => Moved(ns, p, k, j, at, new) = EndOf(ns, ChildFor(ns[p], j), j)
      BY <1>1, MovedUp
    <3> HIDE DEF same, q
    <3>4. QED
      BY <3>1, <3>2, <3>3, <2>1
  <2>4. QED
    BY <2>1, <2>2, <2>3, <1>12 DEF Ready
<1>16. Done(ns, level, span, W, p, k, r, WriteOrSplit(last, p, node))
  BY <1>1, <1>5, <1>6, <1>13, <1>14, <1>15, <1>18, WrittenDone
<1>17. QED
  BY <1>16 DEF node

\* Inserting below a child and then into its parent.
LEMMA ParentDone ==
    ASSUME NEW ns, NEW level, NEW span, NEW k \in Key, NEW W, Along(ns, level, span, k, W),
           NEW p \in W, ~ ns[p].leaf, NEW r, NEW below, below.split.happened,
           Done(ns, level, span, W, ChildFor(ns[p], k), k, r, below),
           NEW this, Done(ns, level, span, W, p, k, r, this)
    PROVE  Done(ns, level, span, W, p, k, r,
                [shown |-> below.shown \o this.shown, split |-> this.split])
<1> DEFINE A == below.shown
           B == this.shown
           S == A \o B
           R == [shown |-> S, split |-> this.split]
<1>1. k \in Int
  BY TreeAssumption
<1>2. A \in Seq(Seq(Node)) /\ Len(A) \in Nat \ {0} /\ B \in Seq(Seq(Node)) /\ Len(B) \in Nat \ {0}
  BY DEF Done
<1>3. \A i \in 1 .. Len(A) : Midway(ns, level, span, W, p, k, r, A[i])
  BY <1>1, MidwayUp DEF Done
<1>4. \A i \in 1 .. Len(B) : Midway(ns, level, span, W, p, k, r, B[i])
  BY DEF Done
<1> HIDE DEF A, B
<1>5. /\ S \in Seq(Seq(Node)) /\ Len(S) = Len(A) + Len(B)
      /\ \A i \in 1 .. Len(S) : S[i] = IF i <= Len(A) THEN A[i] ELSE B[i - Len(A)]
  BY <1>2, ConcatProperties
<1> HIDE DEF S
<1>6. ASSUME NEW i \in 1 .. Len(S)
      PROVE  Midway(ns, level, span, W, p, k, r, S[i])
  <2>1. CASE i <= Len(A)
    <3>1. i \in 1 .. Len(A) /\ S[i] = A[i]
      BY <2>1, <1>2, <1>5
    <3>2. QED
      BY <3>1, <1>3
  <2>2. CASE i > Len(A)
    <3>1. i - Len(A) \in 1 .. Len(B) /\ ~ (i <= Len(A))
      BY <2>2, <1>2, <1>5
    <3>2. QED
      BY <3>1, <1>4, <1>5
  <2>3. QED
    BY <2>1, <2>2, <1>2, <1>5
<1>7. Last(S) = Last(B) /\ Len(S) \in Nat \ {0}
  <2>1. /\ Len(S) \in 1 .. Len(S) /\ ~ (Len(S) <= Len(A)) /\ Len(S) - Len(A) = Len(B)
        /\ Len(S) \in Nat \ {0}
    BY <1>2, <1>5
  <2>2. S[Len(S)] = B[Len(B)]
    BY <2>1, <1>5
  <2>3. QED
    BY <2>1, <2>2 DEF Last
<1>8. R.shown = S /\ R.split = this.split
  OBVIOUS
<1> HIDE DEF R
<1>9. /\ ~ this.split.happened => InsertedBelow(ns, level, span, W, p, k, r, Last(B))
      /\ this.split.happened => SplitBelow(ns, level, span, W, p, k, r, Last(B),
                                           this.split.separator, this.split.right)
  BY DEF Done, B
<1>10. Done(ns, level, span, W, p, k, r, R)
  BY <1>5, <1>6, <1>7, <1>8, <1>9 DEF Done
<1>11. QED
  BY <1>10 DEF R, S, A, B
----------------------------------------------------------------------------
\* What inserting k makes of every page.
Insertions(k, r, f) ==
    f = [p \in DOMAIN nodes |->
           IF nodes[p].leaf THEN WriteOrSplit(nodes, p, LeafWith(nodes[p], k, r))
           ELSE Returned(p, k, f[ChildFor(nodes[p], k)])]

\* It exists as the searches do.
LEMMA InsertionsExist ==
    ASSUME NEW level, NEW span, Sound(nodes, level, span), NEW k \in Int, NEW r
    PROVE  \E f : Insertions(k, r, f)
<1> DEFINE P(n) == {q \in DOMAIN nodes : level[q] <= n}
           Def(f, q) == IF nodes[q].leaf THEN WriteOrSplit(nodes, q, LeafWith(nodes[q], k, r))
                        ELSE Returned(q, k, f[ChildFor(nodes[q], k)])
           S == {n \in Nat : \E f : f = [q \in P(n) |-> Def(f, q)]}
<1>1. DOMAIN nodes = 1 .. Len(nodes) /\ level \in [1 .. Len(nodes) -> Nat] /\ Len(nodes) \in Nat
  BY LenProperties DEF Sound
<1>2. 0 \in S
  <2> DEFINE f == [q \in P(0) |-> WriteOrSplit(nodes, q, LeafWith(nodes[q], k, r))]
  <2>1. \A q \in P(0) : nodes[q].leaf
    <3>1. ASSUME NEW q \in P(0)
          PROVE  nodes[q].leaf
      <4>1. q \in 1 .. Len(nodes) /\ level[q] <= 0 /\ level[q] \in Nat
        BY <1>1
      <4>2. Fits(nodes[q], level, span, level[q], span[q])
        BY <4>1, SoundPage
      <4>3. level[q] = 0
        BY <4>1
      <4>4. QED
        BY <4>2, <4>3 DEF Fits
    <3>2. QED
      BY <3>1
  <2>2. f = [q \in P(0) |-> Def(f, q)]
    BY <2>1
  <2> HIDE DEF f
  <2>3. QED
    BY <2>2
<1>3. ASSUME NEW n \in Nat, n \in S
      PROVE  n + 1 \in S
  <2>1. PICK f : f = [q \in P(n) |-> Def(f, q)]
    BY <1>3
  <2> DEFINE g == [q \in P(n + 1) |-> Def(f, q)]
  <2>2. ASSUME NEW q \in P(n + 1), ~ nodes[q].leaf
        PROVE  g[ChildFor(nodes[q], k)] = f[ChildFor(nodes[q], k)]
    <3> DEFINE c == ChildFor(nodes[q], k)
    <3>1. q \in 1 .. Len(nodes) /\ level[q] <= n + 1
      BY <1>1
    <3>2. c \in 1 .. Len(nodes) /\ level[c] \in Nat /\ level[c] + 1 = level[q]
      BY <3>1, <2>2, ChildBelow
    <3> HIDE DEF c
    <3>3. level[c] <= n /\ level[c] <= n + 1
      BY <3>1, <3>2
    <3>4. c \in P(n) /\ c \in P(n + 1)
      BY <3>2, <3>3, <1>1
    <3> HIDE DEF Def, P
    <3>5. g[c] = Def(f, c) /\ f[c] = Def(f, c)
      BY <3>4, <2>1
    <3>6. QED
      BY <3>5 DEF c
  <2>3. \A q \in P(n + 1) : Def(f, q) = Def(g, q)
    <3> HIDE DEF g, P
    <3>1. QED
      BY <2>2
  <2>4. g = [q \in P(n + 1) |-> Def(g, q)]
    <3>1. g = [q \in P(n + 1) |-> Def(f, q)]
      OBVIOUS
    <3> HIDE DEF g, P, Def
    <3>2. QED
      BY <3>1, <2>3
  <2> HIDE DEF g, P, Def
  <2>5. QED
    BY <2>4
<1>4. Nat \subseteq S
  <2> HIDE DEF S
  <2>1. QED
    BY <1>2, <1>3, Induction
<1>5. PICK h \in Nat : \A p \in 1 .. Len(nodes) : level[p] <= h
  BY <1>1, Bounded
<1>6. P(h) = DOMAIN nodes
  BY <1>1, <1>5
<1>7. \E f : f = [q \in P(h) |-> Def(f, q)]
  <2> HIDE DEF P, Def
  <2>1. QED
    BY <1>4
<1>8. QED
  <2> HIDE DEF P
  <2>1. QED
    BY <1>6, <1>7 DEF Insertions

\* So insert_recursive does what its definition says of the root.
LEMMA InsertionIsOne ==
    ASSUME NEW level, NEW span, Sound(nodes, level, span), NEW k \in Int, NEW r
    PROVE  \E f : Insertions(k, r, f) /\ InsertRecursive(k, r) = f[root]
<1> DEFINE f == CHOOSE f : Insertions(k, r, f)
<1>1. Insertions(k, r, f)
  BY InsertionsExist
<1>2. InsertRecursive(k, r) = f[root]
  BY DEF InsertRecursive, Insertions
<1> HIDE DEF f
<1>3. QED
  BY <1>1, <1>2

\* Inserting a key that is not there does below every page of its route what
\* Done says.
LEMMA RouteDone ==
    ASSUME NEW level, NEW span, NEW k \in Key, NEW W, Along(nodes, level, span, k, W),
           NEW r \in RowId, NEW f, Insertions(k, r, f),
           \A p \in W : FindFrom(nodes, p, k) = {}
    PROVE  \A p \in W : Done(nodes, level, span, W, p, k, r, f[p])
<1> DEFINE G == {p \in 1 .. Len(nodes) : p \in W => Done(nodes, level, span, W, p, k, r, f[p])}
<1>1. Sound(nodes, level, span) /\ W \subseteq 1 .. Len(nodes) /\ k \in Int
  BY TreeAssumption DEF Along
<1>2. ASSUME NEW p \in 1 .. Len(nodes)
      PROVE  f[p] = IF nodes[p].leaf THEN WriteOrSplit(nodes, p, LeafWith(nodes[p], k, r))
                    ELSE Returned(p, k, f[ChildFor(nodes[p], k)])
  <2>1. p \in DOMAIN nodes
    BY <1>1, SoundPage
  <2>2. QED
    BY <2>1 DEF Insertions
<1>3. ASSUME NEW p \in 1 .. Len(nodes), nodes[p].leaf
      PROVE  p \in G
  <2>1. ASSUME p \in W
        PROVE  Done(nodes, level, span, W, p, k, r, f[p])
    <3>1. FoundIn(nodes[p], k) = {}
      BY <1>1, <1>3, <2>1, FindStep
    <3>2. QED
      BY <1>2, <1>3, <2>1, <3>1, LeafDone
  <2>2. QED
    BY <2>1
<1>4. ASSUME NEW p \in 1 .. Len(nodes), ~ nodes[p].leaf, ChildFor(nodes[p], k) \in G
      PROVE  p \in G
  <2> DEFINE q == ChildFor(nodes[p], k)
             below == f[q]
             this == WriteOrSplit(Last(below.shown), p, ParentWith(nodes[p], k, below.split))
  <2>1. ASSUME p \in W
        PROVE  Done(nodes, level, span, W, p, k, r, f[p])
    <3>1. Done(nodes, level, span, W, ChildFor(nodes[p], k), k, r, below)
      BY <1>1, <1>4, <2>1, StepDown
    <3>2. f[p] = Returned(p, k, below)
      BY <1>2, <1>4
    <3> HIDE DEF below
    <3>3. CASE ~ below.split.happened
      <4>1. f[p] = below
        BY <3>2, <3>3 DEF Returned
      <4>2. QED
        BY <4>1, <3>1, <3>3, <1>1, <1>4, <2>1, MidwayUp DEF Done
    <3>4. CASE below.split.happened
      <4>1. f[p] = [shown |-> below.shown \o this.shown, split |-> this.split]
        BY <3>2, <3>4 DEF Returned
      <4>2. SplitBelow(nodes, level, span, W, ChildFor(nodes[p], k), k, r, Last(below.shown),
                       below.split.separator, below.split.right)
        BY <3>1, <3>4 DEF Done
      <4>3. FindsPart(nodes, ChildFor(nodes[p], k), k, r, Last(below.shown))
        <5>1. below.shown \in Seq(Seq(Node)) /\ Len(below.shown) \in 1 .. Len(below.shown)
          BY <3>1 DEF Done
        <5>2. Midway(nodes, level, span, W, ChildFor(nodes[p], k), k, r,
                     below.shown[Len(below.shown)])
          BY <5>1, <3>1 DEF Done
        <5>3. QED
          BY <5>2 DEF Midway, Last
      <4>4. Done(nodes, level, span, W, p, k, r, this)
        BY <4>2, <4>3, <1>4, <2>1, SplitParent
      <4> HIDE DEF this
      <4>5. Done(nodes, level, span, W, p, k, r,
                 [shown |-> below.shown \o this.shown, split |-> this.split])
        BY <4>4, <3>1, <3>4, <1>4, <2>1, ParentDone
      <4>6. QED
        BY <4>1, <4>5
    <3>5. QED
      BY <3>3, <3>4
  <2>2. QED
    BY <2>1
<1>5. \A p \in 1 .. Len(nodes) : p \in G
  <2> HIDE DEF G
  <2>1. QED
    BY <1>1, <1>3, <1>4, AlongSearch
<1>6. QED
  BY <1>1, <1>5
----------------------------------------------------------------------------
\* One page more, without parent; the pages that were there are the same and
\* find the same in the same leaves.
SameAnswers(ns, s) ==
    \A c \in 1 .. Len(ns) : /\ s[c] = ns[c]
                            /\ \A j \in Int : /\ FindFrom(s, c, j) = FindFrom(ns, c, j)
                                              /\ EndOf(s, c, j) = EndOf(ns, c, j)

Grown(ns, s) ==
    /\ \E level, span : Sound(s, level, span)
    /\ Len(s) = Len(ns) + 1 /\ Parentless(s, Len(ns) + 1)
    /\ \A c \in 1 .. Len(ns) : Parentless(ns, c) => Parentless(s, c)
    /\ SameAnswers(ns, s)

\* When every page stays as it was, every page finds what it found.
LEMMA AllFind ==
    ASSUME NEW ns, NEW level, NEW span, Sound(ns, level, span),
           NEW ns2, NEW level2, NEW span2, Sound(ns2, level2, span2),
           Len(ns) <= Len(ns2), \A p \in 1 .. Len(ns) : ns2[p] = ns[p]
    PROVE  SameAnswers(ns, ns2)
<1> DEFINE U == 1 .. Len(ns)
<1>1. Closed(ns, U)
  BY SoundPage DEF Closed, Shape
<1>2. Unchanged(ns, ns2, U)
  <2>1. Len(ns) \in Nat /\ Len(ns2) \in Nat
    BY DEF Sound
  <2>2. QED
    BY <2>1 DEF Unchanged
<1>3. ASSUME NEW j \in Int
      PROVE  SameFinds(ns, ns2, U, j)
  <2> HIDE DEF U
  <2>1. QED
    BY <1>1, <1>2, Untouched
<1>4. QED
  BY <1>3 DEF SameFinds, SameAnswers

\* Allocating a page adds one.
LEMMA AllocatedGrows ==
    ASSUME NEW ns, NEW level, NEW span, Sound(ns, level, span)
    PROVE  Grown(ns, Append(ns, Unwritten)) /\ Append(ns, Unwritten)[Len(ns) + 1] = Unwritten
<1> DEFINE s == Append(ns, Unwritten)
           n == Len(ns) + 1
<1>1. PICK l1, x1 :
         /\ Sound(s, l1, x1)
         /\ Keeps(ns, level, span, s, l1, x1, 1 .. Len(ns))
         /\ Len(s) = n /\ s[n] = Unwritten
         /\ Parentless(s, n)
         /\ \A c : Parentless(ns, c) => Parentless(s, c)
  BY Allocating
<1> HIDE DEF s
<1>2. Len(ns) \in Nat /\ Len(ns) <= Len(s)
  BY <1>1 DEF Sound
<1>3. \A p \in 1 .. Len(ns) : s[p] = ns[p]
  BY <1>1 DEF Keeps
<1>4. SameAnswers(ns, s)
  BY <1>1, <1>2, <1>3, AllFind
<1>5. Grown(ns, s)
  BY <1>1, <1>4 DEF Grown
<1>6. QED
  BY <1>1, <1>5 DEF s

\* So does writing to it a node whose children had no parent.
NewParent(ns, node) ==
    /\ \A i, m \in 1 .. Len(node.children) : node.children[i] = node.children[m] => i = m
    /\ \A i \in 1 .. Len(node.children) : Parentless(ns, node.children[i])

Wrote(ns, node, s) ==
    /\ \E level, span : Sound(s, level, span)
    /\ Len(s) = Len(ns) + 1 /\ Parentless(s, Len(ns) + 1) /\ s[Len(ns) + 1] = node
    /\ SameAnswers(ns, s)

\* A page allocated for a node that fits, and then written, keeps the file sound.
LEMMA AllocatedWritten ==
    ASSUME NEW ns, NEW level, NEW span, Sound(ns, level, span),
           NEW node, NEW l \in Nat, NEW x \in SUBSET Int,
           Shape(node, Len(ns)), Len(node.keys) <= MaxKeys, Fits(node, level, span, l, x),
           NewParent(ns, node),
           NEW s, s = [Append(ns, Unwritten) EXCEPT ![Len(ns) + 1] = node]
    PROVE  Wrote(ns, node, s)
<1> DEFINE s1 == Append(ns, Unwritten)
           n == Len(ns) + 1
<1>1. PICK l1, x1 :
         /\ Sound(s1, l1, x1)
         /\ Keeps(ns, level, span, s1, l1, x1, 1 .. Len(ns))
         /\ Len(s1) = n /\ s1[n] = Unwritten
         /\ Parentless(s1, n)
         /\ \A c : Parentless(ns, c) => Parentless(s1, c)
  BY Allocating
<1> HIDE DEF s1
<1>2. /\ Len(ns) \in Nat /\ n \in Nat /\ n \in 1 .. Len(s1) /\ n \notin 1 .. Len(ns)
      /\ Len(ns) <= n
  BY <1>1 DEF Sound
<1> DEFINE w == [s1 EXCEPT ![n] = node]
           l2 == [l1 EXCEPT ![n] = l]
           x2 == [x1 EXCEPT ![n] = x]
<1>3. s = w
  BY DEF s1
<1>4. \A i \in 1 .. Len(node.children) : node.children[i] \in 1 .. Len(ns)
  BY DEF Shape
<1>5. Shape(node, Len(s1))
  BY <1>1, <1>2, ShapeGrows
<1>6. Fits(node, l1, x1, l, x)
  BY <1>1, <1>4, FitsSame DEF Keeps
<1>7. Own(s1, n, node)
  <2>1. \A i \in 1 .. Len(node.children) : node.children[i] # n
    BY <1>2, <1>4
  <2>2. \A i \in 1 .. Len(node.children) : Parentless(s1, node.children[i])
    BY <1>1 DEF NewParent
  <2>3. QED
    BY <2>1, <2>2 DEF Own, Parentless, NewParent
<1> HIDE DEF n
<1>8. Sound(w, l2, x2)
  BY <1>1, <1>2, <1>5, <1>6, <1>7, Writing
<1>9. Parentless(w, n)
  <2>1. \A i \in 1 .. Len(node.children) : node.children[i] # n
    BY <1>2, <1>4
  <2>2. QED
    BY <2>1, <1>1, <1>2, WritingParents
<1>10. s1 \in Seq(Node)
  BY <1>1 DEF Sound
<1>11. Len(w) = n /\ w[n] = node /\ \A p \in 1 .. Len(ns) : w[p] = s1[p]
  <2>1. DOMAIN s1 = 1 .. n
    BY <1>1, <1>10, LenProperties
  <2>2. DOMAIN w = 1 .. n
    BY <2>1
  <2>3. w \in Seq(Node)
    BY <1>8 DEF Sound
  <2>4. Len(w) \in Nat /\ DOMAIN w = 1 .. Len(w)
    BY <2>3, LenProperties
  <2>5. Len(w) = n
    BY <2>2, <2>4, <1>2
  <2>6. QED
    BY <2>1, <2>5, <1>1, <1>2
<1>12. \A p \in 1 .. Len(ns) : w[p] = ns[p]
  BY <1>1, <1>11 DEF Keeps
<1> HIDE DEF w, l2, x2
<1>13. SameAnswers(ns, w)
  BY <1>2, <1>8, <1>11, <1>12, AllFind
<1>14. QED
  BY <1>3, <1>8, <1>9, <1>11, <1>13 DEF n, Wrote

\* Every page of a route finds what the first finds of the key.
LEMMA RouteFinds ==
    ASSUME NEW ns, NEW level, NEW span, Sound(ns, level, span), NEW k \in Int,
           NEW p \in 1 .. Len(ns), NEW W, Route(ns, level, p, k, W)
    PROVE  \A q \in W : FindFrom(ns, q, k) = FindFrom(ns, p, k)
<1> DEFINE S == {n \in Nat : \A q \in W : level[q] + n = level[p] =>
                                FindFrom(ns, q, k) = FindFrom(ns, p, k)}
<1>1. /\ W \subseteq 1 .. Len(ns) /\ p \in W
      /\ \A q \in W : level[q] <= level[p] /\ level[q] \in Nat
      /\ \A q, s \in W : level[q] = level[s] => q = s
      /\ \A q \in W : q # p => \E s \in W : ~ ns[s].leaf /\ q = ChildFor(ns[s], k)
      /\ level[p] \in Nat
  BY SoundPage DEF Route
<1>2. 0 \in S
  BY <1>1
<1>3. ASSUME NEW n \in Nat, n \in S
      PROVE  n + 1 \in S
  <2>1. ASSUME NEW q \in W, level[q] + (n + 1) = level[p]
        PROVE  FindFrom(ns, q, k) = FindFrom(ns, p, k)
    <3>1. q # p
      BY <2>1, <1>1
    <3>2. PICK s \in W : ~ ns[s].leaf /\ q = ChildFor(ns[s], k)
      BY <3>1, <1>1
    <3>3. s \in 1 .. Len(ns)
      BY <1>1
    <3>4. level[q] + 1 = level[s]
      <4>1. level[ChildFor(ns[s], k)] + 1 = level[s]
        BY SMTT(30), <3>2, <3>3, ChildBelow
      <4>2. QED
        BY <4>1, <3>2
    <3>5. level[s] + n = level[p]
      <4>1. level[q] \in Nat /\ level[s] \in Nat /\ level[p] \in Nat
        BY <1>1
      <4>2. \A a, b, c \in Nat : a + 1 = b /\ a + (n + 1) = c => b + n = c
        OBVIOUS
      <4>3. QED
        BY <4>1, <4>2, <3>4, <2>1
    <3>6. FindFrom(ns, s, k) = FindFrom(ns, p, k)
      BY <3>5, <1>3
    <3>7. FindFrom(ns, s, k) = FindFrom(ns, q, k)
      <4>1. FindFrom(ns, s, k) = FindFrom(ns, ChildFor(ns[s], k), k)
        BY <3>2, <3>3, FindStep
      <4>2. QED
        BY <4>1, <3>2
    <3>8. QED
      BY <3>6, <3>7
  <2>2. QED
    BY <2>1
<1>4. Nat \subseteq S
  <2> HIDE DEF S
  <2>1. QED
    BY <1>2, <1>3, Induction
<1>5. ASSUME NEW q \in W
      PROVE  FindFrom(ns, q, k) = FindFrom(ns, p, k)
  <2>1. level[p] - level[q] \in Nat /\ level[q] + (level[p] - level[q]) = level[p]
    BY <1>1
  <2>2. QED
    BY <2>1, <1>4
<1>6. QED
  BY <1>5
----------------------------------------------------------------------------
\* The leaves as the tree and as the chain order them: where the search for j
\* ends, the chain goes on with the leaf where the search for a larger key ends,
\* and the searches for the keys from j up to that one end in the same leaf; or
\* the chain ends, and so do there the searches for all larger keys.
Linked(ns, rt) ==
    \A j \in Int :
       LET e == EndOf(ns, rt, j)
       IN  \/ ns[e].next = NoPage /\ \A i \in Int : i >= j => EndOf(ns, rt, i) = e
           \/ \E f \in Key : /\ f > j /\ ns[e].next = EndOf(ns, rt, f)
                             /\ \A i \in Int : i >= j => (EndOf(ns, rt, i) = e <=> i < f)

\* The searches for the keys in the span of a leaf where a search ends end there.
LEMMA SpanEnds ==
    ASSUME NEW ns, NEW level, NEW span, Sound(ns, level, span), NEW j \in Int
    PROVE  \A p \in 1 .. Len(ns) :
              /\ span[EndOf(ns, p, j)] \subseteq span[p]
              /\ \A y \in span[EndOf(ns, p, j)] : EndOf(ns, p, y) = EndOf(ns, p, j)
<1> DEFINE G == {p \in 1 .. Len(ns) :
                    /\ span[EndOf(ns, p, j)] \subseteq span[p]
                    /\ \A y \in span[EndOf(ns, p, j)] : EndOf(ns, p, y) = EndOf(ns, p, j)}
<1>1. \A p \in 1 .. Len(ns) : span[p] \subseteq Int
  BY SoundPage
<1>2. ASSUME NEW p \in 1 .. Len(ns), ns[p].leaf
      PROVE  p \in G
  <2>1. EndOf(ns, p, j) = p
    BY <1>2, EndStep
  <2>2. \A y \in span[p] : EndOf(ns, p, y) = p
    BY <1>1, <1>2, EndStep
  <2>3. QED
    BY <2>1, <2>2
<1>3. ASSUME NEW p \in 1 .. Len(ns), ~ ns[p].leaf, ChildFor(ns[p], j) \in G
      PROVE  p \in G
  <2> DEFINE c == ChildFor(ns[p], j)
             e == EndOf(ns, p, j)
             u == UpperBound(ns[p].keys, j)
  <2>1. e = EndOf(ns, c, j) /\ c \in 1 .. Len(ns)
    BY <1>3, EndStep
  <2>2. Shape(ns[p], Len(ns)) /\ Len(ns) \in Nat /\ Fits(ns[p], level, span, level[p], span[p])
    BY SoundPage
  <2>3. u \in 1 .. Len(ns[p].children) /\ c = ns[p].children[u]
    BY <1>3, <2>2, ChildPlace
  <2>4. span[c] \subseteq span[p] /\ \A y \in span[c] : Between(ns[p].keys, u, y)
    BY <2>2, <2>3 DEF Fits
  <2>5. /\ span[EndOf(ns, c, j)] \subseteq span[c]
        /\ \A y \in span[EndOf(ns, c, j)] : EndOf(ns, c, y) = EndOf(ns, c, j)
    BY <1>3
  <2> HIDE DEF c, u
  <2>6. ASSUME NEW y \in span[e]
        PROVE  EndOf(ns, p, y) = e
    <3>1. y \in span[c] /\ y \in Int /\ EndOf(ns, c, y) = e
      BY <2>1, <2>5, <1>1
    <3>2. u = UpperBound(ns[p].keys, y)
      BY <3>1, <1>3, <2>2, <2>3, <2>4, ChildBetween
    <3>3. ChildFor(ns[p], y) = c
      BY <3>2, <2>3 DEF ChildFor
    <3>4. QED
      BY <3>1, <3>3, <1>3, EndStep
  <2>7. span[e] \subseteq span[p]
    BY <2>1, <2>4, <2>5
  <2>8. QED
    BY <2>6, <2>7
<1>4. \A p \in 1 .. Len(ns) : p \in G
  <2> HIDE DEF G
  <2>1. QED
    BY <1>2, <1>3, AlongSearch
<1>5. QED
  BY <1>4

\* The two ways agree after every search and every link is as it was,
LEMMA LinkedSame ==
    ASSUME NEW ns, NEW level, NEW span, Sound(ns, level, span), NEW rt \in 1 .. Len(ns),
           Linked(ns, rt), NEW s,
           \A e \in 1 .. Len(ns) : s[e].next = ns[e].next,
           \A j \in Int : EndOf(s, rt, j) = EndOf(ns, rt, j)
    PROVE  Linked(s, rt)
<1>1. \A j \in Int : EndOf(ns, rt, j) \in 1 .. Len(ns)
  BY EndInside
<1>2. Key \subseteq Int
  BY TreeAssumption
<1>3. SUFFICES ASSUME NEW j \in Int
               PROVE  LET e == EndOf(s, rt, j)
                      IN  \/ s[e].next = NoPage /\ \A i \in Int : i >= j => EndOf(s, rt, i) = e
                          \/ \E f \in Key :
                                /\ f > j /\ s[e].next = EndOf(s, rt, f)
                                /\ \A i \in Int : i >= j => (EndOf(s, rt, i) = e <=> i < f)
  BY DEF Linked
<1> DEFINE e == EndOf(ns, rt, j)
<1>4. EndOf(s, rt, j) = e /\ s[e].next = ns[e].next
  BY <1>1
<1>5. CASE ns[e].next = NoPage /\ \A i \in Int : i >= j => EndOf(ns, rt, i) = e
  BY <1>4, <1>5
<1>6. CASE \E f \in Key : /\ f > j /\ ns[e].next = EndOf(ns, rt, f)
                          /\ \A i \in Int : i >= j => (EndOf(ns, rt, i) = e <=> i < f)
  <2>1. PICK f \in Key : /\ f > j /\ ns[e].next = EndOf(ns, rt, f)
                         /\ \A i \in Int : i >= j => (EndOf(ns, rt, i) = e <=> i < f)
    BY <1>6
  <2>2. s[e].next = EndOf(s, rt, f)
    BY <2>1, <1>2, <1>4
  <2>3. \A i \in Int : i >= j => (EndOf(s, rt, i) = e <=> i < f)
    BY <2>1
  <2> HIDE DEF e
  <2>4. QED
    BY <2>1, <2>2, <2>3, <1>4
<1>7. QED
  BY <1>5, <1>6 DEF Linked

\* and after some keys of one leaf have moved to a page linked in behind it.
LEMMA StillLinked ==
    ASSUME NEW ns, NEW level, NEW span, Sound(ns, level, span), NEW rt \in 1 .. Len(ns),
           Linked(ns, rt), NEW k \in Int, NEW s, NEW at, NEW new,
           Linking(ns, span, s, EndOf(ns, rt, k), at, new),
           NEW st, \A j \in Int : EndOf(s, st, j) = Moved(ns, rt, k, j, at, new)
    PROVE  Linked(s, st)
<1> DEFINE t == EndOf(ns, rt, k)
           E(j) == EndOf(ns, rt, j)
           F(j) == EndOf(s, st, j)
           tail(j) == ns[E(j)].next = NoPage /\ \A i \in Int : i >= j => E(i) = E(j)
           step(j, f) == /\ f > j /\ ns[E(j)].next = E(f)
                         /\ \A i \in Int : i >= j => (E(i) = E(j) <=> i < f)
           tail2(j) == s[F(j)].next = NoPage /\ \A i \in Int : i >= j => F(i) = F(j)
           step2(j, f) == /\ f > j /\ s[F(j)].next = F(f)
                          /\ \A i \in Int : i >= j => (F(i) = F(j) <=> i < f)
<1>1. /\ \A j \in Int : E(j) \in 1 .. Len(ns) /\ ns[E(j)].leaf
      /\ t \in 1 .. Len(ns) /\ ns[t].leaf /\ Key \subseteq Int
  BY EndInside, TreeAssumption
<1>2. \A j \in Int : tail(j) \/ \E f \in Key : step(j, f)
  BY DEF Linked
<1>3. \A j \in Int : F(j) = IF E(j) = t /\ j >= at THEN new ELSE E(j)
  BY DEF Moved
<1>4. \A j \in Int : E(j) # t => s[E(j)].next = ns[E(j)].next
  BY <1>1 DEF Linking
<1>5. SUFFICES \A j \in Int : tail2(j) \/ \E f \in Key : step2(j, f)
  BY DEF Linked
<1>6. CASE new = t /\ s[t].next = ns[t].next
  <2>1. \A j \in Int : F(j) = E(j) /\ s[F(j)].next = ns[E(j)].next
    BY <1>3, <1>4, <1>6
  <2> HIDE DEF E, F, t
  <2>2. \A j \in Int : tail(j) => tail2(j)
    BY <2>1
  <2>3. \A j \in Int : \A f \in Key : step(j, f) => step2(j, f)
    BY <2>1, <1>1
  <2> HIDE DEF tail, tail2, step, step2
  <2>4. QED
    BY <2>2, <2>3, <1>2
<1>7. CASE /\ new \in 1 .. Len(s) /\ new \notin 1 .. Len(ns)
           /\ s[t].next = new /\ s[new].next = ns[t].next
           /\ at \in Key /\ at \in span[t] /\ \E y \in span[t] : y < at
  <2>1. PICK y \in span[t] : y < at
    BY <1>7
  <2>2. /\ at \in Int /\ y \in Int /\ E(at) = t /\ E(y) = t
    <3>1. span[t] \subseteq Int
      BY <1>1, SoundPage
    <3>2. \A z \in span[t] : E(z) = t
      BY SpanEnds
    <3>3. QED
      BY <3>1, <3>2, <2>1, <1>7
  <2>3. \A j \in Int : E(j) # new
    BY <1>1, <1>7
  <2> HIDE DEF E, F, t
  \* The searches that end in a leaf are those for the keys of an interval.
  <2>4. ASSUME NEW a \in Int, NEW b \in Int, NEW c \in Int, a <= b, b <= c, E(a) = E(c)
        PROVE  E(b) = E(a)
    <3>1. CASE tail(a)
      BY <2>4, <3>1
    <3>2. CASE \E f \in Key : step(a, f)
      <4>1. PICK f \in Key : step(a, f)
        BY <3>2
      <4>2. c < f /\ f \in Int
        BY <4>1, <2>4, <1>1
      <4>3. QED
        BY <4>1, <4>2, <2>4
    <3>3. QED
      BY <3>1, <3>2, <1>2
  <2>5. ASSUME NEW j \in Int, E(j) # t
        PROVE  tail2(j) \/ \E f \in Key : step2(j, f)
    <3>1. F(j) = E(j) /\ s[E(j)].next = ns[E(j)].next
      BY <2>5, <1>3, <1>4
    <3>2. \A i \in Int : F(i) = E(j) <=> E(i) = E(j)
      BY <2>3, <2>5, <1>3
    <3>3. CASE tail(j)
      <4>1. tail2(j)
        BY <3>1, <3>2, <3>3
      <4>2. QED
        BY <4>1
    <3>4. CASE \E f \in Key : step(j, f)
      <4>1. PICK f \in Key : step(j, f)
        BY <3>4
      <4>2. f \in Int /\ f > j /\ E(f) # E(j)
        <5>1. f \in Int
          BY <1>1
        <5>2. f >= j /\ ~ (f < f)
          BY <5>1, <4>1
        <5>3. QED
          BY <5>1, <5>2, <4>1
      <4>3. ASSUME E(f) = t
            PROVE  ~ (f >= at)
        <5>1. CASE y < j
          <6>1. E(j) = t
            BY <5>1, <4>2, <4>3, <2>2, <2>4
          <6>2. QED
            BY <6>1, <2>5
        <5>2. CASE ~ (y < j)
          <6>1. ~ (y < f)
            BY <5>2, <4>1, <2>2, <2>5
          <6>2. QED
            BY <6>1, <2>1, <2>2, <4>2
        <5>3. QED
          BY <5>1, <5>2
      <4>4. F(f) = E(f)
        BY <4>2, <4>3, <1>3
      <4>5. step2(j, f)
        BY <4>1, <4>4, <3>1, <3>2
      <4> HIDE DEF step2
      <4>6. QED
        BY <4>5
    <3>5. QED
      BY <3>3, <3>4, <1>2
  <2>6. ASSUME NEW j \in Int, E(j) = t, j < at
        PROVE  step2(j, at)
    <3>1. F(j) = t /\ F(at) = new
      BY <2>2, <2>6, <1>3
    <3>2. ASSUME NEW i \in Int, i >= j
          PROVE  F(i) = t <=> i < at
      <4>1. CASE i < at
        <5>1. E(i) = t
          BY <4>1, <3>2, <2>2, <2>4, <2>6
        <5>2. QED
          BY <5>1, <4>1, <2>2, <1>3
      <4>2. CASE ~ (i < at)
        <5>1. F(i) = IF E(i) = t THEN new ELSE E(i)
          BY <4>2, <2>2, <1>3
        <5>2. t # new
          BY <2>2, <2>3
        <5>3. QED
          BY <5>1, <5>2, <4>2
      <4>3. QED
        BY <4>1, <4>2
    <3>3. QED
      BY <3>1, <3>2, <2>6, <1>7
  <2>7. ASSUME NEW j \in Int, E(j) = t, j >= at
        PROVE  tail2(j) \/ \E f \in Key : step2(j, f)
    <3>1. F(j) = new /\ s[new].next = ns[t].next
      BY <2>7, <1>3, <1>7
    <3>2. \A i \in Int : i >= j => (F(i) = new <=> E(i) = t)
      BY <2>2, <2>3, <2>7, <1>3
    <3>3. CASE tail(j)
      <4>1. tail2(j)
        BY <3>1, <3>2, <3>3, <2>7
      <4>2. QED
        BY <4>1
    <3>4. CASE \E f \in Key : step(j, f)
      <4>1. PICK f \in Key : step(j, f)
        BY <3>4
      <4>2. f \in Int /\ f > j /\ E(f) # t
        BY <4>1, <1>1, <2>7
      <4>3. F(f) = E(f)
        BY <4>2, <1>3
      <4>4. step2(j, f)
        BY <4>1, <4>3, <3>1, <3>2, <2>7
      <4> HIDE DEF step2
      <4>5. QED
        BY <4>4
    <3>5. QED
      BY <3>3, <3>4, <1>2
  <2>8. \A j \in Int : E(j) = t => j < at \/ j >= at
    BY <2>2
  <2> HIDE DEF tail, step, tail2, step2
  <2>9. QED
    BY <2>5, <2>6, <2>7, <2>8, <1>7
<1>8. QED
  BY <1>6, <1>7 DEF Linking

\* The file and the root of a tree in it.
State(ns, rt) ==
    /\ \E level, span : Sound(ns, level, span)
    /\ rt \in 1 .. Len(ns) \cup {NoPage}
    /\ rt # NoPage => Parentless(ns, rt)

FindAt(ns, rt, j) == IF rt = NoPage THEN {} ELSE FindFrom(ns, rt, j)

\* A state a plan may stop in,
PartOK(ns, rt, k, r, s, t) ==
    /\ State(s, t)
    /\ \A j \in Int : FindAt(s, t, j) \subseteq FindAt(ns, rt, j) \cup New(k, r, j)

\* and the one it ends in.
EndOK(ns, rt, k, r, s, t) ==
    /\ State(s, t)
    /\ \A j \in Int : FindAt(s, t, j) = FindAt(ns, rt, j) \cup New(k, r, j)
    /\ rt = NoPage \/ Linked(ns, rt) => Linked(s, t)

PlanOK(ns, rt, k, r, plan) ==
    /\ Len(plan.shown) \in Nat \ {0}
    /\ \A i \in 1 .. Len(plan.shown) - 1 :
          IF rt = NoPage THEN /\ PartOK(ns, rt, k, r, plan.shown[i], NoPage)
                              /\ PartOK(ns, rt, k, r, plan.shown[i], plan.root)
          ELSE PartOK(ns, rt, k, r, plan.shown[i], rt)
    /\ EndOK(ns, rt, k, r, Last(plan.shown), plan.root)

\* The two pages that Allocated shows.
LEMMA AllocatedShows ==
    ASSUME NEW ns, NEW node
    PROVE  /\ Len(Allocated(ns, node)) = 2
           /\ Allocated(ns, node)[1] = Append(ns, Unwritten)
           /\ ns \in Seq(Node) =>
                 Allocated(ns, node)[2] = [Append(ns, Unwritten) EXCEPT ![Len(ns) + 1] = node]
<1> DEFINE new == Append(ns, Unwritten)
           w == [new EXCEPT ![Len(new)] = node]
<1>1. Allocated(ns, node) = <<new, w>>
  BY DEF Allocated
<1>2. ns \in Seq(Node) => Len(new) = Len(ns) + 1
  <2>1. Unwritten \in Node
    BY UnwrittenFits
  <2> HIDE DEF Node
  <2>2. QED
    BY <2>1, AppendProperties
<1> HIDE DEF new
<1>3. ns \in Seq(Node) => w = [new EXCEPT ![Len(ns) + 1] = node]
  BY <1>2
<1> HIDE DEF w
<1>4. QED
  BY <1>1, <1>3 DEF new

\* A leaf with one key.
OneKey(leaf, n, level, span, k, r) ==
    /\ Shape(leaf, n) /\ Len(leaf.keys) = 1 /\ Len(leaf.children) = 0 /\ leaf.leaf
    /\ leaf.next = NoPage /\ Fits(leaf, level, span, 0, {k})
    /\ leaf.keys[1] = k /\ leaf.rows[1] = r

\* The leaf that the first insertion makes is such a leaf.
LEMMA OneKeyLeaf ==
    ASSUME NEW n \in Nat, NEW level, NEW span, NEW k \in Key, NEW r \in RowId, NEW leaf,
           leaf = Leaf(<< k >>, << r >>, NoPage)
    PROVE  OneKey(leaf, n, level, span, k, r)
<1> DEFINE K == << k >>
           V == << r >>
<1>1. /\ K \in Seq(Key) /\ V \in Seq(RowId) /\ Len(K) = 1 /\ Len(V) = 1 /\ K[1] = k /\ V[1] = r
      /\ Len(<<>>) = 0 /\ NoPage \in Int
  BY DEF NoPage
<1>2. leaf = Leaf(K, V, NoPage)
  OBVIOUS
<1> HIDE DEF K, V
<1>3. IsLeaf(leaf, K, V, NoPage)
  BY <1>1, <1>2, LeafParts
<1>4. /\ leaf \in Node /\ leaf.leaf /\ leaf.keys = K /\ leaf.rows = V /\ leaf.children = <<>>
      /\ leaf.next = NoPage
  BY <1>3 DEF IsLeaf
<1>5. Sorted(K)
  BY <1>1 DEF Sorted
<1>6. Shape(leaf, n)
  <2>1. Len(leaf.rows) = Len(leaf.keys) /\ Len(leaf.children) = 0
    BY <1>1, <1>4
  <2>2. Sorted(leaf.keys) /\ leaf.next \in (1 .. n) \cup {NoPage, -1}
    BY <1>4, <1>5
  <2>3. \A i \in 1 .. Len(leaf.children) : leaf.children[i] \in 1 .. n
    BY <2>1
  <2> HIDE DEF Node
  <2>4. QED
    BY <2>1, <2>2, <2>3, <1>4 DEF Shape
<1>7. \A i \in 1 .. Len(leaf.keys) : leaf.keys[i] \in {k}
  <2>1. \A i \in 1 .. 1 : i = 1
    OBVIOUS
  <2>2. QED
    BY <2>1, <1>1, <1>4
<1>8. Fits(leaf, level, span, 0, {k})
  BY <1>1, <1>4, <1>7 DEF Fits
<1>9. QED
  BY <1>1, <1>4, <1>6, <1>8 DEF OneKey

\* The first insertion.
LEMMA PlanFirst ==
    ASSUME NEW ns, NEW level, NEW span, Sound(ns, level, span), NEW k \in Key, NEW r \in RowId,
           NEW plan,
           plan = [shown |-> Allocated(ns, Leaf(<< k >>, << r >>, NoPage)), root |-> Len(ns) + 1]
    PROVE  PlanOK(ns, NoPage, k, r, plan)
<1> DEFINE leaf == Leaf(<< k >>, << r >>, NoPage)
           A == Allocated(ns, leaf)
           n == Len(ns) + 1
           s1 == Append(ns, Unwritten)
           s2 == [s1 EXCEPT ![n] = leaf]
           x == {k}
<1>1. Len(ns) \in Nat /\ ns \in Seq(Node) /\ k \in Int /\ MaxKeys \in Nat /\ MaxKeys >= 2
  BY TreeAssumption DEF Sound
<1>2. Len(A) = 2 /\ A[1] = s1 /\ A[2] = s2
  BY <1>1, AllocatedShows
<1>3. plan.shown = A /\ plan.root = n
  OBVIOUS
<1>4. /\ Shape(leaf, Len(ns)) /\ Len(leaf.keys) = 1 /\ Len(leaf.children) = 0 /\ leaf.leaf
      /\ Fits(leaf, level, span, 0, x) /\ Shape(leaf, n)
      /\ leaf.keys[1] = k /\ leaf.rows[1] = r /\ leaf.next = NoPage
  <2>1. leaf = Leaf(<< k >>, << r >>, NoPage) /\ n \in Nat
    BY <1>1
  <2> HIDE DEF leaf, n
  <2>2. OneKey(leaf, Len(ns), level, span, k, r) /\ OneKey(leaf, n, level, span, k, r)
    BY <2>1, <1>1, OneKeyLeaf
  <2>3. QED
    BY <2>2 DEF OneKey
<1> HIDE DEF leaf, A
<1>5. Grown(ns, s1) /\ s1[n] = Unwritten
  BY AllocatedGrows
<1>6. /\ \E level2, span2 : Sound(s2, level2, span2)
      /\ Len(s2) = n /\ Parentless(s2, n) /\ s2[n] = leaf
  <2>1. NewParent(ns, leaf)
    BY <1>4 DEF NewParent
  <2>2. Len(leaf.keys) <= MaxKeys /\ x \in SUBSET Int
    BY <1>1, <1>4
  <2>3. s2 = [Append(ns, Unwritten) EXCEPT ![Len(ns) + 1] = leaf] /\ 0 \in Nat
    OBVIOUS
  <2> HIDE DEF x, s2
  <2>4. Wrote(ns, leaf, s2)
    BY <2>1, <2>2, <2>3, <1>4, AllocatedWritten
  <2>5. QED
    BY <2>4 DEF Wrote
<1> HIDE DEF s1, s2
<1>7. n \in 1 .. n /\ n # NoPage
  BY <1>1 DEF NoPage
<1>8. State(s1, NoPage) /\ State(s1, n) /\ State(s2, n)
  BY <1>5, <1>6, <1>7 DEF State, Grown
<1>9. ASSUME NEW j \in Int
      PROVE  FindFrom(s1, n, j) = {}
  <2>1. FindFrom(s1, n, j) = FoundIn(Unwritten, j)
    <3>1. PICK l1, x1 : Sound(s1, l1, x1)
      BY <1>5 DEF Grown
    <3>2. n \in 1 .. Len(s1)
      BY <1>5, <1>7 DEF Grown
    <3>3. Unwritten.leaf
      BY DEF Unwritten, Leaf
    <3>4. QED
      BY <3>1, <3>2, <3>3, <1>5, FindStep
  <2>2. /\ Shape(Unwritten, n) /\ Len(Unwritten.keys) = 0
    BY <1>1, UnwrittenFits
  <2>3. Unwritten.leaf
    BY DEF Unwritten, Leaf
  <2>4. FoundIn(Unwritten, j) # {} <=> \E i \in 1 .. Len(Unwritten.keys) : Unwritten.keys[i] = j
    BY <2>2, <2>3, <1>1, FoundInNode
  <2>5. QED
    BY <2>1, <2>2, <2>4
<1>10. ASSUME NEW j \in Int
       PROVE  FindFrom(s2, n, j) = New(k, r, j)
  <2>1. FindFrom(s2, n, j) = FoundIn(leaf, j)
    <3>1. PICK l2, x2 : Sound(s2, l2, x2)
      BY <1>6
    <3>2. n \in 1 .. Len(s2)
      BY <1>6, <1>7
    <3> HIDE DEF n
    <3>3. s2[n].leaf
      BY <1>4, <1>6
    <3>4. FindFrom(s2, n, j) = FoundIn(s2[n], j)
      BY <3>1, <3>2, <3>3, FindStep
    <3>5. QED
      BY <3>4, <1>6
  <2>2. \A y : y \in FoundIn(leaf, j) <=>
                  \E i \in 1 .. Len(leaf.keys) : leaf.keys[i] = j /\ y = leaf.rows[i]
    BY <1>1, <1>4, FoundInNode
  <2>3. \A i \in 1 .. 1 : i = 1
    OBVIOUS
  <2>4. \A y : y \in FoundIn(leaf, j) <=> k = j /\ y = r
    BY <2>2, <2>3, <1>4
  <2>5. \A y : y \in New(k, r, j) <=> k = j /\ y = r
    BY DEF New
  <2>6. FoundIn(leaf, j) = New(k, r, j)
    BY <2>4, <2>5
  <2>7. QED
    BY <2>1, <2>6
<1>11. PartOK(ns, NoPage, k, r, s1, NoPage) /\ PartOK(ns, NoPage, k, r, s1, n)
  BY <1>7, <1>8, <1>9 DEF PartOK, FindAt
<1>19. Linked(s2, n)
  <2>1. PICK l2, x2 : Sound(s2, l2, x2)
    BY <1>6
  <2>2. n \in 1 .. Len(s2)
    BY <1>6, <1>7
  <2> HIDE DEF n
  <2>3. s2[n].leaf /\ s2[n].next = NoPage
    BY <1>4, <1>6
  <2>4. \A j \in Int : EndOf(s2, n, j) = n
    BY <2>1, <2>2, <2>3, EndStep
  <2>5. QED
    BY <2>3, <2>4 DEF Linked
<1>12. EndOK(ns, NoPage, k, r, s2, n)
  BY <1>7, <1>8, <1>10, <1>19 DEF EndOK, FindAt
<1>13. Last(A) = s2
  BY <1>2 DEF Last
<1>14. \A i \in 1 .. Len(A) - 1 : A[i] = s1
  <2>1. \A i \in 1 .. 2 - 1 : i = 1
    OBVIOUS
  <2>2. QED
    BY <2>1, <1>2
<1> HIDE DEF n
<1>15. \A i \in 1 .. Len(A) - 1 : /\ PartOK(ns, NoPage, k, r, A[i], NoPage)
                                   /\ PartOK(ns, NoPage, k, r, A[i], n)
  BY <1>11, <1>14
<1>16. Len(A) \in Nat \ {0}
  BY <1>2
<1>17. EndOK(ns, NoPage, k, r, Last(A), n)
  BY <1>12, <1>13
<1>18. QED
  BY <1>3, <1>15, <1>16, <1>17 DEF PlanOK

\* A new root over the halves of the old one.
TwoChildren(node, n, level, span, l, sep, left, right) ==
    /\ Shape(node, n) /\ ~ node.leaf /\ Len(node.keys) = 1 /\ Len(node.children) = 2
    /\ node.keys[1] = sep /\ node.children[1] = left /\ node.children[2] = right
    /\ Fits(node, level, span, l, Int)

\* The node that insert() makes over a root that was split is such a node.
LEMMA TwoChildrenNode ==
    ASSUME NEW n \in Nat, NEW level, NEW span, NEW l \in Nat, NEW sep \in Key,
           NEW left \in 1 .. n, NEW right \in 1 .. n,
           level[left] = l, level[right] = l,
           span[left] \subseteq Int, span[right] \subseteq Int,
           \A y \in span[left] : y < sep, \A y \in span[right] : y >= sep,
           NEW node, node = Internal(<< sep >>, << left, right >>)
    PROVE  TwoChildren(node, n, level, span, l + 1, sep, left, right)
<1> DEFINE K == << sep >>
           C == << left, right >>
<1>1. /\ K \in Seq(Key) /\ C \in Seq(Nat) /\ Len(K) = 1 /\ Len(C) = 2 /\ K[1] = sep
      /\ C[1] = left /\ C[2] = right /\ NoPage \in Int /\ sep \in Int
      /\ \A i \in 1 .. 1 : i = 1
      /\ \A i \in 1 .. 2 : i = 1 \/ i = 2
  BY TreeAssumption DEF NoPage
<1>2. node = Internal(K, C)
  OBVIOUS
<1> HIDE DEF K, C
<1>3. IsInternal(node, K, C)
  BY <1>1, <1>2, InternalParts
<1>4. /\ node \in Node /\ ~ node.leaf /\ node.keys = K /\ node.rows = <<>>
      /\ node.children = C /\ node.next = NoPage
  BY <1>3 DEF IsInternal
<1>5. Sorted(K)
  BY <1>1 DEF Sorted
<1>6. \A i \in 1 .. Len(C) : C[i] \in 1 .. n
  BY <1>1
<1>7. Shape(node, n)
  <2>1. node.next \in (1 .. n) \cup {NoPage, -1} /\ Len(C) = Len(K) + 1
    BY <1>1, <1>4
  <2> HIDE DEF Node
  <2>2. QED
    BY <2>1, <1>4, <1>5, <1>6 DEF Shape
<1>8. \A y \in span[left] : Between(K, 1, y)
  BY <1>1 DEF Between
<1>9. \A y \in span[right] : Between(K, 2, y)
  BY <1>1 DEF Between
<1>10. \A i \in 1 .. Len(C) : /\ level[C[i]] + 1 = l + 1
                              /\ span[C[i]] \subseteq Int
                              /\ \A y \in span[C[i]] : Between(K, i, y)
  BY <1>1, <1>8, <1>9
<1>11. \A i \in 1 .. Len(K) : K[i] \in Int
  BY <1>1
<1>12. l + 1 # 0
  OBVIOUS
<1>13. Fits(node, level, span, l + 1, Int)
  BY <1>4, <1>10, <1>11, <1>12 DEF Fits
<1>14. QED
  BY <1>1, <1>4, <1>7, <1>13 DEF TwoChildren

\* Such a root finds what the half finds where the key belongs.
FindsBelow(s, n, j, sep, left, right) ==
    /\ j >= sep => /\ FindFrom(s, n, j) = FindFrom(s, right, j)
                   /\ EndOf(s, n, j) = EndOf(s, right, j)
    /\ ~ (j >= sep) => /\ FindFrom(s, n, j) = FindFrom(s, left, j)
                       /\ EndOf(s, n, j) = EndOf(s, left, j)

\* A search from the new root goes into the half where its key belongs.
LEMMA TwoChildrenFind ==
    ASSUME NEW s, NEW lv, NEW sp, Sound(s, lv, sp), NEW n \in 1 .. Len(s),
           NEW m \in Nat, NEW level, NEW span, NEW l, NEW sep \in Int, NEW left, NEW right,
           TwoChildren(s[n], m, level, span, l, sep, left, right), NEW j \in Int
    PROVE  FindsBelow(s, n, j, sep, left, right)
<1> DEFINE node == s[n]
<1>1. /\ Shape(node, m) /\ ~ node.leaf /\ Len(node.keys) = 1 /\ Len(node.children) = 2
      /\ node.keys[1] = sep /\ node.children[1] = left /\ node.children[2] = right
  BY DEF TwoChildren
<1>2. /\ FindFrom(s, n, j) = FindFrom(s, ChildFor(node, j), j)
      /\ EndOf(s, n, j) = EndOf(s, ChildFor(node, j), j)
  BY <1>1, FindStep, EndStep
<1> HIDE DEF node
<1>3. 1 \in 1 .. Len(node.children) /\ 2 \in 1 .. Len(node.children)
  BY <1>1
<1>4. CASE j >= sep
  <2>1. Between(node.keys, 2, j)
    BY <1>1, <1>4 DEF Between
  <2>2. UpperBound(node.keys, j) = 2
    BY <2>1, <1>1, <1>3, ChildBetween
  <2>3. QED
    BY <2>2, <1>1, <1>2, <1>4 DEF ChildFor, FindsBelow
<1>5. CASE ~ (j >= sep)
  <2>1. Between(node.keys, 1, j)
    BY <1>1, <1>5 DEF Between
  <2>2. UpperBound(node.keys, j) = 1
    BY <2>1, <1>1, <1>3, ChildBetween
  <2>3. QED
    BY <2>2, <1>1, <1>2, <1>5 DEF ChildFor, FindsBelow
<1>6. QED
  BY <1>4, <1>5 DEF FindsBelow

\* Splitting the root.
LEMMA NewRoot ==
    ASSUME NEW ns, NEW level, NEW span, Sound(ns, level, span), NEW k \in Int, NEW W,
           NEW rt \in 1 .. Len(ns), Parentless(ns, rt), NEW r, NEW last, NEW sep, NEW right,
           FindsPart(ns, rt, k, r, last),
           SplitBelow(ns, level, span, W, rt, k, r, last, sep, right),
           NEW A, A = Allocated(last, Internal(<< sep >>, << rt, right >>))
    PROVE  /\ Len(A) = 2 /\ PartOK(ns, rt, k, r, A[1], rt)
           /\ EndOK(ns, rt, k, r, A[2], Len(last) + 1)
<1> DEFINE node == Internal(<< sep >>, << rt, right >>)
           n == Len(last) + 1
           s1 == Append(last, Unwritten)
           s2 == [s1 EXCEPT ![n] = node]
           l == level[rt]
<1>1. PICK l2, x2 :
          /\ Below(ns, level, span, W, rt, last, l2, x2)
          /\ l2[right] = level[rt]
          /\ x2[rt] = Lower(span[rt], sep) /\ x2[right] = Upper(span[rt], sep)
  BY DEF SplitBelow
<1>2. /\ sep \in Key /\ right \in 1 .. Len(last) /\ right \notin 1 .. Len(ns)
      /\ Parentless(last, right) /\ FindsInHalves(ns, rt, k, r, last, sep, right)
  BY DEF SplitBelow
<1>3. /\ Sound(last, l2, x2) /\ Len(ns) <= Len(last) /\ l2[rt] = level[rt]
      /\ Parentless(last, rt)
  BY <1>1 DEF Below
<1>4. /\ last \in Seq(Node) /\ Len(last) \in Nat /\ Len(ns) \in Nat /\ sep \in Int
      /\ MaxKeys \in Nat /\ MaxKeys >= 2 /\ l \in Nat /\ span[rt] \subseteq Int
  BY <1>2, <1>3, SoundPage, TreeAssumption DEF Sound
<1>5. rt \in 1 .. Len(last) /\ rt # right /\ n \in 1 .. n /\ n # NoPage /\ rt # NoPage
  BY <1>2, <1>3, <1>4 DEF NoPage
<1>6. Len(A) = 2 /\ A[1] = s1 /\ A[2] = s2
  BY <1>4, AllocatedShows
<1>7. TwoChildren(node, Len(last), l2, x2, l + 1, sep, rt, right)
  <2>1. /\ x2[rt] \subseteq Int /\ x2[right] \subseteq Int
        /\ \A y \in x2[rt] : y < sep
        /\ \A y \in x2[right] : y >= sep
    BY <1>1, <1>4 DEF Lower, Upper
  <2>2. node = Internal(<< sep >>, << rt, right >>)
    OBVIOUS
  <2> HIDE DEF node
  <2>3. l2[rt] = l /\ l2[right] = l
    BY <1>1, <1>3
  <2> HIDE DEF l
  <2>4. QED
    BY <2>1, <2>2, <2>3, <1>2, <1>4, <1>5, TwoChildrenNode
<1> HIDE DEF node
<1>8. Grown(last, s1)
  BY <1>3, AllocatedGrows
<1>9. Wrote(last, node, s2)
  <2>1. /\ Shape(node, Len(last)) /\ Len(node.keys) <= MaxKeys
        /\ Fits(node, l2, x2, l + 1, Int)
    BY <1>4, <1>7 DEF TwoChildren
  <2>2. NewParent(last, node)
    <3>1. \A i \in 1 .. 2 : i = 1 \/ i = 2
      OBVIOUS
    <3>2. Len(node.children) = 2 /\ node.children[1] = rt /\ node.children[2] = right
      BY <1>7 DEF TwoChildren
    <3>3. QED
      BY <3>1, <3>2, <1>2, <1>3, <1>5 DEF NewParent
  <2>3. s2 = [Append(last, Unwritten) EXCEPT ![Len(last) + 1] = node]
    OBVIOUS
  <2>4. l + 1 \in Nat /\ Int \in SUBSET Int
    BY <1>4
  <2> HIDE DEF s2
  <2> DEFINE lp == l + 1
             all == Int
  <2>5. lp \in Nat /\ all \in SUBSET Int /\ Fits(node, l2, x2, lp, all)
    BY <2>1, <2>4
  <2> HIDE DEF lp, all
  <2>6. QED
    BY <2>1, <2>2, <2>3, <2>5, <1>3, AllocatedWritten
<1> HIDE DEF s1, s2
<1>10. PartOK(ns, rt, k, r, s1, rt)
  <2>1. State(s1, rt)
    <3>1. rt \in 1 .. Len(s1) /\ Parentless(s1, rt)
      BY <1>3, <1>4, <1>5, <1>8 DEF Grown
    <3>2. QED
      BY <3>1, <1>8 DEF State, Grown
  <2>2. \A j \in Int : FindFrom(s1, rt, j) = FindFrom(last, rt, j)
    BY <1>5, <1>8 DEF Grown, SameAnswers
  <2>3. \A j \in Int : FindFrom(s1, rt, j) \subseteq FindFrom(ns, rt, j) \cup New(k, r, j)
    BY <2>2 DEF FindsPart
  <2>4. QED
    BY <2>1, <2>3, <1>5 DEF PartOK, FindAt
<1>11. EndOK(ns, rt, k, r, s2, n)
  <2>1. State(s2, n)
    BY <1>5, <1>9 DEF State, Wrote
  <2>2. PICK l3, x3 : Sound(s2, l3, x3)
    BY <1>9 DEF Wrote
  <2>3. n \in 1 .. Len(s2) /\ s2[n] = node
    BY <1>5, <1>9 DEF Wrote
  <2>6. PICK at, new : /\ Linking(ns, span, last, EndOf(ns, rt, k), at, new)
                       /\ \A j \in Int : EndOf(last, IF j >= sep THEN right ELSE rt, j) =
                                           Moved(ns, rt, k, j, at, new)
    BY DEF SplitBelow, EndsInHalves
  <2>4. ASSUME NEW j \in Int
        PROVE  /\ FindFrom(s2, n, j) = FindFrom(ns, rt, j) \cup New(k, r, j)
               /\ EndOf(s2, n, j) = Moved(ns, rt, k, j, at, new)
    <3> DEFINE c == IF j >= sep THEN right ELSE rt
    <3>1. FindFrom(s2, n, j) = FindFrom(s2, c, j) /\ EndOf(s2, n, j) = EndOf(s2, c, j)
      <4> DEFINE m == Len(last)
                 lp == l + 1
      <4>1. TwoChildren(s2[n], m, l2, x2, lp, sep, rt, right)
        BY <2>3, <1>7
      <4>2. m \in Nat /\ sep \in Int /\ j \in Int /\ n \in 1 .. Len(s2) /\ Sound(s2, l3, x3)
        BY <1>4, <2>2, <2>3, <2>4
      <4> HIDE DEF n, lp, m, c
      <4>3. FindsBelow(s2, n, j, sep, rt, right)
        BY <4>1, <4>2, TwoChildrenFind
      <4>4. QED
        BY <4>3 DEF c, FindsBelow
    <3>2. /\ FindFrom(last, c, j) = FindFrom(ns, rt, j) \cup New(k, r, j)
          /\ EndOf(last, c, j) = Moved(ns, rt, k, j, at, new)
      BY <1>2, <2>6 DEF FindsInHalves
    <3>3. c \in 1 .. Len(last)
      BY <1>2, <1>5
    <3> HIDE DEF c
    <3>4. FindFrom(s2, c, j) = FindFrom(last, c, j) /\ EndOf(s2, c, j) = EndOf(last, c, j)
      BY <3>3, <1>9 DEF Wrote, SameAnswers
    <3>5. QED
      BY <3>1, <3>2, <3>4
  <2>7. ASSUME Linked(ns, rt)
        PROVE  Linked(s2, n)
    <3>1. EndOf(ns, rt, k) \in 1 .. Len(ns) /\ ns[EndOf(ns, rt, k)].leaf
      BY EndInside
    <3>2. /\ Len(s2) \in Nat /\ Len(last) <= Len(s2)
          /\ \A q \in 1 .. Len(last) : s2[q] = last[q]
      BY <1>4, <1>9 DEF Wrote, SameAnswers
    <3>3. Linking(ns, span, s2, EndOf(ns, rt, k), at, new)
      BY <2>6, <3>1, <3>2, <1>3, <1>4, LinkingKept
    <3> HIDE DEF n
    <3>4. QED
      BY <2>4, <2>7, <3>3, StillLinked
  <2>5. QED
    BY <2>1, <2>4, <2>7, <1>5 DEF EndOK, FindAt
<1>12. QED
  BY <1>6, <1>10, <1>11

\* States below the root are states of the tree.
LEMMA MidwayState ==
    ASSUME NEW ns, NEW level, NEW span, Sound(ns, level, span), NEW k \in Int, NEW W, NEW r,
           NEW s, NEW rt \in 1 .. Len(ns), Parentless(ns, rt)
    PROVE  /\ Midway(ns, level, span, W, rt, k, r, s) => PartOK(ns, rt, k, r, s, rt)
           /\ InsertedBelow(ns, level, span, W, rt, k, r, s) => EndOK(ns, rt, k, r, s, rt)
<1>1. rt # NoPage /\ Len(ns) \in Nat
  <2>1. Len(ns) \in Nat
    BY SoundPage
  <2>2. QED
    BY <2>1 DEF NoPage
<1>2. ASSUME NEW l2, NEW x2, Below(ns, level, span, W, rt, s, l2, x2)
      PROVE  State(s, rt)
  <2>1. Sound(s, l2, x2) /\ Len(ns) <= Len(s) /\ Parentless(s, rt)
    BY <1>2 DEF Below
  <2>2. Len(s) \in Nat
    BY <2>1 DEF Sound
  <2>3. rt \in 1 .. Len(s)
    BY <2>1, <2>2, <1>1
  <2>4. QED
    BY <2>1, <2>3 DEF State
<1>3. ASSUME Midway(ns, level, span, W, rt, k, r, s)
      PROVE  PartOK(ns, rt, k, r, s, rt)
  BY <1>1, <1>2, <1>3 DEF Midway, FindsPart, PartOK, FindAt
<1>4. ASSUME InsertedBelow(ns, level, span, W, rt, k, r, s)
      PROVE  EndOK(ns, rt, k, r, s, rt)
  <2>1. State(s, rt)
    BY <1>2, <1>4 DEF InsertedBelow
  <2>2. Linked(ns, rt) => Linked(s, rt)
    BY <1>4, StillLinked DEF InsertedBelow, EndsAll
  <2>3. QED
    BY <2>1, <2>2, <1>1, <1>4 DEF InsertedBelow, FindsAll, EndOK, FindAt
<1>5. QED
  BY <1>3, <1>4

\* An insertion that does not split the root ends with the old one,
LEMMA PlanUnsplit ==
    ASSUME NEW ns, NEW level, NEW span, Sound(ns, level, span), NEW k \in Int, NEW W, NEW r,
           NEW rt \in 1 .. Len(ns), Parentless(ns, rt),
           NEW done, Done(ns, level, span, W, rt, k, r, done), ~ done.split.happened,
           NEW plan, plan = [shown |-> done.shown, root |-> rt]
    PROVE  PlanOK(ns, rt, k, r, plan)
<1>1. plan.shown = done.shown /\ plan.root = rt
  OBVIOUS
<1>2. rt # NoPage
  <2>1. Len(ns) \in Nat
    BY SoundPage
  <2>2. QED
    BY <2>1 DEF NoPage
<1>3. \A i \in 1 .. Len(done.shown) : PartOK(ns, rt, k, r, done.shown[i], rt)
  BY MidwayState DEF Done
<1>4. Len(done.shown) \in Nat \ {0}
  BY DEF Done
<1>5. \A i \in 1 .. Len(done.shown) - 1 : PartOK(ns, rt, k, r, done.shown[i], rt)
  BY <1>3, <1>4
<1>6. EndOK(ns, rt, k, r, Last(done.shown), rt)
  BY MidwayState DEF Done
<1>7. QED
  BY <1>1, <1>2, <1>4, <1>5, <1>6 DEF PlanOK

\* and one that does ends with a new one over its halves.
LEMMA PlanSplit ==
    ASSUME NEW ns, NEW level, NEW span, Sound(ns, level, span), NEW k \in Int, NEW W, NEW r,
           NEW rt \in 1 .. Len(ns), Parentless(ns, rt),
           NEW done, Done(ns, level, span, W, rt, k, r, done), done.split.happened,
           NEW A, A = Allocated(Last(done.shown),
                                Internal(<< done.split.separator >>, << rt, done.split.right >>)),
           NEW plan, plan = [shown |-> done.shown \o A, root |-> Len(Last(done.shown)) + 1]
    PROVE  PlanOK(ns, rt, k, r, plan)
<1> DEFINE B == done.shown
           last == Last(B)
           n == Len(last) + 1
           S == B \o A
<1>1. plan.shown = S /\ plan.root = n
  OBVIOUS
<1>2. rt # NoPage
  <2>1. Len(ns) \in Nat
    BY SoundPage
  <2>2. QED
    BY <2>1 DEF NoPage
<1>3. \A i \in 1 .. Len(B) : PartOK(ns, rt, k, r, B[i], rt)
  BY MidwayState DEF Done
<1>4. B \in Seq(Seq(Node)) /\ Len(B) \in Nat \ {0}
  BY DEF Done
<1>5. FindsPart(ns, rt, k, r, last)
  <2>1. Len(B) \in 1 .. Len(B)
    BY <1>4
  <2>2. Midway(ns, level, span, W, rt, k, r, B[Len(B)])
    BY <2>1 DEF Done
  <2>3. QED
    BY <2>2 DEF Midway, Last
<1>6. SplitBelow(ns, level, span, W, rt, k, r, last, done.split.separator, done.split.right)
  BY DEF Done
<1>7. Len(A) = 2 /\ PartOK(ns, rt, k, r, A[1], rt) /\ EndOK(ns, rt, k, r, A[2], n)
  BY <1>5, <1>6, NewRoot
<1>8. A \in Seq(Seq(Node))
  <2>1. A[1] \in Seq(Node) /\ A[2] \in Seq(Node)
    BY <1>7 DEF PartOK, EndOK, State, Sound
  <2>2. PICK a, b : A = << a, b >>
    BY DEF Allocated
  <2>3. A[1] = a /\ A[2] = b
    BY <2>2
  <2> DEFINE T == Seq(Node)
  <2>4. a \in T /\ b \in T
    BY <2>1, <2>3
  <2> HIDE DEF T
  <2>5. << a, b >> \in Seq(T)
    BY <2>4
  <2>6. A \in Seq(T)
    BY <2>2, <2>5
  <2>7. QED
    BY <2>6 DEF T
<1> HIDE DEF B, n
<1>10. /\ Len(S) = Len(B) + 2
       /\ \A i \in 1 .. Len(S) : S[i] = IF i <= Len(B) THEN B[i] ELSE A[i - Len(B)]
  <2>1. /\ Len(S) = Len(B) + Len(A)
        /\ \A i \in 1 .. Len(B) + Len(A) : S[i] = IF i <= Len(B) THEN B[i] ELSE A[i - Len(B)]
    BY <1>4, <1>8, ConcatProperties
  <2> HIDE DEF S
  <2>2. QED
    BY <2>1, <1>7
<1> HIDE DEF S
<1>11. ASSUME NEW i \in 1 .. Len(S) - 1
       PROVE  PartOK(ns, rt, k, r, S[i], rt)
  <2>1. CASE i <= Len(B)
    <3>1. i \in 1 .. Len(B) /\ i \in 1 .. Len(S)
      BY <2>1, <1>4, <1>10
    <3>2. QED
      BY <2>1, <3>1, <1>3, <1>10
  <2>2. CASE ~ (i <= Len(B))
    <3>1. i - Len(B) = 1 /\ i \in 1 .. Len(S)
      BY <2>2, <1>4, <1>10
    <3>2. QED
      BY <2>2, <3>1, <1>7, <1>10
  <2>3. QED
    BY <2>1, <2>2
<1>12. Last(S) = A[2] /\ Len(S) \in Nat \ {0}
  <2>1. /\ Len(S) \in 1 .. Len(S) /\ ~ (Len(S) <= Len(B)) /\ Len(S) - Len(B) = 2
        /\ Len(S) \in Nat \ {0}
    BY <1>4, <1>10
  <2>2. S[Len(S)] = A[2]
    BY <2>1, <1>10
  <2>3. QED
    BY <2>1, <2>2 DEF Last
<1>13. QED
  BY <1>1, <1>2, <1>7, <1>11, <1>12 DEF PlanOK

\* So every insertion of a new key is sound, done or stopped half way.
LEMMA PlanSound ==
    ASSUME State(nodes, root), NEW k \in Key, NEW r \in RowId, FindAt(nodes, root, k) = {}
    PROVE  PlanOK(nodes, root, k, r, InsertPlan(k, r))
<1>1. PICK level, span : Sound(nodes, level, span)
  BY DEF State
<1>2. k \in Int
  BY TreeAssumption
<1>3. CASE root = NoPage
  <2> DEFINE plan == InsertPlan(k, r)
  <2>1. plan = [shown |-> Allocated(nodes, Leaf(<< k >>, << r >>, NoPage)),
                root |-> Len(nodes) + 1]
    BY <1>3 DEF InsertPlan
  <2> HIDE DEF plan
  <2>2. PlanOK(nodes, NoPage, k, r, plan)
    BY <2>1, <1>1, PlanFirst
  <2>3. QED
    BY <2>2, <1>3 DEF plan
<1>4. CASE root # NoPage
  <2>1. root \in 1 .. Len(nodes) /\ Parentless(nodes, root)
    BY <1>4 DEF State
  <2>2. PICK W : Route(nodes, level, root, k, W)
    BY <1>1, <1>2, <2>1, RouteExists
  <2> DEFINE wide == Widened(nodes, span, k, W)
  <2>3. Sound(nodes, level, wide)
    BY <1>1, <1>2, <2>1, <2>2, Widening
  <2>4. ParentsOnRoute(nodes, k, W) /\ Closed(nodes, (1 .. Len(nodes)) \ W)
    BY <1>1, <1>2, <2>1, <2>2, RouteParents
  <2>5. /\ root \in W /\ W \subseteq 1 .. Len(nodes)
        /\ \A q, s \in W : level[q] = level[s] => q = s
        /\ \A q \in W : ~ nodes[q].leaf => ChildFor(nodes[q], k) \in W
    BY <2>2 DEF Route
  <2>6. \A q \in W : k \in wide[q]
    BY <2>5 DEF Widened
  <2> HIDE DEF wide
  <2>7. Along(nodes, level, wide, k, W)
    BY <2>3, <2>4, <2>5, <2>6 DEF Along
  <2>8. \A q \in W : FindFrom(nodes, q, k) = {}
    BY <1>1, <1>2, <1>4, <2>1, <2>2, RouteFinds DEF FindAt
  <2>9. PICK f : Insertions(k, r, f) /\ InsertRecursive(k, r) = f[root]
    BY <1>1, <1>2, InsertionIsOne
  <2> DEFINE done == InsertRecursive(k, r)
             plan == InsertPlan(k, r)
             A == Allocated(Last(done.shown),
                            Internal(<< done.split.separator >>, << root, done.split.right >>))
  <2>10. Done(nodes, level, wide, W, root, k, r, done)
    <3>1. \A q \in W : Done(nodes, level, wide, W, q, k, r, f[q])
      BY <2>7, <2>8, <2>9, RouteDone
    <3>2. QED
      BY <3>1, <2>5, <2>9
  <2>11. CASE ~ done.split.happened
    <3>1. plan = [shown |-> done.shown, root |-> root]
      BY <1>4, <2>11 DEF InsertPlan
    <3> HIDE DEF done, plan
    <3>2. PlanOK(nodes, root, k, r, plan)
      BY <3>1, <1>2, <2>1, <2>3, <2>10, <2>11, PlanUnsplit
    <3>3. QED
      BY <3>2 DEF plan
  <2>12. CASE done.split.happened
    <3>1. plan = [shown |-> done.shown \o A, root |-> Len(Last(done.shown)) + 1]
      BY <1>4, <2>12 DEF InsertPlan
    <3>2. A = Allocated(Last(done.shown),
                        Internal(<< done.split.separator >>, << root, done.split.right >>))
      OBVIOUS
    <3> HIDE DEF done, plan, A
    <3>3. PlanOK(nodes, root, k, r, plan)
      BY <3>1, <3>2, <1>2, <2>1, <2>3, <2>10, <2>12, PlanSplit
    <3>4. QED
      BY <3>3 DEF plan
  <2>13. QED
    BY <2>11, <2>12
<1>5. QED
  BY <1>3, <1>4
----------------------------------------------------------------------------
\* A sequence t that is s without its i-th element.
Removed(t, s, i) ==
    /\ Len(t) = Len(s) - 1
    /\ \A m \in 1 .. Len(s) - 1 : t[m] = IF m < i THEN s[m] ELSE s[m + 1]

\* RemoveAt of the community modules makes such a sequence.
LEMMA Removing ==
    ASSUME NEW S, NEW s \in Seq(S), NEW i \in 1 .. Len(s)
    PROVE  RemoveAt(s, i) \in Seq(S) /\ Removed(RemoveAt(s, i), s, i)
BY RemoveAtElements DEF Removed

\* A leaf without one of its keys.
Without(node, old, n, k) ==
    /\ Shape(node, n) /\ node.leaf /\ Len(node.children) = 0
    /\ Len(node.keys) <= Len(old.keys) /\ node.next = old.next
    /\ \A m \in 1 .. Len(node.keys) : \E o \in 1 .. Len(old.keys) : node.keys[m] = old.keys[o]
    /\ \A j \in Int : FoundIn(node, j) = IF j = k THEN {} ELSE FoundIn(old, j)

\* What erase() makes of the leaf that holds k is such a leaf.
LEMMA LeafWithout ==
    ASSUME NEW n \in Nat, NEW old, Shape(old, n), old.leaf, NEW k \in Int, FoundIn(old, k) # {},
           NEW i, i = LowerBound(old.keys, k), NEW node,
           node = Leaf(RemoveAt(old.keys, i), RemoveAt(old.rows, i), old.next)
    PROVE  Without(node, old, n, k)
<1> DEFINE h == Len(old.keys)
           K == RemoveAt(old.keys, i)
           V == RemoveAt(old.rows, i)
<1>1. /\ old.keys \in Seq(Key) /\ old.keys \in Seq(Int) /\ old.rows \in Seq(RowId) /\ h \in Nat
      /\ Sorted(old.keys) /\ Len(old.rows) = h /\ old.next \in (1 .. n) \cup {NoPage, -1}
      /\ \A m \in 1 .. h : old.keys[m] \in Key /\ old.keys[m] \in Int
  BY NodeTypes DEF Shape
<1>2. PICK o \in 1 .. h : old.keys[o] = k
  BY FoundInNode
<1>3. \A m \in 1 .. h : old.keys[m] < k <=> m < i
  BY <1>1, LowerPosition
<1>4. i \in 1 .. h + 1
  BY <1>1, LowerPosition
<1>5. \A a, b \in 1 .. h : a < b => old.keys[a] < old.keys[b]
  BY <1>1 DEF Sorted
<1> HIDE DEF h
<1>6. i = o
  <2>1. ~ (o < i)
    BY <1>1, <1>2, <1>3
  <2>2. ASSUME i < o
        PROVE  FALSE
    <3>1. i \in 1 .. h
      BY <1>1, <1>2, <1>4, <2>2
    <3>2. old.keys[i] < old.keys[o]
      BY <3>1, <1>2, <1>5, <2>2
    <3>3. QED
      BY <3>1, <3>2, <1>2, <1>3, <1>4
  <2>3. QED
    BY <2>1, <2>2, <1>2, <1>4
<1>7. i \in 1 .. h /\ old.keys[i] = k
  BY <1>2, <1>6
<1>8. /\ K \in Seq(Key) /\ Len(K) = h - 1
      /\ \A m \in 1 .. h - 1 : K[m] = IF m < i THEN old.keys[m] ELSE old.keys[m + 1]
  <2>1. i \in 1 .. Len(old.keys)
    BY <1>7 DEF h
  <2>2. K \in Seq(Key) /\ Removed(K, old.keys, i)
    BY <1>1, <2>1, Removing
  <2> HIDE DEF K
  <2>3. QED
    BY <2>2 DEF h, Removed
<1>9. /\ V \in Seq(RowId) /\ Len(V) = h - 1
      /\ \A m \in 1 .. h - 1 : V[m] = IF m < i THEN old.rows[m] ELSE old.rows[m + 1]
  <2>1. i \in 1 .. Len(old.rows)
    BY <1>1, <1>7
  <2>2. V \in Seq(RowId) /\ Removed(V, old.rows, i)
    BY <1>1, <2>1, Removing
  <2> HIDE DEF V
  <2>3. QED
    BY <2>2, <1>1 DEF Removed
<1>10. node = Leaf(K, V, old.next)
  OBVIOUS
<1> HIDE DEF K, V
<1>11. /\ node \in Node /\ node.leaf /\ node.keys = K /\ node.rows = V
       /\ node.children = <<>> /\ node.next = old.next
  <2>1. old.next \in Int
    BY <1>1 DEF NoPage
  <2>2. IsLeaf(node, K, V, old.next)
    BY <2>1, <1>8, <1>9, <1>10, LeafParts
  <2>3. QED
    BY <2>2 DEF IsLeaf
\* Where its positions come from.
<1> DEFINE from(m) == IF m < i THEN m ELSE m + 1
<1>12. ASSUME NEW m \in 1 .. h - 1
       PROVE  /\ from(m) \in 1 .. h /\ from(m) # i
              /\ K[m] = old.keys[from(m)] /\ V[m] = old.rows[from(m)]
  BY SMTT(30), <1>1, <1>7, <1>8, <1>9
<1>13. ASSUME NEW a \in 1 .. h - 1, NEW b \in 1 .. h - 1, a < b
       PROVE  from(a) < from(b)
  BY <1>1, <1>7, <1>13
<1>14. ASSUME NEW m \in 1 .. h, m # i
       PROVE  \E a \in 1 .. h - 1 : from(a) = m
  <2>1. CASE m < i
    <3>1. m \in 1 .. h - 1 /\ from(m) = m
      BY <2>1, <1>1, <1>7
    <3>2. QED
      BY <3>1
  <2>2. CASE m > i
    <3>1. m - 1 \in 1 .. h - 1 /\ from(m - 1) = m
      BY <2>2, <1>1, <1>7
    <3>2. QED
      BY <3>1
  <2>3. QED
    BY <2>1, <2>2, <1>7, <1>14
<1> HIDE DEF from
<1>15. Sorted(K)
  BY <1>5, <1>8, <1>12, <1>13 DEF Sorted
<1>16. Len(<<>>) = 0
  OBVIOUS
<1>17. Shape(node, n)
  <2>1. Len(node.rows) = Len(node.keys) /\ Len(node.children) = 0
    BY <1>8, <1>9, <1>11, <1>16
  <2>2. \A m \in 1 .. Len(node.children) : node.children[m] \in 1 .. n
    BY <2>1
  <2> HIDE DEF Node
  <2>3. QED
    BY <2>1, <2>2, <1>1, <1>11, <1>15 DEF Shape
<1>18. ASSUME NEW j \in Int
       PROVE  FoundIn(node, j) = IF j = k THEN {} ELSE FoundIn(old, j)
  <2>1. \A y : y \in FoundIn(old, j) <=> \E m \in 1 .. h : old.keys[m] = j /\ y = old.rows[m]
    BY <1>18, FoundInNode DEF h
  <2>2. \A y : y \in FoundIn(node, j) <=> \E m \in 1 .. h - 1 : K[m] = j /\ y = V[m]
    <3>1. \A y : y \in FoundIn(node, j) <=>
                    \E m \in 1 .. Len(node.keys) : node.keys[m] = j /\ y = node.rows[m]
      BY <1>11, <1>17, <1>18, FoundInNode
    <3>2. QED
      BY <3>1, <1>8, <1>11
  <2>3. \A y : y \in FoundIn(node, j) <=>
                  \E m \in 1 .. h : m # i /\ old.keys[m] = j /\ y = old.rows[m]
    BY <2>2, <1>12, <1>14
  <2>4. \A m \in 1 .. h : m # i => old.keys[m] # k
    BY <1>1, <1>3, <1>5, <1>7
  <2>5. CASE j = k
    BY <2>3, <2>4, <2>5
  <2>6. CASE j # k
    <3>1. \A y : y \in FoundIn(node, j) <=> y \in FoundIn(old, j)
      BY <2>1, <2>3, <2>6, <1>7
    <3>2. QED
      BY <3>1, <2>6
  <2>7. QED
    BY <2>5, <2>6
<1>19. \A m \in 1 .. Len(node.keys) : \E a \in 1 .. Len(old.keys) : node.keys[m] = old.keys[a]
  BY <1>8, <1>11, <1>12 DEF h
<1>20. Len(node.keys) <= Len(old.keys) /\ Len(node.children) = 0
  BY <1>1, <1>8, <1>11, <1>16 DEF h
<1>21. QED
  BY <1>11, <1>17, <1>18, <1>19, <1>20 DEF Without

\* A search that starts in a leaf ends there and finds what the leaf holds.
LEMMA LeafAnswers ==
    ASSUME NEW ns, NEW level, NEW span, Sound(ns, level, span), NEW k \in Int,
           NEW p \in 1 .. Len(ns), ns[p].leaf
    PROVE  FindFrom(ns, p, k) = FoundIn(ns[p], k) /\ EndOf(ns, p, k) = p
<1>1. FindFrom(ns, p, k) = FoundIn(ns[p], k)
  BY FindStep
<1>2. EndOf(ns, p, k) = p
  BY EndStep
<1>3. QED
  BY <1>1, <1>2

\* What every search finds when a key is erased from the leaf where its own
\* search ends, and where it ends itself.
ErasedFinds(ns, s, t, k, q, j) ==
    /\ FindFrom(s, q, j) = IF j = k /\ EndOf(ns, q, j) = t THEN {} ELSE FindFrom(ns, q, j)
    /\ EndOf(s, q, j) = EndOf(ns, q, j)

Erased(ns, s, p, k) ==
    /\ \E level, span : Sound(s, level, span)
    /\ Len(s) = Len(ns) /\ Parentless(s, p)
    /\ \A j \in Int : /\ FindFrom(s, p, j) = IF j = k THEN {} ELSE FindFrom(ns, p, j)
                      /\ EndOf(s, p, j) = EndOf(ns, p, j)
    /\ \A e \in 1 .. Len(ns) : s[e].next = ns[e].next

\* Writing that leaf takes k away and nothing else.
LEMMA Erasing ==
    ASSUME NEW ns, NEW level, NEW span, Sound(ns, level, span), NEW k \in Int,
           NEW p \in 1 .. Len(ns), FindFrom(ns, p, k) # {}, Parentless(ns, p),
           NEW t, t = EndOf(ns, p, k), NEW node, Without(node, ns[t], Len(ns), k),
           NEW s, s = [ns EXCEPT ![t] = node]
    PROVE  Erased(ns, s, p, k)
<1>1. t \in 1 .. Len(ns) /\ ns[t].leaf
  BY EndInside
<1>2. /\ Shape(node, Len(ns)) /\ node.leaf /\ Len(node.children) = 0
      /\ Len(node.keys) <= Len(ns[t].keys) /\ node.next = ns[t].next
      /\ \A m \in 1 .. Len(node.keys) : \E o \in 1 .. Len(ns[t].keys) : node.keys[m] = ns[t].keys[o]
      /\ \A j \in Int : FoundIn(node, j) = IF j = k THEN {} ELSE FoundIn(ns[t], j)
  BY DEF Without
<1>3. /\ level[t] = 0 /\ span[t] \subseteq Int /\ Len(ns) \in Nat
      /\ Len(ns[t].keys) <= MaxKeys /\ Len(ns[t].keys) \in Nat
      /\ \A o \in 1 .. Len(ns[t].keys) : ns[t].keys[o] \in span[t]
  <2>1. Shape(ns[t], Len(ns)) /\ Fits(ns[t], level, span, level[t], span[t])
    BY <1>1, SoundPage
  <2>2. Len(ns[t].keys) \in Nat
    BY <1>1, <2>1, SoundPage, NodeTypes
  <2>3. QED
    BY <1>1, <2>1, <2>2, SoundPage DEF Fits
<1>4. MaxKeys \in Nat /\ Len(node.keys) \in Nat
  BY <1>2, <1>3, NodeTypes, TreeAssumption
<1>5. Fits(node, level, span, 0, span[t])
  BY <1>2, <1>3 DEF Fits
<1>6. Own(ns, t, node)
  BY <1>2 DEF Own
<1> DEFINE l == level[t]
           x == span[t]
           l2 == [level EXCEPT ![t] = l]
           x2 == [span EXCEPT ![t] = x]
<1>7. Sound(s, l2, x2)
  <2>1. l \in Nat /\ x \in SUBSET Int /\ Fits(node, level, span, l, x) /\ l = level[t]
        /\ x \subseteq span[t] /\ Len(node.keys) <= MaxKeys
    BY <1>2, <1>3, <1>4, <1>5
  <2>2. Sound([ns EXCEPT ![t] = node], [level EXCEPT ![t] = l], [span EXCEPT ![t] = x])
    <3> HIDE DEF l, x
    <3>1. QED
      BY <2>1, <1>1, <1>2, <1>6, Writing
  <2>3. QED
    BY <2>2
<1> HIDE DEF l2, x2
<1>8. Parentless(s, p)
  <2>1. \A i \in 1 .. Len(node.children) : node.children[i] # p
    BY <1>2
  <2>2. QED
    BY <2>1, <1>1, WritingParents
<1>9. /\ Len(s) = Len(ns) /\ s[t] = node
      /\ \A q \in 1 .. Len(ns) : q # t => s[q] = ns[q]
  <2>1. DOMAIN ns = 1 .. Len(ns) /\ ns \in Seq(Node)
    BY <1>1, SoundPage DEF Sound
  <2>2. DOMAIN s = 1 .. Len(ns)
    BY <2>1
  <2>3. DOMAIN s = 1 .. Len(s) /\ Len(s) \in Nat
    BY <1>7, LenProperties DEF Sound
  <2>4. Len(s) = Len(ns)
    BY <2>2, <2>3, <1>3
  <2>5. QED
    BY <2>1, <2>4, <1>1
<1>10. ASSUME NEW j \in Int
       PROVE  \A q \in 1 .. Len(ns) : ErasedFinds(ns, s, t, k, q, j)
  <2> DEFINE G == {q \in 1 .. Len(ns) : ErasedFinds(ns, s, t, k, q, j)}
  <2>1. ASSUME NEW q \in 1 .. Len(ns), ns[q].leaf
        PROVE  q \in G
    <3>1. EndOf(ns, q, j) = q /\ FindFrom(ns, q, j) = FoundIn(ns[q], j)
      <4>1. EndOf(ns, q, j) = q
        BY <1>10, <2>1, EndStep
      <4>2. FindFrom(ns, q, j) = FoundIn(ns[q], j)
        BY <1>10, <2>1, FindStep
      <4>3. QED
        BY <4>1, <4>2
    <3>2. CASE q = t
      <4>1. FindFrom(s, q, j) = FoundIn(node, j) /\ EndOf(s, q, j) = q
        <5>1. q \in 1 .. Len(s) /\ s[q] = node /\ s[q].leaf
          BY <1>2, <1>9, <3>2
        <5>2. FindFrom(s, q, j) = FoundIn(s[q], j) /\ EndOf(s, q, j) = q
          BY Zenon, <1>7, <1>10, <5>1, LeafAnswers
        <5>3. QED
          BY <5>1, <5>2
      <4>2. FoundIn(node, j) = IF j = k THEN {} ELSE FoundIn(ns[t], j)
        BY <1>2, <1>10
      <4>3. QED
        BY <4>1, <4>2, <3>1, <3>2 DEF ErasedFinds
    <3>3. CASE q # t
      <4>1. q \in 1 .. Len(s) /\ s[q] = ns[q]
        BY <1>9, <3>3
      <4>2. FindFrom(s, q, j) = FoundIn(s[q], j) /\ EndOf(s, q, j) = q
        <5>1. s[q].leaf
          BY <2>1, <4>1
        <5>2. QED
          BY Zenon, <1>7, <1>10, <4>1, <5>1, LeafAnswers
      <4>3. /\ FindFrom(s, q, j) = FindFrom(ns, q, j) /\ EndOf(ns, q, j) # t
            /\ EndOf(s, q, j) = EndOf(ns, q, j)
        BY <4>1, <4>2, <3>1, <3>3
      <4>4. QED
        BY <4>3 DEF ErasedFinds
    <3>4. QED
      BY <3>2, <3>3
  <2>2. ASSUME NEW q \in 1 .. Len(ns), ~ ns[q].leaf, ChildFor(ns[q], j) \in G
        PROVE  q \in G
    <3> DEFINE c == ChildFor(ns[q], j)
    <3>1. q # t
      BY <1>1, <2>2
    <3>2. EndOf(ns, q, j) = EndOf(ns, c, j) /\ FindFrom(ns, q, j) = FindFrom(ns, c, j)
      BY <1>10, <2>2, EndStep, FindStep
    <3>3. q \in 1 .. Len(s) /\ s[q] = ns[q]
      BY <1>9, <3>1
    <3>4. /\ FindFrom(s, q, j) = FindFrom(s, ChildFor(s[q], j), j)
          /\ EndOf(s, q, j) = EndOf(s, ChildFor(s[q], j), j)
      BY <1>7, <1>10, <2>2, <3>3, FindStep, EndStep
    <3>5. FindFrom(s, q, j) = FindFrom(s, c, j) /\ EndOf(s, q, j) = EndOf(s, c, j)
      BY <3>3, <3>4
    <3>6. ErasedFinds(ns, s, t, k, c, j)
      BY <2>2
    <3> HIDE DEF c
    <3>7. QED
      BY <3>2, <3>5, <3>6 DEF ErasedFinds
  <2>3. \A q \in 1 .. Len(ns) : q \in G
    <3> HIDE DEF G
    <3>1. QED
      BY <1>10, <2>1, <2>2, AlongSearch
  <2>4. QED
    BY <2>3
<1>11. \A j \in Int : /\ FindFrom(s, p, j) = IF j = k THEN {} ELSE FindFrom(ns, p, j)
                      /\ EndOf(s, p, j) = EndOf(ns, p, j)
  BY <1>10 DEF ErasedFinds
<1>12. \A e \in 1 .. Len(ns) : s[e].next = ns[e].next
  BY <1>2, <1>9
<1>13. QED
  BY <1>7, <1>8, <1>9, <1>11, <1>12 DEF Erased

----------------------------------------------------------------------------
\* The inductive invariant: every page has a height and the keys at and below
\* it a span that fit together, the root is the child of no node, and while no
\* operation has stopped half way the chain of leaves agrees with the tree.
IInv == /\ State(nodes, root)
        /\ intact \in BOOLEAN
        /\ intact /\ root # NoPage => Linked(nodes, root)

\* What find() finds of each key after a step.
Finds(k) == FindAt(nodes, root, k)

\* The model's find() is this.
LEMMA FindIsFinds ==
    ASSUME NEW k
    PROVE  Find(k) = Finds(k)
BY DEF Find, Finds, FindAt, FindFrom, Path

\* Inserting, with or without an error.
LEMMA InsertStep ==
    ASSUME IInv, NEW k \in Key, NEW r \in RowId, Insert(k, r)
    PROVE  /\ IInv' /\ Finds(k) = {}
           /\ \A j \in Int : Finds(j)' = Finds(j) \cup New(k, r, j)
<1> DEFINE plan == InsertPlan(k, r)
<1>1. /\ Finds(k) = {} /\ nodes' = Last(plan.shown) /\ root' = plan.root /\ intact' = intact
  BY FindIsFinds DEF Insert
<1>2. PlanOK(nodes, root, k, r, plan)
  BY <1>1, PlanSound DEF IInv, Finds
<1> HIDE DEF plan
<1>3. EndOK(nodes, root, k, r, nodes', root')
  BY <1>1, <1>2 DEF PlanOK
<1>4. QED
  BY <1>1, <1>3 DEF EndOK, IInv, Finds

\* An insertion that stops half way keeps the invariant, and finds no more than
\* one that does not.
LEMMA InsertFailsStep ==
    ASSUME IInv, NEW k \in Key, NEW r \in RowId, InsertFails(k, r)
    PROVE  /\ IInv' /\ Finds(k) = {}
           /\ \A j \in Int : Finds(j)' \subseteq Finds(j) \cup New(k, r, j)
<1> DEFINE plan == InsertPlan(k, r)
<1>1. PICK n \in 1 .. Len(plan.shown) - 1 :
         /\ nodes' = plan.shown[n]
         /\ root' \in IF root = NoPage THEN {NoPage, plan.root} ELSE {root}
  BY DEF InsertFails
<1>2. Finds(k) = {} /\ intact' = FALSE
  BY FindIsFinds DEF InsertFails
<1>3. PlanOK(nodes, root, k, r, plan)
  BY <1>2, PlanSound DEF IInv, Finds
<1> HIDE DEF plan
<1>4. PartOK(nodes, root, k, r, nodes', root')
  BY <1>1, <1>3 DEF PlanOK
<1>5. QED
  BY <1>2, <1>4 DEF PartOK, IInv, Finds

\* Erasing.
LEMMA EraseStep ==
    ASSUME IInv, NEW k \in Key, Erase(k)
    PROVE  /\ IInv'
           /\ \A j \in Int : Finds(j)' = IF j = k THEN {} ELSE Finds(j)
<1> DEFINE t == Last(Path(k))
           old == nodes[t]
           i == LowerBound(old.keys, k)
           node == Leaf(RemoveAt(old.keys, i), RemoveAt(old.rows, i), old.next)
<1>1. /\ root # NoPage /\ Finds(k) # {} /\ nodes' = [nodes EXCEPT ![t] = node]
      /\ root' = root /\ intact' = intact /\ k \in Int
  BY FindIsFinds, TreeAssumption DEF Erase
<1>2. PICK level, span : Sound(nodes, level, span)
  BY DEF IInv, State
<1>3. root \in 1 .. Len(nodes) /\ Parentless(nodes, root) /\ Len(nodes) \in Nat
  BY <1>1, <1>2 DEF IInv, State, Sound
<1>4. t = EndOf(nodes, root, k) /\ FindFrom(nodes, root, k) # {}
  BY <1>1 DEF EndOf, Path, Finds, FindAt
<1>5. FoundIn(old, k) # {}
  BY <1>4 DEF FindFrom, EndOf
<1> HIDE DEF t
<1>6. t \in 1 .. Len(nodes) /\ old.leaf
  BY <1>1, <1>2, <1>3, <1>4, EndInside
<1>7. Shape(old, Len(nodes))
  BY <1>2, <1>6, SoundPage
<1>8. Without(node, old, Len(nodes), k)
  <2>1. node = Leaf(RemoveAt(old.keys, i), RemoveAt(old.rows, i), old.next)
        /\ i = LowerBound(old.keys, k)
    OBVIOUS
  <2> HIDE DEF node, i, old
  <2>2. QED
    BY <2>1, <1>1, <1>3, <1>5, <1>6, <1>7, LeafWithout
<1> HIDE DEF node
<1>9. Erased(nodes, nodes', root, k)
  <2> DEFINE s == [nodes EXCEPT ![t] = node]
  <2>1. s = [nodes EXCEPT ![t] = node]
    OBVIOUS
  <2> HIDE DEF s
  <2>2. Erased(nodes, s, root, k)
    BY <2>1, <1>1, <1>2, <1>3, <1>4, <1>8, Erasing
  <2>3. nodes' = s
    BY <1>1, <2>1
  <2>4. QED
    BY <2>2, <2>3
<1>10. State(nodes', root')
  BY <1>1, <1>3, <1>9 DEF State, Erased
<1>11. Linked(nodes, root) => Linked(nodes', root')
  <2>1. ASSUME NEW s, Erased(nodes, s, root, k), Linked(nodes, root)
        PROVE  Linked(s, root)
    BY <2>1, <1>2, <1>3, LinkedSame DEF Erased
  <2>2. QED
    BY <2>1, <1>1, <1>9
<1>12. QED
  BY <1>1, <1>9, <1>10, <1>11 DEF IInv, Finds, FindAt, Erased

\* Somebody else allocates a page.
LEMMA OtherStep ==
    ASSUME IInv, OtherAllocates
    PROVE  IInv' /\ \A j \in Int : Finds(j)' = Finds(j)
<1>1. nodes' = Append(nodes, Unwritten) /\ root' = root /\ intact' = intact
  BY DEF OtherAllocates
<1>2. PICK level, span : Sound(nodes, level, span)
  BY DEF IInv, State
<1>3. Grown(nodes, nodes')
  BY <1>1, <1>2, AllocatedGrows
<1>4. root # NoPage => root \in 1 .. Len(nodes) /\ Parentless(nodes, root)
  BY DEF IInv, State
<1>5. Len(nodes) \in Nat /\ Len(nodes') = Len(nodes) + 1
  BY <1>2, <1>3 DEF Sound, Grown
<1>6. State(nodes', root')
  BY <1>1, <1>3, <1>4, <1>5 DEF State, Grown
<1>7. \A j \in Int : Finds(j)' = Finds(j)
  BY <1>1, <1>3, <1>4 DEF Finds, FindAt, Grown, SameAnswers
<1>8. root # NoPage /\ Linked(nodes, root) => Linked(nodes', root')
  <2>1. ASSUME NEW s, Grown(nodes, s), root # NoPage, Linked(nodes, root)
        PROVE  Linked(s, root)
    BY <2>1, <1>2, <1>4, LinkedSame DEF Grown, SameAnswers
  <2>2. QED
    BY <2>1, <1>1, <1>3
<1>9. QED
  BY <1>1, <1>6, <1>7, <1>8 DEF IInv

\* Each step keeps the invariant.
LEMMA Inductive ==
    ASSUME IInv, [Next]_vars
    PROVE  IInv'
<1>1. ASSUME NEW e \in Entry, Insert(e[1], e[2])
      PROVE  IInv'
  <2>1. e[1] \in Key /\ e[2] \in RowId
    BY TreeAssumption
  <2>2. QED
    BY <1>1, <2>1, InsertStep
<1>2. ASSUME NEW e \in Entry, InsertFails(e[1], e[2])
      PROVE  IInv'
  <2>1. e[1] \in Key /\ e[2] \in RowId
    BY TreeAssumption
  <2>2. QED
    BY <1>2, <2>1, InsertFailsStep
<1>3. ASSUME NEW k \in Key, Erase(k)
      PROVE  IInv'
  BY <1>3, EraseStep
<1>4. CASE OtherAllocates
  BY <1>4, OtherStep
<1>5. CASE UNCHANGED vars
  BY <1>5 DEF IInv, vars
<1>6. QED
  BY <1>1, <1>2, <1>3, <1>4, <1>5 DEF Next

\* An empty file is sound.
LEMMA Initially == Init => IInv
<1> SUFFICES ASSUME Init PROVE IInv
  OBVIOUS
<1>1. nodes = <<>> /\ root = NoPage /\ intact = TRUE
  BY DEF Init
<1> DEFINE empty == [p \in {} |-> {}]
<1>2. Len(nodes) = 0 /\ nodes \in Seq(Node) /\ 1 .. 0 = {}
  BY <1>1
<1>3. empty \in [1 .. 0 -> Nat] /\ empty \in [1 .. 0 -> SUBSET Int]
  BY <1>2
<1> HIDE DEF empty
<1>4. OneParent(nodes)
  BY <1>2 DEF OneParent
<1>5. Sound(nodes, empty, empty)
  BY <1>2, <1>3, <1>4 DEF Sound
<1>6. State(nodes, root)
  BY <1>1, <1>5 DEF State
<1>7. QED
  BY <1>1, <1>6 DEF IInv

\* The invariant holds in every state.
THEOREM InvariantHolds == Spec => []IInv
<1>1. Init => IInv
  BY Initially
<1>2. IInv /\ [Next]_vars => IInv'
  BY Inductive
<1>3. QED
  BY <1>1, <1>2, PTL DEF Spec

\* A sound file is one that read_node accepts page by page.
LEMMA SoundTypes ==
    ASSUME IInv
    PROVE  TypeOK
<1>1. PICK level, span : Sound(nodes, level, span)
  BY DEF IInv, State
<1>2. DOMAIN nodes = 1 .. Len(nodes) /\ Len(nodes) \in Nat
  BY <1>1, LenProperties DEF Sound
<1>3. ASSUME NEW p \in 1 .. Len(nodes)
      PROVE  /\ ToSet(nodes[p].keys) \subseteq Key
             /\ ToSet(nodes[p].rows) \subseteq RowId
             /\ ToSet(nodes[p].children) \subseteq 1 .. Len(nodes)
             /\ nodes[p].next \in 1 .. Len(nodes) \cup {NoPage, -1}
             /\ NodeOK(nodes[p])
  <2> DEFINE node == nodes[p]
  <2>1. Shape(node, Len(nodes)) /\ Len(node.keys) <= MaxKeys
    BY <1>1, <1>3, SoundPage
  <2>2. /\ node.keys \in Seq(Key) /\ node.rows \in Seq(RowId) /\ node.children \in Seq(Nat)
        /\ Len(node.keys) \in Nat
        /\ DOMAIN node.keys = 1 .. Len(node.keys)
        /\ DOMAIN node.rows = 1 .. Len(node.rows)
        /\ DOMAIN node.children = 1 .. Len(node.children)
    BY <1>2, <2>1, NodeTypes
  <2> HIDE DEF node
  <2>3. ToSet(node.keys) \subseteq Key /\ ToSet(node.rows) \subseteq RowId
    <3>1. \A i \in 1 .. Len(node.keys) : node.keys[i] \in Key
      BY <2>2, ElementOfSeq
    <3>2. \A i \in 1 .. Len(node.rows) : node.rows[i] \in RowId
      BY <2>2, ElementOfSeq
    <3>3. QED
      BY <2>2, <3>1, <3>2 DEF ToSet
  <2>4. ToSet(node.children) \subseteq 1 .. Len(nodes)
    BY <2>1, <2>2 DEF ToSet, Shape
  <2>5. node.next \in 1 .. Len(nodes) \cup {NoPage, -1}
    BY <2>1 DEF Shape
  <2>6. \A i \in 1 .. Len(node.keys) - 1 : node.keys[i] < node.keys[i + 1]
    <3>1. \A a, b \in 1 .. Len(node.keys) : a < b => node.keys[a] < node.keys[b]
      BY <2>1 DEF Shape, Sorted
    <3>2. \A i \in 1 .. Len(node.keys) - 1 :
             i \in 1 .. Len(node.keys) /\ i + 1 \in 1 .. Len(node.keys) /\ i < i + 1
      BY <2>2
    <3>3. QED
      BY <3>1, <3>2
  <2>7. IF node.leaf THEN Len(node.rows) = Len(node.keys)
        ELSE Len(node.children) = Len(node.keys) + 1
    BY <2>1 DEF Shape
  <2>8. NodeOK(node)
    BY <2>1, <2>6, <2>7 DEF NodeOK
  <2>9. QED
    BY <2>3, <2>4, <2>5, <2>8 DEF node
<1>4. root \in 1 .. Len(nodes) \cup {NoPage} /\ intact \in BOOLEAN
  BY DEF IInv, State
<1>5. QED
  BY <1>2, <1>3, <1>4 DEF TypeOK

\* Every page a tree has written, also by an insertion that stopped half way,
\* is a node read_node accepts: its keys increase and fit, it has as many rows
\* as keys or one child more, and its children are pages of the file.
THEOREM NodesAlwaysRead == Spec => []TypeOK
<1>1. IInv => TypeOK
  BY SoundTypes
<1>2. QED
  BY <1>1, InvariantHolds, PTL
----------------------------------------------------------------------------
\* A search passes one page of each height below the one where it begins.
LEMMA PathLength ==
    ASSUME NEW ns, NEW level, NEW span, Sound(ns, level, span), NEW k \in Int
    PROVE  \A p \in 1 .. Len(ns) : Len(PathFrom(ns, p, k)) = level[p] + 1
<1> DEFINE G == {p \in 1 .. Len(ns) : Len(PathFrom(ns, p, k)) = level[p] + 1}
<1>1. ASSUME NEW p \in 1 .. Len(ns), ns[p].leaf
      PROVE  p \in G
  <2>1. PathFrom(ns, p, k) = << p >> /\ Len(<< p >>) = 1
    BY <1>1, PathStep
  <2>2. level[p] = 0
    BY <1>1, SoundPage DEF Fits
  <2>3. QED
    BY <2>1, <2>2
<1>2. ASSUME NEW p \in 1 .. Len(ns), ~ ns[p].leaf, ChildFor(ns[p], k) \in G
      PROVE  p \in G
  <2> DEFINE c == ChildFor(ns[p], k)
             rest == PathFrom(ns, c, k)
             one == << p >>
  <2>1. PathFrom(ns, p, k) = one \o rest
    BY <1>2, PathStep
  <2>2. c \in 1 .. Len(ns) /\ level[c] \in Nat /\ level[c] + 1 = level[p]
    BY <1>2, ChildBelow
  <2>3. Len(rest) = level[c] + 1
    BY <1>2
  <2> HIDE DEF c
  <2>4. rest \in Seq(1 .. Len(ns))
    BY <2>2, PathInside
  <2>5. one \in Seq(1 .. Len(ns)) /\ Len(one) = 1
    OBVIOUS
  <2> HIDE DEF rest, one
  <2>6. Len(one \o rest) = Len(one) + Len(rest)
    BY <2>4, <2>5, ConcatProperties
  <2>7. Len(PathFrom(ns, p, k)) = 1 + (level[c] + 1)
    BY <2>1, <2>3, <2>5, <2>6
  <2>8. 1 + (level[c] + 1) = level[p] + 1
    BY <2>2
  <2>9. QED
    BY <2>7, <2>8
<1>3. \A p \in 1 .. Len(ns) : p \in G
  <2> HIDE DEF G
  <2>1. QED
    BY <1>1, <1>2, AlongSearch
<1>4. QED
  BY <1>3

\* What links the leaves reads no page that was never written.
LEMMA LinkedWritten ==
    ASSUME NEW ns, NEW level, NEW span, Sound(ns, level, span), NEW rt \in 1 .. Len(ns),
           Linked(ns, rt), NEW j \in Int
    PROVE  ns[EndOf(ns, rt, j)] # Unwritten
<1> DEFINE e == EndOf(ns, rt, j)
<1>1. \A i \in Int : EndOf(ns, rt, i) \in 1 .. Len(ns)
  BY EndInside
<1>2. ns[e].next = NoPage \/ \E i \in Key : ns[e].next = EndOf(ns, rt, i)
  BY DEF Linked
<1>3. ns[e].next = NoPage \/ ns[e].next \in 1 .. Len(ns)
  BY <1>1, <1>2, TreeAssumption
<1>4. Unwritten.next = -1
  BY DEF Unwritten, Leaf
<1>5. ns[e].next # -1
  BY <1>3, SoundPage DEF NoPage
<1> HIDE DEF e
<1>6. QED
  BY <1>4, <1>5 DEF e

\* Heights, single parents and links make a balanced tree.
LEMMA SoundBalanced ==
    ASSUME IInv
    PROVE  Balanced
<1> SUFFICES ASSUME root # NoPage
             PROVE  /\ \A j, k \in Key : Len(Path(j)) = Len(Path(k))
                    /\ \A p \in DOMAIN nodes :
                          /\ root \notin ToSet(nodes[p].children)
                          /\ \A q \in DOMAIN nodes :
                                \A i \in DOMAIN nodes[p].children, m \in DOMAIN nodes[q].children :
                                   nodes[p].children[i] = nodes[q].children[m] => p = q /\ i = m
                    /\ intact => \A k \in Key : nodes[Last(Path(k))] # Unwritten
  BY DEF Balanced
<1>1. PICK level, span : Sound(nodes, level, span)
  BY DEF IInv, State
<1>2. root \in 1 .. Len(nodes) /\ Parentless(nodes, root) /\ Key \subseteq Int
  BY TreeAssumption DEF IInv, State
<1>3. DOMAIN nodes = 1 .. Len(nodes) /\ Len(nodes) \in Nat
  BY <1>1, LenProperties DEF Sound
<1>4. \A p \in 1 .. Len(nodes) : DOMAIN nodes[p].children = 1 .. Len(nodes[p].children)
  BY <1>1, <1>3, SoundPage, NodeTypes
<1>5. \A j, k \in Key : Len(Path(j)) = Len(Path(k))
  <2>1. \A k \in Key : Len(Path(k)) = level[root] + 1
    BY <1>1, <1>2, PathLength DEF Path
  <2>2. QED
    BY <2>1
<1>6. \A p \in DOMAIN nodes : root \notin ToSet(nodes[p].children)
  BY <1>2, <1>3, <1>4 DEF Parentless, ToSet
<1>7. \A p, q \in DOMAIN nodes :
         \A i \in DOMAIN nodes[p].children, m \in DOMAIN nodes[q].children :
            nodes[p].children[i] = nodes[q].children[m] => p = q /\ i = m
  <2>1. \A p, q \in 1 .. Len(nodes) :
           \A i \in 1 .. Len(nodes[p].children), m \in 1 .. Len(nodes[q].children) :
              nodes[p].children[i] = nodes[q].children[m] => p = q /\ i = m
    BY <1>1 DEF Sound, OneParent
  <2>2. SUFFICES ASSUME NEW p \in 1 .. Len(nodes), NEW q \in 1 .. Len(nodes),
                        NEW i \in DOMAIN nodes[p].children, NEW m \in DOMAIN nodes[q].children,
                        nodes[p].children[i] = nodes[q].children[m]
                 PROVE  p = q /\ i = m
    BY <1>3
  <2>3. i \in 1 .. Len(nodes[p].children) /\ m \in 1 .. Len(nodes[q].children)
    BY <1>4
  <2>4. QED
    BY <2>1, <2>2, <2>3
<1>8. intact => \A k \in Key : nodes[Last(Path(k))] # Unwritten
  <2>1. SUFFICES ASSUME intact, NEW k \in Key
                 PROVE  nodes[EndOf(nodes, root, k)] # Unwritten
    BY DEF Path, EndOf
  <2>2. Linked(nodes, root)
    BY <2>1 DEF IInv
  <2>3. QED
    BY <1>1, <1>2, <2>2, LinkedWritten
<1>9. QED
  BY <1>5, <1>6, <1>7, <1>8

\* Every search passes as many pages and no page has two parents, also after an
\* insertion that stopped half way; and no search of an intact tree ends in a
\* page that a split has allocated and not written.
THEOREM AlwaysBalanced == Spec => []Balanced
<1>1. IInv => Balanced
  BY SoundBalanced
<1>2. QED
  BY <1>1, InvariantHolds, PTL

\* The smallest of some keys, when one is known to be.
LEMMA SmallestKey ==
    ASSUME NEW S \in SUBSET Int, NEW f \in S, \A j \in S : f <= j
    PROVE  Min(S) = f
<1>1. \A x \in S : (\A j \in S : x <= j) => x = f
  OBVIOUS
<1>2. \E x \in S : \A j \in S : x <= j
  OBVIOUS
<1>3. QED
  BY <1>1, <1>2 DEF Min

\* Where the searches end and what links the leaves is what the chain claims.
LEMMA SoundAgrees ==
    ASSUME IInv
    PROVE  ChainAgreesWithTree
<1> DEFINE E(j) == EndOf(nodes, root, j)
           beyond(k) == {j \in Key : j > k /\ E(j) # E(k)}
<1>1. SUFFICES ASSUME intact, root # NoPage, NEW k \in Key
               PROVE  /\ nodes[E(k)].next = IF beyond(k) = {} THEN NoPage ELSE E(Min(beyond(k)))
                      /\ \A j \in ToSet(nodes[E(k)].keys) : E(j) = E(k)
  BY DEF ChainAgreesWithTree, Path, EndOf
<1>2. PICK level, span : Sound(nodes, level, span)
  BY DEF IInv, State
<1>3. root \in 1 .. Len(nodes) /\ Key \subseteq Int /\ Linked(nodes, root)
  BY <1>1, TreeAssumption DEF IInv, State
<1>4. E(k) \in 1 .. Len(nodes)
  BY <1>2, <1>3, EndInside
<1>5. \A j \in ToSet(nodes[E(k)].keys) : E(j) = E(k)
  <2> DEFINE node == nodes[E(k)]
  <2>1. /\ Shape(node, Len(nodes)) /\ Len(nodes) \in Nat
        /\ Fits(node, level, span, level[E(k)], span[E(k)])
    BY <1>2, <1>4, SoundPage
  <2>2. DOMAIN node.keys = 1 .. Len(node.keys)
    BY <2>1, NodeTypes
  <2>3. \A i \in 1 .. Len(node.keys) : node.keys[i] \in span[E(k)]
    BY <2>1 DEF Fits
  <2>4. \A y \in span[E(k)] : E(y) = E(k)
    BY <1>2, <1>3, SpanEnds
  <2> HIDE DEF node, E
  <2>5. \A j \in ToSet(node.keys) : j \in span[E(k)]
    BY <2>2, <2>3 DEF ToSet
  <2>6. QED
    BY <2>4, <2>5 DEF node
<1>6. \/ nodes[E(k)].next = NoPage /\ \A i \in Int : i >= k => E(i) = E(k)
      \/ \E f \in Key : /\ f > k /\ nodes[E(k)].next = E(f)
                        /\ \A i \in Int : i >= k => (E(i) = E(k) <=> i < f)
  BY <1>3 DEF Linked
<1> HIDE DEF E
<1>7. CASE nodes[E(k)].next = NoPage /\ \A i \in Int : i >= k => E(i) = E(k)
  <2>1. ASSUME NEW j \in Key, j > k
        PROVE  E(j) = E(k)
    <3>1. j \in Int /\ k \in Int /\ j >= k
      BY <1>3, <2>1
    <3>2. QED
      BY <3>1, <1>7
  <2>2. beyond(k) = {}
    BY <2>1
  <2>3. QED
    BY <2>2, <1>5, <1>7
<1>8. ASSUME NEW f \in Key, f > k, nodes[E(k)].next = E(f),
             \A i \in Int : i >= k => (E(i) = E(k) <=> i < f)
      PROVE  nodes[E(k)].next = IF beyond(k) = {} THEN NoPage ELSE E(Min(beyond(k)))
  <2>1. ASSUME NEW j \in Key, j > k
        PROVE  j \in Int /\ (E(j) = E(k) <=> j < f)
    <3>1. j \in Int /\ k \in Int /\ j >= k
      BY <1>3, <2>1
    <3>2. QED
      BY <3>1, <1>8
  <2>2. f \in Int /\ E(f) # E(k)
    BY <2>1, <1>3, <1>8
  <2>3. f \in beyond(k)
    BY <2>2, <1>8
  <2>4. \A j \in beyond(k) : j \in Int /\ f <= j
    BY <2>1, <2>2
  <2> HIDE DEF beyond
  <2>5. Min(beyond(k)) = f
    BY <2>3, <2>4, SmallestKey
  <2>6. QED
    BY <2>3, <2>5, <1>8
<1>9. QED
  BY <1>5, <1>6, <1>7, <1>8

\* While no operation has stopped half way, each leaf where a search ends is
\* linked to the leaf of the next larger key that belongs elsewhere, and the
\* keys of a leaf are found in it: range() along the chain reads what find()
\* reads from the root, over splits of leaves, of inner nodes and of the root.
THEOREM ChainAlwaysAgrees == Spec => []ChainAgreesWithTree
<1>1. IInv => ChainAgreesWithTree
  BY SoundAgrees
<1>2. QED
  BY <1>1, InvariantHolds, PTL
----------------------------------------------------------------------------
\* The map of what is found of each key.
Mapping(F) == [j \in {i \in Key : F[i] # {}} |-> CHOOSE r \in F[j] : TRUE]

Found == [j \in Key |-> Finds(j)]

LookupMaps == Lookup = Mapping(Found)

\* It is what lookups show.
LEMMA LookupIsMapping == LookupMaps
<1> DEFINE found == [j \in Key |-> Find(j)]
<1>1. found = Found
  BY FindIsFinds DEF Found
<1>2. Lookup = [j \in {i \in Key : found[i] # {}} |-> CHOOSE r \in found[j] : TRUE]
  BY DEF Lookup
<1> HIDE DEF found
<1>3. QED
  BY <1>1, <1>2 DEF Mapping, LookupMaps

\* The same of the next state.
LEMMA NextLookupIsMapping == Lookup' = Mapping(Found')
<1>0. LookupMaps'
  BY LookupIsMapping, PTL
<1>1. Lookup' = Mapping(Found)'
  BY <1>0 DEF LookupMaps
<1>2. Mapping(Found)' = Mapping(Found')
  BY DEF Mapping
<1>3. QED
  BY <1>1, <1>2

\* F with one row id more, of k; map m with one entry more; a smaller F; and a
\* part of map m.
Adds(F, G, k, r) == F[k] = {} /\ \A j \in Key : G[j] = F[j] \cup New(k, r, j)
Extended(m, k, r) == [j \in DOMAIN m \cup {k} |-> IF j = k THEN r ELSE m[j]]
Single(F) == \A j \in Key : \A r, s \in F[j] : r = s
Within(F, G) == \A j \in Key : G[j] \subseteq F[j]
PartOf(n, m) == DOMAIN n \subseteq DOMAIN m /\ n = [j \in DOMAIN n |-> m[j]]

\* One row id more,
LEMMA MappingPut ==
    ASSUME NEW F, NEW G, NEW k \in Key, NEW r, Adds(F, G, k, r)
    PROVE  Mapping(G) = Extended(Mapping(F), k, r) /\ k \notin DOMAIN Mapping(F)
<1> DEFINE D == {j \in Key : F[j] # {}}
           E == {j \in Key : G[j] # {}}
<1>1. G[k] = {r} /\ F[k] = {} /\ \A j \in Key : j # k => G[j] = F[j]
  BY DEF New, Adds
<1>2. E = D \cup {k}
  BY <1>1
<1>3. (CHOOSE y \in {r} : TRUE) = r
  OBVIOUS
<1>4. ASSUME NEW j \in E
      PROVE  (CHOOSE y \in G[j] : TRUE) = IF j = k THEN r ELSE Mapping(F)[j]
  <2>1. CASE j = k
    BY <2>1, <1>1, <1>3
  <2>2. CASE j # k
    <3>1. j \in D /\ G[j] = F[j]
      BY <2>2, <1>1, <1>2
    <3>2. Mapping(F)[j] = CHOOSE y \in F[j] : TRUE
      BY <3>1 DEF Mapping
    <3>3. QED
      BY <2>2, <3>1, <3>2
  <2>3. QED
    BY <2>1, <2>2
<1>5. DOMAIN Mapping(F) = D
  BY DEF Mapping
<1>6. Mapping(G) = [j \in E |-> CHOOSE y \in G[j] : TRUE]
  BY DEF Mapping
<1>7. k \notin D
  BY <1>1
<1> HIDE DEF D, E
<1>8. Mapping(G) = [j \in D \cup {k} |-> IF j = k THEN r ELSE Mapping(F)[j]]
  BY <1>2, <1>4, <1>6
<1>9. QED
  BY <1>5, <1>7, <1>8 DEF Extended

\* and fewer.
LEMMA MappingPart ==
    ASSUME NEW F, NEW G, Single(F), Within(F, G)
    PROVE  PartOf(Mapping(G), Mapping(F)) /\ DOMAIN Mapping(G) = {j \in Key : G[j] # {}}
<1> DEFINE D == {j \in Key : F[j] # {}}
           E == {j \in Key : G[j] # {}}
<1>1. E \subseteq D
  BY DEF Within
<1>2. ASSUME NEW j \in E
      PROVE  (CHOOSE y \in G[j] : TRUE) = Mapping(F)[j]
  <2>1. j \in Key /\ j \in D /\ G[j] # {}
    BY <1>1
  <2>2. G[j] = F[j]
    BY <2>1 DEF Single, Within
  <2>3. Mapping(F)[j] = CHOOSE y \in F[j] : TRUE
    BY <2>1 DEF Mapping
  <2>4. QED
    BY <2>2, <2>3
<1>3. DOMAIN Mapping(F) = D /\ DOMAIN Mapping(G) = E
  BY DEF Mapping
<1>4. Mapping(G) = [j \in E |-> CHOOSE y \in G[j] : TRUE]
  BY DEF Mapping
<1> HIDE DEF D, E
<1>5. Mapping(G) = [j \in E |-> Mapping(F)[j]]
  BY <1>2, <1>4
<1>6. DOMAIN Mapping(G) = {j \in Key : G[j] # {}}
  BY <1>3 DEF E
<1>7. QED
  BY <1>1, <1>3, <1>5, <1>6 DEF PartOf

\* find() finds one row id of a key at most.
LEMMA FindsOne ==
    ASSUME IInv
    PROVE  \A j \in Int : \A r, s \in Finds(j) : r = s
<1>1. PICK level, span : Sound(nodes, level, span)
  BY DEF IInv, State
<1>2. root # NoPage => root \in 1 .. Len(nodes)
  BY DEF IInv, State
<1>3. QED
  BY <1>1, <1>2, FindInSpan DEF Finds, FindAt

\* In the map of what is found,
LEMMA FoundSingle ==
    ASSUME IInv
    PROVE  Single(Found)
<1>1. \A j \in Key : Found[j] = Finds(j) /\ j \in Int
  BY TreeAssumption DEF Found
<1>2. QED
  BY <1>1, FindsOne DEF Single

\* an insertion puts one entry,
LEMMA InsertPuts ==
    ASSUME IInv, NEW e \in Entry, Insert(e[1], e[2])
    PROVE  Index!Next
<1> DEFINE k == e[1]
           r == e[2]
           m == Lookup
           n == Lookup'
           F == Found
           G == Found'
<1>1. k \in Key /\ r \in RowId /\ Key \subseteq Int
  BY TreeAssumption
<1>2. Finds(k) = {} /\ \A j \in Int : Finds(j)' = Finds(j) \cup New(k, r, j)
  BY <1>1, InsertStep
<1>3. intact' = intact
  BY DEF Insert
<1>4. m = Mapping(F) /\ n = Mapping(G)
  BY LookupIsMapping, NextLookupIsMapping DEF LookupMaps
<1>5. Adds(F, G, k, r)
  <2> HIDE DEF k, r
  <2>1. QED
    BY <1>1, <1>2 DEF Found, Adds
<1> HIDE DEF m, n, F, G, k, r
<1>6. n = Extended(m, k, r) /\ k \notin DOMAIN m
  BY <1>1, <1>4, <1>5, MappingPut
<1>7. n = Index!PutIn(m, e)
  BY <1>6 DEF Index!PutIn, Extended, k, r
<1>8. n \in Index!Puts(m)
  BY <1>6, <1>7 DEF Index!Puts, k
<1>9. Index!Put
  BY <1>3, <1>8 DEF Index!Put, m, n
<1>10. QED
  BY <1>9 DEF Index!Next

\* one that fails may put it and lose others,
LEMMA InsertFailsPuts ==
    ASSUME IInv, NEW e \in Entry, InsertFails(e[1], e[2])
    PROVE  Index!Next
<1> DEFINE k == e[1]
           r == e[2]
           m == Lookup
           n == Lookup'
           F == Found
           G == Found'
           H == [j \in Key |-> F[j] \cup New(k, r, j)]
           h == Mapping(H)
<1>1. k \in Key /\ r \in RowId /\ Key \subseteq Int
  BY TreeAssumption
<1>2. Finds(k) = {} /\ \A j \in Int : Finds(j)' \subseteq Finds(j) \cup New(k, r, j)
  BY <1>1, InsertFailsStep
<1>3. intact' = FALSE
  BY DEF InsertFails
<1>4. m = Mapping(F) /\ n = Mapping(G)
  BY LookupIsMapping, NextLookupIsMapping DEF LookupMaps
<1>5. Single(F)
  BY FoundSingle
<1>6. F[k] = {} /\ \A j \in Key : G[j] \subseteq F[j] \cup New(k, r, j)
  <2> HIDE DEF k, r
  <2>1. QED
    BY <1>1, <1>2 DEF Found
<1> HIDE DEF m, n, F, G, k, r
<1>7. Adds(F, H, k, r)
  BY <1>6 DEF Adds
<1>8. Within(H, G)
  BY <1>6 DEF Within
<1>9. Single(H)
  BY <1>5, <1>6 DEF Single, New
<1> HIDE DEF H
<1>10. h = Extended(m, k, r) /\ k \notin DOMAIN m
  BY <1>1, <1>4, <1>7, MappingPut
<1>11. PartOf(n, h)
  BY <1>4, <1>8, <1>9, MappingPart
<1> HIDE DEF h
<1>12. h = Index!PutIn(m, e)
  BY <1>10 DEF Index!PutIn, Extended, k, r
<1>13. h \in Index!Puts(m)
  BY <1>10, <1>12 DEF Index!Puts, k
<1>14. n = Index!Restrict(h, DOMAIN n) /\ DOMAIN n \in SUBSET DOMAIN h
  BY <1>11 DEF PartOf, Index!Restrict
<1>15. n \in Index!HalfPuts(m)
  BY <1>13, <1>14 DEF Index!HalfPuts
<1>16. Index!PutFails
  BY <1>3, <1>15 DEF Index!PutFails, m, n
<1>17. QED
  BY <1>16 DEF Index!Next

\* erasing a key removes its entry,
LEMMA EraseRemoves ==
    ASSUME IInv, NEW k \in Key, Erase(k)
    PROVE  Index!Next
<1> DEFINE m == Lookup
           n == Lookup'
           F == Found
           G == Found'
<1>1. Key \subseteq Int
  BY TreeAssumption
<1>2. \A j \in Int : Finds(j)' = IF j = k THEN {} ELSE Finds(j)
  BY EraseStep
<1>3. intact' = intact
  BY DEF Erase
<1>4. m = Mapping(F) /\ n = Mapping(G)
  BY LookupIsMapping, NextLookupIsMapping DEF LookupMaps
<1>5. Single(F)
  BY FoundSingle
<1>6. G[k] = {} /\ \A j \in Key : j # k => G[j] = F[j]
  BY <1>1, <1>2 DEF Found
<1> HIDE DEF F, G
<1>7. Within(F, G)
  BY <1>6 DEF Within
<1>8. DOMAIN Mapping(F) = {j \in Key : F[j] # {}}
  BY DEF Mapping
<1>9. PartOf(Mapping(G), Mapping(F)) /\ DOMAIN Mapping(G) = {j \in Key : G[j] # {}}
  BY <1>5, <1>7, MappingPart
<1>10. DOMAIN Mapping(G) = DOMAIN Mapping(F) \ {k}
  BY <1>6, <1>8, <1>9
<1> HIDE DEF m, n
<1>11. PartOf(n, m) /\ DOMAIN n = DOMAIN m \ {k}
  BY <1>4, <1>9, <1>10
<1>12. n = Index!Restrict(m, DOMAIN m \ {k})
  BY <1>11 DEF PartOf, Index!Restrict
<1>13. n \in Index!Removals(m)
  BY <1>12 DEF Index!Removals
<1>14. Index!Remove
  BY <1>3, <1>13 DEF Index!Remove, m, n
<1>15. QED
  BY <1>14 DEF Index!Next

\* and nothing else changes it.
LEMMA OtherKeeps ==
    ASSUME IInv, OtherAllocates \/ UNCHANGED vars
    PROVE  UNCHANGED <<Lookup, intact>>
<1>1. \A j \in Int : Finds(j)' = Finds(j)
  <2>1. CASE OtherAllocates
    BY <2>1, OtherStep
  <2>2. CASE UNCHANGED vars
    BY <2>2 DEF vars, Finds
  <2>3. QED
    BY <2>1, <2>2
<1>2. Found' = Found
  BY <1>1, TreeAssumption DEF Found
<1>3. Lookup' = Lookup
  BY <1>2, LookupIsMapping, NextLookupIsMapping DEF LookupMaps
<1>4. intact' = intact
  BY DEF OtherAllocates, vars
<1>5. QED
  BY <1>3, <1>4

\* The tree implements the map of its keys: inserting or erasing a key changes
\* what find() returns of that key and of no other, across splits of leaves, of
\* inner nodes and of the root; and an insertion that stops half way, at
\* whatever page, never makes find() return a foreign row id.
THEOREM TreeImplementsMap == Spec => KeyMapSpec
<1>1. Init => Index!Init
  <2> SUFFICES ASSUME Init
               PROVE  Index!Init
    OBVIOUS
  <2>1. \A j \in Key : Find(j) = {}
    BY DEF Init, Find
  <2>2. Lookup = [k \in {} |-> CHOOSE r \in RowId : TRUE]
    BY <2>1 DEF Lookup
  <2>3. QED
    BY <2>2 DEF Init, Index!Init
<1>2. IInv /\ [Next]_vars => [Index!Next]_<<Lookup, intact>>
  BY InsertPuts, InsertFailsPuts, EraseRemoves, OtherKeeps DEF Next
<1>3. QED
  BY <1>1, <1>2, InvariantHolds, PTL DEF Spec, KeyMapSpec, Index!Spec
=============================================================================
