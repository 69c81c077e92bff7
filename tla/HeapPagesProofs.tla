-------------------------- MODULE HeapPagesProofs --------------------------
(***************************************************************************)
(* What a scan of a heap yields, for every list of pages: the two loops of *)
(* TableHeap::scan are recursive functions, so the module starts with the  *)
(* induction over numbers that they call for.                              *)
(***************************************************************************)
EXTENDS HeapPages, WellFoundedInduction, SequenceTheorems, TLAPS

\* A set of numbers that is not empty has a smallest one.
LEMMA SmallestOf ==
    ASSUME NEW S \in SUBSET Nat, S # {}
    PROVE  \E n \in S : \A m \in S : n <= m
<1>1. IsWellFoundedOn({ss \in Nat \X Nat : ss[1] < ss[2]}, Nat)
  BY NatLessThanWellFounded DEF OpToRel
<1>2. PICK n \in S : \A m \in S : ~ (<<m, n>> \in {ss \in Nat \X Nat : ss[1] < ss[2]})
  BY <1>1, WFMin
<1>3. ASSUME NEW m \in S
      PROVE  n <= m
  <2>1. m \in Nat /\ n \in Nat
    OBVIOUS
  <2>2. <<m, n>> \in Nat \X Nat /\ <<m, n>>[1] = m /\ <<m, n>>[2] = n
    BY <2>1
  <2>3. ~ (m < n)
    BY <1>2, <2>2
  <2>4. QED
    BY <2>1, <2>3
<1>4. QED
  BY <1>3

\* Induction: a set with 0 and with the successor of each number in it has all.
LEMMA Induction ==
    ASSUME NEW S, 0 \in S, \A n \in Nat : n \in S => n + 1 \in S
    PROVE  Nat \subseteq S
<1>1. SUFFICES ASSUME Nat \ S # {}
               PROVE  FALSE
  OBVIOUS
<1>2. PICK n \in Nat \ S : \A m \in Nat \ S : n <= m
  BY <1>1, SmallestOf
<1>3. n - 1 \in Nat /\ n - 1 \in S
  BY <1>2
<1>4. QED
  BY <1>3, <1>2
----------------------------------------------------------------------------
\* The loop over the slots of a page: the ids of the first n slots.
IdsUpTo(pgs, p) ==
    LET slots == pgs[p].slots
        upTo[s \in 0 .. Len(slots)] ==
          IF s = 0 THEN <<>>
          ELSE IF slots[s].len # 0 THEN Append(upTo[s - 1], <<p, s>>) ELSE upTo[s - 1]
    IN  upTo

\* The loop is the function that its recursive definition says.
LEMMA IdsUpToDef ==
    ASSUME NEW pgs, NEW p, Len(pgs[p].slots) \in Nat
    PROVE  /\ IdsUpTo(pgs, p)[0] = <<>>
           /\ \A s \in 1 .. Len(pgs[p].slots) :
                 IdsUpTo(pgs, p)[s] =
                    IF pgs[p].slots[s].len # 0 THEN Append(IdsUpTo(pgs, p)[s - 1], <<p, s>>)
                    ELSE IdsUpTo(pgs, p)[s - 1]
<1> DEFINE slots == pgs[p].slots
           Next(f, s) == IF slots[s].len # 0 THEN Append(f[s - 1], <<p, s>>) ELSE f[s - 1]
           Def(f, s) == IF s = 0 THEN <<>> ELSE Next(f, s)
           S == {n \in Nat : \E f : f = [s \in 0 .. n |-> Def(f, s)]}
<1>1. 0 \in S
  <2> DEFINE f == [s \in 0 .. 0 |-> <<>>]
  <2>1. f = [s \in 0 .. 0 |-> Def(f, s)]
    OBVIOUS
  <2> HIDE DEF f
  <2>2. QED
    BY <2>1
<1>2. ASSUME NEW n \in Nat, n \in S
      PROVE  n + 1 \in S
  <2>1. PICK f : f = [s \in 0 .. n |-> Def(f, s)]
    BY <1>2
  <2> DEFINE g == [s \in 0 .. n + 1 |-> IF s = n + 1 THEN Next(f, s) ELSE f[s]]
  <2>2. ASSUME NEW s \in 0 .. n + 1
        PROVE  g[s] = Def(g, s)
    <3>1. CASE s = 0
      BY <2>1, <3>1
    <3>2. CASE s = n + 1
      <4>1. g[s] = Next(f, s) /\ g[s - 1] = f[s - 1] /\ s # 0
        BY <3>2
      <4> HIDE DEF slots, g
      <4>2. QED
        BY <4>1
    <3>3. CASE s \in 1 .. n
      <4>1. g[s] = f[s] /\ g[s - 1] = f[s - 1] /\ s \in 0 .. n
        BY <3>3
      <4> HIDE DEF Def, g
      <4>2. f[s] = Def(f, s)
        BY <2>1, <4>1
      <4> HIDE DEF slots
      <4>3. QED
        BY <4>1, <4>2 DEF Def
    <3>4. QED
      BY <3>1, <3>2, <3>3
  <2>3. g = [s \in 0 .. n + 1 |-> Def(g, s)]
    BY <2>2
  <2> HIDE DEF g
  <2>4. QED
    BY <2>3
<1>3. Nat \subseteq S
  <2> HIDE DEF S
  <2>1. QED
    BY <1>1, <1>2, Induction
<1>4. \E f : f = [s \in 0 .. Len(slots) |-> Def(f, s)]
  BY <1>3
<1>5. IdsUpTo(pgs, p) = CHOOSE f : f = [s \in 0 .. Len(slots) |-> Def(f, s)]
  BY DEF IdsUpTo
<1> HIDE DEF Def
<1>6. IdsUpTo(pgs, p) = [s \in 0 .. Len(slots) |-> Def(IdsUpTo(pgs, p), s)]
  BY <1>4, <1>5
<1>7. \A s \in 0 .. Len(slots) : IdsUpTo(pgs, p)[s] = Def(IdsUpTo(pgs, p), s)
  BY <1>6
<1>8. IdsUpTo(pgs, p)[0] = <<>>
  BY <1>7, 0 \in 0 .. Len(slots) DEF Def
<1>9. ASSUME NEW s \in 1 .. Len(slots)
      PROVE  IdsUpTo(pgs, p)[s] = Next(IdsUpTo(pgs, p), s)
  <2>1. s \in 0 .. Len(slots) /\ s # 0
    OBVIOUS
  <2> HIDE DEF Next
  <2>2. QED
    BY <1>7, <2>1 DEF Def
<1>10. QED
  BY <1>8, <1>9

\* The ids of the first n slots: the slots with a record, each once, in order.
IdsGood(pgs, p, n, found) ==
    /\ found \in Seq({p} \X (1 .. n))
    /\ \A i \in 1 .. Len(found) : Slot(pgs, found[i]).len # 0
    /\ \A i, j \in 1 .. Len(found) : i < j => found[i][2] < found[j][2]
    /\ \A s \in 1 .. n : pgs[p].slots[s].len # 0 => \E i \in 1 .. Len(found) : found[i] = <<p, s>>

\* A slot without a record adds nothing.
LEMMA IdsSkip ==
    ASSUME NEW pgs, NEW p, NEW n \in Nat, NEW found, IdsGood(pgs, p, n, found),
           pgs[p].slots[n + 1].len = 0
    PROVE  IdsGood(pgs, p, n + 1, found)
<1>1. found \in Seq({p} \X (1 .. n + 1))
  <2>1. found \in Seq({p} \X (1 .. n)) /\ {p} \X (1 .. n) \subseteq {p} \X (1 .. n + 1)
    BY DEF IdsGood
  <2>2. QED
    BY <2>1, SeqMonotonic
<1>2. ASSUME NEW s \in 1 .. n + 1, pgs[p].slots[s].len # 0
      PROVE  \E i \in 1 .. Len(found) : found[i] = <<p, s>>
  <2>1. s \in 1 .. n
    BY <1>2
  <2>2. QED
    BY <1>2, <2>1 DEF IdsGood
<1>3. QED
  BY <1>1, <1>2 DEF IdsGood

\* A slot with a record comes last.
LEMMA IdsTake ==
    ASSUME NEW pgs, NEW p, NEW n \in Nat, NEW found, IdsGood(pgs, p, n, found),
           pgs[p].slots[n + 1].len # 0
    PROVE  IdsGood(pgs, p, n + 1, Append(found, <<p, n + 1>>))
<1> DEFINE S == {p} \X (1 .. n + 1)
           id == <<p, n + 1>>
           new == Append(found, id)
           last == Len(found) + 1
<1>1. found \in Seq(S) /\ id \in S
  <2>1. found \in Seq({p} \X (1 .. n)) /\ {p} \X (1 .. n) \subseteq S
    BY DEF IdsGood
  <2>2. QED
    BY <2>1, SeqMonotonic
<1>2. /\ new \in Seq(S) /\ Len(new) = last
      /\ \A i \in 1 .. Len(found) : new[i] = found[i]
      /\ new[last] = id
  <2> HIDE DEF S, id
  <2>1. QED
    BY <1>1, AppendProperties
<1>3. Len(found) \in Nat
  BY <1>1, LenProperties
<1>4. \A i \in 1 .. Len(found) : found[i] \in {p} \X (1 .. n)
  BY ElementOfSeq DEF IdsGood
<1> HIDE DEF new
<1>5. ASSUME NEW i \in 1 .. Len(new)
      PROVE  Slot(pgs, new[i]).len # 0
  <2>1. CASE i = last
    BY <1>2, <2>1 DEF Slot
  <2>2. CASE i \in 1 .. Len(found)
    BY <1>2, <2>2 DEF IdsGood
  <2>3. QED
    BY <1>2, <1>3, <2>1, <2>2
<1>6. ASSUME NEW i \in 1 .. Len(new), NEW j \in 1 .. Len(new), i < j
      PROVE  new[i][2] < new[j][2]
  <2>1. i \in 1 .. Len(found)
    BY <1>2, <1>3, <1>6
  <2>2. CASE j = last
    BY <1>2, <1>4, <2>1, <2>2
  <2>3. CASE j \in 1 .. Len(found)
    BY <1>2, <1>6, <2>1, <2>3 DEF IdsGood
  <2>4. QED
    BY <1>2, <1>3, <2>2, <2>3
<1>7. ASSUME NEW s \in 1 .. n + 1, pgs[p].slots[s].len # 0
      PROVE  \E i \in 1 .. Len(new) : new[i] = <<p, s>>
  <2>1. CASE s = n + 1
    <3>1. last \in 1 .. Len(new) /\ new[last] = <<p, s>>
      BY <1>2, <1>3, <2>1
    <3>2. QED
      BY <3>1
  <2>2. CASE s \in 1 .. n
    <3>1. PICK i \in 1 .. Len(found) : found[i] = <<p, s>>
      BY <1>7, <2>2 DEF IdsGood
    <3>2. i \in 1 .. Len(new) /\ new[i] = <<p, s>>
      BY <1>2, <1>3, <3>1
    <3>3. QED
      BY <3>2
  <2>3. QED
    BY <2>1, <2>2
<1>8. QED
  BY <1>2, <1>5, <1>6, <1>7 DEF IdsGood, new

\* A page yields its slots that have a record, each once, in order.
LEMMA PageScan ==
    ASSUME NEW pgs, NEW p, NEW E, pgs[p].slots \in Seq(E)
    PROVE  IdsGood(pgs, p, Len(pgs[p].slots), IdsOn(pgs, p))
<1> DEFINE slots == pgs[p].slots
           ids == IdsUpTo(pgs, p)
           S == {n \in Nat : n <= Len(slots) => IdsGood(pgs, p, n, ids[n])}
<1>1. Len(slots) \in Nat
  BY LenProperties
<1>2. 0 \in S
  <2>1. ids[0] = <<>>
    BY <1>1, IdsUpToDef
  <2>2. IdsGood(pgs, p, 0, <<>>)
    <3>1. <<>> \in Seq({p} \X (1 .. 0)) /\ Len(<<>>) = 0
      BY EmptySeq
    <3>2. QED
      BY <3>1 DEF IdsGood
  <2>3. QED
    BY <2>1, <2>2
<1>3. ASSUME NEW n \in Nat, n \in S
      PROVE  n + 1 \in S
  <2>1. SUFFICES ASSUME n + 1 <= Len(slots)
                 PROVE  IdsGood(pgs, p, n + 1, ids[n + 1])
    OBVIOUS
  <2>2. IdsGood(pgs, p, n, ids[n])
    BY <1>1, <1>3, <2>1
  <2>3. /\ n + 1 \in 1 .. Len(slots) /\ (n + 1) - 1 = n
    BY <1>1, <2>1
  <2>4. ids[n + 1] = IF slots[n + 1].len # 0 THEN Append(ids[n], <<p, n + 1>>) ELSE ids[n]
    BY <1>1, <2>3, IdsUpToDef
  <2>5. QED
    BY <2>2, <2>4, IdsSkip, IdsTake
<1>4. Nat \subseteq S
  <2> HIDE DEF S
  <2>1. QED
    BY <1>2, <1>3, Induction
<1>5. IdsGood(pgs, p, Len(slots), ids[Len(slots)])
  BY <1>1, <1>4
<1>6. IdsOn(pgs, p) = ids[Len(slots)]
  BY DEF IdsOn, IdsUpTo
<1>7. QED
  BY <1>5, <1>6
----------------------------------------------------------------------------
\* The loop over the pages of the heap: what its first n pages yield.
ScanUpTo(pgs, ids) ==
    LET upTo[i \in 0 .. Len(ids)] ==
          IF i = 0 THEN <<>> ELSE upTo[i - 1] \o IdsOn(pgs, ids[i])
    IN  upTo

\* The loop is the function that its recursive definition says.
LEMMA ScanUpToDef ==
    ASSUME NEW pgs, NEW ids, Len(ids) \in Nat
    PROVE  /\ ScanUpTo(pgs, ids)[0] = <<>>
           /\ \A i \in 1 .. Len(ids) :
                 ScanUpTo(pgs, ids)[i] = ScanUpTo(pgs, ids)[i - 1] \o IdsOn(pgs, ids[i])
<1> DEFINE Next(f, i) == f[i - 1] \o IdsOn(pgs, ids[i])
           Def(f, i) == IF i = 0 THEN <<>> ELSE Next(f, i)
           S == {n \in Nat : \E f : f = [i \in 0 .. n |-> Def(f, i)]}
<1>1. 0 \in S
  <2> DEFINE f == [i \in 0 .. 0 |-> <<>>]
  <2>1. f = [i \in 0 .. 0 |-> Def(f, i)]
    OBVIOUS
  <2> HIDE DEF f
  <2>2. QED
    BY <2>1
<1>2. ASSUME NEW n \in Nat, n \in S
      PROVE  n + 1 \in S
  <2>1. PICK f : f = [i \in 0 .. n |-> Def(f, i)]
    BY <1>2
  <2> DEFINE g == [i \in 0 .. n + 1 |-> IF i = n + 1 THEN Next(f, i) ELSE f[i]]
  <2>2. ASSUME NEW i \in 0 .. n + 1
        PROVE  g[i] = Def(g, i)
    <3>1. CASE i = 0
      BY <2>1, <3>1
    <3>2. CASE i = n + 1
      <4>1. g[i] = Next(f, i) /\ g[i - 1] = f[i - 1] /\ i # 0
        BY <3>2
      <4> HIDE DEF g
      <4>2. QED
        BY <4>1
    <3>3. CASE i \in 1 .. n
      <4>1. g[i] = f[i] /\ g[i - 1] = f[i - 1] /\ i \in 0 .. n
        BY <3>3
      <4> HIDE DEF Def, g
      <4>2. f[i] = Def(f, i)
        BY <2>1, <4>1
      <4>3. QED
        BY <4>1, <4>2 DEF Def
    <3>4. QED
      BY <3>1, <3>2, <3>3
  <2>3. g = [i \in 0 .. n + 1 |-> Def(g, i)]
    BY <2>2
  <2> HIDE DEF g
  <2>4. QED
    BY <2>3
<1>3. Nat \subseteq S
  <2> HIDE DEF S
  <2>1. QED
    BY <1>1, <1>2, Induction
<1>4. \E f : f = [i \in 0 .. Len(ids) |-> Def(f, i)]
  BY <1>3
<1>5. ScanUpTo(pgs, ids) = CHOOSE f : f = [i \in 0 .. Len(ids) |-> Def(f, i)]
  BY DEF ScanUpTo
<1> HIDE DEF Def
<1>6. ScanUpTo(pgs, ids) = [i \in 0 .. Len(ids) |-> Def(ScanUpTo(pgs, ids), i)]
  BY <1>4, <1>5
<1>7. \A i \in 0 .. Len(ids) : ScanUpTo(pgs, ids)[i] = Def(ScanUpTo(pgs, ids), i)
  BY <1>6
<1>8. ScanUpTo(pgs, ids)[0] = <<>>
  BY <1>7, 0 \in 0 .. Len(ids) DEF Def
<1>9. ASSUME NEW i \in 1 .. Len(ids)
      PROVE  ScanUpTo(pgs, ids)[i] = Next(ScanUpTo(pgs, ids), i)
  <2>1. i \in 0 .. Len(ids) /\ i # 0
    OBVIOUS
  <2> HIDE DEF Next
  <2>2. QED
    BY <1>7, <2>1 DEF Def
<1>10. QED
  BY <1>8, <1>9

\* Row id x comes before y: on an earlier page of the list or in an earlier slot.
Before(ids, x, y) ==
    \E a, b \in 1 .. Len(ids) : /\ ids[a] = x[1] /\ ids[b] = y[1]
                                /\ a < b \/ (a = b /\ x[2] < y[2])

\* What the first n pages yield: ids of their live rows, all of them, in order.
ScanGood(pgs, ids, n, found) ==
    /\ found \in Seq(Nat \X Nat)
    /\ \A i \in 1 .. Len(found) : \E a \in 1 .. n : /\ found[i][1] = ids[a]
                                                    /\ Live(pgs[ids[a]], found[i][2])
    /\ \A i, j \in 1 .. Len(found) : i < j => Before(ids, found[i], found[j])
    /\ \A a \in 1 .. n : \A s \in SlotsOf(pgs[ids[a]]) :
          Live(pgs[ids[a]], s) => \E i \in 1 .. Len(found) : found[i] = <<ids[a], s>>

\* The ids of the next page go after those of the pages before it.
LEMMA ScanTake ==
    ASSUME NEW pgs, NEW ids \in Seq(Nat), NEW n \in Nat, n + 1 <= Len(ids),
           NEW found, ScanGood(pgs, ids, n, found),
           NEW E, pgs[ids[n + 1]].slots \in Seq(E)
    PROVE  ScanGood(pgs, ids, n + 1, found \o IdsOn(pgs, ids[n + 1]))
<1> DEFINE p == ids[n + 1]
           more == IdsOn(pgs, p)
           new == found \o more
           slots == pgs[p].slots
<1>1. /\ Len(ids) \in Nat /\ n + 1 \in 1 .. Len(ids)
      /\ Len(slots) \in Nat /\ DOMAIN slots = 1 .. Len(slots)
  BY LenProperties
<1>2. p \in Nat
  BY <1>1, ElementOfSeq
<1>3. IdsGood(pgs, p, Len(slots), more)
  BY PageScan
<1>4. more \in Seq(Nat \X Nat)
  <2>1. {p} \X (1 .. Len(slots)) \subseteq Nat \X Nat
    BY <1>1, <1>2
  <2>2. QED
    BY <1>3, <2>1, SeqMonotonic DEF IdsGood
<1>5. ASSUME NEW i \in 1 .. Len(more)
      PROVE  more[i][1] = p /\ more[i][2] \in 1 .. Len(slots) /\ Live(pgs[p], more[i][2])
  <2>1. more[i] \in {p} \X (1 .. Len(slots)) /\ Slot(pgs, more[i]).len # 0
    BY <1>3, <1>5, ElementOfSeq DEF IdsGood
  <2> HIDE DEF more
  <2>2. more[i][1] = p /\ more[i][2] \in 1 .. Len(slots)
    BY <2>1
  <2>3. QED
    BY <1>1, <2>1, <2>2 DEF Slot, Live, SlotsOf
<1>6. found \in Seq(Nat \X Nat)
  BY DEF ScanGood
<1> HIDE DEF more
<1>7. /\ new \in Seq(Nat \X Nat)
      /\ Len(found) \in Nat /\ Len(more) \in Nat /\ Len(new) = Len(found) + Len(more)
      /\ \A i \in 1 .. Len(found) : i \in 1 .. Len(new) /\ new[i] = found[i]
      /\ \A i \in 1 .. Len(more) : /\ Len(found) + i \in 1 .. Len(new)
                                   /\ new[Len(found) + i] = more[i]
  <2>1. new \in Seq(Nat \X Nat) /\ Len(new) = Len(found) + Len(more)
    BY <1>4, <1>6, ConcatProperties
  <2>2. Len(found) \in Nat /\ Len(more) \in Nat
    BY <1>4, <1>6, LenProperties
  <2>3. \A i \in 1 .. Len(new) : new[i] = IF i <= Len(found) THEN found[i]
                                          ELSE more[i - Len(found)]
    BY <1>4, <1>6, <2>1, ConcatProperties
  <2>4. \A i \in 1 .. Len(more) : /\ Len(found) + i \in 1 .. Len(new)
                                  /\ ~ (Len(found) + i <= Len(found))
                                  /\ (Len(found) + i) - Len(found) = i
    BY <2>1, <2>2
  <2>5. \A i \in 1 .. Len(found) : i \in 1 .. Len(new) /\ i <= Len(found)
    BY <2>1, <2>2
  <2> HIDE DEF new
  <2>6. \A i \in 1 .. Len(found) : i \in 1 .. Len(new) /\ new[i] = found[i]
    BY <2>3, <2>5
  <2>7. \A i \in 1 .. Len(more) : /\ Len(found) + i \in 1 .. Len(new)
                                  /\ new[Len(found) + i] = more[i]
    BY <2>3, <2>4
  <2>8. QED
    BY <2>1, <2>2, <2>6, <2>7
<1> HIDE DEF new
<1>8. ASSUME NEW k \in 1 .. Len(new), k \notin 1 .. Len(found)
      PROVE  \E i \in 1 .. Len(more) : k = Len(found) + i /\ new[k] = more[i]
  <2>1. k - Len(found) \in 1 .. Len(more) /\ k = Len(found) + (k - Len(found))
    BY <1>7, <1>8
  <2>2. QED
    BY <1>7, <2>1
<1>9. ASSUME NEW i \in 1 .. Len(new)
      PROVE  \E a \in 1 .. n + 1 : new[i][1] = ids[a] /\ Live(pgs[ids[a]], new[i][2])
  <2>1. CASE i \in 1 .. Len(found)
    <3>1. PICK a \in 1 .. n : found[i][1] = ids[a] /\ Live(pgs[ids[a]], found[i][2])
      BY <2>1 DEF ScanGood
    <3>2. new[i] = found[i]
      BY <1>7, <2>1
    <3>3. a \in 1 .. n + 1
      OBVIOUS
    <3>4. QED
      BY <3>1, <3>2, <3>3
  <2>2. CASE i \notin 1 .. Len(found)
    <3>1. PICK k \in 1 .. Len(more) : new[i] = more[k]
      BY <1>8, <2>2
    <3>2. n + 1 \in 1 .. n + 1
      OBVIOUS
    <3>3. QED
      BY <1>5, <3>1, <3>2
  <2>3. QED
    BY <2>1, <2>2
<1>10. ASSUME NEW i \in 1 .. Len(new), NEW j \in 1 .. Len(new), i < j
       PROVE  Before(ids, new[i], new[j])
  <2>1. CASE i \in 1 .. Len(found) /\ j \in 1 .. Len(found)
    BY <1>7, <1>10, <2>1 DEF ScanGood
  <2>2. CASE i \in 1 .. Len(found) /\ j \notin 1 .. Len(found)
    <3>1. PICK a \in 1 .. n : found[i][1] = ids[a]
      BY <2>2 DEF ScanGood
    <3>2. PICK k \in 1 .. Len(more) : new[j] = more[k]
      BY <1>8, <2>2
    <3>3. ids[n + 1] = new[j][1] /\ ids[a] = new[i][1]
      BY <1>5, <1>7, <2>2, <3>1, <3>2
    <3>4. a \in 1 .. Len(ids) /\ a < n + 1
      BY <1>1
    <3>5. QED
      BY <1>1, <3>3, <3>4 DEF Before
  <2>3. CASE i \notin 1 .. Len(found)
    <3>1. j \notin 1 .. Len(found)
      BY <1>7, <1>10, <2>3
    <3>2. PICK k \in 1 .. Len(more) : i = Len(found) + k /\ new[i] = more[k]
      BY <1>8, <2>3
    <3>3. PICK l \in 1 .. Len(more) : j = Len(found) + l /\ new[j] = more[l]
      BY <1>8, <3>1
    <3>4. k < l
      BY <1>7, <1>10, <3>2, <3>3
    <3>5. more[k][2] < more[l][2] /\ more[k][1] = p /\ more[l][1] = p
      BY <1>3, <1>5, <3>4 DEF IdsGood
    <3>6. QED
      BY <1>1, <3>2, <3>3, <3>5 DEF Before
  <2>4. QED
    BY <2>1, <2>2, <2>3
<1>11. ASSUME NEW a \in 1 .. n + 1, NEW s \in SlotsOf(pgs[ids[a]]), Live(pgs[ids[a]], s)
       PROVE  \E i \in 1 .. Len(new) : new[i] = <<ids[a], s>>
  <2>1. CASE a \in 1 .. n
    <3>1. PICK i \in 1 .. Len(found) : found[i] = <<ids[a], s>>
      BY <1>11, <2>1 DEF ScanGood
    <3>2. i \in 1 .. Len(new) /\ new[i] = <<ids[a], s>>
      BY <1>7, <3>1
    <3>3. QED
      BY <3>2
  <2>2. CASE a = n + 1
    <3>1. s \in 1 .. Len(slots) /\ slots[s].len # 0
      BY <1>1, <1>11, <2>2 DEF Live, SlotsOf
    <3>2. PICK i \in 1 .. Len(more) : more[i] = <<p, s>>
      BY <1>3, <3>1 DEF IdsGood
    <3>3. Len(found) + i \in 1 .. Len(new) /\ new[Len(found) + i] = <<p, s>>
      BY <1>7, <3>2
    <3>4. QED
      BY <2>2, <3>3
  <2>3. QED
    BY <2>1, <2>2
<1>12. QED
  BY <1>7, <1>9, <1>10, <1>11 DEF ScanGood, new, more

\* A scan yields the rows of the heap, all of them, in the order of the page
\* list and, on a page, of the slots.
LEMMA HeapScan ==
    ASSUME NEW pgs, NEW ids \in Seq(Nat),
           NEW E, \A i \in 1 .. Len(ids) : pgs[ids[i]].slots \in Seq(E)
    PROVE  ScanGood(pgs, ids, Len(ids), ScannedIds(pgs, ids))
<1> DEFINE scan == ScanUpTo(pgs, ids)
           S == {n \in Nat : n <= Len(ids) => ScanGood(pgs, ids, n, scan[n])}
<1>1. Len(ids) \in Nat
  BY LenProperties
<1>2. 0 \in S
  <2>1. scan[0] = <<>>
    BY <1>1, ScanUpToDef
  <2>2. ScanGood(pgs, ids, 0, <<>>)
    <3>1. <<>> \in Seq(Nat \X Nat) /\ Len(<<>>) = 0
      BY EmptySeq
    <3>2. QED
      BY <3>1 DEF ScanGood
  <2>3. QED
    BY <2>1, <2>2
<1>3. ASSUME NEW n \in Nat, n \in S
      PROVE  n + 1 \in S
  <2>1. SUFFICES ASSUME n + 1 <= Len(ids)
                 PROVE  ScanGood(pgs, ids, n + 1, scan[n + 1])
    OBVIOUS
  <2>2. ScanGood(pgs, ids, n, scan[n])
    BY <1>1, <1>3, <2>1
  <2>3. n + 1 \in 1 .. Len(ids) /\ (n + 1) - 1 = n
    BY <1>1, <2>1
  <2>4. scan[n + 1] = scan[n] \o IdsOn(pgs, ids[n + 1])
    BY <1>1, <2>3, ScanUpToDef
  <2>5. QED
    BY <2>1, <2>2, <2>3, <2>4, ScanTake
<1>4. Nat \subseteq S
  <2> HIDE DEF S
  <2>1. QED
    BY <1>2, <1>3, Induction
<1>5. ScanGood(pgs, ids, Len(ids), scan[Len(ids)])
  BY <1>1, <1>4
<1>6. ScannedIds(pgs, ids) = scan[Len(ids)]
  BY DEF ScannedIds, ScanUpTo
<1>7. QED
  BY <1>5, <1>6
----------------------------------------------------------------------------
\* The rows that have a size.
Record == DOMAIN Size

\* No row has the size 0, which stands for a tombstone.
LEMMA SizeOfRecord == Size \in [Record -> Nat \ {0}]
  BY SizeAssumption DEF Record

USE PageAssumption, SizeOfRecord

Entry == [len : Nat, rec : Record \cup {NoRecord}]
Page == [slots : Seq(Entry), free : 0 .. PageSpace]

\* A slot holds a record of the row's size or a tombstone.
EntrySound(e) == e = Tombstone \/ (e.rec \in Record /\ e.len = Size[e.rec])

\* What is left of a page leaves room for the slots that are there, each with
\* a record of at least one byte.
Room(pg) == pg.free + Len(pg.slots) * (SlotSize + 1) <= PageSpace

PageSound(pg) == /\ pg \in Page
                 /\ \A s \in SlotsOf(pg) : EntrySound(pg.slots[s])
                 /\ Room(pg)

\* Pages are well formed; the list names pages that have been written, each once.
HeapSound(pgs, ids) ==
    /\ pgs \in Seq(Page) /\ ids \in Seq(Nat)
    /\ \A p \in DOMAIN pgs : PageSound(pgs[p])
    /\ \A i \in DOMAIN ids : ids[i] \in DOMAIN pgs /\ pgs[ids[i]].slots # <<>>
    /\ IsInjective(ids)

\* A number of things of a size that fit in a space is at most their quotient.
LEMMA AtMostQuotient ==
    ASSUME NEW n \in Nat, NEW size \in Nat \ {0}, NEW space \in Nat, n * size <= space
    PROVE  n <= space \div size
  OBVIOUS

\* One thing more takes one size more.
LEMMA OneMore ==
    ASSUME NEW n \in Nat, NEW size \in Nat
    PROVE  (n + 1) * size = n * size + size /\ n * size \in Nat
  OBVIOUS

\* A tombstone has no length, a record has one.
LEMMA EntryLengths ==
    ASSUME NEW e \in Entry, EntrySound(e)
    PROVE  e.len # 0 <=> (e.rec \in Record /\ e.len = Size[e.rec])
  BY DEF Entry, EntrySound, Tombstone

\* The slots of a page are numbered within MaxSlots.
LEMMA SlotNumbers ==
    ASSUME NEW pg, PageSound(pg)
    PROVE  /\ Len(pg.slots) \in Nat /\ SlotsOf(pg) = 1 .. Len(pg.slots)
           /\ Len(pg.slots) <= MaxSlots /\ MaxSlots \in Nat
           /\ SlotsOf(pg) \subseteq 1 .. MaxSlots
<1>1. pg.slots \in Seq(Entry) /\ pg.free \in Nat
  BY DEF PageSound, Page
<1>2. Len(pg.slots) \in Nat /\ SlotsOf(pg) = 1 .. Len(pg.slots)
  BY <1>1, LenProperties DEF SlotsOf
<1>3. SlotSize + 1 \in Nat \ {0} /\ PageSpace \in Nat
  OBVIOUS
<1> DEFINE used == Len(pg.slots) * (SlotSize + 1)
<1>4. used \in Nat
  BY <1>2, <1>3, OneMore
<1>5. used <= PageSpace
  <2>1. pg.free + used <= PageSpace
    BY DEF PageSound, Room
  <2> HIDE DEF used
  <2>2. QED
    BY <1>1, <1>3, <1>4, <2>1
<1>6. Len(pg.slots) <= MaxSlots
  BY <1>2, <1>3, <1>5, AtMostQuotient DEF MaxSlots
<1>7. MaxSlots \in Nat
  BY <1>3 DEF MaxSlots
<1>8. QED
  BY <1>2, <1>6, <1>7

\* An empty page is sound.
LEMMA EmptyPageSound == PageSound(EmptyPage)
<1>1. <<>> \in Seq(Entry) /\ Len(<<>>) = 0 /\ DOMAIN <<>> = {}
  BY EmptySeq
<1>2. 0 * (SlotSize + 1) = 0
  OBVIOUS
<1>3. QED
  BY <1>1, <1>2 DEF PageSound, EmptyPage, Page, SlotsOf, Room

\* A page that was never written is sound.
LEMMA ZeroPageSound == PageSound(ZeroPage)
<1>1. <<>> \in Seq(Entry) /\ Len(<<>>) = 0 /\ DOMAIN <<>> = {}
  BY EmptySeq
<1>2. 0 * (SlotSize + 1) = 0
  OBVIOUS
<1>3. QED
  BY <1>1, <1>2 DEF PageSound, ZeroPage, Page, SlotsOf, Room

\* A record that fits goes into a slot after all the others.
LEMMA RecordAdded ==
    ASSUME NEW pg, PageSound(pg), NEW row \in Record, Fits(pg, Size[row])
    PROVE  LET new == WithRecord(pg, row, Size[row])
           IN  /\ PageSound(new)
               /\ Len(new.slots) = Len(pg.slots) + 1
               /\ \A s \in SlotsOf(pg) : new.slots[s] = pg.slots[s]
               /\ new.slots[Len(pg.slots) + 1] = [len |-> Size[row], rec |-> row]
<1> DEFINE new == WithRecord(pg, row, Size[row])
           e == [len |-> Size[row], rec |-> row]
           n == Len(pg.slots)
<1>1. /\ pg.slots \in Seq(Entry) /\ pg.free \in 0 .. PageSpace
      /\ n \in Nat /\ SlotsOf(pg) = 1 .. n
  BY SlotNumbers DEF PageSound, Page
<1>2. Size[row] \in Nat \ {0}
  OBVIOUS
<1>3. e \in Entry /\ EntrySound(e)
  BY <1>2 DEF Entry, EntrySound
<1>4. new.slots = Append(pg.slots, e) /\ new.free = pg.free - Size[row] - SlotSize
  BY DEF WithRecord
<1> HIDE DEF e
<1>5. /\ new.slots \in Seq(Entry) /\ Len(new.slots) = n + 1
      /\ \A s \in 1 .. n : new.slots[s] = pg.slots[s]
      /\ new.slots[n + 1] = e
  BY <1>1, <1>3, <1>4, AppendProperties
<1>6. new.free \in 0 .. PageSpace /\ new.free + (SlotSize + 1) <= pg.free
  BY <1>1, <1>2, <1>4 DEF Fits
<1>7. new \in Page
  <2>1. new = [slots |-> new.slots, free |-> new.free]
    BY DEF WithRecord
  <2> HIDE DEF new
  <2>2. QED
    BY <2>1, <1>5, <1>6 DEF Page
<1> HIDE DEF new
<1>8. SlotsOf(new) = 1 .. n + 1
  BY <1>5, LenProperties DEF SlotsOf
<1>9. \A s \in SlotsOf(new) : EntrySound(new.slots[s])
  BY <1>1, <1>3, <1>5, <1>8 DEF PageSound
<1>10. Room(new)
  <2> DEFINE size == SlotSize + 1
             before == n * size
             after == (n + 1) * size
  <2>1. size \in Nat
    OBVIOUS
  <2>2. pg.free + before <= PageSpace
    BY DEF PageSound, Room
  <2>3. new.free + size <= pg.free
    BY <1>6
  <2>4. after = Len(new.slots) * (SlotSize + 1)
    BY <1>5
  <2> HIDE DEF size
  <2>5. before \in Nat /\ after = before + size
    BY <1>1, <2>1, OneMore
  <2> HIDE DEF before, after
  <2>6. new.free + after <= PageSpace
    BY <1>1, <1>6, <2>1, <2>2, <2>3, <2>5
  <2>7. QED
    BY <2>4, <2>6 DEF Room
<1>11. QED
  BY <1>1, <1>5, <1>7, <1>9, <1>10 DEF PageSound, new, e

\* Another entry in a slot leaves the other slots and their number alone.
LEMMA SlotChanged ==
    ASSUME NEW pg, PageSound(pg), NEW s \in SlotsOf(pg), NEW e \in Entry, EntrySound(e)
    PROVE  LET new == [pg EXCEPT !.slots[s] = e]
           IN  /\ PageSound(new)
               /\ SlotsOf(new) = SlotsOf(pg)
               /\ new.slots[s] = e
               /\ \A t \in SlotsOf(pg) \ {s} : new.slots[t] = pg.slots[t]
<1> DEFINE new == [pg EXCEPT !.slots[s] = e]
           slots == [pg.slots EXCEPT ![s] = e]
<1>1. /\ pg.slots \in Seq(Entry) /\ pg.free \in 0 .. PageSpace /\ pg \in Page
      /\ s \in 1 .. Len(pg.slots)
  BY SlotNumbers DEF PageSound, Page
<1>2. new.slots = slots /\ new.free = pg.free /\ new = [slots |-> slots, free |-> pg.free]
  <2>1. new = [pg EXCEPT !.slots = slots]
    OBVIOUS
  <2> HIDE DEF slots, new
  <2>2. QED
    BY <1>1, <2>1 DEF Page
<1>3. /\ slots \in Seq(Entry) /\ Len(slots) = Len(pg.slots) /\ slots[s] = e
      /\ \A t \in 1 .. Len(pg.slots) : t # s => slots[t] = pg.slots[t]
  BY <1>1, ExceptSeq
<1> HIDE DEF slots, new
<1>4. new \in Page
  BY <1>1, <1>2, <1>3 DEF Page
<1>5. SlotsOf(new) = SlotsOf(pg) /\ SlotsOf(pg) = 1 .. Len(pg.slots)
  BY <1>1, <1>2, <1>3, LenProperties DEF SlotsOf
<1>6. \A t \in SlotsOf(new) : EntrySound(new.slots[t])
  BY <1>2, <1>3, <1>5 DEF PageSound
<1>7. Room(new)
  BY <1>2, <1>3 DEF PageSound, Room
<1>8. QED
  BY <1>2, <1>3, <1>4, <1>5, <1>6, <1>7 DEF PageSound, new
----------------------------------------------------------------------------
\* The slots of the table's pages, with a record or a tombstone.
SlotIds(pgs, ids) == {id \in ToSet(ids) \X (1 .. MaxSlots) : id[2] \in SlotsOf(pgs[id[1]])}

\* Slots of any page of the file, and that the pages of new have those of pgs.
IsSlot(pgs, id) == id[1] \in DOMAIN pgs /\ id[2] \in SlotsOf(pgs[id[1]])
SlotsKept(pgs, new) == \A id : IsSlot(pgs, id) => IsSlot(new, id)

\* Slot ids in terms of the page list.
LEMMA SlotIdsAre ==
    ASSUME NEW pgs, NEW ids, HeapSound(pgs, ids), NEW id
    PROVE  id \in SlotIds(pgs, ids) <=>
              \E i \in DOMAIN ids : \E s \in SlotsOf(pgs[ids[i]]) : id = <<ids[i], s>>
<1>1. ASSUME id \in SlotIds(pgs, ids)
      PROVE  \E i \in DOMAIN ids : \E s \in SlotsOf(pgs[ids[i]]) : id = <<ids[i], s>>
  <2>1. /\ id[1] \in ToSet(ids) /\ id[2] \in SlotsOf(pgs[id[1]])
        /\ id = <<id[1], id[2]>>
    BY <1>1 DEF SlotIds
  <2>2. PICK i \in DOMAIN ids : id[1] = ids[i]
    BY <2>1 DEF ToSet
  <2>3. QED
    BY <2>1, <2>2
<1>2. ASSUME NEW i \in DOMAIN ids, NEW s \in SlotsOf(pgs[ids[i]]), id = <<ids[i], s>>
      PROVE  id \in SlotIds(pgs, ids)
  <2>1. PageSound(pgs[ids[i]])
    BY DEF HeapSound
  <2>2. s \in 1 .. MaxSlots
    BY <2>1, SlotNumbers
  <2>3. ids[i] \in ToSet(ids)
    BY DEF ToSet
  <2>4. QED
    BY <1>2, <2>2, <2>3 DEF SlotIds
<1>3. QED
  BY <1>1, <1>2

\* A row id of the heap names a page of the list and a slot of that page.
LEMMA SlotIdParts ==
    ASSUME NEW pgs, NEW ids, HeapSound(pgs, ids), NEW id \in SlotIds(pgs, ids)
    PROVE  /\ id = <<id[1], id[2]>>
           /\ id[1] \in DOMAIN pgs /\ PageSound(pgs[id[1]])
           /\ id[2] \in SlotsOf(pgs[id[1]])
           /\ Slot(pgs, id) \in Entry /\ EntrySound(Slot(pgs, id))
<1>1. PICK i \in DOMAIN ids : \E s \in SlotsOf(pgs[ids[i]]) : id = <<ids[i], s>>
  BY SlotIdsAre
<1>2. PICK s \in SlotsOf(pgs[ids[i]]) : id = <<ids[i], s>>
  BY <1>1
<1>3. ids[i] \in DOMAIN pgs /\ PageSound(pgs[ids[i]])
  BY DEF HeapSound
<1>4. pgs[ids[i]].slots[s] \in Entry /\ EntrySound(pgs[ids[i]].slots[s])
  <2>1. pgs[ids[i]].slots \in Seq(Entry) /\ s \in 1 .. Len(pgs[ids[i]].slots)
    BY <1>3, SlotNumbers DEF PageSound, Page
  <2>2. pgs[ids[i]].slots[s] \in Entry
    BY <2>1, ElementOfSeq
  <2>3. QED
    BY <1>3, <2>2 DEF PageSound
<1>5. QED
  BY <1>2, <1>3, <1>4 DEF Slot

\* Slot id has entry e in the pages new; the other slots hold what they held.
OnlyChanged(pgs, ids, id, e, new) ==
    /\ HeapSound(new, ids)
    /\ Len(new) = Len(pgs)
    /\ SlotsKept(pgs, new)
    /\ SlotIds(new, ids) = SlotIds(pgs, ids)
    /\ Slot(new, id) = e
    /\ \A other \in SlotIds(pgs, ids) \ {id} : Slot(new, other) = Slot(pgs, other)

WithEntry(pgs, id, e) == [pgs EXCEPT ![id[1]] = [@ EXCEPT !.slots[id[2]] = e]]

\* Another sound entry in a slot leaves the heap sound.
LEMMA EntryChanged ==
    ASSUME NEW pgs, NEW ids, HeapSound(pgs, ids), NEW id \in SlotIds(pgs, ids),
           NEW e \in Entry, EntrySound(e)
    PROVE  OnlyChanged(pgs, ids, id, e, WithEntry(pgs, id, e))
<1> DEFINE p == id[1]
           page == [pgs[p] EXCEPT !.slots[id[2]] = e]
           new == [pgs EXCEPT ![p] = page]
<1>1. /\ id = <<p, id[2]>> /\ p \in DOMAIN pgs /\ PageSound(pgs[p])
      /\ id[2] \in SlotsOf(pgs[p])
  BY SlotIdParts
<1>2. /\ PageSound(page) /\ SlotsOf(page) = SlotsOf(pgs[p])
      /\ page.slots[id[2]] = e
      /\ \A t \in SlotsOf(pgs[p]) \ {id[2]} : page.slots[t] = pgs[p].slots[t]
  BY <1>1, SlotChanged
<1> HIDE DEF page
<1>3. /\ pgs \in Seq(Page) /\ DOMAIN pgs = 1 .. Len(pgs) /\ page \in Page
  BY <1>2, LenProperties DEF HeapSound, PageSound
<1>4. /\ new \in Seq(Page) /\ Len(new) = Len(pgs) /\ new[p] = page
      /\ \A q \in DOMAIN pgs : q # p => new[q] = pgs[q]
      /\ DOMAIN new = DOMAIN pgs
  BY <1>1, <1>3, ExceptSeq
<1> HIDE DEF new
<1>5. \A q \in DOMAIN pgs : SlotsOf(new[q]) = SlotsOf(pgs[q]) /\ PageSound(new[q])
  BY <1>2, <1>4 DEF HeapSound
<1>6. HeapSound(new, ids)
  <2>1. ASSUME NEW i \in DOMAIN ids
        PROVE  ids[i] \in DOMAIN new /\ new[ids[i]].slots # <<>>
    <3>1. ids[i] \in DOMAIN pgs /\ pgs[ids[i]].slots # <<>>
      BY DEF HeapSound
    <3>2. CASE ids[i] # p
      BY <1>4, <3>1, <3>2
    <3>3. CASE ids[i] = p
      <4>1. id[2] \in DOMAIN page.slots
        BY <1>1, <1>2 DEF SlotsOf
      <4>2. QED
        BY <1>4, <3>1, <3>3, <4>1, EmptySeq
    <3>4. QED
      BY <3>2, <3>3
  <2>2. QED
    BY <1>4, <1>5, <2>1 DEF HeapSound
<1>7. SlotIds(new, ids) = SlotIds(pgs, ids)
  <2>1. \A q \in ToSet(ids) : SlotsOf(new[q]) = SlotsOf(pgs[q])
    BY <1>5 DEF ToSet, HeapSound
  <2>2. QED
    BY <2>1 DEF SlotIds
<1>8. Slot(new, id) = e
  BY <1>2, <1>4 DEF Slot
<1>9. ASSUME NEW other \in SlotIds(pgs, ids) \ {id}
      PROVE  Slot(new, other) = Slot(pgs, other)
  <2>1. /\ other = <<other[1], other[2]>> /\ other[1] \in DOMAIN pgs
        /\ other[2] \in SlotsOf(pgs[other[1]])
    BY SlotIdParts
  <2>2. CASE other[1] # p
    BY <1>4, <2>1, <2>2 DEF Slot
  <2>3. CASE other[1] = p
    <3>1. other[2] # id[2]
      BY <1>1, <2>1, <2>3
    <3>2. page.slots[other[2]] = pgs[p].slots[other[2]]
      BY <1>2, <2>1, <2>3, <3>1
    <3>3. QED
      BY <1>4, <2>3, <3>2 DEF Slot
  <2>4. QED
    BY <2>2, <2>3
<1>10. SlotsKept(pgs, new)
  BY <1>4, <1>5 DEF SlotsKept, IsSlot
<1>11. QED
  BY <1>4, <1>6, <1>7, <1>8, <1>9, <1>10 DEF OnlyChanged, WithEntry, new, page

\* A longer list that starts with all of ids.
Extends(longer, ids) == /\ Len(ids) <= Len(longer)
                        /\ \A i \in 1 .. Len(ids) : longer[i] = ids[i]

\* The beginning of a page list is sound when the list is.
LEMMA ShorterSound ==
    ASSUME NEW pgs, NEW longer, HeapSound(pgs, longer), NEW ids \in Seq(Nat),
           Extends(longer, ids)
    PROVE  HeapSound(pgs, ids) /\ ToSet(ids) \subseteq ToSet(longer)
<1>1. /\ DOMAIN ids = 1 .. Len(ids) /\ DOMAIN longer = 1 .. Len(longer)
      /\ Len(ids) \in Nat /\ Len(longer) \in Nat
  BY LenProperties DEF HeapSound
<1>2. \A i \in DOMAIN ids : i \in DOMAIN longer /\ ids[i] = longer[i]
  BY <1>1 DEF Extends
<1>3. HeapSound(pgs, ids)
  BY <1>2 DEF HeapSound, IsInjective
<1>4. ToSet(ids) \subseteq ToSet(longer)
  BY <1>2 DEF ToSet
<1>5. QED
  BY <1>3, <1>4

\* An insertion adds one slot, with the row, and changes no other.
RowAdded(pgs, ids, row, new) ==
    /\ HeapSound(new.pages, new.ids)
    /\ Extends(new.ids, ids)
    /\ SlotsKept(pgs, new.pages)
    /\ ~IsSlot(pgs, new.id)
    /\ new.id \notin SlotIds(pgs, ids)
    /\ SlotIds(new.pages, new.ids) = SlotIds(pgs, ids) \cup {new.id}
    /\ Slot(new.pages, new.id) = [len |-> Size[row], rec |-> row]
    /\ \A id \in SlotIds(pgs, ids) : Slot(new.pages, id) = Slot(pgs, id)

\* The row goes into the last page of the list.
LEMMA AddedToLast ==
    ASSUME NEW pgs, NEW ids, HeapSound(pgs, ids), NEW row \in Record,
           LastPageFits(pgs, ids, row)
    PROVE  /\ RowAdded(pgs, ids, row, Inserted(pgs, ids, row))
           /\ Len(Inserted(pgs, ids, row).pages) = Len(pgs)
<1> DEFINE p == Last(ids)
           page == WithRecord(pgs[p], row, Size[row])
           n == Len(pgs[p].slots)
           new == [pages |-> [pgs EXCEPT ![p] = page], ids |-> ids, id |-> <<p, n + 1>>]
<1>1. Inserted(pgs, ids, row) = new
  BY DEF Inserted
<1>2. /\ ids \in Seq(Nat) /\ ids # <<>>
      /\ Len(ids) \in Nat /\ Len(ids) \in DOMAIN ids /\ DOMAIN ids = 1 .. Len(ids)
      /\ p = ids[Len(ids)] /\ p \in DOMAIN pgs
  <2>1. ids \in Seq(Nat) /\ ids # <<>>
    BY DEF HeapSound, LastPageFits
  <2>2. Len(ids) \in Nat /\ Len(ids) # 0 /\ DOMAIN ids = 1 .. Len(ids)
    BY <2>1, LenProperties, EmptySeq
  <2>3. QED
    BY <2>1, <2>2 DEF HeapSound, Last
<1>3. PageSound(pgs[p]) /\ Fits(pgs[p], Size[row])
  BY <1>2 DEF HeapSound, LastPageFits
<1>4. /\ PageSound(page) /\ Len(page.slots) = n + 1
      /\ \A s \in SlotsOf(pgs[p]) : page.slots[s] = pgs[p].slots[s]
      /\ page.slots[n + 1] = [len |-> Size[row], rec |-> row]
  BY <1>3, RecordAdded
<1>5. /\ n \in Nat /\ SlotsOf(pgs[p]) = 1 .. n /\ SlotsOf(page) = 1 .. n + 1
      /\ n + 1 \in 1 .. MaxSlots
  BY <1>3, <1>4, SlotNumbers
<1> HIDE DEF page
<1>6. /\ pgs \in Seq(Page) /\ DOMAIN pgs = 1 .. Len(pgs) /\ page \in Page
  BY <1>4, LenProperties DEF HeapSound, PageSound
<1>7. /\ new.pages \in Seq(Page) /\ Len(new.pages) = Len(pgs) /\ new.pages[p] = page
      /\ \A q \in DOMAIN pgs : q # p => new.pages[q] = pgs[q]
      /\ DOMAIN new.pages = DOMAIN pgs
      /\ new.ids = ids /\ new.id = <<p, n + 1>>
  BY <1>2, <1>6, ExceptSeq
<1> HIDE DEF new, p
<1>8. HeapSound(new.pages, ids)
  <2>1. ASSUME NEW q \in DOMAIN pgs
        PROVE  PageSound(new.pages[q])
    BY <1>4, <1>7 DEF HeapSound
  <2>2. ASSUME NEW i \in DOMAIN ids
        PROVE  ids[i] \in DOMAIN new.pages /\ new.pages[ids[i]].slots # <<>>
    <3>1. ids[i] \in DOMAIN pgs /\ pgs[ids[i]].slots # <<>>
      BY DEF HeapSound
    <3>2. page.slots # <<>>
      BY <1>4, <1>5, EmptySeq
    <3>3. QED
      BY <1>7, <3>1, <3>2
  <2>3. QED
    BY <1>7, <2>1, <2>2 DEF HeapSound
<1>9. Extends(ids, ids)
  BY <1>2 DEF Extends
<1>10. new.id \notin SlotIds(pgs, ids)
  BY <1>5, <1>7 DEF SlotIds
<1>11. SlotIds(new.pages, ids) = SlotIds(pgs, ids) \cup {new.id}
  <2>1. p \in ToSet(ids)
    BY <1>2 DEF ToSet
  <2>2. \A q \in ToSet(ids) : q # p => new.pages[q] = pgs[q]
    BY <1>7 DEF ToSet, HeapSound
  <2>3. SlotsOf(new.pages[p]) = SlotsOf(pgs[p]) \cup {n + 1}
    BY <1>5, <1>7
  <2>4. \A id \in ToSet(ids) \X (1 .. MaxSlots) :
           id \in SlotIds(new.pages, ids) <=> id \in SlotIds(pgs, ids) \/ id = new.id
    <3>1. SUFFICES ASSUME NEW q \in ToSet(ids), NEW s \in 1 .. MaxSlots
                   PROVE  s \in SlotsOf(new.pages[q]) <=>
                             s \in SlotsOf(pgs[q]) \/ <<q, s>> = <<p, n + 1>>
      BY <1>7 DEF SlotIds
    <3>2. QED
      BY <2>2, <2>3
  <2>5. new.id \in ToSet(ids) \X (1 .. MaxSlots)
    BY <1>5, <1>7, <2>1
  <2>6. QED
    BY <2>4, <2>5 DEF SlotIds
<1>12. Slot(new.pages, new.id) = [len |-> Size[row], rec |-> row]
  BY <1>4, <1>7 DEF Slot
<1>13. ASSUME NEW id \in SlotIds(pgs, ids)
       PROVE  Slot(new.pages, id) = Slot(pgs, id)
  <2>1. id[1] \in DOMAIN pgs /\ id[2] \in SlotsOf(pgs[id[1]])
    BY SlotIdParts
  <2>2. CASE id[1] = p
    BY <1>4, <1>7, <2>1, <2>2 DEF Slot
  <2>3. CASE id[1] # p
    BY <1>7, <2>1, <2>3 DEF Slot
  <2>4. QED
    BY <2>2, <2>3
<1>14. SlotsKept(pgs, new.pages) /\ ~IsSlot(pgs, new.id)
  <2>1. \A q \in DOMAIN pgs : SlotsOf(pgs[q]) \subseteq SlotsOf(new.pages[q])
    BY <1>5, <1>7
  <2>2. SlotsKept(pgs, new.pages)
    BY <1>7, <2>1 DEF SlotsKept, IsSlot
  <2>3. ~IsSlot(pgs, new.id)
    BY <1>5, <1>7 DEF IsSlot
  <2>4. QED
    BY <2>2, <2>3
<1>15. QED
  BY <1>1, <1>7, <1>8, <1>9, <1>10, <1>11, <1>12, <1>13, <1>14 DEF RowAdded

\* A heap that does not use the page past the end of the file is not changed by
\* a page that is added there.
LEMMA PageAdded ==
    ASSUME NEW pgs, NEW ids, HeapSound(pgs, ids), NEW page, PageSound(page)
    PROVE  LET new == Append(pgs, page)
           IN  /\ HeapSound(new, ids)
               /\ Len(new) = Len(pgs) + 1 /\ Len(pgs) \in Nat
               /\ new[Len(pgs) + 1] = page
               /\ \A i \in DOMAIN ids : ids[i] # Len(pgs) + 1
               /\ \A p \in DOMAIN pgs : new[p] = pgs[p]
               /\ SlotsKept(pgs, new)
               /\ SlotIds(new, ids) = SlotIds(pgs, ids)
               /\ \A id \in SlotIds(pgs, ids) : Slot(new, id) = Slot(pgs, id)
<1> DEFINE new == Append(pgs, page)
<1>1. /\ pgs \in Seq(Page) /\ page \in Page
      /\ Len(pgs) \in Nat /\ DOMAIN pgs = 1 .. Len(pgs)
  BY LenProperties DEF HeapSound, PageSound
<1>2. /\ new \in Seq(Page) /\ Len(new) = Len(pgs) + 1
      /\ \A p \in 1 .. Len(pgs) : new[p] = pgs[p]
      /\ new[Len(pgs) + 1] = page
  BY <1>1, AppendProperties
<1> HIDE DEF new
<1>3. DOMAIN new = 1 .. Len(pgs) + 1
  BY <1>2, LenProperties
<1>4. \A i \in DOMAIN ids : ids[i] \in 1 .. Len(pgs)
  BY <1>1 DEF HeapSound
<1>5. \A p \in DOMAIN new : PageSound(new[p])
  BY <1>1, <1>2, <1>3 DEF HeapSound
<1>6. HeapSound(new, ids)
  BY <1>1, <1>2, <1>3, <1>4, <1>5 DEF HeapSound
<1>7. SlotIds(new, ids) = SlotIds(pgs, ids)
  <2>1. \A q \in ToSet(ids) : new[q] = pgs[q]
    BY <1>2, <1>4 DEF ToSet
  <2>2. QED
    BY <2>1 DEF SlotIds
<1>8. \A id \in SlotIds(pgs, ids) : Slot(new, id) = Slot(pgs, id)
  BY <1>1, <1>2, SlotIdParts DEF Slot
<1>9. \A i \in DOMAIN ids : ids[i] # Len(pgs) + 1
  BY <1>1, <1>4
<1>10. SlotsKept(pgs, new)
  BY <1>1, <1>2, <1>3 DEF SlotsKept, IsSlot
<1>11. QED
  BY <1>1, <1>2, <1>6, <1>7, <1>8, <1>9, <1>10 DEF new

\* The row goes into a new page, which the list then ends with.
LEMMA AddedToNew ==
    ASSUME NEW pgs, NEW ids, HeapSound(pgs, ids), NEW row \in Record,
           ~TooLarge(row), ~LastPageFits(pgs, ids, row)
    PROVE  /\ RowAdded(pgs, ids, row, Inserted(pgs, ids, row))
           /\ Len(Inserted(pgs, ids, row).pages) = Len(pgs) + 1
<1> DEFINE p == Len(pgs) + 1
           page == WithRecord(EmptyPage, row, Size[row])
           longer == Append(ids, p)
           grown == Append(pgs, page)
           new == [pages |-> grown, ids |-> longer, id |-> <<p, 1>>]
<1>1. Inserted(pgs, ids, row) = new
  BY DEF Inserted
<1>2. /\ PageSound(page) /\ Len(page.slots) = 1
      /\ page.slots[1] = [len |-> Size[row], rec |-> row]
  <2>1. Fits(EmptyPage, Size[row])
    BY DEF Fits, EmptyPage, TooLarge
  <2>2. EmptyPage.slots = <<>> /\ Len(<<>>) = 0
    BY EmptySeq DEF EmptyPage
  <2> DEFINE empty == EmptyPage
  <2>3. empty.slots = <<>> /\ Fits(empty, Size[row]) /\ PageSound(empty)
    BY <2>1, <2>2, EmptyPageSound
  <2>4. page = WithRecord(empty, row, Size[row])
    OBVIOUS
  <2> HIDE DEF empty, page
  <2>5. /\ PageSound(page) /\ Len(page.slots) = Len(empty.slots) + 1
        /\ page.slots[Len(empty.slots) + 1] = [len |-> Size[row], rec |-> row]
    BY <2>3, <2>4, RecordAdded
  <2>6. QED
    BY <2>2, <2>3, <2>5
<1>3. SlotsOf(page) = {1} /\ 1 \in 1 .. MaxSlots /\ page.slots # <<>>
  <2>1. SlotsOf(page) = 1 .. 1 /\ 1 \in 1 .. MaxSlots
    BY <1>2, SlotNumbers
  <2>2. QED
    BY <1>2, <2>1, EmptySeq
<1> HIDE DEF page
<1>4. /\ HeapSound(grown, ids)
      /\ Len(grown) = p /\ Len(pgs) \in Nat /\ grown[p] = page
      /\ \A i \in DOMAIN ids : ids[i] # p
      /\ \A q \in DOMAIN pgs : grown[q] = pgs[q]
      /\ SlotsKept(pgs, grown)
      /\ SlotIds(grown, ids) = SlotIds(pgs, ids)
      /\ \A id \in SlotIds(pgs, ids) : Slot(grown, id) = Slot(pgs, id)
  BY <1>2, PageAdded
<1>5. new.pages = grown /\ new.ids = longer /\ new.id = <<p, 1>>
  OBVIOUS
<1> HIDE DEF grown
<1>6. /\ grown \in Seq(Page) /\ DOMAIN grown = 1 .. p /\ p \in Nat /\ p \in DOMAIN grown
      /\ ids \in Seq(Nat) /\ Len(ids) \in Nat /\ DOMAIN ids = 1 .. Len(ids)
  BY <1>4, LenProperties DEF HeapSound
<1>7. /\ longer \in Seq(Nat) /\ Len(longer) = Len(ids) + 1
      /\ \A i \in 1 .. Len(ids) : longer[i] = ids[i]
      /\ longer[Len(ids) + 1] = p
  BY <1>6, AppendProperties
<1> HIDE DEF new, longer, p
<1>8. DOMAIN longer = 1 .. Len(ids) + 1
  BY <1>7, LenProperties
<1>9. HeapSound(grown, longer)
  <2>1. ASSUME NEW i \in DOMAIN longer
        PROVE  longer[i] \in DOMAIN grown /\ grown[longer[i]].slots # <<>>
    <3>1. CASE i = Len(ids) + 1
      BY <1>3, <1>4, <1>6, <1>7, <3>1
    <3>2. CASE i \in 1 .. Len(ids)
      BY <1>4, <1>6, <1>7, <3>2 DEF HeapSound
    <3>3. QED
      BY <1>6, <1>8, <3>1, <3>2
  <2>2. ASSUME NEW i \in DOMAIN longer, NEW j \in DOMAIN longer, longer[i] = longer[j]
        PROVE  i = j
    <3>1. \A k \in 1 .. Len(ids) : longer[k] # p
      BY <1>4, <1>6, <1>7
    <3>2. CASE i \in 1 .. Len(ids) /\ j \in 1 .. Len(ids)
      BY <1>4, <1>6, <1>7, <2>2, <3>2 DEF HeapSound, IsInjective
    <3>3. QED
      BY <1>6, <1>7, <1>8, <2>2, <3>1, <3>2
  <2>3. QED
    BY <1>4, <1>7, <2>1, <2>2 DEF HeapSound, IsInjective
<1>10. Extends(longer, ids)
  BY <1>6, <1>7 DEF Extends
<1>11. ToSet(longer) = ToSet(ids) \cup {p} /\ p \notin ToSet(ids)
  <2>1. DOMAIN longer = DOMAIN ids \cup {Len(ids) + 1}
    BY <1>6, <1>8
  <2>2. \A i \in DOMAIN ids : longer[i] = ids[i]
    BY <1>6, <1>7
  <2>3. ToSet(longer) = ToSet(ids) \cup {p}
    BY <1>7, <2>1, <2>2 DEF ToSet
  <2>4. QED
    BY <1>4, <2>3 DEF ToSet
<1>12. new.id \notin SlotIds(pgs, ids)
  BY <1>5, <1>11 DEF SlotIds
<1>13. SlotIds(grown, longer) = SlotIds(grown, ids) \cup {new.id}
  <2>1. SlotsOf(grown[p]) = {1}
    BY <1>3, <1>4
  <2>2. ASSUME NEW q \in ToSet(longer), NEW s \in 1 .. MaxSlots
        PROVE  s \in SlotsOf(grown[q]) <=>
                  (q \in ToSet(ids) /\ s \in SlotsOf(grown[q])) \/ <<q, s>> = <<p, 1>>
    BY <1>11, <2>1
  <2>3. \A id \in ToSet(longer) \X (1 .. MaxSlots) :
           id \in SlotIds(grown, longer) <=> id \in SlotIds(grown, ids) \/ id = new.id
    BY <1>5, <2>2 DEF SlotIds
  <2>4. new.id \in ToSet(longer) \X (1 .. MaxSlots)
    BY <1>3, <1>5, <1>11
  <2>5. SlotIds(grown, ids) \subseteq ToSet(longer) \X (1 .. MaxSlots)
    BY <1>11 DEF SlotIds
  <2>6. SlotIds(grown, longer) \subseteq ToSet(longer) \X (1 .. MaxSlots)
    BY DEF SlotIds
  <2>7. QED
    BY <2>3, <2>4, <2>5, <2>6
<1>14. Slot(grown, new.id) = [len |-> Size[row], rec |-> row]
  BY <1>2, <1>4, <1>5 DEF Slot
<1>15. ~IsSlot(pgs, new.id)
  <2>1. DOMAIN pgs = 1 .. Len(pgs)
    BY LenProperties DEF HeapSound
  <2>2. new.id[1] = Len(pgs) + 1
    BY <1>5 DEF p
  <2>3. QED
    BY <1>4, <2>1, <2>2 DEF IsSlot
<1>16. QED
  BY <1>1, <1>4, <1>5, <1>9, <1>10, <1>12, <1>13, <1>14, <1>15 DEF RowAdded, p

\* insert(): the heap stays sound and has one row more.
LEMMA RowInserted ==
    ASSUME NEW pgs, NEW ids, HeapSound(pgs, ids), NEW row \in Record, ~TooLarge(row)
    PROVE  /\ RowAdded(pgs, ids, row, Inserted(pgs, ids, row))
           /\ Len(pgs) \in Nat
           /\ Len(Inserted(pgs, ids, row).pages)
                = IF LastPageFits(pgs, ids, row) THEN Len(pgs) ELSE Len(pgs) + 1
<1>1. Len(pgs) \in Nat
  BY LenProperties DEF HeapSound
<1>2. QED
  BY <1>1, AddedToLast, AddedToNew

\* The entry of a row is sound.
LEMMA RowEntry ==
    ASSUME NEW row \in Record
    PROVE  LET e == [len |-> Size[row], rec |-> row]
           IN  e \in Entry /\ EntrySound(e) /\ e.len # 0
  BY DEF Entry, EntrySound

\* So is a tombstone.
LEMMA TombstoneEntry == Tombstone \in Entry /\ EntrySound(Tombstone) /\ Tombstone.len = 0
  BY DEF Entry, EntrySound, Tombstone
----------------------------------------------------------------------------
\* A row id the operations take names a slot with a record.
LEMMA LiveIdsAre ==
    ASSUME NEW pgs, NEW ids
    PROVE  LiveIds(pgs, ids) = {id \in SlotIds(pgs, ids) : Slot(pgs, id).len # 0}
  BY DEF LiveIds, SlotIds, Live, Slot, SlotsOf

\* delete(): a tombstone takes the place of the row.
LEMMA RowDeleted ==
    ASSUME NEW pgs, NEW ids, HeapSound(pgs, ids), NEW id \in SlotIds(pgs, ids)
    PROVE  OnlyChanged(pgs, ids, id, Tombstone, Deleted(pgs, id))
<1>1. Tombstone \in Entry /\ EntrySound(Tombstone)
  BY TombstoneEntry
<1>2. Deleted(pgs, id) = WithEntry(pgs, id, Tombstone)
  BY DEF Deleted, WithoutRecord, WithEntry
<1>3. QED
  BY <1>1, <1>2, EntryChanged

\* update() in place: the new row takes the place of the old one.
LEMMA RowOverwritten ==
    ASSUME NEW pgs, NEW ids, HeapSound(pgs, ids), NEW id \in SlotIds(pgs, ids), NEW row \in Record
    PROVE  OnlyChanged(pgs, ids, id, [len |-> Size[row], rec |-> row],
                       Overwritten(pgs, id, row))
<1> DEFINE e == [len |-> Size[row], rec |-> row]
<1>1. e \in Entry /\ EntrySound(e)
  BY RowEntry
<1>2. Overwritten(pgs, id, row) = WithEntry(pgs, id, e)
  BY DEF Overwritten, WithReplaced, WithEntry
<1> HIDE DEF e
<1>3. OnlyChanged(pgs, ids, id, e, Overwritten(pgs, id, row))
  BY <1>1, <1>2, EntryChanged
<1>4. QED
  BY <1>3 DEF e

\* One slot is new and has the row, slot id has a tombstone, the others are as before.
RowMoved(pgs, ids, id, row, new) ==
    /\ HeapSound(new.pages, new.ids)
    /\ Len(new.pages) = Len(Inserted(pgs, ids, row).pages)
    /\ Extends(new.ids, ids)
    /\ SlotsKept(pgs, new.pages)
    /\ ~IsSlot(pgs, new.id)
    /\ new.id \notin SlotIds(pgs, ids)
    /\ SlotIds(new.pages, new.ids) = SlotIds(pgs, ids) \cup {new.id}
    /\ Slot(new.pages, new.id) = [len |-> Size[row], rec |-> row]
    /\ Slot(new.pages, id) = Tombstone
    /\ \A other \in SlotIds(pgs, ids) \ {id} : Slot(new.pages, other) = Slot(pgs, other)

\* update() that moves the row: the row is added, then the old one deleted.
LEMMA RowRelocated ==
    ASSUME NEW pgs, NEW ids, HeapSound(pgs, ids), NEW id \in SlotIds(pgs, ids),
           NEW row \in Record, ~TooLarge(row), ~StaysInPlace(pgs, id, row)
    PROVE  RowMoved(pgs, ids, id, row, Updated(pgs, ids, id, row))
<1> DEFINE ins == Inserted(pgs, ids, row)
           new == Updated(pgs, ids, id, row)
<1>1. RowAdded(pgs, ids, row, ins)
  BY RowInserted
<1>2. new.pages = Deleted(ins.pages, id) /\ new.ids = ins.ids /\ new.id = ins.id
  <2>1. new = [ins EXCEPT !.pages = Deleted(@, id)]
    BY DEF Updated
  <2>2. ins = [pages |-> ins.pages, ids |-> ins.ids, id |-> ins.id]
    BY DEF Inserted
  <2> HIDE DEF ins, new
  <2>3. QED
    BY <2>1, <2>2
<1> HIDE DEF ins, new
<1>3. /\ HeapSound(ins.pages, ins.ids) /\ id \in SlotIds(ins.pages, ins.ids)
      /\ ins.id \in SlotIds(ins.pages, ins.ids) /\ ins.id # id
  BY <1>1 DEF RowAdded
<1>4. /\ HeapSound(new.pages, ins.ids)
      /\ Len(new.pages) = Len(ins.pages)
      /\ SlotsKept(ins.pages, new.pages)
      /\ SlotIds(new.pages, ins.ids) = SlotIds(ins.pages, ins.ids)
      /\ Slot(new.pages, id) = Tombstone
      /\ \A other \in SlotIds(ins.pages, ins.ids) \ {id} :
            Slot(new.pages, other) = Slot(ins.pages, other)
  BY <1>2, <1>3, RowDeleted DEF OnlyChanged
<1>5. SlotsKept(pgs, new.pages)
  BY <1>1, <1>4 DEF RowAdded, SlotsKept
<1>6. QED
  BY <1>1, <1>2, <1>3, <1>4, <1>5 DEF RowAdded, RowMoved, new, ins
\* A list that names each page once puts two row ids in one order, and a list
\* that goes on after it puts them in the same order.
LEMMA OneOrder ==
    ASSUME NEW ids \in Seq(Nat), NEW longer \in Seq(Nat), Extends(longer, ids),
           IsInjective(longer), NEW x \in Nat \X Nat, NEW y \in Nat \X Nat, Before(ids, x, y)
    PROVE  x # y /\ ~Before(longer, y, x)
<1>1. PICK a \in 1 .. Len(ids), b \in 1 .. Len(ids) :
         /\ ids[a] = x[1] /\ ids[b] = y[1]
         /\ a < b \/ (a = b /\ x[2] < y[2])
  BY DEF Before
<1>2. /\ Len(ids) \in Nat /\ Len(longer) \in Nat /\ Len(ids) <= Len(longer)
      /\ DOMAIN longer = 1 .. Len(longer) /\ x[2] \in Nat /\ y[2] \in Nat
  BY LenProperties DEF Extends
<1>3. a \in DOMAIN longer /\ b \in DOMAIN longer /\ longer[a] = x[1] /\ longer[b] = y[1]
  <2>1. a \in DOMAIN longer /\ b \in DOMAIN longer
    BY <1>2
  <2>2. longer[a] = ids[a] /\ longer[b] = ids[b]
    BY DEF Extends
  <2>3. QED
    BY <1>1, <2>1, <2>2
<1>4. \A c, d \in DOMAIN longer : longer[c] = longer[d] => c = d
  BY DEF IsInjective
<1>5. x # y
  <2>1. SUFFICES ASSUME x = y
                 PROVE  FALSE
    OBVIOUS
  <2>2. a = b
    BY <1>3, <1>4, <2>1
  <2>3. QED
    BY <1>1, <1>2, <2>1, <2>2
<1>6. ~Before(longer, y, x)
  <2>1. SUFFICES ASSUME NEW c \in 1 .. Len(longer), NEW d \in 1 .. Len(longer),
                        longer[c] = y[1], longer[d] = x[1],
                        c < d \/ (c = d /\ y[2] < x[2])
                 PROVE  FALSE
    BY DEF Before
  <2>2. c = b /\ d = a
    BY <1>2, <1>3, <1>4, <2>1
  <2>3. QED
    BY <1>1, <1>2, <2>1, <2>2
<1>7. QED
  BY <1>5, <1>6

\* What a scan of a sound heap yields.
LEMMA SoundScan ==
    ASSUME NEW pgs, NEW ids, HeapSound(pgs, ids)
    PROVE  /\ ScanGood(pgs, ids, Len(ids), ScannedIds(pgs, ids))
           /\ DOMAIN ScannedIds(pgs, ids) = 1 .. Len(ScannedIds(pgs, ids))
           /\ Len(ScannedIds(pgs, ids)) \in Nat
           /\ \A i \in DOMAIN ScannedIds(pgs, ids) : ScannedIds(pgs, ids)[i] \in Nat \X Nat
<1> DEFINE found == ScannedIds(pgs, ids)
<1>1. /\ ids \in Seq(Nat)
      /\ \A i \in 1 .. Len(ids) : pgs[ids[i]].slots \in Seq(Entry)
  <2>1. ids \in Seq(Nat) /\ DOMAIN ids = 1 .. Len(ids)
    BY LenProperties DEF HeapSound
  <2>2. QED
    BY <2>1 DEF HeapSound, PageSound, Page
<1>2. ScanGood(pgs, ids, Len(ids), found)
  BY <1>1, HeapScan
<1> HIDE DEF found
<1>3. found \in Seq(Nat \X Nat)
  BY <1>2 DEF ScanGood
<1>4. DOMAIN found = 1 .. Len(found) /\ Len(found) \in Nat
  BY <1>3, LenProperties
<1>5. \A i \in DOMAIN found : found[i] \in Nat \X Nat
  BY <1>3, <1>4, ElementOfSeq
<1>6. QED
  BY <1>2, <1>4, <1>5 DEF found
=============================================================================
