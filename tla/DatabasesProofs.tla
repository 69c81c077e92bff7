-------------------------- MODULE DatabasesProofs --------------------------
(***************************************************************************)
(* Proofs about Databases for every set of names and tables and every size *)
(* of a catalog page.                                                      *)
(***************************************************************************)
EXTENDS Databases, SequenceTheorems, TLAPS

USE DatabasesAssumption

TypeOK ==
    /\ phase \in {"down", "up", "refused"}
    /\ catalog \in [Names -> (SUBSET Tables) \cup {None}]
    /\ active \in Names \cup {None}
    /\ storage \in [Names -> Seq(Tables) \cup {None}]
    /\ files \in [Names -> Seq(Tables) \cup {None, Unreadable}]
    /\ op \in {Idle} \cup [step : {"create_file", "initialize"}, name : Names]
                     \cup [step : {"store_table"}, name : Names, table : Tables]
    /\ promised \subseteq Names \X (Tables \cup {None})
    /\ damaged \subseteq Names

\* The running CREATE has reached this step in database d.
At(step, d) == op.step = step /\ op.name = d

\* The tables of d in memory, but for one that is not stored yet.
Settled(d) == IF At("store_table", d) THEN Popped(storage[d]) ELSE storage[d]

\* Nothing runs, and the session knows nothing, unless the process is up.
SessionIsUp ==
    phase # "up" => op = Idle /\ catalog = Nowhere /\ active = None /\ storage = Nowhere

\* The database of USE is in the catalog.
ActiveKnown == active # None => catalog[active] # None

\* What the running CREATE has found, and left behind so far.
StepsInOrder ==
    \A d \in Names :
       /\ At("create_file", d) => catalog[d] # None /\ storage[d] = None /\ files[d] = None
       /\ At("initialize", d) => catalog[d] # None /\ storage[d] = None /\ files[d] = Unreadable
       /\ At("store_table", d) =>
             \E tables \in Seq(Tables) : /\ storage[d] = Append(tables, op.table)
                                         /\ op.table \notin Range(tables)

\* The session knows what memory and the files have.
Covered ==
    phase = "up" =>
       \A d \in Names :
          \A file \in {storage[d], files[d]} :
             /\ file # None => catalog[d] # None
             /\ Readable(file) => Range(file) \subseteq catalog[d]

\* No list of tables names one twice, so open() can enter them all.
NoDoubles ==
    \A d \in Names : /\ storage[d] # None => IsInjective(storage[d])
                     /\ Readable(files[d]) => IsInjective(files[d])

\* A file agrees with memory but for the step that is about to be taken.
FilesSettled ==
    phase = "up" => \A d \in Names \ damaged : \/ files[d] = Settled(d)
                                               \/ At("initialize", d)

\* What was acknowledged is in memory.
PromisesInMemory ==
    phase = "up" =>
       \A p \in promised : /\ Settled(p[1]) # None
                           /\ p[2] = None \/ p[2] \in Range(Settled(p[1]))

\* A file without a catalog is being initialized, or a failure left it.
UnreadableHasCause ==
    \A d \in Names : files[d] = Unreadable => d \in damaged \/ At("initialize", d)

IInv == /\ TypeOK
        /\ SessionIsUp
        /\ ActiveKnown
        /\ StepsInOrder
        /\ Covered
        /\ NoDoubles
        /\ FilesSettled
        /\ PromisesInMemory
        /\ PromisesKept
        /\ UnreadableHasCause
        /\ RefusalHasCause
----------------------------------------------------------------------------
\* One more table: what it does to the list, and how it is taken back.
LEMMA AppendedTable ==
    ASSUME NEW s \in Seq(Tables), NEW t \in Tables
    PROVE  /\ Append(s, t) \in Seq(Tables)
           /\ Popped(Append(s, t)) = s
           /\ Range(Append(s, t)) = Range(s) \cup {t}
           /\ IsInjective(Append(s, t)) => IsInjective(s)
           /\ IsInjective(s) /\ t \notin Range(s) => IsInjective(Append(s, t))
<1> DEFINE a == Append(s, t)
<1>1. /\ a \in Seq(Tables) /\ Len(a) = Len(s) + 1 /\ Len(s) \in Nat
      /\ \A i \in 1 .. Len(s) : a[i] = s[i]
      /\ a[Len(s) + 1] = t
      /\ DOMAIN a = 1 .. Len(s) + 1 /\ DOMAIN s = 1 .. Len(s)
  OBVIOUS
<1>2. \A i \in DOMAIN a : i \in DOMAIN s \/ i = Len(s) + 1
  BY <1>1
<1>3. Popped(a) = s
  <2>1. Popped(a) = SubSeq(a, 1, Len(s))
    BY <1>1 DEF Popped
  <2>2. SubSeq(a, 1, Len(s)) = s
    BY <1>1
  <2>3. QED
    BY <2>1, <2>2
<1>4. Range(a) = Range(s) \cup {t}
  BY <1>1, <1>2 DEF Range
<1>5. IsInjective(a) => IsInjective(s)
  BY <1>1 DEF IsInjective
<1>6. IsInjective(s) /\ t \notin Range(s) => IsInjective(a)
  BY <1>1, <1>2 DEF IsInjective, Range
<1>7. QED
  BY <1>1, <1>3, <1>4, <1>5, <1>6

\* The empty list names nothing.
LEMMA NoTables == <<>> \in Seq(Tables) /\ Range(<<>>) = {} /\ IsInjective(<<>>)
BY DEF Range, IsInjective

\* One file is written, or its tables in memory are changed.
LEMMA Written ==
    ASSUME NEW R, NEW f \in [Names -> R], NEW d \in Names, NEW x \in R
    PROVE  /\ [f EXCEPT ![d] = x] \in [Names -> R]
           /\ [f EXCEPT ![d] = x][d] = x
           /\ \A e \in Names : e # d => [f EXCEPT ![d] = x][e] = f[e]
OBVIOUS
----------------------------------------------------------------------------
\* Every step of the process keeps IInv.

\* open() reads back what was acknowledged, or says why it cannot.
LEMMA StartStep == IInv /\ Start => IInv'
<1> SUFFICES ASSUME IInv, Start
             PROVE  IInv'
  OBVIOUS
<1>1. /\ phase # "up" /\ op = Idle /\ active = None
      /\ phase' = "up" /\ storage' = files /\ files' = files /\ damaged' = {}
      /\ op' = Idle /\ active' = None /\ promised' = promised
  BY DEF IInv, SessionIsUp, Start, TypeOK
<1>2. \A d \in Names : files[d] = None \/ files[d] \in Seq(Tables)
  BY DEF IInv, TypeOK, Start, Opens, Readable
<1>3. \A d \in Names : catalog'[d] = IF files[d] = None THEN None ELSE Range(files[d])
  BY <1>2 DEF Start, CatalogOf, Readable
<1>4. \A d \in Names : /\ Settled(d)' = files[d]
                       /\ ~At("create_file", d)' /\ ~At("initialize", d)'
                       /\ ~At("store_table", d)'
  BY <1>1 DEF Settled, At, Idle
<1>5. TypeOK'
  <2>1. \A d \in Names : files[d] # None => Range(files[d]) \in SUBSET Tables
    BY <1>2 DEF Range
  <2>2. catalog' \in [Names -> (SUBSET Tables) \cup {None}]
    BY <1>3, <2>1 DEF Start, CatalogOf
  <2>3. files \in [Names -> Seq(Tables) \cup {None}]
    BY <1>2 DEF IInv, TypeOK
  <2>4. QED
    BY <1>1, <2>2, <2>3 DEF IInv, TypeOK
<1>6. SessionIsUp' /\ ActiveKnown' /\ StepsInOrder'
  BY <1>1, <1>4 DEF SessionIsUp, ActiveKnown, StepsInOrder
<1>7. Covered'
  <2>1. \A d \in Names : files[d] # None => Range(files[d]) \in SUBSET Tables
    BY <1>2 DEF Range
  <2>2. QED
    BY <1>1, <1>3, <2>1 DEF Covered, Readable
<1>8. NoDoubles'
  BY <1>1, <1>2 DEF NoDoubles, IInv, Readable
<1>9. FilesSettled' /\ PromisesKept'
  BY <1>1, <1>2, <1>4 DEF FilesSettled, PromisesKept, IInv, Readable, TypeOK
<1>10. PromisesInMemory'
  BY <1>1, <1>2, <1>4 DEF PromisesInMemory, PromisesKept, IInv, Readable, TypeOK
<1>11. UnreadableHasCause' /\ RefusalHasCause'
  BY <1>1, <1>2 DEF UnreadableHasCause, RefusalHasCause
<1>12. QED
  BY <1>5, <1>6, <1>7, <1>8, <1>9, <1>10, <1>11 DEF IInv

\* A file that open() rejects is one without a catalog, and that has a cause.
LEMMA StartRefusedStep == IInv /\ StartRefused => IInv'
<1> SUFFICES ASSUME IInv, StartRefused
             PROVE  IInv'
  OBVIOUS
<1>1. phase # "up" /\ op = Idle /\ phase' = "refused"
  BY DEF IInv, SessionIsUp, StartRefused
<1>2. UNCHANGED <<catalog, active, storage, files, op, promised, damaged>>
  BY DEF StartRefused
<1>3. \E d \in damaged : files[d] = Unreadable
  <2>1. PICK d \in Names : files[d] # None /\ ~(Readable(files[d]) /\ IsInjective(files[d]))
    BY DEF StartRefused, Opens
  <2>2. files[d] = Unreadable
    BY <2>1 DEF IInv, NoDoubles, Readable
  <2>3. QED
    BY <1>1, <2>2 DEF IInv, UnreadableHasCause, At, Idle
<1>4. TypeOK'
  BY <1>1, <1>2 DEF IInv, TypeOK
<1>5. SessionIsUp' /\ ActiveKnown' /\ StepsInOrder' /\ Covered' /\ NoDoubles'
  BY <1>1, <1>2
  DEF IInv, SessionIsUp, ActiveKnown, StepsInOrder, Covered, NoDoubles, At
<1>6. FilesSettled' /\ PromisesInMemory' /\ PromisesKept' /\ UnreadableHasCause'
  BY <1>1, <1>2
  DEF IInv, FilesSettled, PromisesInMemory, PromisesKept, UnreadableHasCause, At
<1>7. RefusalHasCause'
  BY <1>2, <1>3 DEF RefusalHasCause
<1>8. QED
  BY <1>4, <1>5, <1>6, <1>7 DEF IInv

\* A process that ends in the middle of a statement damages at most its file.
LEMMA ProcessEndsStep == IInv /\ ProcessEnds => IInv'
<1> SUFFICES ASSUME IInv, ProcessEnds
             PROVE  IInv'
  OBVIOUS
<1>1. /\ phase = "up" /\ phase' = "down" /\ op' = Idle /\ promised' = promised
      /\ catalog' = Nowhere /\ active' = None /\ storage' = Nowhere
  BY DEF ProcessEnds
<1>2. \/ UNCHANGED <<files, damaged>> /\ \A d \in Names : ~At("initialize", d)
      \/ \E d \in Names : /\ At("initialize", d)
                          /\ \/ files' = [files EXCEPT ![d] = <<>>] /\ UNCHANGED damaged
                             \/ damaged' = damaged \cup {d} /\ UNCHANGED files
      \/ \E d \in Names : /\ At("store_table", d)
                          /\ files' = [files EXCEPT ![d] = storage[d]] /\ UNCHANGED damaged
  BY DEF ProcessEnds, IInv, TypeOK, At, Idle
<1>3. ASSUME UNCHANGED <<files, damaged>>, \A d \in Names : ~At("initialize", d)
      PROVE  NoDoubles' /\ PromisesKept' /\ UnreadableHasCause' /\ TypeOK'
  BY <1>1, <1>3 DEF IInv, TypeOK, NoDoubles, PromisesKept, UnreadableHasCause, Nowhere
<1>4. ASSUME NEW d \in Names, At("initialize", d),
             \/ files' = [files EXCEPT ![d] = <<>>] /\ UNCHANGED damaged
             \/ damaged' = damaged \cup {d} /\ UNCHANGED files
      PROVE  NoDoubles' /\ PromisesKept' /\ UnreadableHasCause' /\ TypeOK'
  <2>1. \A p \in promised : p[1] # d
    BY <1>1, <1>4 DEF IInv, PromisesInMemory, Settled, At, StepsInOrder
  <2>2. \A e \in Names : e # d => files'[e] = files[e] /\ ~At("initialize", e)
    BY <1>4 DEF IInv, TypeOK, At
  <2>3. files' \in [Names -> Seq(Tables) \cup {None, Unreadable}] /\ damaged' \subseteq Names
    <3>1. files \in [Names -> Seq(Tables) \cup {None, Unreadable}] /\ damaged \subseteq Names
      BY DEF IInv, TypeOK
    <3>2. <<>> \in Seq(Tables) \cup {None, Unreadable}
      BY NoTables
    <3>3. [files EXCEPT ![d] = <<>>] \in [Names -> Seq(Tables) \cup {None, Unreadable}]
      BY <3>1, <3>2, Written
    <3>4. QED
      BY <1>4, <3>1, <3>3
  <2>4. \/ files'[d] = <<>> /\ damaged' = damaged
        \/ files'[d] = files[d] /\ damaged' = damaged \cup {d}
    BY <1>4 DEF IInv, TypeOK
  <2>5. NoDoubles'
    BY <1>1, <2>2, <2>4, NoTables DEF IInv, NoDoubles, Nowhere
  <2>6. PromisesKept'
    BY <1>1, <2>1, <2>2, <2>4 DEF IInv, TypeOK, PromisesKept
  <2>7. UnreadableHasCause'
    BY <2>2, <2>4, NoTables DEF IInv, UnreadableHasCause
  <2>8. QED
    BY <1>1, <2>3, <2>5, <2>6, <2>7 DEF IInv, TypeOK, Nowhere
<1>5. ASSUME NEW d \in Names, At("store_table", d),
             files' = [files EXCEPT ![d] = storage[d]], UNCHANGED damaged
      PROVE  NoDoubles' /\ PromisesKept' /\ UnreadableHasCause' /\ TypeOK'
  <2>1. PICK tables \in Seq(Tables) : storage[d] = Append(tables, op.table)
    BY <1>5 DEF IInv, StepsInOrder
  <2>2. op.table \in Tables
    BY <1>5 DEF IInv, TypeOK, At, Idle
  <2>3. Settled(d) = tables /\ storage[d] \in Seq(Tables)
        /\ Range(storage[d]) = Range(tables) \cup {op.table}
    BY <1>5, <2>1, <2>2, AppendedTable DEF Settled
  <2>4. files'[d] = storage[d] /\ \A e \in Names : e # d => files'[e] = files[e]
    BY <1>5 DEF IInv, TypeOK
  <2>5. files' \in [Names -> Seq(Tables) \cup {None, Unreadable}]
    BY <1>5, <2>3 DEF IInv, TypeOK
  <2>6. NoDoubles'
    BY <1>1, <2>3, <2>4 DEF IInv, NoDoubles, Nowhere
  <2>7. PromisesKept'
    BY <1>1, <1>5, <2>3, <2>4 DEF IInv, TypeOK, PromisesKept, PromisesInMemory, Readable
  <2>8. UnreadableHasCause'
    BY <1>5, <2>3, <2>4 DEF IInv, UnreadableHasCause, At
  <2>9. QED
    BY <1>1, <1>5, <2>5, <2>6, <2>7, <2>8 DEF IInv, TypeOK, Nowhere
<1>6. NoDoubles' /\ PromisesKept' /\ UnreadableHasCause' /\ TypeOK'
  BY <1>2, <1>3, <1>4, <1>5
<1>7. SessionIsUp' /\ ActiveKnown' /\ Covered' /\ FilesSettled' /\ PromisesInMemory' /\ RefusalHasCause'
  BY <1>1
  DEF SessionIsUp, ActiveKnown, Covered, FilesSettled, PromisesInMemory, RefusalHasCause
<1>8. StepsInOrder'
  BY <1>1 DEF StepsInOrder, At, Idle
<1>9. QED
  BY <1>6, <1>7, <1>8 DEF IInv

\* USE changes the selection only.
LEMMA UseDatabaseStep == ASSUME IInv, NEW d \in Names, UseDatabase(d) PROVE IInv'
<1>1. /\ phase = "up" /\ catalog[d] # None /\ active' = d
      /\ UNCHANGED <<phase, catalog, storage, files, op, promised, damaged>>
  BY DEF UseDatabase, Ready
<1>2. TypeOK' /\ SessionIsUp' /\ ActiveKnown' /\ StepsInOrder'
  BY <1>1 DEF IInv, TypeOK, SessionIsUp, ActiveKnown, StepsInOrder, At
<1>3. Covered' /\ NoDoubles' /\ FilesSettled' /\ PromisesInMemory'
  BY <1>1 DEF IInv, Covered, NoDoubles, FilesSettled, PromisesInMemory, Settled, At
<1>4. PromisesKept' /\ UnreadableHasCause' /\ RefusalHasCause'
  BY <1>1 DEF IInv, PromisesKept, UnreadableHasCause, RefusalHasCause, At
<1>5. QED
  BY <1>2, <1>3, <1>4 DEF IInv

\* A name that is new to the Catalog is new to DiskStorage and the directory.
LEMMA CreateDatabaseStep == ASSUME IInv, NEW d \in Names, CreateDatabase(d) PROVE IInv'
<1>1. /\ phase = "up" /\ op = Idle /\ catalog[d] = None
      /\ catalog' = [catalog EXCEPT ![d] = {}]
      /\ op' = IF NewToDisk(d) THEN [step |-> "create_file", name |-> d] ELSE Idle
      /\ UNCHANGED <<phase, active, storage, files, promised, damaged>>
  BY DEF CreateDatabase, Ready, NewDatabase
<1>2. storage[d] = None /\ files[d] = None
  BY <1>1 DEF IInv, Covered
<1>3. op' = [step |-> "create_file", name |-> d]
  BY <1>1, <1>2 DEF NewToDisk
<1>4. \A e \in Names : /\ At("create_file", e)' <=> e = d
                       /\ ~At("initialize", e)' /\ ~At("initialize", e)
                       /\ ~At("store_table", e)' /\ ~At("store_table", e)
  BY <1>1, <1>3 DEF At, Idle
<1>5. /\ catalog' \in [Names -> (SUBSET Tables) \cup {None}]
      /\ catalog'[d] = {} /\ {} # None
      /\ \A e \in Names : e # d => catalog'[e] = catalog[e]
  BY <1>1, Written DEF IInv, TypeOK
<1>6. TypeOK' /\ SessionIsUp' /\ ActiveKnown' /\ StepsInOrder'
  <2>1. op' \in [step : {"create_file", "initialize"}, name : Names]
    BY <1>3
  <2>2. TypeOK'
    BY <1>1, <1>5, <2>1 DEF IInv, TypeOK
  <2>3. SessionIsUp' /\ ActiveKnown'
    BY <1>1, <1>5 DEF IInv, SessionIsUp, ActiveKnown, TypeOK
  <2>4. StepsInOrder'
    BY <1>1, <1>2, <1>4, <1>5 DEF StepsInOrder
  <2>5. QED
    BY <2>2, <2>3, <2>4
<1>7. Covered' /\ NoDoubles'
  <2>1. ~Readable(None)
    BY DEF Readable
  <2>2. QED
    BY <1>1, <1>2, <1>5, <2>1 DEF IInv, Covered, NoDoubles, Readable
<1>8. FilesSettled' /\ PromisesInMemory' /\ UnreadableHasCause'
  BY <1>1, <1>4
  DEF IInv, FilesSettled, PromisesInMemory, UnreadableHasCause, Settled, TypeOK
<1>9. PromisesKept' /\ RefusalHasCause'
  BY <1>1 DEF IInv, PromisesKept, RefusalHasCause
<1>10. QED
  BY <1>6, <1>7, <1>8, <1>9 DEF IInv

\* The file of a new database appears without a catalog.
LEMMA CreateFileStep == IInv /\ CreateFile => IInv'
<1> SUFFICES ASSUME IInv, CreateFile
             PROVE  IInv'
  OBVIOUS
<1> DEFINE d == op.name
<1>1. /\ d \in Names /\ op = [step |-> "create_file", name |-> d]
      /\ op' = [step |-> "initialize", name |-> d]
      /\ files' = [files EXCEPT ![d] = Unreadable]
      /\ UNCHANGED <<phase, catalog, active, storage, promised, damaged>>
  BY DEF CreateFile, IInv, TypeOK, Idle
<1>2. /\ phase = "up" /\ catalog[d] # None /\ storage[d] = None /\ files[d] = None
  BY <1>1 DEF IInv, SessionIsUp, StepsInOrder, At, Idle
<1> HIDE DEF d
<1>3. \A e \in Names : /\ At("initialize", e)' <=> e = d
                       /\ ~At("create_file", e)' /\ ~At("initialize", e)
                       /\ ~At("store_table", e)' /\ ~At("store_table", e)
  BY <1>1 DEF At
<1>4. /\ files' \in [Names -> Seq(Tables) \cup {None, Unreadable}]
      /\ files'[d] = Unreadable
      /\ \A e \in Names : e # d => files'[e] = files[e]
  BY <1>1, Written DEF IInv, TypeOK
<1>5. TypeOK'
  BY <1>1, <1>4 DEF IInv, TypeOK
<1>6. SessionIsUp' /\ ActiveKnown' /\ StepsInOrder'
  BY <1>1, <1>2, <1>3, <1>4 DEF IInv, SessionIsUp, ActiveKnown, StepsInOrder
<1>7. Covered' /\ NoDoubles'
  BY <1>1, <1>2, <1>4 DEF IInv, Covered, NoDoubles, Readable
<1>8. FilesSettled' /\ PromisesInMemory' /\ UnreadableHasCause'
  BY <1>1, <1>3, <1>4
  DEF IInv, FilesSettled, PromisesInMemory, UnreadableHasCause, Settled, TypeOK
<1>9. PromisesKept'
  <2>1. \A p \in promised : p[1] # d
    BY <1>1, <1>2 DEF IInv, PromisesKept, Readable
  <2>2. QED
    BY <1>1, <1>4, <2>1 DEF IInv, PromisesKept, TypeOK
<1>10. RefusalHasCause'
  BY <1>1, <1>2 DEF RefusalHasCause
<1>11. QED
  BY <1>5, <1>6, <1>7, <1>8, <1>9, <1>10 DEF IInv

\* What a step of CREATE DATABASE that ends the statement needs to leave: a file
\* that nobody was promised, and memory as it was.
LEMMA EndOfCreateDatabase ==
    ASSUME IInv, NEW d \in Names, At("create_file", d) \/ At("initialize", d),
           op' = Idle, UNCHANGED <<phase, catalog, active, storage, promised>>,
           NEW left \in {<<>>, None, Unreadable}, files' = [files EXCEPT ![d] = left],
           \/ left = None /\ damaged' = damaged
           \/ damaged' = damaged \cup {d}
    PROVE  IInv'
<1>1. /\ phase = "up" /\ catalog[d] # None /\ storage[d] = None
      /\ op # Idle
  BY DEF IInv, SessionIsUp, StepsInOrder, At, Idle
<1>2. \A e \in Names : /\ ~At("create_file", e)' /\ ~At("initialize", e)'
                       /\ ~At("store_table", e)' /\ ~At("store_table", e)
                       /\ At("initialize", e) => e = d
  BY DEF At, Idle
<1>3. /\ files' \in [Names -> Seq(Tables) \cup {None, Unreadable}]
      /\ files'[d] = left /\ \A e \in Names : e # d => files'[e] = files[e]
  <2>1. left \in Seq(Tables) \cup {None, Unreadable}
    BY NoTables
  <2>2. files \in [Names -> Seq(Tables) \cup {None, Unreadable}]
    BY DEF IInv, TypeOK
  <2>3. QED
    BY <2>1, <2>2, Written
<1>4. TypeOK'
  BY <1>3 DEF IInv, TypeOK
<1>5. SessionIsUp' /\ ActiveKnown' /\ StepsInOrder'
  BY <1>1, <1>2 DEF IInv, SessionIsUp, ActiveKnown, StepsInOrder
<1>6. Covered' /\ NoDoubles'
  <2>1. catalog[d] \in SUBSET Tables
    BY <1>1 DEF IInv, TypeOK
  <2>2. Readable(left) => Range(left) \subseteq catalog[d] /\ IsInjective(left)
    BY <2>1, NoTables DEF Readable
  <2>3. QED
    BY <1>1, <1>3, <2>2 DEF IInv, Covered, NoDoubles, Readable
<1>7. FilesSettled' /\ PromisesInMemory' /\ UnreadableHasCause'
  <2>1. left = None => left # Unreadable
    OBVIOUS
  <2>2. QED
    BY <1>1, <1>2, <1>3, <2>1
    DEF IInv, FilesSettled, PromisesInMemory, UnreadableHasCause, Settled, TypeOK
<1>8. PromisesKept'
  <2>1. \A p \in promised : p[1] # d
    BY <1>1, <1>2 DEF IInv, PromisesInMemory, Settled
  <2>2. QED
    BY <1>3, <2>1 DEF IInv, PromisesKept, TypeOK
<1>9. RefusalHasCause'
  BY <1>1 DEF RefusalHasCause
<1>10. QED
  BY <1>4, <1>5, <1>6, <1>7, <1>8, <1>9 DEF IInv

\* A file that cannot be created, or not be opened.
LEMMA CreateFileFailsStep == IInv /\ CreateFileFails => IInv'
<1> SUFFICES ASSUME IInv, CreateFileFails
             PROVE  IInv'
  OBVIOUS
<1>1. PICK d \in Names : At("create_file", d) /\ op.name = d
  BY DEF CreateFileFails, IInv, TypeOK, Idle, At
<1>2. op' = Idle /\ UNCHANGED <<phase, catalog, active, storage, promised>>
  BY DEF CreateFileFails
<1>3. CASE UNCHANGED <<files, damaged>>
  <2>1. files' = [files EXCEPT ![d] = None]
    BY <1>1, <1>3 DEF IInv, StepsInOrder, TypeOK
  <2>2. QED
    BY <1>1, <1>2, <1>3, <2>1, EndOfCreateDatabase
<1>4. CASE files' = [files EXCEPT ![d] = Unreadable] /\ damaged' = damaged \cup {d}
  BY <1>1, <1>2, <1>4, EndOfCreateDatabase
<1>5. QED
  BY <1>1, <1>3, <1>4 DEF CreateFileFails

\* A database that could not be initialized loses its file or leaves it.
LEMMA InitializeCatalogFailsStep == IInv /\ InitializeCatalogFails => IInv'
<1> SUFFICES ASSUME IInv, InitializeCatalogFails
             PROVE  IInv'
  OBVIOUS
<1>1. PICK d \in Names : At("initialize", d) /\ op.name = d
  BY DEF InitializeCatalogFails, IInv, TypeOK, Idle, At
<1>2. op' = Idle /\ UNCHANGED <<phase, catalog, active, storage, promised>>
  BY DEF InitializeCatalogFails
<1>3. CASE files' = [files EXCEPT ![d] = None] /\ UNCHANGED damaged
  BY <1>1, <1>2, <1>3, EndOfCreateDatabase
<1>4. ASSUME NEW left \in {Unreadable, <<>>}, files' = [files EXCEPT ![d] = left],
             damaged' = damaged \cup {d}
      PROVE  IInv'
  BY <1>1, <1>2, <1>4, EndOfCreateDatabase
<1>5. QED
  BY <1>1, <1>3, <1>4 DEF InitializeCatalogFails, AfterFailure

\* A new database is acknowledged with an empty catalog in its file.
LEMMA InitializeCatalogStep == IInv /\ InitializeCatalog => IInv'
<1> SUFFICES ASSUME IInv, InitializeCatalog
             PROVE  IInv'
  OBVIOUS
<1>1. PICK d \in Names : op.name = d /\ At("initialize", d)
  BY DEF InitializeCatalog, IInv, TypeOK, Idle, At
<1>2. /\ op' = Idle /\ promised' = promised \cup {<<d, None>>}
      /\ files' = [files EXCEPT ![d] = <<>>] /\ storage' = [storage EXCEPT ![d] = <<>>]
      /\ UNCHANGED <<phase, catalog, active, damaged>>
  BY <1>1 DEF InitializeCatalog
<1>3. /\ phase = "up" /\ catalog[d] # None /\ storage[d] = None
  BY <1>1 DEF IInv, SessionIsUp, StepsInOrder, At, Idle
<1>4. \A e \in Names : /\ ~At("create_file", e)' /\ ~At("initialize", e)'
                       /\ ~At("store_table", e)' /\ ~At("store_table", e)
                       /\ At("initialize", e) => e = d
  BY <1>1, <1>2 DEF At, Idle
<1> DEFINE empty == <<>>
<1>5. /\ empty \in Seq(Tables) /\ Range(empty) = {} /\ IsInjective(empty)
      /\ empty # None /\ empty # Unreadable
  BY NoTables
<1>6. files' = [files EXCEPT ![d] = empty] /\ storage' = [storage EXCEPT ![d] = empty]
  BY <1>2
<1> HIDE DEF empty
<1>7. /\ files' \in [Names -> Seq(Tables) \cup {None, Unreadable}]
      /\ files'[d] = empty /\ \A e \in Names : e # d => files'[e] = files[e]
      /\ storage' \in [Names -> Seq(Tables) \cup {None}]
      /\ storage'[d] = empty /\ \A e \in Names : e # d => storage'[e] = storage[e]
  <2>1. /\ files \in [Names -> Seq(Tables) \cup {None, Unreadable}]
        /\ storage \in [Names -> Seq(Tables) \cup {None}]
    BY DEF IInv, TypeOK
  <2>2. QED
    BY <1>5, <1>6, <2>1, Written
<1>8. TypeOK'
  BY <1>2, <1>7 DEF IInv, TypeOK
<1>9. SessionIsUp' /\ ActiveKnown' /\ StepsInOrder'
  BY <1>2, <1>3, <1>4 DEF IInv, SessionIsUp, ActiveKnown, StepsInOrder
<1>10. Covered' /\ NoDoubles'
  <2>1. catalog[d] \in SUBSET Tables
    BY <1>3 DEF IInv, TypeOK
  <2>2. QED
    BY <1>2, <1>3, <1>5, <1>7, <2>1 DEF IInv, Covered, NoDoubles, Readable
<1>11. FilesSettled' /\ UnreadableHasCause'
  BY <1>2, <1>3, <1>4, <1>5, <1>7 DEF IInv, FilesSettled, UnreadableHasCause, Settled
<1>12. \A p \in promised : p[1] # d
  BY <1>3, <1>4 DEF IInv, PromisesInMemory, Settled
<1>13. PromisesInMemory'
  BY <1>2, <1>3, <1>4, <1>5, <1>7, <1>12 DEF IInv, PromisesInMemory, Settled, TypeOK
<1>14. PromisesKept'
  BY <1>2, <1>5, <1>7, <1>12 DEF IInv, PromisesKept, TypeOK, Readable
<1>15. RefusalHasCause'
  BY <1>2, <1>3 DEF RefusalHasCause
<1>16. QED
  BY <1>8, <1>9, <1>10, <1>11, <1>13, <1>14, <1>15 DEF IInv

\* A table that is new to the Catalog is new to DiskStorage.
LEMMA CreateTableStep == ASSUME IInv, NEW t \in Tables, CreateTable(t) PROVE IInv'
<1> DEFINE d == active
<1>1. /\ phase = "up" /\ op = Idle /\ d # None /\ t \notin catalog[d]
      /\ catalog' = [catalog EXCEPT ![d] = @ \cup {t}]
      /\ UNCHANGED <<phase, active, files, promised, damaged>>
  BY DEF CreateTable, Ready, NewTable
<1>2. d \in Names /\ catalog[d] \in SUBSET Tables
  BY <1>1 DEF IInv, TypeOK, ActiveKnown
<1>3. /\ catalog' \in [Names -> (SUBSET Tables) \cup {None}]
      /\ catalog'[d] = catalog[d] \cup {t}
      /\ \A e \in Names : e # d => catalog'[e] = catalog[e]
      /\ catalog'[d] # None
  <2>1. catalog[d] \cup {t} \in SUBSET Tables
    BY <1>2
  <2>2. catalog' = [catalog EXCEPT ![d] = catalog[d] \cup {t}]
    BY <1>1
  <2>3. catalog \in [Names -> (SUBSET Tables) \cup {None}]
    BY DEF IInv, TypeOK
  <2>4. QED
    BY <1>2, <2>1, <2>2, <2>3, Written
<1>4. \A e \in Names : /\ ~At("create_file", e) /\ ~At("initialize", e) /\ ~At("store_table", e)
                       /\ Settled(e) = storage[e]
  BY <1>1 DEF At, Idle, Settled
<1>5. storage[d] # None => t \notin Range(storage[d])
  BY <1>1, <1>2 DEF IInv, Covered, TypeOK, Readable
<1>6. CASE storage[d] = None
  <2>1. UNCHANGED <<storage, op>>
    BY <1>6 DEF CreateTable, NewToDatabase
  <2>2. \A e \in Names : /\ ~At("create_file", e)' /\ ~At("initialize", e)'
                         /\ ~At("store_table", e)' /\ Settled(e)' = Settled(e)
    BY <1>4, <2>1 DEF At, Settled
  <2>3. TypeOK' /\ SessionIsUp' /\ ActiveKnown' /\ StepsInOrder'
    BY <1>1, <1>2, <1>3, <2>1, <2>2 DEF IInv, TypeOK, SessionIsUp, ActiveKnown, StepsInOrder
  <2>4. Covered' /\ NoDoubles'
    BY <1>1, <1>3, <2>1 DEF IInv, Covered, NoDoubles
  <2>5. FilesSettled' /\ PromisesInMemory' /\ PromisesKept'
    BY <1>1, <1>4, <2>1, <2>2
    DEF IInv, FilesSettled, PromisesInMemory, PromisesKept, TypeOK
  <2>6. UnreadableHasCause' /\ RefusalHasCause'
    BY <1>1, <1>4, <2>2 DEF IInv, UnreadableHasCause, RefusalHasCause
  <2>7. QED
    BY <2>3, <2>4, <2>5, <2>6 DEF IInv
<1>7. CASE storage[d] # None
  <2> DEFINE tables == storage[d]
             longer == Append(tables, t)
  <2>1. /\ storage' = [storage EXCEPT ![d] = longer]
        /\ op' = [step |-> "store_table", name |-> d, table |-> t]
    BY <1>5, <1>7 DEF CreateTable, NewToDatabase
  <2>2. tables \in Seq(Tables)
    BY <1>2, <1>7 DEF IInv, TypeOK
  <2>3. /\ longer \in Seq(Tables) /\ Popped(longer) = tables
        /\ Range(longer) = Range(tables) \cup {t}
        /\ IsInjective(tables) /\ t \notin Range(tables) => IsInjective(longer)
    BY <2>2, AppendedTable
  <2>4. /\ storage' \in [Names -> Seq(Tables) \cup {None}]
        /\ storage'[d] = longer /\ \A e \in Names : e # d => storage'[e] = storage[e]
    BY <1>2, <2>1, <2>3, Written DEF IInv, TypeOK
  <2>5. longer # None /\ longer # Unreadable
    BY <2>3
  <2>6. \A e \in Names : /\ ~At("create_file", e)' /\ ~At("initialize", e)'
                         /\ At("store_table", e)' <=> e = d
    BY <2>1 DEF At
  <2>7. op'.table = t
    BY <2>1
  <2>8. \A e \in Names : Settled(e)' = Settled(e)
    BY <1>4, <2>3, <2>4, <2>6 DEF Settled, Popped
  <2>9. TypeOK'
    BY <1>1, <1>2, <1>3, <2>1, <2>4 DEF IInv, TypeOK
  <2>10. SessionIsUp' /\ ActiveKnown'
    BY <1>1, <1>3, <2>4 DEF IInv, SessionIsUp, ActiveKnown
  <2>11. StepsInOrder'
    BY <1>5, <1>7, <2>2, <2>4, <2>6, <2>7 DEF StepsInOrder
  <2>12. Covered'
    BY <1>1, <1>2, <1>3, <2>2, <2>3, <2>4 DEF IInv, Covered, Readable
  <2>13. NoDoubles'
    BY <1>1, <1>5, <1>7, <2>3, <2>4 DEF IInv, NoDoubles
  <2>14. FilesSettled' /\ PromisesInMemory' /\ PromisesKept'
    BY <1>1, <1>4, <2>6, <2>8
    DEF IInv, FilesSettled, PromisesInMemory, PromisesKept, TypeOK
  <2>15. UnreadableHasCause' /\ RefusalHasCause'
    BY <1>1, <1>4, <2>6 DEF IInv, UnreadableHasCause, RefusalHasCause
  <2>16. QED
    BY <2>9, <2>10, <2>11, <2>12, <2>13, <2>14, <2>15 DEF IInv
<1>8. QED
  BY <1>6, <1>7

\* What the two ends of CREATE TABLE start from.
LEMMA Storing ==
    ASSUME IInv, op.step = "store_table"
    PROVE  \E d \in Names, t \in Tables, tables \in Seq(Tables) :
              /\ op = [step |-> "store_table", name |-> d, table |-> t]
              /\ phase = "up" /\ catalog[d] # None
              /\ storage[d] = Append(tables, t) /\ t \notin Range(tables)
              /\ Settled(d) = tables
              /\ \A e \in Names : e # d => Settled(e) = storage[e] /\ ~At("store_table", e)
              /\ \A e \in Names : ~At("create_file", e) /\ ~At("initialize", e)
<1>1. PICK d \in Names, t \in Tables : op = [step |-> "store_table", name |-> d, table |-> t]
  BY DEF IInv, TypeOK, Idle
<1>2. PICK tables \in Seq(Tables) : storage[d] = Append(tables, t) /\ t \notin Range(tables)
  BY <1>1 DEF IInv, StepsInOrder, At
<1>3. storage[d] # None
  BY <1>2, AppendedTable
<1>4. phase = "up" /\ catalog[d] # None
  BY <1>1, <1>3 DEF IInv, SessionIsUp, Covered, Idle
<1>5. Settled(d) = tables
  BY <1>1, <1>2, AppendedTable DEF Settled, At
<1>6. QED
  BY <1>1, <1>2, <1>4, <1>5 DEF Settled, At

\* A table is acknowledged when its catalog is in the file.
LEMMA StoreTableStep == IInv /\ StoreTable => IInv'
<1> SUFFICES ASSUME IInv, StoreTable
             PROVE  IInv'
  OBVIOUS
<1>1. PICK d \in Names, t \in Tables, tables \in Seq(Tables) :
         /\ op = [step |-> "store_table", name |-> d, table |-> t]
         /\ phase = "up" /\ catalog[d] # None
         /\ storage[d] = Append(tables, t) /\ t \notin Range(tables)
         /\ Settled(d) = tables
         /\ \A e \in Names : e # d => Settled(e) = storage[e] /\ ~At("store_table", e)
         /\ \A e \in Names : ~At("create_file", e) /\ ~At("initialize", e)
  BY Storing DEF StoreTable
<1> DEFINE longer == Append(tables, t)
<1>2. /\ longer \in Seq(Tables) /\ longer # None /\ longer # Unreadable
      /\ Range(longer) = Range(tables) \cup {t}
      /\ IsInjective(longer)
  <2>1. longer \in Seq(Tables) /\ Range(longer) = Range(tables) \cup {t}
    BY AppendedTable
  <2>2. storage[d] = longer /\ storage[d] # None
    BY <1>1, <2>1
  <2>3. IsInjective(storage[d])
    BY <2>2 DEF IInv, NoDoubles
  <2>4. QED
    BY <2>1, <2>2, <2>3
<1>3. /\ op' = Idle /\ promised' = promised \cup {<<d, t>>} /\ damaged' = damaged \ {d}
      /\ files' = [files EXCEPT ![d] = longer]
      /\ UNCHANGED <<phase, catalog, active, storage>>
  BY <1>1 DEF StoreTable, Stored
<1> HIDE DEF longer
<1>4. storage[d] = longer
  BY <1>1 DEF longer
<1>5. \A e \in Names : /\ ~At("create_file", e)' /\ ~At("initialize", e)'
                       /\ ~At("store_table", e)' /\ Settled(e)' = storage[e]
  BY <1>3 DEF At, Idle, Settled
<1>6. /\ files' \in [Names -> Seq(Tables) \cup {None, Unreadable}]
      /\ files'[d] = longer /\ \A e \in Names : e # d => files'[e] = files[e]
  BY <1>2, <1>3, Written DEF IInv, TypeOK
<1>7. TypeOK'
  BY <1>3, <1>6 DEF IInv, TypeOK
<1>8. SessionIsUp' /\ ActiveKnown' /\ StepsInOrder'
  BY <1>1, <1>3, <1>5 DEF IInv, SessionIsUp, ActiveKnown, StepsInOrder
<1>9. Covered' /\ NoDoubles'
  BY <1>1, <1>2, <1>3, <1>4, <1>6 DEF IInv, Covered, NoDoubles
<1>10. FilesSettled'
  BY <1>1, <1>3, <1>4, <1>5, <1>6 DEF IInv, FilesSettled
<1>11. PromisesInMemory'
  BY <1>1, <1>2, <1>3, <1>4, <1>5 DEF IInv, PromisesInMemory, TypeOK
<1>12. PromisesKept'
  BY <1>1, <1>2, <1>3, <1>6 DEF IInv, PromisesKept, PromisesInMemory, TypeOK, Readable
<1>13. UnreadableHasCause' /\ RefusalHasCause'
  BY <1>1, <1>2, <1>3, <1>6 DEF IInv, UnreadableHasCause, RefusalHasCause
<1>14. QED
  BY <1>7, <1>8, <1>9, <1>10, <1>11, <1>12, <1>13 DEF IInv

\* A table that could not be stored leaves memory, whatever the file has of it.
LEMMA StoreTableFailsStep == IInv /\ StoreTableFails => IInv'
<1> SUFFICES ASSUME IInv, StoreTableFails
             PROVE  IInv'
  OBVIOUS
<1>1. PICK d \in Names, t \in Tables, tables \in Seq(Tables) :
         /\ op = [step |-> "store_table", name |-> d, table |-> t]
         /\ phase = "up" /\ catalog[d] # None
         /\ storage[d] = Append(tables, t) /\ t \notin Range(tables)
         /\ Settled(d) = tables
         /\ \A e \in Names : e # d => Settled(e) = storage[e] /\ ~At("store_table", e)
         /\ \A e \in Names : ~At("create_file", e) /\ ~At("initialize", e)
  BY Storing DEF StoreTableFails
<1>2. /\ op' = Idle /\ storage' = [storage EXCEPT ![d] = Popped(@)]
      /\ UNCHANGED <<phase, catalog, active, promised>>
      /\ \/ files' = files /\ damaged' = damaged
         \/ /\ \E left \in {files[d], storage[d], Unreadable} :
                  files' = [files EXCEPT ![d] = left]
            /\ damaged' = damaged \cup {d}
  BY <1>1 DEF StoreTableFails
<1>3. /\ storage[d] \in Seq(Tables) /\ Popped(storage[d]) = tables
      /\ Range(storage[d]) = Range(tables) \cup {t}
      /\ IsInjective(storage[d]) => IsInjective(tables)
  BY <1>1, AppendedTable
<1>4. /\ storage' \in [Names -> Seq(Tables) \cup {None}]
      /\ storage'[d] = tables /\ \A e \in Names : e # d => storage'[e] = storage[e]
  <2>1. storage' = [storage EXCEPT ![d] = tables]
    BY <1>2, <1>3
  <2>2. QED
    BY <2>1, Written DEF IInv, TypeOK
<1>5. \A e \in Names : /\ ~At("create_file", e)' /\ ~At("initialize", e)'
                       /\ ~At("store_table", e)' /\ Settled(e)' = storage'[e]
                       /\ storage'[e] = Settled(e)
  BY <1>1, <1>2, <1>4 DEF At, Idle, Settled
<1>6. PICK left \in {files[d], storage[d], Unreadable} :
         /\ files'[d] = left /\ \A e \in Names : e # d => files'[e] = files[e]
         /\ files' \in [Names -> Seq(Tables) \cup {None, Unreadable}]
         /\ \/ left = files[d] /\ damaged' = damaged
            \/ damaged' = damaged \cup {d}
  <2>1. files \in [Names -> Seq(Tables) \cup {None, Unreadable}]
    BY DEF IInv, TypeOK
  <2>2. CASE files' = files /\ damaged' = damaged
    BY <2>1, <2>2
  <2>3. ASSUME NEW left \in {files[d], storage[d], Unreadable},
               files' = [files EXCEPT ![d] = left], damaged' = damaged \cup {d}
        PROVE  /\ files'[d] = left /\ \A e \in Names : e # d => files'[e] = files[e]
               /\ files' \in [Names -> Seq(Tables) \cup {None, Unreadable}]
    <3>1. left \in Seq(Tables) \cup {None, Unreadable}
      BY <1>3, <2>1
    <3>2. QED
      BY <2>1, <2>3, <3>1, Written
  <2>4. QED
    BY <1>2, <2>2, <2>3
<1>7. damaged \subseteq damaged' /\ damaged' \subseteq Names
  BY <1>6 DEF IInv, TypeOK
<1>8. TypeOK'
  BY <1>2, <1>4, <1>6, <1>7 DEF IInv, TypeOK
<1>9. SessionIsUp' /\ ActiveKnown' /\ StepsInOrder'
  BY <1>1, <1>2, <1>5 DEF IInv, SessionIsUp, ActiveKnown, StepsInOrder
<1>10. Covered'
  <2>1. /\ Readable(storage[d]) /\ Range(storage[d]) \subseteq catalog[d]
        /\ Readable(tables) /\ Range(tables) \subseteq catalog[d]
    BY <1>1, <1>3 DEF IInv, Covered, Readable
  <2>2. QED
    BY <1>1, <1>2, <1>4, <1>6, <2>1 DEF IInv, Covered, Readable
<1>11. NoDoubles'
  BY <1>1, <1>3, <1>4, <1>6 DEF IInv, NoDoubles, Readable
<1>12. FilesSettled'
  <2>1. ASSUME NEW e \in Names, e \notin damaged'
        PROVE  files'[e] = Settled(e)'
    <3>1. files'[e] = files[e] /\ e \notin damaged
      BY <1>6, <1>7, <2>1
    <3>2. files[e] = Settled(e)
      BY <1>1, <3>1 DEF IInv, FilesSettled
    <3>3. QED
      BY <1>5, <3>1, <3>2
  <2>2. QED
    BY <2>1 DEF FilesSettled
<1>13. PromisesInMemory'
  BY <1>1, <1>2, <1>5 DEF IInv, PromisesInMemory, TypeOK
<1>14. PromisesKept'
  <2>1. ASSUME NEW p \in promised
        PROVE  IF Readable(files'[p[1]]) THEN p[2] = None \/ p[2] \in Range(files'[p[1]])
               ELSE files'[p[1]] = Unreadable /\ p[1] \in damaged'
    <3>1. p[1] \in Names
      BY DEF IInv, TypeOK
    <3>2. CASE files'[p[1]] = files[p[1]]
      BY <1>7, <3>2 DEF IInv, PromisesKept
    <3>3. CASE p[1] = d /\ left = storage[d]
      <4>1. p[2] = None \/ p[2] \in Range(tables)
        BY <1>1, <3>3 DEF IInv, PromisesInMemory
      <4>2. QED
        BY <1>3, <1>6, <3>3, <4>1 DEF Readable
    <3>4. CASE p[1] = d /\ left = Unreadable /\ damaged' = damaged \cup {d}
      BY <1>6, <3>4 DEF Readable
    <3>5. QED
      BY <1>6, <3>1, <3>2, <3>3, <3>4
  <2>2. QED
    BY <1>2, <2>1 DEF PromisesKept
<1>15. UnreadableHasCause'
  <2>1. ASSUME NEW e \in Names, files'[e] = Unreadable
        PROVE  e \in damaged'
    <3>1. files'[e] = files[e] => e \in damaged
      BY <1>1, <2>1 DEF IInv, UnreadableHasCause
    <3>2. QED
      BY <1>6, <1>7, <3>1
  <2>2. QED
    BY <2>1 DEF UnreadableHasCause
<1>16. RefusalHasCause'
  BY <1>1, <1>2 DEF RefusalHasCause
<1>17. QED
  BY <1>8, <1>9, <1>10, <1>11, <1>12, <1>13, <1>14, <1>15, <1>16 DEF IInv

\* Every step keeps the invariant.
LEMMA InvStep == IInv /\ [Next]_vars => IInv'
<1> SUFFICES ASSUME IInv, [Next]_vars
             PROVE  IInv'
  OBVIOUS
<1>1. CASE Start \/ StartRefused \/ ProcessEnds
  BY <1>1, StartStep, StartRefusedStep, ProcessEndsStep
<1>2. ASSUME NEW d \in Names, UseDatabase(d) \/ CreateDatabase(d)
      PROVE  IInv'
  BY <1>2, UseDatabaseStep, CreateDatabaseStep
<1>3. CASE CreateFile \/ CreateFileFails
  BY <1>3, CreateFileStep, CreateFileFailsStep
<1>4. CASE InitializeCatalog \/ InitializeCatalogFails
  BY <1>4, InitializeCatalogStep, InitializeCatalogFailsStep
<1>5. ASSUME NEW t \in Tables, CreateTable(t)
      PROVE  IInv'
  BY <1>5, CreateTableStep
<1>6. CASE StoreTable \/ StoreTableFails
  BY <1>6, StoreTableStep, StoreTableFailsStep
<1>7. CASE UNCHANGED vars
  <2>1. TypeOK' /\ SessionIsUp' /\ ActiveKnown' /\ StepsInOrder'
    BY <1>7 DEF vars, IInv, TypeOK, SessionIsUp, ActiveKnown, StepsInOrder, At
  <2>2. Covered' /\ NoDoubles' /\ FilesSettled' /\ PromisesInMemory'
    BY <1>7 DEF vars, IInv, Covered, NoDoubles, FilesSettled, PromisesInMemory, Settled, At
  <2>3. PromisesKept' /\ UnreadableHasCause' /\ RefusalHasCause'
    BY <1>7 DEF vars, IInv, PromisesKept, UnreadableHasCause, RefusalHasCause, At
  <2>4. QED
    BY <2>1, <2>2, <2>3 DEF IInv
<1>8. QED
  BY <1>1, <1>2, <1>3, <1>4, <1>5, <1>6, <1>7 DEF Next

\* It holds before the first start.
LEMMA InvInit == Init => IInv
<1> SUFFICES ASSUME Init
             PROVE  IInv
  OBVIOUS
<1>1. TypeOK /\ SessionIsUp /\ ActiveKnown
  BY DEF Init, TypeOK, SessionIsUp, ActiveKnown, Nowhere
<1>2. StepsInOrder
  BY DEF Init, StepsInOrder, At, Idle
<1>3. Covered /\ NoDoubles /\ FilesSettled /\ PromisesInMemory
  BY DEF Init, Covered, NoDoubles, FilesSettled, PromisesInMemory, Nowhere, Readable
<1>4. PromisesKept /\ UnreadableHasCause /\ RefusalHasCause
  BY DEF Init, PromisesKept, UnreadableHasCause, RefusalHasCause, Nowhere
<1>5. QED
  BY <1>1, <1>2, <1>3, <1>4 DEF IInv

\* It holds always.
LEMMA InvCorrect == Spec => []IInv
BY InvInit, InvStep, PTL DEF Spec
----------------------------------------------------------------------------
\* Whatever fails and wherever the process ends, the session's Catalog knows
\* every database and table that memory or a file has, so that no CREATE passes
\* the Catalog and meets an old table or file in DiskStorage.
THEOREM CatalogCovers == Spec => []CatalogCoversStorage
<1>1. IInv => CatalogCoversStorage
  BY DEF IInv, Covered, NoDoubles, CatalogCoversStorage
<1>2. QED
  BY <1>1, InvCorrect, PTL

\* Between statements memory and every file that no failure has touched agree.
THEOREM FilesMatch == Spec => []StorageMatchesFiles
<1>1. IInv => StorageMatchesFiles
  BY DEF IInv, FilesSettled, StorageMatchesFiles, Settled, At, Ready, Idle
<1>2. QED
  BY <1>1, InvCorrect, PTL

\* What CREATE DATABASE and CREATE TABLE have acknowledged is in the file from
\* then on, unless a write of that file's page 0 fails.
THEOREM Promises == Spec => []PromisesKept
<1>1. IInv => PromisesKept
  BY DEF IInv
<1>2. QED
  BY <1>1, InvCorrect, PTL

\* A start is refused only over a file that a failure has left without a catalog.
THEOREM Refusals == Spec => []RefusalHasCause
<1>1. IInv => RefusalHasCause
  BY DEF IInv
<1>2. QED
  BY <1>1, InvCorrect, PTL
=============================================================================
