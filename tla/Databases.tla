----------------------------- MODULE Databases -----------------------------
(***************************************************************************)
(* CREATE DATABASE, USE and CREATE TABLE: the executor                     *)
(* (src/src/execution/statement_executor.cpp) enters a name into the       *)
(* Catalog of the session (src/src/catalog/catalog.cpp) and then into      *)
(* DiskStorage (src/src/storage/disk_storage.cpp), which keeps one .cdb    *)
(* file per database.  A statement has several steps; each may fail, the   *)
(* process may end between any two, and nothing takes the entry out of the *)
(* Catalog again.  Statements that are refused before they change anything *)
(* are stuttering steps.                                                   *)
(***************************************************************************)
EXTENDS Sequences, Functions

CONSTANTS Names,        \* database names, normalized
          Tables,       \* table names, normalized
          CatalogRoom,  \* tables that fit in a catalog page
          None,         \* no database, no file, no selection
          Unreadable    \* a file that load_catalog rejects: empty, with a page
                        \* of zeros, or torn

\* None and Unreadable are no names, no lists and no sets of tables.
ASSUME DatabasesAssumption == /\ None \notin Names \cup Tables
                              /\ None \notin Seq(Tables)
                              /\ \A T \in SUBSET Tables : T # None
                              /\ Unreadable \notin Seq(Tables) \cup {None}
                              /\ CatalogRoom \in Nat

VARIABLES phase,     \* of the process: "down", "up", "refused" by a startup error
          catalog,   \* Catalog::databases_, the session's view: name -> tables
          active,    \* Catalog::active_database_key_
          storage,   \* DiskStorage::databases_: name -> StoredCatalog::tables
          files,     \* the data directory: name -> tables in page 0 of name.cdb
          op,        \* the step that the running CREATE is about to take
          promised,  \* history: <<name, table>> of each CREATE TABLE and
                     \* <<name, None>> of each CREATE DATABASE that succeeded
          damaged    \* history: files that a write, a removal or a creation
                     \* that failed or was cut short may have spoilt

vars == <<phase, catalog, active, storage, files, op, promised, damaged>>

Idle == [step |-> "idle"]
Readable(file) == file \notin {None, Unreadable}
Nowhere == [d \in Names |-> None]

Init == /\ phase = "down"
        /\ catalog = Nowhere
        /\ active = None
        /\ storage = Nowhere
        /\ files = Nowhere
        /\ op = Idle
        /\ promised = {}
        /\ damaged = {}
----------------------------------------------------------------------------
\* Fault: the tables are not entered.
CatalogOfEmpty(stored) == [d \in Names |-> IF stored[d] = None THEN None ELSE {}]

\* The shell enters every database and table that open() has loaded.
CatalogOf(stored) == [d \in Names |-> IF Readable(stored[d]) THEN Range(stored[d]) ELSE None]

\* open() loads every .cdb file or fails; Catalog::create_table would refuse a
\* table that a file names twice.
Opens == \A d \in Names : files[d] # None => Readable(files[d]) /\ IsInjective(files[d])

Start ==
    /\ phase \in {"down", "refused"}
    /\ Opens
    /\ phase' = "up"
    /\ storage' = files
    /\ catalog' = CatalogOf(files)
    /\ damaged' = {}
    /\ UNCHANGED <<active, files, op, promised>>

StartRefused ==
    /\ phase \in {"down", "refused"}
    /\ ~Opens
    /\ phase' = "refused"
    /\ UNCHANGED <<catalog, active, storage, files, op, promised, damaged>>

\* The process ends, by .quit or in the middle of a statement.  A write that
\* was under way has been done or not; a database whose page 0 has not been
\* written leaves a file without a catalog.
ProcessEnds ==
    /\ phase = "up"
    /\ phase' = "down"
    /\ catalog' = Nowhere
    /\ active' = None
    /\ storage' = Nowhere
    /\ op' = Idle
    /\ \/ /\ op.step \in {"idle", "create_file"}
          /\ UNCHANGED <<files, damaged>>
       \/ /\ op.step = "initialize"
          /\ \/ files' = [files EXCEPT ![op.name] = <<>>] /\ UNCHANGED damaged
             \/ damaged' = damaged \cup {op.name} /\ UNCHANGED files
       \/ /\ op.step = "store_table"
          /\ \/ UNCHANGED files
             \/ /\ Len(storage[op.name]) <= CatalogRoom
                /\ files' = [files EXCEPT ![op.name] = storage[op.name]]
          /\ UNCHANGED damaged
    /\ UNCHANGED promised

Ready == phase = "up" /\ op = Idle

UseDatabase(d) ==
    /\ Ready
    /\ catalog[d] # None
    /\ active' = d
    /\ UNCHANGED <<phase, catalog, storage, files, op, promised, damaged>>

\* What Catalog::create_database and create_table let pass.
NewDatabase(d) == catalog[d] = None
NewTable(t) == active # None /\ t \notin catalog[active]

\* What DiskStorage goes on with: neither the name nor its file is there; the
\* database is there and the table is not.
NewToDisk(d) == storage[d] = None /\ files[d] = None
NewToDatabase(d, t) == storage[d] # None /\ t \notin Range(storage[d])

\* Catalog first, DiskStorage second.
CreateDatabase(d) ==
    /\ Ready
    /\ NewDatabase(d)
    /\ catalog' = [catalog EXCEPT ![d] = {}]
    /\ op' = IF NewToDisk(d) THEN [step |-> "create_file", name |-> d] ELSE Idle
    /\ UNCHANGED <<phase, active, storage, files, promised, damaged>>

\* open_disk_manager creates the file and opens it; page 0 is allocated.
CreateFile ==
    /\ op.step = "create_file"
    /\ files' = [files EXCEPT ![op.name] = Unreadable]
    /\ op' = [op EXCEPT !.step = "initialize"]
    /\ UNCHANGED <<phase, catalog, active, storage, promised, damaged>>

\* The file cannot be created, or it can be created and not opened and stays.
CreateFileFails ==
    /\ op.step = "create_file"
    /\ op' = Idle
    /\ \/ UNCHANGED <<files, damaged>>
       \/ /\ files' = [files EXCEPT ![op.name] = Unreadable]
          /\ damaged' = damaged \cup {op.name}
    /\ UNCHANGED <<phase, catalog, active, storage, promised>>

\* initialize_catalog_storage has written and flushed page 0.
InitializeCatalog ==
    /\ op.step = "initialize"
    /\ files' = [files EXCEPT ![op.name] = <<>>]
    /\ storage' = [storage EXCEPT ![op.name] = <<>>]
    /\ promised' = promised \cup {<<op.name, None>>}
    /\ op' = Idle
    /\ UNCHANGED <<phase, catalog, active, damaged>>

\* Fault: the file is not removed.
LeftByFailure == Unreadable

\* What create_database leaves of a file that it could not initialize.
AfterFailure == None

\* The removal may fail, too, which nobody notices.
InitializeCatalogFails ==
    /\ op.step = "initialize"
    /\ op' = Idle
    /\ \/ files' = [files EXCEPT ![op.name] = AfterFailure] /\ UNCHANGED damaged
       \/ /\ \E left \in {Unreadable, <<>>} : files' = [files EXCEPT ![op.name] = left]
          /\ damaged' = damaged \cup {op.name}
    /\ UNCHANGED <<phase, catalog, active, storage, promised>>

\* Catalog first, DiskStorage second.
CreateTable(t) ==
    /\ Ready
    /\ NewTable(t)
    /\ catalog' = [catalog EXCEPT ![active] = @ \cup {t}]
    /\ IF NewToDatabase(active, t)
       THEN /\ storage' = [storage EXCEPT ![active] = Append(@, t)]
            /\ op' = [step |-> "store_table", name |-> active, table |-> t]
       ELSE UNCHANGED <<storage, op>>
    /\ UNCHANGED <<phase, active, files, promised, damaged>>

\* Fault: the table is entered after the catalog is stored.
StoredTooEarly(tables) == SubSeq(tables, 1, Len(tables) - 1)

\* What store_catalog writes of the tables in memory.
Stored(tables) == tables

StoreTable ==
    /\ op.step = "store_table"
    /\ Len(storage[op.name]) <= CatalogRoom
    /\ files' = [files EXCEPT ![op.name] = Stored(storage[op.name])]
    /\ promised' = promised \cup {<<op.name, op.table>>}
    /\ damaged' = damaged \ {op.name}
    /\ op' = Idle
    /\ UNCHANGED <<phase, catalog, active, storage>>

\* Fault: the table stays in memory.
Kept(tables) == tables

Popped(tables) == SubSeq(tables, 1, Len(tables) - 1)

\* The catalog does not fit in its page, or the write or the flush fails: the
\* table leaves memory, the page has it or not or is torn.
StoreTableFails ==
    /\ op.step = "store_table"
    /\ storage' = [storage EXCEPT ![op.name] = Popped(@)]
    /\ op' = Idle
    /\ \/ Len(storage[op.name]) > CatalogRoom /\ UNCHANGED <<files, damaged>>
       \/ /\ Len(storage[op.name]) <= CatalogRoom
          /\ \E left \in {files[op.name], storage[op.name], Unreadable} :
                files' = [files EXCEPT ![op.name] = left]
          /\ damaged' = damaged \cup {op.name}
    /\ UNCHANGED <<phase, catalog, active, promised>>

Next == \/ Start \/ StartRefused \/ ProcessEnds
        \/ \E d \in Names : UseDatabase(d) \/ CreateDatabase(d)
        \/ CreateFile \/ CreateFileFails
        \/ InitializeCatalog \/ InitializeCatalogFails
        \/ \E t \in Tables : CreateTable(t)
        \/ StoreTable \/ StoreTableFails

Spec == Init /\ [][Next]_vars
----------------------------------------------------------------------------
\* The session knows every database and table that memory or a file has, also
\* after failures: what the Catalog lets pass is new to DiskStorage and to the
\* directory, so its own tests for an existing table or file never fire, and no
\* stored table is out of the user's reach.
CatalogCoversStorage ==
    phase = "up" =>
       \A d \in Names :
          /\ \A file \in {storage[d], files[d]} :
                /\ file # None => catalog[d] # None
                /\ Readable(file) => Range(file) \subseteq catalog[d]
          /\ storage[d] # None => IsInjective(storage[d])

\* Between statements a restart finds what DiskStorage has in memory, in every
\* database whose file no failed call has touched: a CREATE that failed is gone
\* from both.
StorageMatchesFiles ==
    Ready => \A d \in Names \ damaged : files[d] = storage[d]

\* A database or table whose CREATE was acknowledged is in its file from then
\* on, whatever fails and wherever the process ends, unless a write of this
\* very file's page 0 failed.
PromisesKept ==
    \A p \in promised :
       IF Readable(files[p[1]]) THEN p[2] = None \/ p[2] \in Range(files[p[1]])
       ELSE files[p[1]] = Unreadable /\ p[1] \in damaged

\* The shell refuses to start only over a file that a failed call or a process
\* that ended within CREATE DATABASE has left: no sequence of statements that
\* run to their ends makes a directory that cannot be opened.
RefusalHasCause ==
    phase = "refused" => \E d \in damaged : files[d] = Unreadable
=============================================================================
