# CurioDB in TLA+

A verification project for CurioDB, the small relational database of this
repository (C++20, `src/src`, `src/include`). It models the shell and the SQL
frontend, the storage engine from the bytes of a row and a page up to the
statements on a table, the plan of a SELECT, and the databases of a data
directory; it checks the models with TLC on small instances and proves
properties of the buffer pool, the table heap, the file between flushes and the
catalogs for every instance with TLAPS.

All paths of code below are relative to the root of the repository.

## 1. The system

CurioDB runs in one process with one thread. There are no locks and no
callbacks from other threads; a call runs to its end before the next one starts.
What makes it hard is different: several layers keep copies of the same facts
(file page and frame, heap and index, table in memory and catalog page), most
calls consist of several writes each of which can fail, nothing is ever rolled
back, and the process may end between any two of them.

| Component | State | Operations | Talks to |
|---|---|---|---|
| Shell, main (`src/cli/shell.cpp`) | catalog, storage, executor of the session | read a line, run a statement, dot commands | everything below; copies the stored catalogs into the in-memory one at start |
| SQL frontend (`src/sql`) | none | text to tokens to statement | - |
| Planner, operators (`src/execution/planner.cpp`, `operators.cpp`) | none | statement and index list to plan; plan and rows to rows | - |
| StatementExecutor (`src/execution/statement_executor.cpp`) | none of its own | one handler per statement: catalog first, storage second | Catalog, DiskStorage or InMemoryStorage |
| Catalog (`src/catalog/catalog.cpp`) | databases, their schemas, the selected database | create_database, use_database, create_table | - |
| DiskStorage (`src/storage/disk_storage.cpp`) | per database: DiskManager, BufferPool, StoredCatalog; the catalog view | open, create_database, create_table, create_index, insert, scan, index_scan, delete_where, update_where | TableHeap, BPlusTree, CatalogStorage |
| CatalogStorage (`src/catalog/catalog_storage.cpp`) | page 0 of a file | initialize, store, load | DiskManager, around the pool |
| TableHeap (`src/storage/table_heap.cpp`) | page list, for the length of one statement | insert, fetch, scan, delete_row, update | SlottedPage, BufferPool; allocates through DiskManager |
| BPlusTree (`src/storage/b_plus_tree.cpp`) | root page id, for the length of one call | insert, find, erase, range | BufferPool |
| SlottedPage (`src/storage/slotted_page.cpp`) | 4096 bytes: header, slots, records | insert, read, delete, update record; load validates | - |
| BufferPool, PageGuard (`src/storage/buffer_pool.cpp`) | frames with pins, dirty flags, LRU clock; guards held by callers | fetch, allocate, flush_page, flush_all; guard move, mark_dirty, release | DiskManager |
| DiskManager (`src/storage/disk_manager.cpp`) | file, page count | allocate, read, write, flush | the file system |
| Row validation, serialization, values (`src/storage/row_validation.cpp`, `serialization.cpp`, `src/types`) | none | rows to bytes and back, NOT NULL and type tests | - |
| InMemoryTable, InMemoryStorage (`src/storage/in_memory_*.cpp`) | lists of rows | insert, delete_where, update_where | used by tests instead of DiskStorage |

### What is hard, and what correctness means

* **BufferPool.** A pin is a counter that guards must balance through moves,
  assignments and early returns. A frame learns that it is dirty only when the
  guard that changed it is *released*. `load` can fail at three places, one of
  them after the victim has gone. The catalog writes page 0 behind the pool's
  back. Correct means: readers see the last image written; no guard points into
  a freed frame; no change is dropped; no pin is leaked; after a restart no page
  is older than the last successful flush.
* **TableHeap.** A relocation is an insert followed by a delete, either of which
  can fail; the heap allocates a page before it can use it. Correct means: a row
  id names one row for ever, a scan shows each live row once and in a stable
  order, no listed page is unreadable.
* **SlottedPage, serialization.** A directory grows towards the records, deleted
  and shrunk records keep their cells, and only a 16-bit length tells where a
  record ends. Correct means: what was written loads again, every row reads back
  as it was stored, and a wrong length is noticed.
* **BPlusTree.** A split writes up to three pages per level from the leaf up,
  without a way back; erase never merges. Correct means: a map from keys to row
  ids, whatever has been split, emptied or left half done, with the leaf chain
  and the search from the root in agreement.
* **DiskStorage.** UPDATE and DELETE walk a scan made before their first change,
  change heap and indexes row by row, and may return early at any row; page list
  and index roots live in memory until the catalog is stored at the end. Correct
  means: indexes and heap agree after every row; a statement that succeeds has
  done exactly what it was asked, and one that fails has left the rows alone
  that it does not match; what memory holds is what a restart finds.
* **The file between flushes.** Only DELETE and a clean shutdown flush the pool;
  the pages of other statements reach the file by eviction, in any order, while
  page 0 and new (zero) pages are written at once. The repository promises no
  crash recovery. Correct still means: a row that was flushed and not touched
  since survives the process, a deleted one stays deleted, a statement ends.
* **InMemoryTable** stands in for the disk in tests: it should hold the same rows.
* **Catalogs.** The executor enters a database or table into the in-memory
  catalog before the storage accepts it; `open` loads every `.cdb` file or none.
  Correct means: the session never knows less than storage and files; a CREATE
  that was acknowledged is still there after any failure and any end of the
  process; only a failure can make a directory that does not open.
* **Planner.** A condition takes one of two ways to its rows. Correct means: both
  answer what SQL asks for, NULL included.
* **Shell and frontend.** A statement may span lines, a string may hold the
  semicolon that would end it, a dot begins a command on the first line only.
  Correct means: a statement is executed with the line that ends it; its tokens
  are the longest words; its condition, constraints and values are as typed.

`PROJECT.json` lists the hazards one by one, each at its line, with the
properties that watch it, and those that no property watches yet.

## 2. The modules

    PageStore    <=  BufferPool  --  DiskManager          (<= : is implemented by)
    RecordPage   <=  SlottedPage --  Serialization
    RowStore     <=  TableHeap   --  HeapPages  --  RecordPage
    KeyMap       <=  BPlusTree
    DiskStorage  --  HeapPages, maps as KeyMap promises them
    MemoryTable  --  DiskStorage
    QueryPlan    --  DiskStorage
    Durability   --  HeapPages
    Shell        --  Parser  --  Lexer
    Databases

* `DiskManager` - one file: `page_count`, `file`, and operators for the file
  that an allocation or a failed write leaves. A page image is abstract: `Zero`
  (what `allocate_page` writes), the images of `Content` and `Catalogs`, and `Torn`.
* `BufferPool` - `frames`, `clock`, `guards` as in the class. Actions:
  `FetchPage`/`FetchFails`, `AllocatePage`/`AllocateLeaks` (the page is on disk,
  the fetch fails), `AllocateOnDisk` (the heap allocates around the pool),
  `Modify` (write through a guard and `mark_dirty`), `Release`, `Move`,
  `FlushPage`, `FlushAll`, `StoreCatalog`, `Shutdown` (the destructor's silent
  flush) and `Crash`. `load`'s failures are the three disjuncts of `NotFetched`.
  A client may fetch any page, as `fetch_page` lets it: ids come out of nodes, and a
  torn node may hold any. `Content` are images of heap and tree pages, `Catalogs`
  those of page 0; `Decodes` is the test of the magic that keeps clients from
  changing a page of another kind, and so page 0.
  `since` is a history variable: the images a restart may find in a page.
* `PageStore` - what the pool promises: numbered pages that hold the last image
  written, and the set of images each page may have after a restart, which only
  a successful flush narrows to one.
* `Serialization` - `serialize_row` and `deserialize_row` on bytes, as operators:
  digits of a base, a tag and a payload per value, and the reader with every error
  it can report. The loops over digits and values are recursive functions.
* `SlottedPage` - `page`, the cells of one page. `InsertRecord`, `UpdateRecord`,
  `DeleteRecord` are the operations that succeed, `Valid` is `validate()`. `held`
  is a history variable: the row each slot was last given. One cell takes a byte
  of a record or one half of a slot entry. `ImplementsRecordPage` is the
  refinement of `RecordPage`: the page decoded to rows and lengths takes a step of
  `RecordPage`'s operators.
* `RecordPage` - a slotted page as the heap sees it: slots with a record and a
  length, or a tombstone, and the free space. Deleting or shrinking a record
  frees nothing, as in the code.
* `HeapPages` - the calls of `table_heap.cpp` as operators on pages and a page list
  (`Inserted`, `Deleted`, `Updated`, `ScannedIds`), so that `DiskStorage` and
  `Durability` can run the heap of a statement on the statement's own page list.
  The loops of `scan` are recursive functions.
* `TableHeap` - `pages`, `page_ids`. `Insert`, `Delete`, `Update` are the calls
  that succeed; `InsertLeaks` and `UpdateDuplicates` are the calls that fail
  after their first write; `OtherAllocates` is another owner of the same file.
* `RowStore` - what the heap promises: rows under ids that are used once.
* `BPlusTree` - `nodes`, `root`. `InsertPlan(k, r)` is the list of what the pool
  shows after each page that `insert` allocates or writes, in the order of the code,
  through splits of leaves, of inner nodes and of the root; `Insert` goes to the end
  of it, `InsertFails` stops anywhere before. `insert_recursive` and the searches are
  recursive functions. `Erase`, `Find` and `RangeRows` follow the code. `intact` is a
  history variable: no insertion has stopped half way.
* `KeyMap` - what the tree promises: a map; a failed insertion may make keys
  unreachable but never makes `find` return a row id that was not put under the
  key.
* `DiskStorage` - one table with a nullable INT column `key` and a VARCHAR
  column `text`; `table` (page list and indexes in memory), `stored` (what the
  catalog page has), `op` (the UPDATE or DELETE that is under way: its scan, the
  rows still to do, its own page list). An index is a map and a height; the root
  page changes exactly when the height does, so the height stands for
  `root_page_id`. `BeginUpdate` contains the scan and the uniqueness test,
  `UpdateRow` everything the loop does for one row (the scan is a sequence, what is
  to do a set of places in it, taken from the first on), `UpdateFails` the early
  return, `FinishUpdate` the assignment of the page list and `store_catalog`;
  DELETE likewise. `InsertInterrupted`, `DeleteInterrupted` and
  `UpdateInterrupted` (when `IoErrors`) stop between any two writes of a row, so
  that indexes and heap are left half changed. `Store` is `store_catalog`, which may
  find the page full or fail to write it: the statement fails, memory keeps its new
  pages and roots, page 0 has the old table. `CreateIndexRevoked` is the CREATE INDEX
  whose catalog write reports an error after page 0 has taken it: memory pops the
  index, `stored.revoked` keeps it, and a restart brings it back as it was.
  `Restart` is a clean shutdown and `open`. `diverged` and `misled` are history
  variables: a failed statement has left memory, indexes and catalog page apart; the
  rows at which an UPDATE was interrupted, and those that UPDATEs came to while
  page 0 had a revoked index.
* `MemoryTable` - `memory`, the rows of `InMemoryTable` as a bag, beside the table
  of `DiskStorage`: every statement goes to both, as the executor runs with either
  storage. `apart` is a history variable that ends the comparison once a statement
  did not do the same to both: a limit that only the disk has (page size, full
  catalog page), or an UPDATE that gives a UNIQUE column a value twice, which the
  disk refuses and the memory carries out. An UPDATE that matches no row and whose
  value another row has is refused by the disk and does nothing in memory; the
  tables stay the same.
* `Durability` - the statements of one table with a UNIQUE key as lists of page
  writes in the order of the code. `Begin` is the start of a statement: the scan, the
  uniqueness test, and for an INSERT its list of writes; `DeleteRow` and `UpdateRow`
  make the writes for the next row of the scan, `WritePage` does the next of them or
  `Fail` stops there. `Store` and `FinishDelete` are the two good ends, `StoreFails`
  (catalog full or not written: memory goes on with pages that page 0 lacks) and
  `FlushFails` the two bad ones. `pool` and `file` are the two images of each
  page, `WriteBack` the eviction of one, `Crash` the end of the process between any
  two writes, `Restart` a clean one. The tree on `key` is one page; heap and tree
  share the page numbers. `durable`, `gone` and `unlisted` are history variables:
  rows at rest since the last flush, row ids that successful DELETEs have removed,
  and pages that page 0 does not list because `store_catalog` failed.
* `Lexer`, `Parser` - `tokenize` and `parse_statement` as operators on sequences of
  characters and tokens: every statement, every error with the token it stands at.
* `Shell` - `line`, `pending` (the text of the statement so far), `answer` (what
  the last line was taken for), `running`. `Type` adds a piece to the line,
  `EndLine`, `Command` and `EndInput` are the cases of the loop in `run()`.
* `QueryPlan` - SELECT on the table of `DiskStorage`, as operators: `Plan` chooses
  the scan as `plan_select` does, `IndexScan` goes through the first index to the
  row, `Select` is `execute_select`. `Truth` is the reference: SQL's three-valued
  logic, of which the code keeps only whether a condition is true.
* `Databases` - the three places that know which databases and tables there are:
  `catalog` (of the session), `storage` (of `DiskStorage`), `files` (the catalog
  pages on disk). `op` is the step a CREATE is about to take, so that every step
  can fail and the process can end before it. A file is the tables its page 0
  names, or `Unreadable`. `promised` and `damaged` are history variables: what was
  acknowledged, and which files a failure may have spoilt.
* `MC*` give the small instances, `*Proofs` are the proofs about the module they are
  named after (`SlottedPageProofs` about `Serialization`, too).

Definitions with a comment that begins with "Fault" are seeded faults: what a
plausible slip in the code would make of the definition that follows them. No
specification uses them; putting one in the place of its neighbour must make a
property fail, and `PROJECT.json` says which.

### What is abstracted

Bytes: `Serialization` and `SlottedPage` have them, with a small base and short
counts and words; everywhere else a page image, a record or a node is a value. A
row is a value with a size. Predicates of WHERE are sets of row values in
`DiskStorage`, `MemoryTable` and `Durability`, expressions in `QueryPlan` and in
`Parser`. A word is one character of its class in `Lexer`. Names are normalized
names, a schema is the name of its table; statements that are refused before they
change anything are stuttering steps. What `ifstream` and the operating system do
with a write that was cut short is a choice between the old, the new and a torn
page. Index pages of `DiskStorage` are not numbered with the heap's; those of
`Durability` are. In `Durability` allocating a page and writing it the first time
is one step, and a write of the catalog page is whole: torn pages are the business
of `BufferPool` and `Databases`. A catalog write that reports an error has left page
0 old or new in `DiskStorage` and `Durability`; new it is what a successful statement
leaves, except for CREATE INDEX, which is why that has an action of its own. In
`DiskStorage` one I/O error leaves its traces per behaviour (`Interrupted`), while
full catalogs and early returns may come any number of times. Error codes and messages are left out; what is
kept is where a call stops and what it has changed by then. `MemoryTable` compares
rows without their order, and does not follow the table in memory once the two
are apart.

## 3. The runs

| Run | Instance | What it shows | States |
|---|---|---|---|
| `BufferPool` | 4 pages, one of them the catalog's, 2 catalogs, 2 frames, 2 guards, 5 ticks of the clock | pins equal guards, clean frames equal the file, page 0 is never written by the pool even when a torn id has cached it, the pool keeps its capacity, `last_used` is a strict order; the pool implements `PageStore`, so that a restart finds nothing older than the last good flush | 292 000 |
| `TableHeap` | 3 pages of 4 units, 3 rows (two small ones of the same size, one that fills a page) | no zero page is listed, the order of a scan is stable, the heap implements `RowStore` | 4 000 |
| `BPlusTree` | 5 keys, 2 per node, 7 pages, one key that can be put with a second row id | nodes can be read again after any failure; the tree is balanced, its chain and search agree, `range` is complete and ordered; it implements `KeyMap` | 142 000 |
| `SlottedPage` | 20 cells, 3 slots, rows of 2 to 5 bytes of every type | the page loads again, rows read back, wrong lengths are noticed, the bytes implement `RecordPage` | 6 600 |
| `DiskStorage` | 2 keys and NULL, 2 texts (short and long), 3 heap pages, 1 explicit index, I/O errors between any two writes of a row and in catalog writes; keys symmetric | every index equals the heap after every row of every statement, entries never mislead, also those of an index taken back in memory and found again by a restart; a restart finds what memory has, a successful UPDATE or DELETE does exactly its job and a failed one leaves other rows alone | 1 072 000 |
| `TwoTables` | both columns UNIQUE, automatic and explicit index on `key`, and the table in memory | disk and memory hold the same rows, the heap and two indexes agree, texts stay unique | 470 000 |
| `Durability` | rows with a key (size 2) and without (size 1), 3 pages of 4 units | rows at rest survive a crash at any point, deleted rows stay deleted, the page numbers of heap and tree are never mixed up, every statement ends | 995 000 |
| `QueryPlan` | as `DiskStorage` with 2 pages of 5 units; 50 conditions, 47 of which bind | a SELECT answers with the rows whose condition is true, in the table's order, by either plan | 788 000 |
| `Databases` | 2 databases, 3 tables, catalog pages for 2 | the session knows what storage and files have, a restart finds what memory had, acknowledged CREATEs last, a refused start has a failure as its cause | 33 000 |
| `Shell` | statements built of 40 pieces, weight at most 7 | a statement is executed with the line that ends it, tokens are the longest words, conditions, constraints and values are those typed | 96 000 |
| `DiskStorageLosesRow` | as `DiskStorage` without I/O errors | expected violation, see findings | |
| `DiskStorageDuplicates` | 2 pages of 7 units, trees of height 1 | expected violation, see findings | |

### Bounds, and why they are enough

* `MaxPages`, `Capacity`, `Guards`: the pool has more pages than frames, so that
  eviction, a full pool with one free frame and a pool with none all happen; two
  guards can hold the same page, different pages, and be moved onto each other.
* `MaxClock` bounds only how often a page is fetched or released before the
  process ends; restarts set the clock back. Five ticks suffice to fill two
  frames, release one, evict it and touch it again.
* `MaxKeys = 2`: the smallest legal node (`insert` refuses less), so five keys
  split leaves, inner nodes and the root twice and give three levels. One failed
  insertion per behaviour (`intact`) leaves every prefix of its writes, and the
  tree is used further.
* `PageSpace`: a page takes two small rows or one long one, so updates stay in
  place, relocate within the last page or to a new one, and inserts meet a page
  that is full to the last unit. The last page may also have free space that an
  earlier page's row relocates to. In `DiskStorage` and `DiskStorageLosesRow`
  pages have 4 units and a long row with a key is too large for any; in
  `TwoTables` and `QueryPlan` they have 5 and such a row fits, so that a row may
  move and keep its key.
* `CatalogRoom`: the catalog page fills up after three pages and one index (4),
  after two pages and one index in `QueryPlan` (3); in `Databases`, where it counts
  tables, the third table of a database is too many.
* The conditions of `QueryPlan`: every comparison of each column with NULL and
  literals of its type, AND and OR of every two of four comparisons among which
  are NULL, IS NULL and the one that an index answers, and some that do not bind.
  Deeper conditions are built of the same two steps.
* Two databases and three tables suffice in `Databases`: a failed statement on one
  file next to another one that must stay as it is, a table that does not fit, and
  one that is created after a failure. Both sets of names are symmetric.
* `MaxIndexes`, `MaxHeight`: how many indexes and how tall trees get. When a
  tree grows is a free choice in `DiskStorage`; `BPlusTree` has the real rule.
* `Base = 4`, `SizeWidth = 1`, `WordWidth = 2`: a word still has a sign and two
  bytes in an order, a byte of a string may look like a tag, and twenty cells take
  three rows, or fewer that fill the page to the last cell.
* `Durability`: three pages are the tree and two of the heap, or three of the heap
  for rows without a key; a fourth page is "disk full". With one key a second row
  with it is a duplicate; rows without a key give any number of others. A page takes
  two rows without a key, or one with a key and no other, so that an UPDATE which
  gives a row a key may relocate it.
* `Shell`: a text is the beginning of some statement, built piece by piece (a word
  or phrase with its blank, or a character), and pieces of `Slips` are also typed
  where they cannot stand, `Quoted` ones inside a string. `Weight` makes the
  pieces that give a statement its form expensive and those that leave no choice
  free: seven units are three comparisons with two connectives, or one pair of
  parentheses and a connective, two columns with constraints, a doubled quote in a
  string over two lines, a signed value and a null. Doubles out of range are not
  typed; integers out of range (`huge`) are.

The references of the frontend are not the parser's own words: `Ended` counts
quotes, `LongestWords` says what a token may not be followed by, `Means` reads a
condition from outside in, and `ListsAsTyped` takes the words between two commas.

### Fairness

`Durability` states weak fairness of `Step`, the next step of the statement that
is running: there is one thread, it takes no lock and waits for nobody, so a
statement that has begun runs on as long as the process lives. Evictions, crashes
and the arrival of statements are not fair. Under it `StatementsEnd` holds, also
for an UPDATE whose new rows match its own condition and move to the end of the
heap; the seeded fault that walks the changing heap instead of the scan made
before runs for ever.

The other specifications state no fairness: their actions are whole calls, or the
loop over a finite container that `Durability` has too, and what "must happen" after
a call is what the call has done when it returns, which the action properties
state.

### Findings

* **A failed UPDATE can lose a row** (`DiskStorageLosesRow`). `update_where`
  works on a heap object with its own page list and copies it to the table at the
  end (`src/src/storage/disk_storage.cpp:548`). If a later row makes it return
  early - a key that an index has already (`:501`) or a row too large for a page
  (`:516`) - a row that was relocated to a new page before is on a page that the
  table does not list.
* **A failed UPDATE can undo an index at the next start**
  (`DiskStorageDuplicates`). The loop sets new roots in memory (`:544`); the
  early return skips `store_catalog`. After a restart the index starts at the old
  root, or at none: keys are missing, and an INSERT may repeat them.

`IndexesMatchHeap` and `CatalogCurrent` therefore speak of tables on which no
statement has failed that way (`~diverged`); `EntriesSound` holds even then, for all
rows but those in `misled`.

Not findings, since the repository promises nothing about it, but worth knowing:
after a crash a table can be unreadable, because the catalog page lists a page
that is still zero in the file, and its index can be behind or ahead of the heap.
That is why `CheckpointKept` and `DeletedForGood` speak of rows in their pages and
not of what a scan answers. A statement whose catalog write fails leaves the table in
memory ahead of page 0, and nothing but the next catalog write of that file mends it: a
row it put on a new page is scanned and even flushed by a later DELETE, and is gone
after a restart. A CREATE INDEX that failed so may be back after a restart, without the
changes made since. The table in memory accepts an UPDATE that makes two
rows equal in a UNIQUE column; the one on disk does not.

## 4. The proofs

A theorem holds for every value of the constants that meets the named assumptions.
The assumptions say what the code has: a page has a size, a row has at least one
byte, the capacity is a number, the guards are finitely many, and the values that
stand for "none" are none of the others.

### The buffer pool

`BufferPoolProofs`, from `MaxPagesAssumption` and `PoolAssumption`:

1. `TypeCorrect` (`TypeOK`) is inductive by itself. One step per action; fetches and
   failed fetches are lemmas about any file, because `AllocatePage` fetches from a
   file that has just grown.
2. `PinsCorrect` (`PinsMatchGuards`), inductive together with `TypeOK`. The heart
   is `EvictedUnheld` (a frame that may be dropped has pin count 0, hence no
   guard is on it) and the arithmetic of `Cardinality(Holders(p))` when a guard
   is set, cleared or moved.
3. `NoUpdateLost` (`CleanFramesMatchFile`) and `CatalogSafe`
   (`CatalogNotOverwritten`). Page 0 may be cached and stale: a catalog write goes past
   the pool. What keeps the pool from writing it back is that no client changes a
   page that does not decode. So `CatalogInv` says that page 0, in the file and in its
   frame, is a catalog, that the frame is clean, and that no live guard on it is
   dirty; `CleanInv` joins it with `CleanFramesMatchFile`. The step uses
   `PinsMatchGuards` to know that a released guard's frame is still there to receive
   its dirty flag.
4. `CapacityKept` (`WithinCapacity`): a load makes room before it takes a frame.
5. `VictimDetermined` (`LastUsedDistinct`): every use of a frame takes a new tick.
6. `PoolImplementsStore` (`StoreSpec`), the refinement of `PageStore` under the
   mapping of the module: each action is a step of the store or leaves its view
   alone. The invariant is `RefineInv`, which adds `Survivors` to the ones above:
   what the file has, and what a reader sees, are among the images the store says may
   survive. Evictions and failed loads are stutters because a clean frame equals its
   page in the file.

### The catalogs

`DatabasesProofs`, from `DatabasesAssumption` (the sentinels for "no database" and
"file without a catalog" are no name, no set and no list of tables):
`CatalogCovers`, `FilesMatch`, `Promises`, `Refusals`. None of the four is inductive.
`IInv` says what the step that a CREATE is about to take knows of its database
(`StepsInOrder`): nobody has the file of a `create_file`; that of an `initialize` is
unreadable and not in memory; before a `store_table` the table is the last in memory
and not in the file. With `Settled`, the tables in memory without that one,
`FilesSettled` and `PromisesInMemory` say at every step what the properties say
between statements; `NoDoubles` makes the list of tables a set that `open` can enter
again.

### The table heap

`HeapPagesProofs` says what a scan yields: the rows of the listed pages, all of them,
each once, in the order of the page list and of the slots (`PageScan`, `HeapScan`).
`scan` is two nested loops, here two recursive functions. Their one-step equations
hold because a function that the recursive definition describes exists: the set of
numbers up to which there is one has all numbers in it. `Induction`, over a set of numbers and not over a predicate, is proved
from `SmallestOf` and stands in for the library's theorem, which the provers cannot
instantiate.

`TableHeapProofs`, from `PageAssumption` and `HeapAssumption`:

1. `HeapTypes` (`TypeOK`) and `HeapReadable` (`PagesReadable`), from the inductive
   invariant `IInv`: every page is sound, the list names written pages, each once. A
   page is sound if its slots are tombstones or rows with their own length, and
   `Room`: the free space and one byte and an entry per slot fit in a page. `Room` is
   what bounds the slots of a page by `MaxSlots`, and so the row ids; it holds since
   no row is empty and nothing that is deleted is ever freed.
2. `ScanOrder` (`ScanOrderStable`): a deleted row keeps its slot, a new one comes after
   all others of the last page or on a page after it; with `HeapScan` the order of two
   rows depends on their ids only.
3. `HeapImplementsStore` (`RowStoreSpec`): an insertion takes an id that was neither
   live nor retired, a deletion retires one, a relocation does both, and the failing
   calls do what `RowStore` allows them.

### The file between flushes

`DurabilityProofs`, from `PageAssumption` and `DurabilityAssumption`, proves
`DurabilityTypes` (`TypeOK`), `CheckpointSurvives` (`CheckpointKept`) and
`DeletedStaysDeleted` (`DeletedForGood`): for any number of pages, rows and page
writes, with a crash between any two, and any order of write-backs. The inductive
invariant `IInv` has these parts:

* `PinsHeld`, the heart. A *pin* is a slot and what it may hold: the row of a
  checkpoint, or a tombstone. A pin holds in the file, in the pool **and in every page
  write that is still to come** for its page. That is what a page image is about: a
  statement computes the image of a page from the pool as it is when it comes to a
  row, so a write of any other row carries the pinned slots along, and whichever
  of file, pool and write replaces another, the slot survives. The rows that a
  running statement still has to visit, and those that a DELETE has dealt with, are
  pins of the pool and the writes only (`Passing`).
* `Covered`: a DELETE that ends has turned each row of its scan into a tombstone; the
  row is dead in the pool, still on the list, or its page is the last pending
  write. `FinishDelete` turns these pins into lasting ones, together with the flush.
* `NoRevival`: an UPDATE, which overwrites the slot it visits, comes to no deleted row.
* `TableSound`, `RootSound`, `ListSound`, `WritesSound`: catalog page and memory list
  heap pages; the statement's own list has at most one page more, which its next
  write makes; a write is of a listed page or of the tree's one page. Without
  these a write for the tree might hit a heap page.
* `NewPagesInOrder`: pages are allocated as the writes say, the next number first.
* `CheckpointListed`: page 0 lists the pages of the checkpoint. Since `store_catalog`
  may fail, memory may have pages that page 0 has not; those are in `unlisted`
  (`TableSound`), and their rows are in no checkpoint until a statement has stored
  the catalog. Only INSERT and UPDATE do that, so a row that a DELETE has flushed on
  such a page may still be lost: `CheckpointKept` leaves it out, because the statement
  that brought the page had reported an error.
* `Buried` and `OrphansHeld`: after a restart such a page belongs to nobody. The
  tombstones of deleted rows are pins as long as their page is listed (`Buried`), and
  stay as they are afterwards, because no statement writes a page that is not listed.

The writes of a row are proved to keep the pins once for all statements (`Batch`:
`InsertBatch`, `DeleteBatch`, `UpdateBatch`), then each action is one lemma.
`MatchingGood` treats the loop that filters a scan.

### Rows, indexes and statements

`DiskStorageProofs`, from `StorageAssumption` and `PageAssumption`, on the lemmas of
`HeapPagesProofs`. `InvariantHolds` is the inductive invariant `IInv`; none of the
properties is inductive without most of it:

* `ListsSound`: there are up to three page lists at a time - the statement's, the
  table's, the catalog page's - each an extension of the next, and the pages of the
  longest are sound. Since lists only grow and slots are never used again, a row id
  means the same through all of them, before and after a restart.
* `ScanTrue`: the rows of the scan that are still to do, and those the statement
  leaves alone, are where the scan has found them, and no row was found twice. This
  is what makes it right that UPDATE and DELETE look at the scan only, while the
  heap changes under it.
* `EntriesTrue` and `EntriesExact`: what indexes say of live rows, weakly at any time
  and exactly as long as nothing failed. `misled` names the rows at which an UPDATE
  was interrupted, or which it changed while page 0 listed an index that memory had
  taken back; it is empty as long as nothing failed. `RevokedTrue` says the same of
  that index, which statements leave as it is until a restart or the next catalog
  write decides about it.
* `CatalogTrue`: memory and catalog page agree between statements and during a DELETE,
  which changes neither page list nor roots.
* `RowsTraced`: there is a bijection from the rows of the scan that should be left by
  now to the live rows. It is what `StatementExact` counts with: `Cardinality` of what
  should be there and of what is there agree because of it.

From it follow `EntriesAlwaysSound` (`EntriesSound`), `IndexesAlwaysMatchHeap`
(`IndexesMatchHeap`), `CatalogAlwaysCurrent` (`CatalogCurrent`) and
`StatementsAlwaysExact` (`StatementExact`, an action property). `TextsAlwaysUnique`
(`TextsUnique`) adds `TextsTrue`: an UPDATE that gives a UNIQUE text has at most one
row to do, and no other row has that text. The proof needed a hypothesis that the
property had left unsaid: an I/O error between the two writes of a relocation leaves
the row twice.

### Bytes

`SlottedPageProofs`, from `FormatAssumption` and `PageSizeAssumption` (the values of a
byte tell the four tags apart; a page has a header; rows fit their counts).

1. `RowsReadExactly`: a row is read back from its bytes, and from no shorter and no
   longer piece. Three loops are treated: the digits of a number (`NumberOfDigits`,
   with division and remainder), the parts of a row one behind another (`RowLaid`),
   and the reader, of which `LoopReads` says after each value where it is and what
   it has.
2. `InvariantHolds`, the inductive invariant `Good(page, held)`: header and directory
   are sound (`Sound`), and each slot `Holds` the bytes of its row. The steps are
   proved for any record that is placed apart from the others (`Placed`), of which
   insertion, update and deletion are three cases.
3. `AlwaysLoadsAgain` (`LoadsAgain`), `AlwaysReadsBack` (`RowsReadBack`) and
   `WrongLengthAlwaysNoticed` (`WrongLengthNoticed`) follow with `RowsReadExactly`.
4. `AlwaysRecordPage` (`ImplementsRecordPage`): the page that is decoded from the bytes
   (`PageOf`) is the page of the rows that were put there (`Mapped`), and each
   operation changes that as `RecordPage` says. With it the theorems about the heap,
   which rest on `RecordPage`, are about bytes.

### The tree

`BPlusTreeProofs`, from `TreeAssumption` (keys are integers, a node holds two keys at
least), for every height of the tree.

1. `InvariantHolds`, the inductive invariant `IInv`. It has to be true of a tree that
   an insertion has left half split, with halves that no node points to, so it says
   nothing of what the root reaches. Every page of the file, reached or not, has a
   height and a span, a set of keys, that fit together (`Sound`): keys increase, a child
   is one lower than its node, the keys at and below a child are in its span, which is
   part of the span of its node and between the separators beside the child; no page is
   the child of two nodes, and the root of none. Heights and spans exist; they are
   not computed. While no operation has stopped half way, `IInv` also says where the
   chain of leaves goes (`Linked`): for every integer `j`, the leaf where the search
   for `j` ends is followed by the leaf where the search for some larger key `f`
   ends, and the searches for `j .. f - 1` end in the former; or it is the last.
2. `NodesAlwaysRead` (`TypeOK`) follows.
3. `TreeImplementsMap` (`KeyMapSpec`). The pages a search for `k` goes through are a
   `Route`: one page of each height, each the child of the one above for `k`. The spans
   along it may take `k` in. An insertion touches pages of the route, of
   which each is the only way to the ones below (`OneParent`), and new pages, so
   every other search goes on as before. `RouteDone` goes up the route:
   whatever has been written below page `p`, and wherever the list of writes is cut
   off, a search from `p` finds what it found and at most `k` besides, and at the end
   exactly this, from `p` and, when it was split, from its new half.
4. `AlwaysBalanced` (`Balanced`). A search passes one page of each height, so all
   searches from the root are equally long; `Linked` keeps the pages that a split has
   allocated and not written away from them.
5. `ChainAlwaysAgrees` (`ChainAgreesWithTree`). On the way up `RouteDone` also says where
   searches end: those for the keys of the leaf that is split, from the separator on,
   in its new half (`Moved`), all others where they did, and the leaf is linked to
   its half and the half to what the leaf was linked to (`Linking`). From these two
   `StillLinked` follows whatever the nodes above the leaf did.

### What stays with TLC

* Liveness (`StatementsEnd`): it needs fairness, which the provers do not have.
* `RangeInOrder` of `BPlusTree`: it puts the rows of the leaves together with a fold
  over a sequence, about which the prover's library has no facts. That the chain it
  follows is the right one is `ChainAlwaysAgrees`.
* `MemoryTable` and `QueryPlan`: no theorem. `SameRows` is about a fold over a bag.
* `Lexer`, `Parser` and `Shell` are recursive over words and conditions of any depth.
  They declare `RECURSIVE` operators, with which the prover has no arithmetic, and
  induction over their data is out of its reach; the loops above could be treated
  because they count. `SelectAnswers` of `QueryPlan` is about all conditions, which
  are data of that kind.

## 5. What is not modelled

* The state of the stream between calls (`src/src/storage/disk_manager.cpp:90`:
  an error flag that stays set until another call clears it). In `BufferPool` a
  flush may fail at any time, which covers its effect.
* The stream's own buffer: in `BufferPool` and `Durability` a write that succeeded
  is in the file even if the process dies, so `Crash` keeps it. Promises after a
  crash are therefore about writes, not about what the operating system kept.
* An allocation that fails (`src/src/storage/disk_manager.cpp:51`): the statement stops
  where it stops on a full disk, but part of a page may be left at the end of the
  file, which `open` refuses at the next start (`:117`), and with it every database.
* Torn page writes outside `BufferPool` and `Databases`. A torn page 0 is refused by
  `open`, a torn heap page or node by whoever reads it.
* Files that someone else puts into the data directory or takes out of it: two
  files with one database name, or a file of zeros, are met by tests of `open` that
  CurioDB's own statements never trigger.
* Several tables in one file, beyond `TableHeap`'s `OtherAllocates`; the names of
  indexes (`src/src/storage/disk_storage.cpp:137`), which do not matter to rows.
* The byte format of the catalog page, its versions and header fields.
* What is printed: results, errors, EXPLAIN, dot commands; lines and columns of
  tokens.
* Type and length tests of `validate_row`, the look-up of databases and tables by
  the executor, the map of databases in `InMemoryStorage`.
* Arithmetic at 2^16 and 2^32 (slot counts, page ids): out of reach of a bounded instance, and a
  page of 4096 bytes never gets near the first.

## 6. Plan

Written so far, in this order: `DiskManager`, `BufferPool`, `PageStore`,
`BufferPoolProofs`, `RecordPage`, `TableHeap`, `RowStore`, `BPlusTree`, `KeyMap`,
`DiskStorage`, `QueryPlan`, `Databases`, then I/O errors in `DiskStorage`,
`Serialization`, `SlottedPage`, `Durability`, `Lexer`, `Parser`, `Shell`,
`MemoryTable`; then `HeapPages` was split off `TableHeap`, and the proofs
`DatabasesProofs`, `HeapPagesProofs`, `TableHeapProofs`, `DurabilityProofs`,
`DiskStorageProofs`, `SlottedPageProofs` and `BPlusTreeProofs` were written.

Left is the proof of `SameRows` of `MemoryTable`, for which the bag of rows in memory
is to be compared with `RowsTraced`. Of the model, what is left is the catalog page's
format and several tables in one file.
