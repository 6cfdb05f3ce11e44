# ChuSQL in TLA+

Models, TLC runs and TLAPS proofs for the storage core of ChuSQL: snapshot
transactions, row locks, the write-ahead log with its recovery, the page files
under them, heap tables with their indexes, the files of the version directory,
online compaction, and the directory of databases. `PROJECT.json` lists the
components, the runs, the source lines each definition stands for, the hazards,
and the theorems.

## The system

ChuSQL is a SQL server. `chusql-server` (Haskell) accepts connections, keeps one
session each, and executes statements with the engine of `chusql-core/engine`.
`chusql-core/storage` (Rust) owns the data directory and answers requests.

| Part | State | Operations | What must hold |
|---|---|---|---|
| Row versions (`mvcc.rs`) | version chains per row, CSN, row counter | publish, prune, read at a snapshot, plan, merge | a snapshot never changes; a merge is exactly the transaction's edit; the directory can be opened again |
| Snapshot transactions (`mvcc.rs`, `runtime.rs`, `Session.hs`) | transaction map, commit gate, recovery flag | begin, lock, preview, commit, rollback, single writes, DDL | no lost update, no duplicate key, no write skew under SERIALIZABLE |
| Row locks (`mvcc.rs`) | held keys, wait edges, sleepers | lock, wake, time out, abort, finish, fail all | exclusion, no lost wakeup, no deadlock, every request returns |
| Logical WAL (`wal.rs`, `runtime.rs`) | frames, LSN counter, checkpoint file | append group, apply, flush, publish, checkpoint, truncate, recover | a group is all or nothing; committed groups survive; the database opens |
| Page files (`page.rs`, `page_wal.rs`) | pool, dirty set, data file, journal, sequence | read, write, evict, flush, truncate, open | no torn or lost page; reads give the last write |
| Version files (`mvcc.rs`) | `mvcc.json`, delta log, checkpoint | persist, new base, cut, open, replay | the files hold a whole version at any moment |
| Heap tables, B+ trees (`heap.rs`, `btree.rs`) | pages of rows and keys | insert, delete, scan, replace, look up, open | ids unique, index and heap agree |
| Catalog, generations (`catalog.rs`, `runtime.rs`) | schemas, object numbers, generations, retired files | create, drop, index, compact, collect | rows, indexes and files stay together; old files outlive their readers |
| Database directory (`runtime.rs`) | directories, map of open databases, gates, id counter | create, drop, resolve, guarded requests | a name is one object; ids are never given twice; every request ends |
| Sessions and gates (`Session.hs`, `Security.hs`, `Backend.hs`) | current transaction, savepoints, gates | statements, commit, close | a commit sees a consistent preview |
| Server edge (`TCP.hs`, `Auth.hs`, `RateLimit.hs`, `Accounts.hs`, `ObjectACL.hs`) | connections, failures, accounts, ACL | login, grant, limit | lockout and privileges |
| Engine (`Engine/*`) | none across statements | parse, bind, optimize, evaluate | an optimized plan gives the same rows |

How they interact. A session begins a transaction at a snapshot and, after each
statement, sends `MvccLock` with the rows it would write. Lock requests and
rollbacks run outside the database gate, so that a committer can go on and wake
those that wait; everything that writes holds the gate. A commit asks for a
preview of the merged rows, checks the constraints on it, and sends `MvccCommit`
with the checkpoint of the preview as a token, all under the commit gate of the
database. Storage merges the transaction's edit into the current rows, appends
the group to the log, applies it to the heap, flushes, publishes the versions
under the group's LSN, writes the checkpoint and cuts the log. Every heap and
index is a page file with a journal of its own. A compaction copies a table to
new files beside all this and swaps them in with a logged record. Every request
first finds its database in the map of open ones; a guarded request carries the
ids of the objects it was planned against and takes the gates of several
databases.

What is hard: the lock table, where requests sleep, wake and abort each other
while commits are published; pruning and publication against running snapshots;
crashes between any two of the steps of a commit, in recovery too; pages that
reach the disk in any order; errors after which the process goes on; a copy made
without the gate; and objects that are dropped and created again under the same
name while requests, plans, snapshots or retired files still refer to the old.

## Modules

| Module | Models | Lines of state |
|---|---|---|
| `MvccVersions` | the version algebra of `mvcc.rs`, as operators | none |
| `Mvcc` | one database's transactions, in `mvcc.rs`, the handlers of `runtime.rs` and the commit path of `Session.hs` | `durable`, `schemas`, `heap`, `txs`, `req`, `committer`, `gate`, `recovery`, `view` |
| `LockManager` | what the lock table promises, for any transactions and keys | `status`, `held`, `waiting`, `pc`, `wanted`, `notified` |
| `WalCommit` | `group_via_wal()` and `recover_wal()` over the log of `wal.rs` | log, checkpoint, versions, disk, cache, the group under way |
| `PageJournal` | `PageFile` and `PageWal` | file, journal, pool, the call under way |
| `BTree` | `btree.rs`, as operators on a tree of pages | none |
| `HeapTable` | one table of `heap.rs` over `BTree`, with the sharded scan | heap pages, trees |
| `VersionLog` | `Mvcc::open()`, `persist()`, `replay_deltas()`, and the publication that recovery repeats | base, delta lines, torn tail, memory, the version being persisted, checkpoint, readers |
| `Compaction` | `online_compact()`, `cleanup_generations()`, `collect_retired()` and the records that create, drop, index and migrate a table | catalog entry, files, open handle, logged record, copies under way, retired files |
| `Databases` | `struct Databases`: the map, its lock, the gates, the ids | directories, id counter in memory and on disk, map, lock, gates, requests |
| `MvccProofs`, `MvccCommitProofs` | the theorems of `Mvcc`, the second, on commits, on top of the first | |
| `LockManagerProofs`, `PageJournalProofs`, `DatabasesProofs`, `VersionLogProofs`, `WalCommitProofs`, `CompactionProofs` | the theorems of the six | |
| `MC...` | instances for TLC | |

`HeapTable` extends `BTree`; `Mvcc` extends `MvccVersions` and implements
`LockManager`. The others meet at their borders: `PageJournal` says what of a
page file comes back, `WalCommit` what of a table does when pages came back in
any combination, `VersionLog` how the publication that is one step of
`WalCommit` reaches its files, `Compaction` which files belong to the table, and
`Databases` which database a request runs on.

### Mvcc and MvccVersions

Every method of `Mvcc` runs under one mutex, so one call is one action, except
where the code lets the mutex go. A lock request is `Lock` up to its first
sleep, then `Wake` or `Timeout`, each a turn of the loop of `lock_inner()` from
the key it is stuck on; `FailLock` is the abort after a serialization failure,
under a second acquisition of the mutex. A commit is `Preview` (the session's
checks included), `CommitStart` or `CommitRefused`, `CommitApply` or
`CommitFail`, `CommitFinish`; locks and rollbacks interleave with all of them.
`DirectWrite`, `DropTable` and `ReplaceSchema` are single writes under the gate,
`DirectFail` one that fails after its append, before or behind the publication.

A row is its business key and a value that stands for the other columns; a
schema is its version; the CSN is the number of published groups, bounded by
`MaxCsn`. `view` is history: the heap as each transaction saw it when it began.
The session's check of object identities and privileges before a commit is left
out: it only refuses more.

### LockManager

The same control without data: a request wants any set of keys, takes any part
of it, and `validate()` may fail at any turn. `Mvcc` implements it: the run
`mvcc_core` checks this on an instance, under the mapping in `MCMvcc`, whose
keys are finite, and `MvccProofs` proves it for all keys. So what is proved of
`LockManager` holds of the storage layer.

### WalCommit

One table. Operations change cached pages row by row; a cached page reaches the
data file alone and in any order, as an eviction or an interrupted page journal
leaves it. A crash leaves a prefix of whole frames of the group being appended
(`parse()` drops a torn tail); an error after the append seals the service; a
crash or error may hit recovery itself. `acceptable` is history: the contents
that the answers given so far allow. Publication of the versions is one step.

A database that serves has every group whole or not at all (`Atomic`). An open
that fails is allowed in two cases only (`RefusedOnlyInPart`): some rows of a
batch insert reached the data file and others did not, or a record whose mark
was lost was published by an earlier recovery that did not reach its checkpoint.

A failed append leaves any number of its frames in the log, also when the service
goes on after it, and a cut leaves any number of frames of a group. What of this a
recovery takes for committed is outside the claim of `Atomic`, and nothing else is:
`strays` is history and says "logged" while such frames (those of a failed append,
or the lone first frame of a group of several operations) are in the log, "redone"
once a recovery has replayed them, "none" again when the log has been emptied before.
`Atomic` and `RefusedOnlyInPart` end with "redone"; `InStep` and `LsnNeverBack` do
not. `NeverHalf` is `Atomic` without this exception, which the code does not
keep (run `wal_lone`, and see Findings). The groups of `Groups` are not
empty (`WalAssumption`): the commit handler appends nothing then.

### PageJournal

`prepare()` frame by frame, the journal's sync, the page writes one by one, the
data file's sync, the published sequence, the emptied journal; evictions and
truncation; write errors at each of these; crashes that leave anything in a page
written since the last sync and any prefix of the unsynced frames, perhaps with
a torn frame behind them; and replay on open, frame by frame. `latest` and
`durable` are history: what was written last, and what must come back. A frame
that is whole but has a wrong checksum, frames persisted out of order, and a
truncation that fails between its RESET frame and `set_len` are not modelled.

### BTree and HeapTable

A node is a page of a sequence, with its keys, its values or children and the
next leaf; `TreeInsert`, `TreeDelete`, `TreeScan`, `TreeGetAll` and
`TreeIsEmpty` are the methods, `SplitNode` and `Store` the split. Keys are
numbers, values are positions `page << 16 | slot`. `HeapTable` has one action per
call on the handle, which is used under its mutex: `InsertRow`, `DeleteByKeys`,
`ReplaceRows`, `CreateIndex`, `DropIndex`, and `Reopen`, which may have lost the
files of any indexes and fills those that look empty. Lookups, ranges and shards
are operators that the properties compare with a scan of the pages. A page has
room for slot entries, which stay, and rows, whose bytes come back.

`ReopenSparse = FALSE` keeps a known flaw out of the passing run (see Findings).

### VersionLog

A publication is `Commit`, then `RenameSnapshot` and `TruncateLog` or
`AppendDelta`, then `Install` and `WriteCheckpoint`; a crash or a failing write
may come before each of them and leaves the log with a torn line or none.
`Open` reads base and log as `Mvcc::open()` does, cuts the torn tail, and
`Republish` is recovery publishing the last group again. A durable is a set of
versions; two tables are created, changed and dropped, and a database may come
from the time before version files (`EnsureMvcc` imports it). The size rule for
a new base is left to chance: whenever the log has lines, it may be cut.
`Found` is what the files give, line by line, and `Readable` whether
`Mvcc::open()` accepts it; `Published` is the version `publish_changed()` makes,
`Publishes` whether it refuses to. A row is known by its key here, so
`VersionLogAssumption` has keys unique in a table, which `HeapTable` checks.

### Compaction

One table name, whose files never mix with another's. A path is a generation and
a column; `files` is what the directory holds, `open` what the cached handle has
open, which a removed file outlives. A compaction is `Start` (under the gate),
`Copy` (without), `Swap` or `Refuse` (under the gate), the application of the
Migrate record, and `Release`. Schema records are logged, applied in the order
of `apply_op()` with a crash possible between the steps, and applied again at
`Restart`; `Cleanup` is `cleanup_generations()`. `collect_retired()` is
`CollectStart` (the oldest snapshot), `CollectLock`, and one `CollectRemove` per
file, entry by entry, the data file of an entry first (`NextToRemove`). Between
the copy and the swap the shadow catches up with the heap: `Kept` are the copied
rows that are still there in their order, `CatchUp` drops the others and appends
the rest.

After a rollback or a compaction the collection runs without the gate, so creates,
drops, swaps, new snapshots and a crash may come between its steps, and do. Two
variables are there for the properties alone: `saw` of `collect` are the snapshots the
collection could know of when it chose the oldest, and `torn` says whether a
create or a crash came while an entry was removed in part (`Halfway`). They
bound what is excepted. `SnapshotsKeepFiles` is about the snapshots in `saw`;
`SnapshotsRetain` is about all, and the code does not keep it (run
`compaction_retire`). `IndexesFit` lets the id index of a table with the plain file
names hold more than its rows once `torn` is set; `RetiredAreDead` lets the index
files of an entry that is removed in part belong to a table again, never a data file.

### Databases

A directory is a new one (`birth`) each time it is made; that is history, the
program has only its id. `create_database` and `drop_database` are one action per
file operation or save, under the lock of the map. `resolve_object` waits for a
gate with that lock held. Other requests `Select` their databases under it and
then `Acquire` gates in the order of the names; a writer that has to wait keeps
new readers out (`Park`, as `std::sync::RwLock` does on this platform). A drop
needs that no request holds a reference. `Validate` compares the ids of a guarded
request with those of the databases it has. `Restart` is `Databases::new()`,
which gives ids to databases whose creation was cut short. `acked` is what
clients were told. Object ACL requests and listings are left out.

## Runs

| Run | Instance | Shows |
|---|---|---|
| `mvcc_core` | 2 transactions, 2 keyed rows, a unique column, 2 commits | exact merges, unique keys, commits that pass the checks of storage when they passed the session's; with fairness, that `Mvcc` implements `LockManager` and every lock request returns |
| `mvcc_tables` | 2 transactions, 2 tables, one without key and with two identical rows, altered and dropped | stable snapshots across DDL and pruning, versions equal to the heap, matching by content, serializable reads |
| `lock_manager` | 3 transactions, 4 keys | exclusion, wakeups, no cycle |
| `wal` | 3 groups among transactions, single writes and batches, 3 crashes or errors | groups atomic and durable unless a recovery redoes frames of a failed append or a lone frame; log, pages and versions in step; the database opens but in the two cases above; LSNs grow |
| `page_journal` | 3 pages, pool of 2, 3 frames, 2 failures | redo, checkpoint, reads, sequence numbers |
| `heap_table` | 6 calls, 6 rows, nodes of 2 keys, pages of 2 rows, `ReopenSparse = FALSE` | lookups, ranges, shards and the duplicate check agree with the heap, over reopens that find no sparse index |
| `version_log` | 2 tables, 3 commits, 2 faults, a reader | the files hold a whole version, the open accepts them, redo changes nothing, readers see the last commit |
| `compaction` | 2 compactions, 2 workers, 2 tables of one name, an index, a crash, collections that anything may interrupt | rows and indexes fit together; retired files are dead, apart from the indexes excepted above, and outlive the snapshots the collection knew of; migrations find their target |
| `databases` | 2 clients, 2 databases, 4 requests, a fault | ids, acknowledged creations, drops against use, stale plans, every request ends |

Every module with state has a `TypeOK`, which says what values its variables take; the runs
of `LockManager`, `PageJournal` and `Databases` check it, and every proof has it,
or (`WalCommitProofs`) types of its own for what it needs, in its invariant.

The bounds. Two transactions meet every pairwise conflict; three are needed for
a cycle longer than two, and `lock_manager` has three. Two commits let a
snapshot fall two versions behind and be pruned past. Two rows to a page make a
group span pages. Two crashes let recovery be interrupted and run again. Three
frames with a pool of two pages let an eviction be followed by a flush whose
journal still has the eviction's frames. Nodes of two keys split at the third
row, so six rows make a tree of three levels, and a page of two rows leaves
space after a delete that the next insert may not take. Three commits and two
faults let a base be written over deltas, a crash leave both, and another hit
the open. Two compactions let the second find the first under way or retired;
two tables let the name be taken again. Four requests are enough for: resolve,
drop, create, guarded use; and for two guarded requests with gates in each
other's way. Symmetry is over transactions, keys, pages, images and workers,
which the models treat alike; runs with liveness have none.

Fairness. `mvcc_core` (`FairSpec`): weak fairness of `Wake`, `Timeout` or `FailLock` of
each transaction: the thread of a request runs on, `wait_timeout` returns, and the
function around it goes to its end. Which of `Wake` and `Timeout` it is, is left
open: only `MaxCsn` transactions and writes can notify a sleeper, after that its time
is over. Nothing is assumed of the sessions:
nobody need ever commit or roll back. `databases`: weak fairness of each
client's steps, which are threads that run on, and of the restart. The number of
requests is bounded, so nothing is claimed about a client that others overtake
for ever; what the run excludes is a cycle of waits. It says
`CHECK_DEADLOCK FALSE` because clients may stop sending requests; the other
models name their end state (`Done`).

## Findings

Each is a run in which TLC finds the quoted statement violated by what the code
does; the quotations are in `PROJECT.json`.

- `wal_lone`: `NeverHalf` fails, for the first frame of a torn group counts as a
  committed single write.
- `table_dup`: with many equal keys a split puts the new leaf behind a leaf that
  follows it in the chain, and a lookup loses rows.
- `compaction_retire`: a snapshot that begins after a collection has read the oldest
  one, and before it has locked its list, may find its data file removed by that
  collection.

These follow from the same models and are not kept as runs; the constants named
bring them back.

- A single write that fails after its append sets `recovery_required` and leaves
  sleeping lock requests asleep until their time is over (`runtime.rs:2958`):
  only the commit handler calls `fail_all()`, which promises to wake them
  (`mvcc.rs:1228`). In `Mvcc` that is `DirectFail`.
- `WalCommit` with `Groups <- OneInsert`: `NeverHalf` fails here too. A group
  refused because its append failed stays in the log, and a restart replays it
  (`docs/architecture.md:62` promises the recovery state).
- `WalCommit` without `RefusedOnlyInPart`'s exception: a batch of which one page
  was written, or a lone record that was published before its checkpoint, makes
  every later open fail (`runtime.rs:818` promises that it is completed).
  With `Rows <- AllRows` and `Copies` over `Unkeyed`, `Atomic` fails after one crash:
  the second copy of a row without id counts as applied.
- `WalCommit` with the empty group among `Groups` (against `WalAssumption`):
  `InStep` fails. A mark with no record before it is published like any group, but
  a recovery that finds it takes nothing for committed, drops the mark and leaves
  the checkpoint; the open after that finds the versions ahead of the log and
  refuses.
  The handler of `ApplyTransaction` (`runtime.rs:2646`) does not refuse such a
  group; no client sends one today, and the commit handler asks
  (`runtime.rs:2952`).
- `HeapTable` with `ReopenSparse = TRUE` over `FewRows`: `IdsUnique` fails.
  `is_empty()` looks at the leftmost leaf only; when deletions emptied it, the
  next open fills the index a second time (`heap.rs:367`), and an id stays
  "duplicate" after its row is gone.
- `Compaction` without the exceptions of `IndexesFit` and `RetiredAreDead`: both
  fail. `collect_retired()` removes the plain data file of a dropped table; before it
  comes to the id index, the table is created again, takes the plain names and opens
  the old index with the old ids in it, and the collection then removes that file from
  under the handle. A test (`runtime_test.rs:3919`) says that a table created again
  under its name is empty.
- `Databases`: a crash behind `create_dir` and before the catalog leaves a name
  that can be neither created nor dropped; the tombstone of a crash stays for
  good; an error between the removal from the map and the rename leaves a
  database unlisted until the restart. No document promises otherwise.

## Theorems

`LockManagerProofs` proves, for all sets of transactions and keys, type
correctness, exclusion, no lost wakeup and an acyclic wait graph. `TypeOK` is
inductive by itself and says which locks and edges can exist; each of the others
is inductive together with it. A cycle is stated through closed sets of
transactions, so no induction over paths is needed: from the set that shows the
owner of the new edges to be on no cycle and the set that showed it for another
transaction before, one of them, their union or their intersection shows it now.

`PageJournalProofs` proves, for all sets of pages and images, any pool size and
any number of failures, that synced images survive (`Redo`), that the journal is
emptied only when the file has them, that reads give the last write, and that
sequence numbers grow. `Inv` adds: which stage belongs to which call (`Stages`);
that a torn or unsynced frame means a journal being written, closed, or about to
be read (`Closed`); that clean pages are in the file (`Clean`); that pages being
written have their images in the journal (`Writing`); that a batch has one frame
per page, above the published sequence (`Batch`); and how far replay is
(`Replaying`). There is one lemma per action. The assumption is
`PageAssumption`: the zero page is an image, the markers are not.

`DatabasesProofs` proves, for all sets of names and clients and any number of
requests and faults, type correctness, that no id is given twice, that an
acknowledged database stays until it is dropped, that a guarded request runs on
the databases it was planned against, and that the duplicate check of
`Databases::new()` never refuses a start. None of these is inductive alone.
`Inv` adds what a request between its steps knows (`Phases`); that no id was
given above the counter on the disk, and an id being assigned is above all given
ones (`Counter`); that ids on the disk were given, each to one directory
(`DirIds`); that an id a client knows is that of one birth (`Bindings`); and that
the databases clients were told of are the open ones and the one a drop has taken
out of the map (`Told`).

`CompactionProofs` proves types and `TargetThere` for any number of compactions,
tables, readers and crashes. Its invariant `Core`: what is logged, how far it is
applied and the catalog go together (`Flow`); only the compaction that logged a
change of generation goes on with it (`Running`); every generation in use is
below the counters (`Bounds`); the one a compaction fills is nobody else's
(`Fresh`); and what is migrated is there (`MigrateOK`). The assumption is
`CompactionAssumption` of `Compaction`.

`CompactionProofs` also proves `RowsOnDisk`, `RetiredAreDead` and
`SnapshotsKeepFiles`, with anything coming between the steps of a collection.
`RowsOnDisk` speaks of the time between two operations, so `RowsInv` has to say
where the rows are while one is applied and after a crash within it (`DataOK`,
`OpenOK`), that no file that is still to be removed is one of those, and that
the data file of a retired entry is there until a collection removes it
(`HeldOK`, `GoneOK`). `CollectOK` says what a collection relies on while others
move: what it removed belongs to an entry that had expired for the oldest
snapshot it read, and that one is not above any it saw.
It rests on
`CaughtUp`, that `CatchUp` gives the latest rows in their order from any copied
ones; `Kept` is a recursive function, and the induction over its argument is
stated for a set of numbers, since the provers do not take a predicate.

And it proves `IndexesFit`. An index file is filled or
empty, and an empty one is filled when it is opened, so `IndexInv` follows every
file that an operation is about to open, or that a restart may find: it is one of
the two (`FilledOK`), and between two operations the open indexes find the rows
(`FoundOK`). The hard case is a table created under the name of one that was
dropped. It takes the plain file names again once the data file is gone, and the
index of the old table may still be there; `PlainOK` says that this index is empty
or about to be removed, or that `torn` is set: a crash cut a removal between
the two files, or a collection is between them. That no other index is
concerned rests on the order of removal and on what the lists of files contain
(`ListsOK`).
`KeyedOK` (no row is there twice) is why an entry goes when its row does.

`VersionLogProofs` proves all four properties of `VersionLog` and its types, for
all catalogs of finitely many rows with unique keys, all readers, and any number
of commits, crashes, write errors and restarts. The files and the memory do not
hold the same set of versions: `finish()` prunes in memory only, and a line is
pruned for the readers of its time. What they share are the open versions, so the
invariant compares with `Same` (commit, counter, live tables, open versions) and
says with `Shows` that the open versions are the rows of a catalog. `Inv` is: what
a restart finds is sound, is the last commit or the one before, and no line is
above it (`FilesSound`); what is known before the first publication
(`Importing`); how the checkpoint follows the commits (`Stages`); memory agrees
with the files and shows the last commit (`MemorySound`); and the version being
persisted shows it, and is the same as memory when its number is
(`NextSound`). Three lemmas carry it: a publication keeps a durable sound and makes
it show the catalog (`PublishedShows`, with numbers that are new for new
keys); publishing what is shown changes nothing (`RawAgain`); and the
line for the step from one version to the next makes of anything that is the same
as the first something that is the same as the second (`LineMakes`). Reading the
log is a recursive function: that lines at or below the base change nothing
(`ReplaySkips`) and that an appended line is read last (`ReplayAppend`) are
inductions over sets of numbers.

`WalCommitProofs` proves `InStep` and `LsnNeverBack` for all rows, groups of
operations, pages of the data file, page sizes and numbers of groups and crashes,
whatever frames failed appends and crashes leave in the log and whenever a crash
follows. The only assumption is `WalAssumption`. `InStep` is about a database that
serves, so `Inv` has to say what a crash at any step leaves behind. It reads the log
as `recover_wal()` does: either nothing after the checkpoint is committed, and then
the versions and the data file are still the checkpoint's (`Settled`), or something
is, and then no frame is above the commit that a replay completes (`Redoable`).
`Recoverable` says which of the two holds where; `Numbers` orders frames, counter,
checkpoint, versions and the commit under way, and says that a counter that starts
again after a restart does so over a log with nothing above the checkpoint; `Pages`
ties the cached pages to the data file, which is never longer and is equal once
everything is flushed. `CutGroup` and `GroupPending` carry it: of a group that a
crash cut anywhere, `committed_ops()` takes either nothing or something whose last
number is the last in the log. `Select` is a recursive function, and what it keeps
(`SelectTyped`, `SelectTail`) is an induction over a set of numbers.

Its second part proves `Atomic` (`AtomicHolds`) and `RefusedOnlyInPart`
(`RefusalsInPart`), with the exception that both state and again for all rows,
groups, pages and numbers of crashes. The hypotheses are these; the run `wal` meets
all of them, and without any one of them TLC finds a counterexample. The first and
the last are what `recover_wal()` needs of the data, the second is what its callers
give it.

- `Keyed`: every row has an id. `applied_rows()` tells by the id whether a row is
  there; see `Copies` under Findings. Tables without an `id` column are outside
  the theorem.
- `Merged`: of the operations of a group on one table only the first may delete or
  replace, and a replacement has no id twice. This is what reaches
  `apply_transaction()`: `merged_ops()` (`mvcc.rs:330`) and `transactionOps`
  (`Session.hs:809`) make of each table one `Delete` and one `Upsert` after it, or
  one `Replace`, and a direct write is one operation. That a replacement has no id
  twice is asked before a commit and before a single write is sent, as for
  `RowsStayUnique` below. The handler itself asks for neither: with pages of one
  row, rows 1 and 2 with value `a`, and the group delete 1, insert (1, `b`), delete
  1, insert (1, `a`), a crash can leave a data file whose recovery runs into an id
  that is there and gives up, against `RefusedOnlyInPart`.
- `IdsUnique(InitPages)`: the first pages have no id twice.

The invariant `Story` has to say what the data file may look like after pages
reached it in any order, and that recovery, and a recovery after that, gets from
there to one of the acceptable contents. It names two sets of rows: `K`, the rows
that stay under the group, and `N`, the rows that come with it; the group ends with
`K \cup N`, and which of the two a row is in does not change while it is applied,
whatever is interrupted. `Laid` says of any mixture of old and new pages that every
row of `K` is on the same page in file and cache, and that an id on two pages
belongs to a row that comes, is on no third page, and its new copy is on the later
one. `Work` adds what is left to do: it brings each missing row of `N` and deletes
each id that must go; `Covers` says that starting again from the data file would do
so too, as long as the log has no frames of failed appends; `Redo` is the same
between opens. `RowStep` is proved to keep `Work` kind by kind (`WorkDeleted` and
its siblings), and `FlushPage` to keep `Laid` and `Covers`. An operation that
recovery skips (`OpAlreadyApplied`) is one that has nothing left to bring. `Inv` of
the first part supplies the log: what recovery finds of a cut group is the whole
group or nothing (`AppendedPending`), or a lone frame, which `strays` names. So
`Inv` holds throughout, and `Story` until `strays` is "redone" (`Told`); `Clean` is
the case in which the log has no such frames. The rows after each operation of a
group are a recursive function (`Afters`), so that the contents a group leads to
(`After`) can be reasoned about by induction over the operations.

`MvccProofs` is about `Mvcc` for all transactions, tables, rows, plans, direct
writes and commits. `SnapshotStable` and `HeapPublished` need to know what
publication and pruning do to a chain of versions. `ChainOK` makes a chain a
history: its versions follow each other and all but the last are closed, so a
reader sees at most one (`VersionSeen`). Publishing rows over a table shows them
in their order to readers from that commit on and changes nothing for earlier
ones (`PublishTableOK`): rows are matched by key or by content, each with
one row of its own (`MatchRowsIs`), a matched row goes on in its chain, the others
are closed or new, and the position in the heap is the order. Pruning changes
nothing for readers from `oldest` on (`PruneHistory`). `StateInv` carries
this through the steps: the published tables are such histories (`DurableOK`), an
active transaction reads at its snapshot what it saw at its begin (`SnapshotsOK`),
for which pruning must be bounded by every active snapshot; unless recovery is
required, the newest versions of a table of the catalog are its heap and a
dropped one reads empty (`HeapOK`); and what a commit that holds the gate relies on
(`CommitOK`). Publication, matching, plans and application are recursive functions;
that they are defined (`Recursion`) and what they return are inductions over sets
of numbers. The assumptions: `"none"` is no transaction, tables are finitely many
numbers, initial rows, plans and direct writes are of their types
(`TxAssumption`, `TablesAssumption`, `RowsAssumption`), `MaxCsn` is a number.

`SerializableReads` (`ReadsAreCurrent`) needs to know what the mark `changed` of a
table promises. A publication either marks the table with the new number or leaves
every row as often as it was (`UnchangedRows`: then each published row matched one
old row of the same content and none was left over), so a table that was not marked
since an active snapshot still has the rows of that snapshot (`ChangedOK`; rows may be in
another order, which is why the property counts them). `ReadsOK` carries what
`validate()` found when the commit started to the write itself: of the steps that may
run in between only a rollback touches versions, and it prunes nothing an active
reader sees.

The same module proves that `Mvcc` implements `LockManager`
(`ImplementsLockManager`). The abstract request takes any part of what it wants;
the concrete loop goes through the keys in order and stops at the first obstacle,
and the proof shows for each way out of the loop which abstract step it is.
Exclusion, no lost wakeup and no circular wait are then restated for the
transactions of `Mvcc` (`RowsLockedOnce`, `SleepersBlocked`, `NoCircularWait`).

`MvccCommitProofs` is about commits. `CommitAccepted` (`CommitsAccepted`) and
`UniqueRows` (`RowsStayUnique`, `KeysStayUnique`) follow what a session checked on
the preview's candidate rows to the write. `MergeUnique`: while the checkpoint token
is current and no recovery is required, applying the merged operations still gives
unique rows, because nothing is published and a rollback of another transaction
prunes no version the merge looks at (`MergedKept`, from `PruneMerge`: the plan at
an active snapshot and the rows at the newest commit come out the same).
`GateUnique`: so do the operations the gate took. The merged operations are
`InTurn`, which is what `merged_ops()` makes of each table in turn (`MergedInTurn`):
only a delete is followed by another operation on its table. So every upsert leaves
its table as the whole group does (`LastOnTable`), hence `validate_insert_ids()`
finds no duplicate (`NoDuplicateId`), and a group that an I/O error stops halfway
has taken rows away or finished the table (`PartUnique`). `RowsStayUnique` is about
transactions: it assumes that the initial rows are unique and that the writes
outside transactions keep them so, which is for the engine (`Engine.hs`,
`enforceConstraints` before a single write is sent); the storage layer itself checks
keys of upserts only. `KeysStayUnique` is the case without a unique column, where
that check is enough: it assumes of direct writes only that a whole-table
replacement brings unique rows.

`MergeExact` (`MergesAreExact`) says that a commit does to each table what its
transaction did to the rows it saw. The argument counts how often each row
occurs, since the merge reorders rows. `HeldOK`: an active transaction holds the lock
of every row its plan touches (`Covers`), also when the plan was made in several
requests and other transactions have published or been pruned in between. When
`validate()` then finds no held row changed since the snapshot, each touched row is
still the one the transaction saw (`CurrentRow`). Of the rows it saw, a plan keeps
some, takes some away and adds some, and the balance of the three is the session's
edit, whether a row was recognised by its key or, without a key, by its content or
as a changed spare row (`PlanBalance`). The operations the merge makes of a plan
change the current rows by the same balance, keyed rows by a delete or an upsert,
the others by replacing the table (`MergeTableCounts`); the current rows the
transaction does not touch stay, those others added as well (`OthersLeave`, `NoEdit`).
Tables are taken in turn (`MergedExact`), and `GateExact` carries the balance from the
start of the commit to the write.

Every safety property that a run of `Mvcc` checks is a theorem. Only
model-checked: `BTree` and `HeapTable`, whose trees are built recursively, and
liveness, which the proof system cannot express.

## Not modelled, and the plan

Proofs that are left need induction over recursively built trees (`BTree`,
`HeapTable`). Models that would come next:

1. `Session`: staging, savepoints, the differential commit of the in-memory
   backend, autocommit; `Gates`: the fair read-write gates of `Security.hs` and
   their registry.
2. `Edge`: login, lockout, rate limits, connections; `Acl`: optimistic
   replacement and evaluation of privileges; `Pipe`: the storage client; account
   groups in the system database.
3. Columns that are hidden, dropped or replaced, and catalog statistics, with
   their records in the log.
4. `Optimizer`: rewrites and join order against the unoptimized plan (TLC only).

Left out for good: parsing, formatting, configuration, logging, the command
line, packaging. The models abstract from them.
