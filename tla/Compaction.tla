----------------------------- MODULE Compaction -----------------------------
(***************************************************************************)
(* Online compaction and the physical files of a table: online_compact(),  *)
(* cleanup_generations() and collect_retired() of                          *)
(* chusql-core/storage/src/runtime.rs, with the operations that choose,    *)
(* create and remove the same files.                                       *)
(*                                                                         *)
(* One table name is enough: its files never mix with another name's.  The *)
(* name has a plain set of files (T.db, T.idx, ...) and one for each       *)
(* generation (T.g<generation>.db, ...).  A compaction copies a snapshot   *)
(* of the rows to a new generation without the gate, catches up with the   *)
(* heap under the gate, and logs the change of generation.  The files of   *)
(* the old one are retired: they go when no snapshot is older than the     *)
(* change, or at the next start.                                           *)
(*                                                                         *)
(* A schema operation is logged, applied in steps a crash may come         *)
(* between, and published; a restart applies it again.  Writes of rows are *)
(* one step here: WalCommit has theirs.  A row is its own key, so an index *)
(* file is the set of the rows it finds.  I/O errors are left out.         *)
(***************************************************************************)
EXTENDS Integers, Sequences, SequencesExt, FiniteSets, TLC

CONSTANTS
    Rows,          \* rows that may be written
    Columns,       \* columns beside the id that may get an index
    Readers,       \* snapshot transactions
    Workers,       \* threads that serve a Compact request
    MaxCsn,        \* bound on the commits
    MaxObjects,    \* bound on the tables created
    MaxCopies,     \* bound on the compactions
    MaxCrashes     \* bound on the crashes

ASSUME CompactionAssumption ==
    /\ {"id", "db"} \cap Columns = {}
    /\ MaxCsn \in Nat \ {0} /\ MaxObjects \in Nat /\ MaxCopies \in Nat /\ MaxCrashes \in Nat

VARIABLES
    catalog,   \* the entry of the table: [id, gen, cols], or NoTable
    gens,      \* its generation in Server::generations, or Unknown
    files,     \* the directory: contents of the files that are there
    open,      \* contents of the files the cached handle has open
    rows,      \* what the committed operations made of the table
    wal,       \* the operation that is logged and has no checkpoint, or NoOp
    step,      \* how far its application is
    left,      \* the files it still has to remove
    csn,       \* the published commit
    copies,    \* generations named so far
    objects,   \* object ids given so far
    readers,   \* snapshots of the readers, or Idle
    workers,   \* the compactions under way
    retired,   \* Server::retired: [csn, paths]
    due,       \* is a call of collect_retired() about to start?
    collect,   \* the call under way: [pc, oldest, gone, saw], or NoCollect
    mode,      \* "up", "down" or "recover"
    crashes,   \* crashes so far
    torn       \* history: did a create or a crash come between the removals of
               \* the files of one entry?

directory == <<catalog, files>>
server == <<gens, open, retired>>
log == <<wal, step, left>>
counters == <<copies, objects, crashes, torn>>
vars == <<directory, server, log, rows, csn, readers, workers, due, collect, mode, counters>>

NoTable == [id |-> 0, gen |-> 0, cols |-> {}]
NoOp == [kind |-> "none"]
NoCollect == [pc |-> "idle", oldest |-> -1, gone |-> {}, saw |-> {}]
NoWork == [pc |-> "idle"]
NoFiles == [p \in {} |-> p]
Idle == -1
Unknown == -1
Plain == 0                              \* the generation without a suffix
ObjectGen(id) == -1 - id                \* generations named after an object id
Exists == catalog # NoTable

(***************************************************************************)
(* Files.                                                                  *)
(***************************************************************************)

\* file_prefix(), table_path() and index_path().
Prefix == IF gens = Unknown THEN Plain ELSE gens
Db(gen) == <<gen, "db">>
Index(gen, column) == <<gen, column>>
Paths(gen, columns) == {Db(gen)} \cup {Index(gen, c) : c \in columns}

\* The files of a list go one by one, the data file before its indexes.
NextToRemove(paths) == {p \in paths : p[2] = "db" \/ \A q \in paths : q[2] # "db"}

Without(fs, paths) == [p \in DOMAIN fs \ paths |-> fs[p]]

\* As Opened, but an empty index stays empty.
OpenedUnfilled(fs, gen, columns) ==
    [p \in {Db(gen)} \cup {Index(gen, c) : c \in columns} |->
        IF p \in DOMAIN fs THEN fs[p] ELSE IF p = Db(gen) THEN <<>> ELSE {}]

\* open_with_indexes(): what is missing is created, an empty index is filled.
Opened(fs, gen, columns) ==
    LET data == IF Db(gen) \in DOMAIN fs THEN fs[Db(gen)] ELSE <<>>
    IN  [p \in {Db(gen)} \cup {Index(gen, c) : c \in columns} |->
            IF p = Db(gen) THEN data
            ELSE IF p \in DOMAIN fs /\ fs[p] # {} THEN fs[p]
            ELSE Range(data)]

\* The contents of open files that still have a name.
Written(fs, handle) ==
    [p \in DOMAIN fs |-> IF p \in DOMAIN handle THEN handle[p] ELSE fs[p]]

\* A table is opened by its first use.
Reopen(fs, cat) ==
    /\ open' = IF cat = NoTable THEN NoFiles ELSE Opened(fs, cat.gen, cat.cols)
    /\ files' = [p \in DOMAIN fs \cup DOMAIN open' |->
                    IF p \in DOMAIN open' THEN open'[p] ELSE fs[p]]

(***************************************************************************)
(* Writes of rows.                                                         *)
(***************************************************************************)

\* The gate is free and the service is not sealed.
GateFree == mode = "up" /\ wal = NoOp

WriteRows(new, add, remove) ==
    /\ GateFree /\ Exists /\ csn < MaxCsn
    /\ rows' = new
    /\ open' = [p \in DOMAIN open |-> IF p = Db(Prefix) THEN new
                                      ELSE (open[p] \ remove) \cup add]
    /\ files' = Written(files, open')
    /\ csn' = csn + 1
    /\ UNCHANGED <<catalog, gens, retired, log, readers, workers, due, collect, mode, counters>>

\* validate_insert_ids() refuses an id that the index finds.
Insert(r) ==
    /\ GateFree /\ Exists /\ r \notin open[Index(Prefix, "id")]
    /\ WriteRows(Append(rows, r), {r}, {})

Delete(r) ==
    \E i \in DOMAIN rows : rows[i] = r /\ WriteRows(RemoveAt(rows, i), {}, {r})

(***************************************************************************)
(* Schema operations.                                                      *)
(***************************************************************************)

Log(op) ==
    /\ GateFree /\ csn < MaxCsn
    /\ wal' = op /\ step' = "apply" /\ left' = {}

CreateTable ==
    /\ ~ Exists /\ objects < MaxObjects
    /\ Log([kind |-> "create", id |-> objects + 1])
    /\ objects' = objects + 1
    /\ UNCHANGED <<directory, server, rows, csn, readers, workers, due, collect, mode,
                   copies, crashes, torn>>

DropTable ==
    /\ Exists
    /\ Log([kind |-> "drop"])
    /\ rows' = <<>>
    /\ UNCHANGED <<directory, server, csn, readers, workers, due, collect, mode, counters>>

CreateIndex(c) ==
    /\ Exists /\ c \notin catalog.cols
    /\ Log([kind |-> "index", col |-> c])
    /\ UNCHANGED <<directory, server, rows, csn, readers, workers, due, collect, mode, counters>>

DropIndex(c) ==
    /\ Exists /\ c \in catalog.cols
    /\ Log([kind |-> "unindex", col |-> c])
    /\ UNCHANGED <<directory, server, rows, csn, readers, workers, due, collect, mode, counters>>

Applying(kind) == mode # "down" /\ wal.kind = kind /\ step = "apply"
Aside == <<wal, rows, csn, readers, workers, due, collect, mode, counters>>

\* The collection under way has removed a part of the files of one entry.
Halfway == collect.gone # {}

\* As ApplyCreate, but the plain files are taken whether or not they are there.
ApplyCreatePlain ==
    /\ Applying("create")
    /\ gens' = Plain
    /\ Reopen(files, [id |-> wal.id, gen |-> gens', cols |-> {"id"}])
    /\ step' = "save"
    /\ torn' = (torn \/ Halfway)
    /\ UNCHANGED <<catalog, retired, left, wal, rows, csn, readers, workers, due, collect, mode,
                   copies, objects, crashes>>

\* The plain files are left to the snapshots that may still need them.
ApplyCreate ==
    /\ Applying("create")
    /\ gens' = IF Db(Plain) \in DOMAIN files THEN ObjectGen(wal.id) ELSE Plain
    /\ Reopen(files, [id |-> wal.id, gen |-> gens', cols |-> {"id"}])
    /\ step' = "save"
    /\ torn' = (torn \/ Halfway)
    /\ UNCHANGED <<catalog, retired, left, wal, rows, csn, readers, workers, due, collect, mode,
                   copies, objects, crashes>>

ApplyDrop ==
    /\ Applying("drop")
    /\ left' = Paths(Prefix, {"id"} \cup catalog.cols)
    /\ catalog' = NoTable /\ open' = NoFiles
    /\ step' = "remove"
    /\ UNCHANGED <<files, gens, retired, Aside>>

\* build_index() clears what the file held.
ApplyCreateIndex ==
    /\ Applying("index")
    /\ LET handle == Opened(files, Prefix, catalog.cols)
       IN  open' = [p \in DOMAIN handle \cup {Index(Prefix, wal.col)} |->
                        IF p \in DOMAIN handle THEN handle[p] ELSE Range(handle[Db(Prefix)])]
    /\ files' = [p \in DOMAIN files \cup DOMAIN open' |->
                    IF p \in DOMAIN open' THEN open'[p] ELSE files[p]]
    /\ step' = "save"
    /\ UNCHANGED <<catalog, gens, retired, left, Aside>>

ApplyDropIndex ==
    /\ Applying("unindex")
    /\ open' = Without(open, {Index(Prefix, wal.col)})
    /\ catalog' = [catalog EXCEPT !.cols = @ \ {wal.col}]
    /\ left' = {Index(Prefix, wal.col)}
    /\ step' = "remove"
    /\ UNCHANGED <<files, gens, retired, Aside>>

\* Migrate: without the target nothing is changed, and recovery does not end.
ApplyMigrate ==
    /\ Applying("migrate")
    /\ Db(wal.target) \in DOMAIN files
    /\ catalog.id = wal.id /\ catalog.gen \in {wal.source, wal.target}
    /\ catalog' = [catalog EXCEPT !.gen = wal.target]
    /\ gens' = wal.target /\ open' = NoFiles
    /\ step' = "publish"
    /\ UNCHANGED <<files, retired, left, Aside>>

SaveCatalog ==
    /\ mode # "down" /\ step = "save"
    /\ catalog' = IF wal.kind = "create"
                  THEN [id |-> wal.id, gen |-> gens, cols |-> {"id"}]
                  ELSE [catalog EXCEPT !.cols = @ \cup {wal.col}]
    /\ step' = "publish"
    /\ UNCHANGED <<files, server, left, Aside>>

RemoveFile ==
    /\ mode # "down" /\ step = "remove"
    /\ \E p \in NextToRemove(left) : files' = Without(files, {p}) /\ left' = left \ {p}
    /\ step' = IF left' = {} THEN "publish" ELSE "remove"
    /\ UNCHANGED <<catalog, server, Aside>>

\* The rows are published, which opens the table, and the checkpoint is written.
Publish ==
    /\ mode # "down" /\ step = "publish"
    /\ wal.kind = "migrate" => collect.pc # "locked"
    /\ Reopen(files, catalog)
    /\ csn' = csn + 1
    /\ wal' = NoOp /\ step' = "none"
    /\ IF wal.kind = "migrate" /\ mode = "up"
       THEN /\ retired' = retired \cup {[csn |-> csn + 1, paths |-> workers[wal.by].old]}
            /\ workers' = [workers EXCEPT ![wal.by].pc = "done"]
       ELSE UNCHANGED <<retired, workers>>
    /\ UNCHANGED <<catalog, gens, left, rows, readers, due, collect, mode, counters>>

(***************************************************************************)
(* Compaction.                                                             *)
(***************************************************************************)

\* Phase one, under the gate: a snapshot of the rows and the table's entry.
Start(w) ==
    /\ GateFree /\ Exists /\ workers[w] = NoWork /\ copies < MaxCopies
    /\ copies' = copies + 1
    /\ workers' = [workers EXCEPT ![w] =
                     [pc |-> "copy", schema |-> catalog, rows |-> rows, snapshot |-> csn,
                      target |-> copies + 1, columns |-> {}, old |-> {}]]
    /\ UNCHANGED <<directory, server, log, rows, csn, readers, due, collect, mode, objects,
                   crashes, torn>>

\* index_columns() and the copy, without the gate.
Copy(w) ==
    /\ mode = "up" /\ workers[w].pc = "copy"
    /\ LET work == workers[w]
           columns == {"id"} \cup catalog.cols
       IN  /\ workers' = [workers EXCEPT ![w].pc = "swap", ![w].columns = columns]
           /\ files' = [p \in DOMAIN files \cup Paths(work.target, columns) |->
                           IF p = Db(work.target) THEN work.rows
                           ELSE IF p[1] = work.target THEN Range(work.rows)
                           ELSE files[p]]
    /\ UNCHANGED <<catalog, server, log, rows, csn, readers, due, collect, mode, counters>>

\* As CatchUp, but the copied rows that are gone stay.
CatchUpAppending(copied, latest) ==
    copied \o SelectSeq(latest, LAMBDA r : r \notin Range(copied))

\* One of the latest rows: it is looked for among the copied rows after those
\* that are kept, unless an earlier one was not found.
Visit(copied, latest, kept, n) ==
    LET after == {i \in DOMAIN copied : copied[i] = latest[n] /\ \A j \in DOMAIN kept : kept[j] < i}
    IN  IF Len(kept) < n - 1 \/ after = {} THEN kept ELSE Append(kept, Min(after))

\* The positions of the copied rows that are kept.
Kept(copied, latest) ==
    LET kept[n \in 0 .. Len(latest)] ==
            IF n = 0 THEN <<>> ELSE Visit(copied, latest, kept[n - 1], n)
    IN  kept[Len(latest)]

\* Every other copied row is deleted, the rest of the latest is appended.
CatchUp(copied, latest) ==
    LET kept == Kept(copied, latest)
    IN  [i \in DOMAIN kept |-> copied[kept[i]]] \o SubSeq(latest, Len(kept) + 1, Len(latest))

\* As Matches, but another compaction's change of generation goes unnoticed.
MatchesObject(work) ==
    catalog.id = work.schema.id /\ catalog.cols = work.schema.cols

\* Is the table still the one that was copied?
Matches(work) == catalog = work.schema

\* Phase two, under the gate: the shadow catches up with the heap and the
\* change of generation is logged.
Swap(w) ==
    /\ GateFree
    /\ workers[w].pc = "swap" /\ Exists /\ Matches(workers[w])
    /\ LET work == workers[w]
           latest == open[Db(Prefix)]
           now == CatchUp(work.rows, latest)
       IN  /\ files' = [p \in DOMAIN files |-> IF p[1] # work.target THEN files[p]
                                               ELSE IF p = Db(work.target) THEN now
                                               ELSE Range(now)]
           /\ workers' = [workers EXCEPT ![w].pc = "logged",
                                         ![w].old = Paths(Prefix, work.columns)]
           /\ Log([kind |-> "migrate", id |-> work.schema.id, source |-> work.schema.gen,
                   target |-> work.target, by |-> w])
    /\ UNCHANGED <<catalog, server, rows, csn, readers, due, collect, mode, counters>>

\* serialization_failure: the table is gone or changed.
Refuse(w) ==
    /\ GateFree /\ workers[w].pc = "swap" /\ ~ (Exists /\ Matches(workers[w]))
    /\ workers' = [workers EXCEPT ![w].pc = "failed"]
    /\ UNCHANGED <<directory, server, log, rows, csn, readers, due, collect, mode, counters>>

\* The snapshot is released; only a success collects.
Release(w) ==
    /\ workers[w].pc \in {"done", "failed"}
    /\ workers' = [workers EXCEPT ![w] = NoWork]
    /\ due' = (due \/ workers[w].pc = "done")
    /\ UNCHANGED <<directory, server, log, rows, csn, readers, collect, mode, counters>>

(***************************************************************************)
(* Snapshots and retired files.                                            *)
(***************************************************************************)

Begin(r) ==
    /\ GateFree /\ readers[r] = Idle
    /\ readers' = [readers EXCEPT ![r] = csn]
    /\ UNCHANGED <<directory, server, log, rows, csn, workers, due, collect, mode, counters>>

\* Commit or rollback; a rollback does not take the gate.
Finish(r) ==
    /\ mode = "up" /\ readers[r] # Idle
    /\ readers' = [readers EXCEPT ![r] = Idle]
    /\ due' = TRUE
    /\ UNCHANGED <<directory, server, log, rows, csn, workers, collect, mode, counters>>

Snapshots ==
    {readers[r] : r \in {q \in Readers : readers[q] # Idle}}
        \cup {workers[w].snapshot : w \in {v \in Workers : workers[v] # NoWork}}

\* collect_retired(): the oldest snapshot is read first ...
CollectStart ==
    /\ mode = "up" /\ due /\ collect = NoCollect
    /\ due' = FALSE
    /\ collect' = [pc |-> "chosen", gone |-> {}, saw |-> Snapshots,
                   oldest |-> IF Snapshots = {} THEN MaxCsn + 1
                              ELSE CHOOSE s \in Snapshots : \A o \in Snapshots : s <= o]
    /\ UNCHANGED <<directory, server, log, rows, csn, readers, workers, mode, counters>>

\* As Expired, but the oldest snapshot does not matter.
ExpiredAlways(entry) == TRUE

Expired(entry) == collect.oldest >= entry.csn

\* ... then the list is locked, and the entries nobody needs any more go file
\* by file.  They were added in the order of their commits.
CollectLock ==
    /\ mode = "up" /\ collect.pc = "chosen"
    /\ collect' = IF \E e \in retired : Expired(e) THEN [collect EXCEPT !.pc = "locked"]
                  ELSE NoCollect
    /\ UNCHANGED <<directory, server, log, rows, csn, readers, workers, due, mode, counters>>

CollectRemove ==
    /\ mode = "up" /\ collect.pc = "locked"
    /\ \E e \in retired :
         /\ Expired(e) /\ \A o \in retired : e.csn <= o.csn
         /\ \E p \in NextToRemove(e.paths \ collect.gone) :
              /\ files' = Without(files, {p})
              /\ IF e.paths \subseteq collect.gone \cup {p}
                 THEN /\ retired' = retired \ {e}
                      /\ collect' = IF \E o \in retired' : Expired(o)
                                    THEN [collect EXCEPT !.gone = {}] ELSE NoCollect
                 ELSE /\ collect' = [collect EXCEPT !.gone = @ \cup {p}]
                      /\ UNCHANGED retired
    /\ UNCHANGED <<catalog, gens, open, log, rows, csn, readers, workers, due, mode, counters>>

(***************************************************************************)
(* Crash and restart.                                                      *)
(***************************************************************************)

Crash ==
    /\ mode # "down" /\ crashes < MaxCrashes
    /\ crashes' = crashes + 1
    /\ mode' = "down" /\ step' = "none" /\ left' = {}
    /\ gens' = Unknown /\ open' = NoFiles /\ retired' = {}
    /\ readers' = [r \in Readers |-> Idle] /\ workers' = [w \in Workers |-> NoWork]
    /\ due' = FALSE /\ collect' = NoCollect
    /\ torn' = (torn \/ Halfway)
    /\ UNCHANGED <<directory, wal, rows, csn, copies, objects>>

\* op_already_applied().
Applied(op, fs, gen) ==
    \/ op.kind = "create" /\ Exists
    \/ op.kind = "drop" /\ ~ Exists /\ {Db(gen), Index(gen, "id")} \cap DOMAIN fs = {}
    \/ op.kind = "index" /\ op.col \in catalog.cols
    \/ op.kind = "unindex" /\ op.col \notin catalog.cols /\ Index(gen, op.col) \notin DOMAIN fs

\* Server::new() and the start of recover_wal(): the indexes of the table the
\* log names are removed, they are filled again when the table is opened.
Restart ==
    /\ mode = "down"
    /\ gens' = IF Exists THEN catalog.gen ELSE Unknown
    /\ LET gen == IF Exists THEN catalog.gen ELSE Plain
       IN  /\ files' = IF wal = NoOp THEN files
                       ELSE Without(files, {Index(gen, c) : c \in {"id"} \cup catalog.cols})
           /\ step' = IF wal = NoOp THEN "none"
                      ELSE IF Applied(wal, files', gen) THEN "publish" ELSE "apply"
    /\ mode' = "recover"
    /\ UNCHANGED <<catalog, open, retired, wal, left, rows, csn, readers, workers, due, collect,
                   counters>>

\* cleanup_generations(): files of another generation than the table's.
Orphan(p) ==
    \/ p[1] # Plain /\ p[1] # gens
    \/ p[1] = Plain /\ gens \notin {Plain, Unknown}

Cleanup ==
    /\ mode = "recover" /\ wal = NoOp
    /\ Reopen(Without(files, {p \in DOMAIN files : Orphan(p)}), catalog)
    /\ mode' = "up"
    /\ UNCHANGED <<catalog, gens, retired, log, rows, csn, readers, workers, due, collect,
                   counters>>

InitialRows == <<1, 2>>

Init ==
    /\ catalog = [id |-> 1, gen |-> Plain, cols |-> {"id"}]
    /\ gens = Plain
    /\ open = [p \in Paths(Plain, {"id"}) |->
                  IF p = Db(Plain) THEN InitialRows ELSE Range(InitialRows)]
    /\ files = open
    /\ rows = InitialRows
    /\ wal = NoOp /\ step = "none" /\ left = {}
    /\ csn = 1 /\ copies = 0 /\ objects = 1 /\ crashes = 0
    /\ readers = [r \in Readers |-> Idle]
    /\ workers = [w \in Workers |-> NoWork]
    /\ retired = {} /\ due = FALSE /\ collect = NoCollect /\ torn = FALSE
    /\ mode = "up"

\* Nothing but crashes is left to do.
Done == GateFree /\ csn = MaxCsn /\ UNCHANGED vars

Next ==
    \/ \E r \in Rows : Insert(r) \/ Delete(r)
    \/ CreateTable \/ DropTable
    \/ \E c \in Columns : CreateIndex(c) \/ DropIndex(c)
    \/ ApplyCreate \/ ApplyDrop \/ ApplyCreateIndex \/ ApplyDropIndex \/ ApplyMigrate
    \/ SaveCatalog \/ RemoveFile \/ Publish
    \/ \E w \in Workers : Start(w) \/ Copy(w) \/ Swap(w) \/ Refuse(w) \/ Release(w)
    \/ \E r \in Readers : Begin(r) \/ Finish(r)
    \/ CollectStart \/ CollectLock \/ CollectRemove
    \/ Crash \/ Restart \/ Cleanup
    \/ Done

Spec == Init /\ [][Next]_vars

(***************************************************************************)
(* Properties.                                                             *)
(***************************************************************************)

Settled == GateFree /\ Exists
LivePaths == Paths(catalog.gen, catalog.cols)

Indexed == Columns \cup {"id"}
FilePaths == Int \X (Indexed \cup {"db"})
Entries == [id : Nat, gen : Int, cols : SUBSET Indexed]
Operations ==
    {NoOp, [kind |-> "drop"]} \cup [kind : {"create"}, id : Nat]
        \cup [kind : {"index", "unindex"}, col : Columns]
        \cup [kind : {"migrate"}, id : Nat, source : Int, target : Nat, by : Workers]
Collections ==
    [pc : {"idle", "chosen", "locked"}, oldest : Int, gone : SUBSET FilePaths, saw : SUBSET Int]

WorkOK(work) ==
    work = NoWork \/
      /\ work = [pc |-> work.pc, schema |-> work.schema, rows |-> work.rows,
                 snapshot |-> work.snapshot, target |-> work.target,
                 columns |-> work.columns, old |-> work.old]
      /\ work.pc \in {"copy", "swap", "logged", "done", "failed"}
      /\ work.schema \in Entries /\ work.snapshot \in 0 .. csn /\ work.target \in Nat
      /\ work.columns \subseteq Indexed /\ work.old \subseteq FilePaths

DirectoryOK ==
    /\ catalog \in Entries /\ (catalog.id = 0 => catalog = NoTable) /\ gens \in Int
    /\ DOMAIN files \subseteq FilePaths
LogOK ==
    /\ wal \in Operations /\ step \in {"none", "apply", "save", "remove", "publish"}
    /\ left \subseteq FilePaths
CountersOK ==
    /\ csn \in 0 .. MaxCsn /\ copies \in Nat /\ objects \in Nat
    /\ mode \in {"up", "down", "recover"}
ReadersOK == DOMAIN readers = Readers /\ \A r \in Readers : readers[r] \in {Idle} \cup 0 .. csn
WorkersOK == DOMAIN workers = Workers /\ \A w \in Workers : WorkOK(workers[w])
RetiredOK ==
    /\ retired \subseteq [csn : 0 .. csn, paths : SUBSET FilePaths]
    /\ collect \in Collections

\* Types of the directory, the log, the snapshots and the compactions.
TypeOK == torn \in BOOLEAN /\ DirectoryOK /\ LogOK /\ CountersOK /\ ReadersOK /\ WorkersOK /\ RetiredOK

\* Whatever was copied, swapped, dropped, retired or cleaned up: between two
\* operations the data file of the table's generation is there and holds the
\* committed rows in their order, and the handle has that file open.
RowsOnDisk ==
    Settled => /\ gens = catalog.gen
               /\ Db(catalog.gen) \in DOMAIN files
               /\ files[Db(catalog.gen)] = rows /\ open[Db(catalog.gen)] = rows

\* An index of the open table finds every committed row, and no others: none
\* that a compaction copied and caught up with wrongly, none of an earlier
\* table.  One case is excepted, for collect_retired() does not take the gate:
\* a create (or the next one, after a crash) that finds the plain data file
\* removed and the id index not yet removed takes that index over as it is.
IndexesFit ==
    Settled => \A c \in catalog.cols :
                 LET found == open[Index(catalog.gen, c)]
                 IN  /\ Range(rows) \subseteq found
                     /\ (c = "id" /\ catalog.gen = Plain /\ torn) \/ found = Range(rows)

\* What the collection still has to remove is not part of a table, whatever was
\* created, dropped and compacted since it was retired.  One case is excepted:
\* a table that was created after the plain data file had gone has the name of
\* an index that is about to go; its data file never is in danger.
RetiredAreDead ==
    Exists => \A e \in retired :
                LET hit == (e.paths \ collect.gone) \cap LivePaths
                IN  Db(catalog.gen) \notin hit /\ (hit = {} \/ Halfway)

\* "old snapshot must retain retired files": while a snapshot from before the
\* change of generation runs, the data file it started with stays.
SnapshotsRetain ==
    \A e \in retired : \A p \in e.paths :
        p[2] = "db" /\ (\E s \in Snapshots : s < e.csn) => p \in DOMAIN files

\* The snapshots that the collection under way could know of: it read the
\* oldest one before it locked the list.
Known == IF collect = NoCollect THEN Snapshots ELSE Snapshots \cap collect.saw

\* As SnapshotsRetain, but for the snapshots the collection could know of:
\* between its two steps, and between two of its removals, compactions publish
\* and snapshots begin, and none of them makes it remove a data file that a
\* snapshot it saw started with.
SnapshotsKeepFiles ==
    \A e \in retired : \A p \in e.paths :
        p[2] = "db" /\ (\E s \in Known : s < e.csn) => p \in DOMAIN files

\* A logged change of generation finds its target at every restart: recovery
\* is never stuck on "migration target missing".
TargetThere ==
    wal.kind = "migrate" => /\ Db(wal.target) \in DOMAIN files
                            /\ catalog.id = wal.id /\ catalog.gen \in {wal.source, wal.target}
=============================================================================
