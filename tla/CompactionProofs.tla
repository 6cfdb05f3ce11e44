-------------------------- MODULE CompactionProofs --------------------------
(***************************************************************************)
(* Proofs about Compaction.  No assumption is made on what comes between   *)
(* the steps of collect_retired(), which does not take the gate.           *)
(*                                                                         *)
(* TargetStays: the target of a logged change of generation stays because  *)
(* nobody else removes or renames to it: it was numbered after every       *)
(* generation in use (Bounds), so that no table, no other compaction and no*)
(* retired entry has it (Fresh), and only the compaction that logged the   *)
(* change goes on with it (Running).  What is logged, how far it is applied*)
(* and the catalog go together (Flow).                                     *)
(*                                                                         *)
(* A lemma <Action>Does says what an action does to the parts these        *)
(* invariants speak of.  A lemma <Change>By goes through the actions once  *)
(* and says how a step may change one part; the invariants follow from     *)
(* those.                                                                  *)
(*                                                                         *)
(* CaughtUp: whatever the shadow was copied from, CatchUp() makes it the   *)
(* latest rows in their order.  Kept() is a recursive function; its values *)
(* are found by induction over the natural numbers, which SetInduction     *)
(* states for a set of them.                                               *)
(*                                                                         *)
(* RowsStay: no compaction, drop, collection or restart loses, adds or     *)
(* reorders a committed row.  RowsOnDisk speaks of the time between two    *)
(* operations, so the invariant has to say where the rows are while one is *)
(* applied, and after a crash in the middle: DataOK (a logged change of    *)
(* generation has its target filled, a created table's files are empty, a  *)
(* dropped one has no rows left to lose).  That no step takes such a file  *)
(* away needs HeldOK: a data file a retired entry still has to remove is not*)
(* that of a table, of a table being created, or of one being dropped.  Once*)
(* it is removed (GoneOK) its name may be taken again, although the entry is*)
(* still there: the collection does not come back to it.                   *)
(*                                                                         *)
(* RetiredStayDead and SnapshotsRead follow from HeldOK and from CollectOK:*)
(* the files of an entry are those of one generation, with its data file,  *)
(* and what is removed is of an entry that had expired when the oldest     *)
(* snapshot was read, which was at or before all the snapshots there were. *)
(*                                                                         *)
(* IndexesStayFit: an index file is either filled or empty, and an empty one*)
(* is filled when it is opened, so the invariant says of the files an      *)
(* operation is about to open, or a restart may find, that they are one of *)
(* the two (FilledOK).  KeyedOK (no row is in the table twice) is why an   *)
(* index entry goes when its row does.  The name a new table takes may still*)
(* have the index of an old one.  PlainOK says that this index is empty or *)
(* about to be removed, as long as nothing is torn; a table that is created*)
(* while it is about to be removed opens it as it is, and Finds says what is*)
(* left of the property then.  ListsOK: a list of files with the data file *)
(* has the index of the ids too, and the data file goes first.             *)
(***************************************************************************)
EXTENDS Compaction, TLAPS, WellFoundedInduction, NaturalsInduction, SequenceTheorems

Dead(g) == \E e \in retired : \E p \in e.paths : p[1] = g
Claims(w) == workers[w].pc \in {"copy", "swap", "logged"}

\* What is logged, how far it is applied, and the catalog go together.
Flow ==
    /\ wal.kind = "none" => step = "none"
    /\ mode = "down" => step = "none"
    /\ wal.kind # "none" => csn < MaxCsn
    /\ step # "remove" => left = {}
    /\ step = "save" => wal.kind \in {"create", "index"}
    /\ step = "remove" => wal.kind \in {"drop", "unindex"}
    /\ wal.kind \in {"index", "unindex", "migrate"} => Exists
    /\ wal.kind = "create" /\ step \in {"apply", "save"} => ~ Exists
    /\ wal.kind = "create" => wal.id \in 1 .. objects
    /\ wal.kind = "drop" /\ mode = "up" /\ step = "apply" => Exists
    /\ Exists => \A p \in left : p[2] # "db"
    /\ mode # "down" /\ Exists => gens = catalog.gen
    /\ catalog.gen # Unknown
    /\ wal.kind = "create" /\ step = "save" => gens # Unknown /\ gens <= 0

\* Only a running server has compactions and retired files; the logged change
\* of generation is that of one compaction.
Running ==
    /\ mode # "up" => retired = {} /\ \A w \in Workers : workers[w] = NoWork
    /\ \A w \in Workers : workers[w].pc = "logged" => wal.kind = "migrate" /\ wal.by = w
    /\ mode = "up" /\ wal.kind = "migrate" =>
          /\ workers[wal.by].pc = "logged" /\ workers[wal.by].target = wal.target
          /\ \A p \in workers[wal.by].old : p[1] = wal.source
          /\ Db(wal.source) \in workers[wal.by].old

\* Generations named so far: by o objects or c compactions, or the plain one.
Named(g, o, c) == g \in (-1 - o) .. c

NamedTable ==
    /\ Named(catalog.gen, objects, copies) /\ Named(gens, objects, copies)
    /\ wal.kind = "migrate" => wal.target <= copies /\ Named(wal.source, objects, copies)
NamedDead ==
    /\ \A e \in retired : \A p \in e.paths : Named(p[1], objects, copies)
    /\ mode = "up" /\ wal.kind = "create" /\ step = "apply" =>
          \A e \in retired : \A p \in e.paths : p[1] > ObjectGen(wal.id)
NamedTargets == \A w \in Workers : Claims(w) => workers[w].target \in 1 .. copies

Bounds == NamedTable /\ NamedDead /\ NamedTargets

\* The generation a compaction fills is nobody else's.
Fresh ==
    \A w \in Workers : Claims(w) =>
        /\ ~ Dead(workers[w].target)
        /\ \A v \in Workers : Claims(v) /\ workers[v].target = workers[w].target => v = w
        /\ workers[w].pc # "logged" => workers[w].target # catalog.gen
        /\ wal.kind = "migrate" => workers[w].target # wal.source
        /\ \A p \in left : p[1] # workers[w].target
        /\ workers[w].pc # "copy" => Db(workers[w].target) \in DOMAIN files

MigrateOK ==
    /\ TargetThere
    /\ wal.kind = "migrate" /\ step = "publish" => catalog.gen = wal.target

Core == TypeOK /\ Flow /\ Running /\ Bounds /\ Fresh /\ MigrateOK

(***************************************************************************)
(* What the operators do to the set of files.                              *)
(***************************************************************************)

\* A path tells its generation and its kind; the data file is no index.
LEMMA PathParts ==
  ASSUME NEW g \in Int, NEW c
  PROVE  /\ Db(g)[1] = g /\ Db(g)[2] = "db"
         /\ Index(g, c)[1] = g /\ Index(g, c)[2] = c
BY DEF Db, Index

\* The files of one generation.
LEMMA PathsOf ==
  ASSUME NEW g \in Int, NEW cols \in SUBSET Indexed
  PROVE  /\ Paths(g, cols) \subseteq FilePaths
         /\ Db(g) \in Paths(g, cols)
         /\ \A p \in Paths(g, cols) : p[1] = g
BY DEF Paths, FilePaths, Db, Index

\* Removing files leaves the others.
LEMMA WithoutDomain ==
  ASSUME NEW fs, NEW paths
  PROVE  DOMAIN Without(fs, paths) = DOMAIN fs \ paths
BY DEF Without

\* Opening a table creates what is missing and removes nothing.
LEMMA ReopenDomain ==
  ASSUME NEW fs, NEW cat, Reopen(fs, cat)
  PROVE  DOMAIN files' = DOMAIN fs \cup (IF cat = NoTable THEN {} ELSE Paths(cat.gen, cat.cols))
<1>1. DOMAIN open' = IF cat = NoTable THEN {} ELSE Paths(cat.gen, cat.cols)
  BY DEF Reopen, Opened, Paths, NoFiles
<1>2. DOMAIN files' = DOMAIN fs \cup DOMAIN open'
  BY DEF Reopen
<1> QED
  BY <1>1, <1>2

(***************************************************************************)
(* What each action does, on the parts the invariants speak of.            *)
(***************************************************************************)

Rest == <<readers, retired, collect, mode>>

LEMMA WriteRowsDoes ==
  ASSUME NEW new, NEW add, NEW remove, WriteRows(new, add, remove)
  PROVE  /\ mode = "up" /\ wal = NoOp /\ Exists /\ csn < MaxCsn
         /\ csn' = csn + 1
         /\ DOMAIN files' = DOMAIN files
         /\ UNCHANGED <<catalog, gens, wal, step, left, copies, objects, workers, Rest>>
<1>1. DOMAIN files' = DOMAIN files
  BY DEF WriteRows, Written
<1> QED
  BY <1>1 DEF WriteRows, GateFree, log, counters, Rest

LEMMA InsertDoes ==
  ASSUME NEW r, Insert(r) \/ Delete(r)
  PROVE  /\ mode = "up" /\ wal = NoOp /\ Exists /\ csn < MaxCsn
         /\ csn' = csn + 1
         /\ DOMAIN files' = DOMAIN files
         /\ UNCHANGED <<catalog, gens, wal, step, left, copies, objects, workers, Rest>>
<1> USE WriteRowsDoes
<1>1. CASE Insert(r)
  BY <1>1 DEF Insert
<1>2. CASE Delete(r)
  BY <1>2 DEF Delete
<1> QED
  BY <1>1, <1>2

LEMMA CreateTableDoes ==
  ASSUME CreateTable
  PROVE  /\ mode = "up" /\ wal = NoOp /\ ~ Exists /\ csn < MaxCsn
         /\ wal' = [kind |-> "create", id |-> objects + 1]
         /\ step' = "apply" /\ left' = {} /\ objects' = objects + 1
         /\ UNCHANGED <<catalog, gens, files, csn, copies, workers, Rest>>
BY DEF CreateTable, Log, GateFree, directory, server, Rest

LEMMA DropTableDoes ==
  ASSUME DropTable
  PROVE  /\ mode = "up" /\ wal = NoOp /\ Exists /\ csn < MaxCsn
         /\ wal' = [kind |-> "drop"]
         /\ step' = "apply" /\ left' = {}
         /\ UNCHANGED <<catalog, gens, files, csn, copies, objects, workers, Rest>>
BY DEF DropTable, Log, GateFree, directory, server, counters, Rest

LEMMA IndexDoes ==
  ASSUME NEW c, CreateIndex(c) \/ DropIndex(c)
  PROVE  /\ mode = "up" /\ wal = NoOp /\ Exists /\ csn < MaxCsn
         /\ \/ wal' = [kind |-> "index", col |-> c]
            \/ wal' = [kind |-> "unindex", col |-> c]
         /\ step' = "apply" /\ left' = {}
         /\ UNCHANGED <<catalog, gens, files, csn, copies, objects, workers, Rest>>
BY DEF CreateIndex, DropIndex, Log, GateFree, directory, server, counters, Rest

LEMMA ApplyCreateDoes ==
  ASSUME TypeOK, ApplyCreate
  PROVE  /\ mode # "down" /\ wal.kind = "create" /\ step = "apply"
         /\ torn' = (torn \/ Halfway)
         /\ gens' = IF Db(Plain) \in DOMAIN files THEN ObjectGen(wal.id) ELSE Plain
         /\ DOMAIN files' = DOMAIN files \cup Paths(gens', {"id"})
         /\ step' = "save"
         /\ UNCHANGED <<catalog, wal, left, csn, copies, objects, workers, Rest>>
<1> DEFINE new == [id |-> wal.id, gen |-> gens', cols |-> {"id"}]
<1>1. new # NoTable /\ new.gen = gens' /\ new.cols = {"id"}
  BY DEF NoTable
<1>2. Reopen(files, new)
  BY DEF ApplyCreate
<1> HIDE DEF new
<1>3. DOMAIN files' = DOMAIN files \cup Paths(gens', {"id"})
  BY <1>1, <1>2, ReopenDomain
<1> QED
  BY <1>3 DEF ApplyCreate, Applying, Aside, counters, Rest

LEMMA ApplyDropDoes ==
  ASSUME ApplyDrop
  PROVE  /\ mode # "down" /\ wal.kind = "drop" /\ step = "apply"
         /\ left' = Paths(Prefix, {"id"} \cup catalog.cols)
         /\ catalog' = NoTable /\ step' = "remove"
         /\ UNCHANGED <<files, gens, wal, csn, copies, objects, workers, Rest>>
BY DEF ApplyDrop, Applying, Aside, counters, Rest

LEMMA ApplyCreateIndexDoes ==
  ASSUME ApplyCreateIndex
  PROVE  /\ mode # "down" /\ wal.kind = "index" /\ step = "apply"
         /\ DOMAIN files' = DOMAIN files
                              \cup Paths(Prefix, catalog.cols) \cup {Index(Prefix, wal.col)}
         /\ step' = "save"
         /\ UNCHANGED <<catalog, gens, wal, left, csn, copies, objects, workers, Rest>>
<1>1. DOMAIN open' = Paths(Prefix, catalog.cols) \cup {Index(Prefix, wal.col)}
  BY DEF ApplyCreateIndex, Opened, Paths
<1>2. DOMAIN files' = DOMAIN files \cup DOMAIN open'
  BY DEF ApplyCreateIndex
<1> QED
  BY <1>1, <1>2 DEF ApplyCreateIndex, Applying, Aside, counters, Rest

LEMMA ApplyDropIndexDoes ==
  ASSUME TypeOK, ApplyDropIndex
  PROVE  /\ mode # "down" /\ wal.kind = "unindex" /\ step = "apply"
         /\ catalog'.id = catalog.id /\ catalog'.gen = catalog.gen
         /\ catalog'.cols = catalog.cols \ {wal.col} /\ catalog' \in Entries
         /\ left' = {Index(Prefix, wal.col)} /\ step' = "remove"
         /\ UNCHANGED <<files, gens, wal, csn, copies, objects, workers, Rest>>
BY DEF ApplyDropIndex, Applying, Aside, counters, Rest, TypeOK, DirectoryOK, Entries

LEMMA ApplyMigrateDoes ==
  ASSUME TypeOK, ApplyMigrate
  PROVE  /\ mode # "down" /\ wal.kind = "migrate" /\ step = "apply"
         /\ Db(wal.target) \in DOMAIN files
         /\ catalog'.id = catalog.id /\ catalog'.gen = wal.target
         /\ catalog'.cols = catalog.cols /\ (wal.target \in Int => catalog' \in Entries)
         /\ gens' = wal.target /\ step' = "publish"
         /\ UNCHANGED <<files, wal, left, csn, copies, objects, workers, Rest>>
BY DEF ApplyMigrate, Applying, Aside, counters, Rest, TypeOK, DirectoryOK, Entries

LEMMA SaveCatalogDoes ==
  ASSUME TypeOK, SaveCatalog
  PROVE  /\ mode # "down" /\ step = "save" /\ step' = "publish"
         /\ wal.kind = "create" => catalog' = [id |-> wal.id, gen |-> gens, cols |-> {"id"}]
         /\ wal.kind # "create" =>
               /\ catalog'.id = catalog.id /\ catalog'.gen = catalog.gen
               /\ catalog'.cols = catalog.cols \cup {wal.col}
               /\ wal.col \in Indexed => catalog' \in Entries
         /\ UNCHANGED <<files, gens, wal, left, csn, copies, objects, workers, Rest>>
BY DEF SaveCatalog, server, Aside, counters, Rest, TypeOK, DirectoryOK, Entries

LEMMA RemoveFileDoes ==
  ASSUME RemoveFile
  PROVE  /\ mode # "down" /\ step = "remove"
         /\ \E p \in left : DOMAIN files' = DOMAIN files \ {p} /\ left' = left \ {p}
         /\ step' \in {"publish", "remove"} /\ (step' = "publish" => left' = {})
         /\ UNCHANGED <<catalog, gens, wal, csn, copies, objects, workers, Rest>>
<1>1. PICK p \in NextToRemove(left) : files' = Without(files, {p}) /\ left' = left \ {p}
  BY DEF RemoveFile
<1>2. p \in left /\ DOMAIN files' = DOMAIN files \ {p} /\ left' = left \ {p}
  BY <1>1, WithoutDomain DEF NextToRemove
<1> QED
  BY <1>2 DEF RemoveFile, server, Aside, counters, Rest

\* One worker of the table of compactions.
Others(w) ==
    DOMAIN workers' = Workers /\ \A v \in Workers : v # w => workers'[v] = workers[v]

\* The same work, further on.
Further(w, pc) ==
    /\ workers'[w] = [pc |-> pc, schema |-> workers[w].schema, rows |-> workers[w].rows,
                      snapshot |-> workers[w].snapshot, target |-> workers[w].target,
                      columns |-> workers[w].columns, old |-> workers[w].old]
    /\ Others(w)

LEMMA WorkFields ==
  ASSUME TypeOK, NEW w \in Workers
  PROVE  /\ (workers[w] = NoWork) <=> (workers[w].pc = "idle")
         /\ workers[w].pc # "idle" =>
               /\ workers[w] = [pc |-> workers[w].pc, schema |-> workers[w].schema,
                                rows |-> workers[w].rows, snapshot |-> workers[w].snapshot,
                                target |-> workers[w].target, columns |-> workers[w].columns,
                                old |-> workers[w].old]
               /\ workers[w].pc \in {"copy", "swap", "logged", "done", "failed"}
               /\ workers[w].schema \in Entries /\ workers[w].snapshot \in 0 .. csn
               /\ workers[w].target \in Nat /\ workers[w].columns \in SUBSET Indexed
               /\ workers[w].old \in SUBSET FilePaths
BY DEF TypeOK, WorkersOK, WorkOK, NoWork

LEMMA WorkTypes ==
  ASSUME TypeOK, NEW w \in Workers, workers[w].pc # "idle"
  PROVE  /\ workers[w] # NoWork
         /\ workers[w].pc \in {"copy", "swap", "logged", "done", "failed"}
         /\ workers[w].schema \in Entries /\ workers[w].snapshot \in 0 .. csn
         /\ workers[w].target \in Nat /\ workers[w].columns \in SUBSET Indexed
         /\ workers[w].old \in SUBSET FilePaths
BY WorkFields

LEMMA FurtherIs ==
  ASSUME TypeOK, NEW w \in Workers, NEW pc, workers[w].pc # "idle",
         workers' = [workers EXCEPT ![w].pc = pc]
  PROVE  Further(w, pc)
<1> DEFINE k == workers[w]
<1>1. k = [pc |-> k.pc, schema |-> k.schema, rows |-> k.rows, snapshot |-> k.snapshot,
           target |-> k.target, columns |-> k.columns, old |-> k.old]
  BY WorkFields
<1>2. DOMAIN workers = Workers
  BY DEF TypeOK, WorkersOK
<1>3. workers'[w] = [k EXCEPT !.pc = pc] /\ Others(w)
  BY <1>2 DEF Others
<1> HIDE DEF k
<1>4. [k EXCEPT !.pc = pc] = [pc |-> pc, schema |-> k.schema, rows |-> k.rows,
           snapshot |-> k.snapshot, target |-> k.target, columns |-> k.columns, old |-> k.old]
  BY <1>1
<1> QED
  BY <1>3, <1>4 DEF Further, k

LEMMA PublishDoes ==
  ASSUME TypeOK, Running, Flow, Publish
  PROVE  /\ mode # "down" /\ step = "publish" /\ step' = "none" /\ wal' = NoOp
         /\ wal.kind = "migrate" => collect.pc # "locked"
         /\ csn' = csn + 1
         /\ DOMAIN files' = DOMAIN files
               \cup (IF catalog = NoTable THEN {} ELSE Paths(catalog.gen, catalog.cols))
         /\ wal.kind = "migrate" /\ mode = "up" =>
               /\ retired' = retired \cup {[csn |-> csn + 1, paths |-> workers[wal.by].old]}
               /\ wal.by \in Workers /\ Further(wal.by, "done")
         /\ ~ (wal.kind = "migrate" /\ mode = "up") => UNCHANGED <<retired, workers>>
         /\ UNCHANGED <<catalog, gens, left, copies, objects, readers, collect, mode>>
<1>1. wal.kind = "migrate" => wal.by \in Workers
  BY DEF TypeOK, LogOK, Operations, NoOp
<1>2. wal.kind = "migrate" /\ mode = "up" => Further(wal.by, "done")
  BY <1>1, FurtherIs DEF Publish, Running
<1>3. DOMAIN files' = DOMAIN files
        \cup (IF catalog = NoTable THEN {} ELSE Paths(catalog.gen, catalog.cols))
  BY ReopenDomain DEF Publish
<1> QED
  BY <1>1, <1>2, <1>3 DEF Publish, counters

LEMMA StartDoes ==
  ASSUME TypeOK, NEW w \in Workers, Start(w)
  PROVE  /\ mode = "up" /\ wal = NoOp /\ Exists /\ workers[w] = NoWork
         /\ copies' = copies + 1
         /\ workers'[w] = [pc |-> "copy", schema |-> catalog, rows |-> rows, snapshot |-> csn,
                           target |-> copies + 1, columns |-> {}, old |-> {}]
         /\ Others(w)
         /\ UNCHANGED <<catalog, gens, files, wal, step, left, csn, objects, Rest>>
BY DEF Start, GateFree, Others, TypeOK, WorkersOK, directory, server, log, Rest

LEMMA CopyDoes ==
  ASSUME TypeOK, NEW w \in Workers, Copy(w)
  PROVE  /\ mode = "up" /\ workers[w].pc = "copy"
         /\ workers'[w] = [pc |-> "swap", schema |-> workers[w].schema, rows |-> workers[w].rows,
                           snapshot |-> workers[w].snapshot, target |-> workers[w].target,
                           columns |-> {"id"} \cup catalog.cols, old |-> workers[w].old]
         /\ Others(w)
         /\ DOMAIN files' = DOMAIN files
                              \cup Paths(workers[w].target, {"id"} \cup catalog.cols)
         /\ UNCHANGED <<catalog, gens, wal, step, left, csn, copies, objects, Rest>>
<1> DEFINE k == workers[w]
           columns == {"id"} \cup catalog.cols
<1>1. k.pc = "copy" /\ DOMAIN workers = Workers
  BY DEF Copy, TypeOK, WorkersOK
<1>2. k = [pc |-> k.pc, schema |-> k.schema, rows |-> k.rows, snapshot |-> k.snapshot,
           target |-> k.target, columns |-> k.columns, old |-> k.old]
  BY <1>1, WorkFields
<1>3. workers' = [workers EXCEPT ![w].pc = "swap", ![w].columns = columns]
  BY DEF Copy
<1>4. workers'[w] = [[k EXCEPT !.pc = "swap"] EXCEPT !.columns = columns] /\ Others(w)
  BY <1>1, <1>3 DEF Others
<1>5. DOMAIN files' = DOMAIN files \cup Paths(k.target, columns)
  BY DEF Copy
<1> HIDE DEF k, columns
<1>6. [[k EXCEPT !.pc = "swap"] EXCEPT !.columns = columns]
        = [pc |-> "swap", schema |-> k.schema, rows |-> k.rows, snapshot |-> k.snapshot,
           target |-> k.target, columns |-> columns, old |-> k.old]
  <2> DEFINE m == [k EXCEPT !.pc = "swap"]
  <2>1. m = [pc |-> "swap", schema |-> k.schema, rows |-> k.rows, snapshot |-> k.snapshot,
             target |-> k.target, columns |-> k.columns, old |-> k.old]
    BY <1>2
  <2> HIDE DEF m
  <2>2. [m EXCEPT !.columns = columns]
          = [pc |-> m.pc, schema |-> m.schema, rows |-> m.rows, snapshot |-> m.snapshot,
             target |-> m.target, columns |-> columns, old |-> m.old]
    BY <2>1
  <2> QED
    BY <2>1, <2>2 DEF m
<1>7. /\ mode = "up"
      /\ UNCHANGED <<catalog, gens, wal, step, left, csn, copies, objects, Rest>>
  BY DEF Copy, server, log, counters, Rest
<1> QED
  BY <1>1, <1>4, <1>5, <1>6, <1>7 DEF k, columns

LEMMA SwapDoes ==
  ASSUME TypeOK, NEW w \in Workers, Swap(w)
  PROVE  /\ mode = "up" /\ wal = NoOp /\ Exists /\ csn < MaxCsn
         /\ workers[w].pc = "swap" /\ catalog = workers[w].schema
         /\ workers'[w] = [pc |-> "logged", schema |-> workers[w].schema,
                           rows |-> workers[w].rows, snapshot |-> workers[w].snapshot,
                           target |-> workers[w].target, columns |-> workers[w].columns,
                           old |-> Paths(Prefix, workers[w].columns)]
         /\ Others(w)
         /\ wal' = [kind |-> "migrate", id |-> catalog.id, source |-> catalog.gen,
                    target |-> workers[w].target, by |-> w]
         /\ step' = "apply" /\ left' = {}
         /\ DOMAIN files' = DOMAIN files
         /\ UNCHANGED <<catalog, gens, csn, copies, objects, Rest>>
<1> DEFINE k == workers[w]
           old == Paths(Prefix, k.columns)
<1>1. k.pc = "swap" /\ DOMAIN workers = Workers
  BY DEF Swap, TypeOK, WorkersOK
<1>2. k = [pc |-> k.pc, schema |-> k.schema, rows |-> k.rows, snapshot |-> k.snapshot,
           target |-> k.target, columns |-> k.columns, old |-> k.old]
  BY <1>1, WorkFields
<1>3. workers' = [workers EXCEPT ![w].pc = "logged", ![w].old = old]
  BY DEF Swap
<1>4. workers'[w] = [[k EXCEPT !.pc = "logged"] EXCEPT !.old = old] /\ Others(w)
  BY <1>1, <1>3 DEF Others
<1>5. DOMAIN files' = DOMAIN files
  BY DEF Swap
<1>6. /\ mode = "up" /\ wal = NoOp /\ Exists /\ csn < MaxCsn
      /\ catalog = k.schema /\ step' = "apply" /\ left' = {}
      /\ wal' = [kind |-> "migrate", id |-> k.schema.id, source |-> k.schema.gen,
                 target |-> k.target, by |-> w]
      /\ UNCHANGED <<catalog, gens, csn, copies, objects, Rest>>
  BY DEF Swap, GateFree, Matches, Log, server, counters, Rest
<1> HIDE DEF k, old
<1>7. [[k EXCEPT !.pc = "logged"] EXCEPT !.old = old]
        = [pc |-> "logged", schema |-> k.schema, rows |-> k.rows, snapshot |-> k.snapshot,
           target |-> k.target, columns |-> k.columns, old |-> old]
  <2> DEFINE m == [k EXCEPT !.pc = "logged"]
  <2>1. m = [pc |-> "logged", schema |-> k.schema, rows |-> k.rows, snapshot |-> k.snapshot,
             target |-> k.target, columns |-> k.columns, old |-> k.old]
    BY <1>2
  <2> HIDE DEF m
  <2>2. [m EXCEPT !.old = old]
          = [pc |-> m.pc, schema |-> m.schema, rows |-> m.rows, snapshot |-> m.snapshot,
             target |-> m.target, columns |-> m.columns, old |-> old]
    BY <2>1
  <2> QED
    BY <2>1, <2>2 DEF m
<1> QED
  BY <1>1, <1>4, <1>5, <1>6, <1>7 DEF k, old

\* The parts of Copy and Swap beside the compaction's own record.
LEMMA CopyFrame ==
  ASSUME TypeOK, NEW w \in Workers, Copy(w)
  PROVE  /\ mode = "up" /\ workers[w].pc = "copy"
         /\ DOMAIN files' = DOMAIN files
                              \cup Paths(workers[w].target, {"id"} \cup catalog.cols)
         /\ UNCHANGED <<catalog, gens, wal, step, left, csn, copies, objects, Rest>>
BY CopyDoes

LEMMA SwapFrame ==
  ASSUME TypeOK, NEW w \in Workers, Swap(w)
  PROVE  /\ mode = "up" /\ wal = NoOp /\ Exists /\ csn < MaxCsn
         /\ workers[w].pc = "swap"
         /\ wal' = [kind |-> "migrate", id |-> catalog.id, source |-> catalog.gen,
                    target |-> workers[w].target, by |-> w]
         /\ step' = "apply" /\ left' = {}
         /\ DOMAIN files' = DOMAIN files
         /\ UNCHANGED <<catalog, gens, csn, copies, objects, Rest>>
BY SwapDoes

LEMMA FurtherFields ==
  ASSUME NEW w \in Workers, NEW pc, Further(w, pc)
  PROVE  /\ workers'[w].pc = pc /\ workers'[w].target = workers[w].target
         /\ workers'[w].snapshot = workers[w].snapshot
         /\ Others(w)
BY DEF Further

LEMMA CopyFields ==
  ASSUME TypeOK, NEW w \in Workers, Copy(w)
  PROVE  /\ workers'[w].pc = "swap" /\ workers'[w].target = workers[w].target
         /\ workers'[w].snapshot = workers[w].snapshot /\ workers'[w].rows = workers[w].rows
         /\ workers'[w].columns = {"id"} \cup catalog.cols
         /\ Others(w)
<1> DEFINE k == workers[w]
           columns == {"id"} \cup catalog.cols
<1>1. /\ workers'[w] = [pc |-> "swap", schema |-> k.schema, rows |-> k.rows,
                        snapshot |-> k.snapshot, target |-> k.target,
                        columns |-> columns, old |-> k.old]
      /\ Others(w)
  BY CopyDoes
<1> HIDE DEF columns
<1>2. workers'[w].columns = columns
  BY <1>1
<1> QED
  BY <1>1, <1>2 DEF columns

LEMMA SwapFields ==
  ASSUME TypeOK, NEW w \in Workers, Swap(w)
  PROVE  /\ workers'[w].pc = "logged" /\ workers'[w].target = workers[w].target
         /\ workers'[w].snapshot = workers[w].snapshot /\ workers'[w].rows = workers[w].rows
         /\ workers'[w].columns = workers[w].columns
         /\ workers'[w].old = Paths(Prefix, workers[w].columns)
         /\ Others(w)
<1> DEFINE k == workers[w]
           old == Paths(Prefix, k.columns)
<1>1. /\ workers'[w] = [pc |-> "logged", schema |-> k.schema, rows |-> k.rows,
                        snapshot |-> k.snapshot, target |-> k.target,
                        columns |-> k.columns, old |-> old]
      /\ Others(w)
  BY SwapDoes
<1> HIDE DEF old
<1>2. workers'[w].old = old
  BY <1>1
<1> QED
  BY <1>1, <1>2 DEF old

LEMMA RefuseDoes ==
  ASSUME TypeOK, NEW w \in Workers, Refuse(w)
  PROVE  /\ mode = "up" /\ wal = NoOp /\ workers[w].pc = "swap" /\ Further(w, "failed")
         /\ UNCHANGED <<catalog, gens, files, wal, step, left, csn, copies, objects, Rest>>
<1>1. workers[w].pc # "idle" /\ workers' = [workers EXCEPT ![w].pc = "failed"]
  BY DEF Refuse
<1>2. Further(w, "failed")
  BY <1>1, FurtherIs
<1> QED
  BY <1>2 DEF Refuse, GateFree, directory, server, log, counters, Rest

LEMMA ReleaseDoes ==
  ASSUME TypeOK, NEW w \in Workers, Release(w)
  PROVE  /\ workers[w].pc \in {"done", "failed"}
         /\ workers'[w] = NoWork /\ Others(w)
         /\ UNCHANGED <<catalog, gens, files, wal, step, left, csn, copies, objects, Rest>>
BY DEF Release, Others, TypeOK, WorkersOK, directory, server, log, counters, Rest

LEMMA BeginDoes ==
  ASSUME TypeOK, NEW r \in Readers, Begin(r)
  PROVE  /\ readers'[r] = csn /\ DOMAIN readers' = Readers
         /\ \A q \in Readers : q # r => readers'[q] = readers[q]
         /\ UNCHANGED <<catalog, gens, files, wal, step, left, csn, copies, objects, workers,
                        retired, collect, mode>>
BY DEF Begin, TypeOK, ReadersOK, directory, server, log, counters

LEMMA FinishDoes ==
  ASSUME TypeOK, NEW r \in Readers, Finish(r)
  PROVE  /\ readers'[r] = Idle /\ DOMAIN readers' = Readers
         /\ \A q \in Readers : q # r => readers'[q] = readers[q]
         /\ UNCHANGED <<catalog, gens, files, wal, step, left, csn, copies, objects, workers,
                        retired, collect, mode>>
BY DEF Finish, TypeOK, ReadersOK, directory, server, log, counters

LEMMA CrashDoes ==
  ASSUME Crash
  PROVE  /\ mode' = "down" /\ step' = "none" /\ left' = {} /\ retired' = {}
         /\ gens' = Unknown /\ collect' = NoCollect
         /\ torn' = (torn \/ Halfway)
         /\ readers' = [r \in Readers |-> Idle] /\ workers' = [w \in Workers |-> NoWork]
         /\ UNCHANGED <<catalog, files, wal, csn, copies, objects>>
BY DEF Crash, directory

LEMMA RestartDoes ==
  ASSUME TypeOK, "db" \notin Indexed, Restart
  PROVE  /\ mode = "down" /\ mode' = "recover"
         /\ gens' = IF Exists THEN catalog.gen ELSE Unknown
         /\ DOMAIN files' \subseteq DOMAIN files
         /\ \A p \in DOMAIN files : p[2] = "db" => p \in DOMAIN files'
         /\ wal = NoOp => step' = "none"
         /\ wal # NoOp => step' \in {"publish", "apply"}
         /\ step' = "apply" /\ wal.kind = "create" => ~ Exists
         /\ step' = "publish" => wal.kind # "migrate"
         /\ step' = "publish" /\ wal.kind = "drop" => ~ Exists
         /\ UNCHANGED <<catalog, wal, left, csn, copies, objects, readers, workers, retired,
                        collect>>
<1> DEFINE gen == IF Exists THEN catalog.gen ELSE Plain
           indexes == {Index(gen, c) : c \in {"id"} \cup catalog.cols}
<1>1. catalog.cols \subseteq Indexed /\ "id" \in Indexed
  BY DEF TypeOK, DirectoryOK, Entries, Indexed
<1>2. \A p \in indexes : p[2] # "db"
  BY <1>1 DEF Index
<1>3. files' = IF wal = NoOp THEN files ELSE Without(files, indexes)
  BY DEF Restart
<1>4. DOMAIN files' \subseteq DOMAIN files /\ DOMAIN files \ indexes \subseteq DOMAIN files'
  <2> HIDE DEF indexes
  <2>1. DOMAIN Without(files, indexes) = DOMAIN files \ indexes
    BY WithoutDomain
  <2> QED
    BY <1>3, <2>1
<1>5. step' = IF wal = NoOp THEN "none"
              ELSE IF Applied(wal, files', gen) THEN "publish" ELSE "apply"
  BY DEF Restart
<1>6. /\ wal.kind = "create" /\ Exists => Applied(wal, files', gen)
      /\ wal.kind = "migrate" => ~ Applied(wal, files', gen)
      /\ wal.kind = "drop" /\ Exists => ~ Applied(wal, files', gen)
  BY DEF Applied
<1>7. wal.kind \in {"migrate", "drop"} => wal # NoOp
  BY DEF NoOp
<1> QED
  BY <1>2, <1>4, <1>5, <1>6, <1>7 DEF Restart, counters

\* A set of numbers that is not empty has a least one.
LEMMA LeastNumber ==
  ASSUME NEW S \in SUBSET Nat, S # {}
  PROVE  \E s \in S : \A o \in S : s <= o
<1> DEFINE R == OpToRel(<, Nat)
<1>1. IsWellFoundedOn(R, Nat)
  BY NatLessThanWellFounded
<1>2. PICK s \in S : \A o \in S : ~ (<<o, s>> \in R)
  BY <1>1, WFMin
<1>3. \A o \in S : o < s => <<o, s>> \in R
  BY DEF OpToRel
<1>4. \A o \in S : ~ (o < s)
  BY <1>2, <1>3
<1> HIDE DEF R
<1>5. \A o \in S : o \in Nat /\ s \in Nat
  OBVIOUS
<1> QED
  BY <1>4, <1>5

\* oldest_snapshot() is at or before every snapshot.
LEMMA CollectStartDoes ==
  ASSUME TypeOK, MaxCsn \in Nat, CollectStart
  PROVE  /\ mode = "up" /\ collect = NoCollect
         /\ collect'.oldest \in Int /\ collect'.pc = "chosen" /\ collect'.gone = {}
         /\ collect'.saw = Snapshots /\ collect'.saw \subseteq Nat
         /\ \A s \in collect'.saw : collect'.oldest <= s
         /\ collect' = [pc |-> "chosen", oldest |-> collect'.oldest, gone |-> {},
                        saw |-> collect'.saw]
         /\ \A r \in Readers : readers[r] # Idle => collect'.oldest <= readers[r]
         /\ \A w \in Workers : workers[w].pc # "idle" => collect'.oldest <= workers[w].snapshot
         /\ UNCHANGED <<catalog, gens, files, wal, step, left, csn, copies, objects, workers,
                        readers, retired, mode>>
<1> DEFINE x == IF Snapshots = {} THEN MaxCsn + 1
                ELSE CHOOSE s \in Snapshots : \A o \in Snapshots : s <= o
<1>1. collect' = [pc |-> "chosen", gone |-> {}, saw |-> Snapshots, oldest |-> x]
  BY DEF CollectStart
<1>2. /\ \A r \in Readers : readers[r] # Idle => readers[r] \in Snapshots /\ readers[r] \in Nat
      /\ \A w \in Workers : workers[w].pc # "idle" =>
            workers[w].snapshot \in Snapshots /\ workers[w].snapshot \in Nat
  <2>1. \A r \in Readers : readers[r] # Idle => readers[r] \in Snapshots /\ readers[r] \in Nat
    BY DEF TypeOK, ReadersOK, CountersOK, Snapshots
  <2>2. ASSUME NEW w \in Workers, workers[w].pc # "idle"
        PROVE  workers[w].snapshot \in Snapshots /\ workers[w].snapshot \in Nat
    <3>1. workers[w] # NoWork /\ workers[w].snapshot \in 0 .. csn
      BY <2>2, WorkFields
    <3>2. workers[w].snapshot \in Nat
      BY <3>1
    <3> QED
      BY <3>1, <3>2 DEF Snapshots
  <2> QED
    BY <2>1, <2>2
<1>3. Snapshots \subseteq Nat
  <2>1. ASSUME NEW w \in Workers, workers[w] # NoWork PROVE workers[w].snapshot \in Nat
    BY <1>2, <2>1, WorkFields
  <2> QED
    BY <1>2, <2>1 DEF Snapshots
<1>4. x \in Int /\ \A s \in Snapshots : x <= s
  <2>1. CASE Snapshots = {}
    BY <2>1
  <2>2. CASE Snapshots # {}
    <3>1. \E s \in Snapshots : \A o \in Snapshots : s <= o
      BY <1>3, <2>2, LeastNumber
    <3>2. x \in Snapshots /\ \A o \in Snapshots : x <= o
      BY <2>2, <3>1
    <3> HIDE DEF x
    <3>3. x \in Nat
      BY <1>3, <3>2
    <3> QED
      BY <3>2, <3>3
  <2> QED
    BY <2>1, <2>2
<1> HIDE DEF x
<1>5. collect'.oldest = x /\ collect'.pc = "chosen" /\ collect'.gone = {}
      /\ collect'.saw = Snapshots
  BY <1>1
<1>6. /\ mode = "up" /\ collect = NoCollect
      /\ UNCHANGED <<catalog, gens, files, wal, step, left, csn, copies, objects, workers,
                     readers, retired, mode>>
  BY DEF CollectStart, directory, server, log, counters
<1> QED
  BY <1>1, <1>2, <1>3, <1>4, <1>5, <1>6

LEMMA CollectLockDoes ==
  ASSUME TypeOK, CollectLock
  PROVE  /\ mode = "up" /\ collect.pc # "locked"
         /\ \/ collect' = [pc |-> "locked", oldest |-> collect.oldest, gone |-> collect.gone,
                           saw |-> collect.saw]
            \/ collect' = NoCollect
         /\ UNCHANGED <<catalog, gens, files, wal, step, left, csn, copies, objects, workers,
                        readers, retired, mode>>
<1>1. collect = [pc |-> collect.pc, oldest |-> collect.oldest, gone |-> collect.gone,
                 saw |-> collect.saw]
  BY DEF TypeOK, RetiredOK, Collections
<1>2. [collect EXCEPT !.pc = "locked"]
        = [pc |-> "locked", oldest |-> collect.oldest, gone |-> collect.gone,
           saw |-> collect.saw]
  BY <1>1
<1> QED
  BY <1>2 DEF CollectLock, directory, server, log, counters

\* A file of an expired entry goes; with the last one, the entry.
LEMMA CollectRemoveDoes ==
  ASSUME TypeOK, CollectRemove
  PROVE  /\ mode = "up" /\ collect.pc = "locked"
         /\ \E e \in retired : Expired(e) /\ \E p \in e.paths :
              /\ DOMAIN files' = DOMAIN files \ {p}
              /\ \/ /\ retired' = retired \ {e}
                    /\ \/ /\ collect'.oldest = collect.oldest /\ collect'.pc = "locked"
                       \/ /\ collect' = NoCollect /\ \A o \in retired' : ~ Expired(o)
                 \/ /\ retired' = retired
                    /\ collect'.oldest = collect.oldest /\ collect'.pc = "locked"
         /\ collect' \in Collections
         /\ UNCHANGED <<catalog, gens, wal, step, left, csn, copies, objects, workers,
                        readers, mode>>
<1>1. collect.pc = "locked" /\ mode = "up"
  BY DEF CollectRemove
<1>2. PICK e \in retired : Expired(e) /\ \E p \in NextToRemove(e.paths \ collect.gone) :
              /\ files' = Without(files, {p})
              /\ IF e.paths \subseteq collect.gone \cup {p}
                 THEN /\ retired' = retired \ {e}
                      /\ collect' = IF \E o \in retired' : Expired(o)
                                    THEN [collect EXCEPT !.gone = {}] ELSE NoCollect
                 ELSE /\ collect' = [collect EXCEPT !.gone = @ \cup {p}]
                      /\ UNCHANGED retired
  BY DEF CollectRemove
<1>3. PICK p \in NextToRemove(e.paths \ collect.gone) :
              /\ files' = Without(files, {p})
              /\ IF e.paths \subseteq collect.gone \cup {p}
                 THEN /\ retired' = retired \ {e}
                      /\ collect' = IF \E o \in retired' : Expired(o)
                                    THEN [collect EXCEPT !.gone = {}] ELSE NoCollect
                 ELSE /\ collect' = [collect EXCEPT !.gone = @ \cup {p}]
                      /\ UNCHANGED retired
  BY <1>2
<1>4. p \in e.paths /\ DOMAIN files' = DOMAIN files \ {p}
  BY <1>3, WithoutDomain DEF NextToRemove
<1>5. /\ collect = [pc |-> "locked", oldest |-> collect.oldest, gone |-> collect.gone,
                    saw |-> collect.saw]
      /\ collect.oldest \in Int /\ collect.gone \in SUBSET FilePaths
      /\ collect.saw \in SUBSET Int
      /\ e.paths \in SUBSET FilePaths
  BY <1>1 DEF TypeOK, RetiredOK, Collections
<1>6. ASSUME NEW S \in SUBSET FilePaths
      PROVE  /\ [collect EXCEPT !.gone = S]
                  = [pc |-> "locked", oldest |-> collect.oldest, gone |-> S,
                     saw |-> collect.saw]
             /\ [collect EXCEPT !.gone = S] \in
                  Collections
  BY <1>5 DEF Collections
<1>7. NoCollect \in Collections
  BY DEF NoCollect, Collections
<1>8. {} \in SUBSET FilePaths /\ collect.gone \cup {p} \in SUBSET FilePaths
  BY <1>4, <1>5
<1>9. UNCHANGED <<catalog, gens, wal, step, left, csn, copies, objects, workers, readers, mode>>
  BY DEF CollectRemove, log, counters
<1>10. CASE e.paths \subseteq collect.gone \cup {p}
  <2>1. retired' = retired \ {e}
    BY <1>3, <1>10
  <2>2. CASE \E o \in retired' : Expired(o)
    <3>1. collect' = [collect EXCEPT !.gone = {}]
      BY <1>3, <1>10, <2>2
    <3>2. collect' = [pc |-> "locked", oldest |-> collect.oldest, gone |-> {}, saw |-> collect.saw]
      BY <3>1, <1>6, <1>8
    <3>3. collect' \in Collections
      BY <3>1, <1>6, <1>8
    <3>4. collect'.oldest = collect.oldest /\ collect'.pc = "locked"
      BY <3>2
    <3> QED
      BY <1>1, <1>2, <1>4, <1>9, <2>1, <3>3, <3>4
  <2>3. CASE ~ \E o \in retired' : Expired(o)
    <3>1. collect' = NoCollect
      BY <1>3, <1>10, <2>3
    <3> QED
      BY <1>1, <1>2, <1>4, <1>7, <1>9, <2>1, <2>3, <3>1
  <2> QED
    BY <2>2, <2>3
<1>11. CASE ~ (e.paths \subseteq collect.gone \cup {p})
  <2>1. retired' = retired /\ collect' = [collect EXCEPT !.gone = collect.gone \cup {p}]
    BY <1>3, <1>11
  <2>2. collect' = [pc |-> "locked", oldest |-> collect.oldest, gone |-> collect.gone \cup {p},
                   saw |-> collect.saw]
    BY <2>1, <1>6, <1>8
  <2>3. collect'.oldest = collect.oldest /\ collect'.pc = "locked"
    BY <2>2
  <2>4. collect' \in Collections
    BY <2>1, <1>6, <1>8
  <2> QED
    BY <1>1, <1>2, <1>4, <1>9, <2>1, <2>3, <2>4
<1> QED
  BY <1>10, <1>11

LEMMA CleanupDoes ==
  ASSUME Cleanup
  PROVE  /\ mode = "recover" /\ mode' = "up" /\ wal = NoOp
         /\ \E orphans \in SUBSET DOMAIN files : DOMAIN files' = (DOMAIN files \ orphans)
               \cup (IF catalog = NoTable THEN {} ELSE Paths(catalog.gen, catalog.cols))
         /\ UNCHANGED <<catalog, gens, wal, step, left, csn, copies, objects, workers, readers,
                        retired, collect>>
<1> DEFINE orphans == {p \in DOMAIN files : Orphan(p)}
<1>1. Reopen(Without(files, orphans), catalog) /\ orphans \in SUBSET DOMAIN files
  BY DEF Cleanup
<1> HIDE DEF orphans
<1>2. DOMAIN files' = (DOMAIN files \ orphans)
               \cup (IF catalog = NoTable THEN {} ELSE Paths(catalog.gen, catalog.cols))
  BY <1>1, ReopenDomain, WithoutDomain
<1> QED
  BY <1>1, <1>2 DEF Cleanup, log, counters

(***************************************************************************)
(* The log's operations and the table's entry by their fields.             *)
(***************************************************************************)

LEMMA OpIs ==
  ASSUME NEW op \in Operations
  PROVE  /\ op.kind \in {"none", "create", "drop", "index", "unindex", "migrate"}
         /\ op = NoOp <=> op.kind = "none"
         /\ op.kind = "create" => op.id \in Nat
         /\ op.kind \in {"index", "unindex"} => op.col \in Columns
         /\ op.kind = "migrate" => /\ op.id \in Nat /\ op.source \in Int
                                   /\ op.target \in Nat /\ op.by \in Workers
BY DEF Operations, NoOp

LEMMA OpsAre ==
  /\ NoOp \in Operations /\ NoOp.kind = "none"
  /\ [kind |-> "drop"] \in Operations
  /\ \A i \in Nat : [kind |-> "create", id |-> i] \in Operations
  /\ \A c \in Columns : /\ [kind |-> "index", col |-> c] \in Operations
                        /\ [kind |-> "unindex", col |-> c] \in Operations
  /\ \A i \in Nat : \A s \in Int : \A t \in Nat : \A w \in Workers :
       [kind |-> "migrate", id |-> i, source |-> s, target |-> t, by |-> w] \in Operations
BY DEF Operations, NoOp

LEMMA EntryIs ==
  ASSUME NEW c \in Entries, c.id = 0 => c = NoTable
  PROVE  /\ c # NoTable <=> c.id # 0
         /\ c.id \in Nat /\ c.gen \in Int /\ c.cols \in SUBSET Indexed
BY DEF Entries, NoTable

LEMMA EntriesAre ==
  /\ NoTable \in Entries /\ NoTable.id = 0 /\ NoTable.gen = 0
  /\ \A i \in Nat : \A g \in Int : [id |-> i, gen |-> g, cols |-> {"id"}] \in Entries
BY DEF Entries, NoTable, Indexed

LEMMA ColumnsAre == "db" \notin Indexed /\ "id" \in Indexed /\ "id" \notin Columns
BY CompactionAssumption DEF Indexed

LEMMA PrefixInt == TypeOK => Prefix \in Int
BY DEF TypeOK, DirectoryOK, Prefix, Plain, Unknown

\* A record of the right form is one, also after more commits.
LEMMA WorkMade ==
  ASSUME csn' \in Nat, NEW k, NEW pc \in {"copy", "swap", "logged", "done", "failed"},
         NEW schema \in Entries, NEW rs, NEW snapshot \in 0 .. csn', NEW target \in Nat,
         NEW columns \in SUBSET Indexed, NEW old \in SUBSET FilePaths,
         k = [pc |-> pc, schema |-> schema, rows |-> rs, snapshot |-> snapshot,
              target |-> target, columns |-> columns, old |-> old]
  PROVE  WorkOK(k)'
<1>1. /\ k.pc = pc /\ k.schema = schema /\ k.rows = rs /\ k.snapshot = snapshot
      /\ k.target = target /\ k.columns = columns /\ k.old = old
  OBVIOUS
<1> QED
  BY <1>1 DEF WorkOK

\* The counters only grow.
Grows == csn' >= csn /\ copies' >= copies /\ objects' >= objects

LEMMA CountersStep ==
  ASSUME Core, Next
  PROVE  CountersOK' /\ Grows
<1>1. /\ csn \in 0 .. MaxCsn /\ copies \in Nat /\ objects \in Nat /\ MaxCsn \in Nat
      /\ mode \in {"up", "down", "recover"} /\ TypeOK /\ Flow /\ Running
  BY CompactionAssumption DEF Core, TypeOK, CountersOK
<1> USE DEF CountersOK, Grows
<1>2. ASSUME NEW r \in Rows, Insert(r) \/ Delete(r) PROVE CountersOK' /\ Grows
  BY <1>2, InsertDoes, <1>1 DEF Rest
<1>3. ASSUME CreateTable PROVE CountersOK' /\ Grows
  BY <1>3, CreateTableDoes, <1>1 DEF Rest
<1>4. ASSUME DropTable PROVE CountersOK' /\ Grows
  BY <1>4, DropTableDoes, <1>1 DEF Rest
<1>5. ASSUME NEW c \in Columns, CreateIndex(c) \/ DropIndex(c) PROVE CountersOK' /\ Grows
  BY <1>5, IndexDoes, <1>1 DEF Rest
<1>6. ASSUME ApplyCreate PROVE CountersOK' /\ Grows
  BY <1>6, ApplyCreateDoes, <1>1 DEF Rest
<1>7. ASSUME ApplyDrop PROVE CountersOK' /\ Grows
  BY <1>7, ApplyDropDoes, <1>1 DEF Rest
<1>8. ASSUME ApplyCreateIndex PROVE CountersOK' /\ Grows
  BY <1>8, ApplyCreateIndexDoes, <1>1 DEF Rest
<1>9. ASSUME ApplyDropIndex PROVE CountersOK' /\ Grows
  BY <1>9, ApplyDropIndexDoes, <1>1 DEF Rest
<1>10. ASSUME ApplyMigrate PROVE CountersOK' /\ Grows
  BY <1>10, ApplyMigrateDoes, <1>1 DEF Rest
<1>11. ASSUME SaveCatalog PROVE CountersOK' /\ Grows
  BY <1>11, SaveCatalogDoes, <1>1 DEF Rest
<1>12. ASSUME RemoveFile PROVE CountersOK' /\ Grows
  BY <1>12, RemoveFileDoes, <1>1 DEF Rest
<1>13. ASSUME Publish PROVE CountersOK' /\ Grows
  BY <1>13, PublishDoes, <1>1 DEF Flow
<1>14. ASSUME NEW w \in Workers, Start(w) PROVE CountersOK' /\ Grows
  BY <1>14, StartDoes, <1>1 DEF Rest
<1>15. ASSUME NEW w \in Workers, Copy(w) PROVE CountersOK' /\ Grows
  <2>1. UNCHANGED <<csn, copies, objects, Rest>>
    BY <1>1, <1>15, CopyFrame
  <2> QED
    BY <1>1, <2>1 DEF Rest
<1>16. ASSUME NEW w \in Workers, Swap(w) PROVE CountersOK' /\ Grows
  BY <1>16, SwapFrame, <1>1 DEF Rest
<1>17. ASSUME NEW w \in Workers, Refuse(w) PROVE CountersOK' /\ Grows
  BY <1>17, RefuseDoes, <1>1 DEF Rest
<1>18. ASSUME NEW w \in Workers, Release(w) PROVE CountersOK' /\ Grows
  BY <1>18, ReleaseDoes, <1>1 DEF Rest
<1>19. ASSUME NEW r \in Readers, Begin(r) PROVE CountersOK' /\ Grows
  BY <1>19, BeginDoes, <1>1
<1>20. ASSUME NEW r \in Readers, Finish(r) PROVE CountersOK' /\ Grows
  BY <1>20, FinishDoes, <1>1
<1>21. ASSUME CollectStart PROVE CountersOK' /\ Grows
  BY <1>21, CollectStartDoes, <1>1
<1>22. ASSUME CollectLock PROVE CountersOK' /\ Grows
  BY <1>22, CollectLockDoes, <1>1
<1>23. ASSUME CollectRemove PROVE CountersOK' /\ Grows
  BY <1>23, CollectRemoveDoes, <1>1
<1>24. ASSUME Crash PROVE CountersOK' /\ Grows
  BY <1>24, CrashDoes, <1>1
<1>25. ASSUME Restart PROVE CountersOK' /\ Grows
  BY <1>25, RestartDoes, <1>1, ColumnsAre
<1>26. ASSUME Cleanup PROVE CountersOK' /\ Grows
  BY <1>26, CleanupDoes, <1>1
<1>27. ASSUME UNCHANGED vars PROVE CountersOK' /\ Grows
  BY <1>27, <1>1 DEF vars, directory, server, log, counters
<1> QED
  BY <1>2, <1>3, <1>4, <1>5, <1>6, <1>7, <1>8, <1>9, <1>10, <1>11, <1>12, <1>13, <1>14,
    <1>15, <1>16, <1>17, <1>18, <1>19, <1>20, <1>21, <1>22, <1>23, <1>24, <1>25, <1>26,
    <1>27 DEF Next, Done

LEMMA ReadersStep ==
  ASSUME Core, Next
  PROVE  ReadersOK'
<1>1. TypeOK /\ Flow /\ Running /\ ReadersOK /\ Idle = -1
  BY DEF Core, TypeOK, Idle
<1>2. csn' \in Nat /\ csn \in Nat /\ csn' >= csn
  BY CountersStep DEF Core, TypeOK, CountersOK, Grows
<1>3. ASSUME NEW r \in Rows, Insert(r) \/ Delete(r) PROVE ReadersOK'
  BY <1>3, InsertDoes, <1>1, <1>2 DEF ReadersOK, Rest
<1>4. ASSUME CreateTable PROVE ReadersOK'
  BY <1>4, CreateTableDoes, <1>1, <1>2 DEF ReadersOK, Rest
<1>5. ASSUME DropTable PROVE ReadersOK'
  BY <1>5, DropTableDoes, <1>1, <1>2 DEF ReadersOK, Rest
<1>6. ASSUME NEW c \in Columns, CreateIndex(c) \/ DropIndex(c) PROVE ReadersOK'
  BY <1>6, IndexDoes, <1>1, <1>2 DEF ReadersOK, Rest
<1>7. ASSUME ApplyCreate PROVE ReadersOK'
  BY <1>7, ApplyCreateDoes, <1>1, <1>2 DEF ReadersOK, Rest
<1>8. ASSUME ApplyDrop PROVE ReadersOK'
  BY <1>8, ApplyDropDoes, <1>1, <1>2 DEF ReadersOK, Rest
<1>9. ASSUME ApplyCreateIndex PROVE ReadersOK'
  BY <1>9, ApplyCreateIndexDoes, <1>1, <1>2 DEF ReadersOK, Rest
<1>10. ASSUME ApplyDropIndex PROVE ReadersOK'
  BY <1>10, ApplyDropIndexDoes, <1>1, <1>2 DEF ReadersOK, Rest
<1>11. ASSUME ApplyMigrate PROVE ReadersOK'
  BY <1>11, ApplyMigrateDoes, <1>1, <1>2 DEF ReadersOK, Rest
<1>12. ASSUME SaveCatalog PROVE ReadersOK'
  BY <1>12, SaveCatalogDoes, <1>1, <1>2 DEF ReadersOK, Rest
<1>13. ASSUME RemoveFile PROVE ReadersOK'
  BY <1>13, RemoveFileDoes, <1>1, <1>2 DEF ReadersOK, Rest
<1>14. ASSUME Publish PROVE ReadersOK'
  BY <1>14, PublishDoes, <1>1, <1>2 DEF ReadersOK
<1>15. ASSUME NEW w \in Workers, Start(w) PROVE ReadersOK'
  BY <1>15, StartDoes, <1>1, <1>2 DEF ReadersOK, Rest
<1>16. ASSUME NEW w \in Workers, Copy(w) PROVE ReadersOK'
  <2>1. UNCHANGED <<csn, Rest>>
    BY <1>1, <1>16, CopyFrame
  <2> QED
    BY <1>1, <1>2, <2>1 DEF ReadersOK, Rest
<1>17. ASSUME NEW w \in Workers, Swap(w) PROVE ReadersOK'
  BY <1>17, SwapFrame, <1>1, <1>2 DEF ReadersOK, Rest
<1>18. ASSUME NEW w \in Workers, Refuse(w) PROVE ReadersOK'
  BY <1>18, RefuseDoes, <1>1, <1>2 DEF ReadersOK, Rest
<1>19. ASSUME NEW w \in Workers, Release(w) PROVE ReadersOK'
  BY <1>19, ReleaseDoes, <1>1, <1>2 DEF ReadersOK, Rest
<1>20. ASSUME NEW r \in Readers, Begin(r) PROVE ReadersOK'
  BY <1>20, BeginDoes, <1>1, <1>2 DEF ReadersOK
<1>21. ASSUME NEW r \in Readers, Finish(r) PROVE ReadersOK'
  BY <1>21, FinishDoes, <1>1, <1>2 DEF ReadersOK
<1>22. ASSUME CollectStart PROVE ReadersOK'
  BY <1>22, CollectStartDoes, <1>1, <1>2, CompactionAssumption DEF ReadersOK
<1>23. ASSUME CollectLock PROVE ReadersOK'
  BY <1>23, CollectLockDoes, <1>1, <1>2 DEF ReadersOK
<1>24. ASSUME CollectRemove PROVE ReadersOK'
  BY <1>24, CollectRemoveDoes, <1>1, <1>2 DEF ReadersOK
<1>25. ASSUME Crash PROVE ReadersOK'
  BY <1>25, CrashDoes, <1>1, <1>2 DEF ReadersOK
<1>26. ASSUME Restart PROVE ReadersOK'
  BY <1>26, RestartDoes, <1>1, <1>2, ColumnsAre DEF ReadersOK
<1>27. ASSUME Cleanup PROVE ReadersOK'
  BY <1>27, CleanupDoes, <1>1, <1>2 DEF ReadersOK
<1>28. ASSUME UNCHANGED vars PROVE ReadersOK'
  BY <1>28, <1>1, <1>2 DEF ReadersOK, vars, directory, server, log, counters
<1> QED
  BY <1>3, <1>4, <1>5, <1>6, <1>7, <1>8, <1>9, <1>10, <1>11, <1>12, <1>13, <1>14, <1>15,
    <1>16, <1>17, <1>18, <1>19, <1>20, <1>21, <1>22, <1>23, <1>24, <1>25, <1>26, <1>27,
    <1>28 DEF Next, Done

LEMMA LogStep ==
  ASSUME Core, Next
  PROVE  LogOK'
<1>1. /\ TypeOK /\ Flow /\ Running /\ DirectoryOK /\ objects + 1 \in Nat
      /\ wal \in Operations /\ step \in {"none", "apply", "save", "remove", "publish"}
      /\ left \subseteq FilePaths
  BY DEF Core, TypeOK, LogOK, CountersOK
<1>2. {} \subseteq FilePaths /\ Prefix \in Int /\ catalog.cols \in SUBSET Indexed
  BY <1>1, PrefixInt, EntryIs DEF DirectoryOK
<1>3. /\ NoOp \in Operations /\ [kind |-> "drop"] \in Operations
      /\ \A i \in Nat : [kind |-> "create", id |-> i] \in Operations
      /\ \A c \in Columns : /\ [kind |-> "index", col |-> c] \in Operations
                            /\ [kind |-> "unindex", col |-> c] \in Operations
  BY OpsAre
<1> USE DEF LogOK
<1>4. ASSUME NEW r \in Rows, Insert(r) \/ Delete(r) PROVE LogOK'
  BY <1>4, InsertDoes, <1>1, <1>2, <1>3 DEF Rest
<1>5. ASSUME CreateTable PROVE LogOK'
  BY <1>5, CreateTableDoes, <1>1, <1>2, <1>3 DEF Rest
<1>6. ASSUME DropTable PROVE LogOK'
  BY <1>6, DropTableDoes, <1>1, <1>2, <1>3 DEF Rest
<1>7. ASSUME NEW c \in Columns, CreateIndex(c) \/ DropIndex(c) PROVE LogOK'
  BY <1>7, IndexDoes, <1>1, <1>2, <1>3 DEF Rest
<1>8. ASSUME ApplyCreate PROVE LogOK'
  BY <1>8, ApplyCreateDoes, <1>1, <1>2, <1>3 DEF Rest
<1>9. ASSUME ApplyDrop PROVE LogOK'
  <2>1. {"id"} \cup catalog.cols \in SUBSET Indexed
    BY <1>2, ColumnsAre
  <2>2. Paths(Prefix, {"id"} \cup catalog.cols) \subseteq FilePaths
    BY <1>2, <2>1, PathsOf
  <2> QED
    BY <1>1, <2>2, <1>9, ApplyDropDoes
<1>10. ASSUME ApplyCreateIndex PROVE LogOK'
  BY <1>10, ApplyCreateIndexDoes, <1>1, <1>2, <1>3 DEF Rest
<1>11. ASSUME ApplyDropIndex PROVE LogOK'
  <2>1. wal.col \in Columns
    BY <1>1, <1>11, ApplyDropIndexDoes, OpIs
  <2>2. {Index(Prefix, wal.col)} \subseteq FilePaths
    BY <1>2, <2>1 DEF Index, FilePaths, Indexed
  <2> QED
    BY <1>1, <2>2, <1>11, ApplyDropIndexDoes
<1>12. ASSUME ApplyMigrate PROVE LogOK'
  BY <1>12, ApplyMigrateDoes, <1>1, <1>2, <1>3 DEF Rest
<1>13. ASSUME SaveCatalog PROVE LogOK'
  BY <1>13, SaveCatalogDoes, <1>1, <1>2, <1>3 DEF Rest
<1>14. ASSUME RemoveFile PROVE LogOK'
  BY <1>14, RemoveFileDoes, <1>1, <1>2, <1>3 DEF Rest
<1>15. ASSUME Publish PROVE LogOK'
  BY <1>15, PublishDoes, <1>1, <1>2, <1>3
<1>16. ASSUME NEW w \in Workers, Start(w) PROVE LogOK'
  BY <1>16, StartDoes, <1>1, <1>2, <1>3 DEF Rest
<1>17. ASSUME NEW w \in Workers, Copy(w) PROVE LogOK'
  BY <1>17, CopyFrame, <1>1, <1>2, <1>3 DEF Rest
<1>18. ASSUME NEW w \in Workers, Swap(w) PROVE LogOK'
  <2>1. catalog.id \in Nat /\ catalog.gen \in Int
    BY <1>1, EntryIs DEF DirectoryOK
  <2>2. workers[w].target \in Nat
    BY <1>1, <1>18, SwapFrame, WorkFields
  <2>3. wal' \in Operations
    BY <1>1, <2>1, <2>2, <1>18, SwapFrame, OpsAre
  <2> QED
    BY <1>1, <1>2, <2>3, <1>18, SwapFrame
<1>19. ASSUME NEW w \in Workers, Refuse(w) PROVE LogOK'
  BY <1>19, RefuseDoes, <1>1, <1>2, <1>3 DEF Rest
<1>20. ASSUME NEW w \in Workers, Release(w) PROVE LogOK'
  BY <1>20, ReleaseDoes, <1>1, <1>2, <1>3 DEF Rest
<1>21. ASSUME NEW r \in Readers, Begin(r) PROVE LogOK'
  BY <1>21, BeginDoes, <1>1, <1>2, <1>3
<1>22. ASSUME NEW r \in Readers, Finish(r) PROVE LogOK'
  BY <1>22, FinishDoes, <1>1, <1>2, <1>3
<1>23. ASSUME CollectStart PROVE LogOK'
  BY <1>23, CollectStartDoes, <1>1, <1>2, <1>3, CompactionAssumption
<1>24. ASSUME CollectLock PROVE LogOK'
  BY <1>24, CollectLockDoes, <1>1, <1>2, <1>3
<1>25. ASSUME CollectRemove PROVE LogOK'
  BY <1>25, CollectRemoveDoes, <1>1, <1>2, <1>3
<1>26. ASSUME Crash PROVE LogOK'
  BY <1>26, CrashDoes, <1>1, <1>2, <1>3
<1>27. ASSUME Restart PROVE LogOK'
  BY <1>27, RestartDoes, <1>1, <1>2, <1>3, ColumnsAre
<1>28. ASSUME Cleanup PROVE LogOK'
  BY <1>28, CleanupDoes, <1>1, <1>2, <1>3
<1>29. ASSUME UNCHANGED vars PROVE LogOK'
  BY <1>29, <1>1, <1>2, <1>3 DEF vars, directory, server, log, counters
<1> QED
  BY <1>4, <1>5, <1>6, <1>7, <1>8, <1>9, <1>10, <1>11, <1>12, <1>13, <1>14, <1>15, <1>16,
    <1>17, <1>18, <1>19, <1>20, <1>21, <1>22, <1>23, <1>24, <1>25, <1>26, <1>27, <1>28,
    <1>29 DEF Next, Done

LEMMA DirectoryStep ==
  ASSUME Core, Next
  PROVE  DirectoryOK'
<1>1. /\ TypeOK /\ Flow /\ Running /\ LogOK
      /\ catalog \in Entries /\ (catalog.id = 0 => catalog = NoTable) /\ gens \in Int
      /\ DOMAIN files \subseteq FilePaths /\ wal \in Operations
  BY DEF Core, TypeOK, LogOK, DirectoryOK
<1>2. /\ Exists <=> catalog.id # 0
      /\ catalog.gen \in Int /\ catalog.cols \in SUBSET Indexed /\ Prefix \in Int
  BY <1>1, EntryIs, PrefixInt DEF Exists
<1>3. {"id"} \in SUBSET Indexed /\ {"id"} \cup catalog.cols \in SUBSET Indexed
  BY <1>2, ColumnsAre
<1>4. \A cols \in SUBSET Indexed : \A g \in Int : Paths(g, cols) \subseteq FilePaths
  BY PathsOf
<1> USE DEF DirectoryOK
<1>5. ASSUME NEW r \in Rows, Insert(r) \/ Delete(r) PROVE DirectoryOK'
  BY <1>5, InsertDoes, <1>1, <1>2 DEF Rest
<1>6. ASSUME CreateTable PROVE DirectoryOK'
  BY <1>6, CreateTableDoes, <1>1, <1>2 DEF Rest
<1>7. ASSUME DropTable PROVE DirectoryOK'
  BY <1>7, DropTableDoes, <1>1, <1>2 DEF Rest
<1>8. ASSUME NEW c \in Columns, CreateIndex(c) \/ DropIndex(c) PROVE DirectoryOK'
  BY <1>8, IndexDoes, <1>1, <1>2 DEF Rest
<1>9. ASSUME ApplyCreate PROVE DirectoryOK'
  <2>1. gens' \in Int
    BY <1>1, <1>9, ApplyCreateDoes, OpIs DEF ObjectGen, Plain
  <2>2. Paths(gens', {"id"}) \subseteq FilePaths
    BY <1>3, <1>4, <2>1
  <2> QED
    BY <1>1, <2>1, <2>2, <1>9, ApplyCreateDoes
<1>10. ASSUME ApplyDrop PROVE DirectoryOK'
  BY <1>10, ApplyDropDoes, <1>1, <1>2, EntriesAre DEF Rest
<1>11. ASSUME ApplyCreateIndex PROVE DirectoryOK'
  <2>1. wal.col \in Indexed
    BY <1>1, <1>11, ApplyCreateIndexDoes, OpIs DEF Indexed
  <2>2. Index(Prefix, wal.col) \in FilePaths
    BY <1>2, <2>1 DEF Index, FilePaths
  <2>3. Paths(Prefix, catalog.cols) \subseteq FilePaths
    BY <1>2, <1>4
  <2> QED
    BY <1>1, <2>2, <2>3, <1>11, ApplyCreateIndexDoes
<1>12. ASSUME ApplyDropIndex PROVE DirectoryOK'
  BY <1>12, ApplyDropIndexDoes, <1>1, <1>2 DEF Rest, Flow
<1>13. ASSUME ApplyMigrate PROVE DirectoryOK'
  <2>1. wal.target \in Int /\ wal.kind = "migrate"
    BY <1>1, <1>13, ApplyMigrateDoes, OpIs
  <2>2. catalog.id # 0
    BY <1>1, <1>2, <2>1 DEF Flow
  <2> QED
    BY <1>1, <2>1, <2>2, <1>13, ApplyMigrateDoes
<1>14. ASSUME SaveCatalog PROVE DirectoryOK'
  <2>1. CASE wal.kind = "create"
    <3>1. wal.id \in Nat /\ wal.id # 0
      BY <1>1, <2>1, OpIs DEF Flow
    <3>2. catalog' = [id |-> wal.id, gen |-> gens, cols |-> {"id"}]
      BY <1>1, <2>1, <1>14, SaveCatalogDoes
    <3>3. catalog' \in Entries /\ catalog'.id # 0
      BY <1>1, <3>1, <3>2, EntriesAre
    <3> QED
      BY <1>1, <3>3, <1>14, SaveCatalogDoes
  <2>2. CASE wal.kind # "create"
    <3>1. wal.kind = "index"
      BY <1>1, <2>2, <1>14, SaveCatalogDoes DEF Flow
    <3>2. wal.col \in Indexed /\ catalog.id # 0
      BY <1>1, <1>2, <3>1, OpIs DEF Indexed, Flow
    <3> QED
      BY <1>1, <2>2, <3>2, <1>14, SaveCatalogDoes
  <2> QED
    BY <2>1, <2>2
<1>15. ASSUME RemoveFile PROVE DirectoryOK'
  BY <1>15, RemoveFileDoes, <1>1, <1>2 DEF Rest
<1>16. ASSUME Publish PROVE DirectoryOK'
  BY <1>16, PublishDoes, <1>1, <1>2, <1>4
<1>17. ASSUME NEW w \in Workers, Start(w) PROVE DirectoryOK'
  BY <1>17, StartDoes, <1>1, <1>2 DEF Rest
<1>18. ASSUME NEW w \in Workers, Copy(w) PROVE DirectoryOK'
  <2>1. workers[w].target \in Int
    <3>1. workers[w].pc = "copy"
      BY <1>1, <1>18, CopyFrame
    <3> QED
      BY <1>1, <3>1, WorkTypes
  <2>2. Paths(workers[w].target, {"id"} \cup catalog.cols) \subseteq FilePaths
    BY <1>3, <1>4, <2>1
  <2> QED
    BY <1>1, <2>2, <1>18, CopyFrame
<1>19. ASSUME NEW w \in Workers, Swap(w) PROVE DirectoryOK'
  BY <1>19, SwapFrame, <1>1, <1>2 DEF Rest
<1>20. ASSUME NEW w \in Workers, Refuse(w) PROVE DirectoryOK'
  BY <1>20, RefuseDoes, <1>1, <1>2 DEF Rest
<1>21. ASSUME NEW w \in Workers, Release(w) PROVE DirectoryOK'
  BY <1>21, ReleaseDoes, <1>1, <1>2 DEF Rest
<1>22. ASSUME NEW r \in Readers, Begin(r) PROVE DirectoryOK'
  BY <1>22, BeginDoes, <1>1, <1>2
<1>23. ASSUME NEW r \in Readers, Finish(r) PROVE DirectoryOK'
  BY <1>23, FinishDoes, <1>1, <1>2
<1>24. ASSUME CollectStart PROVE DirectoryOK'
  BY <1>24, CollectStartDoes, <1>1, <1>2, CompactionAssumption
<1>25. ASSUME CollectLock PROVE DirectoryOK'
  BY <1>25, CollectLockDoes, <1>1, <1>2
<1>26. ASSUME CollectRemove PROVE DirectoryOK'
  BY <1>26, CollectRemoveDoes, <1>1, <1>2
<1>27. ASSUME Crash PROVE DirectoryOK'
  BY <1>27, CrashDoes, <1>1, <1>2 DEF Unknown
<1>28. ASSUME Restart PROVE DirectoryOK'
  BY <1>28, RestartDoes, <1>1, <1>2, ColumnsAre DEF Unknown
<1>29. ASSUME Cleanup PROVE DirectoryOK'
  BY <1>29, CleanupDoes, <1>1, <1>2, <1>4
<1>30. ASSUME UNCHANGED vars PROVE DirectoryOK'
  BY <1>30, <1>1, <1>2 DEF vars, directory, server, log, counters
<1> QED
  BY <1>5, <1>6, <1>7, <1>8, <1>9, <1>10, <1>11, <1>12, <1>13, <1>14, <1>15, <1>16, <1>17,
    <1>18, <1>19, <1>20, <1>21, <1>22, <1>23, <1>24, <1>25, <1>26, <1>27, <1>28, <1>29,
    <1>30 DEF Next, Done

LEMMA WorkersSame ==
  ASSUME TypeOK, csn' \in Nat, csn <= csn', UNCHANGED workers
  PROVE  WorkersOK'
<1>1. csn \in Nat /\ DOMAIN workers = Workers /\ \A w \in Workers : WorkOK(workers[w])
  BY DEF TypeOK, CountersOK, WorkersOK
<1>2. ASSUME NEW w \in Workers PROVE WorkOK(workers[w])'
  BY <1>1 DEF WorkOK
<1> QED
  BY <1>1, <1>2 DEF WorkersOK

LEMMA WorkersOther ==
  ASSUME TypeOK, csn' \in Nat, csn <= csn', NEW w \in Workers, Others(w), WorkOK(workers[w])'
  PROVE  WorkersOK'
<1>1. csn \in Nat /\ \A v \in Workers : WorkOK(workers[v])
  BY DEF TypeOK, CountersOK, WorkersOK
<1>2. ASSUME NEW v \in Workers, v # w PROVE WorkOK(workers[v])'
  <2>1. workers'[v] = workers[v] /\ WorkOK(workers[v])
    BY <1>1, <1>2 DEF Others
  <2> QED
    BY <1>1, <2>1 DEF WorkOK
<1> QED
  BY <1>2 DEF WorkersOK, Others

LEMMA WorkersFurther ==
  ASSUME TypeOK, csn' \in Nat, csn <= csn', NEW w \in Workers, workers[w].pc # "idle",
         NEW pc \in {"copy", "swap", "logged", "done", "failed"}, Further(w, pc)
  PROVE  WorkersOK'
<1> DEFINE k == workers[w]
<1>1. /\ k.schema \in Entries /\ k.snapshot \in 0 .. csn /\ k.target \in Nat
      /\ k.columns \in SUBSET Indexed /\ k.old \in SUBSET FilePaths
  BY WorkTypes
<1>2. workers'[w] = [pc |-> pc, schema |-> k.schema, rows |-> k.rows, snapshot |-> k.snapshot,
                     target |-> k.target, columns |-> k.columns, old |-> k.old]
  BY DEF Further
<1>3. csn \in Nat
  BY DEF TypeOK, CountersOK
<1> HIDE DEF k
<1>4. k.snapshot \in 0 .. csn'
  BY <1>1, <1>3
<1>5. WorkOK(workers[w])'
  <2>1. ASSUME NEW m, m = workers'[w] PROVE WorkOK(m)'
    BY <1>1, <1>2, <1>4, <2>1, WorkMade
  <2> QED
    BY <2>1 DEF WorkOK
<1> QED
  BY <1>5, WorkersOther DEF Further

LEMMA WorkersStep ==
  ASSUME Core, Next
  PROVE  WorkersOK'
<1>1. TypeOK /\ Flow /\ Running
  BY DEF Core
<1>2. csn' \in Nat /\ csn \in Nat /\ csn <= csn'
  BY CountersStep DEF Core, TypeOK, CountersOK, Grows
<1>3. ASSUME NEW r \in Rows, Insert(r) \/ Delete(r) PROVE WorkersOK'
  BY <1>3, InsertDoes, <1>1, <1>2, WorkersSame DEF Rest
<1>4. ASSUME CreateTable PROVE WorkersOK'
  BY <1>4, CreateTableDoes, <1>1, <1>2, WorkersSame DEF Rest
<1>5. ASSUME DropTable PROVE WorkersOK'
  BY <1>5, DropTableDoes, <1>1, <1>2, WorkersSame DEF Rest
<1>6. ASSUME NEW c \in Columns, CreateIndex(c) \/ DropIndex(c) PROVE WorkersOK'
  BY <1>6, IndexDoes, <1>1, <1>2, WorkersSame DEF Rest
<1>7. ASSUME ApplyCreate PROVE WorkersOK'
  BY <1>7, ApplyCreateDoes, <1>1, <1>2, WorkersSame DEF Rest
<1>8. ASSUME ApplyDrop PROVE WorkersOK'
  BY <1>8, ApplyDropDoes, <1>1, <1>2, WorkersSame DEF Rest
<1>9. ASSUME ApplyCreateIndex PROVE WorkersOK'
  BY <1>9, ApplyCreateIndexDoes, <1>1, <1>2, WorkersSame DEF Rest
<1>10. ASSUME ApplyDropIndex PROVE WorkersOK'
  BY <1>10, ApplyDropIndexDoes, <1>1, <1>2, WorkersSame DEF Rest
<1>11. ASSUME ApplyMigrate PROVE WorkersOK'
  BY <1>11, ApplyMigrateDoes, <1>1, <1>2, WorkersSame DEF Rest
<1>12. ASSUME SaveCatalog PROVE WorkersOK'
  BY <1>12, SaveCatalogDoes, <1>1, <1>2, WorkersSame DEF Rest
<1>13. ASSUME RemoveFile PROVE WorkersOK'
  BY <1>13, RemoveFileDoes, <1>1, <1>2, WorkersSame DEF Rest
<1>14. ASSUME Publish PROVE WorkersOK'
  <2>1. CASE wal.kind = "migrate" /\ mode = "up"
    <3>1. wal.by \in Workers /\ Further(wal.by, "done")
      BY <1>1, <1>14, <2>1, PublishDoes
    <3>2. workers[wal.by].pc # "idle"
      BY <1>1, <2>1 DEF Running
    <3> QED
      BY <1>1, <1>2, <3>1, <3>2, WorkersFurther
  <2>2. CASE ~ (wal.kind = "migrate" /\ mode = "up")
    BY <1>1, <1>2, <1>14, <2>2, PublishDoes, WorkersSame
  <2> QED
    BY <2>1, <2>2
<1>15. ASSUME NEW w \in Workers, Start(w) PROVE WorkersOK'
  <2>1. catalog \in Entries /\ csn \in 0 .. csn' /\ copies + 1 \in Nat
    BY <1>1, <1>2 DEF TypeOK, DirectoryOK, CountersOK
  <2>2. /\ workers'[w] = [pc |-> "copy", schema |-> catalog, rows |-> rows, snapshot |-> csn,
                          target |-> copies + 1, columns |-> {}, old |-> {}]
        /\ Others(w)
    BY <1>1, <1>15, StartDoes
  <2>3. ASSUME NEW m, m = workers'[w] PROVE WorkOK(m)'
    BY <1>2, <2>1, <2>2, <2>3, WorkMade
  <2>4. WorkOK(workers[w])'
    BY <2>3 DEF WorkOK
  <2> QED
    BY <1>1, <1>2, <2>2, <2>4, WorkersOther
<1>16. ASSUME NEW w \in Workers, Copy(w) PROVE WorkersOK'
  <2> DEFINE k == workers[w]
  <2>1. k.pc = "copy"
    BY <1>1, <1>16, CopyFrame
  <2>2. /\ k.schema \in Entries /\ k.snapshot \in 0 .. csn /\ k.target \in Nat
        /\ k.old \in SUBSET FilePaths
    BY <1>1, <2>1, WorkTypes
  <2>3. /\ workers'[w] = [pc |-> "swap", schema |-> k.schema, rows |-> k.rows,
                          snapshot |-> k.snapshot, target |-> k.target,
                          columns |-> {"id"} \cup catalog.cols, old |-> k.old]
        /\ Others(w)
    BY <1>1, <1>16, CopyDoes
  <2>4. {"id"} \cup catalog.cols \in SUBSET Indexed
    BY <1>1, EntryIs, ColumnsAre DEF TypeOK, DirectoryOK
  <2> HIDE DEF k
  <2>5. k.snapshot \in 0 .. csn'
    BY <1>2, <2>2
  <2>6. ASSUME NEW m, m = workers'[w] PROVE WorkOK(m)'
    BY <1>2, <2>2, <2>3, <2>4, <2>5, <2>6, WorkMade
  <2>7. WorkOK(workers[w])'
    BY <2>6 DEF WorkOK
  <2> QED
    BY <1>1, <1>2, <2>3, <2>7, WorkersOther
<1>17. ASSUME NEW w \in Workers, Swap(w) PROVE WorkersOK'
  <2> DEFINE k == workers[w]
             old == Paths(Prefix, k.columns)
  <2>1. k.pc = "swap"
    BY <1>1, <1>17, SwapFrame
  <2>2. /\ k.schema \in Entries /\ k.snapshot \in 0 .. csn /\ k.target \in Nat
        /\ k.columns \in SUBSET Indexed
    BY <1>1, <2>1, WorkTypes
  <2>3. /\ workers'[w] = [pc |-> "logged", schema |-> k.schema, rows |-> k.rows,
                          snapshot |-> k.snapshot, target |-> k.target,
                          columns |-> k.columns, old |-> old]
        /\ Others(w)
    BY <1>1, <1>17, SwapDoes
  <2>4. old \in SUBSET FilePaths
    BY <1>1, <2>2, PathsOf, PrefixInt
  <2> HIDE DEF k, old
  <2>5. k.snapshot \in 0 .. csn'
    BY <1>2, <2>2
  <2>6. ASSUME NEW m, m = workers'[w] PROVE WorkOK(m)'
    BY <1>2, <2>2, <2>3, <2>4, <2>5, <2>6, WorkMade
  <2>7. WorkOK(workers[w])'
    BY <2>6 DEF WorkOK
  <2> QED
    BY <1>1, <1>2, <2>3, <2>7, WorkersOther
<1>18. ASSUME NEW w \in Workers, Refuse(w) PROVE WorkersOK'
  <2>1. workers[w].pc # "idle" /\ Further(w, "failed")
    BY <1>1, <1>18, RefuseDoes
  <2> QED
    BY <1>1, <1>2, <2>1, WorkersFurther
<1>19. ASSUME NEW w \in Workers, Release(w) PROVE WorkersOK'
  <2>1. workers'[w] = NoWork /\ Others(w)
    BY <1>1, <1>19, ReleaseDoes
  <2>2. WorkOK(workers[w])'
    BY <2>1 DEF WorkOK
  <2> QED
    BY <1>1, <1>2, <2>1, <2>2, WorkersOther
<1>20. ASSUME NEW r \in Readers, Begin(r) PROVE WorkersOK'
  BY <1>20, BeginDoes, <1>1, <1>2, WorkersSame
<1>21. ASSUME NEW r \in Readers, Finish(r) PROVE WorkersOK'
  BY <1>21, FinishDoes, <1>1, <1>2, WorkersSame
<1>22. ASSUME CollectStart PROVE WorkersOK'
  BY <1>22, CollectStartDoes, <1>1, <1>2, WorkersSame, CompactionAssumption
<1>23. ASSUME CollectLock PROVE WorkersOK'
  BY <1>23, CollectLockDoes, <1>1, <1>2, WorkersSame
<1>24. ASSUME CollectRemove PROVE WorkersOK'
  BY <1>24, CollectRemoveDoes, <1>1, <1>2, WorkersSame
<1>25. ASSUME Crash PROVE WorkersOK'
  <2>1. workers' = [w \in Workers |-> NoWork]
    BY <1>25, CrashDoes
  <2> QED
    BY <2>1 DEF WorkersOK, WorkOK
<1>26. ASSUME Restart PROVE WorkersOK'
  BY <1>26, RestartDoes, <1>1, <1>2, WorkersSame, ColumnsAre
<1>27. ASSUME Cleanup PROVE WorkersOK'
  BY <1>27, CleanupDoes, <1>1, <1>2, WorkersSame
<1>28. ASSUME UNCHANGED vars PROVE WorkersOK'
  BY <1>28, <1>1, <1>2, WorkersSame DEF vars, directory, server, log, counters
<1> QED
  BY <1>3, <1>4, <1>5, <1>6, <1>7, <1>8, <1>9, <1>10, <1>11, <1>12, <1>13, <1>14, <1>15,
    <1>16, <1>17, <1>18, <1>19, <1>20, <1>21, <1>22, <1>23, <1>24, <1>25, <1>26, <1>27,
    <1>28 DEF Next, Done

LEMMA RetiredStep ==
  ASSUME Core, Next
  PROVE  RetiredOK'
<1>1. TypeOK /\ Flow /\ Running
  BY DEF Core
<1>2. csn' \in Nat /\ csn \in Nat /\ csn <= csn'
  BY CountersStep DEF Core, TypeOK, CountersOK, Grows
<1>3. collect \in Collections /\ NoCollect \in Collections
  BY <1>1 DEF TypeOK, RetiredOK, NoCollect, Collections
<1>4. retired \subseteq [csn : 0 .. csn', paths : SUBSET FilePaths]
  BY <1>1, <1>2 DEF TypeOK, RetiredOK
<1>5. ASSUME NEW r \in Rows, Insert(r) \/ Delete(r) PROVE RetiredOK'
  BY <1>5, InsertDoes, <1>1, <1>3, <1>4 DEF RetiredOK, Rest
<1>6. ASSUME CreateTable PROVE RetiredOK'
  BY <1>6, CreateTableDoes, <1>1, <1>3, <1>4 DEF RetiredOK, Rest
<1>7. ASSUME DropTable PROVE RetiredOK'
  BY <1>7, DropTableDoes, <1>1, <1>3, <1>4 DEF RetiredOK, Rest
<1>8. ASSUME NEW c \in Columns, CreateIndex(c) \/ DropIndex(c) PROVE RetiredOK'
  BY <1>8, IndexDoes, <1>1, <1>3, <1>4 DEF RetiredOK, Rest
<1>9. ASSUME ApplyCreate PROVE RetiredOK'
  BY <1>9, ApplyCreateDoes, <1>1, <1>3, <1>4 DEF RetiredOK, Rest
<1>10. ASSUME ApplyDrop PROVE RetiredOK'
  BY <1>10, ApplyDropDoes, <1>1, <1>3, <1>4 DEF RetiredOK, Rest
<1>11. ASSUME ApplyCreateIndex PROVE RetiredOK'
  BY <1>11, ApplyCreateIndexDoes, <1>1, <1>3, <1>4 DEF RetiredOK, Rest
<1>12. ASSUME ApplyDropIndex PROVE RetiredOK'
  BY <1>12, ApplyDropIndexDoes, <1>1, <1>3, <1>4 DEF RetiredOK, Rest
<1>13. ASSUME ApplyMigrate PROVE RetiredOK'
  BY <1>13, ApplyMigrateDoes, <1>1, <1>3, <1>4 DEF RetiredOK, Rest
<1>14. ASSUME SaveCatalog PROVE RetiredOK'
  BY <1>14, SaveCatalogDoes, <1>1, <1>3, <1>4 DEF RetiredOK, Rest
<1>15. ASSUME RemoveFile PROVE RetiredOK'
  BY <1>15, RemoveFileDoes, <1>1, <1>3, <1>4 DEF RetiredOK, Rest
<1>16. ASSUME Publish PROVE RetiredOK'
  <2>1. CASE wal.kind = "migrate" /\ mode = "up"
    <3> DEFINE e == [csn |-> csn + 1, paths |-> workers[wal.by].old]
    <3>1. /\ wal.by \in Workers /\ retired' = retired \cup {e} /\ csn' = csn + 1
          /\ UNCHANGED collect
      BY <1>1, <1>16, <2>1, PublishDoes
    <3>2. workers[wal.by].old \in SUBSET FilePaths
      BY <1>1, <2>1, <3>1, WorkTypes DEF Running
    <3>3. e \in [csn : 0 .. csn', paths : SUBSET FilePaths]
      BY <1>2, <3>1, <3>2
    <3> HIDE DEF e
    <3> QED
      BY <1>3, <1>4, <3>1, <3>3 DEF RetiredOK
  <2>2. CASE ~ (wal.kind = "migrate" /\ mode = "up")
    BY <1>1, <1>3, <1>4, <1>16, <2>2, PublishDoes DEF RetiredOK
  <2> QED
    BY <2>1, <2>2
<1>17. ASSUME NEW w \in Workers, Start(w) PROVE RetiredOK'
  BY <1>17, StartDoes, <1>1, <1>3, <1>4 DEF RetiredOK, Rest
<1>18. ASSUME NEW w \in Workers, Copy(w) PROVE RetiredOK'
  BY <1>18, CopyFrame, <1>1, <1>3, <1>4 DEF RetiredOK, Rest
<1>19. ASSUME NEW w \in Workers, Swap(w) PROVE RetiredOK'
  BY <1>19, SwapFrame, <1>1, <1>3, <1>4 DEF RetiredOK, Rest
<1>20. ASSUME NEW w \in Workers, Refuse(w) PROVE RetiredOK'
  BY <1>20, RefuseDoes, <1>1, <1>3, <1>4 DEF RetiredOK, Rest
<1>21. ASSUME NEW w \in Workers, Release(w) PROVE RetiredOK'
  BY <1>21, ReleaseDoes, <1>1, <1>3, <1>4 DEF RetiredOK, Rest
<1>22. ASSUME NEW r \in Readers, Begin(r) PROVE RetiredOK'
  BY <1>22, BeginDoes, <1>1, <1>3, <1>4 DEF RetiredOK
<1>23. ASSUME NEW r \in Readers, Finish(r) PROVE RetiredOK'
  BY <1>23, FinishDoes, <1>1, <1>3, <1>4 DEF RetiredOK
<1>24. ASSUME CollectStart PROVE RetiredOK'
  <2>1. /\ collect' = [pc |-> "chosen", oldest |-> collect'.oldest, gone |-> {},
                       saw |-> collect'.saw]
        /\ collect'.oldest \in Int /\ collect'.saw \subseteq Nat /\ UNCHANGED retired
    BY <1>1, <1>24, CollectStartDoes, CompactionAssumption
  <2>2. ASSUME NEW x \in Int, NEW S \in SUBSET Nat
        PROVE  [pc |-> "chosen", oldest |-> x, gone |-> {}, saw |-> S] \in Collections
    BY DEF Collections
  <2>3. collect' \in Collections
    BY <2>1, <2>2
  <2> QED
    BY <1>4, <2>1, <2>3 DEF RetiredOK
<1>25. ASSUME CollectLock PROVE RetiredOK'
  <2>1. collect' = [pc |-> "locked", oldest |-> collect.oldest, gone |-> collect.gone,
                    saw |-> collect.saw]
          => collect' \in Collections
    BY <1>3 DEF Collections
  <2> QED
    BY <1>1, <1>3, <1>4, <2>1, <1>25, CollectLockDoes DEF RetiredOK
<1>26. ASSUME CollectRemove PROVE RetiredOK'
  BY <1>26, CollectRemoveDoes, <1>1, <1>3, <1>4 DEF RetiredOK
<1>27. ASSUME Crash PROVE RetiredOK'
  BY <1>27, CrashDoes, <1>1, <1>3, <1>4 DEF RetiredOK
<1>28. ASSUME Restart PROVE RetiredOK'
  BY <1>28, RestartDoes, <1>1, <1>3, <1>4, ColumnsAre DEF RetiredOK
<1>29. ASSUME Cleanup PROVE RetiredOK'
  BY <1>29, CleanupDoes, <1>1, <1>3, <1>4 DEF RetiredOK
<1>30. ASSUME UNCHANGED vars PROVE RetiredOK'
  BY <1>30, <1>1, <1>3, <1>4 DEF RetiredOK, vars, directory, server, log, counters
<1> QED
  BY <1>5, <1>6, <1>7, <1>8, <1>9, <1>10, <1>11, <1>12, <1>13, <1>14, <1>15, <1>16, <1>17,
    <1>18, <1>19, <1>20, <1>21, <1>22, <1>23, <1>24, <1>25, <1>26, <1>27, <1>28, <1>29,
    <1>30 DEF Next, Done

\* What was torn stays torn.
TornMoves ==
    \/ torn' = torn
    \/ torn' = (torn \/ Halfway)

LEMMA TornBy ==
  ASSUME Next
  PROVE  TornMoves
<1>1. ASSUME NEW r \in Rows, Insert(r) \/ Delete(r) PROVE TornMoves
  BY <1>1 DEF TornMoves, Insert, Delete, WriteRows, counters, Aside, Log
<1>2. ASSUME CreateTable PROVE TornMoves
  BY <1>2 DEF TornMoves, CreateTable, counters, Aside, Log
<1>3. ASSUME DropTable PROVE TornMoves
  BY <1>3 DEF TornMoves, DropTable, counters, Aside, Log
<1>4. ASSUME NEW c \in Columns, CreateIndex(c) \/ DropIndex(c) PROVE TornMoves
  BY <1>4 DEF TornMoves, CreateIndex, DropIndex, counters, Aside, Log
<1>5. ASSUME ApplyCreate PROVE TornMoves
  BY <1>5 DEF TornMoves, ApplyCreate
<1>6. ASSUME ApplyDrop PROVE TornMoves
  BY <1>6 DEF TornMoves, ApplyDrop, counters, Aside, Log
<1>7. ASSUME ApplyCreateIndex PROVE TornMoves
  BY <1>7 DEF TornMoves, ApplyCreateIndex, counters, Aside, Log
<1>8. ASSUME ApplyDropIndex PROVE TornMoves
  BY <1>8 DEF TornMoves, ApplyDropIndex, counters, Aside, Log
<1>9. ASSUME ApplyMigrate PROVE TornMoves
  BY <1>9 DEF TornMoves, ApplyMigrate, counters, Aside, Log
<1>10. ASSUME SaveCatalog PROVE TornMoves
  BY <1>10 DEF TornMoves, SaveCatalog, counters, Aside, Log
<1>11. ASSUME RemoveFile PROVE TornMoves
  BY <1>11 DEF TornMoves, RemoveFile, counters, Aside, Log
<1>12. ASSUME Publish PROVE TornMoves
  BY <1>12 DEF TornMoves, Publish, counters, Aside, Log
<1>13. ASSUME NEW w \in Workers, Start(w) PROVE TornMoves
  BY <1>13 DEF TornMoves, Start, counters, Aside, Log
<1>14. ASSUME NEW w \in Workers, Copy(w) PROVE TornMoves
  BY <1>14 DEF TornMoves, Copy, counters, Aside, Log
<1>15. ASSUME NEW w \in Workers, Swap(w) PROVE TornMoves
  BY <1>15 DEF TornMoves, Swap, counters, Aside, Log
<1>16. ASSUME NEW w \in Workers, Refuse(w) PROVE TornMoves
  BY <1>16 DEF TornMoves, Refuse, counters, Aside, Log
<1>17. ASSUME NEW w \in Workers, Release(w) PROVE TornMoves
  BY <1>17 DEF TornMoves, Release, counters, Aside, Log
<1>18. ASSUME NEW r \in Readers, Begin(r) PROVE TornMoves
  BY <1>18 DEF TornMoves, Begin, counters, Aside, Log
<1>19. ASSUME NEW r \in Readers, Finish(r) PROVE TornMoves
  BY <1>19 DEF TornMoves, Finish, counters, Aside, Log
<1>20. ASSUME CollectStart PROVE TornMoves
  BY <1>20 DEF TornMoves, CollectStart, counters, Aside, Log
<1>21. ASSUME CollectLock PROVE TornMoves
  BY <1>21 DEF TornMoves, CollectLock, counters, Aside, Log
<1>22. ASSUME CollectRemove PROVE TornMoves
  BY <1>22 DEF TornMoves, CollectRemove, counters, Aside, Log
<1>23. ASSUME Crash PROVE TornMoves
  BY <1>23 DEF TornMoves, Crash
<1>24. ASSUME Restart PROVE TornMoves
  BY <1>24 DEF TornMoves, Restart, counters, Aside, Log
<1>25. ASSUME Cleanup PROVE TornMoves
  BY <1>25 DEF TornMoves, Cleanup, counters, Aside, Log
<1>26. ASSUME UNCHANGED vars PROVE TornMoves
  BY <1>26 DEF TornMoves, vars, counters
<1> QED
  BY <1>1, <1>2, <1>3, <1>4, <1>5, <1>6, <1>7, <1>8, <1>9, <1>10, <1>11, <1>12, <1>13,
    <1>14, <1>15, <1>16, <1>17, <1>18, <1>19, <1>20, <1>21, <1>22, <1>23, <1>24, <1>25,
    <1>26 DEF Next, Done

LEMMA TornStep ==
  ASSUME TypeOK, Next
  PROVE  torn' \in BOOLEAN
BY TornBy DEF TypeOK, TornMoves

LEMMA TypeStep == Core /\ Next => TypeOK'
BY DirectoryStep, LogStep, CountersStep, ReadersStep, WorkersStep, RetiredStep, TornStep
   DEF TypeOK, Core

LEMMA FlowStep ==
  ASSUME Core, Next
  PROVE  Flow'
<1>1. TypeOK /\ Flow /\ Running /\ csn \in Nat /\ objects \in Nat
  BY DEF Core, TypeOK, CountersOK
<1>2. /\ wal = NoOp <=> wal.kind = "none"
      /\ NoOp.kind = "none" /\ NoTable.id = 0
  BY <1>1, OpIs, OpsAre, EntriesAre DEF TypeOK, LogOK
<1>3. Exists <=> catalog.id # 0
  BY <1>1, EntryIs DEF TypeOK, DirectoryOK, Exists
<1>4. Exists' <=> catalog'.id # 0
  BY TypeStep, EntryIs DEF TypeOK, DirectoryOK, Exists
<1>5. ASSUME NEW r \in Rows, Insert(r) \/ Delete(r) PROVE Flow'
  BY <1>5, InsertDoes, <1>1, <1>2, <1>3, <1>4 DEF Flow, Rest
<1>6. ASSUME CreateTable PROVE Flow'
  BY <1>6, CreateTableDoes, <1>1, <1>2, <1>3, <1>4 DEF Flow, Rest
<1>7. ASSUME DropTable PROVE Flow'
  BY <1>7, DropTableDoes, <1>1, <1>2, <1>3, <1>4 DEF Flow, Rest
<1>8. ASSUME NEW c \in Columns, CreateIndex(c) \/ DropIndex(c) PROVE Flow'
  BY <1>8, IndexDoes, <1>1, <1>2, <1>3, <1>4 DEF Flow, Rest
<1>9. ASSUME ApplyCreate PROVE Flow'
  <2>1. wal.kind = "create" /\ wal.id \in Nat /\ wal.id >= 1
    BY <1>1, <1>9, ApplyCreateDoes DEF Flow
  <2>2. /\ ObjectGen(wal.id) # Unknown /\ ObjectGen(wal.id) <= 0
        /\ Plain # Unknown /\ Plain <= 0
    BY <2>1 DEF ObjectGen, Plain, Unknown
  <2>3. gens' # Unknown /\ gens' <= 0
    BY <1>1, <1>9, <2>2, ApplyCreateDoes
  <2> QED
    BY <1>9, <2>3, ApplyCreateDoes, <1>1, <1>2, <1>3, <1>4 DEF Flow, Rest
<1>10. ASSUME ApplyDrop PROVE Flow'
  <2>1. NoTable.gen # Unknown
    BY EntriesAre DEF Unknown
  <2> QED
    BY <1>10, <2>1, ApplyDropDoes, <1>1, <1>2, <1>3, <1>4 DEF Flow, Rest
<1>11. ASSUME ApplyCreateIndex PROVE Flow'
  BY <1>11, ApplyCreateIndexDoes, <1>1, <1>2, <1>3, <1>4 DEF Flow, Rest
<1>12. ASSUME ApplyDropIndex PROVE Flow'
  <2>1. wal.col \in Columns /\ Prefix \in Int
    BY <1>1, <1>12, ApplyDropIndexDoes, OpIs, PrefixInt DEF TypeOK, LogOK
  <2>2. Index(Prefix, wal.col)[2] # "db"
    BY <2>1, PathParts, ColumnsAre DEF Indexed
  <2> QED
    BY <1>1, <1>2, <1>3, <1>4, <2>2, <1>12, ApplyDropIndexDoes DEF Flow, Rest
<1>13. ASSUME ApplyMigrate PROVE Flow'
  <2>1. wal.target # Unknown
    BY <1>1, <1>13, ApplyMigrateDoes, OpIs DEF TypeOK, LogOK, Unknown
  <2> QED
    BY <1>13, <2>1, ApplyMigrateDoes, <1>1, <1>2, <1>3, <1>4 DEF Flow, Rest
<1>14. ASSUME SaveCatalog PROVE Flow'
  BY <1>14, SaveCatalogDoes, <1>1, <1>2, <1>3, <1>4 DEF Flow, Rest
<1>15. ASSUME RemoveFile PROVE Flow'
  BY <1>15, RemoveFileDoes, <1>1, <1>2, <1>3, <1>4 DEF Flow, Rest
<1>16. ASSUME Publish PROVE Flow'
  BY <1>16, PublishDoes, <1>1, <1>2, <1>3, <1>4 DEF Flow
<1>17. ASSUME NEW w \in Workers, Start(w) PROVE Flow'
  BY <1>17, StartDoes, <1>1, <1>2, <1>3, <1>4 DEF Flow, Rest
<1>18. ASSUME NEW w \in Workers, Copy(w) PROVE Flow'
  BY <1>18, CopyFrame, <1>1, <1>2, <1>3, <1>4 DEF Flow, Rest
<1>19. ASSUME NEW w \in Workers, Swap(w) PROVE Flow'
  BY <1>19, SwapFrame, <1>1, <1>2, <1>3, <1>4 DEF Flow, Rest
<1>20. ASSUME NEW w \in Workers, Refuse(w) PROVE Flow'
  BY <1>20, RefuseDoes, <1>1, <1>2, <1>3, <1>4 DEF Flow, Rest
<1>21. ASSUME NEW w \in Workers, Release(w) PROVE Flow'
  BY <1>21, ReleaseDoes, <1>1, <1>2, <1>3, <1>4 DEF Flow, Rest
<1>22. ASSUME NEW r \in Readers, Begin(r) PROVE Flow'
  BY <1>22, BeginDoes, <1>1, <1>2, <1>3, <1>4 DEF Flow
<1>23. ASSUME NEW r \in Readers, Finish(r) PROVE Flow'
  BY <1>23, FinishDoes, <1>1, <1>2, <1>3, <1>4 DEF Flow
<1>24. ASSUME CollectStart PROVE Flow'
  BY <1>24, CollectStartDoes, <1>1, <1>2, <1>3, <1>4, CompactionAssumption DEF Flow
<1>25. ASSUME CollectLock PROVE Flow'
  BY <1>25, CollectLockDoes, <1>1, <1>2, <1>3, <1>4 DEF Flow
<1>26. ASSUME CollectRemove PROVE Flow'
  BY <1>26, CollectRemoveDoes, <1>1, <1>2, <1>3, <1>4 DEF Flow
<1>27. ASSUME Crash PROVE Flow'
  BY <1>27, CrashDoes, <1>1, <1>2, <1>3, <1>4 DEF Flow
<1>28. ASSUME Restart PROVE Flow'
  BY <1>28, RestartDoes, <1>1, <1>2, <1>3, <1>4, ColumnsAre DEF Flow
<1>29. ASSUME Cleanup PROVE Flow'
  BY <1>29, CleanupDoes, <1>1, <1>2, <1>3, <1>4 DEF Flow
<1>30. ASSUME UNCHANGED vars PROVE Flow'
  BY <1>30, <1>1, <1>2, <1>3, <1>4 DEF Flow, vars, directory, server, log, counters
<1> QED
  BY <1>5, <1>6, <1>7, <1>8, <1>9, <1>10, <1>11, <1>12, <1>13, <1>14, <1>15, <1>16, <1>17,
    <1>18, <1>19, <1>20, <1>21, <1>22, <1>23, <1>24, <1>25, <1>26, <1>27, <1>28, <1>29,
    <1>30 DEF Next, Done

LEMMA RunningStep ==
  ASSUME Core, Next
  PROVE  Running'
<1>1. TypeOK /\ Flow /\ Running
  BY DEF Core
<1>2. /\ wal = NoOp <=> wal.kind = "none"
      /\ NoOp.kind = "none"
      /\ wal.kind = "migrate" => wal.by \in Workers
  BY <1>1, OpIs, OpsAre DEF TypeOK, LogOK
<1>3. NoWork.pc = "idle"
  BY DEF NoWork
<1>5. ASSUME NEW r \in Rows, Insert(r) \/ Delete(r) PROVE Running'
  BY <1>5, InsertDoes, <1>1, <1>2, <1>3 DEF Running, Rest
<1>6. ASSUME CreateTable PROVE Running'
  BY <1>6, CreateTableDoes, <1>1, <1>2, <1>3 DEF Running, Rest
<1>7. ASSUME DropTable PROVE Running'
  BY <1>7, DropTableDoes, <1>1, <1>2, <1>3 DEF Running, Rest
<1>8. ASSUME NEW c \in Columns, CreateIndex(c) \/ DropIndex(c) PROVE Running'
  BY <1>8, IndexDoes, <1>1, <1>2, <1>3 DEF Running, Rest
<1>9. ASSUME ApplyCreate PROVE Running'
  BY <1>9, ApplyCreateDoes, <1>1, <1>2, <1>3 DEF Running, Rest
<1>10. ASSUME ApplyDrop PROVE Running'
  BY <1>10, ApplyDropDoes, <1>1, <1>2, <1>3 DEF Running, Rest
<1>11. ASSUME ApplyCreateIndex PROVE Running'
  BY <1>11, ApplyCreateIndexDoes, <1>1, <1>2, <1>3 DEF Running, Rest
<1>12. ASSUME ApplyDropIndex PROVE Running'
  BY <1>12, ApplyDropIndexDoes, <1>1, <1>2, <1>3 DEF Running, Rest
<1>13. ASSUME ApplyMigrate PROVE Running'
  BY <1>13, ApplyMigrateDoes, <1>1, <1>2, <1>3 DEF Running, Rest
<1>14. ASSUME SaveCatalog PROVE Running'
  BY <1>14, SaveCatalogDoes, <1>1, <1>2, <1>3 DEF Running, Rest
<1>15. ASSUME RemoveFile PROVE Running'
  BY <1>15, RemoveFileDoes, <1>1, <1>2, <1>3 DEF Running, Rest
<1>16. ASSUME Publish PROVE Running'
  <2>1. CASE wal.kind = "migrate" /\ mode = "up"
    <3>1. wal.by \in Workers /\ workers'[wal.by].pc = "done" /\ Others(wal.by)
      BY <1>1, <1>16, <2>1, PublishDoes DEF Further
    <3>2. wal' = NoOp /\ mode' = "up"
      BY <1>1, <1>16, <2>1, PublishDoes
    <3> QED
      BY <1>1, <1>2, <2>1, <3>1, <3>2 DEF Running, Others
  <2>2. CASE ~ (wal.kind = "migrate" /\ mode = "up")
    <3>1. wal' = NoOp /\ UNCHANGED <<mode, workers, retired>>
      BY <1>1, <1>16, <2>2, PublishDoes
    <3> QED
      BY <1>1, <1>2, <1>3, <2>2, <3>1 DEF Running
  <2> QED
    BY <2>1, <2>2
<1>17. ASSUME NEW w \in Workers, Start(w) PROVE Running'
  <2>1. /\ workers'[w].pc = "copy" /\ Others(w) /\ wal = NoOp /\ wal' = NoOp
        /\ mode = "up" /\ mode' = "up"
    BY <1>1, <1>17, StartDoes DEF Rest
  <2> QED
    BY <1>1, <1>2, <1>3, <2>1 DEF Running, Others
<1>18. ASSUME NEW w \in Workers, Copy(w) PROVE Running'
  <2>1. /\ workers'[w].pc = "swap" /\ Others(w)
        /\ mode = "up" /\ UNCHANGED <<wal, retired, mode>>
    <3>1. mode = "up" /\ UNCHANGED <<wal, retired, mode>>
      BY <1>1, <1>18, CopyFrame DEF Rest
    <3> QED
      BY <1>1, <1>18, <3>1, CopyFields
  <2>2. workers[w].pc # "logged" /\ workers[w].pc # "idle"
    BY <1>1, <1>18, CopyFrame
  <2> QED
    BY <1>1, <1>2, <1>3, <2>1, <2>2 DEF Running, Others
<1>19. ASSUME NEW w \in Workers, Swap(w) PROVE Running'
  <2>1. /\ workers'[w].pc = "logged" /\ workers'[w].target = workers[w].target
        /\ workers'[w].old = Paths(Prefix, workers[w].columns) /\ Others(w)
    BY <1>1, <1>19, SwapFields
  <2>2. /\ wal = NoOp /\ Exists /\ mode = "up" /\ mode' = "up"
        /\ wal'.kind = "migrate" /\ wal'.by = w /\ wal'.source = catalog.gen
        /\ wal'.target = workers[w].target
    BY <1>1, <1>19, SwapFrame DEF Rest
  <2>3. Prefix = catalog.gen /\ Prefix \in Int
    BY <1>1, <2>2, PrefixInt DEF Flow, Prefix, Unknown, Plain
  <2>4. workers[w].pc = "swap"
    BY <1>1, <1>19, SwapFrame
  <2>5. workers[w].columns \in SUBSET Indexed
    BY <1>1, <2>4, WorkTypes
  <2>6. /\ \A p \in workers'[w].old : p[1] = wal'.source
        /\ Db(wal'.source) \in workers'[w].old
    BY <2>1, <2>2, <2>3, <2>5, PathsOf
  <2> QED
    BY <1>1, <1>2, <2>1, <2>2, <2>6 DEF Running, Others
<1>20. ASSUME NEW w \in Workers, Refuse(w) PROVE Running'
  <2>1. /\ workers'[w].pc = "failed" /\ Others(w)
        /\ mode = "up" /\ UNCHANGED <<wal, retired, mode>>
    <3>1. Further(w, "failed") /\ mode = "up" /\ UNCHANGED <<wal, retired, mode>>
      BY <1>1, <1>20, RefuseDoes DEF Rest
    <3> QED
      BY <3>1, FurtherFields
  <2>2. workers[w].pc # "logged" /\ workers[w].pc # "idle"
    BY <1>1, <1>20, RefuseDoes
  <2> QED
    BY <1>1, <1>2, <1>3, <2>1, <2>2 DEF Running, Others
<1>21. ASSUME NEW w \in Workers, Release(w) PROVE Running'
  <2>1. workers[w].pc \in {"done", "failed"}
    BY <1>1, <1>21, ReleaseDoes
  <2>2. /\ workers'[w] = NoWork /\ Others(w) /\ UNCHANGED <<wal, retired, mode>>
    BY <1>1, <1>21, ReleaseDoes DEF Rest
  <2> QED
    BY <1>1, <1>2, <1>3, <2>1, <2>2 DEF Running, Others
<1>22. ASSUME NEW r \in Readers, Begin(r) PROVE Running'
  BY <1>22, BeginDoes, <1>1, <1>2, <1>3 DEF Running
<1>23. ASSUME NEW r \in Readers, Finish(r) PROVE Running'
  BY <1>23, FinishDoes, <1>1, <1>2, <1>3 DEF Running
<1>24. ASSUME CollectStart PROVE Running'
  BY <1>24, CollectStartDoes, <1>1, <1>2, <1>3, CompactionAssumption DEF Running
<1>25. ASSUME CollectLock PROVE Running'
  BY <1>25, CollectLockDoes, <1>1, <1>2, <1>3 DEF Running
<1>26. ASSUME CollectRemove PROVE Running'
  BY <1>26, CollectRemoveDoes, <1>1, <1>2, <1>3 DEF Running
<1>27. ASSUME Crash PROVE Running'
  BY <1>27, CrashDoes, <1>1, <1>2, <1>3 DEF Running
<1>28. ASSUME Restart PROVE Running'
  BY <1>28, RestartDoes, <1>1, <1>2, <1>3, ColumnsAre DEF Running
<1>29. ASSUME Cleanup PROVE Running'
  BY <1>29, CleanupDoes, <1>1, <1>2, <1>3 DEF Running
<1>30. ASSUME UNCHANGED vars PROVE Running'
  BY <1>30, <1>1, <1>2, <1>3 DEF Running, vars, directory, server, log, counters
<1> QED
  BY <1>5, <1>6, <1>7, <1>8, <1>9, <1>10, <1>11, <1>12, <1>13, <1>14, <1>15, <1>16, <1>17,
    <1>18, <1>19, <1>20, <1>21, <1>22, <1>23, <1>24, <1>25, <1>26, <1>27, <1>28, <1>29,
    <1>30 DEF Next, Done

LEMMA NamedStays ==
  ASSUME Core, Next, NEW g \in Int, Named(g, objects, copies)
  PROVE  Named(g, objects', copies')
BY CountersStep DEF Core, TypeOK, CountersOK, Grows, Named

LEMMA NamedTableStep ==
  ASSUME Core, Next
  PROVE  NamedTable'
<1>1. TypeOK /\ Flow /\ Running /\ copies \in Nat /\ objects \in Nat
  BY DEF Core, TypeOK, CountersOK
<1>2. /\ wal = NoOp <=> wal.kind = "none"
      /\ NoOp.kind = "none" /\ NoTable.gen = 0
      /\ wal.kind = "migrate" => wal.source \in Int /\ wal.target \in Nat
      /\ catalog.gen \in Int /\ gens \in Int
  BY <1>1, OpIs, OpsAre, EntriesAre, EntryIs DEF TypeOK, LogOK, DirectoryOK
<1>3. copies' >= copies /\ copies' \in Nat /\ objects' \in Nat /\ objects' >= objects
  BY CountersStep DEF Grows, CountersOK
<1>4. /\ Named(catalog.gen, objects', copies') /\ Named(gens, objects', copies')
      /\ wal.kind = "migrate" => wal.target <= copies' /\ Named(wal.source, objects', copies')
  BY <1>1, <1>2, <1>3, NamedStays DEF Core, Bounds, NamedTable
<1>5. Named(0, objects', copies') /\ Named(Unknown, objects', copies')
  <2>1. ASSUME NEW o \in Nat, NEW c \in Nat PROVE Named(0, o, c) /\ Named(Unknown, o, c)
    BY DEF Named, Unknown
  <2> QED
    BY <1>3, <2>1
<1>6. ASSUME NEW r \in Rows, Insert(r) \/ Delete(r) PROVE NamedTable'
  BY <1>6, InsertDoes, <1>1, <1>2, <1>3, <1>4, <1>5 DEF NamedTable, Rest
<1>7. ASSUME CreateTable PROVE NamedTable'
  BY <1>7, CreateTableDoes, <1>1, <1>2, <1>3, <1>4, <1>5 DEF NamedTable, Rest
<1>8. ASSUME DropTable PROVE NamedTable'
  BY <1>8, DropTableDoes, <1>1, <1>2, <1>3, <1>4, <1>5 DEF NamedTable, Rest
<1>9. ASSUME NEW c \in Columns, CreateIndex(c) \/ DropIndex(c) PROVE NamedTable'
  BY <1>9, IndexDoes, <1>1, <1>2, <1>3, <1>4, <1>5 DEF NamedTable, Rest
<1>10. ASSUME ApplyCreate PROVE NamedTable'
  <2>1. wal.kind = "create" /\ wal.id \in 1 .. objects /\ UNCHANGED objects
    BY <1>1, <1>10, ApplyCreateDoes DEF Flow
  <2>2. Named(ObjectGen(wal.id), objects', copies')
    BY <1>3, <2>1 DEF Named, ObjectGen
  <2>3. Named(gens', objects', copies') /\ UNCHANGED <<catalog, wal>>
    BY <1>1, <1>5, <2>2, <1>10, ApplyCreateDoes DEF Plain
  <2> QED
    BY <1>4, <2>3 DEF NamedTable
<1>11. ASSUME ApplyDrop PROVE NamedTable'
  BY <1>11, ApplyDropDoes, <1>1, <1>2, <1>3, <1>4, <1>5 DEF NamedTable, Rest
<1>12. ASSUME ApplyCreateIndex PROVE NamedTable'
  BY <1>12, ApplyCreateIndexDoes, <1>1, <1>2, <1>3, <1>4, <1>5 DEF NamedTable, Rest
<1>13. ASSUME ApplyDropIndex PROVE NamedTable'
  BY <1>13, ApplyDropIndexDoes, <1>1, <1>2, <1>3, <1>4, <1>5 DEF NamedTable, Rest
<1>14. ASSUME ApplyMigrate PROVE NamedTable'
  <2>1. /\ wal.kind = "migrate" /\ catalog'.gen = wal.target /\ gens' = wal.target
        /\ UNCHANGED wal
    BY <1>1, <1>14, ApplyMigrateDoes
  <2>2. Named(wal.target, objects', copies')
    BY <1>2, <1>3, <1>4, <2>1 DEF Named
  <2> QED
    BY <1>4, <2>1, <2>2 DEF NamedTable
<1>15. ASSUME SaveCatalog PROVE NamedTable'
  BY <1>15, SaveCatalogDoes, <1>1, <1>2, <1>3, <1>4, <1>5 DEF NamedTable, Rest
<1>16. ASSUME RemoveFile PROVE NamedTable'
  BY <1>16, RemoveFileDoes, <1>1, <1>2, <1>3, <1>4, <1>5 DEF NamedTable, Rest
<1>17. ASSUME Publish PROVE NamedTable'
  BY <1>17, PublishDoes, <1>1, <1>2, <1>3, <1>4, <1>5 DEF NamedTable
<1>18. ASSUME NEW w \in Workers, Start(w) PROVE NamedTable'
  BY <1>18, StartDoes, <1>1, <1>2, <1>3, <1>4, <1>5 DEF NamedTable, Rest
<1>19. ASSUME NEW w \in Workers, Copy(w) PROVE NamedTable'
  BY <1>19, CopyFrame, <1>1, <1>2, <1>3, <1>4, <1>5 DEF NamedTable, Rest
<1>20. ASSUME NEW w \in Workers, Swap(w) PROVE NamedTable'
  <2>1. /\ wal'.target = workers[w].target /\ wal'.source = catalog.gen
        /\ UNCHANGED <<catalog, gens>> /\ workers[w].pc = "swap"
    BY <1>1, <1>20, SwapFrame
  <2>2. workers[w].target \in 1 .. copies
    BY <2>1 DEF Core, Bounds, NamedTargets, Claims
  <2> QED
    BY <1>1, <1>3, <1>4, <2>1, <2>2 DEF NamedTable
<1>21. ASSUME NEW w \in Workers, Refuse(w) PROVE NamedTable'
  BY <1>21, RefuseDoes, <1>1, <1>2, <1>3, <1>4, <1>5 DEF NamedTable, Rest
<1>22. ASSUME NEW w \in Workers, Release(w) PROVE NamedTable'
  BY <1>22, ReleaseDoes, <1>1, <1>2, <1>3, <1>4, <1>5 DEF NamedTable, Rest
<1>23. ASSUME NEW r \in Readers, Begin(r) PROVE NamedTable'
  BY <1>23, BeginDoes, <1>1, <1>2, <1>3, <1>4, <1>5 DEF NamedTable
<1>24. ASSUME NEW r \in Readers, Finish(r) PROVE NamedTable'
  BY <1>24, FinishDoes, <1>1, <1>2, <1>3, <1>4, <1>5 DEF NamedTable
<1>25. ASSUME CollectStart PROVE NamedTable'
  BY <1>25, CollectStartDoes, <1>1, <1>2, <1>3, <1>4, <1>5, CompactionAssumption DEF
    NamedTable
<1>26. ASSUME CollectLock PROVE NamedTable'
  BY <1>26, CollectLockDoes, <1>1, <1>2, <1>3, <1>4, <1>5 DEF NamedTable
<1>27. ASSUME CollectRemove PROVE NamedTable'
  BY <1>27, CollectRemoveDoes, <1>1, <1>2, <1>3, <1>4, <1>5 DEF NamedTable
<1>28. ASSUME Crash PROVE NamedTable'
  BY <1>28, CrashDoes, <1>1, <1>2, <1>3, <1>4, <1>5 DEF NamedTable
<1>29. ASSUME Restart PROVE NamedTable'
  BY <1>29, RestartDoes, <1>1, <1>2, <1>3, <1>4, <1>5, ColumnsAre DEF NamedTable
<1>30. ASSUME Cleanup PROVE NamedTable'
  BY <1>30, CleanupDoes, <1>1, <1>2, <1>3, <1>4, <1>5 DEF NamedTable
<1>31. ASSUME UNCHANGED vars PROVE NamedTable'
  BY <1>31, <1>1, <1>2, <1>3, <1>4, <1>5 DEF NamedTable, vars, directory, server, log,
    counters
<1> QED
  BY <1>6, <1>7, <1>8, <1>9, <1>10, <1>11, <1>12, <1>13, <1>14, <1>15, <1>16, <1>17, <1>18,
    <1>19, <1>20, <1>21, <1>22, <1>23, <1>24, <1>25, <1>26, <1>27, <1>28, <1>29, <1>30,
    <1>31 DEF Next, Done

LEMMA NamedDeadStep ==
  ASSUME Core, Next
  PROVE  NamedDead'
<1>1. TypeOK /\ Flow /\ Running /\ NamedDead /\ copies \in Nat /\ objects \in Nat
  BY DEF Core, TypeOK, CountersOK, Bounds
<1>2. /\ wal = NoOp <=> wal.kind = "none"
      /\ NoOp.kind = "none"
  BY <1>1, OpIs, OpsAre DEF TypeOK, LogOK
<1>3. \A e \in retired : \A p \in e.paths : p[1] \in Int /\ Named(p[1], objects', copies')
  <2>1. ASSUME NEW e \in retired, NEW p \in e.paths PROVE p[1] \in Int
    <3>1. p \in FilePaths
      BY <1>1 DEF TypeOK, RetiredOK
    <3> QED
      BY <3>1 DEF FilePaths
  <2> QED
    BY <1>1, <2>1, NamedStays DEF NamedDead
<1>5. ASSUME NEW r \in Rows, Insert(r) \/ Delete(r) PROVE NamedDead'
  BY <1>5, InsertDoes, <1>1, <1>2, <1>3 DEF NamedDead, Rest
<1>6. ASSUME CreateTable PROVE NamedDead'
  <2>1. wal'.kind = "create" /\ wal'.id = objects + 1 /\ UNCHANGED retired
    BY <1>6, CreateTableDoes DEF Rest
  <2>2. ASSUME NEW e \in retired, NEW p \in e.paths PROVE p[1] > ObjectGen(wal'.id)
    BY <1>1, <1>3, <2>1 DEF NamedDead, Named, ObjectGen
  <2> QED
    BY <1>3, <2>1, <2>2 DEF NamedDead
<1>7. ASSUME DropTable PROVE NamedDead'
  BY <1>7, DropTableDoes, <1>1, <1>2, <1>3 DEF NamedDead, Rest
<1>8. ASSUME NEW c \in Columns, CreateIndex(c) \/ DropIndex(c) PROVE NamedDead'
  BY <1>8, IndexDoes, <1>1, <1>2, <1>3 DEF NamedDead, Rest
<1>9. ASSUME ApplyCreate PROVE NamedDead'
  BY <1>9, ApplyCreateDoes, <1>1, <1>2, <1>3 DEF NamedDead, Rest
<1>10. ASSUME ApplyDrop PROVE NamedDead'
  BY <1>10, ApplyDropDoes, <1>1, <1>2, <1>3 DEF NamedDead, Rest
<1>11. ASSUME ApplyCreateIndex PROVE NamedDead'
  BY <1>11, ApplyCreateIndexDoes, <1>1, <1>2, <1>3 DEF NamedDead, Rest
<1>12. ASSUME ApplyDropIndex PROVE NamedDead'
  BY <1>12, ApplyDropIndexDoes, <1>1, <1>2, <1>3 DEF NamedDead, Rest
<1>13. ASSUME ApplyMigrate PROVE NamedDead'
  BY <1>13, ApplyMigrateDoes, <1>1, <1>2, <1>3 DEF NamedDead, Rest
<1>14. ASSUME SaveCatalog PROVE NamedDead'
  BY <1>14, SaveCatalogDoes, <1>1, <1>2, <1>3 DEF NamedDead, Rest
<1>15. ASSUME RemoveFile PROVE NamedDead'
  BY <1>15, RemoveFileDoes, <1>1, <1>2, <1>3 DEF NamedDead, Rest
<1>16. ASSUME Publish PROVE NamedDead'
  <2>1. wal'.kind = "none"
    BY <1>1, <1>2, <1>16, PublishDoes
  <2>2. CASE wal.kind = "migrate" /\ mode = "up"
    <3> DEFINE e == [csn |-> csn + 1, paths |-> workers[wal.by].old]
    <3>1. retired' = retired \cup {e} /\ UNCHANGED <<copies, objects>>
      BY <1>1, <1>16, <2>2, PublishDoes
    <3>2. \A p \in e.paths : p[1] = wal.source
      BY <1>1, <2>2 DEF Running
    <3>3. Named(wal.source, objects', copies')
      BY <2>2, <3>1 DEF Core, Bounds, NamedTable
    <3> HIDE DEF e
    <3> QED
      BY <1>3, <2>1, <3>1, <3>2, <3>3 DEF NamedDead
  <2>3. CASE ~ (wal.kind = "migrate" /\ mode = "up")
    <3>1. UNCHANGED retired
      BY <1>1, <1>16, <2>3, PublishDoes
    <3> QED
      BY <1>3, <2>1, <3>1 DEF NamedDead
  <2> QED
    BY <2>2, <2>3
<1>17. ASSUME NEW w \in Workers, Start(w) PROVE NamedDead'
  <2>1. wal' = NoOp /\ UNCHANGED retired
    BY <1>1, <1>17, StartDoes DEF Rest
  <2> QED
    BY <1>2, <1>3, <2>1 DEF NamedDead
<1>18. ASSUME NEW w \in Workers, Copy(w) PROVE NamedDead'
  BY <1>18, CopyFrame, <1>1, <1>2, <1>3 DEF NamedDead, Rest
<1>19. ASSUME NEW w \in Workers, Swap(w) PROVE NamedDead'
  <2>1. wal'.kind = "migrate" /\ UNCHANGED retired
    BY <1>1, <1>19, SwapFrame DEF Rest
  <2> QED
    BY <1>3, <2>1 DEF NamedDead
<1>20. ASSUME NEW w \in Workers, Refuse(w) PROVE NamedDead'
  BY <1>20, RefuseDoes, <1>1, <1>2, <1>3 DEF NamedDead, Rest
<1>21. ASSUME NEW w \in Workers, Release(w) PROVE NamedDead'
  BY <1>21, ReleaseDoes, <1>1, <1>2, <1>3 DEF NamedDead, Rest
<1>22. ASSUME NEW r \in Readers, Begin(r) PROVE NamedDead'
  BY <1>22, BeginDoes, <1>1, <1>2, <1>3 DEF NamedDead
<1>23. ASSUME NEW r \in Readers, Finish(r) PROVE NamedDead'
  BY <1>23, FinishDoes, <1>1, <1>2, <1>3 DEF NamedDead
<1>24. ASSUME CollectStart PROVE NamedDead'
  BY <1>24, CollectStartDoes, <1>1, <1>2, <1>3, CompactionAssumption DEF NamedDead
<1>25. ASSUME CollectLock PROVE NamedDead'
  BY <1>25, CollectLockDoes, <1>1, <1>2, <1>3 DEF NamedDead
<1>26. ASSUME CollectRemove PROVE NamedDead'
  BY <1>26, CollectRemoveDoes, <1>1, <1>2, <1>3 DEF NamedDead
<1>27. ASSUME Crash PROVE NamedDead'
  BY <1>27, CrashDoes, <1>1, <1>2, <1>3 DEF NamedDead
<1>28. ASSUME Restart PROVE NamedDead'
  BY <1>28, RestartDoes, <1>1, <1>2, <1>3, ColumnsAre DEF NamedDead
<1>29. ASSUME Cleanup PROVE NamedDead'
  BY <1>29, CleanupDoes, <1>1, <1>2, <1>3 DEF NamedDead
<1>30. ASSUME UNCHANGED vars PROVE NamedDead'
  BY <1>30, <1>1, <1>2, <1>3 DEF NamedDead, vars, directory, server, log, counters
<1> QED
  BY <1>5, <1>6, <1>7, <1>8, <1>9, <1>10, <1>11, <1>12, <1>13, <1>14, <1>15, <1>16, <1>17,
    <1>18, <1>19, <1>20, <1>21, <1>22, <1>23, <1>24, <1>25, <1>26, <1>27, <1>28, <1>29,
    <1>30 DEF Next, Done

(***************************************************************************)
(* What steps can do to one part of the state, whatever the action.        *)
(***************************************************************************)

\* An entry is retired by the publication of a change of generation.
Retires(e) ==
    /\ mode = "up" /\ wal.kind = "migrate" /\ step = "publish" /\ collect.pc # "locked"
    /\ e.csn = csn + 1 /\ e.paths = workers[wal.by].old /\ wal'.kind = "none"
    /\ UNCHANGED <<catalog, gens, mode, collect, left>>
    /\ DOMAIN files \subseteq DOMAIN files'

LEMMA RetiredBy ==
  ASSUME Core, Next
  PROVE  \A e \in retired' : e \in retired \/ Retires(e)
<1>1. TypeOK /\ Flow /\ Running
  BY DEF Core
<1>2. /\ wal = NoOp <=> wal.kind = "none"
      /\ NoOp.kind = "none" /\ NoTable.gen = 0 /\ NoWork.pc = "idle"
  BY <1>1, OpIs, OpsAre, EntriesAre DEF TypeOK, LogOK, NoWork
<1>3. ASSUME NEW r \in Rows, Insert(r) \/ Delete(r) PROVE \A e \in retired' : e \in retired \/ Retires(e)
  BY <1>3, InsertDoes, <1>1, <1>2 DEF Rest
<1>4. ASSUME CreateTable PROVE \A e \in retired' : e \in retired \/ Retires(e)
  BY <1>4, CreateTableDoes, <1>1, <1>2 DEF Rest
<1>5. ASSUME DropTable PROVE \A e \in retired' : e \in retired \/ Retires(e)
  BY <1>5, DropTableDoes, <1>1, <1>2 DEF Rest
<1>6. ASSUME NEW c \in Columns, CreateIndex(c) \/ DropIndex(c) PROVE \A e \in retired' : e \in retired \/ Retires(e)
  BY <1>6, IndexDoes, <1>1, <1>2 DEF Rest
<1>7. ASSUME ApplyCreate PROVE \A e \in retired' : e \in retired \/ Retires(e)
  BY <1>7, ApplyCreateDoes, <1>1, <1>2 DEF Rest
<1>8. ASSUME ApplyDrop PROVE \A e \in retired' : e \in retired \/ Retires(e)
  BY <1>8, ApplyDropDoes, <1>1, <1>2 DEF Rest
<1>9. ASSUME ApplyCreateIndex PROVE \A e \in retired' : e \in retired \/ Retires(e)
  BY <1>9, ApplyCreateIndexDoes, <1>1, <1>2 DEF Rest
<1>10. ASSUME ApplyDropIndex PROVE \A e \in retired' : e \in retired \/ Retires(e)
  BY <1>10, ApplyDropIndexDoes, <1>1, <1>2 DEF Rest
<1>11. ASSUME ApplyMigrate PROVE \A e \in retired' : e \in retired \/ Retires(e)
  BY <1>11, ApplyMigrateDoes, <1>1, <1>2 DEF Rest
<1>12. ASSUME SaveCatalog PROVE \A e \in retired' : e \in retired \/ Retires(e)
  BY <1>12, SaveCatalogDoes, <1>1, <1>2 DEF Rest
<1>13. ASSUME RemoveFile PROVE \A e \in retired' : e \in retired \/ Retires(e)
  BY <1>13, RemoveFileDoes, <1>1, <1>2 DEF Rest
<1>14. ASSUME Publish PROVE \A e \in retired' : e \in retired \/ Retires(e)
  <2>1. CASE wal.kind = "migrate" /\ mode = "up"
    <3> DEFINE new == [csn |-> csn + 1, paths |-> workers[wal.by].old]
    <3>1. retired' = retired \cup {new}
      BY <1>1, <1>14, <2>1, PublishDoes
    <3>2. new.csn = csn + 1 /\ new.paths = workers[wal.by].old
      OBVIOUS
    <3> HIDE DEF new
    <3>3. /\ step = "publish" /\ collect.pc # "locked" /\ wal'.kind = "none"
          /\ UNCHANGED <<catalog, gens, mode, collect, left>>
          /\ DOMAIN files \subseteq DOMAIN files'
      BY <1>1, <1>2, <1>14, <2>1, PublishDoes
    <3> QED
      BY <2>1, <3>1, <3>2, <3>3 DEF Retires
  <2>2. CASE ~ (wal.kind = "migrate" /\ mode = "up")
    BY <1>1, <1>14, <2>2, PublishDoes
  <2> QED
    BY <2>1, <2>2
<1>15. ASSUME NEW w \in Workers, Start(w) PROVE \A e \in retired' : e \in retired \/ Retires(e)
  BY <1>15, StartDoes, <1>1, <1>2 DEF Rest
<1>16. ASSUME NEW w \in Workers, Copy(w) PROVE \A e \in retired' : e \in retired \/ Retires(e)
  <2>1. UNCHANGED retired
    BY <1>1, <1>16, CopyFrame DEF Rest
  <2> QED
    BY <2>1
<1>17. ASSUME NEW w \in Workers, Swap(w) PROVE \A e \in retired' : e \in retired \/ Retires(e)
  <2>1. UNCHANGED retired
    BY <1>1, <1>17, SwapFrame DEF Rest
  <2> QED
    BY <2>1
<1>18. ASSUME NEW w \in Workers, Refuse(w) PROVE \A e \in retired' : e \in retired \/ Retires(e)
  BY <1>18, RefuseDoes, <1>1, <1>2 DEF Rest
<1>19. ASSUME NEW w \in Workers, Release(w) PROVE \A e \in retired' : e \in retired \/ Retires(e)
  BY <1>19, ReleaseDoes, <1>1, <1>2 DEF Rest
<1>20. ASSUME NEW r \in Readers, Begin(r) PROVE \A e \in retired' : e \in retired \/ Retires(e)
  BY <1>20, BeginDoes, <1>1, <1>2
<1>21. ASSUME NEW r \in Readers, Finish(r) PROVE \A e \in retired' : e \in retired \/ Retires(e)
  BY <1>21, FinishDoes, <1>1, <1>2
<1>22. ASSUME CollectStart PROVE \A e \in retired' : e \in retired \/ Retires(e)
  BY <1>22, CollectStartDoes, <1>1, <1>2, CompactionAssumption
<1>23. ASSUME CollectLock PROVE \A e \in retired' : e \in retired \/ Retires(e)
  BY <1>23, CollectLockDoes, <1>1, <1>2
<1>24. ASSUME CollectRemove PROVE \A e \in retired' : e \in retired \/ Retires(e)
  BY <1>24, CollectRemoveDoes, <1>1, <1>2
<1>25. ASSUME Crash PROVE \A e \in retired' : e \in retired \/ Retires(e)
  BY <1>25, CrashDoes, <1>1, <1>2
<1>26. ASSUME Restart PROVE \A e \in retired' : e \in retired \/ Retires(e)
  BY <1>26, RestartDoes, <1>1, <1>2, ColumnsAre
<1>27. ASSUME Cleanup PROVE \A e \in retired' : e \in retired \/ Retires(e)
  BY <1>27, CleanupDoes, <1>1, <1>2
<1>28. ASSUME UNCHANGED vars PROVE \A e \in retired' : e \in retired \/ Retires(e)
  BY <1>28, <1>1, <1>2 DEF vars, directory, server, log, counters
<1> QED
  BY <1>3, <1>4, <1>5, <1>6, <1>7, <1>8, <1>9, <1>10, <1>11, <1>12, <1>13, <1>14, <1>15,
    <1>16, <1>17, <1>18, <1>19, <1>20, <1>21, <1>22, <1>23, <1>24, <1>25, <1>26, <1>27,
    <1>28 DEF Next, Done

\* A file goes with a drop, with a retired generation, or at a start.
Removes(p) ==
    \/ p \in left
    \/ /\ mode = "up" /\ collect.pc = "locked"
       /\ \E e \in retired : /\ Expired(e) /\ p \in e.paths
                             /\ e \in retired' => /\ collect'.pc = "locked"
                                                  /\ collect'.oldest = collect.oldest
    \/ mode = "recover" /\ mode' = "up" /\ wal.kind = "none"
    \/ mode = "down" /\ p[2] # "db"

LEMMA RemovedBy ==
  ASSUME Core, Next
  PROVE  \A p \in DOMAIN files : p \in DOMAIN files' \/ Removes(p)
<1>1. TypeOK /\ Flow /\ Running
  BY DEF Core
<1>2. /\ wal = NoOp <=> wal.kind = "none"
      /\ NoOp.kind = "none" /\ NoTable.gen = 0 /\ NoWork.pc = "idle"
  BY <1>1, OpIs, OpsAre, EntriesAre DEF TypeOK, LogOK, NoWork
<1>3. ASSUME NEW r \in Rows, Insert(r) \/ Delete(r) PROVE \A p \in DOMAIN files : p \in DOMAIN files' \/ Removes(p)
  BY <1>3, InsertDoes, <1>1, <1>2 DEF Rest
<1>4. ASSUME CreateTable PROVE \A p \in DOMAIN files : p \in DOMAIN files' \/ Removes(p)
  BY <1>4, CreateTableDoes, <1>1, <1>2 DEF Rest
<1>5. ASSUME DropTable PROVE \A p \in DOMAIN files : p \in DOMAIN files' \/ Removes(p)
  BY <1>5, DropTableDoes, <1>1, <1>2 DEF Rest
<1>6. ASSUME NEW c \in Columns, CreateIndex(c) \/ DropIndex(c) PROVE \A p \in DOMAIN files : p \in DOMAIN files' \/ Removes(p)
  BY <1>6, IndexDoes, <1>1, <1>2 DEF Rest
<1>7. ASSUME ApplyCreate PROVE \A p \in DOMAIN files : p \in DOMAIN files' \/ Removes(p)
  BY <1>7, ApplyCreateDoes, <1>1, <1>2 DEF Rest
<1>8. ASSUME ApplyDrop PROVE \A p \in DOMAIN files : p \in DOMAIN files' \/ Removes(p)
  BY <1>8, ApplyDropDoes, <1>1, <1>2 DEF Rest
<1>9. ASSUME ApplyCreateIndex PROVE \A p \in DOMAIN files : p \in DOMAIN files' \/ Removes(p)
  BY <1>9, ApplyCreateIndexDoes, <1>1, <1>2 DEF Rest
<1>10. ASSUME ApplyDropIndex PROVE \A p \in DOMAIN files : p \in DOMAIN files' \/ Removes(p)
  BY <1>10, ApplyDropIndexDoes, <1>1, <1>2 DEF Rest
<1>11. ASSUME ApplyMigrate PROVE \A p \in DOMAIN files : p \in DOMAIN files' \/ Removes(p)
  BY <1>11, ApplyMigrateDoes, <1>1, <1>2 DEF Rest
<1>12. ASSUME SaveCatalog PROVE \A p \in DOMAIN files : p \in DOMAIN files' \/ Removes(p)
  BY <1>12, SaveCatalogDoes, <1>1, <1>2 DEF Rest
<1>13. ASSUME RemoveFile PROVE \A p \in DOMAIN files : p \in DOMAIN files' \/ Removes(p)
  BY <1>13, RemoveFileDoes, <1>1, <1>2 DEF Rest, Removes
<1>14. ASSUME Publish PROVE \A p \in DOMAIN files : p \in DOMAIN files' \/ Removes(p)
  BY <1>14, PublishDoes, <1>1, <1>2
<1>15. ASSUME NEW w \in Workers, Start(w) PROVE \A p \in DOMAIN files : p \in DOMAIN files' \/ Removes(p)
  <2>1. UNCHANGED files
    BY <1>1, <1>15, StartDoes
  <2> QED
    BY <2>1
<1>16. ASSUME NEW w \in Workers, Copy(w) PROVE \A p \in DOMAIN files : p \in DOMAIN files' \/ Removes(p)
  <2>1. DOMAIN files \subseteq DOMAIN files'
    BY <1>1, <1>16, CopyFrame
  <2> QED
    BY <2>1
<1>17. ASSUME NEW w \in Workers, Swap(w) PROVE \A p \in DOMAIN files : p \in DOMAIN files' \/ Removes(p)
  <2>1. DOMAIN files \subseteq DOMAIN files'
    BY <1>1, <1>17, SwapFrame
  <2> QED
    BY <2>1
<1>18. ASSUME NEW w \in Workers, Refuse(w) PROVE \A p \in DOMAIN files : p \in DOMAIN files' \/ Removes(p)
  BY <1>18, RefuseDoes, <1>1, <1>2 DEF Rest
<1>19. ASSUME NEW w \in Workers, Release(w) PROVE \A p \in DOMAIN files : p \in DOMAIN files' \/ Removes(p)
  BY <1>19, ReleaseDoes, <1>1, <1>2 DEF Rest
<1>20. ASSUME NEW r \in Readers, Begin(r) PROVE \A p \in DOMAIN files : p \in DOMAIN files' \/ Removes(p)
  BY <1>20, BeginDoes, <1>1, <1>2
<1>21. ASSUME NEW r \in Readers, Finish(r) PROVE \A p \in DOMAIN files : p \in DOMAIN files' \/ Removes(p)
  BY <1>21, FinishDoes, <1>1, <1>2
<1>22. ASSUME CollectStart PROVE \A p \in DOMAIN files : p \in DOMAIN files' \/ Removes(p)
  BY <1>22, CollectStartDoes, <1>1, <1>2, CompactionAssumption
<1>23. ASSUME CollectLock PROVE \A p \in DOMAIN files : p \in DOMAIN files' \/ Removes(p)
  BY <1>23, CollectLockDoes, <1>1, <1>2
<1>24. ASSUME CollectRemove PROVE \A p \in DOMAIN files : p \in DOMAIN files' \/ Removes(p)
  BY <1>24, CollectRemoveDoes, <1>1, <1>2 DEF Removes
<1>25. ASSUME Crash PROVE \A p \in DOMAIN files : p \in DOMAIN files' \/ Removes(p)
  BY <1>25, CrashDoes, <1>1, <1>2
<1>26. ASSUME Restart PROVE \A p \in DOMAIN files : p \in DOMAIN files' \/ Removes(p)
  BY <1>26, RestartDoes, <1>1, <1>2, ColumnsAre DEF Removes
<1>27. ASSUME Cleanup PROVE \A p \in DOMAIN files : p \in DOMAIN files' \/ Removes(p)
  BY <1>27, CleanupDoes, <1>1, <1>2 DEF Removes
<1>28. ASSUME UNCHANGED vars PROVE \A p \in DOMAIN files : p \in DOMAIN files' \/ Removes(p)
  BY <1>28, <1>1, <1>2 DEF vars, directory, server, log, counters
<1> QED
  BY <1>3, <1>4, <1>5, <1>6, <1>7, <1>8, <1>9, <1>10, <1>11, <1>12, <1>13, <1>14, <1>15,
    <1>16, <1>17, <1>18, <1>19, <1>20, <1>21, <1>22, <1>23, <1>24, <1>25, <1>26, <1>27,
    <1>28 DEF Next, Done

\* The generation of the table changes with a create, a drop or a migration.
GenerationMoves ==
    \/ catalog'.gen = catalog.gen
    \/ catalog'.gen <= 0
    \/ wal.kind = "migrate" /\ catalog'.gen = wal.target

\* A change of generation is logged with the generation the table has.
LogsOwn ==
    wal'.kind = "migrate" =>
        wal' = wal \/ (wal.kind = "none" /\ wal'.source = catalog.gen)

\* The files to remove are those of the table's generation.
LeavesOwn ==
    \A p \in left' :
        \/ p \in left
        \/ /\ p[1] = Prefix /\ step = "apply" /\ wal.kind \in {"drop", "unindex"}
           /\ UNCHANGED <<wal, workers, retired, mode>>

LEMMA GenerationBy ==
  ASSUME Core, Next
  PROVE  GenerationMoves
<1>1. TypeOK /\ Flow /\ Running
  BY DEF Core
<1>2. /\ wal = NoOp <=> wal.kind = "none"
      /\ NoOp.kind = "none" /\ NoTable.gen = 0 /\ NoWork.pc = "idle"
  BY <1>1, OpIs, OpsAre, EntriesAre DEF TypeOK, LogOK, NoWork
<1>3. ASSUME NEW r \in Rows, Insert(r) \/ Delete(r) PROVE GenerationMoves
  BY <1>3, InsertDoes, <1>1, <1>2 DEF GenerationMoves, Rest
<1>4. ASSUME CreateTable PROVE GenerationMoves
  BY <1>4, CreateTableDoes, <1>1, <1>2 DEF GenerationMoves, Rest
<1>5. ASSUME DropTable PROVE GenerationMoves
  BY <1>5, DropTableDoes, <1>1, <1>2 DEF GenerationMoves, Rest
<1>6. ASSUME NEW c \in Columns, CreateIndex(c) \/ DropIndex(c) PROVE GenerationMoves
  BY <1>6, IndexDoes, <1>1, <1>2 DEF GenerationMoves, Rest
<1>7. ASSUME ApplyCreate PROVE GenerationMoves
  BY <1>7, ApplyCreateDoes, <1>1, <1>2 DEF GenerationMoves, Rest
<1>8. ASSUME ApplyDrop PROVE GenerationMoves
  BY <1>8, ApplyDropDoes, <1>1, <1>2 DEF GenerationMoves, Rest
<1>9. ASSUME ApplyCreateIndex PROVE GenerationMoves
  BY <1>9, ApplyCreateIndexDoes, <1>1, <1>2 DEF GenerationMoves, Rest
<1>10. ASSUME ApplyDropIndex PROVE GenerationMoves
  BY <1>10, ApplyDropIndexDoes, <1>1, <1>2 DEF GenerationMoves, Rest
<1>11. ASSUME ApplyMigrate PROVE GenerationMoves
  BY <1>11, ApplyMigrateDoes, <1>1, <1>2 DEF GenerationMoves, Rest
<1>12. ASSUME SaveCatalog PROVE GenerationMoves
  BY <1>12, SaveCatalogDoes, <1>1, <1>2 DEF GenerationMoves, Rest, Flow
<1>13. ASSUME RemoveFile PROVE GenerationMoves
  BY <1>13, RemoveFileDoes, <1>1, <1>2 DEF GenerationMoves, Rest
<1>14. ASSUME Publish PROVE GenerationMoves
  BY <1>14, PublishDoes, <1>1, <1>2 DEF GenerationMoves
<1>15. ASSUME NEW w \in Workers, Start(w) PROVE GenerationMoves
  BY <1>15, StartDoes, <1>1, <1>2 DEF GenerationMoves, Rest
<1>16. ASSUME NEW w \in Workers, Copy(w) PROVE GenerationMoves
  BY <1>16, CopyFrame, <1>1, <1>2 DEF GenerationMoves, Rest
<1>17. ASSUME NEW w \in Workers, Swap(w) PROVE GenerationMoves
  BY <1>17, SwapFrame, <1>1, <1>2 DEF GenerationMoves, Rest
<1>18. ASSUME NEW w \in Workers, Refuse(w) PROVE GenerationMoves
  BY <1>18, RefuseDoes, <1>1, <1>2 DEF GenerationMoves, Rest
<1>19. ASSUME NEW w \in Workers, Release(w) PROVE GenerationMoves
  BY <1>19, ReleaseDoes, <1>1, <1>2 DEF GenerationMoves, Rest
<1>20. ASSUME NEW r \in Readers, Begin(r) PROVE GenerationMoves
  BY <1>20, BeginDoes, <1>1, <1>2 DEF GenerationMoves
<1>21. ASSUME NEW r \in Readers, Finish(r) PROVE GenerationMoves
  BY <1>21, FinishDoes, <1>1, <1>2 DEF GenerationMoves
<1>22. ASSUME CollectStart PROVE GenerationMoves
  BY <1>22, CollectStartDoes, <1>1, <1>2, CompactionAssumption DEF GenerationMoves
<1>23. ASSUME CollectLock PROVE GenerationMoves
  BY <1>23, CollectLockDoes, <1>1, <1>2 DEF GenerationMoves
<1>24. ASSUME CollectRemove PROVE GenerationMoves
  BY <1>24, CollectRemoveDoes, <1>1, <1>2 DEF GenerationMoves
<1>25. ASSUME Crash PROVE GenerationMoves
  BY <1>25, CrashDoes, <1>1, <1>2 DEF GenerationMoves
<1>26. ASSUME Restart PROVE GenerationMoves
  BY <1>26, RestartDoes, <1>1, <1>2, ColumnsAre DEF GenerationMoves
<1>27. ASSUME Cleanup PROVE GenerationMoves
  BY <1>27, CleanupDoes, <1>1, <1>2 DEF GenerationMoves
<1>28. ASSUME UNCHANGED vars PROVE GenerationMoves
  BY <1>28, <1>1, <1>2 DEF GenerationMoves, vars, directory, server, log, counters
<1> QED
  BY <1>3, <1>4, <1>5, <1>6, <1>7, <1>8, <1>9, <1>10, <1>11, <1>12, <1>13, <1>14, <1>15,
    <1>16, <1>17, <1>18, <1>19, <1>20, <1>21, <1>22, <1>23, <1>24, <1>25, <1>26, <1>27,
    <1>28 DEF Next, Done

LEMMA LoggedBy ==
  ASSUME Core, Next
  PROVE  LogsOwn
<1>1. TypeOK /\ Flow /\ Running
  BY DEF Core
<1>2. /\ wal = NoOp <=> wal.kind = "none"
      /\ NoOp.kind = "none" /\ NoTable.gen = 0 /\ NoWork.pc = "idle"
  BY <1>1, OpIs, OpsAre, EntriesAre DEF TypeOK, LogOK, NoWork
<1>3. ASSUME NEW r \in Rows, Insert(r) \/ Delete(r) PROVE LogsOwn
  BY <1>3, InsertDoes, <1>1, <1>2 DEF LogsOwn, Rest
<1>4. ASSUME CreateTable PROVE LogsOwn
  BY <1>4, CreateTableDoes, <1>1, <1>2 DEF LogsOwn, Rest
<1>5. ASSUME DropTable PROVE LogsOwn
  BY <1>5, DropTableDoes, <1>1, <1>2 DEF LogsOwn, Rest
<1>6. ASSUME NEW c \in Columns, CreateIndex(c) \/ DropIndex(c) PROVE LogsOwn
  BY <1>6, IndexDoes, <1>1, <1>2 DEF LogsOwn, Rest
<1>7. ASSUME ApplyCreate PROVE LogsOwn
  BY <1>7, ApplyCreateDoes, <1>1, <1>2 DEF LogsOwn, Rest
<1>8. ASSUME ApplyDrop PROVE LogsOwn
  BY <1>8, ApplyDropDoes, <1>1, <1>2 DEF LogsOwn, Rest
<1>9. ASSUME ApplyCreateIndex PROVE LogsOwn
  BY <1>9, ApplyCreateIndexDoes, <1>1, <1>2 DEF LogsOwn, Rest
<1>10. ASSUME ApplyDropIndex PROVE LogsOwn
  BY <1>10, ApplyDropIndexDoes, <1>1, <1>2 DEF LogsOwn, Rest
<1>11. ASSUME ApplyMigrate PROVE LogsOwn
  BY <1>11, ApplyMigrateDoes, <1>1, <1>2 DEF LogsOwn, Rest
<1>12. ASSUME SaveCatalog PROVE LogsOwn
  BY <1>12, SaveCatalogDoes, <1>1, <1>2 DEF LogsOwn, Rest
<1>13. ASSUME RemoveFile PROVE LogsOwn
  BY <1>13, RemoveFileDoes, <1>1, <1>2 DEF LogsOwn, Rest
<1>14. ASSUME Publish PROVE LogsOwn
  BY <1>14, PublishDoes, <1>1, <1>2 DEF LogsOwn
<1>15. ASSUME NEW w \in Workers, Start(w) PROVE LogsOwn
  BY <1>15, StartDoes, <1>1, <1>2 DEF LogsOwn, Rest
<1>16. ASSUME NEW w \in Workers, Copy(w) PROVE LogsOwn
  BY <1>16, CopyFrame, <1>1, <1>2 DEF LogsOwn, Rest
<1>17. ASSUME NEW w \in Workers, Swap(w) PROVE LogsOwn
  BY <1>17, SwapFrame, <1>1, <1>2 DEF LogsOwn, Rest
<1>18. ASSUME NEW w \in Workers, Refuse(w) PROVE LogsOwn
  BY <1>18, RefuseDoes, <1>1, <1>2 DEF LogsOwn, Rest
<1>19. ASSUME NEW w \in Workers, Release(w) PROVE LogsOwn
  BY <1>19, ReleaseDoes, <1>1, <1>2 DEF LogsOwn, Rest
<1>20. ASSUME NEW r \in Readers, Begin(r) PROVE LogsOwn
  BY <1>20, BeginDoes, <1>1, <1>2 DEF LogsOwn
<1>21. ASSUME NEW r \in Readers, Finish(r) PROVE LogsOwn
  BY <1>21, FinishDoes, <1>1, <1>2 DEF LogsOwn
<1>22. ASSUME CollectStart PROVE LogsOwn
  BY <1>22, CollectStartDoes, <1>1, <1>2, CompactionAssumption DEF LogsOwn
<1>23. ASSUME CollectLock PROVE LogsOwn
  BY <1>23, CollectLockDoes, <1>1, <1>2 DEF LogsOwn
<1>24. ASSUME CollectRemove PROVE LogsOwn
  BY <1>24, CollectRemoveDoes, <1>1, <1>2 DEF LogsOwn
<1>25. ASSUME Crash PROVE LogsOwn
  BY <1>25, CrashDoes, <1>1, <1>2 DEF LogsOwn
<1>26. ASSUME Restart PROVE LogsOwn
  BY <1>26, RestartDoes, <1>1, <1>2, ColumnsAre DEF LogsOwn
<1>27. ASSUME Cleanup PROVE LogsOwn
  BY <1>27, CleanupDoes, <1>1, <1>2 DEF LogsOwn
<1>28. ASSUME UNCHANGED vars PROVE LogsOwn
  BY <1>28, <1>1, <1>2 DEF LogsOwn, vars, directory, server, log, counters
<1> QED
  BY <1>3, <1>4, <1>5, <1>6, <1>7, <1>8, <1>9, <1>10, <1>11, <1>12, <1>13, <1>14, <1>15,
    <1>16, <1>17, <1>18, <1>19, <1>20, <1>21, <1>22, <1>23, <1>24, <1>25, <1>26, <1>27,
    <1>28 DEF Next, Done

LEMMA LeftBy ==
  ASSUME Core, Next
  PROVE  LeavesOwn
<1>1. TypeOK /\ Flow /\ Running
  BY DEF Core
<1>2. /\ wal = NoOp <=> wal.kind = "none"
      /\ NoOp.kind = "none" /\ NoTable.gen = 0 /\ NoWork.pc = "idle"
  BY <1>1, OpIs, OpsAre, EntriesAre DEF TypeOK, LogOK, NoWork
<1>3. ASSUME NEW r \in Rows, Insert(r) \/ Delete(r) PROVE LeavesOwn
  BY <1>3, InsertDoes, <1>1, <1>2 DEF LeavesOwn, Rest
<1>4. ASSUME CreateTable PROVE LeavesOwn
  BY <1>4, CreateTableDoes, <1>1, <1>2 DEF LeavesOwn, Rest
<1>5. ASSUME DropTable PROVE LeavesOwn
  BY <1>5, DropTableDoes, <1>1, <1>2 DEF LeavesOwn, Rest
<1>6. ASSUME NEW c \in Columns, CreateIndex(c) \/ DropIndex(c) PROVE LeavesOwn
  BY <1>6, IndexDoes, <1>1, <1>2 DEF LeavesOwn, Rest
<1>7. ASSUME ApplyCreate PROVE LeavesOwn
  BY <1>7, ApplyCreateDoes, <1>1, <1>2 DEF LeavesOwn, Rest
<1>8. ASSUME ApplyDrop PROVE LeavesOwn
  <2>1. {"id"} \cup catalog.cols \in SUBSET Indexed /\ Prefix \in Int
    BY <1>1, PrefixInt, EntryIs, ColumnsAre DEF TypeOK, DirectoryOK
  <2>2. \A p \in left' : p[1] = Prefix
    BY <2>1, <1>8, ApplyDropDoes, PathsOf
  <2> QED
    BY <2>2, <1>8, ApplyDropDoes DEF Rest, LeavesOwn
<1>9. ASSUME ApplyCreateIndex PROVE LeavesOwn
  BY <1>9, ApplyCreateIndexDoes, <1>1, <1>2 DEF LeavesOwn, Rest
<1>10. ASSUME ApplyDropIndex PROVE LeavesOwn
  <2>1. \A p \in left' : p[1] = Prefix
    BY <1>1, <1>10, ApplyDropIndexDoes, PrefixInt, PathParts
  <2> QED
    BY <1>1, <2>1, <1>10, ApplyDropIndexDoes DEF Rest, LeavesOwn
<1>11. ASSUME ApplyMigrate PROVE LeavesOwn
  BY <1>11, ApplyMigrateDoes, <1>1, <1>2 DEF LeavesOwn, Rest
<1>12. ASSUME SaveCatalog PROVE LeavesOwn
  BY <1>12, SaveCatalogDoes, <1>1, <1>2 DEF LeavesOwn, Rest
<1>13. ASSUME RemoveFile PROVE LeavesOwn
  BY <1>13, RemoveFileDoes, <1>1, <1>2 DEF LeavesOwn, Rest
<1>14. ASSUME Publish PROVE LeavesOwn
  BY <1>14, PublishDoes, <1>1, <1>2 DEF LeavesOwn
<1>15. ASSUME NEW w \in Workers, Start(w) PROVE LeavesOwn
  BY <1>15, StartDoes, <1>1, <1>2 DEF LeavesOwn, Rest
<1>16. ASSUME NEW w \in Workers, Copy(w) PROVE LeavesOwn
  BY <1>16, CopyFrame, <1>1, <1>2 DEF LeavesOwn, Rest
<1>17. ASSUME NEW w \in Workers, Swap(w) PROVE LeavesOwn
  BY <1>17, SwapFrame, <1>1, <1>2 DEF LeavesOwn, Rest
<1>18. ASSUME NEW w \in Workers, Refuse(w) PROVE LeavesOwn
  BY <1>18, RefuseDoes, <1>1, <1>2 DEF LeavesOwn, Rest
<1>19. ASSUME NEW w \in Workers, Release(w) PROVE LeavesOwn
  BY <1>19, ReleaseDoes, <1>1, <1>2 DEF LeavesOwn, Rest
<1>20. ASSUME NEW r \in Readers, Begin(r) PROVE LeavesOwn
  BY <1>20, BeginDoes, <1>1, <1>2 DEF LeavesOwn
<1>21. ASSUME NEW r \in Readers, Finish(r) PROVE LeavesOwn
  BY <1>21, FinishDoes, <1>1, <1>2 DEF LeavesOwn
<1>22. ASSUME CollectStart PROVE LeavesOwn
  BY <1>22, CollectStartDoes, <1>1, <1>2, CompactionAssumption DEF LeavesOwn
<1>23. ASSUME CollectLock PROVE LeavesOwn
  BY <1>23, CollectLockDoes, <1>1, <1>2 DEF LeavesOwn
<1>24. ASSUME CollectRemove PROVE LeavesOwn
  BY <1>24, CollectRemoveDoes, <1>1, <1>2 DEF LeavesOwn
<1>25. ASSUME Crash PROVE LeavesOwn
  BY <1>25, CrashDoes, <1>1, <1>2 DEF LeavesOwn
<1>26. ASSUME Restart PROVE LeavesOwn
  BY <1>26, RestartDoes, <1>1, <1>2, ColumnsAre DEF LeavesOwn
<1>27. ASSUME Cleanup PROVE LeavesOwn
  BY <1>27, CleanupDoes, <1>1, <1>2 DEF LeavesOwn
<1>28. ASSUME UNCHANGED vars PROVE LeavesOwn
  BY <1>28, <1>1, <1>2 DEF LeavesOwn, vars, directory, server, log, counters
<1> QED
  BY <1>3, <1>4, <1>5, <1>6, <1>7, <1>8, <1>9, <1>10, <1>11, <1>12, <1>13, <1>14, <1>15,
    <1>16, <1>17, <1>18, <1>19, <1>20, <1>21, <1>22, <1>23, <1>24, <1>25, <1>26, <1>27,
    <1>28 DEF Next, Done

\* A compaction goes on with its target, and the shadow is there after the copy.
Goes(v) ==
    /\ Claims(v) /\ workers'[v].target = workers[v].target
    /\ workers'[v].pc # "logged" => workers[v].pc # "logged"
    /\ workers'[v].pc # "copy" =>
          workers[v].pc # "copy" \/ Db(workers[v].target) \in DOMAIN files'

\* A compaction starts with a new target.
Comes(v) ==
    /\ workers'[v].pc = "copy" /\ workers'[v].target = copies + 1 /\ copies' = copies + 1
    /\ wal.kind = "none" /\ step = "none" /\ Others(v)
    /\ UNCHANGED <<catalog, wal, step, left, retired>>

Claimed == \A v \in Workers : Claims(v)' => Goes(v) \/ Comes(v)

LEMMA ClaimedBy ==
  ASSUME Core, Next
  PROVE  Claimed
<1>1. TypeOK /\ Flow /\ Running
  BY DEF Core
<1>2. /\ wal = NoOp <=> wal.kind = "none"
      /\ NoOp.kind = "none" /\ NoTable.gen = 0 /\ NoWork.pc = "idle"
  BY <1>1, OpIs, OpsAre, EntriesAre DEF TypeOK, LogOK, NoWork
<1>3. ASSUME NEW r \in Rows, Insert(r) \/ Delete(r) PROVE Claimed
  BY <1>3, InsertDoes, <1>1, <1>2 DEF Claimed, Claims, Goes, Rest
<1>4. ASSUME CreateTable PROVE Claimed
  BY <1>4, CreateTableDoes, <1>1, <1>2 DEF Claimed, Claims, Goes, Rest
<1>5. ASSUME DropTable PROVE Claimed
  BY <1>5, DropTableDoes, <1>1, <1>2 DEF Claimed, Claims, Goes, Rest
<1>6. ASSUME NEW c \in Columns, CreateIndex(c) \/ DropIndex(c) PROVE Claimed
  BY <1>6, IndexDoes, <1>1, <1>2 DEF Claimed, Claims, Goes, Rest
<1>7. ASSUME ApplyCreate PROVE Claimed
  BY <1>7, ApplyCreateDoes, <1>1, <1>2 DEF Claimed, Claims, Goes, Rest
<1>8. ASSUME ApplyDrop PROVE Claimed
  BY <1>8, ApplyDropDoes, <1>1, <1>2 DEF Claimed, Claims, Goes, Rest
<1>9. ASSUME ApplyCreateIndex PROVE Claimed
  BY <1>9, ApplyCreateIndexDoes, <1>1, <1>2 DEF Claimed, Claims, Goes, Rest
<1>10. ASSUME ApplyDropIndex PROVE Claimed
  BY <1>10, ApplyDropIndexDoes, <1>1, <1>2 DEF Claimed, Claims, Goes, Rest
<1>11. ASSUME ApplyMigrate PROVE Claimed
  BY <1>11, ApplyMigrateDoes, <1>1, <1>2 DEF Claimed, Claims, Goes, Rest
<1>12. ASSUME SaveCatalog PROVE Claimed
  BY <1>12, SaveCatalogDoes, <1>1, <1>2 DEF Claimed, Claims, Goes, Rest
<1>13. ASSUME RemoveFile PROVE Claimed
  BY <1>13, RemoveFileDoes, <1>1, <1>2 DEF Claimed, Claims, Goes, Rest
<1>14. ASSUME Publish PROVE Claimed
  <2>1. CASE wal.kind = "migrate" /\ mode = "up"
    <3>1. wal.by \in Workers /\ Further(wal.by, "done")
      BY <1>1, <1>14, <2>1, PublishDoes
    <3>2. workers'[wal.by].pc = "done" /\ Others(wal.by)
      BY <3>1, FurtherFields
    <3> QED
      BY <3>1, <3>2 DEF Claimed, Claims, Goes, Others
  <2>2. CASE ~ (wal.kind = "migrate" /\ mode = "up")
    <3>1. UNCHANGED workers
      BY <1>1, <1>14, <2>2, PublishDoes
    <3> QED
      BY <3>1 DEF Claimed, Claims, Goes
  <2> QED
    BY <2>1, <2>2
<1>15. ASSUME NEW w \in Workers, Start(w) PROVE Claimed
  <2>1. /\ workers'[w].pc = "copy" /\ workers'[w].target = copies + 1
        /\ copies' = copies + 1 /\ Others(w)
    BY <1>1, <1>15, StartDoes
  <2>2. wal.kind = "none" /\ UNCHANGED <<catalog, wal, step, left, retired>>
    BY <1>1, <1>2, <1>15, StartDoes DEF Rest
  <2>3. step = "none"
    BY <1>1, <2>2 DEF Flow
  <2>4. Comes(w)
    BY <2>1, <2>2, <2>3 DEF Comes
  <2> QED
    BY <2>1, <2>4 DEF Claimed, Claims, Goes, Others
<1>16. ASSUME NEW w \in Workers, Copy(w) PROVE Claimed
  <2>1. /\ workers'[w].pc = "swap" /\ workers'[w].target = workers[w].target /\ Others(w)
    BY <1>1, <1>16, CopyFields
  <2>2. workers[w].pc = "copy"
    BY <1>1, <1>16, CopyFrame
  <2>3. Db(workers[w].target) \in DOMAIN files'
    BY <1>1, <1>16, CopyFrame DEF Paths
  <2> QED
    BY <2>1, <2>2, <2>3 DEF Claimed, Claims, Goes, Others
<1>17. ASSUME NEW w \in Workers, Swap(w) PROVE Claimed
  <2>1. /\ workers'[w].pc = "logged" /\ workers'[w].target = workers[w].target /\ Others(w)
    BY <1>1, <1>17, SwapFields
  <2>2. workers[w].pc = "swap"
    BY <1>1, <1>17, SwapFrame
  <2> QED
    BY <2>1, <2>2 DEF Claimed, Claims, Goes, Others
<1>18. ASSUME NEW w \in Workers, Refuse(w) PROVE Claimed
  <2>1. workers'[w].pc \notin {"copy", "swap", "logged"} /\ Others(w)
    <3>1. Further(w, "failed")
      BY <1>1, <1>18, RefuseDoes
    <3> QED
      BY <3>1, FurtherFields
  <2> QED
    BY <2>1 DEF Claimed, Claims, Goes, Others
<1>19. ASSUME NEW w \in Workers, Release(w) PROVE Claimed
  <2>1. workers'[w].pc \notin {"copy", "swap", "logged"} /\ Others(w)
    BY <1>1, <1>2, <1>19, ReleaseDoes
  <2> QED
    BY <2>1 DEF Claimed, Claims, Goes, Others
<1>20. ASSUME NEW r \in Readers, Begin(r) PROVE Claimed
  BY <1>20, BeginDoes, <1>1, <1>2 DEF Claimed, Claims, Goes
<1>21. ASSUME NEW r \in Readers, Finish(r) PROVE Claimed
  BY <1>21, FinishDoes, <1>1, <1>2 DEF Claimed, Claims, Goes
<1>22. ASSUME CollectStart PROVE Claimed
  BY <1>22, CollectStartDoes, <1>1, <1>2, CompactionAssumption DEF Claimed, Claims, Goes
<1>23. ASSUME CollectLock PROVE Claimed
  BY <1>23, CollectLockDoes, <1>1, <1>2 DEF Claimed, Claims, Goes
<1>24. ASSUME CollectRemove PROVE Claimed
  BY <1>24, CollectRemoveDoes, <1>1, <1>2 DEF Claimed, Claims, Goes
<1>25. ASSUME Crash PROVE Claimed
  BY <1>25, CrashDoes, <1>1, <1>2 DEF Claimed, Claims, Goes
<1>26. ASSUME Restart PROVE Claimed
  BY <1>26, RestartDoes, <1>1, <1>2, ColumnsAre DEF Claimed, Claims, Goes
<1>27. ASSUME Cleanup PROVE Claimed
  BY <1>27, CleanupDoes, <1>1, <1>2 DEF Claimed, Claims, Goes
<1>28. ASSUME UNCHANGED vars PROVE Claimed
  BY <1>28, <1>1, <1>2 DEF Claimed, Claims, Goes, vars, directory, server, log, counters
<1> QED
  BY <1>3, <1>4, <1>5, <1>6, <1>7, <1>8, <1>9, <1>10, <1>11, <1>12, <1>13, <1>14, <1>15,
    <1>16, <1>17, <1>18, <1>19, <1>20, <1>21, <1>22, <1>23, <1>24, <1>25, <1>26, <1>27,
    <1>28 DEF Next, Done

LEMMA BoundsStep ==
  ASSUME Core, Next
  PROVE  Bounds'
<1>1. ASSUME NEW v \in Workers, Claims(v)' PROVE workers'[v].target \in 1 .. copies'
  <2>1. copies \in Nat /\ copies' \in Nat /\ copies <= copies'
    BY CountersStep DEF Core, TypeOK, CountersOK, Grows
  <2>2. CASE Goes(v)
    BY <2>1, <2>2 DEF Goes, Core, Bounds, NamedTargets
  <2>3. CASE Comes(v)
    BY <2>1, <2>3 DEF Comes
  <2> QED
    BY <1>1, <2>2, <2>3, ClaimedBy DEF Claimed
<1> QED
  BY <1>1, NamedTableStep, NamedDeadStep DEF Bounds, NamedTargets, Claims

\* The generation of a running table, and the files its removal names.
LEMMA PrefixIs ==
  ASSUME Core, mode = "up", wal.kind \in {"drop", "unindex"}, step = "apply"
  PROVE  Exists /\ Prefix = catalog.gen
BY DEF Core, Flow, Prefix

LEMMA FreshStep ==
  ASSUME Core, Next
  PROVE  Fresh'
<1>1. /\ TypeOK /\ Flow /\ Running /\ Bounds /\ Fresh /\ copies \in Nat
      /\ wal.kind = "migrate" => wal.by \in Workers
  BY OpIs DEF Core, TypeOK, CountersOK, LogOK
<1>2. \A v \in Workers : Claims(v) => mode = "up" /\ workers[v].target \in 1 .. copies
  BY <1>1 DEF Running, Claims, NoWork, Bounds, NamedTargets
<1>3. ASSUME NEW w \in Workers, Claims(w)' PROVE ~ Dead(workers[w].target)'
  <2>1. SUFFICES ASSUME NEW e \in retired', NEW p \in e.paths, p[1] = workers'[w].target
                 PROVE  FALSE
    BY DEF Dead
  <2>2. CASE Goes(w)
    <3>1. e \notin retired
      BY <1>1, <2>1, <2>2 DEF Goes, Fresh, Dead
    <3>2. Retires(e)
      BY <3>1, RetiredBy
    <3>3. wal.kind = "migrate" /\ p[1] = wal.source
      BY <1>1, <3>2 DEF Retires, Running
    <3> QED
      BY <1>1, <2>1, <2>2, <3>3 DEF Goes, Fresh
  <2>3. CASE Comes(w)
    <3>1. e \in retired /\ p[1] = copies + 1
      BY <2>1, <2>3 DEF Comes
    <3>2. Named(p[1], objects, copies)
      BY <1>1, <3>1 DEF Bounds, NamedDead
    <3> QED
      BY <1>1, <3>1, <3>2 DEF Named
  <2> QED
    BY <1>3, <2>2, <2>3, ClaimedBy DEF Claimed
<1>4. ASSUME NEW w \in Workers, NEW v \in Workers, Claims(w)', Claims(v)',
             workers'[v].target = workers'[w].target
      PROVE  v = w
  <2>1. CASE Goes(w) /\ Goes(v)
    BY <1>1, <1>4, <2>1 DEF Goes, Fresh
  <2>2. ASSUME NEW a \in Workers, NEW b \in Workers, Comes(a), Claims(b)', a # b
        PROVE  workers'[b].target # workers'[a].target
    <3>1. Claims(b) /\ workers'[b] = workers[b]
      BY <2>2 DEF Comes, Others, Claims
    <3>2. workers'[a].target = copies + 1
      BY <2>2 DEF Comes
    <3> QED
      BY <1>1, <1>2, <3>1, <3>2
  <2> QED
    BY <1>4, <2>1, <2>2, ClaimedBy DEF Claimed
<1>5. ASSUME NEW w \in Workers, Claims(w)', workers'[w].pc # "logged"
      PROVE  workers'[w].target # catalog'.gen
  <2>1. CASE Goes(w)
    <3>1. /\ workers[w].pc # "logged" /\ workers[w].target # catalog.gen
          /\ workers[w].target \in 1 .. copies /\ mode = "up"
          /\ workers'[w].target = workers[w].target
      BY <1>1, <1>2, <1>5, <2>1 DEF Goes, Fresh
    <3>2. CASE wal.kind = "migrate" /\ catalog'.gen = wal.target
      <4>1. wal.by \in Workers /\ workers[wal.by].pc = "logged"
        BY <1>1, <3>1, <3>2 DEF Running
      <4>2. workers[wal.by].target = wal.target /\ Claims(wal.by)
        BY <1>1, <3>1, <3>2, <4>1 DEF Running, Claims
      <4> QED
        BY <1>1, <2>1, <3>1, <3>2, <4>1, <4>2 DEF Goes, Fresh
    <3>3. CASE catalog'.gen <= 0
      BY <3>1, <3>3
    <3> QED
      BY <3>1, <3>2, <3>3, GenerationBy DEF GenerationMoves
  <2>2. CASE Comes(w)
    <3>1. workers'[w].target = copies + 1 /\ catalog' = catalog
      BY <2>2 DEF Comes
    <3>2. Named(catalog.gen, objects, copies)
      BY <1>1 DEF Bounds, NamedTable
    <3> QED
      BY <1>1, <3>1, <3>2 DEF Named
  <2> QED
    BY <1>5, <2>1, <2>2, ClaimedBy DEF Claimed
<1>6. ASSUME NEW w \in Workers, Claims(w)', wal'.kind = "migrate"
      PROVE  workers'[w].target # wal'.source
  <2>1. CASE Goes(w)
    <3>1. CASE wal' = wal
      BY <1>1, <1>6, <2>1, <3>1 DEF Goes, Fresh
    <3>2. CASE wal.kind = "none" /\ wal'.source = catalog.gen
      <4>1. workers[w].pc # "logged"
        BY <1>1, <3>2 DEF Running
      <4> QED
        BY <1>1, <2>1, <3>2, <4>1 DEF Goes, Fresh
    <3> QED
      BY <1>6, <3>1, <3>2, LoggedBy DEF LogsOwn
  <2>2. CASE Comes(w)
    BY <1>6, <2>2 DEF Comes
  <2> QED
    BY <1>6, <2>1, <2>2, ClaimedBy DEF Claimed
<1>7. ASSUME NEW w \in Workers, Claims(w)', NEW p \in left'
      PROVE  p[1] # workers'[w].target
  <2>1. CASE Goes(w)
    <3>1. CASE p \in left
      BY <1>1, <2>1, <3>1 DEF Goes, Fresh
    <3>2. CASE /\ p[1] = Prefix /\ step = "apply" /\ wal.kind \in {"drop", "unindex"}
      <4>1. mode = "up"
        BY <1>2, <2>1 DEF Goes
      <4>2. Prefix = catalog.gen
        BY <3>2, <4>1, PrefixIs
      <4>3. workers[w].pc # "logged"
        BY <1>1, <3>2 DEF Running
      <4> QED
        BY <1>1, <2>1, <3>2, <4>2, <4>3 DEF Goes, Fresh
    <3> QED
      BY <1>7, <3>1, <3>2, LeftBy DEF LeavesOwn
  <2>2. CASE Comes(w)
    BY <1>1, <1>7, <2>2 DEF Comes, Flow
  <2> QED
    BY <1>7, <2>1, <2>2, ClaimedBy DEF Claimed
<1>8. ASSUME NEW w \in Workers, Claims(w)', workers'[w].pc # "copy"
      PROVE  Db(workers'[w].target) \in DOMAIN files'
  <2>1. Goes(w)
    BY <1>8, ClaimedBy DEF Claimed, Comes
  <2>2. CASE Db(workers[w].target) \in DOMAIN files'
    BY <2>1, <2>2 DEF Goes
  <2>3. CASE workers[w].pc # "copy"
    <3> DEFINE p == Db(workers[w].target)
    <3>1. /\ p \in DOMAIN files /\ mode = "up" /\ workers[w].target \in 1 .. copies
          /\ ~ Dead(workers[w].target) /\ \A q \in left : q[1] # workers[w].target
      BY <1>1, <1>2, <2>1, <2>3 DEF Goes, Fresh
    <3>2. p[1] = workers[w].target
      BY <3>1, PathParts
    <3> HIDE DEF p
    <3>3. ~ Removes(p)
      BY <3>1, <3>2 DEF Removes, Dead
    <3>4. p \in DOMAIN files'
      BY <3>1, <3>3, RemovedBy
    <3> QED
      BY <2>1, <3>4 DEF p, Goes
  <2> QED
    BY <1>8, <2>1, <2>2, <2>3 DEF Goes
<1> QED
  BY <1>3, <1>4, <1>5, <1>6, <1>7, <1>8 DEF Fresh, Claims

\* While a change of generation is logged, the catalog changes only to its target.
MigratesOwn ==
    wal'.kind = "migrate" =>
        \/ wal' = wal /\ catalog' = catalog /\ (step' = "publish" => step = "publish")
        \/ wal' = wal /\ catalog'.id = catalog.id /\ catalog'.gen = wal.target
        \/ /\ wal'.id = catalog.id /\ wal'.source = catalog.gen /\ catalog' = catalog
           /\ step' = "apply" /\ Db(wal'.target) \in DOMAIN files'

LEMMA MigratesBy ==
  ASSUME Core, Next
  PROVE  MigratesOwn
<1>1. TypeOK /\ Flow /\ Running
  BY DEF Core
<1>2. /\ wal = NoOp <=> wal.kind = "none"
      /\ NoOp.kind = "none"
  BY <1>1, OpIs, OpsAre DEF TypeOK, LogOK
<1>3. ASSUME NEW r \in Rows, Insert(r) \/ Delete(r) PROVE MigratesOwn
  BY <1>3, InsertDoes, <1>1, <1>2 DEF MigratesOwn, Rest
<1>4. ASSUME CreateTable PROVE MigratesOwn
  BY <1>4, CreateTableDoes, <1>1, <1>2 DEF MigratesOwn, Rest
<1>5. ASSUME DropTable PROVE MigratesOwn
  BY <1>5, DropTableDoes, <1>1, <1>2 DEF MigratesOwn, Rest
<1>6. ASSUME NEW c \in Columns, CreateIndex(c) \/ DropIndex(c) PROVE MigratesOwn
  BY <1>6, IndexDoes, <1>1, <1>2 DEF MigratesOwn, Rest
<1>7. ASSUME ApplyCreate PROVE MigratesOwn
  BY <1>7, ApplyCreateDoes, <1>1, <1>2 DEF MigratesOwn, Rest
<1>8. ASSUME ApplyDrop PROVE MigratesOwn
  BY <1>8, ApplyDropDoes, <1>1, <1>2 DEF MigratesOwn, Rest
<1>9. ASSUME ApplyCreateIndex PROVE MigratesOwn
  BY <1>9, ApplyCreateIndexDoes, <1>1, <1>2 DEF MigratesOwn, Rest
<1>10. ASSUME ApplyDropIndex PROVE MigratesOwn
  BY <1>10, ApplyDropIndexDoes, <1>1, <1>2 DEF MigratesOwn, Rest
<1>11. ASSUME ApplyMigrate PROVE MigratesOwn
  BY <1>11, ApplyMigrateDoes, <1>1, <1>2 DEF MigratesOwn, Rest
<1>12. ASSUME SaveCatalog PROVE MigratesOwn
  BY <1>12, SaveCatalogDoes, <1>1, <1>2 DEF MigratesOwn, Rest, Flow
<1>13. ASSUME RemoveFile PROVE MigratesOwn
  BY <1>13, RemoveFileDoes, <1>1, <1>2 DEF MigratesOwn, Rest, Flow
<1>14. ASSUME Publish PROVE MigratesOwn
  BY <1>14, PublishDoes, <1>1, <1>2 DEF MigratesOwn
<1>15. ASSUME NEW w \in Workers, Start(w) PROVE MigratesOwn
  <2>1. wal' = wal /\ wal = NoOp
    BY <1>1, <1>15, StartDoes
  <2> QED
    BY <1>2, <2>1 DEF MigratesOwn
<1>16. ASSUME NEW w \in Workers, Copy(w) PROVE MigratesOwn
  <2>1. UNCHANGED <<wal, catalog, step>>
    BY <1>1, <1>16, CopyFrame
  <2> QED
    BY <2>1 DEF MigratesOwn
<1>17. ASSUME NEW w \in Workers, Swap(w) PROVE MigratesOwn
  <2>1. /\ wal'.id = catalog.id /\ wal'.source = catalog.gen /\ catalog' = catalog
        /\ step' = "apply" /\ wal'.target = workers[w].target
        /\ DOMAIN files' = DOMAIN files /\ workers[w].pc = "swap"
    BY <1>1, <1>17, SwapFrame DEF Rest
  <2>2. Db(workers[w].target) \in DOMAIN files
    BY <2>1 DEF Core, Fresh, Claims
  <2> QED
    BY <2>1, <2>2 DEF MigratesOwn
<1>18. ASSUME NEW w \in Workers, Refuse(w) PROVE MigratesOwn
  BY <1>18, RefuseDoes, <1>1, <1>2 DEF MigratesOwn, Rest
<1>19. ASSUME NEW w \in Workers, Release(w) PROVE MigratesOwn
  BY <1>19, ReleaseDoes, <1>1, <1>2 DEF MigratesOwn, Rest
<1>20. ASSUME NEW r \in Readers, Begin(r) PROVE MigratesOwn
  BY <1>20, BeginDoes, <1>1, <1>2 DEF MigratesOwn
<1>21. ASSUME NEW r \in Readers, Finish(r) PROVE MigratesOwn
  BY <1>21, FinishDoes, <1>1, <1>2 DEF MigratesOwn
<1>22. ASSUME CollectStart PROVE MigratesOwn
  BY <1>22, CollectStartDoes, <1>1, <1>2, CompactionAssumption DEF MigratesOwn
<1>23. ASSUME CollectLock PROVE MigratesOwn
  BY <1>23, CollectLockDoes, <1>1, <1>2 DEF MigratesOwn
<1>24. ASSUME CollectRemove PROVE MigratesOwn
  BY <1>24, CollectRemoveDoes, <1>1, <1>2 DEF MigratesOwn
<1>25. ASSUME Crash PROVE MigratesOwn
  BY <1>25, CrashDoes, <1>1, <1>2 DEF MigratesOwn
<1>26. ASSUME Restart PROVE MigratesOwn
  BY <1>26, RestartDoes, <1>1, <1>2, ColumnsAre DEF MigratesOwn
<1>27. ASSUME Cleanup PROVE MigratesOwn
  BY <1>27, CleanupDoes, <1>1, <1>2 DEF MigratesOwn
<1>28. ASSUME UNCHANGED vars PROVE MigratesOwn
  BY <1>28, <1>1, <1>2 DEF MigratesOwn, vars, directory, server, log, counters
<1> QED
  BY <1>3, <1>4, <1>5, <1>6, <1>7, <1>8, <1>9, <1>10, <1>11, <1>12, <1>13, <1>14, <1>15,
    <1>16, <1>17, <1>18, <1>19, <1>20, <1>21, <1>22, <1>23, <1>24, <1>25, <1>26, <1>27,
    <1>28 DEF Next, Done

LEMMA MigrateStep ==
  ASSUME Core, Next
  PROVE  MigrateOK'
<1>1. SUFFICES ASSUME wal'.kind = "migrate"
               PROVE  /\ Db(wal'.target) \in DOMAIN files'
                      /\ catalog'.id = wal'.id /\ catalog'.gen \in {wal'.source, wal'.target}
                      /\ step' = "publish" => catalog'.gen = wal'.target
  BY DEF MigrateOK, TargetThere, Db
<1>2. /\ TypeOK /\ Flow /\ Running /\ Fresh /\ MigrateOK
      /\ wal.kind = "migrate" => wal.by \in Workers /\ wal.target \in Nat
  BY OpIs DEF Core, TypeOK, LogOK
<1>3. CASE wal' = wal
  <2> DEFINE p == Db(wal.target)
  <2>1. /\ p \in DOMAIN files /\ catalog.id = wal.id /\ left = {}
        /\ catalog.gen \in {wal.source, wal.target}
        /\ step = "publish" => catalog.gen = wal.target
    BY <1>1, <1>2, <1>3 DEF MigrateOK, TargetThere, Flow
  <2>2. p[1] = wal.target /\ p[2] = "db"
    BY <1>1, <1>2, <1>3, PathParts
  <2>3. mode = "up" => ~ Dead(wal.target)
    BY <1>1, <1>2, <1>3 DEF Running, Fresh, Claims
  <2> HIDE DEF p
  <2>4. ~ Removes(p)
    BY <1>1, <1>3, <2>1, <2>2, <2>3 DEF Removes, Dead
  <2>5. p \in DOMAIN files'
    BY <2>1, <2>4, RemovedBy
  <2>6. Db(wal'.target) \in DOMAIN files'
    BY <1>3, <2>5 DEF p
  <2>7. /\ catalog'.id = wal'.id /\ catalog'.gen \in {wal'.source, wal'.target}
        /\ step' = "publish" => catalog'.gen = wal'.target
    BY <1>1, <1>3, <2>1, MigratesBy DEF MigratesOwn
  <2> QED
    BY <2>6, <2>7
<1>4. CASE wal' # wal
  BY <1>1, <1>4, MigratesBy DEF MigratesOwn
<1> QED
  BY <1>3, <1>4

\* Core holds at first, and every step keeps it.
LEMMA CoreInit == Init => Core
<1> SUFFICES ASSUME Init PROVE Core
  OBVIOUS
<1>1. TypeOK
  <2>1. /\ catalog = [id |-> 1, gen |-> 0, cols |-> {"id"}]
        /\ gens = 0 /\ DOMAIN files = Paths(0, {"id"})
    BY DEF Init, Plain
  <2>2. DirectoryOK
    <3>1. {"id"} \in SUBSET Indexed
      BY ColumnsAre
    <3>2. DOMAIN files \subseteq FilePaths
      BY <2>1, <3>1, PathsOf
    <3>3. catalog \in Entries
      BY <2>1, EntriesAre
    <3> QED
      BY <2>1, <3>2, <3>3 DEF DirectoryOK
  <2>3. LogOK
    BY OpsAre DEF Init, LogOK
  <2>4. CountersOK /\ ReadersOK
    BY CompactionAssumption DEF Init, CountersOK, ReadersOK
  <2>5. WorkersOK
    BY DEF Init, WorkersOK, WorkOK
  <2>6. RetiredOK
    BY DEF Init, RetiredOK, NoCollect, Collections
  <2>7. torn \in BOOLEAN
    BY DEF Init
  <2> QED
    BY <2>2, <2>3, <2>4, <2>5, <2>6, <2>7 DEF TypeOK
<1>2. /\ wal.kind = "none" /\ \A w \in Workers : workers[w].pc = "idle"
      /\ catalog.gen = 0 /\ gens = 0 /\ left = {} /\ retired = {} /\ step = "none"
      /\ mode = "up" /\ copies = 0 /\ objects = 1
  BY OpsAre DEF Init, NoWork, Plain
<1>3. Flow
  BY <1>2 DEF Flow, Unknown
<1>4. Running
  BY <1>2 DEF Running
<1>5. Bounds
  BY <1>2 DEF Bounds, NamedTable, NamedDead, NamedTargets, Named, Claims
<1>6. Fresh /\ MigrateOK
  BY <1>2 DEF Fresh, MigrateOK, TargetThere, Claims
<1> QED
  BY <1>1, <1>3, <1>4, <1>5, <1>6 DEF Core

LEMMA CoreStutters == Core /\ UNCHANGED vars => Core'
BY DEF Core, TypeOK, DirectoryOK, LogOK, CountersOK, ReadersOK, WorkersOK, WorkOK, RetiredOK,
       Flow, Exists, Running, Bounds, NamedTable, NamedDead, NamedTargets, Fresh, Claims, Dead,
       MigrateOK, TargetThere, vars, directory, server, log, counters

LEMMA CoreHolds == Spec => []Core
<1>1. Core /\ [Next]_vars => Core'
  BY TypeStep, FlowStep, RunningStep, BoundsStep, FreshStep, MigrateStep, CoreStutters DEF Core
<1> QED
  BY CoreInit, <1>1, PTL DEF Spec

\* The types of Compaction hold, for any number of compactions, tables and
\* crashes, and whatever comes between the steps of collect_retired().
THEOREM TypeCorrect == Spec => []TypeOK
<1>1. Core => TypeOK
  BY DEF Core
<1> QED
  BY CoreHolds, <1>1, PTL

\* A logged change of generation finds its target at every restart, for any
\* number of compactions, tables, readers and crashes and whatever comes between
\* the steps of collect_retired(): recover_wal() is never stuck on
\* "migration target missing".
THEOREM TargetStays == Spec => []TargetThere
<1>1. Core => TargetThere
  BY DEF Core, MigrateOK
<1> QED
  BY CoreHolds, <1>1, PTL

(***************************************************************************)
(* How a step may change the parts the invariant speaks of.                *)
(***************************************************************************)

\* Where the generation of a table that exists comes from.
TableMoves ==
    Exists' =>
        \/ Exists /\ catalog'.gen = catalog.gen
        \/ wal.kind = "create" /\ step = "save" /\ catalog'.gen = gens
        \/ wal.kind = "migrate" /\ wal' = wal /\ catalog'.gen = wal.target

\* How a table that is created gets its generation.
CreatesOwn ==
    wal'.kind = "create" /\ step' = "save" =>
        \/ wal.kind = "create" /\ step = "save" /\ gens' = gens
        \/ /\ wal.kind = "create" /\ step = "apply" /\ torn' = (torn \/ Halfway)
           /\ gens' = IF Db(Plain) \in DOMAIN files THEN ObjectGen(wal.id) ELSE Plain
           /\ Db(gens') \in DOMAIN files'

\* The service is up after a recovery, with the table's files in place.
ModeMoves ==
    mode' = "up" =>
        \/ mode = "up"
        \/ /\ wal'.kind = "none" /\ retired' = {} /\ step' = "none"
           /\ Exists' => Db(catalog'.gen) \in DOMAIN files'

LEMMA TableBy ==
  ASSUME Core, Next
  PROVE  TableMoves
<1>1. TypeOK /\ Flow /\ Running
  BY DEF Core
<1>2. /\ wal = NoOp <=> wal.kind = "none"
      /\ NoOp.kind = "none" /\ NoTable.id = 0 /\ NoWork.pc = "idle"
      /\ NoCollect.oldest = -1 /\ NoCollect.pc = "idle"
  BY <1>1, OpIs, OpsAre, EntriesAre DEF TypeOK, LogOK, NoWork, NoCollect
<1>3. (Exists <=> catalog.id # 0) /\ (Exists' <=> catalog'.id # 0)
  BY <1>1, TypeStep, EntryIs DEF TypeOK, DirectoryOK, Exists
<1>4. ASSUME NEW r \in Rows, Insert(r) \/ Delete(r) PROVE TableMoves
  BY <1>4, InsertDoes, <1>1, <1>2, <1>3 DEF TableMoves, Rest
<1>5. ASSUME CreateTable PROVE TableMoves
  BY <1>5, CreateTableDoes, <1>1, <1>2, <1>3 DEF TableMoves, Rest
<1>6. ASSUME DropTable PROVE TableMoves
  BY <1>6, DropTableDoes, <1>1, <1>2, <1>3 DEF TableMoves, Rest
<1>7. ASSUME NEW c \in Columns, CreateIndex(c) \/ DropIndex(c) PROVE TableMoves
  BY <1>7, IndexDoes, <1>1, <1>2, <1>3 DEF TableMoves, Rest
<1>8. ASSUME ApplyCreate PROVE TableMoves
  BY <1>8, ApplyCreateDoes, <1>1, <1>2, <1>3 DEF TableMoves, Rest
<1>9. ASSUME ApplyDrop PROVE TableMoves
  BY <1>9, ApplyDropDoes, <1>1, <1>2, <1>3 DEF TableMoves, Rest
<1>10. ASSUME ApplyCreateIndex PROVE TableMoves
  BY <1>10, ApplyCreateIndexDoes, <1>1, <1>2, <1>3 DEF TableMoves, Rest
<1>11. ASSUME ApplyDropIndex PROVE TableMoves
  BY <1>11, ApplyDropIndexDoes, <1>1, <1>2, <1>3 DEF TableMoves, Rest
<1>12. ASSUME ApplyMigrate PROVE TableMoves
  BY <1>12, ApplyMigrateDoes, <1>1, <1>2, <1>3 DEF TableMoves, Rest
<1>13. ASSUME SaveCatalog PROVE TableMoves
  BY <1>13, SaveCatalogDoes, <1>1, <1>2, <1>3 DEF TableMoves, Rest, Flow
<1>14. ASSUME RemoveFile PROVE TableMoves
  BY <1>14, RemoveFileDoes, <1>1, <1>2, <1>3 DEF TableMoves, Rest
<1>15. ASSUME Publish PROVE TableMoves
  BY <1>15, PublishDoes, <1>1, <1>2, <1>3 DEF TableMoves
<1>16. ASSUME NEW w \in Workers, Start(w) PROVE TableMoves
  <2>1. UNCHANGED catalog
    BY <1>1, <1>16, StartDoes
  <2> QED
    BY <2>1 DEF TableMoves, Exists
<1>17. ASSUME NEW w \in Workers, Copy(w) PROVE TableMoves
  <2>1. UNCHANGED catalog
    BY <1>1, <1>17, CopyFrame
  <2> QED
    BY <2>1 DEF TableMoves, Exists
<1>18. ASSUME NEW w \in Workers, Swap(w) PROVE TableMoves
  <2>1. UNCHANGED catalog
    BY <1>1, <1>18, SwapFrame
  <2> QED
    BY <2>1 DEF TableMoves, Exists
<1>19. ASSUME NEW w \in Workers, Refuse(w) PROVE TableMoves
  BY <1>19, RefuseDoes, <1>1, <1>2, <1>3 DEF TableMoves, Rest
<1>20. ASSUME NEW w \in Workers, Release(w) PROVE TableMoves
  BY <1>20, ReleaseDoes, <1>1, <1>2, <1>3 DEF TableMoves, Rest
<1>21. ASSUME NEW r \in Readers, Begin(r) PROVE TableMoves
  BY <1>21, BeginDoes, <1>1, <1>2, <1>3 DEF TableMoves
<1>22. ASSUME NEW r \in Readers, Finish(r) PROVE TableMoves
  BY <1>22, FinishDoes, <1>1, <1>2, <1>3 DEF TableMoves
<1>23. ASSUME CollectStart PROVE TableMoves
  BY <1>23, CollectStartDoes, <1>1, <1>2, <1>3, CompactionAssumption DEF TableMoves
<1>24. ASSUME CollectLock PROVE TableMoves
  BY <1>24, CollectLockDoes, <1>1, <1>2, <1>3 DEF TableMoves
<1>25. ASSUME CollectRemove PROVE TableMoves
  BY <1>25, CollectRemoveDoes, <1>1, <1>2, <1>3 DEF TableMoves
<1>26. ASSUME Crash PROVE TableMoves
  BY <1>26, CrashDoes, <1>1, <1>2, <1>3 DEF TableMoves
<1>27. ASSUME Restart PROVE TableMoves
  BY <1>27, RestartDoes, <1>1, <1>2, <1>3, ColumnsAre DEF TableMoves
<1>28. ASSUME Cleanup PROVE TableMoves
  BY <1>28, CleanupDoes, <1>1, <1>2, <1>3 DEF TableMoves
<1>29. ASSUME UNCHANGED vars PROVE TableMoves
  BY <1>29, <1>1, <1>2, <1>3 DEF TableMoves, vars, directory, server, log, counters
<1> QED
  BY <1>4, <1>5, <1>6, <1>7, <1>8, <1>9, <1>10, <1>11, <1>12, <1>13, <1>14, <1>15, <1>16,
    <1>17, <1>18, <1>19, <1>20, <1>21, <1>22, <1>23, <1>24, <1>25, <1>26, <1>27, <1>28,
    <1>29 DEF Next, Done

LEMMA CreatesBy ==
  ASSUME Core, Next
  PROVE  CreatesOwn
<1>1. TypeOK /\ Flow /\ Running
  BY DEF Core
<1>2. /\ wal = NoOp <=> wal.kind = "none"
      /\ NoOp.kind = "none" /\ NoTable.id = 0 /\ NoWork.pc = "idle"
      /\ NoCollect.oldest = -1 /\ NoCollect.pc = "idle"
  BY <1>1, OpIs, OpsAre, EntriesAre DEF TypeOK, LogOK, NoWork, NoCollect
<1>3. (Exists <=> catalog.id # 0) /\ (Exists' <=> catalog'.id # 0)
  BY <1>1, TypeStep, EntryIs DEF TypeOK, DirectoryOK, Exists
<1>4. ASSUME NEW r \in Rows, Insert(r) \/ Delete(r) PROVE CreatesOwn
  BY <1>4, InsertDoes, <1>1, <1>2, <1>3 DEF CreatesOwn, Rest
<1>5. ASSUME CreateTable PROVE CreatesOwn
  BY <1>5, CreateTableDoes, <1>1, <1>2, <1>3 DEF CreatesOwn, Rest
<1>6. ASSUME DropTable PROVE CreatesOwn
  BY <1>6, DropTableDoes, <1>1, <1>2, <1>3 DEF CreatesOwn, Rest
<1>7. ASSUME NEW c \in Columns, CreateIndex(c) \/ DropIndex(c) PROVE CreatesOwn
  BY <1>7, IndexDoes, <1>1, <1>2, <1>3 DEF CreatesOwn, Rest
<1>8. ASSUME ApplyCreate PROVE CreatesOwn
  <2>1. Db(gens') \in DOMAIN files'
    BY <1>1, <1>8, ApplyCreateDoes DEF Paths
  <2> QED
    BY <1>1, <2>1, <1>8, ApplyCreateDoes DEF CreatesOwn
<1>9. ASSUME ApplyDrop PROVE CreatesOwn
  BY <1>9, ApplyDropDoes, <1>1, <1>2, <1>3 DEF CreatesOwn, Rest
<1>10. ASSUME ApplyCreateIndex PROVE CreatesOwn
  BY <1>10, ApplyCreateIndexDoes, <1>1, <1>2, <1>3 DEF CreatesOwn, Rest
<1>11. ASSUME ApplyDropIndex PROVE CreatesOwn
  BY <1>11, ApplyDropIndexDoes, <1>1, <1>2, <1>3 DEF CreatesOwn, Rest
<1>12. ASSUME ApplyMigrate PROVE CreatesOwn
  BY <1>12, ApplyMigrateDoes, <1>1, <1>2, <1>3 DEF CreatesOwn, Rest
<1>13. ASSUME SaveCatalog PROVE CreatesOwn
  BY <1>13, SaveCatalogDoes, <1>1, <1>2, <1>3 DEF CreatesOwn, Rest
<1>14. ASSUME RemoveFile PROVE CreatesOwn
  BY <1>14, RemoveFileDoes, <1>1, <1>2, <1>3 DEF CreatesOwn, Rest
<1>15. ASSUME Publish PROVE CreatesOwn
  BY <1>15, PublishDoes, <1>1, <1>2, <1>3 DEF CreatesOwn
<1>16. ASSUME NEW w \in Workers, Start(w) PROVE CreatesOwn
  <2>1. UNCHANGED <<wal, step, gens>>
    BY <1>1, <1>16, StartDoes
  <2> QED
    BY <2>1 DEF CreatesOwn
<1>17. ASSUME NEW w \in Workers, Copy(w) PROVE CreatesOwn
  <2>1. UNCHANGED <<wal, step, gens>>
    BY <1>1, <1>17, CopyFrame
  <2> QED
    BY <2>1 DEF CreatesOwn
<1>18. ASSUME NEW w \in Workers, Swap(w) PROVE CreatesOwn
  BY <1>18, SwapFrame, <1>1, <1>2, <1>3 DEF CreatesOwn, Rest
<1>19. ASSUME NEW w \in Workers, Refuse(w) PROVE CreatesOwn
  BY <1>19, RefuseDoes, <1>1, <1>2, <1>3 DEF CreatesOwn, Rest
<1>20. ASSUME NEW w \in Workers, Release(w) PROVE CreatesOwn
  BY <1>20, ReleaseDoes, <1>1, <1>2, <1>3 DEF CreatesOwn, Rest
<1>21. ASSUME NEW r \in Readers, Begin(r) PROVE CreatesOwn
  BY <1>21, BeginDoes, <1>1, <1>2, <1>3 DEF CreatesOwn
<1>22. ASSUME NEW r \in Readers, Finish(r) PROVE CreatesOwn
  BY <1>22, FinishDoes, <1>1, <1>2, <1>3 DEF CreatesOwn
<1>23. ASSUME CollectStart PROVE CreatesOwn
  BY <1>23, CollectStartDoes, <1>1, <1>2, <1>3, CompactionAssumption DEF CreatesOwn
<1>24. ASSUME CollectLock PROVE CreatesOwn
  BY <1>24, CollectLockDoes, <1>1, <1>2, <1>3 DEF CreatesOwn
<1>25. ASSUME CollectRemove PROVE CreatesOwn
  BY <1>25, CollectRemoveDoes, <1>1, <1>2, <1>3 DEF CreatesOwn
<1>26. ASSUME Crash PROVE CreatesOwn
  BY <1>26, CrashDoes, <1>1, <1>2, <1>3 DEF CreatesOwn
<1>27. ASSUME Restart PROVE CreatesOwn
  BY <1>27, RestartDoes, <1>1, <1>2, <1>3, ColumnsAre DEF CreatesOwn
<1>28. ASSUME Cleanup PROVE CreatesOwn
  BY <1>28, CleanupDoes, <1>1, <1>2, <1>3 DEF CreatesOwn
<1>29. ASSUME UNCHANGED vars PROVE CreatesOwn
  BY <1>29, <1>1, <1>2, <1>3 DEF CreatesOwn, vars, directory, server, log, counters
<1> QED
  BY <1>4, <1>5, <1>6, <1>7, <1>8, <1>9, <1>10, <1>11, <1>12, <1>13, <1>14, <1>15, <1>16,
    <1>17, <1>18, <1>19, <1>20, <1>21, <1>22, <1>23, <1>24, <1>25, <1>26, <1>27, <1>28,
    <1>29 DEF Next, Done

LEMMA ModeBy ==
  ASSUME Core, Next
  PROVE  ModeMoves
<1>1. TypeOK /\ Flow /\ Running
  BY DEF Core
<1>2. /\ wal = NoOp <=> wal.kind = "none"
      /\ NoOp.kind = "none" /\ NoTable.id = 0 /\ NoWork.pc = "idle"
      /\ NoCollect.oldest = -1 /\ NoCollect.pc = "idle"
  BY <1>1, OpIs, OpsAre, EntriesAre DEF TypeOK, LogOK, NoWork, NoCollect
<1>3. (Exists <=> catalog.id # 0) /\ (Exists' <=> catalog'.id # 0)
  BY <1>1, TypeStep, EntryIs DEF TypeOK, DirectoryOK, Exists
<1>4. ASSUME NEW r \in Rows, Insert(r) \/ Delete(r) PROVE ModeMoves
  BY <1>4, InsertDoes, <1>1, <1>2, <1>3 DEF ModeMoves, Rest
<1>5. ASSUME CreateTable PROVE ModeMoves
  BY <1>5, CreateTableDoes, <1>1, <1>2, <1>3 DEF ModeMoves, Rest
<1>6. ASSUME DropTable PROVE ModeMoves
  BY <1>6, DropTableDoes, <1>1, <1>2, <1>3 DEF ModeMoves, Rest
<1>7. ASSUME NEW c \in Columns, CreateIndex(c) \/ DropIndex(c) PROVE ModeMoves
  BY <1>7, IndexDoes, <1>1, <1>2, <1>3 DEF ModeMoves, Rest
<1>8. ASSUME ApplyCreate PROVE ModeMoves
  BY <1>8, ApplyCreateDoes, <1>1, <1>2, <1>3 DEF ModeMoves, Rest
<1>9. ASSUME ApplyDrop PROVE ModeMoves
  BY <1>9, ApplyDropDoes, <1>1, <1>2, <1>3 DEF ModeMoves, Rest
<1>10. ASSUME ApplyCreateIndex PROVE ModeMoves
  BY <1>10, ApplyCreateIndexDoes, <1>1, <1>2, <1>3 DEF ModeMoves, Rest
<1>11. ASSUME ApplyDropIndex PROVE ModeMoves
  BY <1>11, ApplyDropIndexDoes, <1>1, <1>2, <1>3 DEF ModeMoves, Rest
<1>12. ASSUME ApplyMigrate PROVE ModeMoves
  BY <1>12, ApplyMigrateDoes, <1>1, <1>2, <1>3 DEF ModeMoves, Rest
<1>13. ASSUME SaveCatalog PROVE ModeMoves
  BY <1>13, SaveCatalogDoes, <1>1, <1>2, <1>3 DEF ModeMoves, Rest
<1>14. ASSUME RemoveFile PROVE ModeMoves
  BY <1>14, RemoveFileDoes, <1>1, <1>2, <1>3 DEF ModeMoves, Rest
<1>15. ASSUME Publish PROVE ModeMoves
  BY <1>15, PublishDoes, <1>1, <1>2, <1>3 DEF ModeMoves
<1>16. ASSUME NEW w \in Workers, Start(w) PROVE ModeMoves
  <2>1. mode = "up"
    BY <1>1, <1>16, StartDoes
  <2> QED
    BY <2>1 DEF ModeMoves
<1>17. ASSUME NEW w \in Workers, Copy(w) PROVE ModeMoves
  <2>1. mode = "up"
    BY <1>1, <1>17, CopyFrame
  <2> QED
    BY <2>1 DEF ModeMoves
<1>18. ASSUME NEW w \in Workers, Swap(w) PROVE ModeMoves
  BY <1>18, SwapFrame, <1>1, <1>2, <1>3 DEF ModeMoves, Rest
<1>19. ASSUME NEW w \in Workers, Refuse(w) PROVE ModeMoves
  BY <1>19, RefuseDoes, <1>1, <1>2, <1>3 DEF ModeMoves, Rest
<1>20. ASSUME NEW w \in Workers, Release(w) PROVE ModeMoves
  BY <1>20, ReleaseDoes, <1>1, <1>2, <1>3 DEF ModeMoves, Rest
<1>21. ASSUME NEW r \in Readers, Begin(r) PROVE ModeMoves
  BY <1>21, BeginDoes, <1>1, <1>2, <1>3 DEF ModeMoves
<1>22. ASSUME NEW r \in Readers, Finish(r) PROVE ModeMoves
  BY <1>22, FinishDoes, <1>1, <1>2, <1>3 DEF ModeMoves
<1>23. ASSUME CollectStart PROVE ModeMoves
  BY <1>23, CollectStartDoes, <1>1, <1>2, <1>3, CompactionAssumption DEF ModeMoves
<1>24. ASSUME CollectLock PROVE ModeMoves
  BY <1>24, CollectLockDoes, <1>1, <1>2, <1>3 DEF ModeMoves
<1>25. ASSUME CollectRemove PROVE ModeMoves
  BY <1>25, CollectRemoveDoes, <1>1, <1>2, <1>3 DEF ModeMoves
<1>26. ASSUME Crash PROVE ModeMoves
  BY <1>26, CrashDoes, <1>1, <1>2, <1>3 DEF ModeMoves
<1>27. ASSUME Restart PROVE ModeMoves
  BY <1>27, RestartDoes, <1>1, <1>2, <1>3, ColumnsAre DEF ModeMoves
<1>28. ASSUME Cleanup PROVE ModeMoves
  <2>1. /\ mode = "recover" /\ wal' = wal /\ wal = NoOp
        /\ UNCHANGED <<catalog, retired, step>>
    BY <1>28, CleanupDoes
  <2>2. catalog # NoTable => Paths(catalog.gen, catalog.cols) \subseteq DOMAIN files'
    BY <1>28, CleanupDoes
  <2>3. Exists' => Db(catalog'.gen) \in DOMAIN files'
    BY <2>1, <2>2 DEF Exists, Paths
  <2> QED
    BY <1>1, <1>2, <2>1, <2>3 DEF ModeMoves, Running, Flow
<1>29. ASSUME UNCHANGED vars PROVE ModeMoves
  BY <1>29, <1>1, <1>2, <1>3 DEF ModeMoves, vars, directory, server, log, counters
<1> QED
  BY <1>4, <1>5, <1>6, <1>7, <1>8, <1>9, <1>10, <1>11, <1>12, <1>13, <1>14, <1>15, <1>16,
    <1>17, <1>18, <1>19, <1>20, <1>21, <1>22, <1>23, <1>24, <1>25, <1>26, <1>27, <1>28,
    <1>29 DEF Next, Done

(***************************************************************************)
(* The parts of the invariant, one by one.                                 *)
(***************************************************************************)

LEMMA MigrateFacts ==
  ASSUME Core, mode = "up", wal.kind = "migrate"
  PROVE  /\ wal.by \in Workers /\ wal.source \in Int /\ wal.target \in Nat /\ Exists
         /\ ~ Dead(wal.target) /\ wal.target # wal.source /\ left = {}
         /\ \A p \in workers[wal.by].old : p[1] = wal.source
         /\ Db(wal.source) \in workers[wal.by].old
<1>1. /\ wal.by \in Workers /\ wal.source \in Int /\ wal.target \in Nat /\ Exists /\ left = {}
      /\ workers[wal.by].pc = "logged" /\ workers[wal.by].target = wal.target
      /\ \A p \in workers[wal.by].old : p[1] = wal.source
      /\ Db(wal.source) \in workers[wal.by].old
  BY OpIs DEF Core, TypeOK, LogOK, Running, Flow
<1> QED
  BY <1>1 DEF Core, Fresh, Claims

(***************************************************************************)
(* The shadow catches up with the heap.                                    *)
(***************************************************************************)

\* Induction over the natural numbers, for a set of them.
LEMMA SetInduction ==
  ASSUME NEW P \in SUBSET Nat, 0 \in P, \A n \in P : n + 1 \in P
  PROVE  P = Nat
<1> DEFINE Bad == Nat \ P
<1>1. SUFFICES ASSUME Bad # {} PROVE FALSE
  OBVIOUS
<1>2. PICK x \in Bad : \A y \in Bad : x <= y
  BY <1>1, LeastNumber
<1>3. x \in Nat /\ x # 0
  BY <1>2
<1>4. x - 1 \in Nat /\ ~ (x <= x - 1) /\ (x - 1) + 1 = x
  BY <1>3
<1> QED
  BY <1>2, <1>4

Visits(f, copied, latest, n) ==
    f = [m \in 0 .. n |-> IF m = 0 THEN <<>> ELSE Visit(copied, latest, f[m - 1], m)]

LEMMA KeptIs ==
  ASSUME NEW copied, NEW latest
  PROVE  Kept(copied, latest) = (CHOOSE f : Visits(f, copied, latest, Len(latest)))[Len(latest)]
BY DEF Kept, Visits

\* The recursive function of Kept exists.
LEMMA VisitsExist ==
  ASSUME NEW copied, NEW latest, NEW n \in Nat
  PROVE  \E f : Visits(f, copied, latest, n)
<1> DEFINE P == {k \in Nat : \E f : Visits(f, copied, latest, k)}
<1>1. 0 \in P
  <2> DEFINE f == [m \in 0 .. 0 |-> <<>>]
  <2>1. Visits(f, copied, latest, 0)
    BY DEF Visits
  <2> QED
    BY <2>1
<1>2. ASSUME NEW k \in P PROVE k + 1 \in P
  <2>1. PICK f : Visits(f, copied, latest, k)
    BY <1>2
  <2> DEFINE g == [m \in 0 .. k + 1 |-> IF m = k + 1 THEN Visit(copied, latest, f[k], k + 1)
                                        ELSE f[m]]
  <2>2. ASSUME NEW m \in 0 .. k + 1
        PROVE  g[m] = IF m = 0 THEN <<>> ELSE Visit(copied, latest, g[m - 1], m)
    <3>1. CASE m = k + 1
      <4>1. g[m - 1] = f[k] /\ m # 0
        BY <3>1
      <4> QED
        BY <3>1, <4>1
    <3>2. CASE m # k + 1
      <4>1. m \in 0 .. k
        BY <3>2
      <4>2. f[m] = IF m = 0 THEN <<>> ELSE Visit(copied, latest, f[m - 1], m)
        BY <2>1, <4>1 DEF Visits
      <4>3. m # 0 => g[m - 1] = f[m - 1]
        BY <4>1
      <4> QED
        BY <3>2, <4>2, <4>3
    <3> QED
      BY <3>1, <3>2
  <2>3. Visits(g, copied, latest, k + 1)
    <3>1. g = [m \in 0 .. k + 1 |-> g[m]]
      OBVIOUS
    <3> HIDE DEF g
    <3> QED
      BY <2>2, <3>1 DEF Visits
  <2> HIDE DEF g
  <2> QED
    BY <2>3
<1>3. P = Nat
  <2> HIDE DEF P
  <2>1. P \in SUBSET Nat
    BY DEF P
  <2> QED
    BY <1>1, <1>2, <2>1, SetInduction
<1> QED
  BY <1>3

\* After n of the latest rows, what is kept of the copy is a prefix of them.
KeepsPrefix(kept, copied, latest, n) ==
    /\ kept \in Seq(Nat) /\ Len(kept) <= n
    /\ \A i \in 1 .. Len(kept) : kept[i] \in DOMAIN copied /\ copied[kept[i]] = latest[i]

LEMMA VisitKeeps ==
  ASSUME NEW copied, DOMAIN copied \subseteq Nat, NEW latest, NEW kept, NEW n \in Nat,
         KeepsPrefix(kept, copied, latest, n)
  PROVE  KeepsPrefix(Visit(copied, latest, kept, n + 1), copied, latest, n + 1)
<1> DEFINE after == {i \in DOMAIN copied :
                        copied[i] = latest[n + 1] /\ \A j \in DOMAIN kept : kept[j] < i}
           new == Visit(copied, latest, kept, n + 1)
<1>1. new = IF Len(kept) < (n + 1) - 1 \/ after = {} THEN kept ELSE Append(kept, Min(after))
  BY DEF Visit
<1>2. kept \in Seq(Nat) /\ Len(kept) \in Nat /\ Len(kept) <= n
  BY DEF KeepsPrefix
<1>3. CASE new = kept
  BY <1>2, <1>3 DEF KeepsPrefix
<1>4. CASE new # kept
  <2>1. Len(kept) = n /\ after # {} /\ new = Append(kept, Min(after))
    <3>1. ~ (Len(kept) < (n + 1) - 1) /\ after # {} /\ new = Append(kept, Min(after))
      <4> HIDE DEF after, new
      <4> QED
        BY <1>1, <1>4
    <3> QED
      BY <1>2, <3>1
  <2>2. after \in SUBSET Nat
    OBVIOUS
  <2>3. \E i \in after : \A j \in after : i <= j
    <3> HIDE DEF after
    <3> QED
      BY <2>1, <2>2, LeastNumber
  <2>4. Min(after) \in after
    <3> HIDE DEF after
    <3> QED
      BY <2>3 DEF Min
  <2> DEFINE x == Min(after)
  <2>5. x \in Nat /\ x \in DOMAIN copied /\ copied[x] = latest[n + 1]
    BY <2>4
  <2> HIDE DEF x, new, after
  <2>6. new = Append(kept, x)
    BY <2>1 DEF x
  <2>7. new \in Seq(Nat) /\ Len(new) = n + 1 /\ new[n + 1] = x
    BY <1>2, <2>1, <2>5, <2>6
  <2>8. \A i \in 1 .. n : new[i] = kept[i]
    BY <1>2, <2>1, <2>5, <2>6
  <2>9. ASSUME NEW i \in 1 .. n + 1 PROVE new[i] \in DOMAIN copied /\ copied[new[i]] = latest[i]
    <3>1. CASE i = n + 1
      BY <2>5, <2>7, <3>1
    <3>2. CASE i # n + 1
      <4>1. i \in 1 .. n
        BY <3>2
      <4> QED
        BY <2>1, <2>8, <4>1 DEF KeepsPrefix
    <3> QED
      BY <3>1, <3>2
  <2> QED
    BY <2>7, <2>9 DEF KeepsPrefix, new
<1> QED
  BY <1>3, <1>4

LEMMA KeptPrefix ==
  ASSUME NEW copied, DOMAIN copied \subseteq Nat, NEW latest, Len(latest) \in Nat
  PROVE  KeepsPrefix(Kept(copied, latest), copied, latest, Len(latest))
<1> DEFINE N == Len(latest)
           f == CHOOSE g : Visits(g, copied, latest, N)
           P == {k \in Nat : k <= N => KeepsPrefix(f[k], copied, latest, k)}
<1> HIDE DEF f
<1>1. Visits(f, copied, latest, N)
  BY VisitsExist DEF f
<1>2. 0 \in P
  <2>1. f[0] = <<>>
    BY <1>1 DEF Visits
  <2>2. KeepsPrefix(<<>>, copied, latest, 0)
    BY DEF KeepsPrefix
  <2> QED
    BY <2>1, <2>2
<1>3. ASSUME NEW k \in P PROVE k + 1 \in P
  <2>1. SUFFICES ASSUME k + 1 <= N PROVE KeepsPrefix(f[k + 1], copied, latest, k + 1)
    OBVIOUS
  <2>2. KeepsPrefix(f[k], copied, latest, k)
    BY <1>3, <2>1
  <2>3. f[k + 1] = Visit(copied, latest, f[k], k + 1)
    <3>1. k + 1 \in 0 .. N /\ k + 1 # 0 /\ (k + 1) - 1 = k
      BY <2>1
    <3> QED
      BY <1>1, <3>1 DEF Visits
  <2> QED
    BY <2>2, <2>3, VisitKeeps
<1>4. P = Nat
  <2>1. P \in SUBSET Nat
    OBVIOUS
  <2> HIDE DEF P
  <2> QED
    BY <1>2, <1>3, <2>1, SetInduction
<1>5. KeepsPrefix(f[N], copied, latest, N)
  BY <1>4
<1> QED
  BY <1>5, KeptIs DEF f

\* Whatever was copied, and whatever was written, deleted or inserted since:
\* the shadow that catches up under the gate ends up with the latest rows in
\* their order, duplicates included.
THEOREM CaughtUp ==
  ASSUME NEW S, NEW copied \in Seq(S), NEW latest \in Seq(S)
  PROVE  CatchUp(copied, latest) = latest
<1> DEFINE kept == Kept(copied, latest)
           front == [i \in DOMAIN kept |-> copied[kept[i]]]
           back == SubSeq(latest, Len(kept) + 1, Len(latest))
<1>1. KeepsPrefix(kept, copied, latest, Len(latest))
  BY KeptPrefix
<1> HIDE DEF kept
<1>2. /\ kept \in Seq(Nat) /\ Len(kept) \in Nat /\ Len(kept) <= Len(latest)
      /\ \A i \in 1 .. Len(kept) : kept[i] \in DOMAIN copied /\ copied[kept[i]] = latest[i]
  BY <1>1 DEF KeepsPrefix
<1>3. front \in Seq(S) /\ Len(front) = Len(kept) /\ \A i \in 1 .. Len(kept) : front[i] = latest[i]
  <2>1. DOMAIN kept = 1 .. Len(kept) /\ \A i \in 1 .. Len(kept) : latest[i] \in S
    BY <1>2, LenProperties
  <2>2. front = [i \in 1 .. Len(kept) |-> latest[i]]
    BY <1>2, <2>1
  <2> HIDE DEF front
  <2> QED
    BY <1>2, <2>1, <2>2
<1>4. /\ back \in Seq(S) /\ Len(back) = Len(latest) - Len(kept)
      /\ \A i \in 1 .. Len(latest) - Len(kept) : back[i] = latest[Len(kept) + i]
  BY <1>2
<1> HIDE DEF front, back
<1>5. /\ front \o back \in Seq(S) /\ Len(front \o back) = Len(front) + Len(back)
      /\ \A i \in 1 .. Len(front) + Len(back) :
            (front \o back)[i] = IF i <= Len(front) THEN front[i] ELSE back[i - Len(front)]
  BY <1>3, <1>4, ConcatProperties
<1> DEFINE whole == front \o back
<1>6. whole \in Seq(S) /\ Len(whole) = Len(latest)
  BY <1>2, <1>3, <1>4, <1>5
<1>7. ASSUME NEW i \in 1 .. Len(latest) PROVE whole[i] = latest[i]
  <2>1. whole[i] = IF i <= Len(front) THEN front[i] ELSE back[i - Len(front)]
    BY <1>5, <1>6
  <2>2. CASE i <= Len(kept)
    BY <1>2, <1>3, <2>1, <2>2
  <2>3. CASE ~ (i <= Len(kept))
    <3>1. i - Len(kept) \in 1 .. Len(latest) - Len(kept) /\ Len(kept) + (i - Len(kept)) = i
      BY <1>2, <2>3
    <3> QED
      BY <1>3, <1>4, <2>1, <2>3, <3>1
  <2> QED
    BY <2>2, <2>3
<1>8. whole = latest
  <2> HIDE DEF whole
  <2> QED
    BY <1>6, <1>7, SeqEqual
<1> QED
  BY <1>8 DEF CatchUp, front, back, kept

(***************************************************************************)
(* The invariant.                                                          *)
(***************************************************************************)

\* A retired entry has a data file of this generation that is not removed yet.
Held(g) == (\E e \in retired : Db(g) \in e.paths) /\ Db(g) \notin collect.gone

\* What is removed of the oldest entry, and of no other.
GoneOK ==
    /\ collect.pc # "locked" => collect.gone = {}
    /\ \A e, f \in retired : e.csn = f.csn => e = f
    /\ \A e, f \in retired : \A p \in e.paths : p \in f.paths /\ p[2] = "db" => e = f
    /\ \A p \in collect.gone : \E e \in retired : p \in e.paths /\ \A o \in retired : e.csn <= o.csn

\* A data file that is held is not that of a table.
HeldOK ==
    /\ Exists => ~ Held(catalog.gen)
    /\ wal.kind = "create" /\ step = "save" => ~ Held(gens)
    /\ mode = "up" /\ wal.kind = "migrate" => ~ Held(wal.source)
    /\ \A p \in left : p[2] = "db" => ~ Held(p[1])
    /\ \A e \in retired : \A p \in e.paths :
          p[2] = "db" => p \in DOMAIN files \/ p \in collect.gone

Values == Rows \cup Range(InitialRows)
SequencesOK ==
    /\ rows \in Seq(Values)
    /\ \A w \in Workers : workers[w].pc # "idle" => workers[w].rows \in Seq(Values)

HasRows(g) == Db(g) \in DOMAIN files /\ files[Db(g)] = rows

\* Where the committed rows are while an operation is applied.
DataOK ==
    /\ Exists /\ wal.kind \notin {"drop", "migrate"} => HasRows(catalog.gen)
    /\ wal.kind = "migrate" => HasRows(wal.target)
    /\ mode = "up" /\ wal.kind = "migrate" => Db(wal.source) \in DOMAIN files
    /\ wal.kind = "create" /\ step = "save" => HasRows(gens)
    /\ ~ Exists \/ wal.kind = "drop" => rows = <<>>
    /\ \A p \in DOMAIN files : p[1] >= ObjectGen(objects)
    /\ wal.kind = "create" /\ ~ Exists /\ Db(ObjectGen(wal.id)) \in DOMAIN files =>
          files[Db(ObjectGen(wal.id))] = <<>>
    /\ wal.kind = "drop" /\ step \in {"remove", "publish"} => ~ Exists

\* Between two operations the table is open.
OpenOK ==
    mode = "up" /\ wal.kind = "none" /\ Exists =>
        DOMAIN open = LivePaths /\ open[Db(catalog.gen)] = rows

RowsInv == Core /\ GoneOK /\ HeldOK /\ SequencesOK /\ DataOK /\ OpenOK

(***************************************************************************)
(* Contents of the data files.                                             *)
(***************************************************************************)

SameData(fs, gs) ==
    \A p \in DOMAIN gs : p[2] = "db" =>
        \/ p \in DOMAIN fs /\ gs[p] = fs[p]
        \/ p \notin DOMAIN fs /\ gs[p] = <<>>

\* Opening a table leaves the data files, a new one is empty.
LEMMA ReopenData ==
  ASSUME NEW fs, NEW cat, Reopen(fs, cat)
  PROVE  SameData(fs, files')
<1> SUFFICES ASSUME NEW p \in DOMAIN files', p[2] = "db"
             PROVE  \/ p \in DOMAIN fs /\ files'[p] = fs[p]
                    \/ p \notin DOMAIN fs /\ files'[p] = <<>>
  BY DEF SameData
<1>1. /\ DOMAIN files' = DOMAIN fs \cup DOMAIN open'
      /\ files'[p] = IF p \in DOMAIN open' THEN open'[p] ELSE fs[p]
  BY DEF Reopen
<1>2. CASE p \in DOMAIN open'
  <2>1. cat # NoTable /\ open' = Opened(fs, cat.gen, cat.cols)
    BY <1>2 DEF Reopen, NoFiles
  <2>2. p = Db(cat.gen)
    BY <1>2, <2>1 DEF Opened, Db, Index
  <2>3. open'[p] = IF p \in DOMAIN fs THEN fs[p] ELSE <<>>
    BY <1>2, <2>1, <2>2 DEF Opened
  <2> QED
    BY <1>1, <1>2, <2>3
<1> QED
  BY <1>1, <1>2

LEMMA IndexData ==
  ASSUME ApplyCreateIndex
  PROVE  SameData(files, files')
<1> SUFFICES ASSUME NEW p \in DOMAIN files', p[2] = "db"
             PROVE  \/ p \in DOMAIN files /\ files'[p] = files[p]
                    \/ p \notin DOMAIN files /\ files'[p] = <<>>
  BY DEF SameData
<1> DEFINE handle == Opened(files, Prefix, catalog.cols)
<1>1. /\ DOMAIN files' = DOMAIN files \cup DOMAIN open'
      /\ files'[p] = IF p \in DOMAIN open' THEN open'[p] ELSE files[p]
  BY DEF ApplyCreateIndex
<1>2. CASE p \in DOMAIN open'
  <2>1. open' = [q \in DOMAIN handle \cup {Index(Prefix, wal.col)} |->
                        IF q \in DOMAIN handle THEN handle[q] ELSE Range(handle[Db(Prefix)])]
    BY DEF ApplyCreateIndex
  <2>2. p \in DOMAIN handle \/ p = Index(Prefix, wal.col)
    BY <1>2, <2>1
  <2>3. DOMAIN handle = {Db(Prefix)} \cup {Index(Prefix, c) : c \in catalog.cols}
    BY DEF Opened
  <2>4. p = Db(Prefix) /\ p \in DOMAIN handle
    BY <2>2, <2>3 DEF Db, Index
  <2>5. open'[p] = handle[p]
    BY <2>1, <2>4
  <2>6. handle[p] = IF p \in DOMAIN files THEN files[p] ELSE <<>>
    BY <2>4 DEF Opened
  <2> HIDE DEF handle
  <2> QED
    BY <1>1, <1>2, <2>5, <2>6
<1> QED
  BY <1>1, <1>2

\* Removing files leaves the contents of the others.
LEMMA WithoutSame ==
  ASSUME NEW fs, NEW paths
  PROVE  /\ DOMAIN Without(fs, paths) = DOMAIN fs \ paths
         /\ \A p \in DOMAIN fs \ paths : Without(fs, paths)[p] = fs[p]
BY DEF Without

LEMMA CopyData ==
  ASSUME NEW w, Copy(w)
  PROVE  /\ DOMAIN files \subseteq DOMAIN files'
         /\ \A p \in DOMAIN files' : p[1] # workers[w].target => p \in DOMAIN files /\ files'[p] = files[p]
<1> DEFINE target == workers[w].target
           columns == {"id"} \cup catalog.cols
<1>1. files' = [p \in DOMAIN files \cup Paths(target, columns) |->
                           IF p = Db(target) THEN workers[w].rows
                           ELSE IF p[1] = target THEN Range(workers[w].rows)
                           ELSE files[p]]
  BY DEF Copy
<1>2. \A p \in Paths(target, columns) : p[1] = target
  BY DEF Paths, Db, Index
<1>3. Db(target)[1] = target
  BY DEF Db
<1> HIDE DEF target, columns
<1>4. /\ DOMAIN files \subseteq DOMAIN files'
      /\ \A p \in DOMAIN files' : p[1] # target => p \in DOMAIN files /\ files'[p] = files[p]
  BY <1>1, <1>2, <1>3
<1> QED
  BY <1>4 DEF target

LEMMA SwapData ==
  ASSUME NEW w, Swap(w)
  PROVE  /\ DOMAIN files' = DOMAIN files
         /\ \A p \in DOMAIN files' : p[1] # workers[w].target => files'[p] = files[p]
         /\ \A p \in DOMAIN files' : p = Db(workers[w].target) =>
                files'[p] = CatchUp(workers[w].rows, open[Db(Prefix)])
         /\ UNCHANGED rows
<1> DEFINE target == workers[w].target
           now == CatchUp(workers[w].rows, open[Db(Prefix)])
<1>1. files' = [p \in DOMAIN files |-> IF p[1] # target THEN files[p]
                                               ELSE IF p = Db(target) THEN now
                                               ELSE Range(now)]
  BY DEF Swap
<1>2. Db(target)[1] = target
  BY DEF Db
<1> HIDE DEF target, now
<1>3. /\ DOMAIN files' = DOMAIN files
      /\ \A p \in DOMAIN files' : p[1] # target => files'[p] = files[p]
      /\ \A p \in DOMAIN files' : p = Db(target) => files'[p] = now
  BY <1>1, <1>2
<1>4. UNCHANGED rows
  BY DEF Swap
<1> QED
  BY <1>3, <1>4 DEF target, now

LEMMA WriteData ==
  ASSUME NEW new, NEW add, NEW remove, WriteRows(new, add, remove)
  PROVE  /\ DOMAIN open' = DOMAIN open
         /\ \A p \in DOMAIN open' : p = Db(Prefix) => open'[p] = new
         /\ DOMAIN files' = DOMAIN files
         /\ \A p \in DOMAIN files' : files'[p] = IF p \in DOMAIN open' THEN open'[p] ELSE files[p]
         /\ rows' = new
BY DEF WriteRows, Written

LEMMA InsertData ==
  ASSUME NEW r, Insert(r) \/ Delete(r)
  PROVE  /\ DOMAIN open' = DOMAIN open
         /\ \A p \in DOMAIN open' : p = Db(Prefix) => open'[p] = rows'
         /\ DOMAIN files' = DOMAIN files
         /\ \A p \in DOMAIN files' : files'[p] = IF p \in DOMAIN open' THEN open'[p] ELSE files[p]
<1>1. \E new, add, remove : WriteRows(new, add, remove)
  BY DEF Insert, Delete
<1> QED
  BY <1>1, WriteData

\* A data file goes with a drop, with a retired entry, or at a start.
Takes(p) ==
    \/ p \in left /\ UNCHANGED collect
    \/ /\ mode = "up" /\ p \notin collect.gone /\ p \notin DOMAIN files'
       /\ \E e \in retired : p \in e.paths /\ (e \in retired' => p \in collect'.gone)
    \/ /\ mode = "recover" /\ wal.kind = "none"
       /\ Exists => p[1] # catalog.gen

\* A data file is written when rows are, or by the compaction it is for.
Fills(p) ==
    \/ /\ mode = "up" /\ wal.kind = "none" /\ Exists /\ p = Db(catalog.gen) /\ wal' = wal
       /\ files'[p] = rows'
    \/ \E w \in Workers : workers[w].pc \in {"copy", "swap"} /\ p[1] = workers[w].target

DataMoves ==
    /\ \A p \in DOMAIN files : p[2] = "db" =>
          Takes(p) \/ (p \in DOMAIN files' /\ (files'[p] = files[p] \/ Fills(p)))
    /\ \A p \in DOMAIN files' : p[2] = "db" /\ p \notin DOMAIN files =>
          files'[p] = <<>> \/ Fills(p)

\* The collection removes the first file of the oldest entry that is left.
LEMMA CollectRemoveFirst ==
  ASSUME TypeOK, CollectRemove
  PROVE  /\ collect.pc = "locked"
         /\ \E e \in retired : \E p \in NextToRemove(e.paths \ collect.gone) :
            /\ Expired(e) /\ \A o \in retired : e.csn <= o.csn
            /\ files' = Without(files, {p})
            /\ \/ /\ e.paths \subseteq collect.gone \cup {p}
                  /\ retired' = retired \ {e} /\ collect'.gone = {}
               \/ /\ retired' = retired /\ collect'.gone = collect.gone \cup {p}
                  /\ collect'.pc = "locked" /\ collect'.oldest = collect.oldest
         /\ \/ collect'.saw = {}
            \/ collect'.oldest = collect.oldest /\ collect'.saw = collect.saw
<1>1. PICK e \in retired :
              /\ Expired(e) /\ \A o \in retired : e.csn <= o.csn
              /\ \E p \in NextToRemove(e.paths \ collect.gone) :
                   /\ files' = Without(files, {p})
                   /\ IF e.paths \subseteq collect.gone \cup {p}
                      THEN /\ retired' = retired \ {e}
                           /\ collect' = IF \E o \in retired' : Expired(o)
                                         THEN [collect EXCEPT !.gone = {}] ELSE NoCollect
                      ELSE /\ collect' = [collect EXCEPT !.gone = @ \cup {p}]
                           /\ UNCHANGED retired
  BY DEF CollectRemove
<1>2. PICK p \in NextToRemove(e.paths \ collect.gone) :
              /\ files' = Without(files, {p})
              /\ IF e.paths \subseteq collect.gone \cup {p}
                 THEN /\ retired' = retired \ {e}
                      /\ collect' = IF \E o \in retired' : Expired(o)
                                    THEN [collect EXCEPT !.gone = {}] ELSE NoCollect
                 ELSE /\ collect' = [collect EXCEPT !.gone = @ \cup {p}]
                      /\ UNCHANGED retired
  BY <1>1
<1>3. /\ collect = [pc |-> "locked", oldest |-> collect.oldest, gone |-> collect.gone,
                    saw |-> collect.saw]
      /\ NoCollect.gone = {} /\ collect.pc = "locked" /\ NoCollect.saw = {}
  BY DEF CollectRemove, TypeOK, RetiredOK, Collections, NoCollect
<1>4. ASSUME NEW S
      PROVE  /\ [collect EXCEPT !.gone = S].gone = S /\ [collect EXCEPT !.gone = S].pc = "locked"
             /\ [collect EXCEPT !.gone = S].oldest = collect.oldest
             /\ [collect EXCEPT !.gone = S].saw = collect.saw
  BY <1>3
<1>5. CASE e.paths \subseteq collect.gone \cup {p}
  <2>1. retired' = retired \ {e} /\ collect' \in {[collect EXCEPT !.gone = {}], NoCollect}
    BY <1>2, <1>5
  <2>2. /\ collect'.gone = {}
        /\ \/ collect'.saw = {}
           \/ collect'.oldest = collect.oldest /\ collect'.saw = collect.saw
    BY <1>3, <1>4, <2>1
  <2> QED
    BY <1>1, <1>2, <1>3, <1>5, <2>1, <2>2
<1>6. CASE ~ (e.paths \subseteq collect.gone \cup {p})
  <2>1. retired' = retired /\ collect' = [collect EXCEPT !.gone = collect.gone \cup {p}]
    BY <1>2, <1>6
  <2>2. /\ collect'.gone = collect.gone \cup {p} /\ collect'.pc = "locked"
        /\ collect'.oldest = collect.oldest /\ collect'.saw = collect.saw
    BY <1>4, <2>1
  <2> QED
    BY <1>1, <1>2, <1>3, <2>1, <2>2
<1> QED
  BY <1>5, <1>6

LEMMA CollectRemoveGone ==
  ASSUME TypeOK, CollectRemove
  PROVE  \E e \in retired : \E p \in e.paths :
            /\ \A o \in retired : e.csn <= o.csn
            /\ p \notin collect.gone /\ files' = Without(files, {p})
            /\ \/ retired' = retired \ {e} /\ collect'.gone = {}
               \/ /\ retired' = retired /\ collect'.gone = collect.gone \cup {p}
                  /\ collect'.pc = "locked" /\ Expired(e) /\ collect'.oldest = collect.oldest
BY CollectRemoveFirst DEF NextToRemove

LEMMA WithoutData ==
  ASSUME NEW gone, files' = Without(files, gone), \A p \in gone : p[2] = "db" => Takes(p)
  PROVE  DataMoves
<1>1. DOMAIN files' = DOMAIN files \ gone /\ \A p \in DOMAIN files \ gone : files'[p] = files[p]
  BY WithoutSame
<1> QED
  BY <1>1 DEF DataMoves

LEMMA DataBy ==
  ASSUME Core, OpenOK, Next
  PROVE  DataMoves
<1>1. TypeOK /\ Flow /\ Running
  BY DEF Core
<1>2. /\ wal = NoOp <=> wal.kind = "none"
      /\ NoOp.kind = "none" /\ NoTable.gen = 0 /\ NoWork.pc = "idle"
  BY <1>1, OpIs, OpsAre, EntriesAre DEF TypeOK, LogOK, NoWork
<1>3. UNCHANGED files => DataMoves
  BY DEF DataMoves
<1>4. DOMAIN files \subseteq DOMAIN files' /\ SameData(files, files') => DataMoves
  BY DEF DataMoves, SameData
<1>5. ASSUME NEW r \in Rows, Insert(r) \/ Delete(r) PROVE DataMoves
  <2>1. mode = "up" /\ wal.kind = "none" /\ Exists /\ wal' = wal
    BY <1>5, InsertDoes, <1>1, <1>2
  <2>2. DOMAIN open' = LivePaths /\ DOMAIN files' = DOMAIN files
    BY <1>5, <2>1, InsertData DEF OpenOK
  <2>3. \A p \in LivePaths : p[2] = "db" => p = Db(catalog.gen)
    BY DEF LivePaths, Paths, Db, Index
  <2>4. \A p \in DOMAIN files : p[2] = "db" => files'[p] = files[p] \/ p = Db(catalog.gen)
    BY <1>5, <2>2, <2>3, InsertData
  <2>5. Prefix = catalog.gen
    BY <1>1, <2>1 DEF Flow, Prefix
  <2>6. Db(catalog.gen) \in DOMAIN open'
    BY <2>2 DEF LivePaths, Paths
  <2>7. \A p \in DOMAIN files : p = Db(catalog.gen) => files'[p] = rows'
    BY <1>5, <2>2, <2>5, <2>6, InsertData
  <2> QED
    BY <2>1, <2>2, <2>4, <2>7 DEF DataMoves, Fills
<1>6. ASSUME CreateTable PROVE DataMoves
  <2>1. UNCHANGED files
    BY <1>6, CreateTableDoes, <1>1
  <2> QED
    BY <1>3, <2>1
<1>7. ASSUME DropTable PROVE DataMoves
  <2>1. UNCHANGED files
    BY <1>7, DropTableDoes, <1>1
  <2> QED
    BY <1>3, <2>1
<1>8. ASSUME NEW c \in Columns, CreateIndex(c) \/ DropIndex(c) PROVE DataMoves
  <2>1. UNCHANGED files
    BY <1>8, IndexDoes, <1>1
  <2> QED
    BY <1>3, <2>1
<1>9. ASSUME ApplyCreate PROVE DataMoves
  <2>1. DOMAIN files \subseteq DOMAIN files'
    BY <1>9, <1>1, ApplyCreateDoes
  <2>2. SameData(files, files')
    BY <1>9, ReopenData DEF ApplyCreate
  <2> QED
    BY <1>4, <2>1, <2>2
<1>10. ASSUME ApplyDrop PROVE DataMoves
  <2>1. UNCHANGED files
    BY <1>10, ApplyDropDoes, <1>1
  <2> QED
    BY <1>3, <2>1
<1>11. ASSUME ApplyCreateIndex PROVE DataMoves
  <2>1. DOMAIN files \subseteq DOMAIN files'
    BY <1>11, <1>1, ApplyCreateIndexDoes
  <2> QED
    BY <1>11, <1>4, <2>1, IndexData
<1>12. ASSUME ApplyDropIndex PROVE DataMoves
  <2>1. UNCHANGED files
    BY <1>12, ApplyDropIndexDoes, <1>1
  <2> QED
    BY <1>3, <2>1
<1>13. ASSUME ApplyMigrate PROVE DataMoves
  <2>1. UNCHANGED files
    BY <1>13, ApplyMigrateDoes, <1>1
  <2> QED
    BY <1>3, <2>1
<1>14. ASSUME SaveCatalog PROVE DataMoves
  <2>1. UNCHANGED files
    BY <1>14, SaveCatalogDoes, <1>1
  <2> QED
    BY <1>3, <2>1
<1>15. ASSUME RemoveFile PROVE DataMoves
  <2>1. PICK p \in NextToRemove(left) : files' = Without(files, {p})
    BY <1>15 DEF RemoveFile
  <2>2. p \in left /\ UNCHANGED collect
    BY <1>15, <2>1 DEF NextToRemove, RemoveFile, Aside
  <2>3. Takes(p)
    BY <2>2 DEF Takes
  <2> QED
    BY <2>1, <2>3, WithoutData
<1>16. ASSUME Publish PROVE DataMoves
  <2>1. DOMAIN files \subseteq DOMAIN files'
    BY <1>16, <1>1, PublishDoes
  <2>2. SameData(files, files')
    BY <1>16, ReopenData DEF Publish
  <2> QED
    BY <1>4, <2>1, <2>2
<1>17. ASSUME NEW w \in Workers, Start(w) PROVE DataMoves
  <2>1. UNCHANGED files
    BY <1>17, StartDoes, <1>1
  <2> QED
    BY <1>3, <2>1
<1>18. ASSUME NEW w \in Workers, Copy(w) PROVE DataMoves
  <2>1. workers[w].pc = "copy"
    BY <1>18, <1>1, CopyFrame
  <2> QED
    BY <1>18, <2>1, CopyData DEF DataMoves, Fills
<1>19. ASSUME NEW w \in Workers, Swap(w) PROVE DataMoves
  <2>1. workers[w].pc = "swap"
    BY <1>19, <1>1, SwapFrame
  <2> QED
    BY <1>19, <2>1, SwapData DEF DataMoves, Fills
<1>20. ASSUME NEW w \in Workers, Refuse(w) PROVE DataMoves
  <2>1. UNCHANGED files
    BY <1>20, RefuseDoes, <1>1
  <2> QED
    BY <1>3, <2>1
<1>21. ASSUME NEW w \in Workers, Release(w) PROVE DataMoves
  <2>1. UNCHANGED files
    BY <1>21, ReleaseDoes, <1>1
  <2> QED
    BY <1>3, <2>1
<1>22. ASSUME NEW r \in Readers, Begin(r) PROVE DataMoves
  <2>1. UNCHANGED files
    BY <1>22, BeginDoes, <1>1
  <2> QED
    BY <1>3, <2>1
<1>23. ASSUME NEW r \in Readers, Finish(r) PROVE DataMoves
  <2>1. UNCHANGED files
    BY <1>23, FinishDoes, <1>1
  <2> QED
    BY <1>3, <2>1
<1>24. ASSUME CollectStart PROVE DataMoves
  <2>1. UNCHANGED files
    BY <1>24, CollectStartDoes, <1>1, CompactionAssumption
  <2> QED
    BY <1>3, <2>1
<1>25. ASSUME CollectLock PROVE DataMoves
  <2>1. UNCHANGED files
    BY <1>25, CollectLockDoes, <1>1
  <2> QED
    BY <1>3, <2>1
<1>26. ASSUME CollectRemove PROVE DataMoves
  <2>1. PICK e \in retired : \E p \in e.paths :
            /\ p \notin collect.gone /\ files' = Without(files, {p})
            /\ retired' = retired \ {e} \/ collect'.gone = collect.gone \cup {p}
    BY <1>26, <1>1, CollectRemoveGone
  <2>2. PICK p \in e.paths :
            /\ p \notin collect.gone /\ files' = Without(files, {p})
            /\ retired' = retired \ {e} \/ collect'.gone = collect.gone \cup {p}
    BY <2>1
  <2>3. mode = "up"
    BY <1>26 DEF CollectRemove
  <2>4. p \notin DOMAIN files'
    <3>1. DOMAIN Without(files, {p}) = DOMAIN files \ {p}
      BY WithoutSame
    <3>2. DOMAIN files' = DOMAIN files \ {p}
      BY <2>2, <3>1
    <3> QED
      BY <3>2
  <2>5. Takes(p)
    BY <2>2, <2>3, <2>4 DEF Takes
  <2> QED
    BY <2>2, <2>5, WithoutData
<1>27. ASSUME Crash PROVE DataMoves
  <2>1. UNCHANGED files
    BY <1>27, CrashDoes, <1>1
  <2> QED
    BY <1>3, <2>1
<1>28. ASSUME Restart PROVE DataMoves
  <2> DEFINE gen == IF Exists THEN catalog.gen ELSE Plain
             gone == {Index(gen, c) : c \in {"id"} \cup catalog.cols}
  <2>1. files' = IF wal = NoOp THEN files ELSE Without(files, gone)
    BY <1>28 DEF Restart
  <2>2. {"id"} \cup catalog.cols \subseteq Indexed
    BY <1>1, ColumnsAre DEF TypeOK, DirectoryOK, Entries
  <2>3. \A p \in gone : p[2] # "db"
    BY <2>2, ColumnsAre DEF Index
  <2> HIDE DEF gone
  <2>4. CASE wal = NoOp
    BY <1>3, <2>1, <2>4
  <2>5. CASE wal # NoOp
    BY <2>1, <2>3, <2>5, WithoutData
  <2> QED
    BY <2>4, <2>5
<1>29. ASSUME Cleanup PROVE DataMoves
  <2> DEFINE orphans == {p \in DOMAIN files : Orphan(p)}
             fs == Without(files, orphans)
  <2>1. Reopen(fs, catalog) /\ mode = "recover" /\ wal = NoOp
    BY <1>29 DEF Cleanup
  <2>2. DOMAIN fs \subseteq DOMAIN files' /\ SameData(fs, files')
    BY <2>1, ReopenData, ReopenDomain
  <2>3. DOMAIN fs = DOMAIN files \ orphans /\ \A p \in DOMAIN fs : fs[p] = files[p]
    <3> HIDE DEF orphans
    <3>1. DOMAIN fs = DOMAIN files \ orphans
      BY WithoutDomain
    <3>2. \A p \in DOMAIN files \ orphans : fs[p] = files[p]
      BY WithoutSame
    <3> HIDE DEF fs
    <3> QED
      BY <3>1, <3>2
  <2>4. ASSUME NEW p \in orphans PROVE Exists => p[1] # catalog.gen
    <3>1. Exists => gens = catalog.gen /\ gens # Unknown
      BY <1>1, <2>1 DEF Flow
    <3> QED
      BY <3>1 DEF Orphan
  <2>5. \A p \in orphans : Takes(p)
    BY <1>2, <2>1, <2>4 DEF Takes
  <2> HIDE DEF orphans, fs
  <2>6. \A p \in DOMAIN files : p[2] = "db" =>
            Takes(p) \/ (p \in DOMAIN files' /\ files'[p] = files[p])
    BY <2>2, <2>3, <2>5 DEF SameData
  <2>7. \A p \in DOMAIN files' : p[2] = "db" /\ p \notin DOMAIN files => files'[p] = <<>>
    BY <2>2, <2>3 DEF SameData
  <2> QED
    BY <2>6, <2>7 DEF DataMoves
<1>30. ASSUME UNCHANGED vars PROVE DataMoves
  BY <1>30, <1>3 DEF vars, directory
<1> QED
  BY <1>5, <1>6, <1>7, <1>8, <1>9, <1>10, <1>11, <1>12, <1>13, <1>14, <1>15, <1>16, <1>17,
    <1>18, <1>19, <1>20, <1>21, <1>22, <1>23, <1>24, <1>25, <1>26, <1>27, <1>28, <1>29,
    <1>30 DEF Next, Done

\* The committed rows change with a write or a drop.
RowsMoves ==
    \/ rows' = rows
    \/ rows' = <<>> /\ wal.kind = "none" /\ wal'.kind = "drop"
    \/ /\ mode = "up" /\ wal.kind = "none" /\ Exists /\ UNCHANGED <<wal, catalog>>
       /\ DOMAIN open' = DOMAIN open /\ open'[Db(catalog.gen)] = rows'
       /\ Db(catalog.gen) \in DOMAIN files =>
             Db(catalog.gen) \in DOMAIN files' /\ files'[Db(catalog.gen)] = rows'

LEMMA RowsBy ==
  ASSUME Core, OpenOK, Next
  PROVE  RowsMoves
<1>1. TypeOK /\ Flow /\ Running
  BY DEF Core
<1>2. /\ wal = NoOp <=> wal.kind = "none"
      /\ NoOp.kind = "none" /\ NoTable.id = 0 /\ NoWork.pc = "idle"
      /\ NoCollect.gone = {} /\ NoCollect.pc = "idle"
  BY <1>1, OpIs, OpsAre, EntriesAre DEF TypeOK, LogOK, NoWork, NoCollect
<1>3. (Exists <=> catalog.id # 0) /\ (Exists' <=> catalog'.id # 0)
  BY <1>1, TypeStep, EntryIs DEF TypeOK, DirectoryOK, Exists
<1>4. rows' = rows => RowsMoves
  BY DEF RowsMoves
<1>5. ASSUME NEW r \in Rows, Insert(r) \/ Delete(r) PROVE RowsMoves
  <2>1. mode = "up" /\ wal.kind = "none" /\ Exists /\ UNCHANGED <<wal, catalog, gens>>
    BY <1>5, InsertDoes, <1>1, <1>2
  <2>2. Prefix = catalog.gen
    BY <1>1, <2>1 DEF Prefix, Flow
  <2>3. Db(catalog.gen) \in DOMAIN open
    BY <1>1, <2>1, PathsOf DEF OpenOK, LivePaths, TypeOK, DirectoryOK, Entries
  <2>4. DOMAIN open' = DOMAIN open /\ open'[Db(catalog.gen)] = rows'
    BY <1>5, <2>2, <2>3, InsertData
  <2>5. Db(catalog.gen) \in DOMAIN files =>
             Db(catalog.gen) \in DOMAIN files' /\ files'[Db(catalog.gen)] = rows'
    BY <1>5, <2>3, <2>4, InsertData
  <2> QED
    BY <2>1, <2>4, <2>5 DEF RowsMoves
<1>6. ASSUME CreateTable PROVE RowsMoves
  BY <1>6, <1>4 DEF CreateTable, Aside
<1>7. ASSUME DropTable PROVE RowsMoves
  <2>1. rows' = <<>>
    BY <1>7 DEF DropTable
  <2> QED
    BY <1>7, <1>2, <2>1, DropTableDoes DEF RowsMoves
<1>8. ASSUME NEW c \in Columns, CreateIndex(c) \/ DropIndex(c) PROVE RowsMoves
  BY <1>8, <1>4 DEF CreateIndex, DropIndex, Aside
<1>9. ASSUME ApplyCreate PROVE RowsMoves
  BY <1>9, <1>4 DEF ApplyCreate, Aside
<1>10. ASSUME ApplyDrop PROVE RowsMoves
  BY <1>10, <1>4 DEF ApplyDrop, Aside
<1>11. ASSUME ApplyCreateIndex PROVE RowsMoves
  BY <1>11, <1>4 DEF ApplyCreateIndex, Aside
<1>12. ASSUME ApplyDropIndex PROVE RowsMoves
  BY <1>12, <1>4 DEF ApplyDropIndex, Aside
<1>13. ASSUME ApplyMigrate PROVE RowsMoves
  BY <1>13, <1>4 DEF ApplyMigrate, Aside
<1>14. ASSUME SaveCatalog PROVE RowsMoves
  BY <1>14, <1>4 DEF SaveCatalog, Aside
<1>15. ASSUME RemoveFile PROVE RowsMoves
  BY <1>15, <1>4 DEF RemoveFile, Aside
<1>16. ASSUME Publish PROVE RowsMoves
  BY <1>16, <1>4 DEF Publish, Aside
<1>17. ASSUME NEW w \in Workers, Start(w) PROVE RowsMoves
  BY <1>17, <1>4 DEF Start, Aside
<1>18. ASSUME NEW w \in Workers, Copy(w) PROVE RowsMoves
  BY <1>18, <1>4 DEF Copy, Aside
<1>19. ASSUME NEW w \in Workers, Swap(w) PROVE RowsMoves
  BY <1>19, <1>4 DEF Swap, Aside
<1>20. ASSUME NEW w \in Workers, Refuse(w) PROVE RowsMoves
  BY <1>20, <1>4 DEF Refuse, Aside
<1>21. ASSUME NEW w \in Workers, Release(w) PROVE RowsMoves
  BY <1>21, <1>4 DEF Release, Aside
<1>22. ASSUME NEW r \in Readers, Begin(r) PROVE RowsMoves
  BY <1>22, <1>4 DEF Begin, Aside
<1>23. ASSUME NEW r \in Readers, Finish(r) PROVE RowsMoves
  BY <1>23, <1>4 DEF Finish, Aside
<1>24. ASSUME CollectStart PROVE RowsMoves
  BY <1>24, <1>4 DEF CollectStart, Aside
<1>25. ASSUME CollectLock PROVE RowsMoves
  BY <1>25, <1>4 DEF CollectLock, Aside
<1>26. ASSUME CollectRemove PROVE RowsMoves
  BY <1>26, <1>4 DEF CollectRemove, Aside
<1>27. ASSUME Crash PROVE RowsMoves
  BY <1>27, <1>4 DEF Crash, Aside
<1>28. ASSUME Restart PROVE RowsMoves
  BY <1>28, <1>4 DEF Restart, Aside
<1>29. ASSUME Cleanup PROVE RowsMoves
  BY <1>29, <1>4 DEF Cleanup, Aside
<1>30. ASSUME UNCHANGED vars PROVE RowsMoves
  BY <1>30, <1>4 DEF vars
<1> QED
  BY <1>5, <1>6, <1>7, <1>8, <1>9, <1>10, <1>11, <1>12, <1>13, <1>14, <1>15, <1>16, <1>17,
    <1>18, <1>19, <1>20, <1>21, <1>22, <1>23, <1>24, <1>25, <1>26, <1>27, <1>28, <1>29,
    <1>30 DEF Next, Done

\* When a table goes, when it comes, and with which id.
TableTurns ==
    /\ wal'.kind = "drop" => wal' = wal \/ (step' = "apply" /\ rows' = <<>>)
    /\ wal'.kind = "create" => wal' = wal \/ (wal'.id = objects + 1 /\ UNCHANGED files)
    /\ Exists /\ ~ Exists' => wal.kind = "drop" /\ wal' = wal
    /\ wal'.kind = "drop" /\ step' \in {"remove", "publish"} =>
          ~ Exists' \/ (catalog' = catalog /\ step \in {"remove", "publish"})
    /\ wal.kind # "none" => wal' = wal \/ (step = "publish" /\ catalog' = catalog)

LEMMA TurnsBy ==
  ASSUME Core, Next
  PROVE  TableTurns
<1>1. TypeOK /\ Flow /\ Running
  BY DEF Core
<1>2. /\ wal = NoOp <=> wal.kind = "none"
      /\ NoOp.kind = "none" /\ NoTable.id = 0 /\ NoWork.pc = "idle"
      /\ NoCollect.gone = {} /\ NoCollect.pc = "idle"
  BY <1>1, OpIs, OpsAre, EntriesAre DEF TypeOK, LogOK, NoWork, NoCollect
<1>3. (Exists <=> catalog.id # 0) /\ (Exists' <=> catalog'.id # 0)
  BY <1>1, TypeStep, EntryIs DEF TypeOK, DirectoryOK, Exists
<1>4. ASSUME NEW r \in Rows, Insert(r) \/ Delete(r) PROVE TableTurns
  BY <1>4, InsertDoes, <1>1, <1>2, <1>3 DEF TableTurns, Rest
<1>5. ASSUME CreateTable PROVE TableTurns
  BY <1>5, CreateTableDoes, <1>1, <1>2, <1>3 DEF TableTurns, Rest
<1>6. ASSUME DropTable PROVE TableTurns
  <2>1. rows' = <<>>
    BY <1>6 DEF DropTable
  <2> QED
    BY <1>6, <2>1, DropTableDoes, <1>1, <1>2, <1>3 DEF TableTurns, Rest
<1>7. ASSUME NEW c \in Columns, CreateIndex(c) \/ DropIndex(c) PROVE TableTurns
  BY <1>7, IndexDoes, <1>1, <1>2, <1>3 DEF TableTurns, Rest
<1>8. ASSUME ApplyCreate PROVE TableTurns
  BY <1>8, ApplyCreateDoes, <1>1, <1>2, <1>3 DEF TableTurns, Rest
<1>9. ASSUME ApplyDrop PROVE TableTurns
  BY <1>9, ApplyDropDoes, <1>1, <1>2, <1>3 DEF TableTurns, Exists, Rest
<1>10. ASSUME ApplyCreateIndex PROVE TableTurns
  BY <1>10, ApplyCreateIndexDoes, <1>1, <1>2, <1>3 DEF TableTurns, Rest
<1>11. ASSUME ApplyDropIndex PROVE TableTurns
  BY <1>11, ApplyDropIndexDoes, <1>1, <1>2, <1>3 DEF TableTurns, Rest
<1>12. ASSUME ApplyMigrate PROVE TableTurns
  BY <1>12, ApplyMigrateDoes, <1>1, <1>2, <1>3 DEF TableTurns, Rest
<1>13. ASSUME SaveCatalog PROVE TableTurns
  BY <1>13, SaveCatalogDoes, <1>1, <1>2, <1>3 DEF TableTurns, Flow, Rest
<1>14. ASSUME RemoveFile PROVE TableTurns
  BY <1>14, RemoveFileDoes, <1>1, <1>2, <1>3 DEF TableTurns, Flow, Rest
<1>15. ASSUME Publish PROVE TableTurns
  BY <1>15, PublishDoes, <1>1, <1>2, <1>3 DEF TableTurns
<1>16. ASSUME NEW w \in Workers, Start(w) PROVE TableTurns
  BY <1>16, StartDoes, <1>1, <1>2, <1>3 DEF TableTurns, Rest
<1>17. ASSUME NEW w \in Workers, Copy(w) PROVE TableTurns
  BY <1>17, CopyFrame, <1>1, <1>2, <1>3 DEF TableTurns, Rest
<1>18. ASSUME NEW w \in Workers, Swap(w) PROVE TableTurns
  BY <1>18, SwapFrame, <1>1, <1>2, <1>3 DEF TableTurns, Rest
<1>19. ASSUME NEW w \in Workers, Refuse(w) PROVE TableTurns
  BY <1>19, RefuseDoes, <1>1, <1>2, <1>3 DEF TableTurns, Rest
<1>20. ASSUME NEW w \in Workers, Release(w) PROVE TableTurns
  BY <1>20, ReleaseDoes, <1>1, <1>2, <1>3 DEF TableTurns, Rest
<1>21. ASSUME NEW r \in Readers, Begin(r) PROVE TableTurns
  BY <1>21, BeginDoes, <1>1, <1>2, <1>3 DEF TableTurns
<1>22. ASSUME NEW r \in Readers, Finish(r) PROVE TableTurns
  BY <1>22, FinishDoes, <1>1, <1>2, <1>3 DEF TableTurns
<1>23. ASSUME CollectStart PROVE TableTurns
  BY <1>23, CollectStartDoes, <1>1, <1>2, <1>3, CompactionAssumption DEF TableTurns
<1>24. ASSUME CollectLock PROVE TableTurns
  BY <1>24, CollectLockDoes, <1>1, <1>2, <1>3 DEF TableTurns
<1>25. ASSUME CollectRemove PROVE TableTurns
  BY <1>25, CollectRemoveDoes, <1>1, <1>2, <1>3 DEF TableTurns
<1>26. ASSUME Crash PROVE TableTurns
  BY <1>26, CrashDoes, <1>1, <1>2, <1>3 DEF TableTurns
<1>27. ASSUME Restart PROVE TableTurns
  BY <1>27, RestartDoes, <1>1, <1>2, <1>3, ColumnsAre DEF TableTurns
<1>28. ASSUME Cleanup PROVE TableTurns
  BY <1>28, CleanupDoes, <1>1, <1>2, <1>3 DEF TableTurns
<1>29. ASSUME UNCHANGED vars PROVE TableTurns
  BY <1>29, <1>1, <1>2, <1>3 DEF TableTurns, vars, directory, server, log, counters
<1> QED
  BY <1>4, <1>5, <1>6, <1>7, <1>8, <1>9, <1>10, <1>11, <1>12, <1>13, <1>14, <1>15, <1>16,
    <1>17, <1>18, <1>19, <1>20, <1>21, <1>22, <1>23, <1>24, <1>25, <1>26, <1>27, <1>28,
    <1>29 DEF Next, Done

\* What is removed of an entry is forgotten when the entry goes.
GoneMoves ==
    \/ /\ collect'.gone = collect.gone /\ (collect'.pc # "locked" => collect.gone = {})
       /\ retired' = retired \/ collect.gone = {}
       /\ collect'.oldest = collect.oldest \/ collect.gone = {}
    \/ retired' = {} /\ collect'.gone = {}
    \/ \E e \in retired : \E p \in e.paths :
          /\ \A o \in retired : e.csn <= o.csn
          /\ \/ retired' = retired \ {e} /\ collect'.gone = {}
             \/ /\ retired' = retired /\ collect'.gone = collect.gone \cup {p}
                /\ collect'.pc = "locked" /\ Expired(e) /\ collect'.oldest = collect.oldest

LEMMA GoneBy ==
  ASSUME Core, GoneOK, Next
  PROVE  GoneMoves
<1>1. TypeOK /\ Flow /\ Running
  BY DEF Core
<1>2. /\ wal = NoOp <=> wal.kind = "none"
      /\ NoOp.kind = "none" /\ NoTable.id = 0 /\ NoWork.pc = "idle"
      /\ NoCollect.gone = {} /\ NoCollect.pc = "idle"
  BY <1>1, OpIs, OpsAre, EntriesAre DEF TypeOK, LogOK, NoWork, NoCollect
<1>3. (Exists <=> catalog.id # 0) /\ (Exists' <=> catalog'.id # 0)
  BY <1>1, TypeStep, EntryIs DEF TypeOK, DirectoryOK, Exists
<1>4. collect.pc # "locked" => collect.gone = {}
  BY DEF GoneOK
<1>5. ASSUME NEW r \in Rows, Insert(r) \/ Delete(r) PROVE GoneMoves
  BY <1>5, InsertDoes, <1>1, <1>2, <1>4 DEF GoneMoves, Rest
<1>6. ASSUME CreateTable PROVE GoneMoves
  BY <1>6, CreateTableDoes, <1>1, <1>2, <1>4 DEF GoneMoves, Rest
<1>7. ASSUME DropTable PROVE GoneMoves
  BY <1>7, DropTableDoes, <1>1, <1>2, <1>4 DEF GoneMoves, Rest
<1>8. ASSUME NEW c \in Columns, CreateIndex(c) \/ DropIndex(c) PROVE GoneMoves
  BY <1>8, IndexDoes, <1>1, <1>2, <1>4 DEF GoneMoves, Rest
<1>9. ASSUME ApplyCreate PROVE GoneMoves
  BY <1>9, ApplyCreateDoes, <1>1, <1>2, <1>4 DEF GoneMoves, Rest
<1>10. ASSUME ApplyDrop PROVE GoneMoves
  BY <1>10, ApplyDropDoes, <1>1, <1>2, <1>4 DEF GoneMoves, Rest
<1>11. ASSUME ApplyCreateIndex PROVE GoneMoves
  BY <1>11, ApplyCreateIndexDoes, <1>1, <1>2, <1>4 DEF GoneMoves, Rest
<1>12. ASSUME ApplyDropIndex PROVE GoneMoves
  BY <1>12, ApplyDropIndexDoes, <1>1, <1>2, <1>4 DEF GoneMoves, Rest
<1>13. ASSUME ApplyMigrate PROVE GoneMoves
  BY <1>13, ApplyMigrateDoes, <1>1, <1>2, <1>4 DEF GoneMoves, Rest
<1>14. ASSUME SaveCatalog PROVE GoneMoves
  BY <1>14, SaveCatalogDoes, <1>1, <1>2, <1>4 DEF GoneMoves, Rest
<1>15. ASSUME RemoveFile PROVE GoneMoves
  BY <1>15, RemoveFileDoes, <1>1, <1>2, <1>4 DEF GoneMoves, Rest
<1>16. ASSUME Publish PROVE GoneMoves
  <2>1. UNCHANGED collect /\ (retired' = retired \/ collect.pc # "locked")
    BY <1>16, PublishDoes, <1>1
  <2> QED
    BY <1>4, <2>1 DEF GoneMoves
<1>17. ASSUME NEW w \in Workers, Start(w) PROVE GoneMoves
  <2>1. UNCHANGED <<collect, retired>>
    BY <1>17, StartDoes, <1>1 DEF Rest
  <2> QED
    BY <1>4, <2>1 DEF GoneMoves
<1>18. ASSUME NEW w \in Workers, Copy(w) PROVE GoneMoves
  <2>1. UNCHANGED <<collect, retired>>
    BY <1>18, CopyFrame, <1>1 DEF Rest
  <2> QED
    BY <1>4, <2>1 DEF GoneMoves
<1>19. ASSUME NEW w \in Workers, Swap(w) PROVE GoneMoves
  <2>1. UNCHANGED <<collect, retired>>
    BY <1>19, SwapFrame, <1>1 DEF Rest
  <2> QED
    BY <1>4, <2>1 DEF GoneMoves
<1>20. ASSUME NEW w \in Workers, Refuse(w) PROVE GoneMoves
  BY <1>20, RefuseDoes, <1>1, <1>2, <1>4 DEF GoneMoves, Rest
<1>21. ASSUME NEW w \in Workers, Release(w) PROVE GoneMoves
  BY <1>21, ReleaseDoes, <1>1, <1>2, <1>4 DEF GoneMoves, Rest
<1>22. ASSUME NEW r \in Readers, Begin(r) PROVE GoneMoves
  BY <1>22, BeginDoes, <1>1, <1>2, <1>4 DEF GoneMoves
<1>23. ASSUME NEW r \in Readers, Finish(r) PROVE GoneMoves
  BY <1>23, FinishDoes, <1>1, <1>2, <1>4 DEF GoneMoves
<1>24. ASSUME CollectStart PROVE GoneMoves
  BY <1>24, CollectStartDoes, <1>1, <1>2, <1>4, CompactionAssumption DEF GoneMoves
<1>25. ASSUME CollectLock PROVE GoneMoves
  <2>1. collect.gone = {} /\ UNCHANGED retired
    BY <1>25, <1>1, <1>4, CollectLockDoes
  <2>2. collect'.gone = collect.gone
    BY <1>25, <1>1, <1>2, <2>1, CollectLockDoes
  <2> QED
    BY <2>1, <2>2 DEF GoneMoves
<1>26. ASSUME CollectRemove PROVE GoneMoves
  BY <1>26, CollectRemoveGone, <1>1 DEF GoneMoves
<1>27. ASSUME Crash PROVE GoneMoves
  BY <1>27, CrashDoes, <1>1, <1>2, <1>4 DEF GoneMoves
<1>28. ASSUME Restart PROVE GoneMoves
  BY <1>28, RestartDoes, <1>1, <1>2, <1>4, ColumnsAre DEF GoneMoves
<1>29. ASSUME Cleanup PROVE GoneMoves
  BY <1>29, CleanupDoes, <1>1, <1>2, <1>4 DEF GoneMoves
<1>30. ASSUME UNCHANGED vars PROVE GoneMoves
  BY <1>30, <1>1, <1>2, <1>4 DEF GoneMoves, vars, directory, server, log, counters
<1> QED
  BY <1>5, <1>6, <1>7, <1>8, <1>9, <1>10, <1>11, <1>12, <1>13, <1>14, <1>15, <1>16, <1>17,
    <1>18, <1>19, <1>20, <1>21, <1>22, <1>23, <1>24, <1>25, <1>26, <1>27, <1>28, <1>29,
    <1>30 DEF Next, Done

\* New files belong to a generation that is in use.
MadeFor ==
    \A p \in DOMAIN files' :
        \/ p \in DOMAIN files
        \/ p[1] \in {catalog.gen, gens'}
        \/ \E w \in Workers : Claims(w) /\ p[1] = workers[w].target

LEMMA MadeBy ==
  ASSUME Core, Next
  PROVE  MadeFor
<1>1. TypeOK /\ Flow /\ Running
  BY DEF Core
<1>2. /\ wal = NoOp <=> wal.kind = "none"
      /\ NoOp.kind = "none" /\ NoTable.id = 0 /\ NoWork.pc = "idle"
      /\ NoCollect.gone = {} /\ NoCollect.pc = "idle"
  BY <1>1, OpIs, OpsAre, EntriesAre DEF TypeOK, LogOK, NoWork, NoCollect
<1>3. (Exists <=> catalog.id # 0) /\ (Exists' <=> catalog'.id # 0)
  BY <1>1, TypeStep, EntryIs DEF TypeOK, DirectoryOK, Exists
<1>4. ASSUME NEW g \in Int, NEW cols \in SUBSET Indexed
      PROVE  \A p \in Paths(g, cols) : p[1] = g
  BY PathsOf
<1>5. ASSUME NEW r \in Rows, Insert(r) \/ Delete(r) PROVE MadeFor
  BY <1>5, InsertDoes, <1>1, <1>2 DEF MadeFor, Rest
<1>6. ASSUME CreateTable PROVE MadeFor
  BY <1>6, CreateTableDoes, <1>1, <1>2 DEF MadeFor, Rest
<1>7. ASSUME DropTable PROVE MadeFor
  BY <1>7, DropTableDoes, <1>1, <1>2 DEF MadeFor, Rest
<1>8. ASSUME NEW c \in Columns, CreateIndex(c) \/ DropIndex(c) PROVE MadeFor
  BY <1>8, IndexDoes, <1>1, <1>2 DEF MadeFor, Rest
<1>9. ASSUME ApplyCreate PROVE MadeFor
  <2>1. gens' \in Int /\ {"id"} \in SUBSET Indexed
    BY TypeStep, ColumnsAre DEF TypeOK, DirectoryOK
  <2> QED
    BY <1>9, <1>1, <1>4, <2>1, ApplyCreateDoes DEF MadeFor
<1>10. ASSUME ApplyDrop PROVE MadeFor
  BY <1>10, ApplyDropDoes, <1>1, <1>2 DEF MadeFor, Rest
<1>11. ASSUME ApplyCreateIndex PROVE MadeFor
  <2>1. catalog.gen \in Int /\ catalog.cols \in SUBSET Indexed
    BY <1>1 DEF TypeOK, DirectoryOK, Entries
  <2>2. Prefix = gens' /\ Prefix \in Int
    BY <1>11, <1>1, PrefixInt, ApplyCreateIndexDoes DEF Flow, Prefix
  <2>3. Index(Prefix, wal.col)[1] = Prefix
    BY <2>2, PathParts
  <2> QED
    BY <1>11, <1>1, <1>4, <2>1, <2>2, <2>3, ApplyCreateIndexDoes DEF MadeFor
<1>12. ASSUME ApplyDropIndex PROVE MadeFor
  BY <1>12, ApplyDropIndexDoes, <1>1, <1>2 DEF MadeFor, Rest
<1>13. ASSUME ApplyMigrate PROVE MadeFor
  BY <1>13, ApplyMigrateDoes, <1>1, <1>2 DEF MadeFor, Rest
<1>14. ASSUME SaveCatalog PROVE MadeFor
  BY <1>14, SaveCatalogDoes, <1>1, <1>2 DEF MadeFor, Rest
<1>15. ASSUME RemoveFile PROVE MadeFor
  BY <1>15, RemoveFileDoes, <1>1, <1>2 DEF MadeFor, Rest
<1>16. ASSUME Publish PROVE MadeFor
  <2>1. catalog.gen \in Int /\ catalog.cols \in SUBSET Indexed
    BY <1>1 DEF TypeOK, DirectoryOK, Entries
  <2>2. \A p \in DOMAIN files' : p \in DOMAIN files \/ p \in Paths(catalog.gen, catalog.cols)
    BY <1>16, <1>1, PublishDoes
  <2> QED
    BY <1>4, <2>1, <2>2 DEF MadeFor
<1>17. ASSUME NEW w \in Workers, Start(w) PROVE MadeFor
  <2>1. UNCHANGED files
    BY <1>17, StartDoes, <1>1
  <2> QED
    BY <2>1 DEF MadeFor
<1>18. ASSUME NEW w \in Workers, Copy(w) PROVE MadeFor
  <2>1. workers[w].pc = "copy"
    BY <1>18, CopyFrame, <1>1
  <2> QED
    BY <1>18, <2>1, CopyData DEF MadeFor, Claims
<1>19. ASSUME NEW w \in Workers, Swap(w) PROVE MadeFor
  <2>1. DOMAIN files' = DOMAIN files
    BY <1>19, SwapFrame, <1>1
  <2> QED
    BY <2>1 DEF MadeFor
<1>20. ASSUME NEW w \in Workers, Refuse(w) PROVE MadeFor
  BY <1>20, RefuseDoes, <1>1, <1>2 DEF MadeFor, Rest
<1>21. ASSUME NEW w \in Workers, Release(w) PROVE MadeFor
  BY <1>21, ReleaseDoes, <1>1, <1>2 DEF MadeFor, Rest
<1>22. ASSUME NEW r \in Readers, Begin(r) PROVE MadeFor
  BY <1>22, BeginDoes, <1>1, <1>2 DEF MadeFor
<1>23. ASSUME NEW r \in Readers, Finish(r) PROVE MadeFor
  BY <1>23, FinishDoes, <1>1, <1>2 DEF MadeFor
<1>24. ASSUME CollectStart PROVE MadeFor
  BY <1>24, CollectStartDoes, <1>1, <1>2, CompactionAssumption DEF MadeFor
<1>25. ASSUME CollectLock PROVE MadeFor
  BY <1>25, CollectLockDoes, <1>1, <1>2 DEF MadeFor
<1>26. ASSUME CollectRemove PROVE MadeFor
  <2>1. DOMAIN files' \subseteq DOMAIN files
    BY <1>26, CollectRemoveDoes, <1>1
  <2> QED
    BY <2>1 DEF MadeFor
<1>27. ASSUME Crash PROVE MadeFor
  BY <1>27, CrashDoes, <1>1, <1>2 DEF MadeFor
<1>28. ASSUME Restart PROVE MadeFor
  BY <1>28, RestartDoes, <1>1, <1>2, ColumnsAre DEF MadeFor
<1>29. ASSUME Cleanup PROVE MadeFor
  <2>1. catalog.gen \in Int /\ catalog.cols \in SUBSET Indexed
    BY <1>1 DEF TypeOK, DirectoryOK, Entries
  <2>2. \A p \in DOMAIN files' : p \in DOMAIN files \/ p \in Paths(catalog.gen, catalog.cols)
    BY <1>29, <1>1, CleanupDoes
  <2> QED
    BY <1>4, <2>1, <2>2 DEF MadeFor
<1>30. ASSUME UNCHANGED vars PROVE MadeFor
  BY <1>30, <1>1, <1>2 DEF MadeFor, vars, directory, server, log, counters
<1> QED
  BY <1>5, <1>6, <1>7, <1>8, <1>9, <1>10, <1>11, <1>12, <1>13, <1>14, <1>15, <1>16, <1>17,
    <1>18, <1>19, <1>20, <1>21, <1>22, <1>23, <1>24, <1>25, <1>26, <1>27, <1>28, <1>29,
    <1>30 DEF Next, Done

\* A table is opened after an operation or a recovery, and stays open.
OpenMoves ==
    mode' = "up" /\ wal'.kind = "none" /\ Exists' =>
        \/ /\ mode = "up" /\ wal.kind = "none" /\ Exists /\ catalog' = catalog
           /\ DOMAIN open' = DOMAIN open
           /\ (open' = open /\ rows' = rows) \/ open'[Db(catalog.gen)] = rows'
        \/ /\ DOMAIN open' = Paths(catalog'.gen, catalog'.cols)
           /\ open'[Db(catalog'.gen)] = files'[Db(catalog'.gen)]

LEMMA ReopenOpens ==
  ASSUME NEW fs, NEW cat, cat # NoTable, Reopen(fs, cat)
  PROVE  DOMAIN open' = Paths(cat.gen, cat.cols) /\ open'[Db(cat.gen)] = files'[Db(cat.gen)]
<1>1. DOMAIN open' = Paths(cat.gen, cat.cols)
  BY DEF Reopen, Opened, Paths
<1>2. Db(cat.gen) \in DOMAIN open'
  BY <1>1 DEF Paths
<1>3. files'[Db(cat.gen)] = open'[Db(cat.gen)]
  BY <1>2 DEF Reopen
<1> QED
  BY <1>1, <1>3

LEMMA OpenBy ==
  ASSUME Core, OpenOK, Next
  PROVE  OpenMoves
<1>1. TypeOK /\ Flow /\ Running
  BY DEF Core
<1>2. /\ wal = NoOp <=> wal.kind = "none"
      /\ NoOp.kind = "none" /\ NoTable.id = 0 /\ NoWork.pc = "idle"
      /\ NoCollect.gone = {} /\ NoCollect.pc = "idle"
  BY <1>1, OpIs, OpsAre, EntriesAre DEF TypeOK, LogOK, NoWork, NoCollect
<1>3. (Exists <=> catalog.id # 0) /\ (Exists' <=> catalog'.id # 0)
  BY <1>1, TypeStep, EntryIs DEF TypeOK, DirectoryOK, Exists
<1>4. wal'.kind # "none" => OpenMoves
  BY DEF OpenMoves
<1>5. UNCHANGED <<mode, wal, catalog, open, rows>> => OpenMoves
  BY <1>3 DEF OpenMoves
<1>6. ASSUME NEW r \in Rows, Insert(r) \/ Delete(r) PROVE OpenMoves
  <2>1. mode = "up" /\ wal.kind = "none" /\ Exists /\ UNCHANGED <<wal, catalog, gens>>
    BY <1>6, InsertDoes, <1>1, <1>2
  <2>2. Prefix = catalog.gen
    BY <1>1, <2>1 DEF Prefix, Flow
  <2>3. Db(catalog.gen) \in DOMAIN open
    BY <1>1, <2>1, PathsOf DEF OpenOK, LivePaths, TypeOK, DirectoryOK, Entries
  <2>4. DOMAIN open' = DOMAIN open /\ open'[Db(catalog.gen)] = rows'
    BY <1>6, <2>2, <2>3, InsertData
  <2> QED
    BY <2>1, <2>4 DEF OpenMoves
<1>7. ASSUME CreateTable PROVE OpenMoves
  <2>1. wal'.kind # "none"
    BY <1>7, CreateTableDoes, <1>1, <1>2
  <2> QED
    BY <1>4, <2>1
<1>8. ASSUME DropTable PROVE OpenMoves
  <2>1. wal'.kind # "none"
    BY <1>8, DropTableDoes, <1>1, <1>2
  <2> QED
    BY <1>4, <2>1
<1>9. ASSUME NEW c \in Columns, CreateIndex(c) \/ DropIndex(c) PROVE OpenMoves
  <2>1. wal'.kind # "none"
    BY <1>9, IndexDoes, <1>1, <1>2
  <2> QED
    BY <1>4, <2>1
<1>10. ASSUME ApplyCreate PROVE OpenMoves
  <2>1. wal'.kind # "none"
    BY <1>10, ApplyCreateDoes, <1>1, <1>2
  <2> QED
    BY <1>4, <2>1
<1>11. ASSUME ApplyDrop PROVE OpenMoves
  <2>1. wal'.kind # "none"
    BY <1>11, ApplyDropDoes, <1>1, <1>2
  <2> QED
    BY <1>4, <2>1
<1>12. ASSUME ApplyCreateIndex PROVE OpenMoves
  <2>1. wal'.kind # "none"
    BY <1>12, ApplyCreateIndexDoes, <1>1, <1>2
  <2> QED
    BY <1>4, <2>1
<1>13. ASSUME ApplyDropIndex PROVE OpenMoves
  <2>1. wal'.kind # "none"
    BY <1>13, ApplyDropIndexDoes, <1>1, <1>2
  <2> QED
    BY <1>4, <2>1
<1>14. ASSUME ApplyMigrate PROVE OpenMoves
  <2>1. wal'.kind # "none"
    BY <1>14, ApplyMigrateDoes, <1>1, <1>2
  <2> QED
    BY <1>4, <2>1
<1>15. ASSUME SaveCatalog PROVE OpenMoves
  <2>1. wal'.kind # "none"
    BY <1>15, SaveCatalogDoes, <1>1, <1>2 DEF Flow
  <2> QED
    BY <1>4, <2>1
<1>16. ASSUME RemoveFile PROVE OpenMoves
  <2>1. wal'.kind # "none"
    BY <1>16, RemoveFileDoes, <1>1, <1>2 DEF Flow
  <2> QED
    BY <1>4, <2>1
<1>17. ASSUME Publish PROVE OpenMoves
  <2>1. Reopen(files, catalog) /\ UNCHANGED catalog
    BY <1>17 DEF Publish
  <2> QED
    BY <2>1, ReopenOpens DEF OpenMoves, Exists
<1>18. ASSUME NEW w \in Workers, Start(w) PROVE OpenMoves
  <2>1. UNCHANGED <<mode, wal, catalog, open, rows>>
    BY <1>18 DEF Start, directory, server, log
  <2> QED
    BY <1>5, <2>1
<1>19. ASSUME NEW w \in Workers, Copy(w) PROVE OpenMoves
  <2>1. UNCHANGED <<mode, wal, catalog, open, rows>>
    BY <1>19 DEF Copy, directory, server, log
  <2> QED
    BY <1>5, <2>1
<1>20. ASSUME NEW w \in Workers, Swap(w) PROVE OpenMoves
  <2>1. wal'.kind # "none"
    BY <1>20, SwapFrame, <1>1, <1>2
  <2> QED
    BY <1>4, <2>1
<1>21. ASSUME NEW w \in Workers, Refuse(w) PROVE OpenMoves
  <2>1. UNCHANGED <<mode, wal, catalog, open, rows>>
    BY <1>21 DEF Refuse, directory, server, log
  <2> QED
    BY <1>5, <2>1
<1>22. ASSUME NEW w \in Workers, Release(w) PROVE OpenMoves
  <2>1. UNCHANGED <<mode, wal, catalog, open, rows>>
    BY <1>22 DEF Release, directory, server, log
  <2> QED
    BY <1>5, <2>1
<1>23. ASSUME NEW r \in Readers, Begin(r) PROVE OpenMoves
  <2>1. UNCHANGED <<mode, wal, catalog, open, rows>>
    BY <1>23 DEF Begin, directory, server, log
  <2> QED
    BY <1>5, <2>1
<1>24. ASSUME NEW r \in Readers, Finish(r) PROVE OpenMoves
  <2>1. UNCHANGED <<mode, wal, catalog, open, rows>>
    BY <1>24 DEF Finish, directory, server, log
  <2> QED
    BY <1>5, <2>1
<1>25. ASSUME CollectStart PROVE OpenMoves
  <2>1. UNCHANGED <<mode, wal, catalog, open, rows>>
    BY <1>25 DEF CollectStart, directory, server, log
  <2> QED
    BY <1>5, <2>1
<1>26. ASSUME CollectLock PROVE OpenMoves
  <2>1. UNCHANGED <<mode, wal, catalog, open, rows>>
    BY <1>26 DEF CollectLock, directory, server, log
  <2> QED
    BY <1>5, <2>1
<1>27. ASSUME CollectRemove PROVE OpenMoves
  <2>1. UNCHANGED <<mode, wal, catalog, open, rows>>
    BY <1>27 DEF CollectRemove, directory, server, log
  <2> QED
    BY <1>5, <2>1
<1>28. ASSUME Crash PROVE OpenMoves
  BY <1>28, CrashDoes DEF OpenMoves
<1>29. ASSUME Restart PROVE OpenMoves
  BY <1>29, <1>1, RestartDoes, ColumnsAre DEF OpenMoves
<1>30. ASSUME Cleanup PROVE OpenMoves
  <2>1. /\ Reopen(Without(files, {p \in DOMAIN files : Orphan(p)}), catalog)
        /\ UNCHANGED catalog
    BY <1>30 DEF Cleanup
  <2> QED
    BY <2>1, ReopenOpens DEF OpenMoves, Exists
<1>31. ASSUME UNCHANGED vars PROVE OpenMoves
  BY <1>31, <1>5 DEF vars, directory, server, log
<1> QED
  BY <1>6, <1>7, <1>8, <1>9, <1>10, <1>11, <1>12, <1>13, <1>14, <1>15, <1>16, <1>17, <1>18,
    <1>19, <1>20, <1>21, <1>22, <1>23, <1>24, <1>25, <1>26, <1>27, <1>28, <1>29, <1>30,
    <1>31 DEF Next, Done

LEMMA RowsTyped ==
  ASSUME rows \in Seq(Values), NEW r \in Rows, Insert(r) \/ Delete(r)
  PROVE  rows' \in Seq(Values)
<1>1. r \in Values
  BY DEF Values
<1>2. CASE Insert(r)
  <2>1. rows' = Append(rows, r)
    BY <1>2 DEF Insert, WriteRows
  <2> QED
    BY <1>1, <2>1
<1>3. CASE Delete(r)
  <2>1. PICK i \in DOMAIN rows : rows' = RemoveAt(rows, i)
    BY <1>3 DEF Delete, WriteRows
  <2>2. /\ i \in 1 .. Len(rows) /\ Len(rows) \in Nat
        /\ \A j \in 1 .. Len(rows) : rows[j] \in Values
    BY LenProperties
  <2>3. SubSeq(rows, 1, i - 1) \in Seq(Values)
    BY <2>2, SubSeqProperties
  <2>4. SubSeq(rows, i + 1, Len(rows)) \in Seq(Values)
    BY <2>2, SubSeqProperties
  <2> QED
    BY <2>1, <2>3, <2>4, ConcatProperties DEF RemoveAt
<1> QED
  BY <1>2, <1>3

LEMMA SequencesStep ==
  ASSUME Core, SequencesOK, Next
  PROVE  SequencesOK'
<1>1. TypeOK /\ Flow /\ Running
  BY DEF Core
<1>2. /\ wal = NoOp <=> wal.kind = "none"
      /\ NoOp.kind = "none" /\ NoTable.id = 0 /\ NoWork.pc = "idle"
      /\ NoCollect.gone = {} /\ NoCollect.pc = "idle"
  BY <1>1, OpIs, OpsAre, EntriesAre DEF TypeOK, LogOK, NoWork, NoCollect
<1>3. (Exists <=> catalog.id # 0) /\ (Exists' <=> catalog'.id # 0)
  BY <1>1, TypeStep, EntryIs DEF TypeOK, DirectoryOK, Exists
<1>4. ASSUME rows' = rows, workers' = workers PROVE SequencesOK'
  BY <1>4 DEF SequencesOK
<1>5. ASSUME rows' = rows, NEW w \in Workers, Others(w),
             workers'[w].pc # "idle" => workers'[w].rows \in Seq(Values)
      PROVE  SequencesOK'
  <2>1. ASSUME NEW v \in Workers, workers'[v].pc # "idle" PROVE workers'[v].rows \in Seq(Values)
    <3>1. CASE v = w
      BY <1>5, <2>1, <3>1
    <3>2. CASE v # w
      BY <1>5, <2>1, <3>2 DEF SequencesOK, Others
    <3> QED
      BY <3>1, <3>2
  <2>2. rows' \in Seq(Values)
    BY <1>5 DEF SequencesOK
  <2> QED
    BY <2>1, <2>2 DEF SequencesOK, Values
<1>6. ASSUME NEW w \in Workers, NEW pc, Further(w, pc), workers[w].pc # "idle"
      PROVE  Others(w) /\ workers'[w].rows \in Seq(Values)
  BY <1>6 DEF Further, SequencesOK
<1>7. ASSUME NEW r \in Rows, Insert(r) \/ Delete(r) PROVE SequencesOK'
  <2>1. rows' \in Seq(Values) /\ workers' = workers
    BY <1>7, RowsTyped, InsertDoes DEF SequencesOK
  <2> QED
    BY <2>1 DEF SequencesOK, Values
<1>8. ASSUME CreateTable PROVE SequencesOK'
  <2>1. UNCHANGED <<rows, workers>>
    BY <1>8 DEF CreateTable, Aside
  <2> QED
    BY <1>4, <2>1
<1>9. ASSUME DropTable PROVE SequencesOK'
  <2>1. rows' = <<>> /\ workers' = workers
    BY <1>9 DEF DropTable
  <2> QED
    BY <2>1 DEF SequencesOK, Values
<1>10. ASSUME NEW c \in Columns, CreateIndex(c) \/ DropIndex(c) PROVE SequencesOK'
  <2>1. UNCHANGED <<rows, workers>>
    BY <1>10 DEF CreateIndex, DropIndex, Aside
  <2> QED
    BY <1>4, <2>1
<1>11. ASSUME ApplyCreate PROVE SequencesOK'
  <2>1. UNCHANGED <<rows, workers>>
    BY <1>11 DEF ApplyCreate, Aside
  <2> QED
    BY <1>4, <2>1
<1>12. ASSUME ApplyDrop PROVE SequencesOK'
  <2>1. UNCHANGED <<rows, workers>>
    BY <1>12 DEF ApplyDrop, Aside
  <2> QED
    BY <1>4, <2>1
<1>13. ASSUME ApplyCreateIndex PROVE SequencesOK'
  <2>1. UNCHANGED <<rows, workers>>
    BY <1>13 DEF ApplyCreateIndex, Aside
  <2> QED
    BY <1>4, <2>1
<1>14. ASSUME ApplyDropIndex PROVE SequencesOK'
  <2>1. UNCHANGED <<rows, workers>>
    BY <1>14 DEF ApplyDropIndex, Aside
  <2> QED
    BY <1>4, <2>1
<1>15. ASSUME ApplyMigrate PROVE SequencesOK'
  <2>1. UNCHANGED <<rows, workers>>
    BY <1>15 DEF ApplyMigrate, Aside
  <2> QED
    BY <1>4, <2>1
<1>16. ASSUME SaveCatalog PROVE SequencesOK'
  <2>1. UNCHANGED <<rows, workers>>
    BY <1>16 DEF SaveCatalog, Aside
  <2> QED
    BY <1>4, <2>1
<1>17. ASSUME RemoveFile PROVE SequencesOK'
  <2>1. UNCHANGED <<rows, workers>>
    BY <1>17 DEF RemoveFile, Aside
  <2> QED
    BY <1>4, <2>1
<1>18. ASSUME Publish PROVE SequencesOK'
  <2>1. rows' = rows
    BY <1>18 DEF Publish
  <2>2. CASE wal.kind = "migrate" /\ mode = "up"
    <3>1. /\ wal.by \in Workers /\ Further(wal.by, "done") /\ workers[wal.by].pc # "idle"
      BY <1>18, <1>1, <2>2, PublishDoes DEF Running
    <3> QED
      BY <1>5, <1>6, <2>1, <3>1
  <2>3. CASE ~ (wal.kind = "migrate" /\ mode = "up")
    BY <1>18, <1>1, <1>4, <2>1, <2>3, PublishDoes
  <2> QED
    BY <2>2, <2>3
<1>19. ASSUME NEW w \in Workers, Start(w) PROVE SequencesOK'
  <2>1. rows' = rows /\ Others(w)
    BY <1>19, <1>1, StartDoes DEF Start
  <2>2. workers'[w].rows = rows
    BY <1>19, <1>1, StartDoes
  <2> QED
    BY <1>5, <2>1, <2>2 DEF SequencesOK
<1>20. ASSUME NEW w \in Workers, Copy(w) PROVE SequencesOK'
  <2>1. rows' = rows /\ Others(w) /\ workers[w].pc # "idle"
    BY <1>20, <1>1, CopyDoes DEF Copy
  <2>2. workers'[w].rows = workers[w].rows
    BY <1>20, <1>1, CopyFields
  <2> QED
    BY <1>5, <2>1, <2>2 DEF SequencesOK
<1>21. ASSUME NEW w \in Workers, Swap(w) PROVE SequencesOK'
  <2>1. rows' = rows /\ Others(w) /\ workers[w].pc # "idle"
    BY <1>21, <1>1, SwapDoes DEF Swap
  <2>2. workers'[w].rows = workers[w].rows
    BY <1>21, <1>1, SwapFields
  <2> QED
    BY <1>5, <2>1, <2>2 DEF SequencesOK
<1>22. ASSUME NEW w \in Workers, Refuse(w) PROVE SequencesOK'
  <2>1. rows' = rows /\ Further(w, "failed") /\ workers[w].pc # "idle"
    BY <1>22, <1>1, RefuseDoes DEF Refuse
  <2> QED
    BY <1>5, <1>6, <2>1
<1>23. ASSUME NEW w \in Workers, Release(w) PROVE SequencesOK'
  <2>1. rows' = rows /\ Others(w) /\ workers'[w].pc = "idle"
    BY <1>23, <1>1, <1>2, ReleaseDoes DEF Release
  <2> QED
    BY <1>5, <2>1
<1>24. ASSUME NEW r \in Readers, Begin(r) PROVE SequencesOK'
  <2>1. UNCHANGED <<rows, workers>>
    BY <1>24 DEF Begin, Aside
  <2> QED
    BY <1>4, <2>1
<1>25. ASSUME NEW r \in Readers, Finish(r) PROVE SequencesOK'
  <2>1. UNCHANGED <<rows, workers>>
    BY <1>25 DEF Finish, Aside
  <2> QED
    BY <1>4, <2>1
<1>26. ASSUME CollectStart PROVE SequencesOK'
  <2>1. UNCHANGED <<rows, workers>>
    BY <1>26 DEF CollectStart, Aside
  <2> QED
    BY <1>4, <2>1
<1>27. ASSUME CollectLock PROVE SequencesOK'
  <2>1. UNCHANGED <<rows, workers>>
    BY <1>27 DEF CollectLock, Aside
  <2> QED
    BY <1>4, <2>1
<1>28. ASSUME CollectRemove PROVE SequencesOK'
  <2>1. UNCHANGED <<rows, workers>>
    BY <1>28 DEF CollectRemove, Aside
  <2> QED
    BY <1>4, <2>1
<1>29. ASSUME Crash PROVE SequencesOK'
  <2>1. rows' = rows /\ \A w \in Workers : workers'[w].pc = "idle"
    BY <1>29, <1>2 DEF Crash
  <2> QED
    BY <2>1 DEF SequencesOK, Values
<1>30. ASSUME Restart PROVE SequencesOK'
  <2>1. UNCHANGED <<rows, workers>>
    BY <1>30 DEF Restart, Aside
  <2> QED
    BY <1>4, <2>1
<1>31. ASSUME Cleanup PROVE SequencesOK'
  <2>1. UNCHANGED <<rows, workers>>
    BY <1>31 DEF Cleanup, Aside
  <2> QED
    BY <1>4, <2>1
<1>32. ASSUME UNCHANGED vars PROVE SequencesOK'
  BY <1>32, <1>4 DEF vars
<1> QED
  BY <1>7, <1>8, <1>9, <1>10, <1>11, <1>12, <1>13, <1>14, <1>15, <1>16, <1>17, <1>18, <1>19,
    <1>20, <1>21, <1>22, <1>23, <1>24, <1>25, <1>26, <1>27, <1>28, <1>29, <1>30, <1>31,
    <1>32 DEF Next, Done

\* A change of generation is logged by a compaction's second phase.
LogsBySwap == wal'.kind = "migrate" => wal' = wal \/ \E w \in Workers : Swap(w)

LEMMA SwapBy ==
  ASSUME Core, Next
  PROVE  LogsBySwap
<1>1. TypeOK /\ Flow /\ Running
  BY DEF Core
<1>2. /\ wal = NoOp <=> wal.kind = "none"
      /\ NoOp.kind = "none"
  BY <1>1, OpIs, OpsAre DEF TypeOK, LogOK
<1>3. ASSUME NEW r \in Rows, Insert(r) \/ Delete(r) PROVE LogsBySwap
  BY <1>3, InsertDoes, <1>1, <1>2 DEF LogsBySwap, Rest
<1>4. ASSUME CreateTable PROVE LogsBySwap
  BY <1>4, CreateTableDoes, <1>1, <1>2 DEF LogsBySwap, Rest
<1>5. ASSUME DropTable PROVE LogsBySwap
  BY <1>5, DropTableDoes, <1>1, <1>2 DEF LogsBySwap, Rest
<1>6. ASSUME NEW c \in Columns, CreateIndex(c) \/ DropIndex(c) PROVE LogsBySwap
  BY <1>6, IndexDoes, <1>1, <1>2 DEF LogsBySwap, Rest
<1>7. ASSUME ApplyCreate PROVE LogsBySwap
  BY <1>7, ApplyCreateDoes, <1>1, <1>2 DEF LogsBySwap, Rest
<1>8. ASSUME ApplyDrop PROVE LogsBySwap
  BY <1>8, ApplyDropDoes, <1>1, <1>2 DEF LogsBySwap, Rest
<1>9. ASSUME ApplyCreateIndex PROVE LogsBySwap
  BY <1>9, ApplyCreateIndexDoes, <1>1, <1>2 DEF LogsBySwap, Rest
<1>10. ASSUME ApplyDropIndex PROVE LogsBySwap
  BY <1>10, ApplyDropIndexDoes, <1>1, <1>2 DEF LogsBySwap, Rest
<1>11. ASSUME ApplyMigrate PROVE LogsBySwap
  BY <1>11, ApplyMigrateDoes, <1>1, <1>2 DEF LogsBySwap, Rest
<1>12. ASSUME SaveCatalog PROVE LogsBySwap
  BY <1>12, SaveCatalogDoes, <1>1, <1>2 DEF LogsBySwap, Rest
<1>13. ASSUME RemoveFile PROVE LogsBySwap
  BY <1>13, RemoveFileDoes, <1>1, <1>2 DEF LogsBySwap, Rest
<1>14. ASSUME Publish PROVE LogsBySwap
  BY <1>14, PublishDoes, <1>1, <1>2 DEF LogsBySwap
<1>15. ASSUME NEW w \in Workers, Start(w) PROVE LogsBySwap
  <2>1. UNCHANGED wal
    BY <1>15, StartDoes, <1>1
  <2> QED
    BY <2>1 DEF LogsBySwap
<1>16. ASSUME NEW w \in Workers, Copy(w) PROVE LogsBySwap
  <2>1. UNCHANGED wal
    BY <1>16, CopyFrame, <1>1
  <2> QED
    BY <2>1 DEF LogsBySwap
<1>17. ASSUME NEW w \in Workers, Swap(w) PROVE LogsBySwap
  BY <1>17 DEF LogsBySwap
<1>18. ASSUME NEW w \in Workers, Refuse(w) PROVE LogsBySwap
  BY <1>18, RefuseDoes, <1>1, <1>2 DEF LogsBySwap, Rest
<1>19. ASSUME NEW w \in Workers, Release(w) PROVE LogsBySwap
  BY <1>19, ReleaseDoes, <1>1, <1>2 DEF LogsBySwap, Rest
<1>20. ASSUME NEW r \in Readers, Begin(r) PROVE LogsBySwap
  BY <1>20, BeginDoes, <1>1, <1>2 DEF LogsBySwap
<1>21. ASSUME NEW r \in Readers, Finish(r) PROVE LogsBySwap
  BY <1>21, FinishDoes, <1>1, <1>2 DEF LogsBySwap
<1>22. ASSUME CollectStart PROVE LogsBySwap
  BY <1>22, CollectStartDoes, <1>1, CompactionAssumption DEF LogsBySwap
<1>23. ASSUME CollectLock PROVE LogsBySwap
  BY <1>23, CollectLockDoes, <1>1, <1>2 DEF LogsBySwap
<1>24. ASSUME CollectRemove PROVE LogsBySwap
  <2>1. UNCHANGED wal
    BY <1>24, CollectRemoveDoes, <1>1
  <2> QED
    BY <2>1 DEF LogsBySwap
<1>25. ASSUME Crash PROVE LogsBySwap
  BY <1>25, CrashDoes, <1>1, <1>2 DEF LogsBySwap
<1>26. ASSUME Restart PROVE LogsBySwap
  BY <1>26, RestartDoes, <1>1, ColumnsAre DEF LogsBySwap
<1>27. ASSUME Cleanup PROVE LogsBySwap
  BY <1>27, CleanupDoes, <1>1, <1>2 DEF LogsBySwap
<1>28. ASSUME UNCHANGED vars PROVE LogsBySwap
  BY <1>28, <1>1, <1>2 DEF LogsBySwap, vars, directory, server, log, counters
<1> QED
  BY <1>3, <1>4, <1>5, <1>6, <1>7, <1>8, <1>9, <1>10, <1>11, <1>12, <1>13, <1>14, <1>15,
    <1>16, <1>17, <1>18, <1>19, <1>20, <1>21, <1>22, <1>23, <1>24, <1>25, <1>26, <1>27,
    <1>28 DEF Next, Done

LEMMA SwapsRows ==
  ASSUME RowsInv, Next, wal'.kind = "migrate", wal' # wal
  PROVE  /\ mode = "up" /\ wal.kind = "none" /\ Exists /\ DOMAIN files' = DOMAIN files
         /\ wal'.source = catalog.gen /\ Db(wal'.target) \in DOMAIN files'
         /\ files'[Db(wal'.target)] = rows /\ rows' = rows
         /\ UNCHANGED <<catalog, retired, collect, mode>>
<1>1. Core /\ TypeOK /\ Flow /\ Fresh /\ SequencesOK /\ OpenOK
  BY DEF RowsInv, Core
<1>2. PICK w \in Workers : Swap(w)
  BY <1>1, SwapBy DEF LogsBySwap
<1>3. /\ mode = "up" /\ wal.kind = "none" /\ Exists /\ wal'.target = workers[w].target
      /\ wal'.source = catalog.gen /\ workers[w].pc = "swap"
      /\ UNCHANGED <<catalog, retired, collect, mode>>
  BY <1>1, <1>2, SwapFrame, OpsAre DEF Rest
<1>4. Prefix = catalog.gen
  BY <1>1, <1>3 DEF Flow, Prefix
<1>5. open[Db(Prefix)] = rows
  BY <1>1, <1>3, <1>4 DEF OpenOK
<1>6. rows \in Seq(Values) /\ workers[w].rows \in Seq(Values)
  BY <1>1, <1>3 DEF SequencesOK
<1>7. CatchUp(workers[w].rows, open[Db(Prefix)]) = rows
  BY <1>5, <1>6, CaughtUp
<1>8. Db(workers[w].target) \in DOMAIN files
  BY <1>1, <1>3 DEF Fresh, Claims
<1> QED
  BY <1>2, <1>3, <1>7, <1>8, SwapData

LEMMA DataPath ==
  ASSUME NEW p \in FilePaths, p[2] = "db"
  PROVE  p = Db(p[1])
BY DEF FilePaths, Db

\* What is removed of an entry that stays, stays removed.
LEMMA GoneStays ==
  ASSUME Core, GoneOK, Next, NEW e \in retired, e \in retired', NEW p \in e.paths, p[2] = "db",
         p \in collect.gone
  PROVE  p \in collect'.gone
<1>1. ASSUME NEW x \in retired, \A o \in retired : x.csn <= o.csn, retired' = retired \ {x}
      PROVE  FALSE
  <2>1. PICK f \in retired : p \in f.paths /\ \A o \in retired : f.csn <= o.csn
    BY DEF GoneOK
  <2>2. f = e
    BY <2>1 DEF GoneOK
  <2>3. e.csn \in Nat /\ x.csn \in Nat
    BY DEF Core, TypeOK, RetiredOK
  <2>4. e.csn = x.csn
    BY <1>1, <2>1, <2>2, <2>3
  <2>5. e = x
    BY <2>4 DEF GoneOK
  <2> QED
    BY <1>1, <2>5
<1> QED
  BY <1>1, GoneBy DEF GoneMoves

HeldIn(entries, gone, g) == (\E e \in entries : Db(g) \in e.paths) /\ Db(g) \notin gone

\* A data file that is held was held before or is retired now.
LEMMA HeldBy ==
  ASSUME Core, GoneOK, Next, NEW g \in Int, HeldIn(retired', collect'.gone, g)
  PROVE  \/ Held(g) /\ mode = "up"
         \/ /\ g = wal.source /\ mode = "up" /\ wal.kind = "migrate" /\ step = "publish"
            /\ wal'.kind = "none" /\ catalog.gen = wal.target /\ catalog' = catalog
            /\ left' = left
<1>1. PICK e \in retired' : Db(g) \in e.paths /\ Db(g) \notin collect'.gone
  BY DEF HeldIn
<1>2. Db(g)[1] = g /\ Db(g)[2] = "db"
  BY PathParts
<1>3. CASE e \in retired
  <2>1. Db(g) \notin collect.gone
    BY <1>1, <1>2, <1>3, GoneStays
  <2> QED
    BY <1>1, <1>3, <2>1 DEF Held, Core, Running
<1>4. CASE Retires(e)
  BY <1>1, <1>2, <1>4, MigrateFacts DEF Retires, Core, MigrateOK
<1> QED
  BY <1>3, <1>4, RetiredBy

LEMMA HeldDead ==
  ASSUME NEW g \in Int, Held(g)
  PROVE  Dead(g)
BY PathParts DEF Held, Dead

LEMMA GoneStep ==
  ASSUME Core, GoneOK, HeldOK, Next
  PROVE  GoneOK'
<1>1. (collect.pc # "locked" => collect.gone = {})'
  BY GoneBy DEF GoneMoves
<1>2. retired' \subseteq [csn : 0 .. csn', paths : SUBSET FilePaths]
  BY TypeStep DEF TypeOK, RetiredOK
<1>3. ASSUME NEW e \in retired', NEW f \in retired', Retires(e), Retires(f) PROVE e = f
  <2>1. e.csn = f.csn /\ e.paths = f.paths
    BY <1>3 DEF Retires
  <2> QED
    BY <1>2, <2>1
<1>4. ASSUME NEW e \in retired, NEW f, Retires(f) PROVE e.csn # f.csn
  BY <1>4 DEF Retires, Core, TypeOK, RetiredOK, CountersOK
<1>5. ASSUME NEW e \in retired, NEW f, Retires(f), NEW p \in e.paths, p \in f.paths, p[2] = "db"
      PROVE  FALSE
  <2>1. mode = "up" /\ wal.kind = "migrate" /\ p[1] = wal.source /\ collect.pc # "locked"
    BY <1>5, MigrateFacts DEF Retires
  <2>2. p \in FilePaths
    BY <1>5 DEF Core, TypeOK, RetiredOK
  <2>3. p = Db(wal.source)
    BY <1>5, <2>1, <2>2, DataPath
  <2>4. collect.gone = {}
    BY <2>1 DEF GoneOK
  <2>5. Held(wal.source)
    BY <1>5, <2>3, <2>4 DEF Held
  <2> QED
    BY <2>1, <2>5 DEF HeldOK
<1>6. (\A e, f \in retired : e.csn = f.csn => e = f)'
  <2>1. ASSUME NEW e \in retired', NEW f \in retired', e.csn = f.csn PROVE e = f
    BY <1>3, <1>4, <2>1, RetiredBy DEF GoneOK
  <2> QED
    BY <2>1
<1>7. (\A e, f \in retired : \A p \in e.paths : p \in f.paths /\ p[2] = "db" => e = f)'
  <2>1. ASSUME NEW e \in retired', NEW f \in retired', NEW p \in e.paths, p \in f.paths,
               p[2] = "db"
        PROVE  e = f
    BY <1>3, <1>5, <2>1, RetiredBy DEF GoneOK
  <2> QED
    BY <2>1
<1>8. (\A p \in collect.gone : \E e \in retired :
            p \in e.paths /\ \A o \in retired : e.csn <= o.csn)'
  BY GoneBy DEF GoneMoves, GoneOK
<1> QED
  BY <1>1, <1>6, <1>7, <1>8 DEF GoneOK

LEMMA HeldTable ==
  ASSUME Core, GoneOK, HeldOK, Next, Exists', HeldIn(retired', collect'.gone, catalog'.gen)
  PROVE  FALSE
<1> DEFINE g == catalog'.gen
<1>1. HeldIn(retired', collect'.gone, g)
  OBVIOUS
<1>2. g \in Int
  BY TypeStep DEF TypeOK, DirectoryOK, Entries
<1> HIDE DEF g
<1>3. CASE Held(g) /\ mode = "up"
  <2>1. CASE Exists /\ g = catalog.gen
    BY <1>3, <2>1 DEF HeldOK
  <2>2. CASE wal.kind = "create" /\ step = "save" /\ g = gens
    BY <1>3, <2>2 DEF HeldOK
  <2>3. CASE wal.kind = "migrate" /\ g = wal.target
    BY <1>2, <1>3, <2>3, MigrateFacts, HeldDead
  <2> QED
    BY <2>1, <2>2, <2>3, TableBy DEF TableMoves, g
<1>4. CASE /\ g = wal.source /\ mode = "up" /\ wal.kind = "migrate" /\ step = "publish"
           /\ catalog.gen = wal.target /\ catalog' = catalog
  BY <1>4, MigrateFacts DEF g
<1> QED
  BY <1>1, <1>2, <1>3, <1>4, HeldBy

LEMMA HeldCreated ==
  ASSUME Core, GoneOK, HeldOK, Next, wal'.kind = "create", step' = "save",
         HeldIn(retired', collect'.gone, gens')
  PROVE  FALSE
<1> DEFINE g == gens'
<1>1. HeldIn(retired', collect'.gone, g)
  OBVIOUS
<1>2. g \in Int
  BY TypeStep DEF TypeOK, DirectoryOK
<1> HIDE DEF g
<1>3. Held(g) /\ mode = "up"
  BY <1>1, <1>2, HeldBy
<1>4. CASE wal.kind = "create" /\ step = "save" /\ g = gens
  BY <1>3, <1>4 DEF HeldOK
<1>5. CASE /\ wal.kind = "create" /\ step = "apply"
           /\ g = IF Db(Plain) \in DOMAIN files THEN ObjectGen(wal.id) ELSE Plain
  <2>1. PICK e \in retired : Db(g) \in e.paths /\ Db(g) \notin collect.gone
    BY <1>3 DEF Held
  <2>2. Db(g)[1] = g /\ Db(g)[2] = "db"
    BY <1>2, PathParts
  <2>3. g # ObjectGen(wal.id)
    <3>1. Db(g)[1] > ObjectGen(wal.id)
      BY <1>3, <1>5, <2>1 DEF Core, Bounds, NamedDead
    <3>2. ObjectGen(wal.id) \in Int
      BY <1>5, OpIs DEF Core, TypeOK, LogOK, ObjectGen
    <3> QED
      BY <2>2, <3>1, <3>2
  <2>4. g = Plain /\ Db(g) \notin DOMAIN files
    BY <1>5, <2>3
  <2> QED
    BY <2>1, <2>2, <2>4 DEF HeldOK
<1> QED
  BY <1>4, <1>5, CreatesBy DEF CreatesOwn, g

LEMMA HeldSource ==
  ASSUME Core, GoneOK, HeldOK, Next, mode' = "up", wal'.kind = "migrate",
         HeldIn(retired', collect'.gone, wal'.source)
  PROVE  FALSE
<1> DEFINE g == wal'.source
<1>1. HeldIn(retired', collect'.gone, g)
  OBVIOUS
<1>2. g \in Int
  BY TypeStep, OpIs DEF TypeOK, LogOK
<1> HIDE DEF g
<1>3. Held(g) /\ mode = "up"
  BY <1>1, <1>2, HeldBy
<1>4. CASE wal' = wal
  BY <1>3, <1>4 DEF HeldOK, g
<1>5. CASE wal' # wal
  <2>1. g = catalog.gen /\ catalog' = catalog
    BY <1>5, MigratesBy DEF MigratesOwn, g
  <2>2. Flow'
    BY FlowStep
  <2>3. Exists'
    BY <2>2 DEF Flow
  <2>4. Exists
    BY <2>1, <2>3 DEF Exists, NoTable
  <2> QED
    BY <1>3, <2>1, <2>4 DEF HeldOK
<1> QED
  BY <1>4, <1>5

LEMMA HeldLeft ==
  ASSUME Core, GoneOK, HeldOK, Next, NEW p \in left', p[2] = "db",
         HeldIn(retired', collect'.gone, p[1])
  PROVE  FALSE
<1>1. p[1] \in Int
  BY TypeStep DEF TypeOK, LogOK, FilePaths
<1>2. CASE p \in left
  <2>1. ~ Held(p[1])
    BY <1>2 DEF HeldOK
  <2> QED
    BY <1>1, <1>2, <2>1, HeldBy, MigrateFacts
<1>3. CASE p[1] = Prefix /\ step = "apply" /\ wal.kind \in {"drop", "unindex"}
  <2>1. Held(Prefix) /\ mode = "up"
    BY <1>1, <1>3, HeldBy
  <2>2. Exists /\ Prefix = catalog.gen
    BY <1>3, <2>1, PrefixIs
  <2> QED
    BY <2>1, <2>2 DEF HeldOK
<1> QED
  BY <1>2, <1>3, LeftBy DEF LeavesOwn

LEMMA HeldFiles ==
  ASSUME Core, GoneOK, HeldOK, DataOK, OpenOK, Next, NEW e \in retired', NEW p \in e.paths,
         p[2] = "db"
  PROVE  p \in DOMAIN files' \/ p \in collect'.gone
<1>1. CASE e \in retired
  <2>1. p \in FilePaths
    BY <1>1 DEF Core, TypeOK, RetiredOK
  <2>2. p = Db(p[1])
    BY <2>1, DataPath
  <2>3. mode = "up"
    BY <1>1 DEF Core, Running
  <2>4. CASE p \in collect.gone
    BY <1>1, <2>4, GoneStays
  <2>5. CASE p \notin collect.gone
    <3>1. p \in DOMAIN files
      BY <1>1, <2>5 DEF HeldOK
    <3>2. Held(p[1])
      BY <1>1, <2>2, <2>5 DEF Held
    <3>3. p \notin left
      BY <3>2 DEF HeldOK
    <3>4. ASSUME NEW f \in retired, p \in f.paths, f \in retired' => p \in collect'.gone
          PROVE  p \in collect'.gone
      BY <1>1, <3>4 DEF GoneOK
    <3>5. Takes(p) => p \in collect'.gone
      BY <2>3, <3>3, <3>4 DEF Takes
    <3> QED
      BY <3>1, <3>5, DataBy DEF DataMoves
  <2> QED
    BY <2>4, <2>5
<1>2. CASE Retires(e)
  <2>1. /\ mode = "up" /\ wal.kind = "migrate" /\ p[1] = wal.source
        /\ DOMAIN files \subseteq DOMAIN files'
    BY <1>2, MigrateFacts DEF Retires
  <2>2. p \in FilePaths
    BY TypeStep DEF TypeOK, RetiredOK
  <2>3. p = Db(wal.source)
    BY <2>1, <2>2, DataPath
  <2> QED
    BY <2>1, <2>3 DEF DataOK
<1> QED
  BY <1>1, <1>2, RetiredBy

LEMMA HeldStep ==
  ASSUME Core, GoneOK, HeldOK, DataOK, OpenOK, Next
  PROVE  HeldOK'
<1>1. (Exists => ~ Held(catalog.gen))'
  BY HeldTable DEF Held, HeldIn, Db
<1>2. (wal.kind = "create" /\ step = "save" => ~ Held(gens))'
  BY HeldCreated DEF Held, HeldIn, Db
<1>3. (mode = "up" /\ wal.kind = "migrate" => ~ Held(wal.source))'
  BY HeldSource DEF Held, HeldIn, Db
<1>4. (\A p \in left : p[2] = "db" => ~ Held(p[1]))'
  BY HeldLeft DEF Held, HeldIn, Db
<1>5. (\A e \in retired : \A p \in e.paths :
          p[2] = "db" => p \in DOMAIN files \/ p \in collect.gone)'
  BY HeldFiles
<1> QED
  BY <1>1, <1>2, <1>3, <1>4, <1>5 DEF HeldOK

HasIn(fs, rs, g) == Db(g) \in DOMAIN fs /\ fs[Db(g)] = rs

LEMMA DataStays ==
  ASSUME Core, OpenOK, Next, NEW g \in Int, ~ Held(g), Db(g) \notin left,
         mode = "recover" /\ wal.kind = "none" => Exists /\ g = catalog.gen,
         Db(g) \in DOMAIN files
  PROVE  Db(g) \in DOMAIN files' /\ (files'[Db(g)] = files[Db(g)] \/ Fills(Db(g)))
<1>1. Db(g)[1] = g /\ Db(g)[2] = "db"
  BY PathParts
<1>2. ~ Takes(Db(g))
  BY <1>1 DEF Takes, Held
<1> QED
  BY <1>1, <1>2, DataBy DEF DataMoves

\* No compaction copies to the files of a table that is being created.
LEMMA CreatedUnfilled ==
  ASSUME Core, wal.kind # "none", NEW g \in Int, g <= 0
  PROVE  ~ Fills(Db(g))
<1>1. Db(g)[1] = g
  BY PathParts
<1>2. ASSUME NEW w \in Workers, workers[w].pc \in {"copy", "swap"}, g = workers[w].target
      PROVE  FALSE
  <2>1. g \in 1 .. copies /\ copies \in Int
    BY <1>2 DEF Claims, Core, Bounds, NamedTargets, TypeOK, CountersOK
  <2> QED
    BY <2>1
<1> QED
  BY <1>1, <1>2 DEF Fills

\* While an operation is applied the committed rows stay as they are.
LEMMA RowsStayLogged ==
  ASSUME Core, OpenOK, Next, wal.kind # "none"
  PROVE  rows' = rows
BY RowsBy DEF RowsMoves

LEMMA CreatedStays ==
  ASSUME RowsInv, Next, wal.kind = "create", step = "save"
  PROVE  HasIn(files', rows', gens)
<1>1. /\ Core /\ Flow /\ TypeOK /\ OpenOK /\ HeldOK /\ DataOK
  BY DEF RowsInv, Core
<1>2. gens \in Int /\ gens <= 0 /\ left = {} /\ ~ Held(gens)
  BY <1>1 DEF TypeOK, DirectoryOK, Flow, HeldOK
<1>3. HasRows(gens)
  BY <1>1 DEF DataOK
<1>4. rows' = rows
  BY <1>1, RowsStayLogged
<1>5. ~ Fills(Db(gens))
  BY <1>1, <1>2, CreatedUnfilled
<1>6. Db(gens) \in DOMAIN files' /\ files'[Db(gens)] = files[Db(gens)]
  BY <1>1, <1>2, <1>3, <1>5, DataStays DEF HasRows
<1> QED
  BY <1>3, <1>4, <1>6 DEF HasRows, HasIn

LEMMA TargetData ==
  ASSUME RowsInv, Next, wal.kind = "migrate"
  PROVE  HasIn(files', rows', wal.target)
<1>1. /\ Core /\ Flow /\ TypeOK /\ OpenOK /\ DataOK /\ Running /\ Fresh
  BY DEF RowsInv, Core
<1>2. wal.target \in Nat /\ left = {}
  BY <1>1, OpIs DEF TypeOK, LogOK, Flow
<1>3. HasRows(wal.target)
  BY <1>1 DEF DataOK
<1>4. rows' = rows
  BY <1>1, RowsStayLogged
<1>5. ~ Held(wal.target)
  <2>1. CASE mode = "up"
    BY <1>1, <1>2, <2>1, MigrateFacts, HeldDead
  <2>2. CASE mode # "up"
    BY <1>1, <2>2 DEF Running, Held
  <2> QED
    BY <2>1, <2>2
<1>6. ASSUME NEW w \in Workers, workers[w].pc \in {"copy", "swap"}, wal.target = workers[w].target
      PROVE  FALSE
  <2>1. mode = "up"
    BY <1>1, <1>6 DEF Running, NoWork
  <2>2. /\ wal.by \in Workers /\ workers[wal.by].pc = "logged"
        /\ workers[wal.by].target = wal.target
    BY <1>1, <2>1, MigrateFacts DEF Running
  <2>3. w = wal.by
    BY <1>1, <1>6, <2>2 DEF Fresh, Claims
  <2> QED
    BY <1>6, <2>2, <2>3
<1>7. ~ Fills(Db(wal.target))
  BY <1>2, <1>6, PathParts DEF Fills
<1>8. Db(wal.target) \in DOMAIN files' /\ files'[Db(wal.target)] = files[Db(wal.target)]
  BY <1>1, <1>2, <1>3, <1>5, <1>7, DataStays DEF HasRows
<1> QED
  BY <1>3, <1>4, <1>8 DEF HasRows, HasIn

LEMMA TableData ==
  ASSUME RowsInv, Next, Exists, wal.kind # "drop", wal.kind # "migrate", wal'.kind # "drop"
  PROVE  HasIn(files', rows', catalog.gen)
<1>1. /\ Core /\ Flow /\ TypeOK /\ OpenOK /\ HeldOK /\ DataOK /\ Fresh
  BY DEF RowsInv, Core
<1>2. catalog.gen \in Int /\ ~ Held(catalog.gen)
  BY <1>1 DEF TypeOK, DirectoryOK, Entries, HeldOK
<1>3. Db(catalog.gen) \notin left
  BY <1>1, <1>2, PathParts DEF Flow
<1>4. HasRows(catalog.gen)
  BY <1>1 DEF DataOK
<1> DEFINE p == Db(catalog.gen)
<1>5. p \in DOMAIN files' /\ (files'[p] = files[p] \/ Fills(p))
  BY <1>1, <1>2, <1>3, <1>4, DataStays DEF HasRows
<1>6. ASSUME NEW w \in Workers, workers[w].pc \in {"copy", "swap"}
      PROVE  p[1] # workers[w].target
  BY <1>1, <1>2, <1>6, PathParts DEF Fresh, Claims
<1>7. files'[p] = files[p] \/ files'[p] = rows'
  <2> HIDE DEF p
  <2> QED
    BY <1>5, <1>6 DEF Fills
<1>8. CASE rows' = rows
  BY <1>4, <1>5, <1>7, <1>8 DEF HasRows, HasIn
<1>9. CASE rows' # rows
  <2>1. Db(catalog.gen) \in DOMAIN files' /\ files'[Db(catalog.gen)] = rows'
    BY <1>1, <1>4, <1>9, RowsBy DEF RowsMoves, HasRows
  <2> QED
    BY <2>1 DEF HasIn
<1> QED
  BY <1>8, <1>9

LEMMA DataTable ==
  ASSUME RowsInv, Next, Exists', wal'.kind \notin {"drop", "migrate"}
  PROVE  HasIn(files', rows', catalog'.gen)
<1>1. Core /\ MigrateOK /\ DataOK
  BY DEF RowsInv, Core
<1>2. CASE Exists /\ catalog'.gen = catalog.gen
  <2>1. CASE wal.kind = "migrate"
    <3>1. catalog.gen = wal.target
      BY <1>1, <2>1, TurnsBy DEF TableTurns, MigrateOK
    <3> QED
      BY <1>2, <2>1, <3>1, TargetData
  <2>2. CASE wal.kind = "drop"
    BY <1>1, <1>2, <2>2, TurnsBy DEF TableTurns, DataOK
  <2>3. CASE wal.kind # "migrate" /\ wal.kind # "drop"
    BY <1>2, <2>3, TableData
  <2> QED
    BY <2>1, <2>2, <2>3
<1>3. CASE wal.kind = "create" /\ step = "save" /\ catalog'.gen = gens
  BY <1>3, CreatedStays
<1> QED
  BY <1>1, <1>2, <1>3, TableBy DEF TableMoves

LEMMA DataTarget ==
  ASSUME RowsInv, Next, wal'.kind = "migrate"
  PROVE  HasIn(files', rows', wal'.target)
<1>1. CASE wal' = wal
  BY <1>1, TargetData
<1>2. CASE wal' # wal
  BY <1>2, SwapsRows DEF HasIn
<1> QED
  BY <1>1, <1>2

LEMMA DataSource ==
  ASSUME RowsInv, Next, mode' = "up", wal'.kind = "migrate"
  PROVE  Db(wal'.source) \in DOMAIN files'
<1>1. Core /\ Flow /\ OpenOK /\ HeldOK /\ DataOK
  BY DEF RowsInv, Core
<1>2. CASE wal' = wal
  <2>1. mode = "up" /\ wal.kind = "migrate"
    BY <1>1, <1>2, ModeBy DEF ModeMoves
  <2>2. wal.source \in Int /\ left = {} /\ ~ Held(wal.source) /\ Db(wal.source) \in DOMAIN files
    BY <1>1, <2>1, MigrateFacts DEF HeldOK, DataOK
  <2> QED
    BY <1>1, <1>2, <2>1, <2>2, DataStays
<1>3. CASE wal' # wal
  BY <1>1, <1>3, SwapsRows DEF DataOK, HasRows
<1> QED
  BY <1>2, <1>3

LEMMA DataCreated ==
  ASSUME RowsInv, Next, wal'.kind = "create", step' = "save"
  PROVE  HasIn(files', rows', gens')
<1>1. Core /\ Flow /\ TypeOK /\ OpenOK /\ HeldOK /\ DataOK /\ Running
  BY DEF RowsInv, Core
<1>2. CASE wal.kind = "create" /\ step = "save" /\ gens' = gens
  BY <1>2, CreatedStays
<1>3. CASE /\ wal.kind = "create" /\ step = "apply"
           /\ gens' = IF Db(Plain) \in DOMAIN files THEN ObjectGen(wal.id) ELSE Plain
           /\ Db(gens') \in DOMAIN files'
  <2> DEFINE g == gens'
             p == Db(g)
  <2>1. g \in Int /\ g <= 0 /\ wal.id \in Nat
    BY <1>1, <1>3, OpIs DEF TypeOK, LogOK, ObjectGen, Plain
  <2>2. ~ Exists /\ rows' = <<>> /\ left = {}
    BY <1>1, <1>3, RowsStayLogged DEF Flow, DataOK
  <2>3. ~ Fills(p) /\ p[1] = g /\ p[2] = "db"
    BY <1>1, <1>3, <2>1, CreatedUnfilled, PathParts
  <2>4. CASE p \notin DOMAIN files
    <3>1. files'[p] = <<>>
      <4> HIDE DEF p
      <4> QED
        BY <1>1, <1>3, <2>3, <2>4, DataBy DEF DataMoves, p
    <3> QED
      BY <1>3, <2>2, <3>1 DEF HasIn
  <2>5. CASE p \in DOMAIN files
    <3>1. g = ObjectGen(wal.id)
      BY <1>3, <2>5
    <3>2. files[p] = <<>>
      BY <1>1, <1>3, <2>2, <2>5, <3>1 DEF DataOK
    <3>3. ~ Held(g)
      <4>1. SUFFICES ASSUME Held(g) PROVE FALSE
        OBVIOUS
      <4>2. PICK e \in retired : p \in e.paths
        BY <4>1 DEF Held
      <4>3. mode = "up"
        BY <1>1, <4>2 DEF Running
      <4>4. p[1] > ObjectGen(wal.id)
        BY <1>1, <1>3, <4>2, <4>3 DEF Core, Bounds, NamedDead
      <4> QED
        BY <2>1, <2>3, <3>1, <4>4
    <3>4. files'[p] = files[p]
      <4> HIDE DEF g
      <4> QED
        BY <1>1, <1>3, <2>1, <2>2, <2>3, <2>5, <3>3, DataStays
    <3> QED
      BY <1>3, <2>2, <3>2, <3>4 DEF HasIn
  <2> QED
    BY <2>4, <2>5
<1> QED
  BY <1>1, <1>2, <1>3, CreatesBy DEF CreatesOwn

LEMMA DataNone ==
  ASSUME RowsInv, Next, ~ Exists' \/ wal'.kind = "drop"
  PROVE  rows' = <<>>
<1>1. Core /\ OpenOK /\ DataOK
  BY DEF RowsInv
<1>2. CASE wal'.kind = "drop"
  <2>1. CASE wal' = wal
    BY <1>1, <1>2, <2>1, RowsStayLogged DEF DataOK
  <2>2. CASE wal' # wal
    BY <1>1, <1>2, <2>2, TurnsBy DEF TableTurns
  <2> QED
    BY <2>1, <2>2
<1>3. CASE ~ Exists' /\ wal'.kind # "drop"
  <2>1. ~ Exists
    BY <1>1, <1>3, TurnsBy DEF TableTurns
  <2>2. rows = <<>>
    BY <1>1, <2>1 DEF DataOK
  <2> QED
    BY <1>1, <2>1, <2>2, RowsBy DEF RowsMoves
<1> QED
  BY <1>2, <1>3

LEMMA DataNamed ==
  ASSUME RowsInv, Next, NEW p \in DOMAIN files'
  PROVE  p[1] >= ObjectGen(objects')
<1>1. Core /\ TypeOK /\ DataOK /\ Bounds
  BY DEF RowsInv, Core
<1>2. objects \in Nat /\ objects' \in Nat /\ objects' >= objects /\ copies \in Nat /\ copies' \in Nat
  BY <1>1, CountersStep DEF TypeOK, CountersOK, Grows
<1>3. p[1] \in Int
  BY <1>1, TypeStep DEF TypeOK, DirectoryOK, FilePaths
<1>4. CASE p \in DOMAIN files
  <2>1. p[1] >= ObjectGen(objects)
    BY <1>1, <1>4 DEF DataOK
  <2> QED
    BY <1>2, <1>3, <2>1 DEF ObjectGen
<1>5. CASE p[1] = catalog.gen
  <2>1. catalog.gen \in (-1 - objects) .. copies
    BY <1>1 DEF Bounds, NamedTable, Named
  <2> QED
    BY <1>2, <1>5, <2>1 DEF ObjectGen
<1>6. CASE p[1] = gens'
  <2>1. Bounds'
    BY <1>1, BoundsStep
  <2>2. gens' \in (-1 - objects') .. copies'
    BY <2>1 DEF Bounds, NamedTable, Named
  <2> QED
    BY <1>2, <1>6, <2>2 DEF ObjectGen
<1>7. ASSUME NEW w \in Workers, Claims(w), p[1] = workers[w].target
      PROVE  p[1] >= ObjectGen(objects')
  <2>1. p[1] \in 1 .. copies
    BY <1>1, <1>7 DEF Bounds, NamedTargets
  <2> QED
    BY <1>2, <2>1 DEF ObjectGen
<1> QED
  BY <1>1, <1>4, <1>5, <1>6, <1>7, MadeBy DEF MadeFor

LEMMA DataNew ==
  ASSUME RowsInv, Next, wal'.kind = "create", ~ Exists', Db(ObjectGen(wal'.id)) \in DOMAIN files'
  PROVE  files'[Db(ObjectGen(wal'.id))] = <<>>
<1>1. Core /\ Flow /\ TypeOK /\ OpenOK /\ DataOK /\ Running
  BY DEF RowsInv, Core
<1>2. CASE wal' = wal
  <2> DEFINE g == ObjectGen(wal.id)
             p == Db(g)
  <2>1. ~ Exists /\ left = {}
    BY <1>1, <1>2, TurnsBy DEF TableTurns, Flow
  <2>2. g \in Int /\ g <= 0
    BY <1>1, <1>2, OpIs DEF TypeOK, LogOK, ObjectGen
  <2>3. ~ Fills(p) /\ p[1] = g /\ p[2] = "db"
    BY <1>1, <1>2, <2>2, CreatedUnfilled, PathParts
  <2>4. ~ Takes(p)
    BY <1>2, <2>1 DEF Takes
  <2>5. p \in DOMAIN files => files[p] = <<>>
    BY <1>1, <1>2, <2>1 DEF DataOK
  <2>6. p \in DOMAIN files'
    BY <1>2
  <2> HIDE DEF p
  <2>7. files'[p] = <<>>
    BY <1>1, <2>3, <2>4, <2>5, <2>6, DataBy DEF DataMoves
  <2> QED
    BY <1>2, <2>7 DEF p
<1>3. CASE wal' # wal
  <2>1. wal'.id = objects + 1 /\ files' = files /\ objects \in Nat
    BY <1>1, <1>3, TurnsBy DEF TableTurns, TypeOK, CountersOK
  <2>2. ObjectGen(wal'.id) \in Int /\ ~ (ObjectGen(wal'.id) >= ObjectGen(objects))
    BY <2>1 DEF ObjectGen
  <2>3. Db(ObjectGen(wal'.id))[1] = ObjectGen(wal'.id)
    BY DEF Db
  <2> QED
    BY <1>1, <2>1, <2>2, <2>3 DEF DataOK
<1> QED
  BY <1>2, <1>3

LEMMA DataDropped ==
  ASSUME RowsInv, Next, wal'.kind = "drop", step' \in {"remove", "publish"}
  PROVE  ~ Exists'
<1>1. Core /\ DataOK
  BY DEF RowsInv
<1>2. wal' = wal
  BY <1>1, TurnsBy DEF TableTurns
<1>3. CASE catalog' = catalog /\ step \in {"remove", "publish"}
  BY <1>1, <1>2, <1>3 DEF DataOK, Exists, NoTable
<1> QED
  BY <1>1, <1>3, TurnsBy DEF TableTurns

LEMMA DataStep ==
  ASSUME RowsInv, Next
  PROVE  DataOK'
<1>1. (Exists /\ wal.kind \notin {"drop", "migrate"} => HasRows(catalog.gen))'
  BY DataTable DEF HasRows, HasIn, Db
<1>2. (wal.kind = "migrate" => HasRows(wal.target))'
  BY DataTarget DEF HasRows, HasIn, Db
<1>3. (mode = "up" /\ wal.kind = "migrate" => Db(wal.source) \in DOMAIN files)'
  BY DataSource DEF Db
<1>4. (wal.kind = "create" /\ step = "save" => HasRows(gens))'
  BY DataCreated DEF HasRows, HasIn, Db
<1>5. (~ Exists \/ wal.kind = "drop" => rows = <<>>)'
  BY DataNone
<1>6. (\A p \in DOMAIN files : p[1] >= ObjectGen(objects))'
  BY DataNamed DEF ObjectGen
<1>7. (wal.kind = "create" /\ ~ Exists /\ Db(ObjectGen(wal.id)) \in DOMAIN files =>
          files[Db(ObjectGen(wal.id))] = <<>>)'
  BY DataNew DEF ObjectGen, Db
<1>8. (wal.kind = "drop" /\ step \in {"remove", "publish"} => ~ Exists)'
  BY DataDropped
<1> QED
  BY <1>1, <1>2, <1>3, <1>4, <1>5, <1>6, <1>7, <1>8 DEF DataOK

LEMMA OpenStep ==
  ASSUME RowsInv, Next
  PROVE  OpenOK'
<1>1. SUFFICES ASSUME mode' = "up", wal'.kind = "none", Exists'
               PROVE  DOMAIN open' = LivePaths' /\ open'[Db(catalog'.gen)] = rows'
  BY DEF OpenOK, Db
<1>2. Core /\ OpenOK
  BY DEF RowsInv
<1>3. HasIn(files', rows', catalog'.gen)
  BY <1>1, DataTable
<1>4. CASE /\ mode = "up" /\ wal.kind = "none" /\ Exists /\ catalog' = catalog
           /\ DOMAIN open' = DOMAIN open
           /\ (open' = open /\ rows' = rows) \/ open'[Db(catalog.gen)] = rows'
  BY <1>2, <1>4 DEF OpenOK, LivePaths, Paths, Db, Index
<1>5. CASE /\ DOMAIN open' = Paths(catalog'.gen, catalog'.cols)
           /\ open'[Db(catalog'.gen)] = files'[Db(catalog'.gen)]
  BY <1>3, <1>5 DEF HasIn, LivePaths, Paths, Db, Index
<1> QED
  BY <1>1, <1>2, <1>4, <1>5, OpenBy DEF OpenMoves

(***************************************************************************)
(* The invariant holds, and with it the property.                          *)
(***************************************************************************)

LEMMA RowsInit == Init => RowsInv
<1> SUFFICES ASSUME Init PROVE RowsInv
  OBVIOUS
<1>1. /\ wal.kind = "none" /\ \A w \in Workers : workers[w].pc = "idle"
      /\ catalog.gen = 0 /\ catalog.cols = {"id"} /\ left = {} /\ retired = {}
      /\ collect.gone = {} /\ objects = 1 /\ step = "none"
      /\ Exists
  BY OpsAre DEF Init, NoWork, Plain, NoCollect, Exists, NoTable
<1>2. /\ files = open /\ DOMAIN open = Paths(0, {"id"}) /\ rows = InitialRows
      /\ open[Db(0)] = InitialRows
  <2>1. Db(0) \in Paths(0, {"id"})
    BY DEF Paths
  <2> QED
    BY <2>1 DEF Init, Plain
<1>3. GoneOK /\ HeldOK
  BY <1>1 DEF GoneOK, HeldOK, Held
<1>4. SequencesOK
  <2>1. InitialRows \in Seq(Values)
    BY DEF InitialRows, Values, Range
  <2> QED
    BY <1>1, <1>2, <2>1 DEF SequencesOK, Values
<1>5. DataOK
  <2>1. HasRows(catalog.gen)
    BY <1>1, <1>2 DEF HasRows, Paths
  <2>2. \A p \in DOMAIN files : p[1] >= ObjectGen(objects)
    BY <1>1, <1>2 DEF Paths, Db, Index, ObjectGen
  <2> QED
    BY <1>1, <2>1, <2>2 DEF DataOK
<1>6. OpenOK
  BY <1>1, <1>2 DEF OpenOK, LivePaths
<1> QED
  BY <1>3, <1>4, <1>5, <1>6, CoreInit DEF RowsInv

LEMMA RowsStutter == RowsInv /\ UNCHANGED vars => RowsInv'
<1> SUFFICES ASSUME RowsInv, UNCHANGED vars PROVE RowsInv'
  OBVIOUS
<1>1. /\ UNCHANGED <<catalog, files, gens, open, retired, wal, step, left, rows, workers, collect>>
      /\ UNCHANGED <<mode, objects>>
  BY DEF vars, directory, server, log, counters
<1>2. Core'
  BY CoreStutters DEF RowsInv
<1>3. GoneOK'
  BY <1>1 DEF RowsInv, GoneOK
<1>4. HeldOK'
  BY <1>1 DEF RowsInv, HeldOK, Held, Exists, Db
<1>5. SequencesOK'
  BY <1>1 DEF RowsInv, SequencesOK, Values
<1>6. DataOK'
  BY <1>1 DEF RowsInv, DataOK, HasRows, Exists, Db, ObjectGen
<1>7. OpenOK'
  BY <1>1 DEF RowsInv, OpenOK, LivePaths, Paths, Exists, Db, Index
<1> QED
  BY <1>2, <1>3, <1>4, <1>5, <1>6, <1>7 DEF RowsInv

LEMMA RowsStep ==
  ASSUME RowsInv, Next
  PROVE  RowsInv'
<1>1. Core /\ GoneOK /\ HeldOK /\ SequencesOK /\ DataOK /\ OpenOK
  BY DEF RowsInv
<1>2. Core'
  BY <1>1, TypeStep, FlowStep, RunningStep, BoundsStep, FreshStep, MigrateStep DEF Core
<1>3. GoneOK' /\ HeldOK' /\ SequencesOK'
  BY <1>1, GoneStep, HeldStep, SequencesStep
<1>4. DataOK' /\ OpenOK'
  BY DataStep, OpenStep
<1> QED
  BY <1>2, <1>3, <1>4 DEF RowsInv

LEMMA RowsHold == Spec => []RowsInv
<1>1. RowsInv /\ [Next]_vars => RowsInv'
  BY RowsStep, RowsStutter
<1> QED
  BY <1>1, RowsInit, PTL DEF Spec

\* For any number of compactions, tables, readers and crashes, and whatever
\* comes between the steps of collect_retired(): between two operations the
\* data file of the table's generation is there and holds the committed rows
\* in their order, and the open handle reads them.
THEOREM RowsStay == Spec => []RowsOnDisk
<1>1. RowsInv => RowsOnDisk
  <2> SUFFICES ASSUME RowsInv, Settled PROVE RowsOnDisk
    BY DEF RowsOnDisk
  <2>1. mode = "up" /\ wal.kind = "none" /\ Exists
    BY OpsAre DEF Settled, GateFree
  <2>2. gens = catalog.gen /\ HasRows(catalog.gen) /\ open[Db(catalog.gen)] = rows
    BY <2>1 DEF RowsInv, Core, Flow, DataOK, OpenOK
  <2> QED
    BY <2>2 DEF RowsOnDisk, HasRows
<1> QED
  BY <1>1, RowsHold, PTL

(***************************************************************************)
(* The collection: what it saw, and what it removes.                       *)
(***************************************************************************)

\* The files of an entry are those of one generation, with its data file; what
\* is removed is of an entry that had expired when the oldest snapshot was read;
\* that was at or before all the snapshots there were.
CollectOK ==
    /\ \A e \in retired : \A p \in e.paths : Db(p[1]) \in e.paths
    /\ \A p \in collect.gone : \E e \in retired : p \in e.paths /\ Expired(e)
    /\ \A s \in collect.saw : collect.oldest <= s

SawMoves ==
    \/ collect'.oldest = collect.oldest /\ collect'.saw = collect.saw
    \/ \A s \in collect'.saw : collect'.oldest <= s

LEMMA SawBy ==
  ASSUME Core, Next
  PROVE  SawMoves
<1>1. TypeOK /\ Flow /\ Running
  BY DEF Core
<1>2. NoCollect.saw = {} /\ NoCollect.gone = {} /\ NoCollect.pc = "idle"
  BY DEF NoCollect
<1>3. ASSUME NEW r \in Rows, Insert(r) \/ Delete(r) PROVE SawMoves
  BY <1>3, InsertDoes, <1>1, <1>2 DEF SawMoves, Rest
<1>4. ASSUME CreateTable PROVE SawMoves
  BY <1>4, CreateTableDoes, <1>1, <1>2 DEF SawMoves, Rest
<1>5. ASSUME DropTable PROVE SawMoves
  BY <1>5, DropTableDoes, <1>1, <1>2 DEF SawMoves, Rest
<1>6. ASSUME NEW c \in Columns, CreateIndex(c) \/ DropIndex(c) PROVE SawMoves
  BY <1>6, IndexDoes, <1>1, <1>2 DEF SawMoves, Rest
<1>7. ASSUME ApplyCreate PROVE SawMoves
  BY <1>7, ApplyCreateDoes, <1>1, <1>2 DEF SawMoves, Rest
<1>8. ASSUME ApplyDrop PROVE SawMoves
  BY <1>8, ApplyDropDoes, <1>1, <1>2 DEF SawMoves, Rest
<1>9. ASSUME ApplyCreateIndex PROVE SawMoves
  BY <1>9, ApplyCreateIndexDoes, <1>1, <1>2 DEF SawMoves, Rest
<1>10. ASSUME ApplyDropIndex PROVE SawMoves
  BY <1>10, ApplyDropIndexDoes, <1>1, <1>2 DEF SawMoves, Rest
<1>11. ASSUME ApplyMigrate PROVE SawMoves
  BY <1>11, ApplyMigrateDoes, <1>1, <1>2 DEF SawMoves, Rest
<1>12. ASSUME SaveCatalog PROVE SawMoves
  BY <1>12, SaveCatalogDoes, <1>1, <1>2 DEF SawMoves, Rest
<1>13. ASSUME RemoveFile PROVE SawMoves
  BY <1>13, RemoveFileDoes, <1>1, <1>2 DEF SawMoves, Rest
<1>14. ASSUME Publish PROVE SawMoves
  BY <1>14, PublishDoes, <1>1, <1>2 DEF SawMoves
<1>15. ASSUME NEW w \in Workers, Start(w) PROVE SawMoves
  <2>1. UNCHANGED collect
    BY <1>15, StartDoes, <1>1 DEF Rest
  <2> QED
    BY <2>1 DEF SawMoves
<1>16. ASSUME NEW w \in Workers, Copy(w) PROVE SawMoves
  <2>1. UNCHANGED collect
    BY <1>16, CopyFrame, <1>1 DEF Rest
  <2> QED
    BY <2>1 DEF SawMoves
<1>17. ASSUME NEW w \in Workers, Swap(w) PROVE SawMoves
  <2>1. UNCHANGED collect
    BY <1>17, SwapFrame, <1>1 DEF Rest
  <2> QED
    BY <2>1 DEF SawMoves
<1>18. ASSUME NEW w \in Workers, Refuse(w) PROVE SawMoves
  BY <1>18, RefuseDoes, <1>1, <1>2 DEF SawMoves, Rest
<1>19. ASSUME NEW w \in Workers, Release(w) PROVE SawMoves
  BY <1>19, ReleaseDoes, <1>1, <1>2 DEF SawMoves, Rest
<1>20. ASSUME NEW r \in Readers, Begin(r) PROVE SawMoves
  BY <1>20, BeginDoes, <1>1, <1>2 DEF SawMoves
<1>21. ASSUME NEW r \in Readers, Finish(r) PROVE SawMoves
  BY <1>21, FinishDoes, <1>1, <1>2 DEF SawMoves
<1>22. ASSUME CollectStart PROVE SawMoves
  BY <1>22, CollectStartDoes, CompactionAssumption, <1>1, <1>2 DEF SawMoves
<1>23. ASSUME CollectLock PROVE SawMoves
  BY <1>23, CollectLockDoes, <1>1, <1>2 DEF SawMoves
<1>24. ASSUME CollectRemove PROVE SawMoves
  BY <1>24, CollectRemoveFirst, <1>1, <1>2 DEF SawMoves
<1>25. ASSUME Crash PROVE SawMoves
  BY <1>25, CrashDoes, <1>1, <1>2 DEF SawMoves
<1>26. ASSUME Restart PROVE SawMoves
  BY <1>26, RestartDoes, ColumnsAre, <1>1, <1>2 DEF SawMoves
<1>27. ASSUME Cleanup PROVE SawMoves
  BY <1>27, CleanupDoes, <1>1, <1>2 DEF SawMoves
<1>28. ASSUME UNCHANGED vars PROVE SawMoves
  BY <1>28 DEF SawMoves, vars
<1> QED
  BY <1>3, <1>4, <1>5, <1>6, <1>7, <1>8, <1>9, <1>10, <1>11, <1>12, <1>13, <1>14, <1>15,
    <1>16, <1>17, <1>18, <1>19, <1>20, <1>21, <1>22, <1>23, <1>24, <1>25, <1>26, <1>27,
    <1>28 DEF Next, Done

LEMMA CollectStep ==
  ASSUME RowsInv, CollectOK, Next
  PROVE  CollectOK'
<1>1. Core /\ GoneOK
  BY DEF RowsInv
<1>2. (\A e \in retired : \A p \in e.paths : Db(p[1]) \in e.paths)'
  <2>1. ASSUME NEW e \in retired', NEW p \in e.paths PROVE Db(p[1]) \in e.paths
    <3>1. CASE e \in retired
      BY <3>1 DEF CollectOK
    <3>2. CASE Retires(e)
      BY <1>1, <3>2, MigrateFacts DEF Retires
    <3> QED
      BY <1>1, <3>1, <3>2, RetiredBy
  <2> QED
    BY <2>1 DEF Db
<1>3. (\A p \in collect.gone : \E e \in retired : p \in e.paths /\ Expired(e))'
  BY <1>1, GoneBy DEF GoneMoves, CollectOK, Expired
<1>4. (\A s \in collect.saw : collect.oldest <= s)'
  BY <1>1, SawBy DEF SawMoves, CollectOK
<1> QED
  BY <1>2, <1>3, <1>4 DEF CollectOK

LEMMA CollectHolds == Spec => [](RowsInv /\ CollectOK)
<1>1. Init => RowsInv /\ CollectOK
  <2> SUFFICES ASSUME Init PROVE RowsInv /\ CollectOK
    OBVIOUS
  <2>1. retired = {} /\ collect.gone = {} /\ collect.saw = {}
    BY DEF Init, NoCollect
  <2> QED
    BY <2>1, RowsInit DEF CollectOK
<1>2. RowsInv /\ CollectOK /\ [Next]_vars => (RowsInv /\ CollectOK)'
  <2>1. ASSUME RowsInv, CollectOK, UNCHANGED vars PROVE (RowsInv /\ CollectOK)'
    <3>1. retired' = retired /\ collect' = collect
      BY <2>1 DEF vars, server
    <3> QED
      BY <2>1, <3>1, RowsStutter DEF CollectOK, Expired, Db
  <2> QED
    BY <2>1, RowsStep, CollectStep
<1> QED
  BY <1>1, <1>2, PTL DEF Spec

\* collect_retired() runs while tables are created, dropped and compacted; with
\* no assumption on that, what it still has to remove holds no file of the
\* table, except while it is between the data file and an index of one entry;
\* and never the data file of the table.
THEOREM RetiredStayDead == Spec => []RetiredAreDead
<1>1. RowsInv /\ CollectOK => RetiredAreDead
  <2> SUFFICES ASSUME RowsInv, CollectOK, Exists, NEW e \in retired
               PROVE  LET hit == (e.paths \ collect.gone) \cap LivePaths
                      IN  Db(catalog.gen) \notin hit /\ (hit = {} \/ Halfway)
    BY DEF RetiredAreDead
  <2>1. ~ Held(catalog.gen)
    BY DEF RowsInv, HeldOK
  <2>2. Db(catalog.gen) \notin e.paths \ collect.gone
    BY <2>1 DEF Held
  <2>3. ASSUME NEW p \in (e.paths \ collect.gone) \cap LivePaths, collect.gone = {}
        PROVE  FALSE
    <3>1. p[1] = catalog.gen
      BY DEF LivePaths, Paths, Db, Index
    <3>2. Db(catalog.gen) \in e.paths
      BY <3>1 DEF CollectOK
    <3> QED
      BY <2>2, <2>3, <3>2
  <2> QED
    BY <2>2, <2>3 DEF Halfway
<1> QED
  BY <1>1, CollectHolds, PTL

\* Whatever begins and is published between the steps of collect_retired(), a
\* snapshot it could know of (there when it read the oldest one) and older than
\* a change of generation keeps the data file it began with.
THEOREM SnapshotsRead == Spec => []SnapshotsKeepFiles
<1>1. RowsInv /\ CollectOK => SnapshotsKeepFiles
  <2> SUFFICES ASSUME RowsInv, CollectOK, NEW e \in retired, NEW p \in e.paths, p[2] = "db",
                      NEW s \in Known, s < e.csn, p \notin DOMAIN files
               PROVE  FALSE
    BY DEF SnapshotsKeepFiles
  <2>1. p \in collect.gone
    BY DEF RowsInv, HeldOK
  <2>2. PICK f \in retired : p \in f.paths /\ Expired(f)
    BY <2>1 DEF CollectOK
  <2>3. f = e
    BY <2>2 DEF RowsInv, GoneOK
  <2>4. collect # NoCollect
    BY <2>1 DEF NoCollect
  <2>5. s \in collect.saw /\ collect.oldest <= s
    BY <2>4 DEF Known, CollectOK
  <2>6. e.csn \in Int /\ collect.oldest \in Int /\ s \in Int
    BY <2>5 DEF RowsInv, Core, TypeOK, RetiredOK, Collections
  <2> QED
    BY <2>2, <2>3, <2>5, <2>6 DEF Expired
<1> QED
  BY <1>1, CollectHolds, PTL

(***************************************************************************)
(* The indexes: the invariant.                                             *)
(***************************************************************************)

\* What an index file holds finds the rows and no others, unless a create or a
\* crash may have left old rows in the one index that this can happen to.
Finds(found, rs, tn, p) ==
    \/ found = Range(rs)
    \/ tn /\ p = Index(Plain, "id") /\ Range(rs) \subseteq found

\* An index file of this generation finds the committed rows, or is empty and
\* is filled when it is opened.
FitIn(fs, rs, tn, g, c) ==
    Index(g, c) \in DOMAIN fs =>
        fs[Index(g, c)] = {} \/ Finds(fs[Index(g, c)], rs, tn, Index(g, c))
Fit(g, c) == FitIn(files, rows, torn, g, c)

\* No row is twice in the table, and its ids have an index.
KeyedOK ==
    /\ \A i, j \in DOMAIN rows : rows[i] = rows[j] => i = j
    /\ Exists => "id" \in catalog.cols

\* What the index files hold while an operation is applied.
FilledOK ==
    /\ Exists /\ wal.kind \notin {"drop", "migrate"} =>
          \A c \in catalog.cols : Fit(catalog.gen, c)
    /\ wal.kind = "migrate" => \A c \in Indexed : Fit(wal.target, c)
    /\ wal.kind = "index" /\ step = "save" => Fit(catalog.gen, wal.col)
    /\ wal.kind = "create" /\ step = "save" => Fit(gens, "id")
    /\ wal.kind = "create" /\ ~ Exists => Fit(ObjectGen(wal.id), "id")

\* Between two operations the open indexes find the rows.
FoundOK ==
    mode = "up" /\ wal.kind = "none" /\ Exists =>
        \A c \in catalog.cols :
            Finds(open[Index(catalog.gen, c)], rows, torn, Index(catalog.gen, c))

\* A list of files that has a data file has the index of its ids.
Closed(paths) == \A p \in paths : p[2] = "db" => Index(p[1], "id") \in paths

\* The lists of files to remove, and the order in which they go.
ListsOK ==
    /\ Closed(left) /\ (wal.kind = "unindex" => \A p \in left : p[2] # "id")
    /\ \A w \in Workers :
          /\ workers[w].pc \in {"swap", "logged"} => "id" \in workers[w].columns
          /\ workers[w].pc = "logged" => Closed(workers[w].old)
    /\ \A e \in retired : Closed(e.paths)
    /\ \A p \in collect.gone : p[2] # "db" =>
          \A e \in retired : (\A o \in retired : e.csn <= o.csn) =>
              \A q \in e.paths : q[2] = "db" => q \in collect.gone

\* An index of the plain generation without its data file is empty, or about
\* to be removed: by a drop, by the restart after one, or with a retired entry.
Outdated ==
    \/ Index(Plain, "id") \in left
    \/ mode = "down" /\ wal.kind = "drop" /\ ~ Exists
    \/ /\ collect.pc = "locked" /\ Halfway /\ Index(Plain, "id") \notin collect.gone
       /\ \E e \in retired : /\ Expired(e) /\ Index(Plain, "id") \in e.paths
                             /\ \A o \in retired : e.csn <= o.csn
PlainOK ==
    ~ torn /\ Db(Plain) \notin DOMAIN files /\ Index(Plain, "id") \in DOMAIN files =>
        files[Index(Plain, "id")] = {} \/ Outdated

IndexInv == RowsInv /\ KeyedOK /\ FilledOK /\ FoundOK /\ ListsOK /\ PlainOK

(***************************************************************************)
(* Contents of the index files.                                            *)
(***************************************************************************)

LEMMA RemoveAtIs ==
  ASSUME NEW S, NEW s \in Seq(S), NEW i \in 1 .. Len(s)
  PROVE  /\ RemoveAt(s, i) \in Seq(S) /\ Len(RemoveAt(s, i)) = Len(s) - 1
         /\ \A j \in 1 .. Len(s) - 1 : RemoveAt(s, i)[j] = IF j < i THEN s[j] ELSE s[j + 1]
<1> DEFINE front == SubSeq(s, 1, i - 1)
           back == SubSeq(s, i + 1, Len(s))
           n == Len(s)
<1>1. n \in Nat /\ n >= i /\ i \in Nat /\ i >= 1
  OBVIOUS
<1>2. /\ front \in Seq(S) /\ Len(front) = i - 1
      /\ \A j \in 1 .. i - 1 : front[j] = s[j]
  BY <1>1
<1>3. /\ back \in Seq(S) /\ Len(back) = n - i
      /\ \A j \in 1 .. n - i : back[j] = s[i + j]
  BY <1>1
<1>4. RemoveAt(s, i) = front \o back
  BY DEF RemoveAt
<1> HIDE DEF front, back
<1>5. /\ front \o back \in Seq(S) /\ Len(front \o back) = Len(front) + Len(back)
      /\ \A j \in 1 .. Len(front) + Len(back) :
            (front \o back)[j] = IF j <= Len(front) THEN front[j] ELSE back[j - Len(front)]
  BY <1>2, <1>3, ConcatProperties
<1>6. Len(front) + Len(back) = n - 1
  BY <1>1, <1>2, <1>3
<1>7. ASSUME NEW j \in 1 .. n - 1
      PROVE  (front \o back)[j] = IF j < i THEN s[j] ELSE s[j + 1]
  <2>1. (front \o back)[j] = IF j <= i - 1 THEN front[j] ELSE back[j - (i - 1)]
    BY <1>2, <1>5, <1>6
  <2>2. CASE j < i
    <3>1. j \in 1 .. i - 1
      BY <1>1, <2>2
    <3> QED
      BY <1>2, <2>1, <2>2, <3>1
  <2>3. CASE ~ (j < i)
    <3>1. j - (i - 1) \in 1 .. n - i /\ i + (j - (i - 1)) = j + 1 /\ ~ (j <= i - 1)
      BY <1>1, <2>3
    <3> QED
      BY <1>3, <2>1, <2>3, <3>1
  <2> QED
    BY <2>2, <2>3
<1> QED
  BY <1>4, <1>5, <1>6, <1>7

\* A row that is not there is added: it is found beside the others, and once.
LEMMA AppendKeyed ==
  ASSUME NEW S, NEW s \in Seq(S), NEW r \in S, r \notin Range(s),
         \A i, j \in DOMAIN s : s[i] = s[j] => i = j
  PROVE  /\ Range(Append(s, r)) = Range(s) \cup {r}
         /\ \A i, j \in DOMAIN Append(s, r) : Append(s, r)[i] = Append(s, r)[j] => i = j
<1> DEFINE t == Append(s, r)
           n == Len(s)
<1>1. /\ n \in Nat /\ DOMAIN s = 1 .. n /\ DOMAIN t = 1 .. n + 1
      /\ t[n + 1] = r /\ \A i \in 1 .. n : t[i] = s[i]
  OBVIOUS
<1> HIDE DEF t, n
<1>2. \A i \in 1 .. n : s[i] # r
  BY <1>1 DEF Range
<1>3. \A i \in 1 .. n + 1 : i \in 1 .. n \/ i = n + 1
  BY <1>1
<1>4. Range(t) = Range(s) \cup {r}
  <2>1. ASSUME NEW x \in Range(t) PROVE x \in Range(s) \cup {r}
    BY <1>1, <1>3 DEF Range
  <2>2. ASSUME NEW x \in Range(s) PROVE x \in Range(t)
    <3>1. PICK i \in 1 .. n : x = s[i]
      BY <1>1 DEF Range
    <3>2. i \in 1 .. n + 1
      BY <1>1
    <3> QED
      BY <1>1, <3>1, <3>2 DEF Range
  <2>3. r \in Range(t)
    <3>1. n + 1 \in 1 .. n + 1
      BY <1>1
    <3> QED
      BY <1>1, <3>1 DEF Range
  <2> QED
    BY <2>1, <2>2, <2>3
<1>5. ASSUME NEW i \in DOMAIN t, NEW j \in DOMAIN t, t[i] = t[j] PROVE i = j
  BY <1>1, <1>2, <1>3, <1>5
<1> QED
  BY <1>4, <1>5 DEF t

\* A row that is there once is deleted: the others are found, and once.
LEMMA RemoveKeyed ==
  ASSUME NEW S, NEW s \in Seq(S), NEW k \in DOMAIN s,
         \A i, j \in DOMAIN s : s[i] = s[j] => i = j
  PROVE  /\ Range(RemoveAt(s, k)) = Range(s) \ {s[k]}
         /\ \A i, j \in DOMAIN RemoveAt(s, k) : RemoveAt(s, k)[i] = RemoveAt(s, k)[j] => i = j
<1> DEFINE t == RemoveAt(s, k)
           n == Len(s)
           from(j) == IF j < k THEN j ELSE j + 1
<1>1. n \in Nat /\ DOMAIN s = 1 .. n /\ k \in 1 .. n
  OBVIOUS
<1>2. /\ t \in Seq(S) /\ Len(t) = n - 1
      /\ \A j \in 1 .. n - 1 : t[j] = IF j < k THEN s[j] ELSE s[j + 1]
  <2>1. k \in 1 .. Len(s)
    OBVIOUS
  <2>2. /\ RemoveAt(s, k) \in Seq(S) /\ Len(RemoveAt(s, k)) = Len(s) - 1
        /\ \A j \in 1 .. Len(s) - 1 : RemoveAt(s, k)[j] = IF j < k THEN s[j] ELSE s[j + 1]
    BY <2>1, RemoveAtIs, Zenon
  <2> QED
    BY <2>2
<1> HIDE DEF t, n
<1>3. DOMAIN t = 1 .. n - 1
  BY <1>1, <1>2
<1>4. ASSUME NEW j \in 1 .. n - 1 PROVE from(j) \in 1 .. n /\ from(j) # k /\ t[j] = s[from(j)]
  BY <1>1, <1>2
<1>5. ASSUME NEW i \in 1 .. n, i # k PROVE \E j \in 1 .. n - 1 : from(j) = i
  <2>1. CASE i < k
    <3>1. i \in 1 .. n - 1 /\ from(i) = i
      BY <1>1, <2>1
    <3> QED
      BY <3>1
  <2>2. CASE ~ (i < k)
    <3>1. i - 1 \in 1 .. n - 1 /\ from(i - 1) = i
      BY <1>1, <1>5, <2>2
    <3> QED
      BY <3>1
  <2> QED
    BY <2>1, <2>2
<1>6. ASSUME NEW i \in 1 .. n - 1, NEW j \in 1 .. n - 1, from(i) = from(j) PROVE i = j
  BY <1>1, <1>6
<1> HIDE DEF from
<1>7. Range(t) = Range(s) \ {s[k]}
  <2>1. ASSUME NEW x \in Range(t) PROVE x \in Range(s) /\ x # s[k]
    <3>1. PICK j \in 1 .. n - 1 : x = t[j]
      BY <1>3 DEF Range
    <3>2. from(j) \in DOMAIN s /\ from(j) # k /\ x = s[from(j)]
      BY <1>1, <1>4, <3>1
    <3> QED
      BY <3>2 DEF Range
  <2>2. ASSUME NEW x \in Range(s), x # s[k] PROVE x \in Range(t)
    <3>1. PICK i \in 1 .. n : x = s[i]
      BY <1>1 DEF Range
    <3>2. PICK j \in 1 .. n - 1 : from(j) = i
      BY <1>5, <2>2, <3>1
    <3>3. t[j] = x
      BY <1>4, <3>1, <3>2
    <3> QED
      BY <1>3, <3>3 DEF Range
  <2> QED
    BY <2>1, <2>2
<1>8. ASSUME NEW i \in DOMAIN t, NEW j \in DOMAIN t, t[i] = t[j] PROVE i = j
  <2>1. from(i) \in DOMAIN s /\ from(j) \in DOMAIN s /\ s[from(i)] = s[from(j)]
    BY <1>1, <1>3, <1>4, <1>8
  <2>2. from(i) = from(j)
    BY <2>1
  <2> QED
    BY <1>3, <1>6, <2>2
<1> QED
  BY <1>7, <1>8 DEF t

\* Opening a table leaves what an index finds, or fills it from the data file.
LEMMA ReopenIndexes ==
  ASSUME NEW fs, NEW cat, cat # NoTable, cat.cols \subseteq Indexed, Reopen(fs, cat)
  PROVE  /\ \A p \in DOMAIN files' : p[2] # "db" =>
                \/ p \in DOMAIN fs /\ files'[p] = fs[p]
                \/ p[1] = cat.gen /\ files'[p] = Range(files'[Db(cat.gen)])
         /\ \A c \in cat.cols :
                /\ Index(cat.gen, c) \in DOMAIN files'
                /\ open'[Index(cat.gen, c)] = files'[Index(cat.gen, c)]
                /\ files'[Index(cat.gen, c)] = {} => Range(files'[Db(cat.gen)]) = {}
<1> DEFINE g == cat.gen
           data == IF Db(g) \in DOMAIN fs THEN fs[Db(g)] ELSE <<>>
<1>1. /\ DOMAIN open' = {Db(g)} \cup {Index(g, c) : c \in cat.cols}
      /\ open'[Db(g)] = data
      /\ \A p \in DOMAIN open' : p # Db(g) =>
            open'[p] = IF p \in DOMAIN fs /\ fs[p] # {} THEN fs[p] ELSE Range(data)
  BY DEF Reopen, Opened
<1>2. \A c \in cat.cols : Index(g, c) \in DOMAIN open' /\ Index(g, c) # Db(g)
  BY <1>1, ColumnsAre DEF Index, Db
<1>3. /\ DOMAIN files' = DOMAIN fs \cup DOMAIN open'
      /\ \A p \in DOMAIN files' : files'[p] = IF p \in DOMAIN open' THEN open'[p] ELSE fs[p]
  BY DEF Reopen
<1>4. files'[Db(g)] = data
  BY <1>1, <1>3
<1>5. \A p \in DOMAIN open' : p[2] # "db" => p[1] = g /\ p # Db(g)
  BY <1>1 DEF Index, Db
<1> HIDE DEF data, g
<1>6. ASSUME NEW p \in DOMAIN files', p[2] # "db"
      PROVE  \/ p \in DOMAIN fs /\ files'[p] = fs[p]
             \/ p[1] = g /\ files'[p] = Range(files'[Db(g)])
  BY <1>1, <1>3, <1>4, <1>5, <1>6
<1>7. ASSUME NEW c \in cat.cols
      PROVE  /\ Index(g, c) \in DOMAIN files' /\ open'[Index(g, c)] = files'[Index(g, c)]
             /\ files'[Index(g, c)] = {} => Range(files'[Db(g)]) = {}
  <2>1. Index(g, c) \in DOMAIN files' /\ files'[Index(g, c)] = open'[Index(g, c)]
    BY <1>2, <1>3
  <2>2. open'[Index(g, c)] = {} => Range(data) = {}
    BY <1>1, <1>2
  <2> QED
    BY <1>4, <2>1, <2>2
<1> QED
  BY <1>6, <1>7 DEF g

\* A write keeps the open indexes and the rows together, and no row comes twice.
LEMMA WriteFound ==
  ASSUME Core, SequencesOK, KeyedOK, FoundOK, OpenOK, NEW r \in Rows, Insert(r) \/ Delete(r)
  PROVE  /\ \A c \in catalog.cols :
               Finds(open'[Index(catalog.gen, c)], rows', torn', Index(catalog.gen, c))
         /\ \A i, j \in DOMAIN rows' : rows'[i] = rows'[j] => i = j
<1>1. mode = "up" /\ wal.kind = "none" /\ Exists
  BY InsertDoes, OpsAre
<1>2. Prefix = catalog.gen
  BY <1>1 DEF Core, Flow, Prefix
<1>3. /\ DOMAIN open = LivePaths
      /\ \A c \in catalog.cols :
            Finds(open[Index(catalog.gen, c)], rows, torn, Index(catalog.gen, c))
      /\ "id" \in catalog.cols /\ \A i, j \in DOMAIN rows : rows[i] = rows[j] => i = j
  BY <1>1 DEF OpenOK, FoundOK, KeyedOK
<1>4. \A c \in catalog.cols :
         Index(catalog.gen, c) \in DOMAIN open /\ Index(catalog.gen, c) # Db(catalog.gen)
  BY <1>3, ColumnsAre DEF LivePaths, Paths, Index, Db, Core, TypeOK, DirectoryOK, Entries
<1>5. rows \in Seq(Values) /\ r \in Values
  BY DEF SequencesOK, Values
<1>6. CASE Insert(r)
  <2>1. WriteRows(Append(rows, r), {r}, {}) /\ r \notin open[Index(Prefix, "id")]
    BY <1>6 DEF Insert
  <2>2. r \notin Range(rows)
    BY <1>2, <1>3, <2>1 DEF Finds
  <2>3. rows' = Append(rows, r) /\ torn' = torn
    BY <2>1 DEF WriteRows, counters
  <2>4. \A p \in DOMAIN open : p # Db(Prefix) => open'[p] = (open[p] \ {}) \cup {r}
    BY <2>1 DEF WriteRows
  <2>5. \A c \in catalog.cols :
           open'[Index(catalog.gen, c)] = open[Index(catalog.gen, c)] \cup {r}
    BY <1>2, <1>4, <2>4
  <2>6. /\ Range(Append(rows, r)) = Range(rows) \cup {r}
        /\ \A i, j \in DOMAIN Append(rows, r) : Append(rows, r)[i] = Append(rows, r)[j] => i = j
    BY <1>3, <1>5, <2>2, AppendKeyed
  <2>7. ASSUME NEW c \in catalog.cols
        PROVE  Finds(open'[Index(catalog.gen, c)], rows', torn', Index(catalog.gen, c))
    <3>1. Finds(open[Index(catalog.gen, c)], rows, torn, Index(catalog.gen, c))
      BY <1>3
    <3>2. Range(rows') = Range(rows) \cup {r}
      BY <2>3, <2>6
    <3> QED
      BY <2>3, <2>5, <3>1, <3>2 DEF Finds
  <2> QED
    BY <2>3, <2>6, <2>7
<1>7. CASE Delete(r)
  <2>1. PICK k \in DOMAIN rows : rows[k] = r /\ WriteRows(RemoveAt(rows, k), {}, {r})
    BY <1>7 DEF Delete
  <2>2. rows' = RemoveAt(rows, k) /\ torn' = torn
    BY <2>1 DEF WriteRows, counters
  <2>3. \A p \in DOMAIN open : p # Db(Prefix) => open'[p] = (open[p] \ {r}) \cup {}
    BY <2>1 DEF WriteRows
  <2>4. \A c \in catalog.cols :
           open'[Index(catalog.gen, c)] = open[Index(catalog.gen, c)] \ {r}
    BY <1>2, <1>4, <2>3
  <2>5. /\ Range(RemoveAt(rows, k)) = Range(rows) \ {rows[k]}
        /\ \A i, j \in DOMAIN RemoveAt(rows, k) :
              RemoveAt(rows, k)[i] = RemoveAt(rows, k)[j] => i = j
    BY <1>3, <1>5, RemoveKeyed
  <2>6. ASSUME NEW c \in catalog.cols
        PROVE  Finds(open'[Index(catalog.gen, c)], rows', torn', Index(catalog.gen, c))
    <3>1. Finds(open[Index(catalog.gen, c)], rows, torn, Index(catalog.gen, c))
      BY <1>3
    <3>2. Range(rows') = Range(rows) \ {r}
      BY <2>1, <2>2, <2>5
    <3> QED
      BY <2>2, <2>4, <3>1, <3>2 DEF Finds
  <2> QED
    BY <2>2, <2>5, <2>6
<1> QED
  BY <1>6, <1>7

\* A new index is built from the data file.
LEMMA BuildIndexes ==
  ASSUME TypeOK, ApplyCreateIndex
  PROVE  /\ \A p \in DOMAIN files' : p[2] # "db" =>
                \/ p \in DOMAIN files /\ files'[p] = files[p]
                \/ p[1] = Prefix /\ files'[p] = Range(files'[Db(Prefix)])
         /\ wal.col \notin catalog.cols =>
                files'[Index(Prefix, wal.col)] = Range(files'[Db(Prefix)])
<1> DEFINE g == Prefix
           data == IF Db(g) \in DOMAIN files THEN files[Db(g)] ELSE <<>>
           handle == Opened(files, g, catalog.cols)
           x == Index(g, wal.col)
<1>1. /\ DOMAIN handle = {Db(g)} \cup {Index(g, c) : c \in catalog.cols}
      /\ handle[Db(g)] = data
      /\ \A p \in DOMAIN handle : p # Db(g) =>
            handle[p] = IF p \in DOMAIN files /\ files[p] # {} THEN files[p] ELSE Range(data)
  BY DEF Opened
<1>2. wal.col \in Indexed /\ catalog.cols \subseteq Indexed
  BY OpIs DEF TypeOK, LogOK, DirectoryOK, Entries, ApplyCreateIndex, Applying, Indexed
<1>3. /\ x # Db(g) /\ x[1] = g /\ (wal.col \notin catalog.cols => x \notin DOMAIN handle)
      /\ \A p \in DOMAIN handle : p[2] # "db" => p[1] = g /\ p # Db(g)
  BY <1>1, <1>2, ColumnsAre DEF Index, Db
<1>4. open' = [p \in DOMAIN handle \cup {x} |->
                   IF p \in DOMAIN handle THEN handle[p] ELSE Range(handle[Db(g)])]
  BY DEF ApplyCreateIndex
<1>5. /\ DOMAIN files' = DOMAIN files \cup DOMAIN open'
      /\ \A p \in DOMAIN files' : files'[p] = IF p \in DOMAIN open' THEN open'[p] ELSE files[p]
  BY DEF ApplyCreateIndex
<1> HIDE DEF handle, data, x, g
<1>6. DOMAIN open' = DOMAIN handle \cup {x} /\ Db(g) \in DOMAIN handle
  BY <1>1, <1>4
<1>7. files'[Db(g)] = data
  BY <1>1, <1>4, <1>5, <1>6
<1>8. ASSUME NEW p \in DOMAIN files', p[2] # "db"
      PROVE  \/ p \in DOMAIN files /\ files'[p] = files[p]
             \/ p[1] = g /\ files'[p] = Range(files'[Db(g)])
  <2>1. CASE p \in DOMAIN handle
    <3>1. files'[p] = handle[p] /\ p[1] = g /\ p # Db(g)
      BY <1>3, <1>4, <1>5, <1>6, <1>8, <2>1
    <3> QED
      BY <1>1, <1>7, <2>1, <3>1
  <2>2. CASE p = x /\ p \notin DOMAIN handle
    <3>1. files'[p] = Range(handle[Db(g)])
      BY <1>4, <1>5, <1>6, <2>2
    <3> QED
      BY <1>1, <1>3, <1>7, <2>2, <3>1
  <2> QED
    BY <1>5, <1>6, <2>1, <2>2
<1>9. ASSUME wal.col \notin catalog.cols
      PROVE  files'[x] = Range(files'[Db(g)])
  <2>1. x \notin DOMAIN handle
    BY <1>3, <1>9
  <2>2. files'[x] = Range(handle[Db(g)])
    BY <1>4, <1>5, <1>6, <2>1
  <2> QED
    BY <1>1, <1>7, <2>2
<1> QED
  BY <1>8, <1>9 DEF g, x

\* The indexes of the shadow find the rows it caught up with.
LEMMA SwapIndexes ==
  ASSUME RowsInv, NEW w \in Workers, Swap(w)
  PROVE  /\ rows' = rows
         /\ \A p \in DOMAIN files' : p[2] # "db" =>
               \/ p \in DOMAIN files /\ files'[p] = files[p] /\ p[1] # workers[w].target
               \/ p[1] = workers[w].target /\ files'[p] = Range(rows')
<1> DEFINE target == workers[w].target
           now == CatchUp(workers[w].rows, open[Db(Prefix)])
<1>1. TypeOK /\ Flow /\ SequencesOK /\ OpenOK
  BY DEF RowsInv, Core
<1>2. mode = "up" /\ wal.kind = "none" /\ Exists /\ workers[w].pc = "swap"
  BY <1>1, SwapFrame, OpsAre
<1>3. Prefix = catalog.gen
  BY <1>1, <1>2 DEF Flow, Prefix
<1>4. open[Db(Prefix)] = rows
  BY <1>1, <1>2, <1>3 DEF OpenOK
<1>5. rows \in Seq(Values) /\ workers[w].rows \in Seq(Values)
  BY <1>1, <1>2 DEF SequencesOK
<1>6. now = rows
  BY <1>4, <1>5, CaughtUp
<1>7. files' = [p \in DOMAIN files |-> IF p[1] # target THEN files[p]
                                       ELSE IF p = Db(target) THEN now
                                       ELSE Range(now)]
  BY DEF Swap
<1>8. rows' = rows
  BY DEF Swap
<1>9. Db(target)[2] = "db"
  BY DEF Db
<1> HIDE DEF now, target
<1>10. ASSUME NEW p \in DOMAIN files', p[2] # "db"
       PROVE  \/ p \in DOMAIN files /\ files'[p] = files[p] /\ p[1] # target
              \/ p[1] = target /\ files'[p] = Range(rows')
  BY <1>6, <1>7, <1>8, <1>9, <1>10
<1> QED
  BY <1>8, <1>10 DEF target

\* An index file stays as it is while its rows stay, or finds the rows, or is
\* that of a shadow being copied.
IndexMoves ==
    \A p \in DOMAIN files' : p[2] # "db" =>
        \/ /\ p \in DOMAIN files /\ files'[p] = files[p]
           /\ rows' = rows \/ wal'.kind = "drop" \/ p \notin LivePaths
        \/ Finds(files'[p], rows', torn', p) /\ Db(p[1]) \in DOMAIN files'
        \/ \E w \in Workers : workers[w].pc = "copy" /\ p[1] = workers[w].target

LEMMA IndexesBy ==
  ASSUME IndexInv, Next
  PROVE  IndexMoves
<1>1. /\ RowsInv /\ Core /\ TypeOK /\ Flow /\ Running /\ SequencesOK /\ OpenOK /\ KeyedOK
      /\ FoundOK /\ DataOK' /\ TypeOK'
  BY DataStep, TypeStep DEF IndexInv, RowsInv, Core
<1>2. /\ catalog.cols \subseteq Indexed /\ (wal = NoOp <=> wal.kind = "none")
      /\ NoOp.kind = "none"
  BY <1>1, OpIs, OpsAre DEF TypeOK, LogOK, DirectoryOK, Entries
<1>3. UNCHANGED <<files, rows>> => IndexMoves
  BY DEF IndexMoves
<1>4. ASSUME rows' = rows,
             \A p \in DOMAIN files' : p[2] # "db" =>
                \/ p \in DOMAIN files /\ files'[p] = files[p]
                \/ files'[p] = Range(rows') /\ Db(p[1]) \in DOMAIN files'
      PROVE  IndexMoves
  BY <1>4 DEF IndexMoves, Finds
<1>5. ASSUME NEW gone, files' = Without(files, gone), rows' = rows PROVE IndexMoves
  <2>1. DOMAIN files' = DOMAIN files \ gone /\ \A p \in DOMAIN files \ gone : files'[p] = files[p]
    BY <1>5, WithoutSame
  <2>2. \A p \in DOMAIN files' : p \in DOMAIN files /\ files'[p] = files[p]
    BY <2>1
  <2> QED
    BY <1>4, <1>5, <2>2
<1>6. ASSUME NEW r \in Rows, Insert(r) \/ Delete(r) PROVE IndexMoves
  <2>1. mode = "up" /\ wal.kind = "none" /\ Exists
    BY <1>6, <1>1, <1>2, InsertDoes
  <2>2. DOMAIN open' = LivePaths /\ DOMAIN files' = DOMAIN files
    BY <1>6, <1>1, <2>1, InsertData DEF OpenOK
  <2>3. Db(catalog.gen) \in DOMAIN files'
    BY <1>1, <2>1, <2>2 DEF RowsInv, DataOK, HasRows
  <2>4. ASSUME NEW p \in LivePaths, p[2] # "db"
        PROVE  Finds(open'[p], rows', torn', p) /\ Db(p[1]) \in DOMAIN files'
    <3>1. PICK c \in catalog.cols : p = Index(catalog.gen, c)
      BY <2>4 DEF LivePaths, Paths, Db
    <3>2. p[1] = catalog.gen
      BY <3>1 DEF Index
    <3> QED
      BY <1>6, <1>1, <2>3, <3>1, <3>2, WriteFound
  <2> QED
    BY <1>6, <2>2, <2>4, InsertData DEF IndexMoves
<1>7. ASSUME CreateTable PROVE IndexMoves
  <2>1. UNCHANGED <<files, rows>>
    BY <1>7 DEF CreateTable, directory, server, log, counters, Aside
  <2> QED
    BY <1>3, <2>1
<1>8. ASSUME DropTable PROVE IndexMoves
  <2>1. UNCHANGED files /\ wal'.kind = "drop"
    BY <1>8, <1>1, DropTableDoes
  <2> QED
    BY <2>1 DEF IndexMoves
<1>9. ASSUME NEW c \in Columns, CreateIndex(c) \/ DropIndex(c) PROVE IndexMoves
  <2>1. UNCHANGED <<files, rows>>
    BY <1>9 DEF CreateIndex, DropIndex, directory, server, log, counters, Aside
  <2> QED
    BY <1>3, <2>1
<1>10. ASSUME ApplyCreate PROVE IndexMoves
  <2> DEFINE cat == [id |-> wal.id, gen |-> gens', cols |-> {"id"}]
  <2>1. Reopen(files, cat) /\ rows' = rows /\ step' = "save" /\ wal'.kind = "create"
    BY <1>10 DEF ApplyCreate, Applying, Aside
  <2>2. cat # NoTable /\ cat.gen = gens' /\ cat.cols \subseteq Indexed
    BY ColumnsAre DEF NoTable
  <2> HIDE DEF cat
  <2>3. \A p \in DOMAIN files' : p[2] # "db" =>
                \/ p \in DOMAIN files /\ files'[p] = files[p]
                \/ p[1] = gens' /\ files'[p] = Range(files'[Db(gens')])
    BY <2>1, <2>2, ReopenIndexes
  <2>4. files'[Db(gens')] = rows' /\ Db(gens') \in DOMAIN files'
    BY <1>1, <2>1 DEF DataOK, HasRows, Db
  <2> QED
    BY <1>4, <2>1, <2>3, <2>4
<1>11. ASSUME ApplyDrop PROVE IndexMoves
  <2>1. UNCHANGED <<files, rows>>
    BY <1>11 DEF ApplyDrop, directory, server, log, counters, Aside
  <2> QED
    BY <1>3, <2>1
<1>12. ASSUME ApplyCreateIndex PROVE IndexMoves
  <2>1. rows' = rows /\ wal' = wal /\ catalog' = catalog /\ wal.kind = "index" /\ mode # "down"
    BY <1>12 DEF ApplyCreateIndex, Applying, Aside
  <2>2. Exists /\ Prefix = catalog.gen
    BY <1>1, <2>1 DEF Flow, Prefix
  <2>3. files'[Db(catalog.gen)] = rows' /\ Db(catalog.gen) \in DOMAIN files'
    BY <1>1, <2>1, <2>2 DEF DataOK, HasRows, Db, Exists, NoTable
  <2> QED
    BY <1>12, <1>1, <1>4, <2>1, <2>2, <2>3, BuildIndexes
<1>13. ASSUME ApplyDropIndex PROVE IndexMoves
  <2>1. UNCHANGED <<files, rows>>
    BY <1>13 DEF ApplyDropIndex, directory, server, log, counters, Aside
  <2> QED
    BY <1>3, <2>1
<1>14. ASSUME ApplyMigrate PROVE IndexMoves
  <2>1. UNCHANGED <<files, rows>>
    BY <1>14 DEF ApplyMigrate, directory, server, log, counters, Aside
  <2> QED
    BY <1>3, <2>1
<1>15. ASSUME SaveCatalog PROVE IndexMoves
  <2>1. UNCHANGED <<files, rows>>
    BY <1>15 DEF SaveCatalog, directory, server, log, counters, Aside
  <2> QED
    BY <1>3, <2>1
<1>16. ASSUME RemoveFile PROVE IndexMoves
  <2>1. rows' = rows /\ \E p : files' = Without(files, {p})
    BY <1>16 DEF RemoveFile, Aside
  <2> QED
    BY <1>5, <2>1
<1>17. ASSUME Publish PROVE IndexMoves
  <2>1. Reopen(files, catalog) /\ rows' = rows /\ catalog' = catalog /\ wal'.kind = "none"
    BY <1>17, <1>2 DEF Publish
  <2>2. CASE catalog = NoTable
    <3>1. DOMAIN open' = {}
      BY <2>1, <2>2 DEF Reopen, NoFiles
    <3>2. DOMAIN files' = DOMAIN files /\ \A p \in DOMAIN files' : files'[p] = files[p]
      BY <2>1, <3>1 DEF Reopen
    <3> QED
      BY <1>4, <2>1, <3>2
  <2>3. CASE catalog # NoTable
    <3>1. files'[Db(catalog.gen)] = rows' /\ Db(catalog.gen) \in DOMAIN files'
      BY <1>1, <2>1, <2>3 DEF DataOK, HasRows, Db, Exists, NoTable
    <3> QED
      BY <1>2, <1>4, <2>1, <2>3, <3>1, ReopenIndexes
  <2> QED
    BY <2>2, <2>3
<1>18. ASSUME NEW w \in Workers, Start(w) PROVE IndexMoves
  <2>1. UNCHANGED <<files, rows>>
    BY <1>18 DEF Start, directory, server, log, counters, Aside
  <2> QED
    BY <1>3, <2>1
<1>19. ASSUME NEW w \in Workers, Copy(w) PROVE IndexMoves
  <2>1. rows' = rows /\ workers[w].pc = "copy"
    BY <1>19 DEF Copy
  <2> QED
    BY <1>19, <2>1, CopyData DEF IndexMoves
<1>20. ASSUME NEW w \in Workers, Swap(w) PROVE IndexMoves
  <2>1. Db(workers[w].target) \in DOMAIN files'
    BY <1>20, <1>1, SwapFrame DEF Core, Fresh, Claims
  <2> QED
    BY <1>20, <1>1, <1>4, <2>1, SwapIndexes
<1>21. ASSUME NEW w \in Workers, Refuse(w) PROVE IndexMoves
  <2>1. UNCHANGED <<files, rows>>
    BY <1>21 DEF Refuse, directory, server, log, counters, Aside
  <2> QED
    BY <1>3, <2>1
<1>22. ASSUME NEW w \in Workers, Release(w) PROVE IndexMoves
  <2>1. UNCHANGED <<files, rows>>
    BY <1>22 DEF Release, directory, server, log, counters, Aside
  <2> QED
    BY <1>3, <2>1
<1>23. ASSUME NEW r \in Readers, Begin(r) PROVE IndexMoves
  <2>1. UNCHANGED <<files, rows>>
    BY <1>23 DEF Begin, directory, server, log, counters, Aside
  <2> QED
    BY <1>3, <2>1
<1>24. ASSUME NEW r \in Readers, Finish(r) PROVE IndexMoves
  <2>1. UNCHANGED <<files, rows>>
    BY <1>24 DEF Finish, directory, server, log, counters, Aside
  <2> QED
    BY <1>3, <2>1
<1>25. ASSUME CollectStart PROVE IndexMoves
  <2>1. UNCHANGED <<files, rows>>
    BY <1>25 DEF CollectStart, directory, server, log, counters, Aside
  <2> QED
    BY <1>3, <2>1
<1>26. ASSUME CollectLock PROVE IndexMoves
  <2>1. UNCHANGED <<files, rows>>
    BY <1>26 DEF CollectLock, directory, server, log, counters, Aside
  <2> QED
    BY <1>3, <2>1
<1>27. ASSUME CollectRemove PROVE IndexMoves
  <2>1. rows' = rows /\ \E p : files' = Without(files, {p})
    BY <1>27 DEF CollectRemove
  <2> QED
    BY <1>5, <2>1
<1>28. ASSUME Crash PROVE IndexMoves
  <2>1. UNCHANGED <<files, rows>>
    BY <1>28 DEF Crash, directory, server, log, counters, Aside
  <2> QED
    BY <1>3, <2>1
<1>29. ASSUME Restart PROVE IndexMoves
  <2>1. rows' = rows /\ (files' = files \/ \E gone : files' = Without(files, gone))
    BY <1>29 DEF Restart
  <2> QED
    BY <1>3, <1>5, <2>1
<1>30. ASSUME Cleanup PROVE IndexMoves
  <2> DEFINE fs == Without(files, {p \in DOMAIN files : Orphan(p)})
  <2>1. Reopen(fs, catalog) /\ rows' = rows /\ UNCHANGED <<catalog, wal>> /\ wal.kind = "none"
    BY <1>30, <1>2 DEF Cleanup, log
  <2>2. DOMAIN fs \subseteq DOMAIN files /\ \A p \in DOMAIN fs : fs[p] = files[p]
    BY DEF Without
  <2> HIDE DEF fs
  <2>3. CASE catalog = NoTable
    <3>1. DOMAIN open' = {}
      BY <2>1, <2>3 DEF Reopen, NoFiles
    <3>2. DOMAIN files' = DOMAIN fs /\ \A p \in DOMAIN files' : files'[p] = fs[p]
      BY <2>1, <3>1 DEF Reopen
    <3> QED
      BY <1>4, <2>1, <2>2, <3>2
  <2>4. CASE catalog # NoTable
    <3>1. files'[Db(catalog.gen)] = rows' /\ Db(catalog.gen) \in DOMAIN files'
      BY <1>1, <2>1, <2>4 DEF DataOK, HasRows, Db, Exists, NoTable
    <3>2. \A p \in DOMAIN files' : p[2] # "db" =>
                \/ p \in DOMAIN fs /\ files'[p] = fs[p]
                \/ files'[p] = Range(rows') /\ Db(p[1]) \in DOMAIN files'
      BY <1>2, <2>1, <2>4, <3>1, ReopenIndexes
    <3> QED
      BY <1>4, <2>1, <2>2, <3>2
  <2> QED
    BY <2>3, <2>4
<1>31. ASSUME UNCHANGED vars PROVE IndexMoves
  <2>1. UNCHANGED <<files, rows>>
    BY <1>31 DEF vars, directory, server, log, counters, Aside
  <2> QED
    BY <1>3, <2>1
<1> QED
  BY <1>6, <1>7, <1>8, <1>9, <1>10, <1>11, <1>12, <1>13, <1>14, <1>15, <1>16, <1>17, <1>18,
    <1>19, <1>20, <1>21, <1>22, <1>23, <1>24, <1>25, <1>26, <1>27, <1>28, <1>29, <1>30,
    <1>31 DEF Next, Done

\* How the indexed columns of the table change.
ColumnsMove ==
    Exists' =>
        /\ (Exists => "id" \in catalog.cols) => "id" \in catalog'.cols
        /\ \/ Exists /\ catalog'.cols \subseteq catalog.cols
           \/ /\ Exists /\ wal.kind = "index" /\ step = "save"
              /\ catalog'.cols = catalog.cols \cup {wal.col}
           \/ wal.kind = "create" /\ step = "save" /\ catalog'.cols = {"id"}

LEMMA ColumnsBy ==
  ASSUME Core, Next
  PROVE  ColumnsMove
<1>1. TypeOK /\ Flow
  BY DEF Core
<1>2. (Exists <=> catalog.id # 0) /\ (Exists' <=> catalog'.id # 0)
  BY <1>1, TypeStep, EntryIs DEF TypeOK, DirectoryOK, Exists
<1>3. UNCHANGED catalog => ColumnsMove
  BY <1>2 DEF ColumnsMove
<1>4. ASSUME NEW r \in Rows, Insert(r) \/ Delete(r) PROVE ColumnsMove
  <2>1. UNCHANGED <<catalog>>
    BY <1>4, InsertDoes
  <2> QED
    BY <1>3, <2>1
<1>5. ASSUME CreateTable PROVE ColumnsMove
  <2>1. UNCHANGED <<catalog>>
    BY <1>5 DEF CreateTable, directory, server, log, counters, Aside
  <2> QED
    BY <1>3, <2>1
<1>6. ASSUME DropTable PROVE ColumnsMove
  <2>1. UNCHANGED <<catalog>>
    BY <1>6 DEF DropTable, directory, server, log, counters, Aside
  <2> QED
    BY <1>3, <2>1
<1>7. ASSUME NEW c \in Columns, CreateIndex(c) \/ DropIndex(c) PROVE ColumnsMove
  <2>1. UNCHANGED <<catalog>>
    BY <1>7 DEF CreateIndex, DropIndex, directory, server, log, counters, Aside
  <2> QED
    BY <1>3, <2>1
<1>8. ASSUME ApplyCreate PROVE ColumnsMove
  <2>1. UNCHANGED <<catalog>>
    BY <1>8 DEF ApplyCreate, directory, server, log, counters, Aside
  <2> QED
    BY <1>3, <2>1
<1>9. ASSUME ApplyDrop PROVE ColumnsMove
  <2>1. catalog' = NoTable
    BY <1>9 DEF ApplyDrop
  <2> QED
    BY <2>1 DEF ColumnsMove, Exists
<1>10. ASSUME ApplyCreateIndex PROVE ColumnsMove
  <2>1. UNCHANGED <<catalog>>
    BY <1>10 DEF ApplyCreateIndex, directory, server, log, counters, Aside
  <2> QED
    BY <1>3, <2>1
<1>11. ASSUME ApplyDropIndex PROVE ColumnsMove
  <2>1. /\ catalog'.id = catalog.id /\ catalog'.cols = catalog.cols \ {wal.col}
        /\ wal.kind = "unindex"
    BY <1>11, <1>1, ApplyDropIndexDoes
  <2>2. wal.col # "id"
    BY <1>1, <2>1, OpIs, ColumnsAre DEF TypeOK, LogOK
  <2> QED
    BY <1>2, <2>1, <2>2 DEF ColumnsMove
<1>12. ASSUME ApplyMigrate PROVE ColumnsMove
  <2>1. catalog'.id = catalog.id /\ catalog'.cols = catalog.cols
    BY <1>12, <1>1, ApplyMigrateDoes
  <2> QED
    BY <1>2, <2>1 DEF ColumnsMove
<1>13. ASSUME SaveCatalog PROVE ColumnsMove
  <2>1. /\ step = "save"
        /\ wal.kind = "create" => catalog'.cols = {"id"}
        /\ wal.kind # "create" =>
              catalog'.id = catalog.id /\ catalog'.cols = catalog.cols \cup {wal.col}
    BY <1>13, <1>1, SaveCatalogDoes
  <2> QED
    BY <1>1, <1>2, <2>1 DEF ColumnsMove, Flow
<1>14. ASSUME RemoveFile PROVE ColumnsMove
  <2>1. UNCHANGED <<catalog>>
    BY <1>14 DEF RemoveFile, directory, server, log, counters, Aside
  <2> QED
    BY <1>3, <2>1
<1>15. ASSUME Publish PROVE ColumnsMove
  <2>1. UNCHANGED <<catalog>>
    BY <1>15 DEF Publish, directory, server, log, counters, Aside
  <2> QED
    BY <1>3, <2>1
<1>16. ASSUME NEW w \in Workers, Start(w) PROVE ColumnsMove
  <2>1. UNCHANGED <<catalog>>
    BY <1>16 DEF Start, directory, server, log, counters, Aside
  <2> QED
    BY <1>3, <2>1
<1>17. ASSUME NEW w \in Workers, Copy(w) PROVE ColumnsMove
  <2>1. UNCHANGED <<catalog>>
    BY <1>17 DEF Copy, directory, server, log, counters, Aside
  <2> QED
    BY <1>3, <2>1
<1>18. ASSUME NEW w \in Workers, Swap(w) PROVE ColumnsMove
  <2>1. UNCHANGED <<catalog>>
    BY <1>18 DEF Swap, directory, server, log, counters, Aside
  <2> QED
    BY <1>3, <2>1
<1>19. ASSUME NEW w \in Workers, Refuse(w) PROVE ColumnsMove
  <2>1. UNCHANGED <<catalog>>
    BY <1>19 DEF Refuse, directory, server, log, counters, Aside
  <2> QED
    BY <1>3, <2>1
<1>20. ASSUME NEW w \in Workers, Release(w) PROVE ColumnsMove
  <2>1. UNCHANGED <<catalog>>
    BY <1>20 DEF Release, directory, server, log, counters, Aside
  <2> QED
    BY <1>3, <2>1
<1>21. ASSUME NEW r \in Readers, Begin(r) PROVE ColumnsMove
  <2>1. UNCHANGED <<catalog>>
    BY <1>21 DEF Begin, directory, server, log, counters, Aside
  <2> QED
    BY <1>3, <2>1
<1>22. ASSUME NEW r \in Readers, Finish(r) PROVE ColumnsMove
  <2>1. UNCHANGED <<catalog>>
    BY <1>22 DEF Finish, directory, server, log, counters, Aside
  <2> QED
    BY <1>3, <2>1
<1>23. ASSUME CollectStart PROVE ColumnsMove
  <2>1. UNCHANGED <<catalog>>
    BY <1>23 DEF CollectStart, directory, server, log, counters, Aside
  <2> QED
    BY <1>3, <2>1
<1>24. ASSUME CollectLock PROVE ColumnsMove
  <2>1. UNCHANGED <<catalog>>
    BY <1>24 DEF CollectLock, directory, server, log, counters, Aside
  <2> QED
    BY <1>3, <2>1
<1>25. ASSUME CollectRemove PROVE ColumnsMove
  <2>1. UNCHANGED <<catalog>>
    BY <1>25 DEF CollectRemove, directory, server, log, counters, Aside
  <2> QED
    BY <1>3, <2>1
<1>26. ASSUME Crash PROVE ColumnsMove
  <2>1. UNCHANGED <<catalog>>
    BY <1>26 DEF Crash, directory, server, log, counters, Aside
  <2> QED
    BY <1>3, <2>1
<1>27. ASSUME Restart PROVE ColumnsMove
  <2>1. UNCHANGED <<catalog>>
    BY <1>27 DEF Restart, directory, server, log, counters, Aside
  <2> QED
    BY <1>3, <2>1
<1>28. ASSUME Cleanup PROVE ColumnsMove
  <2>1. UNCHANGED <<catalog>>
    BY <1>28 DEF Cleanup, directory, server, log, counters, Aside
  <2> QED
    BY <1>3, <2>1
<1>29. ASSUME UNCHANGED vars PROVE ColumnsMove
  <2>1. UNCHANGED <<catalog>>
    BY <1>29 DEF vars, directory, server, log, counters, Aside
  <2> QED
    BY <1>3, <2>1
<1> QED
  BY <1>4, <1>5, <1>6, <1>7, <1>8, <1>9, <1>10, <1>11, <1>12, <1>13, <1>14, <1>15, <1>16,
    <1>17, <1>18, <1>19, <1>20, <1>21, <1>22, <1>23, <1>24, <1>25, <1>26, <1>27, <1>28,
    <1>29 DEF Next, Done

\* A table's indexes are opened with it, stay as they are, or are written.
IndexesOpen ==
    mode' = "up" /\ wal'.kind = "none" /\ Exists' =>
        \/ mode = "up" /\ wal.kind = "none" /\ Exists /\ UNCHANGED <<catalog, open, rows>>
        \/ /\ mode = "up" /\ wal.kind = "none" /\ Exists /\ catalog' = catalog
           /\ \A c \in catalog.cols :
                 Finds(open'[Index(catalog.gen, c)], rows', torn', Index(catalog.gen, c))
        \/ \A c \in catalog'.cols :
              /\ Index(catalog'.gen, c) \in DOMAIN files'
              /\ open'[Index(catalog'.gen, c)] = files'[Index(catalog'.gen, c)]
              /\ files'[Index(catalog'.gen, c)] = {} => Range(files'[Db(catalog'.gen)]) = {}

LEMMA IndexesOpenBy ==
  ASSUME IndexInv, Next
  PROVE  IndexesOpen
<1>1. /\ RowsInv /\ Core /\ TypeOK /\ Flow /\ Running /\ SequencesOK /\ OpenOK /\ KeyedOK
      /\ FoundOK
  BY DEF IndexInv, RowsInv, Core
<1>2. /\ catalog.cols \subseteq Indexed /\ (wal = NoOp <=> wal.kind = "none")
      /\ NoOp.kind = "none"
  BY <1>1, OpIs, OpsAre DEF TypeOK, LogOK, DirectoryOK, Entries
<1>3. UNCHANGED <<mode, wal, catalog, open, rows>> => IndexesOpen
  BY DEF IndexesOpen, Exists, NoTable
<1>4. wal'.kind # "none" => IndexesOpen
  BY DEF IndexesOpen
<1>5. mode' # "up" => IndexesOpen
  BY DEF IndexesOpen
<1>6. ASSUME NEW r \in Rows, Insert(r) \/ Delete(r) PROVE IndexesOpen
  <2>1. mode = "up" /\ wal.kind = "none" /\ Exists /\ catalog' = catalog
    BY <1>6, <1>1, <1>2, InsertDoes
  <2> QED
    BY <1>6, <1>1, <2>1, WriteFound DEF IndexesOpen
<1>7. ASSUME CreateTable PROVE IndexesOpen
  <2>1. wal'.kind # "none"
    BY <1>7, <1>1, <1>2, CreateTableDoes
  <2> QED
    BY <1>4, <2>1
<1>8. ASSUME DropTable PROVE IndexesOpen
  <2>1. wal'.kind # "none"
    BY <1>8, <1>1, <1>2, DropTableDoes
  <2> QED
    BY <1>4, <2>1
<1>9. ASSUME NEW c \in Columns, CreateIndex(c) \/ DropIndex(c) PROVE IndexesOpen
  <2>1. wal'.kind # "none"
    BY <1>9, <1>1, <1>2, IndexDoes
  <2> QED
    BY <1>4, <2>1
<1>10. ASSUME ApplyCreate PROVE IndexesOpen
  <2>1. wal'.kind # "none"
    BY <1>10, <1>1, <1>2, ApplyCreateDoes
  <2> QED
    BY <1>4, <2>1
<1>11. ASSUME ApplyDrop PROVE IndexesOpen
  <2>1. wal'.kind # "none"
    BY <1>11, <1>1, <1>2, ApplyDropDoes
  <2> QED
    BY <1>4, <2>1
<1>12. ASSUME ApplyCreateIndex PROVE IndexesOpen
  <2>1. wal'.kind # "none"
    BY <1>12, <1>1, <1>2, ApplyCreateIndexDoes
  <2> QED
    BY <1>4, <2>1
<1>13. ASSUME ApplyDropIndex PROVE IndexesOpen
  <2>1. wal'.kind # "none"
    BY <1>13, <1>1, <1>2, ApplyDropIndexDoes
  <2> QED
    BY <1>4, <2>1
<1>14. ASSUME ApplyMigrate PROVE IndexesOpen
  <2>1. wal'.kind # "none"
    BY <1>14, <1>1, <1>2, ApplyMigrateDoes
  <2> QED
    BY <1>4, <2>1
<1>15. ASSUME SaveCatalog PROVE IndexesOpen
  <2>1. wal'.kind # "none"
    BY <1>15, <1>1, <1>2, SaveCatalogDoes DEF Flow
  <2> QED
    BY <1>4, <2>1
<1>16. ASSUME RemoveFile PROVE IndexesOpen
  <2>1. wal'.kind # "none"
    BY <1>16, <1>1, <1>2, RemoveFileDoes DEF Flow
  <2> QED
    BY <1>4, <2>1
<1>17. ASSUME Publish PROVE IndexesOpen
  <2>1. Reopen(files, catalog) /\ catalog' = catalog
    BY <1>17 DEF Publish
  <2> QED
    BY <1>2, <2>1, ReopenIndexes DEF IndexesOpen, Exists, NoTable, Index, Db
<1>18. ASSUME NEW w \in Workers, Start(w) PROVE IndexesOpen
  <2>1. UNCHANGED <<mode, wal, catalog, open, rows>>
    BY <1>18 DEF Start, directory, server, log, counters, Aside
  <2> QED
    BY <1>3, <2>1
<1>19. ASSUME NEW w \in Workers, Copy(w) PROVE IndexesOpen
  <2>1. UNCHANGED <<mode, wal, catalog, open, rows>>
    BY <1>19 DEF Copy, directory, server, log, counters, Aside
  <2> QED
    BY <1>3, <2>1
<1>20. ASSUME NEW w \in Workers, Swap(w) PROVE IndexesOpen
  <2>1. wal'.kind # "none"
    BY <1>20, <1>1, <1>2, SwapFrame
  <2> QED
    BY <1>4, <2>1
<1>21. ASSUME NEW w \in Workers, Refuse(w) PROVE IndexesOpen
  <2>1. UNCHANGED <<mode, wal, catalog, open, rows>>
    BY <1>21 DEF Refuse, directory, server, log, counters, Aside
  <2> QED
    BY <1>3, <2>1
<1>22. ASSUME NEW w \in Workers, Release(w) PROVE IndexesOpen
  <2>1. UNCHANGED <<mode, wal, catalog, open, rows>>
    BY <1>22 DEF Release, directory, server, log, counters, Aside
  <2> QED
    BY <1>3, <2>1
<1>23. ASSUME NEW r \in Readers, Begin(r) PROVE IndexesOpen
  <2>1. UNCHANGED <<mode, wal, catalog, open, rows>>
    BY <1>23 DEF Begin, directory, server, log, counters, Aside
  <2> QED
    BY <1>3, <2>1
<1>24. ASSUME NEW r \in Readers, Finish(r) PROVE IndexesOpen
  <2>1. UNCHANGED <<mode, wal, catalog, open, rows>>
    BY <1>24 DEF Finish, directory, server, log, counters, Aside
  <2> QED
    BY <1>3, <2>1
<1>25. ASSUME CollectStart PROVE IndexesOpen
  <2>1. UNCHANGED <<mode, wal, catalog, open, rows>>
    BY <1>25 DEF CollectStart, directory, server, log, counters, Aside
  <2> QED
    BY <1>3, <2>1
<1>26. ASSUME CollectLock PROVE IndexesOpen
  <2>1. UNCHANGED <<mode, wal, catalog, open, rows>>
    BY <1>26 DEF CollectLock, directory, server, log, counters, Aside
  <2> QED
    BY <1>3, <2>1
<1>27. ASSUME CollectRemove PROVE IndexesOpen
  <2>1. UNCHANGED <<mode, wal, catalog, open, rows>>
    BY <1>27 DEF CollectRemove, directory, server, log, counters, Aside
  <2> QED
    BY <1>3, <2>1
<1>28. ASSUME Crash PROVE IndexesOpen
  <2>1. mode' # "up"
    BY <1>28, CrashDoes
  <2> QED
    BY <1>5, <2>1
<1>29. ASSUME Restart PROVE IndexesOpen
  <2>1. mode' # "up"
    BY <1>29 DEF Restart
  <2> QED
    BY <1>5, <2>1
<1>30. ASSUME Cleanup PROVE IndexesOpen
  <2>1. /\ Reopen(Without(files, {p \in DOMAIN files : Orphan(p)}), catalog)
        /\ catalog' = catalog
    BY <1>30 DEF Cleanup
  <2> QED
    BY <1>2, <2>1, ReopenIndexes DEF IndexesOpen, Exists, NoTable, Index, Db
<1>31. ASSUME UNCHANGED vars PROVE IndexesOpen
  <2>1. UNCHANGED <<mode, wal, catalog, open, rows>>
    BY <1>31 DEF vars, directory, server, log, counters, Aside
  <2> QED
    BY <1>3, <2>1
<1> QED
  BY <1>6, <1>7, <1>8, <1>9, <1>10, <1>11, <1>12, <1>13, <1>14, <1>15, <1>16, <1>17, <1>18,
    <1>19, <1>20, <1>21, <1>22, <1>23, <1>24, <1>25, <1>26, <1>27, <1>28, <1>29, <1>30,
    <1>31 DEF Next, Done

\* An index is built when its creation is applied.
IndexesBuilt ==
    wal'.kind = "index" /\ step' = "save" =>
        \/ wal' = wal /\ step = "save" /\ catalog' = catalog
        \/ ApplyCreateIndex

LEMMA IndexesBuiltBy ==
  ASSUME Core, Next
  PROVE  IndexesBuilt
<1>1. TypeOK /\ Flow /\ Running
  BY DEF Core
<1>2. UNCHANGED <<wal, step, catalog>> => IndexesBuilt
  BY DEF IndexesBuilt
<1>3. step' # "save" \/ wal'.kind # "index" => IndexesBuilt
  BY DEF IndexesBuilt
<1>4. ASSUME NEW r \in Rows, Insert(r) \/ Delete(r) PROVE IndexesBuilt
  <2>1. UNCHANGED <<wal, step, catalog>>
    BY <1>4, InsertDoes
  <2> QED
    BY <1>2, <2>1
<1>5. ASSUME CreateTable PROVE IndexesBuilt
  <2>1. step' # "save" \/ wal'.kind # "index"
    BY <1>5 DEF CreateTable, Log
  <2> QED
    BY <1>3, <2>1
<1>6. ASSUME DropTable PROVE IndexesBuilt
  <2>1. step' # "save" \/ wal'.kind # "index"
    BY <1>6 DEF DropTable, Log
  <2> QED
    BY <1>3, <2>1
<1>7. ASSUME NEW c \in Columns, CreateIndex(c) \/ DropIndex(c) PROVE IndexesBuilt
  <2>1. step' # "save" \/ wal'.kind # "index"
    BY <1>7 DEF CreateIndex, DropIndex, Log
  <2> QED
    BY <1>3, <2>1
<1>8. ASSUME ApplyCreate PROVE IndexesBuilt
  <2>1. step' # "save" \/ wal'.kind # "index"
    BY <1>8 DEF ApplyCreate, Applying, Aside
  <2> QED
    BY <1>3, <2>1
<1>9. ASSUME ApplyDrop PROVE IndexesBuilt
  <2>1. step' # "save" \/ wal'.kind # "index"
    BY <1>9 DEF ApplyDrop, Applying, Aside
  <2> QED
    BY <1>3, <2>1
<1>10. ASSUME ApplyCreateIndex PROVE IndexesBuilt
  BY <1>10 DEF IndexesBuilt
<1>11. ASSUME ApplyDropIndex PROVE IndexesBuilt
  <2>1. step' # "save" \/ wal'.kind # "index"
    BY <1>11 DEF ApplyDropIndex, Applying, Aside
  <2> QED
    BY <1>3, <2>1
<1>12. ASSUME ApplyMigrate PROVE IndexesBuilt
  <2>1. step' # "save" \/ wal'.kind # "index"
    BY <1>12 DEF ApplyMigrate, Applying, Aside
  <2> QED
    BY <1>3, <2>1
<1>13. ASSUME SaveCatalog PROVE IndexesBuilt
  <2>1. step' # "save" \/ wal'.kind # "index"
    BY <1>13 DEF SaveCatalog
  <2> QED
    BY <1>3, <2>1
<1>14. ASSUME RemoveFile PROVE IndexesBuilt
  <2>1. step' # "save" \/ wal'.kind # "index"
    BY <1>14 DEF RemoveFile
  <2> QED
    BY <1>3, <2>1
<1>15. ASSUME Publish PROVE IndexesBuilt
  <2>1. step' # "save" \/ wal'.kind # "index"
    BY <1>15 DEF Publish
  <2> QED
    BY <1>3, <2>1
<1>16. ASSUME NEW w \in Workers, Start(w) PROVE IndexesBuilt
  <2>1. UNCHANGED <<wal, step, catalog>>
    BY <1>16 DEF Start, directory, server, log, counters, Aside
  <2> QED
    BY <1>2, <2>1
<1>17. ASSUME NEW w \in Workers, Copy(w) PROVE IndexesBuilt
  <2>1. UNCHANGED <<wal, step, catalog>>
    BY <1>17 DEF Copy, directory, server, log, counters, Aside
  <2> QED
    BY <1>2, <2>1
<1>18. ASSUME NEW w \in Workers, Swap(w) PROVE IndexesBuilt
  <2>1. step' # "save" \/ wal'.kind # "index"
    BY <1>18 DEF Swap, Log
  <2> QED
    BY <1>3, <2>1
<1>19. ASSUME NEW w \in Workers, Refuse(w) PROVE IndexesBuilt
  <2>1. UNCHANGED <<wal, step, catalog>>
    BY <1>19 DEF Refuse, directory, server, log, counters, Aside
  <2> QED
    BY <1>2, <2>1
<1>20. ASSUME NEW w \in Workers, Release(w) PROVE IndexesBuilt
  <2>1. UNCHANGED <<wal, step, catalog>>
    BY <1>20 DEF Release, directory, server, log, counters, Aside
  <2> QED
    BY <1>2, <2>1
<1>21. ASSUME NEW r \in Readers, Begin(r) PROVE IndexesBuilt
  <2>1. UNCHANGED <<wal, step, catalog>>
    BY <1>21 DEF Begin, directory, server, log, counters, Aside
  <2> QED
    BY <1>2, <2>1
<1>22. ASSUME NEW r \in Readers, Finish(r) PROVE IndexesBuilt
  <2>1. UNCHANGED <<wal, step, catalog>>
    BY <1>22 DEF Finish, directory, server, log, counters, Aside
  <2> QED
    BY <1>2, <2>1
<1>23. ASSUME CollectStart PROVE IndexesBuilt
  <2>1. UNCHANGED <<wal, step, catalog>>
    BY <1>23 DEF CollectStart, directory, server, log, counters, Aside
  <2> QED
    BY <1>2, <2>1
<1>24. ASSUME CollectLock PROVE IndexesBuilt
  <2>1. UNCHANGED <<wal, step, catalog>>
    BY <1>24 DEF CollectLock, directory, server, log, counters, Aside
  <2> QED
    BY <1>2, <2>1
<1>25. ASSUME CollectRemove PROVE IndexesBuilt
  <2>1. UNCHANGED <<wal, step, catalog>>
    BY <1>25 DEF CollectRemove, directory, server, log, counters, Aside
  <2> QED
    BY <1>2, <2>1
<1>26. ASSUME Crash PROVE IndexesBuilt
  <2>1. step' # "save" \/ wal'.kind # "index"
    BY <1>26 DEF Crash
  <2> QED
    BY <1>3, <2>1
<1>27. ASSUME Restart PROVE IndexesBuilt
  <2>1. step' # "save" \/ wal'.kind # "index"
    BY <1>27 DEF Restart
  <2> QED
    BY <1>3, <2>1
<1>28. ASSUME Cleanup PROVE IndexesBuilt
  <2>1. UNCHANGED <<wal, step, catalog>>
    BY <1>28 DEF Cleanup, directory, server, log, counters, Aside
  <2> QED
    BY <1>2, <2>1
<1>29. ASSUME UNCHANGED vars PROVE IndexesBuilt
  <2>1. UNCHANGED <<wal, step, catalog>>
    BY <1>29 DEF vars, directory, server, log, counters, Aside
  <2> QED
    BY <1>2, <2>1
<1> QED
  BY <1>4, <1>5, <1>6, <1>7, <1>8, <1>9, <1>10, <1>11, <1>12, <1>13, <1>14, <1>15, <1>16,
    <1>17, <1>18, <1>19, <1>20, <1>21, <1>22, <1>23, <1>24, <1>25, <1>26, <1>27, <1>28,
    <1>29 DEF Next, Done

\* The rows are written, dropped, or stay.
RowsWritten == rows' = rows \/ rows' = <<>> \/ \E r \in Rows : Insert(r) \/ Delete(r)

LEMMA RowsWrittenBy ==
  ASSUME Next
  PROVE  RowsWritten
<1>1. UNCHANGED rows => RowsWritten
  BY DEF RowsWritten
<1>2. ASSUME NEW r \in Rows, Insert(r) \/ Delete(r) PROVE RowsWritten
  BY <1>2 DEF RowsWritten
<1>3. ASSUME CreateTable PROVE RowsWritten
  <2>1. UNCHANGED <<rows>>
    BY <1>3 DEF CreateTable, directory, server, log, counters, Aside
  <2> QED
    BY <1>1, <2>1
<1>4. ASSUME DropTable PROVE RowsWritten
  BY <1>4 DEF DropTable, RowsWritten
<1>5. ASSUME NEW c \in Columns, CreateIndex(c) \/ DropIndex(c) PROVE RowsWritten
  <2>1. UNCHANGED <<rows>>
    BY <1>5 DEF CreateIndex, DropIndex, directory, server, log, counters, Aside
  <2> QED
    BY <1>1, <2>1
<1>6. ASSUME ApplyCreate PROVE RowsWritten
  <2>1. UNCHANGED <<rows>>
    BY <1>6 DEF ApplyCreate, directory, server, log, counters, Aside
  <2> QED
    BY <1>1, <2>1
<1>7. ASSUME ApplyDrop PROVE RowsWritten
  <2>1. UNCHANGED <<rows>>
    BY <1>7 DEF ApplyDrop, directory, server, log, counters, Aside
  <2> QED
    BY <1>1, <2>1
<1>8. ASSUME ApplyCreateIndex PROVE RowsWritten
  <2>1. UNCHANGED <<rows>>
    BY <1>8 DEF ApplyCreateIndex, directory, server, log, counters, Aside
  <2> QED
    BY <1>1, <2>1
<1>9. ASSUME ApplyDropIndex PROVE RowsWritten
  <2>1. UNCHANGED <<rows>>
    BY <1>9 DEF ApplyDropIndex, directory, server, log, counters, Aside
  <2> QED
    BY <1>1, <2>1
<1>10. ASSUME ApplyMigrate PROVE RowsWritten
  <2>1. UNCHANGED <<rows>>
    BY <1>10 DEF ApplyMigrate, directory, server, log, counters, Aside
  <2> QED
    BY <1>1, <2>1
<1>11. ASSUME SaveCatalog PROVE RowsWritten
  <2>1. UNCHANGED <<rows>>
    BY <1>11 DEF SaveCatalog, directory, server, log, counters, Aside
  <2> QED
    BY <1>1, <2>1
<1>12. ASSUME RemoveFile PROVE RowsWritten
  <2>1. UNCHANGED <<rows>>
    BY <1>12 DEF RemoveFile, directory, server, log, counters, Aside
  <2> QED
    BY <1>1, <2>1
<1>13. ASSUME Publish PROVE RowsWritten
  <2>1. UNCHANGED <<rows>>
    BY <1>13 DEF Publish, directory, server, log, counters, Aside
  <2> QED
    BY <1>1, <2>1
<1>14. ASSUME NEW w \in Workers, Start(w) PROVE RowsWritten
  <2>1. UNCHANGED <<rows>>
    BY <1>14 DEF Start, directory, server, log, counters, Aside
  <2> QED
    BY <1>1, <2>1
<1>15. ASSUME NEW w \in Workers, Copy(w) PROVE RowsWritten
  <2>1. UNCHANGED <<rows>>
    BY <1>15 DEF Copy, directory, server, log, counters, Aside
  <2> QED
    BY <1>1, <2>1
<1>16. ASSUME NEW w \in Workers, Swap(w) PROVE RowsWritten
  <2>1. UNCHANGED <<rows>>
    BY <1>16 DEF Swap, directory, server, log, counters, Aside
  <2> QED
    BY <1>1, <2>1
<1>17. ASSUME NEW w \in Workers, Refuse(w) PROVE RowsWritten
  <2>1. UNCHANGED <<rows>>
    BY <1>17 DEF Refuse, directory, server, log, counters, Aside
  <2> QED
    BY <1>1, <2>1
<1>18. ASSUME NEW w \in Workers, Release(w) PROVE RowsWritten
  <2>1. UNCHANGED <<rows>>
    BY <1>18 DEF Release, directory, server, log, counters, Aside
  <2> QED
    BY <1>1, <2>1
<1>19. ASSUME NEW r \in Readers, Begin(r) PROVE RowsWritten
  <2>1. UNCHANGED <<rows>>
    BY <1>19 DEF Begin, directory, server, log, counters, Aside
  <2> QED
    BY <1>1, <2>1
<1>20. ASSUME NEW r \in Readers, Finish(r) PROVE RowsWritten
  <2>1. UNCHANGED <<rows>>
    BY <1>20 DEF Finish, directory, server, log, counters, Aside
  <2> QED
    BY <1>1, <2>1
<1>21. ASSUME CollectStart PROVE RowsWritten
  <2>1. UNCHANGED <<rows>>
    BY <1>21 DEF CollectStart, directory, server, log, counters, Aside
  <2> QED
    BY <1>1, <2>1
<1>22. ASSUME CollectLock PROVE RowsWritten
  <2>1. UNCHANGED <<rows>>
    BY <1>22 DEF CollectLock, directory, server, log, counters, Aside
  <2> QED
    BY <1>1, <2>1
<1>23. ASSUME CollectRemove PROVE RowsWritten
  <2>1. UNCHANGED <<rows>>
    BY <1>23 DEF CollectRemove, directory, server, log, counters, Aside
  <2> QED
    BY <1>1, <2>1
<1>24. ASSUME Crash PROVE RowsWritten
  <2>1. UNCHANGED <<rows>>
    BY <1>24 DEF Crash, directory, server, log, counters, Aside
  <2> QED
    BY <1>1, <2>1
<1>25. ASSUME Restart PROVE RowsWritten
  <2>1. UNCHANGED <<rows>>
    BY <1>25 DEF Restart, directory, server, log, counters, Aside
  <2> QED
    BY <1>1, <2>1
<1>26. ASSUME Cleanup PROVE RowsWritten
  <2>1. UNCHANGED <<rows>>
    BY <1>26 DEF Cleanup, directory, server, log, counters, Aside
  <2> QED
    BY <1>1, <2>1
<1>27. ASSUME UNCHANGED vars PROVE RowsWritten
  <2>1. UNCHANGED <<rows>>
    BY <1>27 DEF vars, directory, server, log, counters, Aside
  <2> QED
    BY <1>1, <2>1
<1> QED
  BY <1>2, <1>3, <1>4, <1>5, <1>6, <1>7, <1>8, <1>9, <1>10, <1>11, <1>12, <1>13, <1>14,
    <1>15, <1>16, <1>17, <1>18, <1>19, <1>20, <1>21, <1>22, <1>23, <1>24, <1>25, <1>26,
    <1>27 DEF Next, Done

(***************************************************************************)
(* The indexes: every step keeps the invariant.                            *)
(***************************************************************************)

LEMMA KeyedStep ==
  ASSUME IndexInv, Next
  PROVE  KeyedOK'
<1>1. Core /\ SequencesOK /\ OpenOK /\ KeyedOK /\ FoundOK
  BY DEF IndexInv, RowsInv
<1>2. CASE rows' = rows
  BY <1>1, <1>2, ColumnsBy DEF ColumnsMove, KeyedOK
<1>3. CASE rows' = <<>>
  BY <1>1, <1>3, ColumnsBy DEF ColumnsMove, KeyedOK
<1>4. ASSUME NEW r \in Rows, Insert(r) \/ Delete(r) PROVE KeyedOK'
  BY <1>1, <1>4, ColumnsBy, WriteFound DEF ColumnsMove, KeyedOK
<1> QED
  BY <1>2, <1>3, <1>4, RowsWrittenBy DEF RowsWritten

\* No other compaction copies to the target of the logged one.
LEMMA TargetAlone ==
  ASSUME Core, wal.kind = "migrate", NEW w \in Workers, workers[w].pc \in {"copy", "swap"}
  PROVE  workers[w].target # wal.target
<1>1. SUFFICES ASSUME wal.target = workers[w].target PROVE FALSE
  OBVIOUS
<1>2. mode = "up"
  BY DEF Core, Running, NoWork
<1>3. /\ wal.by \in Workers /\ workers[wal.by].pc = "logged"
      /\ workers[wal.by].target = wal.target
  BY <1>2, MigrateFacts DEF Core, Running
<1>4. w = wal.by
  BY <1>1, <1>3 DEF Core, Fresh, Claims
<1> QED
  BY <1>3, <1>4

\* What was found is found after a step that leaves it alone.
LEMMA FindsStays ==
  ASSUME Next, NEW found, NEW rs, NEW p, Finds(found, rs, torn, p)
  PROVE  Finds(found, rs, torn', p)
BY TornBy DEF TornMoves, Finds

LEMMA FitStays ==
  ASSUME IndexInv, Next, NEW g \in Int, NEW c \in Indexed, Fit(g, c),
         rows' = rows \/ (g = catalog.gen /\ c \in catalog.cols /\ wal'.kind # "drop"),
         \A w \in Workers : workers[w].pc = "copy" => workers[w].target # g
  PROVE  FitIn(files', rows', torn', g, c)
<1> DEFINE p == Index(g, c)
<1>1. p[1] = g /\ p[2] # "db" /\ (g = catalog.gen /\ c \in catalog.cols => p \in LivePaths)
  BY ColumnsAre DEF Index, LivePaths, Paths
<1>2. p \in DOMAIN files => files[p] = {} \/ Finds(files[p], rows, torn, p)
  BY DEF Fit, FitIn
<1>3. IndexMoves
  BY IndexesBy
<1> HIDE DEF p
<1>4. ASSUME p \in DOMAIN files' PROVE files'[p] = {} \/ Finds(files'[p], rows', torn', p)
  <2>1. CASE Finds(files'[p], rows', torn', p)
    BY <2>1
  <2>2. CASE p \in DOMAIN files /\ files'[p] = files[p] /\ rows' = rows
    BY <1>2, <2>2, FindsStays
  <2>3. CASE p \in DOMAIN files /\ files'[p] = files[p] /\ rows' # rows
    <3>1. wal'.kind # "drop" /\ p \in LivePaths
      BY <1>1, <2>3
    <3> QED
      BY <1>1, <1>3, <1>4, <2>3, <3>1 DEF IndexMoves
  <2> QED
    BY <1>1, <1>3, <1>4, <2>1, <2>2, <2>3 DEF IndexMoves
<1> QED
  BY <1>4 DEF FitIn, p

LEMMA FilledTable ==
  ASSUME IndexInv, Next, Exists', wal'.kind \notin {"drop", "migrate"}, NEW c \in catalog'.cols
  PROVE  FitIn(files', rows', torn', catalog'.gen, c)
<1>1. /\ Core /\ TypeOK /\ Flow /\ Bounds /\ Fresh /\ MigrateOK /\ OpenOK /\ DataOK /\ FilledOK
      /\ c \in Indexed /\ catalog.gen \in Int
  BY TypeStep DEF IndexInv, RowsInv, Core, TypeOK, DirectoryOK, Entries
<1>2. ColumnsMove
  BY <1>1, ColumnsBy
<1>3. CASE Exists /\ catalog'.gen = catalog.gen
  <2>1. CASE wal.kind = "migrate"
    <3>1. catalog.gen = wal.target
      BY <1>1, <2>1, TurnsBy DEF TableTurns, MigrateOK
    <3>2. Fit(catalog.gen, c) /\ rows' = rows
      BY <1>1, <2>1, <3>1, RowsStayLogged DEF FilledOK
    <3>3. \A w \in Workers : workers[w].pc = "copy" => workers[w].target # catalog.gen
      BY <1>1, <2>1, <3>1, TargetAlone
    <3> QED
      BY <1>1, <1>3, <3>2, <3>3, FitStays
  <2>2. CASE wal.kind = "drop"
    BY <1>1, <1>3, <2>2, TurnsBy DEF TableTurns, DataOK
  <2>3. CASE wal.kind # "migrate" /\ wal.kind # "drop"
    <3>1. \A w \in Workers : workers[w].pc = "copy" => workers[w].target # catalog.gen
      BY <1>1 DEF Fresh, Claims
    <3>2. CASE c \in catalog.cols
      <4>1. Fit(catalog.gen, c)
        BY <1>1, <1>3, <2>3, <3>2 DEF FilledOK
      <4> QED
        BY <1>1, <1>3, <3>1, <3>2, <4>1, FitStays
    <3>3. CASE c \notin catalog.cols
      <4>1. wal.kind = "index" /\ step = "save" /\ c = wal.col
        BY <1>1, <1>2, <1>3, <3>3 DEF ColumnsMove, Flow
      <4>2. Fit(catalog.gen, c) /\ rows' = rows
        BY <1>1, <4>1, RowsStayLogged DEF FilledOK
      <4> QED
        BY <1>1, <1>3, <3>1, <4>2, FitStays
    <3> QED
      BY <3>2, <3>3
  <2> QED
    BY <2>1, <2>2, <2>3
<1>4. CASE wal.kind = "create" /\ step = "save" /\ catalog'.gen = gens
  <2>1. c = "id"
    BY <1>1, <1>2, <1>4 DEF ColumnsMove, Flow
  <2>2. Fit(gens, c) /\ rows' = rows /\ gens \in Int /\ gens <= 0
    BY <1>1, <1>4, <2>1, RowsStayLogged DEF FilledOK, Flow, TypeOK, DirectoryOK
  <2>3. ASSUME NEW w \in Workers, workers[w].pc = "copy" PROVE workers[w].target # gens
    <3>1. workers[w].target \in 1 .. copies /\ copies \in Nat
      BY <1>1, <2>3 DEF Bounds, NamedTargets, Claims, TypeOK, CountersOK
    <3> QED
      BY <2>2, <3>1
  <2> QED
    BY <1>1, <1>4, <2>2, <2>3, FitStays
<1> QED
  BY <1>1, <1>3, <1>4, TableBy DEF TableMoves

LEMMA FilledTarget ==
  ASSUME IndexInv, Next, wal'.kind = "migrate", NEW c \in Indexed
  PROVE  FitIn(files', rows', torn', wal'.target, c)
<1>1. Core /\ TypeOK /\ OpenOK /\ RowsInv /\ FilledOK
  BY DEF IndexInv, RowsInv, Core
<1>2. CASE wal' = wal
  <2>1. wal.target \in Int /\ Fit(wal.target, c) /\ rows' = rows
    BY <1>1, <1>2, OpIs, RowsStayLogged DEF TypeOK, LogOK, FilledOK
  <2>2. \A w \in Workers : workers[w].pc = "copy" => workers[w].target # wal.target
    BY <1>1, <1>2, TargetAlone
  <2> QED
    BY <1>2, <2>1, <2>2, FitStays
<1>3. CASE wal' # wal
  <2>1. PICK w \in Workers : Swap(w)
    BY <1>1, <1>3, SwapBy DEF LogsBySwap
  <2>2. wal'.target = workers[w].target
    BY <1>1, <2>1, SwapFrame
  <2>3. Index(wal'.target, c)[1] = wal'.target /\ Index(wal'.target, c)[2] # "db"
    BY ColumnsAre DEF Index
  <2> QED
    BY <1>1, <2>1, <2>2, <2>3, SwapIndexes DEF FitIn, Finds
<1> QED
  BY <1>2, <1>3

LEMMA FilledBuilt ==
  ASSUME IndexInv, Next, wal'.kind = "index", step' = "save"
  PROVE  FitIn(files', rows', torn', catalog'.gen, wal'.col)
<1>1. /\ Core /\ TypeOK /\ Flow /\ Fresh /\ OpenOK /\ FilledOK /\ catalog.gen \in Int /\ DataOK'
  BY DataStep DEF IndexInv, RowsInv, Core, TypeOK, DirectoryOK, Entries
<1>2. \A w \in Workers : workers[w].pc = "copy" => workers[w].target # catalog.gen
  BY <1>1 DEF Fresh, Claims
<1>3. CASE wal' = wal /\ step = "save" /\ catalog' = catalog
  <2>1. Fit(catalog.gen, wal.col) /\ rows' = rows /\ wal.col \in Indexed
    BY <1>1, <1>3, RowsStayLogged, OpIs DEF FilledOK, TypeOK, LogOK, Indexed
  <2> QED
    BY <1>1, <1>2, <1>3, <2>1, FitStays
<1>4. CASE ApplyCreateIndex
  <2>1. /\ wal' = wal /\ catalog' = catalog /\ wal.kind = "index" /\ mode # "down"
        /\ rows' = rows
    BY <1>4 DEF ApplyCreateIndex, Applying, Aside
  <2>2. Exists /\ Prefix = catalog.gen
    BY <1>1, <2>1 DEF Flow, Prefix
  <2>3. CASE wal.col \in catalog.cols
    <3>1. Fit(catalog.gen, wal.col) /\ wal.col \in Indexed
      BY <1>1, <2>1, <2>2, <2>3, OpIs DEF FilledOK, TypeOK, LogOK, Indexed
    <3> QED
      BY <1>1, <1>2, <2>1, <3>1, FitStays
  <2>4. CASE wal.col \notin catalog.cols
    <3>1. files'[Db(catalog.gen)] = rows'
      BY <1>1, <2>1, <2>2 DEF DataOK, HasRows, Db, Exists, NoTable
    <3>2. files'[Index(catalog.gen, wal.col)] = Range(rows')
      BY <1>1, <1>4, <2>2, <2>4, <3>1, BuildIndexes
    <3> QED
      BY <2>1, <3>2 DEF FitIn, Finds
  <2> QED
    BY <2>3, <2>4
<1> QED
  BY <1>1, <1>3, <1>4, IndexesBuiltBy DEF IndexesBuilt

\* No compaction copies to a generation that is named after a table.
LEMMA NamedUncopied ==
  ASSUME Core, NEW g \in Int, g <= 0, NEW w \in Workers, workers[w].pc = "copy"
  PROVE  workers[w].target # g
<1>1. workers[w].target \in 1 .. copies /\ copies \in Nat
  BY DEF Core, Bounds, NamedTargets, Claims, TypeOK, CountersOK
<1> QED
  BY <1>1

LEMMA FilledCreated ==
  ASSUME IndexInv, Next, wal'.kind = "create", step' = "save"
  PROVE  FitIn(files', rows', torn', gens', "id")
<1>1. /\ Core /\ TypeOK /\ Flow /\ OpenOK /\ FilledOK /\ PlainOK
      /\ "id" \in Indexed
  BY ColumnsAre DEF IndexInv, RowsInv, Core
<1>2. CASE wal.kind = "create" /\ step = "save" /\ gens' = gens
  <2>1. Fit(gens, "id") /\ rows' = rows /\ gens \in Int /\ gens <= 0
    BY <1>1, <1>2, RowsStayLogged DEF FilledOK, Flow, TypeOK, DirectoryOK
  <2> QED
    BY <1>1, <1>2, <2>1, NamedUncopied, FitStays
<1>3. CASE /\ wal.kind = "create" /\ step = "apply" /\ torn' = (torn \/ Halfway)
           /\ gens' = IF Db(Plain) \in DOMAIN files THEN ObjectGen(wal.id) ELSE Plain
  <2>1. rows' = rows /\ ~ Exists /\ left = {} /\ mode # "down" /\ rows = <<>>
    BY <1>1, <1>3, RowsStayLogged DEF Flow, IndexInv, RowsInv, DataOK
  <2>2. wal.id \in Nat
    BY <1>1, <1>3, OpIs DEF TypeOK, LogOK
  <2>3. gens' \in Int /\ gens' <= 0
    BY <1>3, <2>2 DEF ObjectGen, Plain
  <2> DEFINE g == gens'
  <2> HIDE DEF g
  <2>4. CASE g = Plain /\ torn'
    <3>1. Range(rows') = {}
      BY <2>1 DEF Range
    <3>2. \A found : Finds(found, rows', torn', Index(g, "id"))
      BY <2>4, <3>1 DEF Finds
    <3> QED
      BY <3>2 DEF FitIn, g
  <2>5. CASE ~ (g = Plain /\ torn')
    <3>1. Fit(g, "id")
      <4>1. CASE g = ObjectGen(wal.id)
        BY <1>1, <1>3, <2>1, <4>1 DEF FilledOK
      <4>2. CASE g = Plain /\ Db(Plain) \notin DOMAIN files
        <5>1. ~ torn /\ ~ Halfway
          BY <1>3, <2>5, <4>2
        <5>2. ~ Outdated
          BY <2>1, <5>1 DEF Outdated
        <5> QED
          BY <1>1, <4>2, <5>1, <5>2 DEF PlainOK, Fit, FitIn
      <4> QED
        BY <1>3, <4>1, <4>2 DEF g
    <3> QED
      BY <1>1, <2>1, <2>3, <3>1, NamedUncopied, FitStays DEF g
  <2> QED
    BY <2>4, <2>5 DEF g
<1> QED
  BY <1>1, <1>2, <1>3, CreatesBy DEF CreatesOwn

LEMMA FilledNew ==
  ASSUME IndexInv, Next, wal'.kind = "create", ~ Exists'
  PROVE  FitIn(files', rows', torn', ObjectGen(wal'.id), "id")
<1>1. /\ Core /\ TypeOK /\ Flow /\ OpenOK /\ FilledOK /\ DataOK
      /\ "id" \in Indexed
  BY ColumnsAre DEF IndexInv, RowsInv, Core
<1>2. CASE wal' = wal
  <2>1. ~ Exists /\ rows' = rows
    BY <1>1, <1>2, TurnsBy, RowsStayLogged DEF TableTurns
  <2>2. ObjectGen(wal.id) \in Int /\ ObjectGen(wal.id) <= 0
    BY <1>1, <1>2, OpIs DEF TypeOK, LogOK, ObjectGen
  <2>3. Fit(ObjectGen(wal.id), "id")
    BY <1>1, <1>2, <2>1 DEF FilledOK
  <2> QED
    BY <1>1, <1>2, <2>1, <2>2, <2>3, NamedUncopied, FitStays
<1>3. CASE wal' # wal
  <2>1. wal'.id = objects + 1 /\ files' = files /\ objects \in Nat
    BY <1>1, <1>3, TurnsBy DEF TableTurns, TypeOK, CountersOK
  <2>2. ObjectGen(wal'.id) \in Int /\ ~ (ObjectGen(wal'.id) >= ObjectGen(objects))
    BY <2>1 DEF ObjectGen
  <2>3. Index(ObjectGen(wal'.id), "id")[1] = ObjectGen(wal'.id)
    BY DEF Index
  <2> QED
    BY <1>1, <2>1, <2>2, <2>3 DEF DataOK, FitIn
<1> QED
  BY <1>2, <1>3

LEMMA FilledStep ==
  ASSUME IndexInv, Next
  PROVE  FilledOK'
<1>1. (Exists /\ wal.kind \notin {"drop", "migrate"} =>
          \A c \in catalog.cols : Fit(catalog.gen, c))'
  BY FilledTable DEF Fit, FitIn, Finds, Index, Plain
<1>2. (wal.kind = "migrate" => \A c \in Indexed : Fit(wal.target, c))'
  BY FilledTarget DEF Fit, FitIn, Finds, Index, Plain
<1>3. (wal.kind = "index" /\ step = "save" => Fit(catalog.gen, wal.col))'
  BY FilledBuilt DEF Fit, FitIn, Finds, Index, Plain
<1>4. (wal.kind = "create" /\ step = "save" => Fit(gens, "id"))'
  BY FilledCreated DEF Fit, FitIn, Finds, Index, Plain
<1>5. (wal.kind = "create" /\ ~ Exists => Fit(ObjectGen(wal.id), "id"))'
  BY FilledNew DEF Fit, FitIn, Finds, Index, ObjectGen, Plain
<1> QED
  BY <1>1, <1>2, <1>3, <1>4, <1>5 DEF FilledOK

LEMMA FoundStep ==
  ASSUME IndexInv, Next
  PROVE  FoundOK'
<1>1. SUFFICES ASSUME mode' = "up", wal'.kind = "none", Exists', NEW c \in catalog'.cols
               PROVE  Finds(open'[Index(catalog'.gen, c)], rows', torn', Index(catalog'.gen, c))
  BY DEF FoundOK, Index, Finds, Plain
<1>2. DataOK' /\ FoundOK
  BY DataStep DEF IndexInv
<1>3. CASE mode = "up" /\ wal.kind = "none" /\ Exists /\ UNCHANGED <<catalog, open, rows>>
  BY <1>1, <1>2, <1>3, FindsStays DEF FoundOK
<1>4. CASE /\ catalog' = catalog
           /\ \A d \in catalog.cols :
                 Finds(open'[Index(catalog.gen, d)], rows', torn', Index(catalog.gen, d))
  BY <1>1, <1>4
<1>5. CASE /\ Index(catalog'.gen, c) \in DOMAIN files'
           /\ open'[Index(catalog'.gen, c)] = files'[Index(catalog'.gen, c)]
           /\ files'[Index(catalog'.gen, c)] = {} => Range(files'[Db(catalog'.gen)]) = {}
  <2>1. \/ files'[Index(catalog'.gen, c)] = {}
        \/ Finds(files'[Index(catalog'.gen, c)], rows', torn', Index(catalog'.gen, c))
    BY <1>1, <1>5, FilledTable DEF FitIn
  <2>2. files'[Db(catalog'.gen)] = rows'
    BY <1>1, <1>2 DEF DataOK, HasRows, Db
  <2> QED
    BY <1>5, <2>1, <2>2 DEF Finds
<1> QED
  BY <1>1, <1>3, <1>4, <1>5, IndexesOpenBy DEF IndexesOpen

\* How the list of a drop changes.
LeftMoves ==
    \/ left' = {}
    \/ left' = left /\ wal' = wal
    \/ left' = Paths(Prefix, {"id"} \cup catalog.cols) /\ wal'.kind = "drop"
    \/ left' = {Index(Prefix, wal.col)} /\ wal.col \in Columns
    \/ wal' = wal /\ \E p \in NextToRemove(left) : left' = left \ {p}

LEMMA LeftMovesBy ==
  ASSUME Core, Next
  PROVE  LeftMoves
<1>1. TypeOK /\ Flow /\ Running
  BY DEF Core
<1>2. UNCHANGED <<left, wal>> => LeftMoves
  BY DEF LeftMoves
<1>3. left' = {} => LeftMoves
  BY DEF LeftMoves
<1>4. ASSUME NEW r \in Rows, Insert(r) \/ Delete(r) PROVE LeftMoves
  <2>1. UNCHANGED <<left, wal>>
    BY <1>4, InsertDoes
  <2> QED
    BY <1>2, <2>1
<1>5. ASSUME CreateTable PROVE LeftMoves
  <2>1. left' = {}
    BY <1>5 DEF CreateTable, Log
  <2> QED
    BY <1>3, <2>1
<1>6. ASSUME DropTable PROVE LeftMoves
  <2>1. left' = {}
    BY <1>6 DEF DropTable, Log
  <2> QED
    BY <1>3, <2>1
<1>7. ASSUME NEW c \in Columns, CreateIndex(c) \/ DropIndex(c) PROVE LeftMoves
  <2>1. left' = {}
    BY <1>7 DEF CreateIndex, DropIndex, Log
  <2> QED
    BY <1>3, <2>1
<1>8. ASSUME ApplyCreate PROVE LeftMoves
  <2>1. UNCHANGED <<left, wal>>
    BY <1>8 DEF ApplyCreate, directory, server, log, counters, Aside
  <2> QED
    BY <1>2, <2>1
<1>9. ASSUME ApplyDrop PROVE LeftMoves
  BY <1>9 DEF ApplyDrop, Applying, Aside, LeftMoves
<1>10. ASSUME ApplyCreateIndex PROVE LeftMoves
  <2>1. UNCHANGED <<left, wal>>
    BY <1>10 DEF ApplyCreateIndex, directory, server, log, counters, Aside
  <2> QED
    BY <1>2, <2>1
<1>11. ASSUME ApplyDropIndex PROVE LeftMoves
  <2>1. left' = {Index(Prefix, wal.col)} /\ wal.kind = "unindex"
    BY <1>11 DEF ApplyDropIndex, Applying
  <2> QED
    BY <1>1, <2>1, OpIs DEF LeftMoves, TypeOK, LogOK
<1>12. ASSUME ApplyMigrate PROVE LeftMoves
  <2>1. UNCHANGED <<left, wal>>
    BY <1>12 DEF ApplyMigrate, directory, server, log, counters, Aside
  <2> QED
    BY <1>2, <2>1
<1>13. ASSUME SaveCatalog PROVE LeftMoves
  <2>1. UNCHANGED <<left, wal>>
    BY <1>13 DEF SaveCatalog, directory, server, log, counters, Aside
  <2> QED
    BY <1>2, <2>1
<1>14. ASSUME RemoveFile PROVE LeftMoves
  BY <1>14 DEF RemoveFile, Aside, LeftMoves
<1>15. ASSUME Publish PROVE LeftMoves
  <2>1. left' = left /\ step = "publish"
    BY <1>15 DEF Publish
  <2>2. left' = {}
    BY <1>1, <2>1 DEF Flow
  <2> QED
    BY <1>3, <2>2
<1>16. ASSUME NEW w \in Workers, Start(w) PROVE LeftMoves
  <2>1. UNCHANGED <<left, wal>>
    BY <1>16 DEF Start, directory, server, log, counters, Aside
  <2> QED
    BY <1>2, <2>1
<1>17. ASSUME NEW w \in Workers, Copy(w) PROVE LeftMoves
  <2>1. UNCHANGED <<left, wal>>
    BY <1>17 DEF Copy, directory, server, log, counters, Aside
  <2> QED
    BY <1>2, <2>1
<1>18. ASSUME NEW w \in Workers, Swap(w) PROVE LeftMoves
  <2>1. left' = {}
    BY <1>18 DEF Swap, Log
  <2> QED
    BY <1>3, <2>1
<1>19. ASSUME NEW w \in Workers, Refuse(w) PROVE LeftMoves
  <2>1. UNCHANGED <<left, wal>>
    BY <1>19 DEF Refuse, directory, server, log, counters, Aside
  <2> QED
    BY <1>2, <2>1
<1>20. ASSUME NEW w \in Workers, Release(w) PROVE LeftMoves
  <2>1. UNCHANGED <<left, wal>>
    BY <1>20 DEF Release, directory, server, log, counters, Aside
  <2> QED
    BY <1>2, <2>1
<1>21. ASSUME NEW r \in Readers, Begin(r) PROVE LeftMoves
  <2>1. UNCHANGED <<left, wal>>
    BY <1>21 DEF Begin, directory, server, log, counters, Aside
  <2> QED
    BY <1>2, <2>1
<1>22. ASSUME NEW r \in Readers, Finish(r) PROVE LeftMoves
  <2>1. UNCHANGED <<left, wal>>
    BY <1>22 DEF Finish, directory, server, log, counters, Aside
  <2> QED
    BY <1>2, <2>1
<1>23. ASSUME CollectStart PROVE LeftMoves
  <2>1. UNCHANGED <<left, wal>>
    BY <1>23 DEF CollectStart, directory, server, log, counters, Aside
  <2> QED
    BY <1>2, <2>1
<1>24. ASSUME CollectLock PROVE LeftMoves
  <2>1. UNCHANGED <<left, wal>>
    BY <1>24 DEF CollectLock, directory, server, log, counters, Aside
  <2> QED
    BY <1>2, <2>1
<1>25. ASSUME CollectRemove PROVE LeftMoves
  <2>1. UNCHANGED <<left, wal>>
    BY <1>25 DEF CollectRemove, directory, server, log, counters, Aside
  <2> QED
    BY <1>2, <2>1
<1>26. ASSUME Crash PROVE LeftMoves
  <2>1. left' = {}
    BY <1>26 DEF Crash
  <2> QED
    BY <1>3, <2>1
<1>27. ASSUME Restart PROVE LeftMoves
  <2>1. UNCHANGED <<left, wal>>
    BY <1>27 DEF Restart, directory, server, log, counters, Aside
  <2> QED
    BY <1>2, <2>1
<1>28. ASSUME Cleanup PROVE LeftMoves
  <2>1. UNCHANGED <<left, wal>>
    BY <1>28 DEF Cleanup, directory, server, log, counters, Aside
  <2> QED
    BY <1>2, <2>1
<1>29. ASSUME UNCHANGED vars PROVE LeftMoves
  <2>1. UNCHANGED <<left, wal>>
    BY <1>29 DEF vars, directory, server, log, counters, Aside
  <2> QED
    BY <1>2, <2>1
<1> QED
  BY <1>4, <1>5, <1>6, <1>7, <1>8, <1>9, <1>10, <1>11, <1>12, <1>13, <1>14, <1>15, <1>16,
    <1>17, <1>18, <1>19, <1>20, <1>21, <1>22, <1>23, <1>24, <1>25, <1>26, <1>27, <1>28,
    <1>29 DEF Next, Done

\* How the columns and the files of a compaction change.
WorkersMove ==
    \A v \in Workers : workers'[v].pc \in {"swap", "logged"} =>
        \/ workers'[v] = workers[v]
        \/ workers'[v].pc = "swap" /\ "id" \in workers'[v].columns
        \/ /\ workers[v].pc = "swap" /\ workers'[v].columns = workers[v].columns
           /\ workers'[v].old = Paths(Prefix, workers[v].columns)

LEMMA WorkersMoveBy ==
  ASSUME Core, Next
  PROVE  WorkersMove
<1>1. TypeOK /\ Flow /\ Running
  BY DEF Core
<1>2. UNCHANGED workers => WorkersMove
  BY DEF WorkersMove
<1>3. ASSUME NEW w \in Workers, Others(w), workers'[w].pc \notin {"swap", "logged"}
      PROVE  WorkersMove
  BY <1>3 DEF WorkersMove, Others
<1>4. NoWork.pc = "idle"
  BY DEF NoWork
<1>5. ASSUME NEW r \in Rows, Insert(r) \/ Delete(r) PROVE WorkersMove
  <2>1. UNCHANGED <<workers>>
    BY <1>5, InsertDoes
  <2> QED
    BY <1>2, <2>1
<1>6. ASSUME CreateTable PROVE WorkersMove
  <2>1. UNCHANGED <<workers>>
    BY <1>6 DEF CreateTable, directory, server, log, counters, Aside
  <2> QED
    BY <1>2, <2>1
<1>7. ASSUME DropTable PROVE WorkersMove
  <2>1. UNCHANGED <<workers>>
    BY <1>7 DEF DropTable, directory, server, log, counters, Aside
  <2> QED
    BY <1>2, <2>1
<1>8. ASSUME NEW c \in Columns, CreateIndex(c) \/ DropIndex(c) PROVE WorkersMove
  <2>1. UNCHANGED <<workers>>
    BY <1>8 DEF CreateIndex, DropIndex, directory, server, log, counters, Aside
  <2> QED
    BY <1>2, <2>1
<1>9. ASSUME ApplyCreate PROVE WorkersMove
  <2>1. UNCHANGED <<workers>>
    BY <1>9 DEF ApplyCreate, directory, server, log, counters, Aside
  <2> QED
    BY <1>2, <2>1
<1>10. ASSUME ApplyDrop PROVE WorkersMove
  <2>1. UNCHANGED <<workers>>
    BY <1>10 DEF ApplyDrop, directory, server, log, counters, Aside
  <2> QED
    BY <1>2, <2>1
<1>11. ASSUME ApplyCreateIndex PROVE WorkersMove
  <2>1. UNCHANGED <<workers>>
    BY <1>11 DEF ApplyCreateIndex, directory, server, log, counters, Aside
  <2> QED
    BY <1>2, <2>1
<1>12. ASSUME ApplyDropIndex PROVE WorkersMove
  <2>1. UNCHANGED <<workers>>
    BY <1>12 DEF ApplyDropIndex, directory, server, log, counters, Aside
  <2> QED
    BY <1>2, <2>1
<1>13. ASSUME ApplyMigrate PROVE WorkersMove
  <2>1. UNCHANGED <<workers>>
    BY <1>13 DEF ApplyMigrate, directory, server, log, counters, Aside
  <2> QED
    BY <1>2, <2>1
<1>14. ASSUME SaveCatalog PROVE WorkersMove
  <2>1. UNCHANGED <<workers>>
    BY <1>14 DEF SaveCatalog, directory, server, log, counters, Aside
  <2> QED
    BY <1>2, <2>1
<1>15. ASSUME RemoveFile PROVE WorkersMove
  <2>1. UNCHANGED <<workers>>
    BY <1>15 DEF RemoveFile, directory, server, log, counters, Aside
  <2> QED
    BY <1>2, <2>1
<1>16. ASSUME Publish PROVE WorkersMove
  <2>1. CASE wal.kind = "migrate" /\ mode = "up"
    <3>1. wal.by \in Workers /\ Others(wal.by) /\ workers'[wal.by].pc = "done"
      BY <1>16, <1>1, <2>1, PublishDoes, FurtherFields
    <3> QED
      BY <1>3, <3>1
  <2>2. CASE ~ (wal.kind = "migrate" /\ mode = "up")
    BY <1>16, <1>1, <1>2, <2>2, PublishDoes
  <2> QED
    BY <2>1, <2>2
<1>17. ASSUME NEW w \in Workers, Start(w) PROVE WorkersMove
  <2>1. Others(w) /\ workers'[w].pc = "copy"
    BY <1>17, <1>1, StartDoes
  <2> QED
    BY <1>3, <2>1
<1>18. ASSUME NEW w \in Workers, Copy(w) PROVE WorkersMove
  <2>1. /\ Others(w) /\ workers'[w].pc = "swap"
        /\ workers'[w].columns = {"id"} \cup catalog.cols
    BY <1>18, <1>1, CopyFields
  <2> QED
    BY <2>1 DEF WorkersMove, Others
<1>19. ASSUME NEW w \in Workers, Swap(w) PROVE WorkersMove
  <2>1. /\ Others(w) /\ workers'[w].columns = workers[w].columns /\ workers[w].pc = "swap"
        /\ workers'[w].old = Paths(Prefix, workers[w].columns)
    BY <1>19, <1>1, SwapFields, SwapFrame
  <2> QED
    BY <2>1 DEF WorkersMove, Others
<1>20. ASSUME NEW w \in Workers, Refuse(w) PROVE WorkersMove
  <2>1. Others(w) /\ workers'[w].pc = "failed"
    BY <1>20, <1>1, RefuseDoes, FurtherFields
  <2> QED
    BY <1>3, <2>1
<1>21. ASSUME NEW w \in Workers, Release(w) PROVE WorkersMove
  <2>1. Others(w) /\ workers'[w].pc = "idle"
    BY <1>21, <1>1, <1>4, ReleaseDoes
  <2> QED
    BY <1>3, <2>1
<1>22. ASSUME NEW r \in Readers, Begin(r) PROVE WorkersMove
  <2>1. UNCHANGED <<workers>>
    BY <1>22 DEF Begin, directory, server, log, counters, Aside
  <2> QED
    BY <1>2, <2>1
<1>23. ASSUME NEW r \in Readers, Finish(r) PROVE WorkersMove
  <2>1. UNCHANGED <<workers>>
    BY <1>23 DEF Finish, directory, server, log, counters, Aside
  <2> QED
    BY <1>2, <2>1
<1>24. ASSUME CollectStart PROVE WorkersMove
  <2>1. UNCHANGED <<workers>>
    BY <1>24 DEF CollectStart, directory, server, log, counters, Aside
  <2> QED
    BY <1>2, <2>1
<1>25. ASSUME CollectLock PROVE WorkersMove
  <2>1. UNCHANGED <<workers>>
    BY <1>25 DEF CollectLock, directory, server, log, counters, Aside
  <2> QED
    BY <1>2, <2>1
<1>26. ASSUME CollectRemove PROVE WorkersMove
  <2>1. UNCHANGED <<workers>>
    BY <1>26 DEF CollectRemove, directory, server, log, counters, Aside
  <2> QED
    BY <1>2, <2>1
<1>27. ASSUME Crash PROVE WorkersMove
  <2>1. \A v \in Workers : workers'[v].pc = "idle"
    BY <1>27, <1>4 DEF Crash
  <2> QED
    BY <2>1 DEF WorkersMove
<1>28. ASSUME Restart PROVE WorkersMove
  <2>1. UNCHANGED <<workers>>
    BY <1>28 DEF Restart, directory, server, log, counters, Aside
  <2> QED
    BY <1>2, <2>1
<1>29. ASSUME Cleanup PROVE WorkersMove
  <2>1. UNCHANGED <<workers>>
    BY <1>29 DEF Cleanup, directory, server, log, counters, Aside
  <2> QED
    BY <1>2, <2>1
<1>30. ASSUME UNCHANGED vars PROVE WorkersMove
  <2>1. UNCHANGED <<workers>>
    BY <1>30 DEF vars, directory, server, log, counters, Aside
  <2> QED
    BY <1>2, <2>1
<1> QED
  BY <1>5, <1>6, <1>7, <1>8, <1>9, <1>10, <1>11, <1>12, <1>13, <1>14, <1>15, <1>16, <1>17,
    <1>18, <1>19, <1>20, <1>21, <1>22, <1>23, <1>24, <1>25, <1>26, <1>27, <1>28, <1>29,
    <1>30 DEF Next, Done

\* In which order the files of an entry go.
OrderMoves ==
    \/ collect'.gone = {}
    \/ collect'.gone = collect.gone /\ retired' = retired
    \/ /\ retired' = retired
       /\ \E e \in retired : \E p \in NextToRemove(e.paths \ collect.gone) :
            (\A o \in retired : e.csn <= o.csn) /\ collect'.gone = collect.gone \cup {p}

LEMMA OrderBy ==
  ASSUME Core, GoneOK, Next
  PROVE  OrderMoves
<1>1. TypeOK /\ Flow /\ Running
  BY DEF Core
<1>2. NoCollect.gone = {}
  BY DEF NoCollect
<1>3. UNCHANGED <<collect, retired>> => OrderMoves
  BY DEF OrderMoves
<1>4. collect'.gone = {} => OrderMoves
  BY DEF OrderMoves
<1>5. ASSUME NEW r \in Rows, Insert(r) \/ Delete(r) PROVE OrderMoves
  <2>1. UNCHANGED <<collect, retired>>
    BY <1>5, InsertDoes DEF Rest
  <2> QED
    BY <1>3, <2>1
<1>6. ASSUME CreateTable PROVE OrderMoves
  <2>1. UNCHANGED <<collect, retired>>
    BY <1>6 DEF CreateTable, directory, server, log, counters, Aside
  <2> QED
    BY <1>3, <2>1
<1>7. ASSUME DropTable PROVE OrderMoves
  <2>1. UNCHANGED <<collect, retired>>
    BY <1>7 DEF DropTable, directory, server, log, counters, Aside
  <2> QED
    BY <1>3, <2>1
<1>8. ASSUME NEW c \in Columns, CreateIndex(c) \/ DropIndex(c) PROVE OrderMoves
  <2>1. UNCHANGED <<collect, retired>>
    BY <1>8 DEF CreateIndex, DropIndex, directory, server, log, counters, Aside
  <2> QED
    BY <1>3, <2>1
<1>9. ASSUME ApplyCreate PROVE OrderMoves
  <2>1. UNCHANGED <<collect, retired>>
    BY <1>9 DEF ApplyCreate, directory, server, log, counters, Aside
  <2> QED
    BY <1>3, <2>1
<1>10. ASSUME ApplyDrop PROVE OrderMoves
  <2>1. UNCHANGED <<collect, retired>>
    BY <1>10 DEF ApplyDrop, directory, server, log, counters, Aside
  <2> QED
    BY <1>3, <2>1
<1>11. ASSUME ApplyCreateIndex PROVE OrderMoves
  <2>1. UNCHANGED <<collect, retired>>
    BY <1>11 DEF ApplyCreateIndex, directory, server, log, counters, Aside
  <2> QED
    BY <1>3, <2>1
<1>12. ASSUME ApplyDropIndex PROVE OrderMoves
  <2>1. UNCHANGED <<collect, retired>>
    BY <1>12 DEF ApplyDropIndex, directory, server, log, counters, Aside
  <2> QED
    BY <1>3, <2>1
<1>13. ASSUME ApplyMigrate PROVE OrderMoves
  <2>1. UNCHANGED <<collect, retired>>
    BY <1>13 DEF ApplyMigrate, directory, server, log, counters, Aside
  <2> QED
    BY <1>3, <2>1
<1>14. ASSUME SaveCatalog PROVE OrderMoves
  <2>1. UNCHANGED <<collect, retired>>
    BY <1>14 DEF SaveCatalog, directory, server, log, counters, Aside
  <2> QED
    BY <1>3, <2>1
<1>15. ASSUME RemoveFile PROVE OrderMoves
  <2>1. UNCHANGED <<collect, retired>>
    BY <1>15 DEF RemoveFile, directory, server, log, counters, Aside
  <2> QED
    BY <1>3, <2>1
<1>16. ASSUME Publish PROVE OrderMoves
  <2>1. UNCHANGED collect /\ (retired' = retired \/ collect.pc # "locked")
    BY <1>16, PublishDoes, <1>1
  <2>2. collect.pc # "locked" => collect'.gone = {}
    BY <2>1 DEF GoneOK
  <2> QED
    BY <1>3, <1>4, <2>1, <2>2
<1>17. ASSUME NEW w \in Workers, Start(w) PROVE OrderMoves
  <2>1. UNCHANGED <<collect, retired>>
    BY <1>17 DEF Start, directory, server, log, counters, Aside
  <2> QED
    BY <1>3, <2>1
<1>18. ASSUME NEW w \in Workers, Copy(w) PROVE OrderMoves
  <2>1. UNCHANGED <<collect, retired>>
    BY <1>18 DEF Copy, directory, server, log, counters, Aside
  <2> QED
    BY <1>3, <2>1
<1>19. ASSUME NEW w \in Workers, Swap(w) PROVE OrderMoves
  <2>1. UNCHANGED <<collect, retired>>
    BY <1>19 DEF Swap, directory, server, log, counters, Aside
  <2> QED
    BY <1>3, <2>1
<1>20. ASSUME NEW w \in Workers, Refuse(w) PROVE OrderMoves
  <2>1. UNCHANGED <<collect, retired>>
    BY <1>20 DEF Refuse, directory, server, log, counters, Aside
  <2> QED
    BY <1>3, <2>1
<1>21. ASSUME NEW w \in Workers, Release(w) PROVE OrderMoves
  <2>1. UNCHANGED <<collect, retired>>
    BY <1>21 DEF Release, directory, server, log, counters, Aside
  <2> QED
    BY <1>3, <2>1
<1>22. ASSUME NEW r \in Readers, Begin(r) PROVE OrderMoves
  <2>1. UNCHANGED <<collect, retired>>
    BY <1>22 DEF Begin, directory, server, log, counters, Aside
  <2> QED
    BY <1>3, <2>1
<1>23. ASSUME NEW r \in Readers, Finish(r) PROVE OrderMoves
  <2>1. UNCHANGED <<collect, retired>>
    BY <1>23 DEF Finish, directory, server, log, counters, Aside
  <2> QED
    BY <1>3, <2>1
<1>24. ASSUME CollectStart PROVE OrderMoves
  <2>1. collect'.gone = {}
    BY <1>24 DEF CollectStart
  <2> QED
    BY <1>4, <2>1
<1>25. ASSUME CollectLock PROVE OrderMoves
  <2>1. collect.gone = {}
    BY <1>25, <1>1, CollectLockDoes DEF GoneOK
  <2>2. collect'.gone = {}
    BY <1>25, <1>1, <1>2, <2>1, CollectLockDoes
  <2> QED
    BY <1>4, <2>2
<1>26. ASSUME CollectRemove PROVE OrderMoves
  BY <1>26, <1>1, CollectRemoveFirst DEF OrderMoves
<1>27. ASSUME Crash PROVE OrderMoves
  <2>1. collect'.gone = {}
    BY <1>27, <1>2, CrashDoes
  <2> QED
    BY <1>4, <2>1
<1>28. ASSUME Restart PROVE OrderMoves
  <2>1. UNCHANGED <<collect, retired>>
    BY <1>28 DEF Restart, directory, server, log, counters, Aside
  <2> QED
    BY <1>3, <2>1
<1>29. ASSUME Cleanup PROVE OrderMoves
  <2>1. UNCHANGED <<collect, retired>>
    BY <1>29 DEF Cleanup, directory, server, log, counters, Aside
  <2> QED
    BY <1>3, <2>1
<1>30. ASSUME UNCHANGED vars PROVE OrderMoves
  <2>1. UNCHANGED <<collect, retired>>
    BY <1>30 DEF vars, directory, server, log, counters, Aside
  <2> QED
    BY <1>3, <2>1
<1> QED
  BY <1>5, <1>6, <1>7, <1>8, <1>9, <1>10, <1>11, <1>12, <1>13, <1>14, <1>15, <1>16, <1>17,
    <1>18, <1>19, <1>20, <1>21, <1>22, <1>23, <1>24, <1>25, <1>26, <1>27, <1>28, <1>29,
    <1>30 DEF Next, Done

LEMMA PathsClosed ==
  ASSUME NEW g, NEW cols, "id" \in cols, "db" \notin cols
  PROVE  Closed(Paths(g, cols))
BY DEF Closed, Paths, Db, Index

LEMMA ListsLeft ==
  ASSUME Core, ListsOK, Next
  PROVE  Closed(left') /\ (wal'.kind = "unindex" => \A p \in left' : p[2] # "id")
<1>1. Closed(left) /\ (wal.kind = "unindex" => \A p \in left : p[2] # "id")
  BY DEF ListsOK
<1>2. CASE left' = {}
  BY <1>2 DEF Closed
<1>3. CASE left' = left /\ wal' = wal
  BY <1>1, <1>3
<1>4. CASE left' = Paths(Prefix, {"id"} \cup catalog.cols) /\ wal'.kind = "drop"
  <2>1. "db" \notin {"id"} \cup catalog.cols
    BY ColumnsAre DEF Core, TypeOK, DirectoryOK, Entries
  <2> QED
    BY <1>4, <2>1, PathsClosed
<1>5. CASE left' = {Index(Prefix, wal.col)} /\ wal.col \in Columns
  BY <1>5, ColumnsAre DEF Closed, Index, Indexed
<1>6. CASE wal' = wal /\ \E p \in NextToRemove(left) : left' = left \ {p}
  <2>1. PICK p \in left : /\ left' = left \ {p}
                          /\ p[2] = "db" \/ \A q \in left : q[2] # "db"
    BY <1>6 DEF NextToRemove
  <2>2. \A q \in left : Index(q[1], "id")[2] # "db"
    BY DEF Index
  <2> QED
    BY <1>1, <1>6, <2>1, <2>2 DEF Closed
<1> QED
  BY <1>2, <1>3, <1>4, <1>5, <1>6, LeftMovesBy DEF LeftMoves

LEMMA ListsWorkers ==
  ASSUME Core, ListsOK, Next, NEW w \in Workers
  PROVE  /\ workers'[w].pc \in {"swap", "logged"} => "id" \in workers'[w].columns
         /\ workers'[w].pc = "logged" => Closed(workers'[w].old)
<1>1. /\ workers[w].pc \in {"swap", "logged"} => "id" \in workers[w].columns
      /\ workers[w].pc = "logged" => Closed(workers[w].old)
  BY DEF ListsOK
<1>2. SUFFICES ASSUME workers'[w].pc \in {"swap", "logged"}
               PROVE  /\ "id" \in workers'[w].columns
                      /\ workers'[w].pc = "logged" => Closed(workers'[w].old)
  OBVIOUS
<1>3. CASE workers'[w] = workers[w]
  BY <1>1, <1>2, <1>3
<1>4. CASE workers'[w].pc = "swap" /\ "id" \in workers'[w].columns
  BY <1>4
<1>5. CASE /\ workers[w].pc = "swap" /\ workers'[w].columns = workers[w].columns
           /\ workers'[w].old = Paths(Prefix, workers[w].columns)
  <2>1. "id" \in workers[w].columns /\ "db" \notin workers[w].columns
    BY <1>1, <1>5, WorkFields, ColumnsAre DEF Core
  <2> QED
    BY <1>5, <2>1, PathsClosed
<1> QED
  BY <1>2, <1>3, <1>4, <1>5, WorkersMoveBy DEF WorkersMove

LEMMA ListsRetired ==
  ASSUME Core, ListsOK, Next, NEW e \in retired'
  PROVE  Closed(e.paths)
<1>1. CASE e \in retired
  BY <1>1 DEF ListsOK
<1>2. CASE Retires(e)
  <2>1. mode = "up" /\ wal.kind = "migrate" /\ e.paths = workers[wal.by].old
    BY <1>2 DEF Retires
  <2>2. wal.by \in Workers /\ workers[wal.by].pc = "logged"
    BY <2>1, MigrateFacts DEF Core, Running
  <2> QED
    BY <2>1, <2>2 DEF ListsOK
<1> QED
  BY <1>1, <1>2, RetiredBy

LEMMA ListsOrder ==
  ASSUME Core, GoneOK, ListsOK, Next, NEW p \in collect'.gone, p[2] # "db", NEW e \in retired',
         \A o \in retired' : e.csn <= o.csn, NEW q \in e.paths, q[2] = "db"
  PROVE  q \in collect'.gone
<1>1. CASE collect'.gone = collect.gone /\ retired' = retired
  BY <1>1 DEF ListsOK
<1>2. ASSUME retired' = retired, NEW f \in retired, \A o \in retired : f.csn <= o.csn,
             NEW x \in NextToRemove(f.paths \ collect.gone),
             collect'.gone = collect.gone \cup {x}
      PROVE  q \in collect'.gone
  <2>1. e.csn \in Nat /\ f.csn \in Nat
    BY <1>2 DEF Core, TypeOK, RetiredOK
  <2>2. e = f
    BY <1>2, <2>1 DEF GoneOK
  <2>3. x \in f.paths \ collect.gone /\ (x[2] = "db" \/ \A y \in f.paths \ collect.gone : y[2] # "db")
    BY <1>2 DEF NextToRemove
  <2>4. CASE p \in collect.gone
    BY <1>2, <2>2, <2>4 DEF ListsOK
  <2>5. CASE p = x
    BY <1>2, <2>2, <2>3, <2>5
  <2> QED
    BY <1>2, <2>4, <2>5
<1> QED
  BY <1>1, <1>2, OrderBy DEF OrderMoves

LEMMA ListsStep ==
  ASSUME IndexInv, Next
  PROVE  ListsOK'
<1>1. Core /\ GoneOK /\ ListsOK
  BY DEF IndexInv, RowsInv
<1>2. (Closed(left) /\ (wal.kind = "unindex" => \A p \in left : p[2] # "id"))'
  BY <1>1, ListsLeft DEF Closed, Index
<1>3. (\A w \in Workers :
          /\ workers[w].pc \in {"swap", "logged"} => "id" \in workers[w].columns
          /\ workers[w].pc = "logged" => Closed(workers[w].old))'
  BY <1>1, ListsWorkers DEF Closed, Index
<1>4. (\A e \in retired : Closed(e.paths))'
  BY <1>1, ListsRetired DEF Closed, Index
<1>5. (\A p \in collect.gone : p[2] # "db" =>
          \A e \in retired : (\A o \in retired : e.csn <= o.csn) =>
              \A q \in e.paths : q[2] = "db" => q \in collect.gone)'
  BY <1>1, ListsOrder
<1> QED
  BY <1>2, <1>3, <1>4, <1>5 DEF ListsOK

\* While the plain generation has no data file, its index is not written.
LEMMA PlainKept ==
  ASSUME IndexInv, Next, Db(Plain) \notin DOMAIN files', Index(Plain, "id") \in DOMAIN files'
  PROVE  Index(Plain, "id") \in DOMAIN files /\ files'[Index(Plain, "id")] = files[Index(Plain, "id")]
<1> DEFINE p == Index(Plain, "id")
<1>1. p[1] = Plain /\ p[2] # "db"
  BY DEF Index
<1>2. \A w \in Workers : workers[w].pc = "copy" => workers[w].target # Plain
  BY NamedUncopied DEF IndexInv, RowsInv, Plain
<1>3. IndexMoves
  BY IndexesBy
<1> HIDE DEF p
<1>4. p \in DOMAIN files /\ files'[p] = files[p]
  BY <1>1, <1>2, <1>3 DEF IndexMoves, p
<1> QED
  BY <1>4 DEF p

\* An entry whose index of the plain generation is still to be removed.
Pending ==
    /\ collect.pc = "locked" /\ Halfway /\ Index(Plain, "id") \notin collect.gone
    /\ \E e \in retired : /\ Expired(e) /\ Index(Plain, "id") \in e.paths
                          /\ \A o \in retired : e.csn <= o.csn

LEMMA PendingOutdated ==
  /\ Outdated <=> \/ Index(Plain, "id") \in left
                  \/ mode = "down" /\ wal.kind = "drop" /\ ~ Exists
                  \/ Pending
  /\ Outdated' <=> \/ Index(Plain, "id") \in left'
                   \/ mode' = "down" /\ wal'.kind = "drop" /\ ~ Exists'
                   \/ Pending'
BY DEF Outdated, Pending, Halfway, Index, Plain

LEMMA PendingStays ==
  ASSUME Pending, UNCHANGED <<collect, retired>>
  PROVE  Pending'
BY DEF Pending, Halfway, Expired, Index, Plain

\* What the collection removes of the plain generation, it removes as a whole.
LEMMA PlainCollected ==
  ASSUME IndexInv, CollectRemove, Index(Plain, "id") \in DOMAIN files',
         Pending \/ (Db(Plain) \in DOMAIN files /\ Db(Plain) \notin DOMAIN files')
  PROVE  Pending'
<1>1. Core /\ TypeOK /\ GoneOK /\ ListsOK
  BY DEF IndexInv, RowsInv, Core
<1> DEFINE x == Index(Plain, "id")
           d == Db(Plain)
<1>2. collect.pc = "locked" /\ x # d /\ x[2] # "db" /\ d[2] = "db" /\ d[1] = Plain
  BY <1>1, CollectRemoveFirst DEF Index, Db
<1>3. PICK e \in retired : \E p \in NextToRemove(e.paths \ collect.gone) :
            /\ Expired(e) /\ \A o \in retired : e.csn <= o.csn
            /\ files' = Without(files, {p})
            /\ \/ /\ e.paths \subseteq collect.gone \cup {p}
                  /\ retired' = retired \ {e} /\ collect'.gone = {}
               \/ /\ retired' = retired /\ collect'.gone = collect.gone \cup {p}
                  /\ collect'.pc = "locked" /\ collect'.oldest = collect.oldest
  BY <1>1, CollectRemoveFirst
<1>4. PICK p \in NextToRemove(e.paths \ collect.gone) :
            /\ Expired(e) /\ \A o \in retired : e.csn <= o.csn
            /\ files' = Without(files, {p})
            /\ \/ /\ e.paths \subseteq collect.gone \cup {p}
                  /\ retired' = retired \ {e} /\ collect'.gone = {}
               \/ /\ retired' = retired /\ collect'.gone = collect.gone \cup {p}
                  /\ collect'.pc = "locked" /\ collect'.oldest = collect.oldest
  BY <1>3
<1>5. p \in e.paths /\ p \notin collect.gone
  BY <1>4 DEF NextToRemove
<1>6. DOMAIN files' = DOMAIN files \ {p}
  BY <1>4, WithoutDomain
<1>7. x # p
  BY <1>6
<1>8. x \in e.paths /\ x \notin collect.gone
  <2>1. CASE Pending
    <3>1. PICK f \in retired : x \in f.paths /\ \A o \in retired : f.csn <= o.csn
      BY <2>1 DEF Pending
    <3>2. e.csn \in Nat /\ f.csn \in Nat
      BY <1>1 DEF TypeOK, RetiredOK
    <3>3. e = f
      BY <1>1, <1>4, <3>1, <3>2 DEF GoneOK
    <3> QED
      BY <2>1, <3>1, <3>3 DEF Pending
  <2>2. CASE d \in DOMAIN files /\ d \notin DOMAIN files'
    <3>1. p = d
      BY <1>6, <2>2
    <3>2. x \in e.paths
      BY <1>1, <1>2, <1>5, <3>1 DEF ListsOK, Closed
    <3>3. x \notin collect.gone
      BY <1>1, <1>2, <1>4, <1>5, <3>1 DEF ListsOK
    <3> QED
      BY <3>2, <3>3
  <2> QED
    BY <2>1, <2>2
<1>9. /\ retired' = retired /\ collect'.gone = collect.gone \cup {p}
      /\ collect'.pc = "locked" /\ collect'.oldest = collect.oldest
  BY <1>4, <1>7, <1>8
<1> QED
  BY <1>4, <1>7, <1>8, <1>9 DEF Pending, Halfway, Expired, Index, Plain

LEMMA PlainStep ==
  ASSUME IndexInv, Next
  PROVE  PlainOK'
<1> DEFINE x == Index(Plain, "id")
           d == Db(Plain)
           Goal == files'[x] = {} \/ Outdated'
<1>1. /\ RowsInv /\ Core /\ TypeOK /\ Flow /\ Running /\ GoneOK /\ DataOK /\ ListsOK /\ PlainOK
      /\ catalog.gen \in Int
  BY DEF IndexInv, RowsInv, Core, TypeOK, DirectoryOK, Entries
<1>2. SUFFICES ASSUME d \notin DOMAIN files', x \in DOMAIN files', ~ torn' PROVE Goal
  BY DEF PlainOK, Index, Db, Plain
<1>3. x \in DOMAIN files /\ files'[x] = files[x]
  BY <1>2, PlainKept
<1>4. d \notin DOMAIN files => files'[x] = {} \/ Outdated
  <2>1. ~ torn
    BY <1>2, TornBy DEF TornMoves
  <2> QED
    BY <1>1, <1>3, <2>1 DEF PlainOK
<1>5. wal = NoOp => wal.kind = "none"
  BY OpsAre
<1>6. /\ Outdated => x \in left \/ (mode = "down" /\ wal.kind = "drop" /\ ~ Exists) \/ Pending
      /\ x \in left' => Goal
      /\ mode' = "down" /\ wal'.kind = "drop" /\ ~ Exists' => Goal
      /\ Pending' => Goal
      /\ files'[x] = {} => Goal
  BY PendingOutdated
<1>7. x[1] = Plain /\ x[2] = "id" /\ d[1] = Plain /\ d[2] = "db"
  BY DEF Index, Db
<1>8. x \in left => step = "remove"
  BY <1>1 DEF Flow
<1> HIDE DEF Goal, x, d
<1>9. ASSUME DOMAIN files \subseteq DOMAIN files', x \in left => left' = left,
             mode = "down" => UNCHANGED <<mode, wal, catalog>>,
             collect.pc = "locked" => UNCHANGED <<collect, retired>>
      PROVE  Goal
  <2>1. files'[x] = {} \/ Outdated
    BY <1>2, <1>4, <1>9
  <2>2. CASE x \in left
    BY <1>6, <1>9, <2>2
  <2>3. CASE mode = "down" /\ wal.kind = "drop" /\ ~ Exists
    BY <1>6, <1>9, <2>3 DEF Exists, NoTable
  <2>4. CASE Pending
    <3>1. Pending'
      BY <1>9, <2>4, PendingStays DEF Pending
    <3> QED
      BY <1>6, <3>1
  <2> QED
    BY <1>6, <2>1, <2>2, <2>3, <2>4
<1>10. ASSUME NEW r \in Rows, Insert(r) \/ Delete(r) PROVE Goal
  <2>1. /\ DOMAIN files \subseteq DOMAIN files' /\ mode # "down" /\ step # "remove"
        /\ UNCHANGED <<collect, retired>>
    BY <1>10, <1>1, <1>5, InsertDoes DEF Flow, Rest
  <2> QED
    BY <1>8, <1>9, <2>1
<1>11. ASSUME CreateTable PROVE Goal
  <2>1. /\ DOMAIN files \subseteq DOMAIN files' /\ mode # "down" /\ step # "remove"
        /\ UNCHANGED <<collect, retired>>
    BY <1>11, <1>1, <1>5, CreateTableDoes DEF Flow, Rest
  <2> QED
    BY <1>8, <1>9, <2>1
<1>12. ASSUME DropTable PROVE Goal
  <2>1. /\ DOMAIN files \subseteq DOMAIN files' /\ mode # "down" /\ step # "remove"
        /\ UNCHANGED <<collect, retired>>
    BY <1>12, <1>1, <1>5, DropTableDoes DEF Flow, Rest
  <2> QED
    BY <1>8, <1>9, <2>1
<1>13. ASSUME NEW c \in Columns, CreateIndex(c) \/ DropIndex(c) PROVE Goal
  <2>1. /\ DOMAIN files \subseteq DOMAIN files' /\ mode # "down" /\ step # "remove"
        /\ UNCHANGED <<collect, retired>>
    BY <1>13, <1>1, <1>5, IndexDoes DEF Flow, Rest
  <2> QED
    BY <1>8, <1>9, <2>1
<1>14. ASSUME ApplyCreate PROVE Goal
  <2>1. /\ DOMAIN files \subseteq DOMAIN files' /\ mode # "down" /\ step # "remove"
        /\ UNCHANGED <<collect, retired>>
    BY <1>14, <1>1, <1>5, ApplyCreateDoes DEF Rest
  <2> QED
    BY <1>8, <1>9, <2>1
<1>15. ASSUME ApplyDrop PROVE Goal
  <2>1. /\ DOMAIN files \subseteq DOMAIN files' /\ mode # "down" /\ step # "remove"
        /\ UNCHANGED <<collect, retired>>
    BY <1>15, <1>1, <1>5, ApplyDropDoes DEF Rest
  <2> QED
    BY <1>8, <1>9, <2>1
<1>16. ASSUME ApplyCreateIndex PROVE Goal
  <2>1. /\ DOMAIN files \subseteq DOMAIN files' /\ mode # "down" /\ step # "remove"
        /\ UNCHANGED <<collect, retired>>
    BY <1>16, <1>1, <1>5, ApplyCreateIndexDoes DEF Rest
  <2> QED
    BY <1>8, <1>9, <2>1
<1>17. ASSUME ApplyDropIndex PROVE Goal
  <2>1. /\ DOMAIN files \subseteq DOMAIN files' /\ mode # "down" /\ step # "remove"
        /\ UNCHANGED <<collect, retired>>
    BY <1>17, <1>1, <1>5, ApplyDropIndexDoes DEF Rest
  <2> QED
    BY <1>8, <1>9, <2>1
<1>18. ASSUME ApplyMigrate PROVE Goal
  <2>1. /\ DOMAIN files \subseteq DOMAIN files' /\ mode # "down" /\ step # "remove"
        /\ UNCHANGED <<collect, retired>>
    BY <1>18, <1>1, <1>5, ApplyMigrateDoes DEF Rest
  <2> QED
    BY <1>8, <1>9, <2>1
<1>19. ASSUME SaveCatalog PROVE Goal
  <2>1. /\ DOMAIN files \subseteq DOMAIN files' /\ mode # "down" /\ step # "remove"
        /\ UNCHANGED <<collect, retired>>
    BY <1>19, <1>1, <1>5, SaveCatalogDoes DEF Rest
  <2> QED
    BY <1>8, <1>9, <2>1
<1>20. ASSUME RemoveFile PROVE Goal
  <2>1. /\ mode # "down" /\ UNCHANGED <<collect, retired>>
        /\ \E p \in left : files' = Without(files, {p}) /\ left' = left \ {p}
    BY <1>20 DEF RemoveFile, NextToRemove, server, Aside
  <2>2. PICK p \in left : files' = Without(files, {p}) /\ left' = left \ {p}
    BY <2>1
  <2>3. DOMAIN files' = DOMAIN files \ {p}
    BY <2>2, WithoutDomain
  <2>4. p # x
    BY <1>2, <2>3
  <2>5. CASE x \in left
    BY <1>6, <2>2, <2>4, <2>5
  <2>6. CASE x \notin left
    <3>1. d \notin left
      BY <1>1, <1>7, <2>6 DEF ListsOK, Closed, x
    <3>2. d \notin DOMAIN files
      BY <1>2, <2>2, <2>3, <3>1
    <3>3. Pending => Goal
      BY <1>6, <2>1, PendingStays
    <3> QED
      BY <1>4, <1>6, <2>1, <2>6, <3>2, <3>3
  <2> QED
    BY <2>5, <2>6
<1>21. ASSUME Publish PROVE Goal
  <2>1. /\ DOMAIN files \subseteq DOMAIN files' /\ mode # "down" /\ step # "remove"
        /\ collect.pc = "locked" => UNCHANGED <<collect, retired>>
    BY <1>21, <1>1, PublishDoes
  <2> QED
    BY <1>8, <1>9, <2>1
<1>22. ASSUME NEW w \in Workers, Start(w) PROVE Goal
  <2>1. UNCHANGED <<files, left, mode, wal, catalog, collect, retired>>
    BY <1>22 DEF Start, directory, server, log, counters, Aside
  <2> QED
    BY <1>9, <2>1
<1>23. ASSUME NEW w \in Workers, Copy(w) PROVE Goal
  <2>1. /\ DOMAIN files \subseteq DOMAIN files' /\ mode # "down"
        /\ UNCHANGED <<left, collect, retired>>
    BY <1>23, <1>1, CopyFrame DEF Rest
  <2> QED
    BY <1>9, <2>1
<1>24. ASSUME NEW w \in Workers, Swap(w) PROVE Goal
  <2>1. /\ DOMAIN files \subseteq DOMAIN files' /\ mode # "down" /\ step # "remove"
        /\ UNCHANGED <<collect, retired>>
    BY <1>24, <1>1, <1>5, SwapFrame DEF Flow, Rest
  <2> QED
    BY <1>8, <1>9, <2>1
<1>25. ASSUME NEW w \in Workers, Refuse(w) PROVE Goal
  <2>1. UNCHANGED <<files, left, mode, wal, catalog, collect, retired>>
    BY <1>25 DEF Refuse, directory, server, log, counters, Aside
  <2> QED
    BY <1>9, <2>1
<1>26. ASSUME NEW w \in Workers, Release(w) PROVE Goal
  <2>1. UNCHANGED <<files, left, mode, wal, catalog, collect, retired>>
    BY <1>26 DEF Release, directory, server, log, counters, Aside
  <2> QED
    BY <1>9, <2>1
<1>27. ASSUME NEW r \in Readers, Begin(r) PROVE Goal
  <2>1. UNCHANGED <<files, left, mode, wal, catalog, collect, retired>>
    BY <1>27 DEF Begin, directory, server, log, counters, Aside
  <2> QED
    BY <1>9, <2>1
<1>28. ASSUME NEW r \in Readers, Finish(r) PROVE Goal
  <2>1. UNCHANGED <<files, left, mode, wal, catalog, collect, retired>>
    BY <1>28 DEF Finish, directory, server, log, counters, Aside
  <2> QED
    BY <1>9, <2>1
<1>29. ASSUME CollectStart PROVE Goal
  <2>1. /\ UNCHANGED <<files, left, mode, wal, catalog, retired>> /\ collect.pc # "locked"
    BY <1>29 DEF CollectStart, directory, server, log, NoCollect
  <2> QED
    BY <1>9, <2>1
<1>30. ASSUME CollectLock PROVE Goal
  <2>1. /\ UNCHANGED <<files, left, mode, wal, catalog, retired>> /\ collect.pc # "locked"
    BY <1>30 DEF CollectLock, directory, server, log
  <2> QED
    BY <1>9, <2>1
<1>31. ASSUME CollectRemove PROVE Goal
  <2>1. mode # "down" /\ left' = left
    BY <1>31 DEF CollectRemove, log
  <2>2. Pending \/ (d \in DOMAIN files /\ d \notin DOMAIN files') => Pending'
    BY <1>31, <1>2, PlainCollected DEF x, d
  <2>3. CASE d \in DOMAIN files
    BY <1>2, <1>6, <2>2, <2>3
  <2>4. CASE d \notin DOMAIN files
    BY <1>4, <1>6, <2>1, <2>2, <2>4
  <2> QED
    BY <2>3, <2>4
<1>32. ASSUME Crash PROVE Goal
  <2>1. /\ mode # "down" /\ torn' = (torn \/ Halfway) /\ mode' = "down"
        /\ UNCHANGED <<catalog, files, wal>>
    BY <1>32 DEF Crash, directory
  <2>2. ~ Pending
    BY <1>2, <2>1 DEF Pending
  <2>3. CASE x \in left
    <3>1. step = "remove" /\ wal.kind \in {"drop", "unindex"} /\ wal.kind # "unindex"
      BY <1>1, <1>7, <1>8, <2>3 DEF Flow, ListsOK
    <3>2. ~ Exists
      BY <1>1, <3>1 DEF DataOK
    <3> QED
      BY <1>6, <2>1, <3>1, <3>2 DEF Exists, NoTable
  <2>4. CASE x \notin left
    BY <1>2, <1>4, <1>6, <2>1, <2>2, <2>4
  <2> QED
    BY <2>3, <2>4
<1>33. ASSUME Restart PROVE Goal
  <2>1. mode = "down" /\ (d \in DOMAIN files => d \in DOMAIN files')
    BY <1>33, <1>1, <1>7, RestartDoes, ColumnsAre
  <2>2. x \notin left /\ ~ Pending
    BY <1>1, <1>8, <2>1 DEF Flow, Running, Pending
  <2>3. ~ (wal.kind = "drop" /\ ~ Exists)
    <3>1. SUFFICES ASSUME wal.kind = "drop", ~ Exists PROVE FALSE
      OBVIOUS
    <3>2. files' = Without(files, {Index(Plain, c) : c \in {"id"} \cup catalog.cols})
      BY <1>33, <1>5, <3>1 DEF Restart
    <3>3. DOMAIN files' = DOMAIN files \ {Index(Plain, c) : c \in {"id"} \cup catalog.cols}
      BY <3>2, WithoutDomain
    <3> QED
      BY <1>2, <3>3 DEF x
  <2> QED
    BY <1>2, <1>4, <1>6, <2>1, <2>2, <2>3
<1>34. ASSUME Cleanup PROVE Goal
  <2>1. mode = "recover" /\ wal.kind = "none"
    BY <1>34, <1>5 DEF Cleanup
  <2>2. x \notin left /\ ~ Pending
    BY <1>1, <1>8, <2>1 DEF Flow, Running, Pending
  <2>3. d \notin DOMAIN files
    <3> DEFINE orphans == {p \in DOMAIN files : Orphan(p)}
               fs == Without(files, orphans)
    <3>1. SUFFICES ASSUME d \in DOMAIN files PROVE FALSE
      OBVIOUS
    <3>2. Reopen(fs, catalog)
      BY <1>34 DEF Cleanup
    <3>3. DOMAIN fs = DOMAIN files \ orphans
      BY WithoutDomain
    <3>4. Orphan(d) <=> Orphan(x)
      BY <1>7 DEF Orphan
    <3> HIDE DEF fs
    <3>5. DOMAIN files' = DOMAIN fs \cup (IF catalog = NoTable THEN {} ELSE Paths(catalog.gen, catalog.cols))
      BY <3>2, ReopenDomain
    <3>6. x \notin DOMAIN fs
      BY <1>2, <3>1, <3>3, <3>4, <3>5
    <3>7. catalog # NoTable /\ x \in Paths(catalog.gen, catalog.cols)
      BY <1>2, <3>5, <3>6
    <3>8. catalog.gen = Plain
      BY <1>1, <1>7, <3>7, PathsOf DEF TypeOK, DirectoryOK, Entries
    <3>9. d \in Paths(catalog.gen, catalog.cols)
      BY <3>8 DEF Paths, d
    <3> QED
      BY <1>2, <3>5, <3>7, <3>9
  <2> QED
    BY <1>4, <1>6, <2>1, <2>2, <2>3
<1>35. ASSUME UNCHANGED vars PROVE Goal
  <2>1. UNCHANGED <<files, left, mode, wal, catalog, collect, retired>>
    BY <1>35 DEF vars, directory, server, log, counters, Aside
  <2> QED
    BY <1>9, <2>1
<1> QED
  BY <1>10, <1>11, <1>12, <1>13, <1>14, <1>15, <1>16, <1>17, <1>18, <1>19, <1>20, <1>21,
    <1>22, <1>23, <1>24, <1>25, <1>26, <1>27, <1>28, <1>29, <1>30, <1>31, <1>32, <1>33,
    <1>34, <1>35 DEF Next, Done

(***************************************************************************)
(* The invariant holds, and with it the property.                          *)
(***************************************************************************)

LEMMA IndexInit == Init => IndexInv
<1> SUFFICES ASSUME Init PROVE IndexInv
  OBVIOUS
<1>1. /\ wal.kind = "none" /\ \A w \in Workers : workers[w].pc = "idle"
      /\ catalog.gen = 0 /\ catalog.cols = {"id"} /\ left = {} /\ retired = {}
      /\ collect.gone = {} /\ Exists
  BY OpsAre DEF Init, NoWork, Plain, NoCollect, Exists, NoTable
<1>2. /\ files = open /\ DOMAIN open = Paths(0, {"id"}) /\ rows = InitialRows
      /\ open[Index(0, "id")] = Range(InitialRows)
  <2>1. Index(0, "id") \in Paths(0, {"id"}) /\ Index(0, "id") # Db(0)
    BY DEF Paths, Index, Db
  <2> QED
    BY <2>1 DEF Init, Plain
<1>3. KeyedOK
  <2>1. \A i, j \in DOMAIN InitialRows : InitialRows[i] = InitialRows[j] => i = j
    BY DEF InitialRows
  <2> QED
    BY <1>1, <1>2, <2>1 DEF KeyedOK
<1>4. FilledOK
  BY <1>1, <1>2 DEF FilledOK, Fit, FitIn, Finds
<1>5. FoundOK
  BY <1>1, <1>2 DEF FoundOK, Finds
<1>6. ListsOK
  BY <1>1 DEF ListsOK, Closed
<1>7. PlainOK
  BY <1>2 DEF PlainOK, Plain, Paths
<1> QED
  BY <1>3, <1>4, <1>5, <1>6, <1>7, RowsInit DEF IndexInv

LEMMA IndexStutter == IndexInv /\ UNCHANGED vars => IndexInv'
<1> SUFFICES ASSUME IndexInv, UNCHANGED vars PROVE IndexInv'
  OBVIOUS
<1>1. /\ UNCHANGED <<catalog, files, gens, open, retired, wal, step, left, rows, workers, collect>>
      /\ UNCHANGED <<mode, torn>>
  BY DEF vars, directory, server, log, counters
<1>2. RowsInv'
  BY RowsStutter DEF IndexInv
<1>3. KeyedOK' /\ FoundOK'
  BY <1>1 DEF IndexInv, KeyedOK, FoundOK, Finds, Exists, Index, Plain
<1>4. FilledOK'
  BY <1>1 DEF IndexInv, FilledOK, Fit, FitIn, Finds, Exists, Index, ObjectGen, Plain
<1>5. ListsOK'
  BY <1>1 DEF IndexInv, ListsOK, Closed, Index
<1>6. PlainOK'
  BY <1>1 DEF IndexInv, PlainOK, Outdated, Halfway, Expired, Exists, Index, Db, Plain
<1> QED
  BY <1>2, <1>3, <1>4, <1>5, <1>6 DEF IndexInv

\* For any number of compactions, tables, indexes and crashes, and whatever
\* comes between the steps of collect_retired(): an index of the open table
\* finds every committed row.  It finds no others, unless it is the id index
\* under the plain name and a create or a crash came between two removals.
THEOREM IndexesStayFit == Spec => []IndexesFit
<1>1. IndexInv /\ [Next]_vars => IndexInv'
  <2>1. ASSUME IndexInv, Next PROVE IndexInv'
    <3>1. RowsInv'
      BY <2>1, RowsStep DEF IndexInv
    <3>2. KeyedOK' /\ FilledOK' /\ FoundOK'
      BY <2>1, KeyedStep, FilledStep, FoundStep
    <3>3. ListsOK' /\ PlainOK'
      BY <2>1, ListsStep, PlainStep
    <3> QED
      BY <3>1, <3>2, <3>3 DEF IndexInv
  <2> QED
    BY <2>1, IndexStutter
<1>2. IndexInv => IndexesFit
  <2> SUFFICES ASSUME IndexInv, Settled PROVE IndexesFit
    BY DEF IndexesFit
  <2>1. mode = "up" /\ wal.kind = "none" /\ Exists
    BY OpsAre DEF Settled, GateFree
  <2>2. ASSUME NEW c \in catalog.cols
        PROVE  LET found == open[Index(catalog.gen, c)]
               IN  /\ Range(rows) \subseteq found
                   /\ (c = "id" /\ catalog.gen = Plain /\ torn) \/ found = Range(rows)
    <3>1. Finds(open[Index(catalog.gen, c)], rows, torn, Index(catalog.gen, c))
      BY <2>1 DEF IndexInv, FoundOK
    <3>2. Index(catalog.gen, c) = Index(Plain, "id") => catalog.gen = Plain /\ c = "id"
      BY DEF Index
    <3> QED
      BY <3>1, <3>2 DEF Finds
  <2> QED
    BY <2>2 DEF IndexesFit
<1> QED
  BY <1>1, <1>2, IndexInit, PTL DEF Spec

=============================================================================
