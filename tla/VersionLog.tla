----------------------------- MODULE VersionLog -----------------------------
(***************************************************************************)
(* The files behind the published row versions: Mvcc::open(),              *)
(* persist_snapshot(), persist() and replay_deltas() of                    *)
(* chusql-core/storage/src/mvcc.rs.  A base snapshot (mvcc.json) is        *)
(* replaced as a whole by a rename; the commits after it are lines of a    *)
(* delta log (mvcc.delta), each with a checksum; from time to time a       *)
(* publication writes a new base and cuts the log.                         *)
(*                                                                         *)
(* A version is one entry of a row's chain: the table, the number of the   *)
(* row, its business key and contents (position included), the commits     *)
(* that began and ended it.  A durable is the set of versions with the     *)
(* live tables.  How rows without a key keep their number is in            *)
(* MvccVersions; here a row is known by its key.                           *)
(*                                                                         *)
(* The rows to publish are what the heaps hold after the group was applied *)
(* (WalCommit); a restart publishes the group again when the crash came    *)
(* before its checkpoint, under the same commit number.  A line that a     *)
(* crash or an error cut has no line end: the log is appended to in order. *)
(* File sizes are left out: a new base may be written whenever the log     *)
(* holds something (log_size > max(base_size, 1 MiB) implies that).        *)
(***************************************************************************)
EXTENDS Integers, Sequences, FiniteSets, TLC

CONSTANTS
    Readers,     \* snapshot transactions
    Values,      \* contents of rows
    Catalogs,    \* what commits may leave behind: functions from tables to sets of [key, val]
    Legacy,      \* those that a database without version files may hold at first
    MaxCommits,  \* bound on the commits
    MaxFaults    \* bound on the crashes and write errors

\* The rows of some tables, each with its table.
RowsIn(catalog, tables) ==
    {n \in tables \X UNION {catalog[t] : t \in tables} : n[2] \in catalog[n[1]]}

\* Keys are unique in a table (HeapTable, IdsUnique), and there are finitely many
\* rows.
ASSUME VersionLogAssumption ==
    /\ MaxCommits \in Nat /\ MaxFaults \in Nat
    /\ \A catalog \in Catalogs \cup Legacy :
         /\ DOMAIN catalog \subseteq Nat
         /\ catalog \in [DOMAIN catalog -> SUBSET [key : Nat, val : Values]]
         /\ \A t \in DOMAIN catalog : \A c, d \in catalog[t] : c.key = d.key => c = d
         /\ IsFiniteSet(RowsIn(catalog, DOMAIN catalog))

VARIABLES
    base,        \* the base snapshot, or NoBase
    delta,       \* the whole lines of the delta log
    torn,        \* does the log end in a line without its end?
    mem,         \* State::durable
    format,      \* its format: 1 until something was published or read
    next,        \* the version being persisted
    target,      \* the last commit: [csn, catalog, objects], with the highest table id given
    checkpoint,  \* the commit the checkpoint names
    readers,     \* snapshots of the readers, or Idle
    pc,          \* see TypeOK
    faults       \* crashes and errors so far

files == <<base, delta, torn>>
memory == <<mem, format>>
vars == <<files, memory, next, target, checkpoint, readers, pc, faults>>

OpenEnd == 0       \* Version.end is None; a real end is a commit above a begin
NoDurable == [csn |-> 0, next_row |-> 0, live |-> {}, versions |-> {}]
NoBase == [NoDurable EXCEPT !.csn = -1]
Refused == [NoDurable EXCEPT !.csn = -2]    \* what a log that is an error gives
Idle == -1
EmptyFn == [x \in {} |-> x]
Highest(catalog) == CHOOSE n \in {0} \cup DOMAIN catalog : \A t \in DOMAIN catalog : t <= n

(***************************************************************************)
(* Versions.                                                               *)
(***************************************************************************)

\* prune_durable(): versions that ended at or before `oldest` go.  A retired
\* table goes with its last version.
Prune(durable, oldest) ==
    [durable EXCEPT !.versions = {v \in @ : v.end = OpenEnd \/ v.end > oldest}]

Visible(durable, t) == {v \in durable.versions : v.table = t /\ v.end = OpenEnd}
RowsOf(durable, t) == {[key |-> v.key, val |-> v.val] : v \in Visible(durable, t)}
ChainsOf(S) == {<<v.table, v.row>> : v \in S}
ChainIn(durable, chain) == {v \in durable.versions : <<v.table, v.row>> = chain}

\* As Kept, but a row always gets a new version.
KeptNever(v, rows) == FALSE

\* Are the contents of this version among the rows to publish?
Kept(v, rows) == [key |-> v.key, val |-> v.val] \in rows

\* As Stays, but the rows of a dropped table stay visible.
StaysWhenDropped(v, catalog, touched) ==
    v.end # OpenEnd \/ (v.table \in touched => Kept(v, catalog[v.table]))

\* Does publish_changed() leave this version as it is?
Stays(v, catalog, touched) ==
    \/ v.end # OpenEnd
    \/ v.table \in DOMAIN catalog /\ (v.table \in touched => Kept(v, catalog[v.table]))

\* The versions that end with a commit: the row is gone, or has other contents.
Ended(durable, catalog, touched) ==
    {v \in durable.versions : ~ Stays(v, catalog, touched)}

\* The rows that begin with it.
New(durable, catalog, touched) ==
    {n \in RowsIn(catalog, touched) : ~ \E v \in Visible(durable, n[1]) : Kept(v, {n[2]})}

\* A row keeps the number its key has, a new key takes the next number.
Known(durable, n) == {v \in Visible(durable, n[1]) : v.key = n[2].key}
Fresh(durable, catalog, touched) == {n \in New(durable, catalog, touched) : Known(durable, n) = {}}
UpTo(fresh, n) == {m \in fresh : m[1] < n[1] \/ (m[1] = n[1] /\ m[2].key <= n[2].key)}
Number(durable, fresh, n) ==
    IF n \in fresh THEN durable.next_row + Cardinality(UpTo(fresh, n))
    ELSE (CHOOSE v \in Known(durable, n) : TRUE).row

EndAt(v, csn) == [v EXCEPT !.end = csn]
BeginAt(durable, fresh, n, csn) ==
    [table |-> n[1], row |-> Number(durable, fresh, n), key |-> n[2].key, val |-> n[2].val,
     begin |-> csn, end |-> OpenEnd]

\* publish_changed().
Published(durable, csn, catalog, touched, oldest) ==
    LET ended == Ended(durable, catalog, touched)
        fresh == Fresh(durable, catalog, touched)
    IN  Prune([csn |-> csn, next_row |-> durable.next_row + Cardinality(fresh),
               live |-> DOMAIN catalog,
               versions |-> (durable.versions \ ended)
                   \cup {EndAt(v, csn) : v \in ended}
                   \cup {BeginAt(durable, fresh, n, csn) : n \in New(durable, catalog, touched)}],
              oldest)

\* It refuses rows that contradict what was already published at csn.
Publishes(durable, csn, catalog, touched) ==
    /\ csn >= durable.csn
    /\ \A v \in Ended(durable, catalog, touched) : v.table \in touched => v.begin # csn

\* The catalog check of Mvcc::open().
OpenAccepts(durable) ==
    /\ \A v \in durable.versions :
         /\ v.row <= durable.next_row /\ v.begin <= durable.csn
         /\ v.end # OpenEnd => v.end > v.begin /\ v.end <= durable.csn
    /\ \A v, w \in durable.versions :
         v.table = w.table /\ v.row = w.row /\ v.begin = w.begin => v = w

(***************************************************************************)
(* Deltas.                                                                 *)
(***************************************************************************)

Garbage == [kind |-> "garbage"]     \* a line whose checksum does not fit

\* As DeltaOf, but a row that left the version is not named.
DeltaWithoutRemovals(previous, durable, oldest) ==
    LET chains == {c \in ChainsOf(durable.versions) :
                     ChainIn(previous, c) # ChainIn(durable, c)}
    IN  [kind |-> "delta", csn |-> durable.csn, next_row |-> durable.next_row, oldest |-> oldest,
         chains |-> chains, versions |-> {v \in durable.versions : <<v.table, v.row>> \in chains},
         retired |-> previous.live \ durable.live, live |-> durable.live \ previous.live]

\* The line persist() appends: the chains that differ from the previous version,
\* those that are gone included, and the tables that appear or retire.
DeltaOf(previous, durable, oldest) ==
    LET chains == {c \in ChainsOf(previous.versions \cup durable.versions) :
                     ChainIn(previous, c) # ChainIn(durable, c)}
    IN  [kind |-> "delta", csn |-> durable.csn, next_row |-> durable.next_row, oldest |-> oldest,
         chains |-> chains, versions |-> {v \in durable.versions : <<v.table, v.row>> \in chains},
         retired |-> previous.live \ durable.live, live |-> durable.live \ previous.live]

\* One delta applied, and pruned at the boundary it names.
ApplyDelta(durable, d) ==
    Prune([csn |-> d.csn, next_row |-> d.next_row,
           live |-> (durable.live \ d.retired) \cup d.live,
           versions |-> {v \in durable.versions : <<v.table, v.row>> \notin d.chains}
                          \cup d.versions], d.oldest)

\* One line of replay_deltas(): lines at or below the base are passed over, a
\* line that is damaged or that turns back is an error.
Whole(d) == d.kind # "garbage" /\ d.oldest <= d.csn
Accepts(durable, d) == d.csn >= durable.csn /\ d.next_row >= durable.next_row

ReplayDelta(baseCsn, durable, d) ==
    IF durable = Refused \/ ~ Whole(d) THEN Refused
    ELSE IF d.csn <= baseCsn THEN durable
    ELSE IF Accepts(durable, d) THEN ApplyDelta(durable, d) ELSE Refused

Replayed(start, log) ==
    LET read[n \in 0 .. Len(log)] ==
            IF n = 0 THEN start ELSE ReplayDelta(start.csn, read[n - 1], log[n])
    IN  read[Len(log)]

\* What Mvcc::open() makes of the files, and whether it accepts it.
Found == Replayed(IF base = NoBase THEN NoDurable ELSE base, delta)
Readable ==
    /\ Found # Refused /\ OpenAccepts(Found)
    /\ base = NoBase => delta = <<>> /\ ~ torn

(***************************************************************************)
(* Publication.                                                            *)
(***************************************************************************)

Oldest(rs, default) ==
    LET open == {rs[r] : r \in {q \in DOMAIN rs : rs[q] # Idle}}
    IN  IF open = {} THEN default ELSE CHOOSE n \in open : \A m \in open : n <= m

\* Publication of `catalog` at csn; `touched` are the tables the group names.
Publication(csn, catalog, touched) ==
    Published(mem, csn, catalog, touched, Oldest(readers, csn))

\* persist() writes a new base when there is none or the memory was never
\* persisted, and it may when the log has grown.
MustSnapshot == format # 2 \/ base = NoBase
MaySnapshot == MustSnapshot \/ delta # <<>> \/ torn

StartPersist(csn, catalog, touched) ==
    /\ Publishes(mem, csn, catalog, touched)
    /\ next' = Publication(csn, catalog, touched)
    /\ pc' \in (IF MaySnapshot THEN {"snapshot"} ELSE {})
                \cup (IF MustSnapshot THEN {} ELSE {"append"})
    /\ UNCHANGED <<files, memory, checkpoint, readers, faults>>

\* ensure_mvcc(), before anything else: the version files are behind the heaps of
\* an older database, or there are none.
NeedsImport == mem.csn < checkpoint \/ base = NoBase

EnsureMvcc ==
    /\ pc = "up" /\ NeedsImport
    /\ StartPersist(checkpoint, target.catalog, DOMAIN target.catalog)
    /\ UNCHANGED target

\* A group was applied: group_via_wal() publishes it.  The id of a dropped table
\* is not given again.
Commit(catalog) ==
    /\ pc = "up" /\ ~ NeedsImport /\ target.csn < MaxCommits
    /\ \A t \in DOMAIN catalog \ DOMAIN target.catalog : t > target.objects
    /\ target' = [csn |-> target.csn + 1, catalog |-> catalog,
                  objects |-> Highest(target.catalog @@ catalog)]
    /\ StartPersist(target.csn + 1, catalog,
                    {t \in DOMAIN catalog : t \in DOMAIN target.catalog
                                               => target.catalog[t] # catalog[t]})

\* persist_snapshot(): the file is written and synced aside, then renamed over
\* the base.
RenameSnapshot ==
    /\ pc = "snapshot"
    /\ base' = next
    /\ pc' = "truncate"
    /\ UNCHANGED <<delta, torn, memory, next, target, checkpoint, readers, faults>>

TruncateLog ==
    /\ pc = "truncate"
    /\ delta' = <<>> /\ torn' = FALSE
    /\ pc' = "install"
    /\ UNCHANGED <<base, memory, next, target, checkpoint, readers, faults>>

\* A line written after one that has no end makes one line of the two.
LogWith(line) == IF torn THEN Append(delta, Garbage) ELSE Append(delta, line)
NextLine == DeltaOf(mem, next, Oldest(readers, next.csn))

AppendDelta ==
    /\ pc = "append"
    /\ delta' = LogWith(NextLine) /\ torn' = FALSE
    /\ pc' = "install"
    /\ UNCHANGED <<base, memory, next, target, checkpoint, readers, faults>>

Install ==
    /\ pc = "install"
    /\ mem' = next /\ format' = 2 /\ next' = NoDurable
    /\ pc' = IF checkpoint < target.csn THEN "checkpoint" ELSE "up"
    /\ UNCHANGED <<files, target, checkpoint, readers, faults>>

WriteCheckpoint ==
    /\ pc = "checkpoint"
    /\ checkpoint' = target.csn
    /\ pc' = "up"
    /\ UNCHANGED <<files, memory, next, target, readers, faults>>

(***************************************************************************)
(* Readers.                                                                *)
(***************************************************************************)

Begin(r) ==
    /\ pc = "up" /\ ~ NeedsImport /\ readers[r] = Idle
    /\ readers' = [readers EXCEPT ![r] = mem.csn]
    /\ UNCHANGED <<files, memory, next, target, checkpoint, pc, faults>>

\* finish(): the versions nobody needs any more leave memory, not the files.
Finish(r) ==
    /\ pc \in {"up", "checkpoint"} /\ readers[r] # Idle
    /\ readers' = [readers EXCEPT ![r] = Idle]
    /\ mem' = Prune(mem, Oldest(readers', mem.csn))
    /\ UNCHANGED <<files, format, next, target, checkpoint, pc, faults>>

(***************************************************************************)
(* Faults and restart.                                                     *)
(***************************************************************************)

Fault == faults < MaxFaults /\ faults' = faults + 1

\* The write under way may have left a part of its line, or all of it.
CutShort ==
    \/ UNCHANGED <<delta, torn>>
    \/ pc = "append" /\ torn' = TRUE /\ UNCHANGED delta
    \/ pc = "append" /\ delta' = LogWith(NextLine) /\ torn' = FALSE

\* A write fails: the service is sealed, unless it was an import.
WriteError ==
    /\ Fault /\ pc \in {"snapshot", "truncate", "append", "checkpoint"}
    /\ CutShort
    /\ pc' = IF target.csn = checkpoint THEN "up" ELSE "sealed"
    /\ next' = NoDurable
    /\ UNCHANGED <<base, memory, target, checkpoint, readers>>

Crash ==
    /\ pc # "down"
    /\ IF pc = "sealed" THEN UNCHANGED faults ELSE Fault
    /\ CutShort
    /\ readers' = [r \in Readers |-> Idle]
    /\ mem' = NoDurable /\ format' = 1 /\ next' = NoDurable
    /\ pc' = "down"
    /\ UNCHANGED <<base, target, checkpoint>>

\* As Open, but a cut line stays in the log.
OpenKeepingTail ==
    /\ pc = "down" /\ Readable
    /\ mem' = Found
    /\ format' = IF base = NoBase THEN 1 ELSE 2
    /\ pc' = IF checkpoint < target.csn THEN "recover" ELSE "up"
    /\ UNCHANGED <<files, next, target, checkpoint, readers, faults>>

\* Mvcc::open(): the files are read, a cut line is removed from the log.
Open ==
    /\ pc = "down" /\ Readable
    /\ mem' = Found
    /\ format' = IF base = NoBase THEN 1 ELSE 2
    /\ torn' = FALSE
    /\ pc' = IF checkpoint < target.csn THEN "recover" ELSE "up"
    /\ UNCHANGED <<base, delta, next, target, checkpoint, readers, faults>>

\* recover_wal(): the group is redone and all tables are published again.
Republish ==
    /\ pc = "recover"
    /\ StartPersist(target.csn, target.catalog, DOMAIN target.catalog)
    /\ UNCHANGED target

Init ==
    /\ base = NoBase /\ delta = <<>> /\ torn = FALSE
    /\ mem = NoDurable /\ format = 1 /\ next = NoDurable
    /\ \/ target = [csn |-> 0, catalog |-> EmptyFn, objects |-> 0]
       \/ \E catalog \in Legacy :
            target = [csn |-> 1, catalog |-> catalog, objects |-> Highest(catalog)]
    /\ checkpoint = target.csn
    /\ readers = [r \in Readers |-> Idle]
    /\ pc = "up" /\ faults = 0

Done == pc = "up" /\ target.csn = MaxCommits /\ UNCHANGED vars

Next ==
    \/ EnsureMvcc \/ Republish
    \/ \E catalog \in Catalogs : Commit(catalog)
    \/ RenameSnapshot \/ TruncateLog \/ AppendDelta \/ Install \/ WriteCheckpoint
    \/ \E r \in Readers : Begin(r) \/ Finish(r)
    \/ WriteError \/ Crash \/ Open
    \/ Done

Spec == Init /\ [][Next]_vars

(***************************************************************************)
(* Properties.                                                             *)
(***************************************************************************)

Versions ==
    [table : Nat, row : Nat, key : Nat, val : Values, begin : Nat, end : Nat]
Durables ==
    [csn : Nat, next_row : Nat, live : SUBSET Nat, versions : SUBSET Versions]
Lines ==
    [kind : {"delta"}, csn : Nat, next_row : Nat, oldest : Nat, chains : SUBSET (Nat \X Nat),
     versions : SUBSET Versions, retired : SUBSET Nat, live : SUBSET Nat]
Deltas == {d \in Lines : Whole(d)}

FilesOK == base \in Durables \cup {NoBase} /\ delta \in Seq(Deltas) /\ torn \in BOOLEAN
MemoryOK == mem \in Durables /\ format \in {1, 2} /\ next \in Durables

\* Types of the files, the memory and the program counter.
TypeOK ==
    /\ FilesOK /\ MemoryOK
    /\ checkpoint \in Nat /\ target.csn \in Nat
    /\ target.catalog \in {EmptyFn} \cup Catalogs \cup Legacy
    /\ readers \in [Readers -> {Idle} \cup Nat]
    /\ pc \in {"up", "snapshot", "truncate", "append", "install", "checkpoint",
               "sealed", "down", "recover"}
    /\ faults \in 0..MaxFaults

\* Whenever the process stops, the next Mvcc::open() accepts the files: the
\* log has a base, no line turns back or is damaged, and the chains are sound.
OpenAccepted == Readable

\* A version as a restart needs it: nobody holds an older snapshot.
Settled(durable) == Prune(durable, durable.csn)

\* The files always hold a whole version: the one in memory, or, from the moment
\* the rename or the line is complete, the one being persisted.  What finish()
\* pruned in memory only does not come back.
FilesHoldVersion ==
    LET found == Settled(Found)
    IN  /\ pc \in {"up", "recover", "snapshot", "append", "checkpoint"} /\ ~ NeedsImport
             => found = Settled(mem)
        /\ pc \in {"truncate", "install"} => found = Settled(next)

\* When the service is up, or has just opened a database whose last commit
\* reached the files, a reader that starts now sees what the heaps hold.
ReadersSeeCommit ==
    pc \in {"up", "checkpoint"} /\ ~ NeedsImport =>
        /\ mem.csn = target.csn
        /\ mem.live = DOMAIN target.catalog
        /\ \A v \in mem.versions : v.end = OpenEnd => v.table \in mem.live
        /\ \A t \in mem.live : RowsOf(mem, t) = target.catalog[t]

\* Publishing a redone group again at its own commit number is accepted and
\* changes no version: recovery may crash and start over any number of times.
RedoAccepted ==
    pc = "recover" =>
        /\ Publishes(mem, target.csn, target.catalog, DOMAIN target.catalog)
        /\ mem.csn = target.csn =>
             Settled(Publication(target.csn, target.catalog, DOMAIN target.catalog)) = Settled(mem)
=============================================================================
