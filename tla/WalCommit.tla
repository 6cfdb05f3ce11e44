----------------------------- MODULE WalCommit -----------------------------
(***************************************************************************)
(* How one database commits a group of operations and comes back after a   *)
(* crash: group_via_wal() and recover_wal() of                             *)
(* chusql-core/storage/src/runtime.rs over the logical log of wal.rs.      *)
(*                                                                         *)
(* The data are one heap: a sequence of pages, each a sequence of rows.    *)
(* Operations change the cached pages `mem`; a cached page reaches the     *)
(* data file `disk` alone (FlushPage), in any order: eviction writes pages *)
(* in the middle of an operation, and a page journal cut by a crash        *)
(* replays the pages whose frames were complete.  One page is never torn   *)
(* (page_wal.rs), the id index follows the heap (recovery rebuilds it),    *)
(* and publishing the versions is one step (the version log of mvcc.rs).   *)
(*                                                                         *)
(* A write failure other than the append's leaves the service sealed: only *)
(* a restart helps.                                                        *)
(***************************************************************************)
EXTENDS Integers, Sequences, FiniteSets, SequencesExt

CONSTANTS
    Rows,         \* rows: records with an id (NoId for a row without one) and a val
    Groups,       \* the groups clients may submit: sequences of operations
    InitPages,    \* what the data file holds at first, page by page
    RowsPerPage,  \* rows that fit a page
    MaxGroups,    \* bound on the groups submitted
    MaxCrashes    \* bound on the crashes and on the write failures after an append

Operations ==
    [kind : {"insert", "replace"}, rows : Seq(Rows)] \cup [kind : {"delete"}, ids : Seq(Nat)]

\* No caller submits an empty group: the commit handler asks first.
ASSUME WalAssumption ==
    /\ Groups \subseteq Seq(Operations) \ {<<>>}
    /\ InitPages \in Seq(Seq(Rows))
    /\ RowsPerPage \in Nat \ {0} /\ MaxGroups \in Nat /\ MaxCrashes \in Nat

VARIABLES
    log,         \* whole frames of the log: [lsn, op]
    nextLsn,     \* Wal::next_lsn, 0 until the first use after a start
    checkpoint,  \* the LSN in the checkpoint file
    csn,         \* the newest published version
    published,   \* the rows that version shows
    disk,        \* the pages of the data file
    mem,         \* the pages as the buffer pool shows them
    pageLsn,     \* the commit the pages are being written for
    todo,        \* operations of the group left to apply or replay
    steps,       \* row changes left of the current operation
    opening,     \* is the database being opened?
    pc,          \* see TypeOK
    acceptable,  \* history: the contents the commits and refusals so far allow
    strays,      \* history: frames of failed appends are "none", "logged" or "redone"
    submitted,   \* groups submitted
    crashes      \* crashes so far

logVars == <<log, nextLsn, checkpoint>>
versionVars == <<csn, published>>
work == <<pageLsn, todo, steps>>
counts == <<submitted, crashes>>
history == <<acceptable, strays>>
vars == <<logVars, versionVars, disk, mem, work, opening, pc, history, counts>>

NoId == 0
Commit == [kind |-> "commit"]

(***************************************************************************)
(* The heap.                                                               *)
(***************************************************************************)

Positions(h) == UNION {{p} \X DOMAIN h[p] : p \in DOMAIN h}
At(h, pos) == h[pos[1]][pos[2]]
WithId(h, id) == {pos \in Positions(h) : id # NoId /\ At(h, pos).id = id}

\* Contents as a bag, and an id is nowhere twice.
Contents(h) == [r \in Rows |-> Cardinality({pos \in Positions(h) : At(h, pos) = r})]
IdsUnique(h) == \A a, b \in Positions(h) : At(h, a).id = At(h, b).id /\ a # b => At(h, a).id = NoId

\* insert_returning_position(): the last page, or a new one when it is full.
InsertRow(h, row) ==
    IF h # <<>> /\ Len(Last(h)) < RowsPerPage
    THEN [h EXCEPT ![Len(h)] = Append(@, row)]
    ELSE Append(h, <<row>>)

\* delete_by_keys(): the id index answers with the lowest position.
DeleteId(h, id) ==
    IF WithId(h, id) = {} THEN h
    ELSE LET Lower(a, b) == a[1] < b[1] \/ (a[1] = b[1] /\ a[2] <= b[2])
             pos == CHOOSE a \in WithId(h, id) : \A b \in WithId(h, id) : Lower(a, b)
         IN  [h EXCEPT ![pos[1]] = RemoveAt(@, pos[2])]

PageOf(h, p) == IF p \in DOMAIN h THEN h[p] ELSE <<>>
PadTo(h, n) == [p \in 1..IF n > Len(h) THEN n ELSE Len(h) |-> PageOf(h, p)]

\* A page of the cache that the data file does not show yet.
Unwritten(p) == p \in DOMAIN mem /\ (p \in DOMAIN disk => disk[p] # mem[p])
Flushed == \A p \in DOMAIN mem : ~ Unwritten(p)

(***************************************************************************)
(* Operations: insert (Insert and InsertBatch), delete (DeleteKeys) and    *)
(* replace (ReplaceAll).                                                   *)
(***************************************************************************)

\* The row changes of an operation, in order.
Steps(op) ==
    LET Each(kind, args) == [i \in DOMAIN args |-> [kind |-> kind, arg |-> args[i]]]
    IN  CASE op.kind = "insert" -> Each("insert", op.rows)
          [] op.kind = "delete" -> Each("delete", op.ids)
          [] op.kind = "replace" -> <<[kind |-> "truncate"]>> \o Each("add", op.rows)

\* What a group means for the contents.
Occurs(rows, r) == Cardinality({i \in DOMAIN rows : rows[i] = r})
Effect(bag, op) ==
    CASE op.kind = "insert" -> [r \in Rows |-> bag[r] + Occurs(op.rows, r)]
      [] op.kind = "delete" -> [r \in Rows |-> IF r.id \in ToSet(op.ids) THEN 0 ELSE bag[r]]
      [] op.kind = "replace" -> [r \in Rows |-> Occurs(op.rows, r)]
\* The contents after the first n operations.
Afters(bag, ops) ==
    LET after[n \in 0 .. Len(ops)] ==
            IF n = 0 THEN bag ELSE Effect(after[n - 1], ops[n])
    IN  after
After(bag, ops) == Afters(bag, ops)[Len(ops)]

\* validate_insert_ids(): no operation inserts an id that is there by then.
ValidateInsertIds(bag, ops) ==
    \A i \in DOMAIN ops : ops[i].kind = "insert" =>
        LET before == Afters(bag, ops)[i - 1]
            rows == ops[i].rows
        IN  \A j \in DOMAIN rows : rows[j].id # NoId =>
              /\ \A r \in Rows : r.id = rows[j].id => before[r] = 0
              /\ \A k \in 1..(j - 1) : rows[k].id # rows[j].id

(***************************************************************************)
(* The log.                                                                *)
(***************************************************************************)

MaxOf(S, default) == IF S = {} THEN default ELSE CHOOSE n \in S : \A m \in S : m <= n

\* As TakeLsn, but only the log tail counts.
TakeLsnFromTail == IF nextLsn # 0 THEN nextLsn ELSE MaxOf({log[i].lsn : i \in DOMAIN log}, 0) + 1

\* take_lsn(): the counter, first set from the checkpoint and the last frame.
TakeLsn ==
    IF nextLsn # 0 THEN nextLsn
    ELSE MaxOf({checkpoint} \cup {log[i].lsn : i \in {Len(log)} \ {0}}, 0) + 1

Frames(ops) ==
    [i \in 1..(Len(ops) + 1) |->
        [lsn |-> TakeLsn + i - 1, op |-> IF i > Len(ops) THEN Commit ELSE ops[i]]]

\* The records with these indexes, in order.
Select(records, indexes) ==
    LET taken[n \in 0 .. Len(records)] ==
            IF n = 0 THEN <<>>
            ELSE IF n \in indexes THEN Append(taken[n - 1], records[n]) ELSE taken[n - 1]
    IN  taken[Len(records)]

RecordsAfter(records, lsn) == Select(records, {i \in DOMAIN records : records[i].lsn > lsn})
RecordsUpTo(records, lsn) == Select(records, {i \in DOMAIN records : records[i].lsn <= lsn})
Commits(records) == {i \in DOMAIN records : records[i].op = Commit}

\* committed_ops(): everything before the last mark, and a lone record after it.
CommittedOps(records) ==
    LET mark == MaxOf(Commits(records), 0)
        tail == SubSeq(records, mark + 1, Len(records))
    IN  Select(records, 1 .. mark \ Commits(records)) \o (IF Len(tail) = 1 THEN tail ELSE <<>>)

\* The commit that recovery completes: the last mark, or the lone record.
ReplayLsn(records) ==
    IF Commits(records) = {} THEN Last(CommittedOps(records)).lsn
    ELSE records[MaxOf(Commits(records), 0)].lsn

\* Frames are in the log that recovery should drop and might take: a refused
\* group's, or a lone first frame of several.
Stray == IF strays = "redone" THEN "redone" ELSE "logged"
NoStray == IF strays = "redone" THEN "redone" ELSE "none"

(***************************************************************************)
(* group_via_wal().                                                        *)
(***************************************************************************)

Submit(ops) ==
    /\ pc = "ready" /\ submitted < MaxGroups
    /\ ValidateInsertIds(Contents(mem), ops)
    /\ submitted' = submitted + 1
    /\ nextLsn' = TakeLsn + Len(ops) + 1
    /\ UNCHANGED <<checkpoint, versionVars, disk>>

\* append_group() synced the group: from here on it is committed.
AppendGroup(ops) ==
    /\ Submit(ops)
    /\ log' = log \o Frames(ops)
    /\ pageLsn' = Last(Frames(ops)).lsn
    /\ todo' = ops /\ steps' = <<>>
    /\ acceptable' = {After(Contents(mem), ops)}
    /\ pc' = "apply"
    /\ UNCHANGED <<mem, opening, strays, crashes>>

\* The machine stops during the append: k frames are whole.
AppendCrash(ops) ==
    /\ crashes < MaxCrashes
    /\ Submit(ops)
    /\ \E k \in 0..(Len(ops) + 1) :
         /\ log' = log \o SubSeq(Frames(ops), 1, k)
         /\ strays' = IF k = 1 /\ Len(ops) > 1 THEN Stray ELSE strays
    /\ acceptable' = {Contents(mem), After(Contents(mem), ops)}
    /\ mem' = <<>> /\ pc' = "down"
    /\ crashes' = crashes + 1
    /\ UNCHANGED <<work, opening>>

\* The append fails: the group is refused, the log keeps what was written.
AppendError(ops) ==
    /\ Submit(ops)
    /\ \E k \in 0..(Len(ops) + 1) :
         /\ log' = log \o SubSeq(Frames(ops), 1, k)
         /\ strays' = IF k > 0 THEN Stray ELSE strays
    /\ UNCHANGED <<mem, work, opening, pc, acceptable, crashes>>

\* apply_op() takes up the next operation of the group.
ApplyOp ==
    /\ pc = "apply" /\ steps = <<>> /\ todo # <<>>
    /\ steps' = Steps(Head(todo))
    /\ todo' = Tail(todo)
    /\ UNCHANGED <<logVars, versionVars, disk, mem, pageLsn, opening, pc, history, counts>>

Duplicate(step) == step.kind = "insert" /\ WithId(mem, step.arg.id) # {}

\* Replay runs into an id that is there already: the open fails.
DuplicateId == pc = "replay" /\ steps # <<>> /\ Duplicate(Head(steps))

RefuseReplay ==
    /\ DuplicateId
    /\ pc' = "refused"
    /\ UNCHANGED <<logVars, versionVars, disk, mem, work, opening, history, counts>>

\* One row change.  A truncation is logged in the page journal and cuts the
\* data file at once.
RowStep ==
    /\ pc \in {"apply", "replay"} /\ steps # <<>> /\ ~ DuplicateId
    /\ LET step == Head(steps)
       IN  /\ mem' = CASE step.kind \in {"insert", "add"} -> InsertRow(mem, step.arg)
                       [] step.kind = "delete" -> DeleteId(mem, step.arg)
                       [] step.kind = "truncate" -> <<>>
           /\ disk' = IF step.kind = "truncate" THEN <<>> ELSE disk
    /\ steps' = Tail(steps)
    /\ UNCHANGED <<logVars, versionVars, pageLsn, todo, opening, pc, history, counts>>

\* A dirty page reaches the data file: eviction, flush, or the drop of the
\* table handle of a sealed service.
FlushPage(p) ==
    /\ pc \in {"apply", "replay", "sealed"}
    /\ Unwritten(p)
    /\ disk' = [PadTo(disk, p) EXCEPT ![p] = mem[p]]
    /\ UNCHANGED <<logVars, versionVars, mem, work, opening, pc, history, counts>>

\* As Applied, but the pages need not be on disk.
AppliedUnflushed == pc \in {"apply", "replay"} /\ todo = <<>> /\ steps = <<>>

\* Every operation ran and flush_op_tables() returned.
Applied == pc \in {"apply", "replay"} /\ todo = <<>> /\ steps = <<>> /\ Flushed

PublishMvcc ==
    /\ Applied
    /\ csn' = pageLsn /\ published' = Contents(mem)
    /\ pc' = "checkpoint"
    /\ UNCHANGED <<logVars, disk, mem, work, opening, history, counts>>

WriteCheckpoint ==
    /\ pc = "checkpoint"
    /\ checkpoint' = pageLsn
    /\ pc' = "truncate"
    /\ UNCHANGED <<log, nextLsn, versionVars, disk, mem, work, opening, history, counts>>

\* The database serves: what it shows now is what later crashes must keep.
Serve(h) ==
    /\ pc' = "ready" /\ opening' = FALSE
    /\ acceptable' = acceptable \cap {Contents(h)}
    /\ strays' = NoStray

TruncateBefore ==
    /\ pc = "truncate"
    /\ log' = RecordsAfter(log, pageLsn)
    /\ Serve(mem)
    /\ UNCHANGED <<nextLsn, checkpoint, versionVars, disk, mem, work, counts>>

\* A write fails after the append: recovery_required stays set.  While the
\* database is being opened the open fails.
IoError ==
    /\ pc \in {"apply", "replay", "checkpoint", "truncate"}
    /\ crashes < MaxCrashes
    /\ pc' = IF opening THEN "down" ELSE "sealed"
    /\ crashes' = crashes + 1
    /\ UNCHANGED <<logVars, versionVars, disk, mem, work, opening, history, submitted>>

\* The process stops; whoever runs the service starts it again (Recover).
Crash ==
    /\ pc \notin {"down", "refused"}
    /\ crashes < MaxCrashes \/ pc = "sealed"
    /\ crashes' = IF pc = "sealed" THEN crashes ELSE crashes + 1
    /\ mem' = <<>> /\ pc' = "down"
    /\ UNCHANGED <<logVars, versionVars, disk, work, opening, history, submitted>>

(***************************************************************************)
(* recover_wal(), called when the database is opened.                      *)
(***************************************************************************)

\* As Ahead, but commits after the checkpoint do not count.
AheadOfCheckpoint == csn > checkpoint

\* The published versions are ahead of every commit the log can show.
Ahead == csn > MaxOf({checkpoint} \cup {log[i].lsn : i \in Commits(log)}, 0)

Reopen ==
    /\ pc = "down"
    /\ mem' = disk /\ nextLsn' = 0
    /\ UNCHANGED <<checkpoint, versionVars, disk, counts>>

RefuseOpen ==
    /\ Reopen /\ Ahead
    /\ pc' = "refused" /\ opening' = TRUE
    /\ UNCHANGED <<log, work, history>>

\* Nothing committed after the checkpoint: the rest of the log is dropped.
Discard ==
    /\ Reopen /\ ~ Ahead
    /\ CommittedOps(RecordsAfter(log, checkpoint)) = <<>>
    /\ log' = RecordsUpTo(log, checkpoint)
    /\ Serve(disk)
    /\ UNCHANGED work

StartReplay ==
    /\ Reopen /\ ~ Ahead
    /\ LET pending == RecordsAfter(log, checkpoint)
           records == CommittedOps(pending)
       IN  /\ records # <<>>
           /\ todo' = [i \in DOMAIN records |-> records[i].op]
           /\ pageLsn' = ReplayLsn(pending)
    /\ steps' = <<>>
    /\ pc' = "replay" /\ opening' = TRUE
    /\ strays' = IF strays = "logged" THEN "redone" ELSE strays
    /\ UNCHANGED <<log, acceptable>>

\* As OpAlreadyApplied, but one row of a batch stands for all of them.
OneRowApplied(op) ==
    CASE op.kind = "insert" -> \E i \in DOMAIN op.rows : Contents(mem)[op.rows[i]] > 0
      [] op.kind = "delete" -> \A i \in DOMAIN op.ids : WithId(mem, op.ids[i]) = {}
      [] op.kind = "replace" -> FALSE

\* op_already_applied(), as replay_op() uses it: a replacement always runs.
OpAlreadyApplied(op) ==
    CASE op.kind = "insert" -> \A i \in DOMAIN op.rows : Contents(mem)[op.rows[i]] > 0
      [] op.kind = "delete" -> \A i \in DOMAIN op.ids : WithId(mem, op.ids[i]) = {}
      [] op.kind = "replace" -> FALSE

\* replay_op(), once the previous operation's table is flushed.
ReplayOp ==
    /\ pc = "replay" /\ steps = <<>> /\ todo # <<>> /\ Flushed
    /\ steps' = IF OpAlreadyApplied(Head(todo)) THEN <<>> ELSE Steps(Head(todo))
    /\ todo' = Tail(todo)
    /\ UNCHANGED <<logVars, versionVars, disk, mem, pageLsn, opening, pc, history, counts>>

(***************************************************************************)

Init ==
    /\ log = <<>> /\ nextLsn = 0 /\ checkpoint = 0
    /\ disk = InitPages /\ mem = disk
    /\ csn = 0 /\ published = Contents(disk)
    /\ pageLsn = 0 /\ todo = <<>> /\ steps = <<>>
    /\ opening = FALSE /\ pc = "ready"
    /\ acceptable = {Contents(disk)} /\ strays = "none"
    /\ submitted = 0 /\ crashes = 0

\* Nothing left to do within the bounds, or the database does not open.
Done ==
    /\ (pc = "ready" /\ submitted = MaxGroups) \/ pc = "refused"
    /\ UNCHANGED vars

Next ==
    \/ \E ops \in Groups : AppendGroup(ops) \/ AppendCrash(ops) \/ AppendError(ops)
    \/ ApplyOp \/ RowStep \/ RefuseReplay
    \/ \E p \in DOMAIN mem : FlushPage(p)
    \/ PublishMvcc \/ WriteCheckpoint \/ TruncateBefore
    \/ IoError \/ Crash
    \/ RefuseOpen \/ Discard \/ StartReplay \/ ReplayOp
    \/ Done

Spec == Init /\ [][Next]_vars

(***************************************************************************)
(* Properties.                                                             *)
(***************************************************************************)

\* Types; an operation is only under way while a group is applied or replayed.
TypeOK ==
    /\ \A i \in DOMAIN log : log[i].lsn \in Nat \ {0} /\ "kind" \in DOMAIN log[i].op
    /\ nextLsn \in Nat /\ checkpoint \in Nat /\ csn \in Nat /\ pageLsn \in Nat
    /\ published \in [Rows -> Nat] /\ acceptable \subseteq [Rows -> Nat]
    /\ strays \in {"none", "logged", "redone"}
    /\ \A h \in {disk, mem} : \A p \in DOMAIN h : h[p] \in Seq(Rows) /\ Len(h[p]) <= RowsPerPage
    /\ opening \in BOOLEAN
    /\ pc \in {"ready", "apply", "checkpoint", "truncate", "sealed",
               "down", "replay", "refused"}
    /\ pc = "ready" => todo = <<>> /\ steps = <<>> /\ ~ opening

\* A database that serves shows every committed group as a whole, in order, and
\* nothing of a group that was refused or whose commit was lost in a crash:
\* group_via_wal() and recover_wal() together are atomic and durable.  The claim
\* ends with a recovery that redoes frames of a failed append or a lone first
\* frame: it takes them for committed (NeverHalf).  A failed append that leaves its
\* frames behind a serving database is still in the claim.
Atomic == pc = "ready" /\ strays # "redone" => Contents(mem) \in acceptable /\ IdsUnique(mem)

\* The same claim without the exception, as committed_ops() makes it: what stands
\* behind the last mark is not to be replayed, so a group whose append the machine
\* cut is there as a whole or not at all.
NeverHalf == pc = "ready" => Contents(mem) \in acceptable

\* When the database serves, log, checkpoint, pages and versions tell the same
\* story: the newest version is the checkpoint's and shows what the heap holds, on
\* disk too, and but for frames of failed appends nothing is left to redo.
InStep ==
    pc = "ready" =>
        /\ strays = "none" => RecordsAfter(log, checkpoint) = <<>>
        /\ csn = checkpoint
        /\ published = Contents(mem)
        /\ Flushed

\* recover_wal() gives up on a database that crashes left behind in two cases
\* only: on a row of a batch insert that had reached the data file while its
\* batch had not, and on a lone record (a write whose mark was lost) that an
\* earlier recovery published without reaching its checkpoint.  Not claimed once a
\* recovery redid frames of a failed append, as for Atomic.
RefusedOnlyInPart ==
    pc = "refused" /\ strays # "redone" =>
        LET pending == RecordsAfter(log, checkpoint)
            Batch(op) == op.kind = "insert" /\ Len(op.rows) > 1
        IN  \/ \E i \in DOMAIN pending :
                 Batch(pending[i].op) /\ steps # <<>> /\ Head(steps).arg \in ToSet(pending[i].op.rows)
            \/ Len(pending) = 1 /\ Commits(pending) = {} /\ csn = pending[1].lsn

\* Sequence numbers never turn back, across crashes and truncated logs: a new
\* frame is above every published version, and versions and checkpoint grow.
LsnNeverBack ==
    [][/\ csn' >= csn /\ checkpoint' >= checkpoint
       /\ Len(log') > Len(log) => \A i \in (Len(log) + 1)..Len(log') : log'[i].lsn > csn]_vars
=============================================================================
