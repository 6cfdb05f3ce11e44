-------------------------------- MODULE Mvcc --------------------------------
(***************************************************************************)
(* Snapshot transactions of one database: chusql-core/storage/src/mvcc.rs  *)
(* driven by the request handlers of runtime.rs and by the commit path of  *)
(* chusql-server's Session.hs.                                             *)
(*                                                                         *)
(* Atomicity.  Every Mvcc method runs under the state mutex, so one call   *)
(* is one action, except where the code lets the mutex go: a lock request  *)
(* sleeping on the condition variable, the abort that follows a            *)
(* serialization failure of a lock request (a second lock acquisition),    *)
(* and the commit handler, which validates, publishes and finishes in      *)
(* three calls while it holds the database gate.  Lock requests and        *)
(* rollbacks do not take the gate and interleave with all of these.        *)
(*                                                                         *)
(* The CSN is the commit LSN; only its order matters, so it grows by one   *)
(* per published group, up to MaxCsn.                                      *)
(***************************************************************************)
EXTENDS MvccVersions

CONSTANTS
    Tx,             \* transaction tokens; a token is used for one transaction
    Tables,         \* object ids
    ValUnique,      \* is the value column declared unique?
    InitRows,       \* [Tables -> rows present at start]
    Plans,          \* operation sequences a session may stage
    ReadSets,       \* read dependencies a lock request may carry
    DirectOps,      \* operations written outside transactions
    DdlTables,      \* tables that may be dropped or altered
    MaxCsn          \* bound on published groups

\* A row; an operation of a plan or of a direct write.
Rows == [id : Nat, val : Nat]
Operations == [kind : {"upsert", "delete", "replace"}, table : Tables,
               rows : Seq(Rows), ids : SUBSET Nat]

ASSUME TxAssumption == "none" \notin Tx
ASSUME TablesAssumption == Tables \subseteq Nat /\ IsFiniteSet(Tables)
ASSUME RowsAssumption ==
    /\ InitRows \in [Tables -> Seq(Rows)]
    /\ Plans \subseteq Seq(Operations) /\ DirectOps \subseteq Operations
ASSUME ValUniqueAssumption == ValUnique \in BOOLEAN
ASSUME MaxCsnAssumption == MaxCsn \in Nat

VARIABLES
    durable,     \* published versions: [csn, next_row, tables]
    schemas,     \* the catalog: table -> schema version, Absent if not there
    heap,        \* the rows of every table, in scan order
    txs,         \* the transaction map
    req,         \* the lock request a session has in flight
    committer,   \* holder of the session layer's commit mutex, its preview token
    gate,        \* stage of the commit request that holds the database gate
    recovery,    \* recovery_required
    view         \* the rows each transaction saw at its begin

vars == <<durable, schemas, heap, txs, req, committer, gate, recovery, view>>

NoCommitter == [tx |-> "none", token |-> 0]
Absent == 0
NoRows == [tb \in Tables |-> << >>]
NoTx == [status |-> "none", snapshot |-> 0, schemas |-> [tb \in Tables |-> Absent],
         serializable |-> FALSE, reads |-> {}, held |-> {}, waiting |-> {},
         plan |-> << >>]
Ended == [NoTx EXCEPT !.status = "ended"]
IdleReq == [pc |-> "idle", ops |-> << >>, wanted |-> {}, notified |-> FALSE]
OpenGate == [stage |-> "free", ops |-> << >>]

Catalog(s) == {tb \in Tables : s[tb] # Absent}
Known(t) == txs[t].status \in {"active", "aborted"}
GateFree == gate.stage = "free"
Committing(t) == committer.tx = t

(***************************************************************************)
(* Lock keys: <<1, table, 0, 0>> is Key::Table, <<2, table, 0, row>> is    *)
(* Key::Row, <<3, table, 1, id>> and <<3, table, 2, val>> are Key::Unique  *)
(* on the two columns.  Table keys are only ever requested shared and all  *)
(* others exclusive, so the mode is a function of the key.                 *)
(***************************************************************************)
TableKey(tb) == <<1, tb, 0, 0>>
RowKey(tb, r) == <<2, tb, 0, r>>
UniqueKeys(tb, row) ==
    (IF row.id = NoId THEN {} ELSE {<<3, tb, 1, row.id>>})
    \cup (IF ValUnique THEN {<<3, tb, 2, row.val>>} ELSE {})
LockKeys == {1, 2, 3} \X Tables \X {0, 1, 2} \X Nat

Exclusive(k) == k[1] # 1

\* The derived Ord of Key: the order in which one request takes its locks.
KeyLess(a, b) ==
    \E i \in 1 .. 4 : a[i] < b[i] /\ \A j \in 1 .. i - 1 : a[j] = b[j]

(***************************************************************************)
(* validate()                                                              *)
(***************************************************************************)

SchemaStale(t, tb) ==
    \/ tb \notin DOMAIN durable.tables
    \/ ~ durable.tables[tb].live
    \/ durable.tables[tb].version # txs[t].schemas[tb]

\* Mutant: row versions are not compared.
RowStaleIfGone(t, tb, r) == r \notin DOMAIN durable.tables[tb].rows

\* The value_begin of the row at the snapshot and of its latest open version
\* differ, where a missing version differs from every present one.
RowStale(t, tb, r) ==
    LET rows == durable.tables[tb].rows IN
    \/ r \notin DOMAIN rows
    \/ LET seen   == {i \in DOMAIN rows[r] : SeenAt(rows[r][i], txs[t].snapshot)}
           latest == rows[r][Len(rows[r])]
           before == VersionAt(rows[r], txs[t].snapshot)
       IN  \/ (seen = {}) # (latest.end # OpenEnd)
           \/ /\ seen # {}
              /\ before.value_begin # latest.value_begin

Stale(t, k) ==
    /\ Exclusive(k)
    /\ SchemaStale(t, k[2]) \/ (k[1] = 2 /\ RowStale(t, k[2], k[4]))

\* Mutant: the serializable reads are not looked at.
ValidWritesOnly(t, writes) ==
    txs[t].status = "active" /\ \A k \in txs[t].held : ~ Stale(t, k)

\* validate(token, writes) succeeds on a transaction that is not aborted.
Valid(t, writes) ==
    /\ txs[t].status = "active"
    /\ \A k \in txs[t].held : ~ Stale(t, k)
    /\ writes /\ txs[t].serializable =>
          \A tb \in txs[t].reads :
              /\ tb \in DOMAIN durable.tables
              /\ durable.tables[tb].live
              /\ durable.tables[tb].changed <= txs[t].snapshot

(***************************************************************************)
(* Lock requests.                                                          *)
(***************************************************************************)

\* The keys lock_inner collects: the table, the rows the plan removes or
\* alters, and the unique values of those rows before and after.
Wanted(t, ops) ==
    UNION {LET h       == durable.tables[tb]
               plan    == PlanTable(h, txs[t].snapshot, OpsOn(ops, tb))
               altered == Altered(h, txs[t].snapshot, plan)
               touched == (plan.removed \cup {plan.wanted[i].id : i \in altered}) \ {0}
               rows    == {RowOf(h, txs[t].snapshot, r) : r \in touched}
                          \cup {plan.wanted[i].row : i \in altered}
           IN  {TableKey(tb)} \cup {RowKey(tb, r) : r \in touched}
               \cup UNION {UniqueKeys(tb, row) : row \in rows}
           : tb \in TablesOf(ops)}

Blockers(t, k) ==
    {o \in Tx \ {t} : txs[o].status = "active" /\ k \in txs[o].held /\ Exclusive(k)}

\* cycle(): t is reachable from t along waiting edges of the map T, that is,
\* t is in every set that holds t's owners and is closed under waiting.
OnCycle(T, t) ==
    \A S \in SUBSET Tx :
        /\ T[t].waiting \subseteq S
        /\ \A o \in S : T[o].waiting \subseteq S
        => t \in S

\* abort(): release everything and drop the edges to the transaction.
Abort(T, t) ==
    [o \in Tx |-> IF o = t /\ T[o].status \in {"active", "aborted"}
                  THEN [T[o] EXCEPT !.status = "aborted", !.held = {}, !.waiting = {}]
                  ELSE [T[o] EXCEPT !.waiting = @ \ {t}]]

\* Condvar::notify_all.
Notify(R) == [o \in Tx |-> [R[o] EXCEPT !.notified = (R[o].pc = "asleep")]]

\* The keys that stop the request: held by another, or stale once taken.
Obstacles(t, wanted) == {k \in wanted : Blockers(t, k) # {} \/ Stale(t, k)}
Before(wanted, S) == {k \in wanted : \A s \in S : KeyLess(k, s)}
First(S) == CHOOSE k \in S : \A s \in S \ {k} : KeyLess(k, s)

\* Every key taken clears the waiting set.
Take(T, t, got) == [T EXCEPT ![t].held = @ \cup got, ![t].waiting = {}]

\* The acquisition loop of lock_inner over the transaction map T, from its
\* current key to its end, its next sleep or its error.  Keys it already
\* holds are no obstacle; validate() runs before every key and at the end.
LockLoop(T, t, ops, wanted, expired) ==
    LET stops   == Obstacles(t, wanted)
        stop    == First(stops)
        owners  == IF stops = {} THEN {} ELSE Blockers(t, stop)
        blocked == [Take(T, t, Before(wanted, stops)) EXCEPT ![t].waiting = owners]
        give_up == OnCycle(blocked, t) \/ expired
        Return(M, pc) == /\ txs' = M
                         /\ req' = [req EXCEPT ![t] = [IdleReq EXCEPT !.pc = pc]]
    IN  \/ /\ \E k \in txs[t].held : Stale(t, k)
           /\ Return(T, "failed")
        \/ /\ \A k \in txs[t].held : ~ Stale(t, k)
           /\ \/ /\ stops = {}
                 /\ Return([Take(T, t, wanted) EXCEPT ![t].plan = ops], "idle")
              \/ /\ stops # {} /\ owners = {}
                 /\ Return(Take(T, t, Before(wanted, stops) \cup {stop}), "failed")
              \/ /\ owners # {} /\ give_up
                 /\ txs' = Abort(blocked, t)
                 /\ req' = Notify([req EXCEPT ![t] = IdleReq])
              \/ /\ owners # {} /\ ~ give_up
                 /\ txs' = blocked
                 /\ req' = [req EXCEPT ![t] = [pc |-> "asleep", ops |-> ops,
                                               wanted |-> wanted, notified |-> FALSE]]

\* MvccLock: a request up to its first sleep.  It does not take the gate.
\* validate() fails on a stale held key, plans() on a table that is gone.
Lock(t, ops, reads) ==
    /\ ~ recovery
    /\ req[t].pc = "idle" /\ txs[t].status = "active" /\ ~ Committing(t)
    /\ TablesOf(ops) \cup reads \subseteq Catalog(txs[t].schemas)
    /\ IF \/ \E k \in txs[t].held : Stale(t, k)
          \/ ~ TablesOf(ops) \subseteq DOMAIN durable.tables
       THEN /\ req' = [req EXCEPT ![t].pc = "failed"]
            /\ UNCHANGED txs
       ELSE LockLoop([txs EXCEPT ![t].reads = reads], t, ops, Wanted(t, ops), FALSE)
    /\ UNCHANGED <<durable, schemas, heap, committer, gate, recovery, view>>

\* The condition variable was notified.  A transaction that meanwhile ended or
\* was aborted makes the request return its error.
Wake(t) ==
    /\ req[t].pc = "asleep" /\ req[t].notified
    /\ IF txs[t].status = "active"
       THEN LockLoop(txs, t, req[t].ops, req[t].wanted, FALSE)
       ELSE /\ req' = [req EXCEPT ![t] = IdleReq]
            /\ UNCHANGED txs
    /\ UNCHANGED <<durable, schemas, heap, committer, gate, recovery, view>>

\* Mutant: the deadline is measured afresh on every turn of the loop.
TimeoutRestarts(t) ==
    /\ req[t].pc = "asleep" /\ txs[t].status = "active"
    /\ LockLoop(txs, t, req[t].ops, req[t].wanted, FALSE)
    /\ UNCHANGED <<durable, schemas, heap, committer, gate, recovery, view>>

\* LOCK_TIMEOUT ran out: the loop runs once more and gives up if still blocked.
Timeout(t) ==
    /\ req[t].pc = "asleep" /\ txs[t].status = "active"
    /\ LockLoop(txs, t, req[t].ops, req[t].wanted, TRUE)
    /\ UNCHANGED <<durable, schemas, heap, committer, gate, recovery, view>>

\* lock() after a serialization failure: abort under a second acquisition of
\* the state mutex.
FailLock(t) ==
    /\ req[t].pc = "failed"
    /\ txs' = Abort(txs, t)
    /\ req' = Notify([req EXCEPT ![t] = IdleReq])
    /\ UNCHANGED <<durable, schemas, heap, committer, gate, recovery, view>>

(***************************************************************************)
(* Begin, rollback.                                                        *)
(***************************************************************************)

\* Mutant: running snapshots do not hold versions back.
OldestIgnoresReaders(T, other) == other

\* The oldest snapshot of a transaction in T that is not aborted, else `other`.
Oldest(T, other) ==
    LET live == {T[t].snapshot : t \in {u \in Tx : T[u].status = "active"}}
    IN  IF live = {} THEN other ELSE Min(live)

\* MvccBegin, a write request under the gate.
Begin(t, serializable) ==
    /\ txs[t].status = "none" /\ GateFree /\ ~ recovery
    /\ txs' = [txs EXCEPT ![t] = [NoTx EXCEPT !.status = "active",
                                     !.snapshot = durable.csn, !.schemas = schemas,
                                     !.serializable = serializable]]
    /\ view' = [view EXCEPT ![t] = heap]
    /\ UNCHANGED <<durable, schemas, heap, req, committer, gate, recovery>>

\* Mutant: nobody is woken.
FinishSilently(t) ==
    LET left == [o \in Tx |-> IF o = t THEN Ended
                              ELSE [txs[o] EXCEPT !.waiting = @ \ {t}]]
    IN  /\ txs' = left
        /\ durable' = [durable EXCEPT !.tables =
                          PruneTables(@, Oldest(left, durable.csn))]
        /\ view' = [view EXCEPT ![t] = NoRows]
        /\ UNCHANGED req

\* finish(): forget the transaction, prune with the snapshots left, drop the
\* edges to it and wake every sleeper.
Finish(t) ==
    LET left == [o \in Tx |-> IF o = t THEN Ended
                              ELSE [txs[o] EXCEPT !.waiting = @ \ {t}]]
    IN  /\ txs' = left
        /\ durable' = [durable EXCEPT !.tables =
                          PruneTables(@, Oldest(left, durable.csn))]
        /\ req' = Notify(req)
        /\ view' = [view EXCEPT ![t] = NoRows]

\* MvccRollback, outside the gate; a closing connection also sends it while a
\* lock request of the transaction is still asleep.
Rollback(t) ==
    /\ Known(t) /\ ~ Committing(t)
    /\ Finish(t)
    /\ UNCHANGED <<schemas, heap, committer, gate, recovery>>

(***************************************************************************)
(* Commit: Session.commitMvcc asks for a preview, checks the final rows,   *)
(* and commits with the preview's checkpoint as a token.                   *)
(***************************************************************************)

\* merged_ops(): tables in object id order.
MergedOps(t) ==
    LET plan == txs[t].plan
        tables == Ascending(TablesOf(plan))
        merged(tb) == MergeTable(durable.tables[tb], tb, txs[t].snapshot,
                                 durable.csn, OpsOn(plan, tb))
    IN  FlattenSeq([i \in DOMAIN tables |-> merged(tables[i])])

HeapAfter(h, op) == [h EXCEPT ![op.table] = EditRows(@, op)]
HeapAfterAll(h, ops) ==
    LET applied[n \in 0 .. Len(ops)] ==
            IF n = 0 THEN h ELSE HeapAfter(applied[n - 1], ops[n])
    IN  applied[Len(ops)]

\* Engine.validateTableRows on the candidate rows: `id` is the primary key.
RowsUnique(rows) ==
    \A i, j \in DOMAIN rows : i # j =>
        /\ rows[i].id = NoId \/ rows[i].id # rows[j].id
        /\ ValUnique => rows[i].val # rows[j].val

\* commitMvcc up to the commit request, under commitSecurity: the preview and
\* the session's checks (validateDependencies, validateFinal) on its rows.
Preview(t) ==
    /\ committer = NoCommitter /\ durable.csn < MaxCsn
    /\ GateFree /\ ~ recovery /\ req[t].pc = "idle"
    /\ Valid(t, txs[t].plan # << >>)
    /\ \A tb \in TablesOf(txs[t].plan) :
          /\ tb \in Catalog(schemas) /\ schemas[tb] = txs[t].schemas[tb]
          /\ tb \in DOMAIN durable.tables
    /\ LET candidate == HeapAfterAll(heap, MergedOps(t))
       IN  \A tb \in TablesOf(txs[t].plan) : RowsUnique(candidate[tb])
    /\ committer' = [tx |-> t, token |-> durable.csn]
    /\ UNCHANGED <<durable, schemas, heap, txs, req, gate, recovery, view>>

\* Mutant: the checkpoint token is not compared.
CommitReadyAnyToken(t) ==
    /\ ~ recovery
    /\ TablesOf(txs[t].plan) \subseteq DOMAIN durable.tables
    /\ Valid(t, txs[t].plan # << >>)

\* The checks of MvccCommit: the checkpoint token, commit_ops, validate_commit.
CommitReady(t) ==
    /\ ~ recovery
    /\ committer.token = durable.csn
    /\ TablesOf(txs[t].plan) \subseteq DOMAIN durable.tables
    /\ Valid(t, txs[t].plan # << >>)
    /\ LET ops == MergedOps(t)
       IN  \A i \in DOMAIN ops : TableKey(ops[i].table) \in txs[t].held

\* MvccCommit up to validate_commit.  Without operations nothing is written.
CommitStart(t) ==
    /\ GateFree /\ Committing(t) /\ CommitReady(t)
    /\ LET ops == MergedOps(t)
       IN  gate' = [stage |-> IF ops = << >> THEN "finish" ELSE "apply", ops |-> ops]
    /\ UNCHANGED <<durable, schemas, heap, txs, req, committer, recovery, view>>

\* The commit request returns an error; the transaction stays as it was.
CommitRefused(t) ==
    /\ GateFree /\ Committing(t) /\ ~ CommitReady(t)
    /\ committer' = NoCommitter
    /\ UNCHANGED <<durable, schemas, heap, txs, req, gate, recovery, view>>

\* Mutant: only the incoming rows are compared with each other.
DuplicateIncoming(ops) ==
    \E i \in DOMAIN ops :
        /\ ops[i].kind = "upsert"
        /\ \E p, q \in DOMAIN ops[i].rows :
              p < q /\ ops[i].rows[p].id = ops[i].rows[q].id /\ ops[i].rows[p].id # NoId

\* validate_insert_ids: an upsert of a key some row has at its turn is refused.
DuplicateId(ops) ==
    \E i \in DOMAIN ops :
        LET rows == HeapAfterAll(heap, SubSeq(ops, 1, i - 1))[ops[i].table]
            all  == rows \o ops[i].rows
        IN  /\ ops[i].kind = "upsert"
            /\ \E p, q \in DOMAIN all : /\ p < q /\ q > Len(rows)
                                        /\ all[p].id = all[q].id
                                        /\ all[p].id # NoId

\* group_via_wal from the append to the checkpoint: the heap is changed and the
\* touched tables of the catalog are published under the next CSN.
Publish(newHeap, newSchemas, touched) ==
    LET csn  == durable.csn + 1
        live == Catalog(newSchemas)
        done == PublishState(durable, csn, [tb \in live |-> newSchemas[tb]],
                             [tb \in touched \cap live |-> newHeap[tb]],
                             Oldest(txs, csn))
    IN  /\ done.ok
        /\ durable' = done.durable
        /\ heap' = newHeap
        /\ schemas' = newSchemas
        /\ req' = Notify(req)

CommitApply(t) ==
    /\ gate.stage = "apply" /\ Committing(t)
    /\ ~ DuplicateId(gate.ops)
    /\ Publish(HeapAfterAll(heap, gate.ops), schemas, TablesOf(gate.ops))
    /\ gate' = [gate EXCEPT !.stage = "finish"]
    /\ UNCHANGED <<txs, committer, recovery, view>>

\* An I/O error after the append, before the versions are published, with some of
\* the operations applied, or behind it, when the checkpoint is written or the log
\* cut: recovery_required stays set, fail_all() aborts every transaction.
CommitFail(t) ==
    /\ gate.stage = "apply" /\ Committing(t)
    /\ ~ DuplicateId(gate.ops)
    /\ \/ /\ \E n \in 0 .. Len(gate.ops) :
                heap' = HeapAfterAll(heap, SubSeq(gate.ops, 1, n))
          /\ req' = Notify(req)
          /\ UNCHANGED <<durable, schemas>>
       \/ Publish(HeapAfterAll(heap, gate.ops), schemas, TablesOf(gate.ops))
    /\ recovery' = TRUE
    /\ gate' = OpenGate
    /\ committer' = NoCommitter
    /\ txs' = [o \in Tx |-> IF Known(o)
                            THEN [txs[o] EXCEPT !.status = "aborted", !.held = {},
                                                !.waiting = {}]
                            ELSE txs[o]]
    /\ UNCHANGED view

CommitFinish(t) ==
    /\ gate.stage = "finish" /\ Committing(t)
    /\ gate' = OpenGate
    /\ committer' = NoCommitter
    /\ Finish(t)
    /\ UNCHANGED <<schemas, heap, recovery>>

(***************************************************************************)
(* Writes outside transactions: single-operation requests under the gate.  *)
(***************************************************************************)

DirectReady == GateFree /\ ~ recovery /\ durable.csn < MaxCsn

\* write_via_wal of a row operation.
DirectWrite(op) ==
    /\ DirectReady
    /\ op.table \in Catalog(schemas)
    /\ ~ DuplicateId(<<op>>)
    /\ Publish(HeapAfter(heap, op), schemas, {op.table})
    /\ UNCHANGED <<txs, committer, gate, recovery, view>>

\* The same request failing after its append, before or behind the publication:
\* only the commit handler calls fail_all, so transactions stay as they are.
DirectFail(op) ==
    /\ DirectReady
    /\ op.table \in Catalog(schemas)
    /\ ~ DuplicateId(<<op>>)
    /\ \/ heap' \in {heap, HeapAfter(heap, op)} /\ UNCHANGED <<durable, schemas, req>>
       \/ Publish(HeapAfter(heap, op), schemas, {op.table})
    /\ recovery' = TRUE
    /\ UNCHANGED <<txs, committer, gate, view>>

\* WalOp::DropTable: the table leaves the catalog; publication retires it.
DropTable(tb) ==
    /\ DirectReady
    /\ tb \in Catalog(schemas)
    /\ Publish([heap EXCEPT ![tb] = << >>], [schemas EXCEPT ![tb] = Absent], {tb})
    /\ UNCHANGED <<txs, committer, gate, recovery, view>>

\* WalOp::ReplaceSchema: a new schema version over the same rows.
ReplaceSchema(tb) ==
    /\ DirectReady
    /\ tb \in Catalog(schemas)
    /\ Publish(heap, [schemas EXCEPT ![tb] = @ + 1], {tb})
    /\ UNCHANGED <<txs, committer, gate, recovery, view>>

(***************************************************************************)
(* The specification.                                                      *)
(***************************************************************************)

\* An imported database: ensure_mvcc published the heap at CSN 0.
Init ==
    /\ schemas = [tb \in Tables |-> 1]
    /\ heap = InitRows
    /\ durable = PublishState([csn |-> 0, next_row |-> 0, tables |-> EmptyFn], 0,
                              schemas, heap, 0).durable
    /\ txs = [t \in Tx |-> NoTx]
    /\ req = [t \in Tx |-> IdleReq]
    /\ committer = NoCommitter
    /\ gate = OpenGate
    /\ recovery = FALSE
    /\ view = [t \in Tx |-> NoRows]

\* All tokens are used up, or the sealed database has no transaction left.
Done ==
    /\ \A t \in Tx : /\ req[t].pc = "idle"
                     /\ \/ txs[t].status = "ended"
                        \/ txs[t].status = "none" /\ recovery
    /\ UNCHANGED vars

Next ==
    \/ \E t \in Tx :
          \/ \E s \in BOOLEAN : Begin(t, s)
          \/ \E ops \in Plans, reads \in ReadSets : Lock(t, ops, reads)
          \/ Wake(t) \/ Timeout(t) \/ FailLock(t)
          \/ Rollback(t)
          \/ Preview(t) \/ CommitStart(t) \/ CommitRefused(t)
          \/ CommitApply(t) \/ CommitFail(t) \/ CommitFinish(t)
    \/ \E op \in DirectOps : DirectWrite(op) \/ DirectFail(op)
    \/ \E tb \in DdlTables : DropTable(tb) \/ ReplaceSchema(tb)
    \/ Done

Spec == Init /\ [][Next]_vars

\* The thread of a request runs on: wait_timeout() returns, notified or after
\* LOCK_TIMEOUT, and the lock wrapper goes to its end.
Fairness == \A t \in Tx : WF_vars(Wake(t) \/ Timeout(t) \/ FailLock(t))
FairSpec == Spec /\ Fairness

(***************************************************************************)
(* Properties.                                                             *)
(***************************************************************************)

Statuses == {"none", "active", "aborted", "ended"}
Transactions ==
    [status : Statuses, snapshot : Nat, schemas : [Tables -> Nat],
     serializable : BOOLEAN, reads : SUBSET Tables, held : SUBSET LockKeys,
     waiting : SUBSET Tx, plan : Plans \cup {<< >>}]
Requests == [pc : {"idle", "asleep", "failed"}, ops : Plans \cup {<< >>},
             wanted : SUBSET LockKeys, notified : BOOLEAN]

\* Every variable has its type, and the lock state its shape: only an active
\* transaction holds locks, only a sleeping one waits, no snapshot is ahead of
\* the published CSN, the gate is held only for an active transaction that has
\* no lock request in flight.
TypeOK ==
    /\ txs \in [Tx -> Transactions]
    /\ req \in [Tx -> Requests]
    /\ committer \in [tx : Tx \cup {"none"}, token : Nat]
    /\ recovery \in BOOLEAN
    /\ schemas \in [Tables -> Nat]
    /\ heap \in [Tables -> Seq(Rows)] /\ view \in [Tx -> [Tables -> Seq(Rows)]]
    /\ gate.stage \in {"free", "apply", "finish"} /\ (~ GateFree => committer.tx \in Tx)
    /\ durable.csn \in 0 .. MaxCsn
    /\ \A t \in Tx :
          /\ txs[t].held # {} => txs[t].status = "active"
          /\ txs[t].waiting # {} => req[t].pc \in {"asleep", "failed"}
          /\ txs[t].snapshot <= durable.csn
          /\ Committing(t) => txs[t].status = "active" /\ req[t].pc = "idle"

\* A transaction reads the same rows from begin to end: whatever is published
\* or pruned meanwhile, the versions visible at its snapshot are the rows it
\* saw when it began (visible() against prune() and publish_changed()).
SnapshotStable ==
    \A t \in Tx : txs[t].status = "active" =>
        \A tb \in Tables :
            view[t][tb] = IF tb \in DOMAIN durable.tables
                          THEN VisibleRows(durable.tables[tb], txs[t].snapshot)
                          ELSE << >>

\* Outside recovery the newest published versions of every catalog table are
\* exactly the rows of its heap, in scan order.
HeapPublished ==
    ~ recovery => \A tb \in Catalog(schemas) :
        /\ tb \in DOMAIN durable.tables
        /\ durable.tables[tb].live /\ durable.tables[tb].version = schemas[tb]
        /\ VisibleRows(durable.tables[tb], durable.csn) = heap[tb]

Count(s, r) == Cardinality({i \in DOMAIN s : s[i] = r})
SameRows(a, b) ==
    \A r \in Range(a) \cup Range(b) : Count(a, r) = Count(b, r)

\* The rows the transaction meant table tb to have.
Intended(t, tb) == EditAll(view[t][tb], OpsOn(txs[t].plan, tb))

CommitStep == gate.stage = "apply" /\ gate'.stage = "finish"

\* A commit changes each table by exactly the transaction's own edit: every
\* row occurs as often as before, plus its occurrences in the rows the
\* transaction wanted, minus its occurrences in the rows the transaction saw.
\* Updates committed since the snapshot are neither lost nor repeated
\* (plans(), merged_ops(), validate(), apply_op).
MergeExact ==
    [][CommitStep => \A tb \in Tables :
          LET mine == Intended(committer.tx, tb)
              seen == view[committer.tx][tb]
          IN  \A r \in Range(heap[tb]) \cup Range(heap'[tb]) \cup Range(mine) \cup Range(seen) :
                 Count(heap'[tb], r) =
                     Count(heap[tb], r) + Count(mine, r) - Count(seen, r)]_vars

\* When a serializable transaction writes, every table it declared to have read
\* still has the rows of its snapshot, so it could have run at that moment.
SerializableReads ==
    [][CommitStep /\ txs[committer.tx].serializable =>
          \A tb \in txs[committer.tx].reads :
              SameRows(heap[tb], view[committer.tx][tb])]_vars

\* Committed rows never break a primary key or a unique column, although each
\* transaction was checked against rows other sessions go on changing.
UniqueRows == \A tb \in Tables : RowsUnique(heap[tb])

\* A commit that its session found valid passes the storage layer's own key
\* check: the checkpoint token lets no write slip in between.
CommitAccepted == gate.stage = "apply" => ~ DuplicateId(gate.ops)

\* Every lock request returns: it is granted, refused, or given up after
\* LOCK_TIMEOUT, even when the lock it waits for is never released.
LockRequestsReturn == \A t \in Tx : req[t].pc # "idle" ~> req[t].pc = "idle"
=============================================================================
