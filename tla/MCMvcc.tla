------------------------------- MODULE MCMvcc -------------------------------
(***************************************************************************)
(* Small instances of Mvcc.  Table 1 has two keyed rows; the sets of plans *)
(* and direct writes below decide what the transactions contend for.       *)
(***************************************************************************)
EXTENDS Mvcc

CONSTANTS t1, t2
TwoTx == {t1, t2}
TxSymmetry == Permutations(Tx)

Row(id, val) == [id |-> id, val |-> val]
Upsert(tb, rows) == [kind |-> "upsert", table |-> tb, rows |-> rows, ids |-> {}]
Delete(tb, ids) == [kind |-> "delete", table |-> tb, rows |-> << >>, ids |-> ids]
Replace(tb, rows) == [kind |-> "replace", table |-> tb, rows |-> rows, ids |-> {}]

\* One table with two keyed rows.
OneTable == {1}
Keyed == (1 :> <<Row(1, 1), Row(2, 2)>>)

\* Update row 1; insert key 3 with the same new value as a whole-table
\* replacement.
Update1 == <<Delete(1, {1}), Upsert(1, <<Row(1, 3)>>)>>
Insert3 == <<Replace(1, <<Row(1, 1), Row(2, 2), Row(3, 3)>>)>>
KeyedPlans == {Update1, Insert3}
KeyedDirect == {Delete(1, {1}), Upsert(1, <<Row(3, 4)>>)}
ReadOne == {{1}}
NoTables == {}

\* Two tables, the second one without a business key and with two identical
\* rows: one table read and the other written, both written, and a whole-table
\* replacement that removes a copy and changes a row.
TwoTables == {1, 2}
Pair == (1 :> <<Row(1, 1)>>) @@ (2 :> <<Row(NoId, 1), Row(NoId, 1), Row(NoId, 2)>>)
PairPlans == {
    <<Replace(1, <<Row(1, 2)>>)>>,
    <<Replace(2, <<Row(NoId, 1), Row(NoId, 3)>>)>>,
    <<Delete(1, {1}), Upsert(2, <<Row(NoId, 2)>>)>> }
ReadEither == {{1}, {2}}
SecondTable == {2}

NoOps == {}

(***************************************************************************)
(* The lock table of Mvcc implements LockManager.                          *)
(***************************************************************************)
\* The keys that these plans and direct writes come to request.
MCKeys == {TableKey(1)} \cup {RowKey(1, r) : r \in {1, 3}}
          \cup {<<3, 1, 1, id>> : id \in {1, 3}} \cup {<<3, 1, 2, val>> : val \in {1, 3, 4}}
Locks == INSTANCE LockManager WITH
            Keys     <- MCKeys,
            Shared   <- {k \in MCKeys : ~ Exclusive(k)},
            status   <- [t \in Tx |-> txs[t].status],
            held     <- [t \in Tx |-> txs[t].held],
            waiting  <- [t \in Tx |-> txs[t].waiting],
            pc       <- [t \in Tx |-> req[t].pc],
            wanted   <- [t \in Tx |-> req[t].wanted],
            notified <- [t \in Tx |-> req[t].notified]

\* Whatever rows, plans and schemas are behind the keys, every step of the
\* storage layer is a step of the lock table or leaves it alone, so what is
\* proved of LockManager holds of lock(), finish() and fail_all().
ImplementsLocks == Locks!Spec
=============================================================================
