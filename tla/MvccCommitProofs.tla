-------------------------- MODULE MvccCommitProofs --------------------------
(***************************************************************************)
(* Proofs about the commits of Mvcc: what a session checked on the         *)
(* preview still holds when its group is written, and the group is the     *)
(* transaction's own edit.                                                 *)
(*                                                                         *)
(* CommitsAccepted and RowsStayUnique carry the session's check of the     *)
(* candidate rows to the write (MergeUnique, GateUnique): while the token  *)
(* is current nothing is published, and pruning leaves the merged          *)
(* operations of an active transaction alone (MergedKept).  Merged         *)
(* operations are InTurn, only deletes are followed by another operation   *)
(* on their table, so every upsert and every half-applied group leaves     *)
(* rows that the whole group has too, or fewer than before.                *)
(*                                                                         *)
(* MergesAreExact counts rows.  HeldOK: a transaction holds the lock of    *)
(* every row its plan touches, so when validate() finds none of them       *)
(* stale, each is still the row it saw (CurrentRow).  The plan is the      *)
(* session's edit (PlanBalance), the merge applies the plan to the current *)
(* rows (MergeOverCounts) and leaves the others (OthersLeave).  GateExact  *)
(* carries what this gives at the start of the commit (MergedExact) to the *)
(* write.                                                                  *)
(***************************************************************************)
EXTENDS MvccProofs

(***************************************************************************)
(* What pruning leaves of a plan.                                          *)
(***************************************************************************)

\* Readers from `oldest` on see the same versions, not only the same rows.
LEMMA PruneVisible ==
  ASSUME NEW h, NEW at \in Nat, NEW n \in Nat, HistoryOK(h, at, n), Shaped(h),
         NEW oldest \in Nat, NEW g, g = [h EXCEPT !.rows = PruneRows(@, oldest)],
         NEW c \in Nat, oldest <= c
  PROVE  /\ Visible(g, c) = Visible(h, c) /\ VisibleIds(g, c) = VisibleIds(h, c)
         /\ \A r \in VisibleIds(h, c) : RowOf(g, c, r) = RowOf(h, c, r)
<1>1. HistoryOK(g, at, n) /\ LooksLike(g, c, h, c)
  BY PruneHistory
<1>2. /\ DOMAIN g.rows = {q \in DOMAIN h.rows : Keep(h.rows[q], oldest) # << >>}
      /\ \A r \in DOMAIN g.rows : g.rows[r] = Keep(h.rows[r], oldest)
  <2> DEFINE R == PruneRows(h.rows, oldest)
  <2>1. R = [r \in {q \in DOMAIN h.rows : Keep(h.rows[q], oldest) # << >>}
                                     |-> Keep(h.rows[r], oldest)]
    BY DEF PruneRows, Keep
  <2>2. g = [h EXCEPT !.rows = R]
    OBVIOUS
  <2> HIDE DEF R
  <2>3. g.rows = R
    BY <2>2 DEF Shaped
  <2> QED
    BY <2>1, <2>3
<1>3. VisibleInOrder(g, c) = VisibleInOrder(h, c) /\ VisibleIds(g, c) = VisibleIds(h, c)
  <2>1. VisibleIds(g, c) = VisibleIds(h, c)
    BY <1>1 DEF LooksLike
  <2>2. VisibleInOrder(g, c) = VisibleInOrder(h, c)
    <3> HIDE DEF LooksLike
    <3> QED
      BY <1>1, SameOrder
  <2> QED
    BY <2>1, <2>2
<1>4. ASSUME NEW r \in VisibleIds(h, c)
      PROVE  VersionAt(g.rows[r], c) = VersionAt(h.rows[r], c)
  <2> DEFINE chain == h.rows[r]
             K == {i \in DOMAIN chain : chain[i].end = OpenEnd \/ chain[i].end > oldest}
  <2>1. r \in DOMAIN h.rows /\ r \in DOMAIN g.rows
    BY <1>1, <1>3, VisibleIs
  <2>2. ChainOK(chain, at) /\ ChainOK(g.rows[r], at) /\ g.rows[r] = PickAt(chain, K)
    BY <1>1, <1>2, <2>1 DEF HistoryOK, Keep
  <2>3. PICK i \in DOMAIN chain : SeenAt(chain[i], c)
    BY VisibleIs
  <2>4. chain \in Seq(Versions) /\ K \in SUBSET DOMAIN chain
    BY <2>2 DEF ChainOK
  <2>5. i \in K
    <3>1. chain[i].end \in Nat
      <4>1. chain[i] \in Versions
        BY <2>3, <2>4
      <4> QED
        BY <4>1 DEF Versions
    <3> QED
      BY <2>3, <3>1 DEF SeenAt, OpenEnd
  <2> HIDE DEF K, chain
  <2>6. /\ PickAt(chain, K) \in Seq(Versions)
        /\ \A k \in 1 .. Len(PickAt(chain, K)) : PickAt(chain, K)[k] = chain[Ascending(K)[k]]
        /\ \A x \in K : \E k \in 1 .. Len(PickAt(chain, K)) : Ascending(K)[k] = x
    BY <2>4, PickAtIs
  <2>7. PICK k \in 1 .. Len(PickAt(chain, K)) : Ascending(K)[k] = i
    BY <2>5, <2>6
  <2>8. k \in DOMAIN g.rows[r] /\ g.rows[r][k] = chain[i]
    BY <2>2, <2>6, <2>7
  <2>9. VersionAt(g.rows[r], c) = g.rows[r][k]
    BY <2>2, <2>3, <2>8, VersionSeen
  <2>10. VersionAt(chain, c) = chain[i]
    BY <2>2, <2>3, VersionSeen
  <2> QED
    BY <2>8, <2>9, <2>10 DEF chain
<1>5. Visible(g, c) = Visible(h, c)
  <2> DEFINE ids == VisibleInOrder(h, c)
             E(v, p) == [id |-> ids[p], version |-> v]
  <2>1. /\ Visible(h, c) = [p \in DOMAIN ids |-> E(VersionAt(h.rows[ids[p]], c), p)]
        /\ Visible(g, c) = [p \in DOMAIN ids |-> E(VersionAt(g.rows[ids[p]], c), p)]
    BY <1>3 DEF Visible
  <2>2. \A p \in DOMAIN ids : ids[p] \in VisibleIds(h, c)
    <3>1. /\ DOMAIN Visible(h, c) = DOMAIN ids
          /\ \A p \in DOMAIN Visible(h, c) : Visible(h, c)[p].id = ids[p]
                                             /\ Visible(h, c)[p].id \in VisibleIds(h, c)
      <4>1. DOMAIN Visible(h, c) = DOMAIN ids
        BY <2>1
      <4> QED
        BY <4>1, VisibleEntries
    <3> QED
      BY <3>1
  <2> HIDE DEF ids, E
  <2>3. \A p \in DOMAIN ids : VersionAt(g.rows[ids[p]], c) = VersionAt(h.rows[ids[p]], c)
    BY <1>4, <2>2
  <2> QED
    BY <2>1, <2>3
<1> QED
  BY <1>3, <1>4, <1>5 DEF RowOf

LEMMA PruneMerge ==
  ASSUME NEW h, NEW at \in Nat, NEW n \in Nat, HistoryOK(h, at, n), Shaped(h),
         NEW oldest \in Nat, NEW g, g = [h EXCEPT !.rows = PruneRows(@, oldest)],
         NEW snapshot \in Nat, oldest <= snapshot, NEW csn \in Nat, oldest <= csn,
         NEW ops \in Seq(Operations), NEW tb
  PROVE  MergeTable(g, tb, snapshot, csn, ops) = MergeTable(h, tb, snapshot, csn, ops)
<1>1. /\ Visible(g, snapshot) = Visible(h, snapshot) /\ Visible(g, csn) = Visible(h, csn)
      /\ \A r \in VisibleIds(h, snapshot) : RowOf(g, snapshot, r) = RowOf(h, snapshot, r)
  BY PruneVisible
<1> DEFINE plan == PlanTable(h, snapshot, ops)
<1>2. PlanTable(g, snapshot, ops) = plan
  BY <1>1 DEF PlanTable
<1>3. PlanOK(plan, h, snapshot)
  BY PlanTableIs
<1> HIDE DEF plan
<1>4. Altered(g, snapshot, plan) = Altered(h, snapshot, plan)
  <2>1. \A i \in DOMAIN plan.wanted :
           plan.wanted[i].id = 0 \/ RowOf(g, snapshot, plan.wanted[i].id)
                                        = RowOf(h, snapshot, plan.wanted[i].id)
    BY <1>1, <1>3 DEF PlanOK
  <2> QED
    BY <2>1 DEF Altered
<1> QED
  BY <1>1, <1>2, <1>4 DEF MergeTable, plan

\* The operations of a transaction after another one has finished.
LEMMA MergedKept ==
  ASSUME StateInv, NEW t \in Tx, Finish(t), NEW o \in Tx, o # t, txs[o].status = "active",
         ~ recovery, TablesOf(txs[o].plan) \subseteq Catalog(schemas)
  PROVE  MergedOps(o)' = MergedOps(o)
<1> DEFINE old == Oldest(txs', durable.csn)
           snapshot == txs[o].snapshot
           plan == txs[o].plan
           T == TablesOf(plan)
           H == durable.tables
           G == durable'.tables
<1>1. Finished(t) /\ Pruned(t)
  BY FinishIs DEF StateInv
<1>2. /\ txs'[o].status = "active" /\ txs'[o].snapshot = snapshot /\ txs'[o].plan = plan
      /\ durable'.csn = durable.csn /\ durable.csn \in Nat /\ durable.next_row \in Nat
      /\ TablesOK(H, durable.csn, durable.next_row)
      /\ plan \in Seq(Operations) /\ snapshot \in Nat /\ snapshot <= durable.csn
  BY <1>1, MaxCsnAssumption, TxFields
     DEF Finished, Pruned, SameWork, StateInv, DurableOK, SnapshotsOK, LocksOK, TxMaps
<1>3. old \in Nat /\ old <= durable.csn /\ old <= snapshot
  <2>1. txs' \in TxMaps /\ \A u \in Tx : txs'[u].snapshot <= durable.csn
    <3>1. txs' \in TxMaps /\ txs'[t].snapshot = 0
          /\ \A u \in Tx : u # t => txs'[u].snapshot = txs[u].snapshot
      BY <1>1 DEF Finished, SameWork
    <3>2. \A u \in Tx : txs[u].snapshot <= durable.csn
      BY DEF StateInv, SnapshotsOK
    <3> QED
      BY <1>2, <3>1, <3>2
  <2> DEFINE M == txs'
             z == durable.csn
  <2>2. M \in TxMaps /\ z \in Nat /\ (\A u \in Tx : M[u].snapshot <= z) /\ M[o].status = "active"
    BY <1>2, <2>1
  <2> HIDE DEF M, z
  <2>3. Oldest(M, z) \in Nat /\ Oldest(M, z) <= z /\ Oldest(M, z) <= M[o].snapshot
    BY <2>2, OldestIs
  <2> QED
    BY <1>2, <2>3 DEF M, z
<1>4. G = PruneTables(H, old)
  <2>1. durable' = [durable EXCEPT !.tables = PruneTables(@, old)]
    BY DEF Finish
  <2>2. durable = [csn |-> durable.csn, next_row |-> durable.next_row, tables |-> durable.tables]
    BY DEF StateInv, DurableOK
  <2> HIDE DEF old
  <2> QED
    BY <2>1, <2>2
<1>5. T \in SUBSET DOMAIN H /\ T \in SUBSET DOMAIN G
  <2>1. \A tb \in T : tb \in DOMAIN H /\ H[tb].live = TRUE
    BY DEF StateInv, HeapOK, InSync, Catalog
  <2>2. \A tb \in DOMAIN H : H[tb].live = TRUE => tb \in DOMAIN G
    BY <1>1 DEF Pruned, TablesPruned
  <2> QED
    BY <2>1, <2>2
<1>6. ASSUME NEW tb \in T
      PROVE  MergeTable(G[tb], tb, snapshot, durable.csn, OpsOn(plan, tb))
                = MergeTable(H[tb], tb, snapshot, durable.csn, OpsOn(plan, tb))
  <2>1. G[tb] = [H[tb] EXCEPT !.rows = PruneRows(@, old)]
    BY <1>4, <1>5 DEF PruneTables
  <2>2. HistoryOK(H[tb], durable.csn, durable.next_row) /\ Shaped(H[tb])
    BY <1>2, <1>5 DEF TablesOK
  <2>3. OpsOn(plan, tb) \in Seq(Operations)
    BY <1>2, OperationsOf
  <2> HIDE DEF G, H, old, plan, snapshot
  <2> QED
    BY <1>2, <1>3, <2>1, <2>2, <2>3, PruneMerge
<1> DEFINE tables == Ascending(T)
           HM == [i \in DOMAIN tables |->
                     MergeTable(H[tables[i]], tables[i], snapshot, durable.csn, OpsOn(plan, tables[i]))]
           GM == [i \in DOMAIN tables |->
                     MergeTable(G[tables[i]], tables[i], snapshot, durable.csn, OpsOn(plan, tables[i]))]
<1>7. MergedOps(o) = FlattenSeq(HM) /\ MergedOps(o)' = FlattenSeq(GM)
  BY <1>2 DEF MergedOps
<1>8. \A i \in DOMAIN tables : tables[i] \in T
  <2>1. T \in SUBSET Tables /\ IsFiniteSet(T) /\ Tables \subseteq Int
    BY <1>2, OperationsOf, TablesAssumption
  <2> HIDE DEF T
  <2>2. Ascending(T) \in Seq(T)
    BY <2>1, AscendingIs
  <2> QED
    BY <2>2
<1>9. HM = GM
  <2> HIDE DEF T, tables, H, G, snapshot, plan
  <2> QED
    BY <1>6, <1>8
<1> QED
  BY <1>7, <1>9

(***************************************************************************)
(* Operations applied one after the other.                                 *)
(***************************************************************************)

\* g has the heaps on the way.
Applied(g, h, ops) ==
    /\ g \in [0 .. Len(ops) -> Heaps] /\ g[0] = h
    /\ \A n \in 1 .. Len(ops) : g[n] = HeapAfter(g[n - 1], ops[n])
    /\ \A n \in 0 .. Len(ops) : HeapAfterAll(h, SubSeq(ops, 1, n)) = g[n]

LEMMA AppliedExists ==
  ASSUME NEW h \in Heaps, NEW ops \in Seq(Operations)
  PROVE  \E g : Applied(g, h, ops)
<1> DEFINE N == Len(ops)
           D == Heaps
           F == [a \in D \X (1 .. N) |-> HeapAfter(a[1], ops[a[2]])]
<1>1. N \in Nat /\ h \in D
  OBVIOUS
<1>2. F \in [D \X (1 .. N) -> D]
  <2>1. ASSUME NEW a \in D \X (1 .. N) PROVE HeapAfter(a[1], ops[a[2]]) \in D
    <3>1. a[1] \in Heaps /\ ops[a[2]] \in Operations
      OBVIOUS
    <3> QED
      BY <3>1, HeapAfterType
  <2> QED
    BY <2>1
<1>3. \A x \in D, k \in 1 .. N : F[<<x, k>>] = HeapAfter(x, ops[k])
  OBVIOUS
<1> HIDE DEF F, D, N
<1>4. PICK g : Recurs(g, N, D, h, F)
  BY <1>1, <1>2, Recursion
<1>5. /\ g \in [0 .. N -> D] /\ g[0] = h
      /\ \A n \in 1 .. N : g[n] = HeapAfter(g[n - 1], ops[n])
  <2>1. ASSUME NEW n \in 1 .. N PROVE g[n] = HeapAfter(g[n - 1], ops[n])
    <3>1. n - 1 \in 0 .. N
      BY <1>1
    <3>2. g[n - 1] \in D /\ g[n] = F[<<g[n - 1], n>>]
      BY <1>4, <3>1 DEF Recurs
    <3> QED
      BY <1>3, <3>2
  <2> QED
    BY <1>4, <2>1 DEF Recurs
<1>6. ASSUME NEW m \in 0 .. N PROVE HeapAfterAll(h, SubSeq(ops, 1, m)) = g[m]
  <2> DEFINE part == SubSeq(ops, 1, m)
             Is(f) == f = [n \in 0 .. Len(part) |->
                              IF n = 0 THEN h ELSE HeapAfter(f[n - 1], part[n])]
             f0 == CHOOSE f : Is(f)
             e == [n \in 0 .. m |-> g[n]]
  <2>1. HeapAfterAll(h, part) = f0[Len(part)]
    BY DEF HeapAfterAll
  <2>2. m \in Nat /\ Len(part) = m /\ \A n \in 1 .. m : part[n] = ops[n]
    BY <1>1 DEF N
  <2> HIDE DEF part
  <2>3. Is(e)
    <3>1. ASSUME NEW n \in 0 .. m PROVE e[n] = IF n = 0 THEN h ELSE HeapAfter(e[n - 1], part[n])
      <4>1. CASE n = 0
        BY <1>5, <4>1
      <4>2. CASE n # 0
        <5>1. n \in 1 .. m /\ n \in 1 .. N /\ n - 1 \in 0 .. m
          BY <1>1, <2>2, <4>2
        <5> QED
          BY <1>5, <2>2, <4>2, <5>1
      <4> QED
        BY <4>1, <4>2
    <3>2. e = [n \in 0 .. m |-> e[n]]
      OBVIOUS
    <3> HIDE DEF e
    <3> QED
      BY <2>2, <3>1, <3>2
  <2> HIDE DEF e
  <2>4. Is(f0)
    <3> HIDE DEF Is
    <3> QED
      BY <2>3
  <2> HIDE DEF f0
  <2>5. f0[0] = h /\ \A n \in 1 .. m : f0[n] = HeapAfter(f0[n - 1], ops[n])
    <3>1. \A n \in 0 .. m : f0[n] = IF n = 0 THEN h ELSE HeapAfter(f0[n - 1], part[n])
      BY <2>2, <2>4
    <3>2. 0 \in 0 .. m /\ \A n \in 1 .. m : n \in 0 .. m /\ n # 0
      BY <2>2
    <3> QED
      BY <2>2, <3>1, <3>2
  <2> HIDE DEF Is
  <2> DEFINE P == {k \in 0 .. m : f0[k] = g[k]}
  <2>6. 0 \in P
    BY <1>5, <2>2, <2>5
  <2>7. ASSUME NEW k \in 0 .. m - 1, k \in P PROVE k + 1 \in P
    <3>1. k + 1 \in 1 .. m /\ k + 1 \in 1 .. N /\ k + 1 \in 0 .. m /\ (k + 1) - 1 = k
      BY <1>1, <2>2
    <3>2. f0[k] = g[k]
      BY <2>7
    <3>3. f0[k + 1] = HeapAfter(f0[k], ops[k + 1]) /\ g[k + 1] = HeapAfter(g[k], ops[k + 1])
      BY <1>5, <2>5, <3>1
    <3> QED
      BY <3>1, <3>2, <3>3
  <2> HIDE DEF P
  <2>8. \A k \in 0 .. m : k \in P
    BY <2>2, <2>6, <2>7, BoundedInduction, Zenon
  <2>9. m \in P
    BY <2>2, <2>8
  <2> QED
    BY <2>1, <2>2, <2>9 DEF P, part
<1> QED
  BY <1>5, <1>6 DEF Applied, N, D

\* Only deletes are followed by another operation on their table.
InTurn(ops) ==
    \A i, j \in DOMAIN ops :
        i < j /\ ops[i].table = ops[j].table => ops[i].kind = "delete"

\* What another operation than a delete makes of a table stays.
LEMMA LastOnTable ==
  ASSUME NEW h \in Heaps, NEW ops \in Seq(Operations), InTurn(ops), NEW g, Applied(g, h, ops),
         NEW i \in DOMAIN ops, ops[i].kind # "delete"
  PROVE  \A n \in i .. Len(ops) : g[n][ops[i].table] = g[i][ops[i].table]
<1> DEFINE N == Len(ops)
           tb == ops[i].table
           P == {k \in 0 .. N : k >= i => g[k][tb] = g[i][tb]}
<1>1. N \in Nat /\ i \in 1 .. N /\ tb \in Tables
  <2>1. ops[i] \in Operations
    OBVIOUS
  <2> QED
    BY <2>1 DEF Operations
<1>2. 0 \in P
  BY <1>1
<1>3. ASSUME NEW k \in 0 .. N - 1, k \in P PROVE k + 1 \in P
  <2>1. k + 1 \in 1 .. N /\ k + 1 \in 0 .. N /\ (k + 1) - 1 = k /\ k \in 0 .. N /\ k \in Nat
    BY <1>1
  <2>2. g[k + 1] = HeapAfter(g[k], ops[k + 1]) /\ g[k] \in Heaps
    BY <2>1 DEF Applied
  <2>3. CASE k + 1 > i
    <3>1. k >= i /\ k + 1 \in DOMAIN ops /\ i < k + 1 /\ ops[k + 1] \in Operations
      BY <1>1, <2>1, <2>3
    <3>2. ops[k + 1].table # tb
      BY <3>1 DEF InTurn
    <3>3. g[k + 1][tb] = g[k][tb]
      <4>1. tb # ops[k + 1].table
        BY <3>2
      <4> HIDE DEF tb
      <4>2. HeapAfter(g[k], ops[k + 1])[tb] = g[k][tb]
        BY <1>1, <2>2, <3>1, <4>1, HeapAfterType
      <4> QED
        BY <2>2, <4>2
    <3>4. g[k][tb] = g[i][tb]
      BY <1>3, <3>1
    <3> QED
      BY <2>1, <3>3, <3>4
  <2>4. CASE ~ (k + 1 > i)
    BY <1>1, <2>1, <2>4
  <2> QED
    BY <2>3, <2>4
<1> HIDE DEF P
<1>4. \A k \in 0 .. N : k \in P
  BY <1>1, <1>2, <1>3, BoundedInduction, Zenon
<1>5. ASSUME NEW n \in i .. N PROVE g[n][tb] = g[i][tb]
  <2>1. n \in 0 .. N /\ n >= i
    BY <1>1
  <2> QED
    BY <1>4, <2>1 DEF P
<1> QED
  BY <1>5

(***************************************************************************)
(* Unique rows.                                                            *)
(***************************************************************************)

\* All tables of the operations are unique in the end.
EndsUnique(h, ops) == \A tb \in TablesOf(ops) : RowsUnique(HeapAfterAll(h, ops)[tb])

LEMMA AppliedEnd ==
  ASSUME NEW h \in Heaps, NEW ops \in Seq(Operations), NEW g, Applied(g, h, ops)
  PROVE  HeapAfterAll(h, ops) = g[Len(ops)]
<1>1. Len(ops) \in 0 .. Len(ops) /\ SubSeq(ops, 1, Len(ops)) = ops
  OBVIOUS
<1> QED
  BY <1>1 DEF Applied

\* validate_insert_ids finds nothing where the end is unique.
LEMMA NoDuplicateId ==
  ASSUME heap \in Heaps, NEW ops \in Seq(Operations), InTurn(ops), EndsUnique(heap, ops)
  PROVE  ~ DuplicateId(ops)
<1>1. PICK g : Applied(g, heap, ops)
  BY AppliedExists
<1>2. ASSUME NEW i \in DOMAIN ops, ops[i].kind = "upsert",
             NEW rows, rows = HeapAfterAll(heap, SubSeq(ops, 1, i - 1))[ops[i].table],
             NEW all, all = rows \o ops[i].rows,
             NEW p \in DOMAIN all, NEW q \in DOMAIN all, p < q,
             all[p].id = all[q].id, all[p].id # NoId
      PROVE  FALSE
  <2> DEFINE tb == ops[i].table
             N == Len(ops)
  <2>1. N \in Nat /\ i \in 1 .. N /\ i - 1 \in 0 .. N /\ ops[i] \in Operations /\ ops[i].kind # "delete"
    BY <1>2
  <2>2. tb \in Tables /\ tb \in TablesOf(ops)
    BY <2>1 DEF Operations, TablesOf
  <2>3. rows = g[i - 1][tb] /\ g[i] = HeapAfter(g[i - 1], ops[i]) /\ g[i - 1] \in Heaps
    BY <1>1, <1>2, <2>1 DEF Applied
  <2>4. g[i][tb] = all
    <3>1. EditRows(rows, ops[i]) = all
      BY <1>2 DEF EditRows
    <3>2. HeapAfter(g[i - 1], ops[i])[tb] = EditRows(g[i - 1][tb], ops[i])
      BY <2>2, <2>3 DEF HeapAfter, Heaps
    <3> QED
      BY <2>3, <3>1, <3>2
  <2>5. g[N][tb] = g[i][tb]
    <3>1. N \in i .. N
      BY <2>1
    <3> QED
      BY <1>1, <2>1, <3>1, LastOnTable
  <2>6. RowsUnique(all)
    BY <1>1, <2>2, <2>4, <2>5, AppliedEnd DEF EndsUnique
  <2>7. p # q
    BY <1>2
  <2> QED
    BY <1>2, <2>6, <2>7 DEF RowsUnique
<1> QED
  BY <1>2 DEF DuplicateId

LEMMA DeleteUnique ==
  ASSUME NEW rows \in Seq(Rows), NEW op, op.kind = "delete", RowsUnique(rows)
  PROVE  RowsUnique(EditRows(rows, op))
<1> DEFINE left == {i \in DOMAIN rows :
                       ~ /\ rows[i].id \in op.ids
                         /\ \A j \in 1 .. i - 1 : rows[j].id # rows[i].id}
           new == PickAt(rows, left)
           at == Ascending(left)
<1>1. EditRows(rows, op) = new
  BY DEF EditRows
<1>2. left \in SUBSET DOMAIN rows
  OBVIOUS
<1> HIDE DEF left
<1>3. /\ new \in Seq(Rows)
      /\ \A k \in 1 .. Len(new) : /\ at[k] \in left /\ new[k] = rows[at[k]]
                                  /\ \A l \in 1 .. Len(new) : k < l => at[k] < at[l]
  BY <1>2, PickAtIs
<1> HIDE DEF new, at
<1>4. ASSUME NEW i \in DOMAIN new, NEW j \in DOMAIN new, i # j PROVE at[i] # at[j]
  <2>1. i \in 1 .. Len(new) /\ j \in 1 .. Len(new) /\ at[i] \in DOMAIN rows /\ at[j] \in DOMAIN rows
    BY <1>2, <1>3
  <2>2. i < j \/ j < i
    BY <1>4, <2>1
  <2>3. at[i] < at[j] \/ at[j] < at[i]
    BY <1>3, <2>1, <2>2
  <2>4. at[i] \in Nat /\ at[j] \in Nat
    BY <2>1
  <2> QED
    BY <2>3, <2>4
<1>5. ASSUME NEW i \in DOMAIN new, NEW j \in DOMAIN new, i # j
      PROVE  /\ new[i].id = NoId \/ new[i].id # new[j].id
             /\ ValUnique => new[i].val # new[j].val
  <2>1. /\ at[i] \in DOMAIN rows /\ new[i] = rows[at[i]]
        /\ at[j] \in DOMAIN rows /\ new[j] = rows[at[j]]
    BY <1>2, <1>3
  <2>2. at[i] # at[j]
    BY <1>4, <1>5
  <2> QED
    BY <2>1, <2>2 DEF RowsUnique
<1> QED
  BY <1>1, <1>5 DEF RowsUnique

\* A part of the operations leaves the tables unique too.
LEMMA PartUnique ==
  ASSUME NEW h \in Heaps, NEW ops \in Seq(Operations), InTurn(ops), EndsUnique(h, ops),
         \A tb \in Tables : RowsUnique(h[tb]), NEW m \in 0 .. Len(ops)
  PROVE  \A tb \in Tables : RowsUnique(HeapAfterAll(h, SubSeq(ops, 1, m))[tb])
<1> DEFINE N == Len(ops)
<1>1. PICK g : Applied(g, h, ops)
  BY AppliedExists
<1>2. N \in Nat /\ N \in 0 .. N /\ m \in 0 .. N /\ g[N] = HeapAfterAll(h, ops)
      /\ HeapAfterAll(h, SubSeq(ops, 1, m)) = g[m]
  BY <1>1, AppliedEnd DEF Applied
<1>3. ASSUME NEW tb \in Tables PROVE RowsUnique(g[m][tb])
  <2> DEFINE P == {k \in 0 .. N : RowsUnique(g[k][tb])}
  <2>1. 0 \in P
    BY <1>1, <1>2 DEF Applied
  <2>2. ASSUME NEW k \in 0 .. N - 1, k \in P PROVE k + 1 \in P
    <3>1. k + 1 \in 1 .. N /\ k + 1 \in 0 .. N /\ (k + 1) - 1 = k /\ k \in 0 .. N
          /\ k + 1 \in DOMAIN ops /\ ops[k + 1] \in Operations
      BY <1>2
    <3>2. g[k + 1] = HeapAfter(g[k], ops[k + 1]) /\ g[k] \in Heaps /\ RowsUnique(g[k][tb])
      BY <1>1, <2>2, <3>1 DEF Applied
    <3>3. CASE ops[k + 1].table # tb
      <4>1. g[k + 1][tb] = g[k][tb]
        BY <3>1, <3>2, <3>3, HeapAfterType
      <4> QED
        BY <3>1, <3>2, <4>1
    <3>4. CASE ops[k + 1].table = tb /\ ops[k + 1].kind = "delete"
      <4>1. g[k + 1][tb] = EditRows(g[k][tb], ops[k + 1]) /\ g[k][tb] \in Seq(Rows)
        BY <3>2, <3>4 DEF HeapAfter, Heaps
      <4>2. RowsUnique(EditRows(g[k][tb], ops[k + 1]))
        BY <3>2, <3>4, <4>1, DeleteUnique
      <4> QED
        BY <3>1, <4>1, <4>2
    <3>5. CASE ops[k + 1].table = tb /\ ops[k + 1].kind # "delete"
      <4>1. N \in k + 1 .. N
        BY <1>2, <3>1
      <4>2. g[N][tb] = g[k + 1][tb]
        BY <1>1, <3>1, <3>5, <4>1, LastOnTable
      <4>3. tb \in TablesOf(ops)
        BY <3>1, <3>5 DEF TablesOf
      <4>4. RowsUnique(g[k + 1][tb])
        BY <1>2, <4>2, <4>3 DEF EndsUnique
      <4> QED
        BY <3>1, <4>4
    <3> QED
      BY <3>3, <3>4, <3>5
  <2> HIDE DEF P, N
  <2>3. \A k \in 0 .. N : k \in P
    BY <1>2, <2>1, <2>2, BoundedInduction, Zenon
  <2> QED
    BY <1>2, <2>3 DEF P
<1> QED
  BY <1>2, <1>3

(***************************************************************************)
(* The operations of a commit.                                             *)
(***************************************************************************)

LEMMA MergeInTurn ==
  ASSUME NEW h, NEW tb, NEW snapshot, NEW csn, NEW ops
  PROVE  InTurn(MergeTable(h, tb, snapshot, csn, ops))
<1> DEFINE plan == PlanTable(h, snapshot, ops)
           altered == Altered(h, snapshot, plan)
           current == Visible(h, csn)
           removed == (plan.removed \cup {plan.wanted[i].id : i \in altered}) \ {0}
           appended == PickAt([i \in DOMAIN plan.wanted |-> plan.wanted[i].row], altered)
<1>1. MergeTable(h, tb, snapshot, csn, ops) = MergeOver(tb, current, removed, appended)
  BY DEF MergeTable
<1> HIDE DEF plan, altered, current, removed, appended
<1> DEFINE row(p) == current[p].version.row
           victims == {p \in DOMAIN current : current[p].id \in removed}
           others  == DOMAIN current \ victims
           keyed   == /\ \A p \in victims : row(p).id # NoId
                      /\ \A p \in victims, q \in DOMAIN current :
                            p # q => row(p).id # row(q).id
           Op(kind, r, i) == [kind |-> kind, table |-> tb, rows |-> r, ids |-> i]
           D == Op("delete", << >>, {row(p).id : p \in victims})
           U == Op("upsert", appended, {})
           R == Op("replace", PickAt(RowsOf(current), others) \o appended, {})
<1>2. MergeOver(tb, current, removed, appended) =
        IF removed = {} /\ appended = << >> THEN << >>
        ELSE IF keyed
        THEN (IF victims = {} THEN << >> ELSE <<D>>) \o (IF appended = << >> THEN << >> ELSE <<U>>)
        ELSE <<R>>
  BY DEF MergeOver
<1>3. D.kind = "delete"
  OBVIOUS
<1> HIDE DEF D, U, R, keyed, victims
<1>4. MergeOver(tb, current, removed, appended) \in {<< >>, <<D>>, <<U>>, <<D>> \o <<U>>, <<R>>}
  <2>1. << >> \o << >> = << >> /\ << >> \o <<U>> = <<U>> /\ <<D>> \o << >> = <<D>>
    OBVIOUS
  <2> HIDE DEF Op, row, others
  <2> QED
    BY <1>2, <2>1, Zenon
<1>5. InTurn(<< >>) /\ InTurn(<<D>>) /\ InTurn(<<U>>) /\ InTurn(<<R>>)
  BY DEF InTurn
<1>6. InTurn(<<D>> \o <<U>>)
  <2> HIDE DEF Op, row, others
  <2> DEFINE z == <<D>> \o <<U>>
  <2>1. DOMAIN z = 1 .. 2 /\ z[1] = D
    OBVIOUS
  <2> HIDE DEF z
  <2>2. ASSUME NEW i \in DOMAIN z, NEW j \in DOMAIN z, i < j PROVE z[i].kind = "delete"
    <3>1. i = 1
      BY <2>1, <2>2
    <3> QED
      BY <1>3, <2>1, <3>1
  <2> QED
    BY <2>2 DEF InTurn, z
<1> QED
  BY <1>1, <1>4, <1>5, <1>6

LEMMA InTurnJoin ==
  ASSUME NEW x \in Seq(Operations), NEW y \in Seq(Operations), InTurn(x), InTurn(y),
         TablesOf(x) \cap TablesOf(y) = {}
  PROVE  InTurn(x \o y)
<1> DEFINE z == x \o y
<1>1. /\ DOMAIN z = 1 .. Len(x) + Len(y) /\ Len(x) \in Nat /\ Len(y) \in Nat
      /\ DOMAIN x = 1 .. Len(x) /\ DOMAIN y = 1 .. Len(y)
      /\ \A i \in DOMAIN z : z[i] = IF i <= Len(x) THEN x[i] ELSE y[i - Len(x)]
  OBVIOUS
<1> HIDE DEF z
<1>2. ASSUME NEW i \in DOMAIN z, NEW j \in DOMAIN z, i < j, z[i].table = z[j].table
      PROVE  z[i].kind = "delete"
  <2>1. CASE j <= Len(x)
    <3>1. i \in DOMAIN x /\ j \in DOMAIN x /\ z[i] = x[i] /\ z[j] = x[j]
      BY <1>1, <1>2, <2>1
    <3> QED
      BY <1>2, <3>1 DEF InTurn
  <2>2. CASE i > Len(x)
    <3>1. /\ i - Len(x) \in DOMAIN y /\ j - Len(x) \in DOMAIN y /\ i - Len(x) < j - Len(x)
          /\ z[i] = y[i - Len(x)] /\ z[j] = y[j - Len(x)]
      BY <1>1, <1>2, <2>2
    <3> QED
      BY <1>2, <3>1 DEF InTurn
  <2>3. CASE i <= Len(x) /\ ~ (j <= Len(x))
    <3>1. /\ i \in DOMAIN x /\ j - Len(x) \in DOMAIN y
          /\ z[i] = x[i] /\ z[j] = y[j - Len(x)]
      BY <1>1, <1>2, <2>3
    <3> QED
      BY <1>2, <3>1 DEF TablesOf
  <2> QED
    BY <1>1, <2>1, <2>2, <2>3
<1> QED
  BY <1>2 DEF InTurn, z

LEMMA TablesJoin ==
  ASSUME NEW y \in Seq(Operations), NEW z \in Seq(Operations)
  PROVE  TablesOf(y \o z) \subseteq TablesOf(y) \cup TablesOf(z)
<1>1. ASSUME NEW i \in DOMAIN (y \o z)
      PROVE  (y \o z)[i].table \in TablesOf(y) \cup TablesOf(z)
  <2>1. CASE i <= Len(y)
    <3>1. i \in DOMAIN y /\ (y \o z)[i] = y[i]
      BY <2>1
    <3> QED
      BY <3>1 DEF TablesOf
  <2>2. CASE ~ (i <= Len(y))
    <3>1. i - Len(y) \in DOMAIN z /\ (y \o z)[i] = z[i - Len(y)]
      BY <2>2
    <3> QED
      BY <3>1 DEF TablesOf
  <2> QED
    BY <2>1, <2>2
<1> QED
  BY <1>1 DEF TablesOf

LEMMA MergedInTurn ==
  ASSUME NEW t, txs[t].plan \in Seq(Operations), txs[t].snapshot \in Nat,
         durable.csn \in Nat, durable.next_row \in Nat,
         TablesOK(durable.tables, durable.csn, durable.next_row),
         TablesOf(txs[t].plan) \subseteq DOMAIN durable.tables
  PROVE  InTurn(MergedOps(t))
<1> DEFINE plan == txs[t].plan
           T == TablesOf(plan)
           tables == Ascending(T)
           merged(tb) == MergeTable(durable.tables[tb], tb, txs[t].snapshot,
                                    durable.csn, OpsOn(plan, tb))
           seqs == [i \in DOMAIN tables |-> merged(tables[i])]
           N == Len(seqs)
           Upto(k) == {tables[j] : j \in 1 .. k}
           S == [k \in 0 .. N |-> {x \in Seq(Operations) : InTurn(x) /\ TablesOf(x) \subseteq Upto(k)}]
<1>1. MergedOps(t) = FlattenSeq(seqs)
  BY DEF MergedOps
<1>2. T \in SUBSET Tables /\ IsFiniteSet(T) /\ \A tb : OpsOn(plan, tb) \in Seq(Operations)
  BY OperationsOf
<1>3. T \in SUBSET Int
  <2> HIDE DEF T
  <2>1. Tables \in SUBSET Nat /\ Nat \in SUBSET Int
    BY TablesAssumption
  <2> QED
    BY <1>2, <2>1
<1>4. tables \in Seq(T) /\ \A i, j \in 1 .. Len(tables) : i < j => tables[i] < tables[j]
  <2> HIDE DEF T
  <2> QED
    BY <1>2, <1>3, AscendingIs
<1>5. ASSUME NEW tb \in T
      PROVE  /\ merged(tb) \in Seq(Operations) /\ InTurn(merged(tb))
             /\ TablesOf(merged(tb)) \subseteq {tb}
  <2>1. HistoryOK(durable.tables[tb], durable.csn, durable.next_row)
    BY DEF TablesOK
  <2>2. tb \in Tables /\ OpsOn(plan, tb) \in Seq(Operations)
    BY <1>2
  <2> DEFINE Q == {op \in Operations : op.table = tb}
  <2> HIDE DEF plan
  <2>3. merged(tb) \in Seq(Q)
    BY <2>1, <2>2, MergeTableIs
  <2>4. InTurn(merged(tb))
    BY MergeInTurn
  <2>5. Q \subseteq Operations /\ \A op \in Q : op.table = tb
    OBVIOUS
  <2> HIDE DEF merged, Q
  <2>6. merged(tb) \in Seq(Operations)
    BY <2>3, <2>5
  <2>7. \A i \in DOMAIN merged(tb) : merged(tb)[i] \in Q
    BY <2>3
  <2> QED
    BY <2>4, <2>5, <2>6, <2>7 DEF TablesOf
<1> HIDE DEF merged, tables, T
<1>6. DOMAIN tables = 1 .. Len(tables) /\ Len(tables) \in Nat /\ \A i \in DOMAIN tables : tables[i] \in T
  BY <1>4
<1>7. seqs \in Seq(Seq(Operations)) /\ N = Len(tables) /\ \A k \in 1 .. N : seqs[k] = merged(tables[k])
  BY <1>5, <1>6
<1> HIDE DEF seqs, N
<1>8. << >> \in S[0]
  <2>1. << >> \in Seq(Operations) /\ InTurn(<< >>) /\ TablesOf(<< >>) = {} /\ 0 \in 0 .. N
    BY <1>6, <1>7 DEF InTurn, TablesOf
  <2> QED
    BY <2>1
<1>9. ASSUME NEW k \in 1 .. N, NEW x \in S[k - 1] PROVE x \o seqs[k] \in S[k]
  <2>1. k - 1 \in 0 .. N /\ k \in 0 .. N /\ k \in DOMAIN tables /\ N \in Nat
    BY <1>6, <1>7
  <2>2. x \in Seq(Operations) /\ InTurn(x) /\ TablesOf(x) \subseteq Upto(k - 1)
    BY <1>9, <2>1
  <2>3. /\ seqs[k] \in Seq(Operations) /\ InTurn(seqs[k]) /\ TablesOf(seqs[k]) \subseteq {tables[k]}
    BY <1>5, <1>6, <1>7, <2>1
  <2>4. tables[k] \notin Upto(k - 1)
    <3>1. ASSUME NEW j \in 1 .. k - 1 PROVE tables[j] # tables[k]
      <4>1. j \in DOMAIN tables /\ j < k
        BY <1>6, <2>1
      <4>2. tables[j] < tables[k] /\ tables[j] \in Int /\ tables[k] \in Int
        BY <1>3, <1>4, <1>6, <2>1, <4>1
      <4> QED
        BY <4>2
    <3> QED
      BY <3>1
  <2>5. Upto(k - 1) \subseteq Upto(k) /\ tables[k] \in Upto(k)
    <3>1. 1 .. k - 1 \subseteq 1 .. k /\ k \in 1 .. k
      BY <2>1
    <3> QED
      BY <3>1
  <2> HIDE DEF Upto
  <2>6. InTurn(x \o seqs[k])
    BY <2>2, <2>3, <2>4, InTurnJoin
  <2>7. x \o seqs[k] \in Seq(Operations)
    BY <2>2, <2>3
  <2>8. TablesOf(x \o seqs[k]) \subseteq TablesOf(x) \cup TablesOf(seqs[k])
    BY <2>2, <2>3, TablesJoin
  <2> QED
    BY <2>1, <2>2, <2>3, <2>5, <2>6, <2>7, <2>8
<1>10. S \in [0 .. N -> SUBSET Seq(Operations)]
  OBVIOUS
<1> HIDE DEF S
<1>11. MergedOps(t) \in S[N]
  <2>1. \A k \in 1 .. Len(seqs) : \A x \in S[k - 1] : x \o seqs[k] \in S[k]
    BY <1>9 DEF N
  <2>2. S \in [0 .. Len(seqs) -> SUBSET Seq(Operations)]
    BY <1>10 DEF N
  <2>3. FlattenSeq(seqs) \in S[Len(seqs)]
    BY <1>7, <1>8, <2>1, <2>2, FlattenBy
  <2> QED
    BY <1>1, <2>3 DEF N
<1>12. N \in 0 .. N
  BY <1>6, <1>7
<1> QED
  BY <1>11, <1>12 DEF S

(***************************************************************************)
(* Rows that stay unique.                                                  *)
(***************************************************************************)

\* What the session checked holds as long as its token is current.
MergeUnique ==
    \A t \in Tx : Committing(t) /\ committer.token = durable.csn /\ ~ recovery =>
        \A tb \in TablesOf(txs[t].plan) : RowsUnique(HeapAfterAll(heap, MergedOps(t))[tb])

\* The group at the gate leaves its tables unique.
GateUnique == gate.stage = "apply" => InTurn(gate.ops) /\ EndsUnique(heap, gate.ops)

UniqueInv == StateInv /\ MergeUnique /\ GateUnique

\* The committing transaction keeps its work.
WorkLeft == \A t \in Tx : Committing(t) => SameWork(txs'[t], txs[t])

LEMMA MergeSame ==
  ASSUME MergeUnique, UNCHANGED <<heap, committer, recovery>>, durable'.csn = durable.csn,
         \A t \in Tx : Committing(t) /\ ~ recovery /\ committer.token = durable.csn =>
            txs'[t].plan = txs[t].plan /\ MergedOps(t)' = MergedOps(t)
  PROVE  MergeUnique'
<1>1. ASSUME NEW t \in Tx, Committing(t)', committer'.token = durable'.csn, ~ recovery',
             NEW tb \in TablesOf(txs'[t].plan)
      PROVE  RowsUnique(HeapAfterAll(heap', MergedOps(t)')[tb])
  <2>1. Committing(t) /\ committer.token = durable.csn /\ ~ recovery
    BY <1>1 DEF Committing
  <2>2. txs'[t].plan = txs[t].plan /\ MergedOps(t)' = MergedOps(t)
    BY <2>1
  <2>3. RowsUnique(HeapAfterAll(heap, MergedOps(t))[tb])
    BY <1>1, <2>1, <2>2 DEF MergeUnique
  <2> QED
    BY <2>2, <2>3
<1> QED
  BY <1>1 DEF MergeUnique

LEMMA GateSame ==
  ASSUME GateUnique, UNCHANGED <<heap, gate>>
  PROVE  GateUnique'
BY DEF GateUnique

LEMMA MergedSame ==
  ASSUME NEW t, durable' = durable, SameWork(txs'[t], txs[t])
  PROVE  txs'[t].plan = txs[t].plan /\ MergedOps(t)' = MergedOps(t)
<1>1. txs'[t].plan = txs[t].plan /\ txs'[t].snapshot = txs[t].snapshot
  BY DEF SameWork
<1> QED
  BY <1>1 DEF MergedOps

LEMMA WorkUnique ==
  ASSUME UniqueInv, durable' = durable, UNCHANGED <<heap, committer, recovery, gate>>, WorkLeft
  PROVE  MergeUnique' /\ GateUnique'
<1>1. GateUnique'
  BY GateSame DEF UniqueInv
<1>2. \A t \in Tx : Committing(t) => txs'[t].plan = txs[t].plan /\ MergedOps(t)' = MergedOps(t)
  BY MergedSame DEF WorkLeft
<1> QED
  BY <1>1, <1>2, MergeSame DEF UniqueInv

\* Requests for locks.
LEMMA LoopUnique ==
  ASSUME NEW t \in Tx, ~ Committing(t), NEW W, LoopDone(t, W)
  PROVE  WorkLeft
<1>1. ASSUME OthersKept(t) PROVE WorkLeft
  BY <1>1 DEF OthersKept, WorkLeft, SameWork
<1>2. ASSUME GaveUp(t, W) PROVE WorkLeft
  BY <1>2 DEF GaveUp, Aborted, WorkLeft
<1> QED
  BY <1>1, <1>2 DEF LoopDone, Granted, Refused, Slept

LEMMA AskedUnique ==
  ASSUME UniqueInv, NEW t \in Tx, Asked(t) \/ Resumed(t) \/ Returned(t) \/ Failed(t)
  PROVE  MergeUnique' /\ GateUnique'
<1>1. UNCHANGED <<durable, heap, committer, recovery, gate>>
  BY DEF Asked, Resumed, Returned, Failed, Others
<1>2. WorkLeft
  <2>1. CASE Asked(t)
    BY <2>1, LoopUnique DEF Asked
  <2>2. CASE Resumed(t)
    <3>1. ~ Committing(t)
      BY <2>2 DEF Resumed, UniqueInv, StateInv, CommitOK
    <3> QED
      BY <2>2, <3>1, LoopUnique DEF Resumed
  <2>3. CASE Returned(t)
    BY <2>3 DEF Returned, WorkLeft, SameWork
  <2>4. CASE Failed(t)
    <3>1. ~ Committing(t)
      BY <2>4 DEF Failed, UniqueInv, StateInv, CommitOK
    <3> QED
      BY <2>4, <3>1 DEF Failed, Aborted, WorkLeft
  <2> QED
    BY <2>1, <2>2, <2>3, <2>4
<1> QED
  BY <1>1, <1>2, WorkUnique

LEMMA BegunUnique ==
  ASSUME UniqueInv, NEW t \in Tx, Begun(t)
  PROVE  MergeUnique' /\ GateUnique'
<1>1. UNCHANGED <<durable, heap, committer, recovery, gate>>
  BY DEF Begun
<1>2. WorkLeft
  <2>1. ~ Committing(t)
    BY DEF Begun, UniqueInv, StateInv, CommitOK
  <2> QED
    BY <2>1 DEF Begun, WorkLeft, SameWork
<1> QED
  BY <1>1, <1>2, WorkUnique

\* The preview checks what the commit will do.
LEMMA PreviewUnique ==
  ASSUME UniqueInv, NEW t \in Tx, Preview(t)
  PROVE  MergeUnique' /\ GateUnique'
<1>1. /\ committer' = [tx |-> t, token |-> durable.csn]
      /\ UNCHANGED <<durable, heap, txs, gate, recovery>>
      /\ \A tb \in TablesOf(txs[t].plan) : RowsUnique(HeapAfterAll(heap, MergedOps(t))[tb])
  BY DEF Preview
<1>2. GateUnique'
  BY <1>1, GateSame DEF UniqueInv
<1>3. MergedOps(t)' = MergedOps(t)
  BY <1>1, MergedSame DEF SameWork
<1>4. ASSUME NEW o \in Tx, Committing(o)', NEW tb \in TablesOf(txs'[o].plan)
      PROVE  RowsUnique(HeapAfterAll(heap', MergedOps(o)')[tb])
  <2>1. o = t
    BY <1>1, <1>4 DEF Committing
  <2> QED
    BY <1>1, <1>3, <1>4, <2>1
<1> QED
  BY <1>2, <1>4 DEF MergeUnique

\* The gate's operations are those of the preview.
LEMMA StartUnique ==
  ASSUME UniqueInv, NEW t \in Tx, CommitStart(t)
  PROVE  MergeUnique' /\ GateUnique'
<1>1. /\ ~ recovery /\ Committing(t) /\ committer.token = durable.csn
      /\ TablesOf(txs[t].plan) \subseteq DOMAIN durable.tables
      /\ UNCHANGED <<durable, heap, txs, committer, recovery>>
      /\ gate' = [stage |-> IF MergedOps(t) = << >> THEN "finish" ELSE "apply", ops |-> MergedOps(t)]
  BY DEF CommitStart, CommitReady
<1>2. MergeUnique'
  <2>1. \A o \in Tx : txs'[o].plan = txs[o].plan /\ MergedOps(o)' = MergedOps(o)
    BY <1>1, MergedSame DEF SameWork
  <2> QED
    BY <1>1, <2>1, MergeSame DEF UniqueInv
<1>3. txs[t].plan \in Seq(Operations) /\ txs[t].snapshot \in Nat
  BY TxFields DEF UniqueInv, StateInv, LocksOK, TxMaps
<1>4. durable.csn \in Nat /\ durable.next_row \in Nat
      /\ TablesOK(durable.tables, durable.csn, durable.next_row)
  BY MaxCsnAssumption DEF UniqueInv, StateInv, DurableOK
<1>5. TablesOf(MergedOps(t)) \subseteq TablesOf(txs[t].plan)
  BY <1>1, <1>3, <1>4, MergedOpsIs
<1>6. InTurn(MergedOps(t))
  BY <1>1, <1>3, <1>4, MergedInTurn
<1>7. EndsUnique(heap, MergedOps(t))
  BY <1>1, <1>5 DEF UniqueInv, MergeUnique, EndsUnique
<1>8. gate'.ops = MergedOps(t) /\ heap' = heap
  BY <1>1
<1>9. GateUnique'
  BY <1>6, <1>7, <1>8 DEF GateUnique
<1> QED
  BY <1>2, <1>9

\* The commit request is over.
LEMMA OverUnique ==
  ASSUME committer' = NoCommitter, gate'.stage # "apply"
  PROVE  MergeUnique' /\ GateUnique'
<1>1. \A t \in Tx : ~ Committing(t)'
  BY TxAssumption DEF Committing, NoCommitter
<1> QED
  BY <1>1 DEF MergeUnique, GateUnique

\* Another transaction ends.
LEMMA RollbackUnique ==
  ASSUME UniqueInv, NEW t \in Tx, Rollback(t)
  PROVE  MergeUnique' /\ GateUnique'
<1>1. ~ Committing(t) /\ Finish(t) /\ UNCHANGED <<schemas, heap, committer, gate, recovery>>
  BY DEF Rollback
<1>2. GateUnique'
  BY <1>1, GateSame DEF UniqueInv
<1>3. Finished(t) /\ durable'.csn = durable.csn
  BY <1>1, FinishIs DEF UniqueInv, StateInv, Pruned
<1>4. ASSUME NEW o \in Tx, Committing(o), ~ recovery, committer.token = durable.csn
      PROVE  txs'[o].plan = txs[o].plan /\ MergedOps(o)' = MergedOps(o)
  <2>1. o # t
    BY <1>1, <1>4
  <2>2. txs[o].status = "active" /\ TablesOf(txs[o].plan) \subseteq Catalog(schemas)
    BY <1>4 DEF UniqueInv, StateInv, CommitOK
  <2>3. StateInv
    BY DEF UniqueInv
  <2>4. MergedOps(o)' = MergedOps(o)
    BY <1>1, <1>4, <2>1, <2>2, <2>3, MergedKept
  <2>5. txs'[o].plan = txs[o].plan
    BY <1>3, <2>1 DEF Finished, SameWork
  <2> QED
    BY <2>4, <2>5
<1>5. MergeUnique'
  BY <1>1, <1>3, <1>4, MergeSame DEF UniqueInv
<1> QED
  BY <1>2, <1>5

\* A published group makes the token stale.
LEMMA GroupUnique ==
  ASSUME UniqueInv, durable'.csn = durable.csn + 1, committer' = committer, gate'.stage # "apply"
  PROVE  MergeUnique' /\ GateUnique'
<1>1. ASSUME NEW t \in Tx, Committing(t)' PROVE committer'.token # durable'.csn
  <2>1. Committing(t)
    BY <1>1 DEF Committing
  <2>2. committer.token <= durable.csn /\ committer.token \in Nat /\ durable.csn \in Nat
    BY <2>1, MaxCsnAssumption DEF UniqueInv, StateInv, CommitOK, DurableOK
  <2> QED
    BY <2>2
<1> QED
  BY <1>1 DEF MergeUnique, GateUnique

LEMMA PublishUnique ==
  ASSUME UniqueInv, durable.csn < MaxCsn, NEW newHeap, NEW newSchemas, NEW touched,
         Edit(newHeap, newSchemas, touched), Publish(newHeap, newSchemas, touched),
         committer' = committer, gate'.stage # "apply"
  PROVE  MergeUnique' /\ GateUnique'
<1>1. GroupDone(newHeap, newSchemas)
  BY PublishIs DEF UniqueInv
<1>2. durable'.csn = durable.csn + 1
  BY <1>1 DEF GroupDone
<1> QED
  BY <1>2, GroupUnique

LEMMA ApplyUnique ==
  ASSUME UniqueInv, NEW t \in Tx, CommitApply(t)
  PROVE  MergeUnique' /\ GateUnique'
<1>1. /\ gate.stage = "apply" /\ committer' = committer
      /\ Publish(HeapAfterAll(heap, gate.ops), schemas, TablesOf(gate.ops))
      /\ gate' = [gate EXCEPT !.stage = "finish"]
  BY DEF CommitApply
<1>2. /\ Edit(HeapAfterAll(heap, gate.ops), schemas, TablesOf(gate.ops))
      /\ durable.csn < MaxCsn
      /\ gate \in [stage : {"free", "apply", "finish"}, ops : Seq(Operations)]
  BY <1>1, ApplyEdit DEF UniqueInv, StateInv, CommitOK
<1>3. gate'.stage # "apply"
  BY <1>1, <1>2
<1> QED
  BY <1>1, <1>2, <1>3, PublishUnique

LEMMA DirectUnique ==
  ASSUME UniqueInv, NEW op \in DirectOps, DirectWrite(op) \/ DirectFail(op)
  PROVE  MergeUnique' /\ GateUnique'
<1>1. /\ DirectReady /\ op.table \in Catalog(schemas) /\ committer' = committer /\ gate' = gate
      /\ \/ Publish(HeapAfter(heap, op), schemas, {op.table})
         \/ recovery' = TRUE
  BY DEF DirectWrite, DirectFail
<1>2. gate'.stage # "apply" /\ durable.csn < MaxCsn
  BY <1>1 DEF DirectReady, GateFree
<1>3. Edit(HeapAfter(heap, op), schemas, {op.table})
  BY <1>1, RowsAssumption, DirectEdit DEF UniqueInv
<1>4. ASSUME recovery' = TRUE PROVE MergeUnique' /\ GateUnique'
  BY <1>2, <1>4 DEF MergeUnique, GateUnique
<1> QED
  BY <1>1, <1>2, <1>3, <1>4, PublishUnique

LEMMA DdlUnique ==
  ASSUME UniqueInv, NEW tb, DropTable(tb) \/ ReplaceSchema(tb)
  PROVE  MergeUnique' /\ GateUnique'
<1>1. /\ DirectReady /\ tb \in Catalog(schemas) /\ tb \in Tables
      /\ committer' = committer /\ gate' = gate
      /\ heap \in Heaps /\ schemas \in [Tables -> Nat]
  BY DEF DropTable, ReplaceSchema, Catalog, UniqueInv, StateInv, HeapOK
<1>2. gate'.stage # "apply" /\ durable.csn < MaxCsn
  BY <1>1 DEF DirectReady, GateFree
<1>3. CASE DropTable(tb)
  <2> DEFINE H == [heap EXCEPT ![tb] = << >>]
             S == [schemas EXCEPT ![tb] = Absent]
  <2>1. Publish(H, S, {tb})
    BY <1>3 DEF DropTable
  <2>2. H \in Heaps /\ H[tb] = << >> /\ \A u \in Tables \ {tb} : H[u] = heap[u]
    BY <1>1 DEF Heaps
  <2>3. S \in [Tables -> Nat] /\ \A u \in Tables \ {tb} : S[u] = schemas[u]
    BY <1>1 DEF Absent
  <2> HIDE DEF H, S
  <2>4. Edit(H, S, {tb})
    BY <1>1, <2>2, <2>3 DEF Edit
  <2> QED
    BY <1>1, <1>2, <2>1, <2>4, PublishUnique
<1>4. CASE ReplaceSchema(tb)
  <2> DEFINE S == [schemas EXCEPT ![tb] = @ + 1]
  <2>1. Publish(heap, S, {tb})
    BY <1>4 DEF ReplaceSchema
  <2>2. S \in [Tables -> Nat] /\ S[tb] # 0 /\ \A u \in Tables \ {tb} : S[u] = schemas[u]
    BY <1>1
  <2> HIDE DEF S
  <2>3. tb \in Catalog(S)
    BY <1>1, <2>2 DEF Catalog, Absent
  <2>4. Edit(heap, S, {tb})
    BY <1>1, <2>2, <2>3 DEF Edit
  <2> QED
    BY <1>1, <1>2, <2>1, <2>4, PublishUnique
<1> QED
  BY <1>3, <1>4

LEMMA StepUnique ==
  ASSUME UniqueInv, [Next]_vars
  PROVE  UniqueInv'
<1> DEFINE Goal == MergeUnique' /\ GateUnique'
<1>0. StateInv /\ StateInv'
  BY StepKeeps DEF UniqueInv
<1>1. ASSUME NEW t \in Tx, NEW s \in BOOLEAN, Begin(t, s) PROVE Goal
  BY <1>0, <1>1, BeginIs, BegunUnique
<1>2. ASSUME NEW t \in Tx, NEW ops \in Plans, NEW reads \in ReadSets, Lock(t, ops, reads)
      PROVE  Goal
  <2>1. Asked(t)
    BY <1>0, <1>2, LockIs
  <2> QED
    BY <2>1, AskedUnique
<1>3. ASSUME NEW t \in Tx, Wake(t) PROVE Goal
  <2>1. Resumed(t) \/ Returned(t)
    BY <1>0, <1>3, WakeIs
  <2> QED
    BY <2>1, AskedUnique
<1>4. ASSUME NEW t \in Tx, Timeout(t) PROVE Goal
  <2>1. Resumed(t)
    BY <1>0, <1>4, ResumeIs DEF Timeout, Others
  <2> QED
    BY <2>1, AskedUnique
<1>5. ASSUME NEW t \in Tx, FailLock(t) PROVE Goal
  <2>1. Failed(t)
    BY <1>0, <1>5, FailLockIs
  <2> QED
    BY <2>1, AskedUnique
<1>6. ASSUME NEW t \in Tx, Rollback(t) PROVE Goal
  BY <1>6, RollbackUnique
<1>7. ASSUME NEW t \in Tx, Preview(t) PROVE Goal
  BY <1>7, PreviewUnique
<1>8. ASSUME NEW t \in Tx, CommitStart(t) PROVE Goal
  BY <1>8, StartUnique
<1>9. ASSUME NEW t \in Tx, CommitRefused(t) \/ CommitFail(t) \/ CommitFinish(t) PROVE Goal
  <2>1. committer' = NoCommitter /\ ((gate' = gate /\ gate.stage = "free") \/ gate' = OpenGate)
    BY <1>9 DEF CommitRefused, CommitFail, CommitFinish, GateFree
  <2>2. gate'.stage # "apply"
    BY <2>1 DEF OpenGate
  <2> QED
    BY <2>1, <2>2, OverUnique
<1>10. ASSUME NEW t \in Tx, CommitApply(t) PROVE Goal
  BY <1>10, ApplyUnique
<1>11. ASSUME NEW op \in DirectOps, DirectWrite(op) \/ DirectFail(op) PROVE Goal
  BY <1>11, DirectUnique
<1>12. ASSUME NEW tb \in DdlTables, DropTable(tb) \/ ReplaceSchema(tb) PROVE Goal
  BY <1>12, DdlUnique
<1>13. ASSUME Done \/ UNCHANGED vars PROVE Goal
  <2>1. UNCHANGED <<durable, heap, txs, gate, committer, recovery>>
    BY <1>13 DEF Done, vars
  <2>2. WorkLeft
    BY <2>1 DEF WorkLeft, SameWork
  <2> QED
    BY <2>1, <2>2, WorkUnique
<1> HIDE DEF Goal
<1>14. Goal
  BY <1>1, <1>2, <1>3, <1>4, <1>5, <1>6, <1>7, <1>8, <1>9, <1>10, <1>11, <1>12, <1>13 DEF Next
<1> QED
  BY <1>0, <1>14 DEF Goal, UniqueInv

LEMMA InitUnique ==
  ASSUME Init
  PROVE  UniqueInv
<1>1. \A t \in Tx : ~ Committing(t)
  BY TxAssumption DEF Init, Committing, NoCommitter
<1>2. gate.stage # "apply"
  BY DEF Init, OpenGate
<1> QED
  BY <1>1, <1>2, InitKeeps DEF UniqueInv, MergeUnique, GateUnique

LEMMA GatePasses ==
  ASSUME UniqueInv
  PROVE  CommitAccepted
<1>1. ASSUME gate.stage = "apply" PROVE ~ DuplicateId(gate.ops)
  <2>1. heap \in Heaps /\ gate.ops \in Seq(Operations)
    BY DEF UniqueInv, StateInv, HeapOK, CommitOK
  <2>2. InTurn(gate.ops) /\ EndsUnique(heap, gate.ops)
    BY <1>1 DEF UniqueInv, GateUnique
  <2> QED
    BY <2>1, <2>2, NoDuplicateId
<1> QED
  BY <1>1 DEF CommitAccepted

\* A commit that its session found valid (validateFinal) and whose token is
\* current passes validate_insert_ids: from the preview on, the heap and the
\* merged operations stay as they were checked, even though rollbacks prune
\* versions meanwhile, and merged_ops puts a table's deletes before its upserts.
THEOREM CommitsAccepted == Spec => []CommitAccepted
<1>1. Init => UniqueInv
  BY InitUnique
<1>2. UniqueInv /\ [Next]_vars => UniqueInv'
  BY StepUnique
<1>3. UniqueInv => CommitAccepted
  BY GatePasses
<1> QED
  BY <1>1, <1>2, <1>3, PTL DEF Spec

\* A write outside transactions.
DirectStep == \E op \in DirectOps : DirectWrite(op) \/ DirectFail(op)

LEMMA CommitRows ==
  ASSUME UniqueInv, UniqueRows, NEW t \in Tx, CommitApply(t) \/ CommitFail(t)
  PROVE  UniqueRows'
<1>1. gate.stage = "apply"
  BY DEF CommitApply, CommitFail
<1>2. \E n \in 0 .. Len(gate.ops) : heap' = HeapAfterAll(heap, SubSeq(gate.ops, 1, n))
  <2>1. gate.ops \in Seq(Operations)
    BY DEF UniqueInv, StateInv, CommitOK
  <2>2. Len(gate.ops) \in 0 .. Len(gate.ops) /\ SubSeq(gate.ops, 1, Len(gate.ops)) = gate.ops
    BY <2>1
  <2>3. CASE heap' = HeapAfterAll(heap, gate.ops)
    BY <2>2, <2>3
  <2> QED
    BY <2>3 DEF CommitApply, CommitFail, Publish
<1>3. heap \in Heaps /\ gate.ops \in Seq(Operations)
  BY DEF UniqueInv, StateInv, HeapOK, CommitOK
<1>4. InTurn(gate.ops) /\ EndsUnique(heap, gate.ops)
  BY <1>1 DEF UniqueInv, GateUnique
<1>5. PICK n \in 0 .. Len(gate.ops) : heap' = HeapAfterAll(heap, SubSeq(gate.ops, 1, n))
  BY <1>2
<1>6. \A tb \in Tables : RowsUnique(HeapAfterAll(heap, SubSeq(gate.ops, 1, n))[tb])
  BY <1>3, <1>4, PartUnique DEF UniqueRows
<1> QED
  BY <1>5, <1>6 DEF UniqueRows

LEMMA NoRowsUnique == RowsUnique(<< >>)
BY DEF RowsUnique

LEMMA OtherRows ==
  ASSUME UniqueInv, UniqueRows, [Next]_vars, ~ DirectStep
  PROVE  UniqueRows'
<1>1. ASSUME heap' = heap PROVE UniqueRows'
  BY <1>1 DEF UniqueRows
<1>2. ASSUME NEW t \in Tx, CommitApply(t) \/ CommitFail(t) PROVE UniqueRows'
  BY <1>2, CommitRows
<1>3. ASSUME NEW tb, DropTable(tb) PROVE UniqueRows'
  <2>1. heap' = [heap EXCEPT ![tb] = << >>] /\ heap \in Heaps
    BY <1>3 DEF DropTable, Publish, UniqueInv, StateInv, HeapOK
  <2>2. ASSUME NEW u \in Tables PROVE RowsUnique(heap'[u])
    <3>1. heap'[u] = << >> \/ heap'[u] = heap[u]
      BY <2>1 DEF Heaps
    <3> QED
      BY <3>1, NoRowsUnique DEF UniqueRows
  <2> QED
    BY <2>2 DEF UniqueRows
<1>4. ASSUME NEW tb, ReplaceSchema(tb) PROVE heap' = heap
  BY <1>4 DEF ReplaceSchema, Publish
<1>5. ASSUME NEW t \in Tx,
             \/ \E s \in BOOLEAN : Begin(t, s)
             \/ \E ops \in Plans, reads \in ReadSets : Lock(t, ops, reads)
             \/ Wake(t) \/ Timeout(t) \/ FailLock(t) \/ Rollback(t)
             \/ Preview(t) \/ CommitStart(t) \/ CommitRefused(t) \/ CommitFinish(t)
      PROVE  heap' = heap
  BY <1>5 DEF Begin, Lock, Wake, Timeout, FailLock, Rollback, Preview, CommitStart,
              CommitRefused, CommitFinish
<1>6. ASSUME Done \/ UNCHANGED vars PROVE heap' = heap
  BY <1>6 DEF Done, vars
<1> QED
  BY <1>1, <1>2, <1>3, <1>4, <1>5, <1>6 DEF Next, DirectStep

\* Transactions never break a primary key or a unique column, as long as the
\* writes outside transactions, whose rows the engine checks itself
\* (enforceConstraints), do not: a commit leaves every table as its session
\* checked it, a commit that fails halfway leaves deletes without their
\* inserts and never an insert without its deletes.
THEOREM RowsStayUnique ==
  ASSUME \A tb \in Tables : RowsUnique(InitRows[tb])
  PROVE  Spec /\ [][DirectStep => UniqueRows']_vars => []UniqueRows
<1> DEFINE Inv == UniqueInv /\ UniqueRows
<1>1. Init => Inv
  BY InitUnique DEF Init, UniqueRows
<1>2. Inv /\ [Next]_vars /\ [DirectStep => UniqueRows']_vars => Inv'
  <2> SUFFICES ASSUME Inv, [Next]_vars, [DirectStep => UniqueRows']_vars
               PROVE  Inv'
    OBVIOUS
  <2>1. UniqueInv'
    BY StepUnique
  <2>2. CASE UNCHANGED vars
    BY <2>1, <2>2 DEF vars, UniqueRows
  <2>3. CASE ~ UNCHANGED vars /\ DirectStep
    BY <2>1, <2>3
  <2>4. CASE ~ DirectStep
    BY <2>1, <2>4, OtherRows
  <2> QED
    BY <2>2, <2>3, <2>4
<1> HIDE DEF Inv
<1>3. Inv => UniqueRows
  BY DEF Inv
<1> QED
  BY <1>1, <1>2, <1>3, PTL DEF Spec

LEMMA EditUnique ==
  ASSUME UniqueRows, heap \in Heaps, NEW op \in Operations, RowsUnique(EditRows(heap[op.table], op)),
         heap' = heap \/ heap' = HeapAfter(heap, op)
  PROVE  UniqueRows'
<1>1. CASE heap' = heap
  BY <1>1 DEF UniqueRows
<1>2. CASE heap' = HeapAfter(heap, op)
  <2>1. ASSUME NEW tb \in Tables PROVE RowsUnique(heap'[tb])
    <3>1. CASE tb = op.table
      <4>1. heap'[tb] = EditRows(heap[op.table], op)
        BY <1>2, <3>1 DEF HeapAfter, Heaps
      <4> QED
        BY <4>1
    <3>2. CASE tb # op.table
      <4>1. heap'[tb] = heap[tb]
        BY <1>2, <3>2, HeapAfterType
      <4> QED
        BY <4>1 DEF UniqueRows
    <3> QED
      BY <3>1, <3>2
  <2> QED
    BY <2>1 DEF UniqueRows
<1> QED
  BY <1>1, <1>2

\* Direct upserts and deletes keep primary keys unique by the storage layer's
\* own check.
LEMMA DirectRows ==
  ASSUME UniqueInv, UniqueRows, ~ ValUnique, NEW op \in DirectOps,
         op.kind = "replace" => RowsUnique(op.rows),
         DirectWrite(op) \/ DirectFail(op)
  PROVE  UniqueRows'
<1>1. /\ op \in Operations /\ op.table \in Tables /\ heap \in Heaps
      /\ heap[op.table] \in Seq(Rows) /\ op.rows \in Seq(Rows)
  BY RowsAssumption DEF Operations, UniqueInv, StateInv, HeapOK, Heaps
<1>2. heap' = heap \/ heap' = HeapAfter(heap, op)
  BY DEF DirectWrite, DirectFail, Publish
<1>3. ~ DuplicateId(<<op>>)
  BY DEF DirectWrite, DirectFail
<1> DEFINE rows == heap[op.table]
           all  == rows \o op.rows
<1>4. RowsUnique(rows)
  BY <1>1 DEF UniqueRows
<1>5. CASE op.kind = "upsert"
  <2>1. HeapAfterAll(heap, SubSeq(<<op>>, 1, 0)) = heap
    <3>1. <<op>> \in Seq(Operations) /\ 0 \in 0 .. Len(<<op>>)
      BY <1>1
    <3>2. PICK g : Applied(g, heap, <<op>>)
      BY <1>1, <3>1, AppliedExists
    <3> QED
      BY <3>1, <3>2 DEF Applied
  <2>2. ~ \E p, q \in DOMAIN all : /\ p < q /\ q > Len(rows)
                                   /\ all[p].id = all[q].id /\ all[p].id # NoId
    <3>1. 1 \in DOMAIN <<op>> /\ <<op>>[1] = op /\ 1 - 1 = 0
      OBVIOUS
    <3> QED
      BY <1>3, <1>5, <2>1, <3>1 DEF DuplicateId
  <2>3. /\ DOMAIN all = 1 .. Len(all) /\ Len(rows) \in Nat /\ Len(all) \in Nat
        /\ \A i \in DOMAIN all : i <= Len(rows) => i \in DOMAIN rows /\ all[i] = rows[i]
    <3>1. ASSUME NEW x \in Seq(Rows), NEW y \in Seq(Rows)
          PROVE  /\ DOMAIN (x \o y) = 1 .. Len(x \o y) /\ Len(x) \in Nat /\ Len(x \o y) \in Nat
                 /\ \A i \in DOMAIN (x \o y) : i <= Len(x) => i \in DOMAIN x /\ (x \o y)[i] = x[i]
      OBVIOUS
    <3> QED
      BY <1>1, <3>1
  <2> HIDE DEF all, rows
  <2>4. ASSUME NEW i \in DOMAIN all, NEW j \in DOMAIN all, i < j, all[i].id # NoId
        PROVE  all[i].id # all[j].id
    <3>1. CASE j > Len(rows)
      BY <2>2, <2>4, <3>1
    <3>2. CASE ~ (j > Len(rows))
      <4>1. i <= Len(rows) /\ j <= Len(rows) /\ i # j
        BY <2>3, <2>4, <3>2
      <4>2. i \in DOMAIN rows /\ j \in DOMAIN rows /\ all[i] = rows[i] /\ all[j] = rows[j]
        BY <2>3, <4>1
      <4> QED
        BY <1>4, <2>4, <4>1, <4>2 DEF RowsUnique
    <3> QED
      BY <3>1, <3>2
  <2>5. ASSUME NEW i \in DOMAIN all, NEW j \in DOMAIN all, i # j
        PROVE  all[i].id = NoId \/ all[i].id # all[j].id
    <3>1. i < j \/ j < i
      BY <2>3, <2>5
    <3> QED
      BY <2>4, <3>1
  <2>6. RowsUnique(all)
    BY <2>5 DEF RowsUnique
  <2>7. EditRows(rows, op) = all
    BY <1>5 DEF EditRows, all
  <2> QED
    BY <2>6, <2>7, <1>1, <1>2, EditUnique DEF rows
<1>6. CASE op.kind = "delete"
  <2>1. RowsUnique(EditRows(rows, op))
    BY <1>1, <1>4, <1>6, DeleteUnique
  <2> QED
    BY <1>1, <1>2, <2>1, EditUnique
<1>7. CASE op.kind = "replace"
  <2>1. RowsUnique(EditRows(rows, op))
    BY <1>7 DEF EditRows
  <2> QED
    BY <1>1, <1>2, <2>1, EditUnique
<1> QED
  BY <1>1, <1>5, <1>6, <1>7 DEF Operations

\* Without a unique column the storage layer's own key check is enough: rows
\* stay unique under transactions and direct upserts and deletes, when only
\* whole-table replacements come with rows that are unique among themselves.
THEOREM KeysStayUnique ==
  ASSUME ~ ValUnique, \A tb \in Tables : RowsUnique(InitRows[tb]),
         \A op \in DirectOps : op.kind = "replace" => RowsUnique(op.rows)
  PROVE  Spec => []UniqueRows
<1> DEFINE Inv == UniqueInv /\ UniqueRows
<1>1. Init => Inv
  BY InitUnique DEF Init, UniqueRows
<1>2. Inv /\ [Next]_vars => Inv'
  <2> SUFFICES ASSUME Inv, [Next]_vars PROVE Inv'
    OBVIOUS
  <2>1. UniqueInv'
    BY StepUnique
  <2>2. CASE DirectStep
    BY <2>1, <2>2, DirectRows DEF DirectStep
  <2>3. CASE ~ DirectStep
    BY <2>1, <2>3, OtherRows
  <2> QED
    BY <2>2, <2>3
<1> HIDE DEF Inv
<1>3. Inv => UniqueRows
  BY DEF Inv
<1> QED
  BY <1>1, <1>2, <1>3, PTL DEF Spec

(***************************************************************************)
(* A plan depends only on what its reader sees.                            *)
(***************************************************************************)

\* The rows a plan removes or alters.
Touched(h, snapshot, ops) ==
    LET plan == PlanTable(h, snapshot, ops)
    IN  (plan.removed \cup {plan.wanted[i].id : i \in Altered(h, snapshot, plan)}) \ {0}

LEMMA SameEntries ==
  ASSUME NEW g, NEW to \in Nat, NEW m \in Nat, HistoryOK(g, to, m),
         NEW h, NEW at \in Nat, NEW n \in Nat, HistoryOK(h, at, n),
         NEW c \in Nat, LooksLike(g, c, h, c)
  PROVE  /\ DOMAIN Visible(g, c) = DOMAIN Visible(h, c)
         /\ RowsOf(Visible(g, c)) = RowsOf(Visible(h, c))
         /\ \A p \in DOMAIN Visible(h, c) :
               /\ Visible(g, c)[p].id = Visible(h, c)[p].id
               /\ Visible(g, c)[p].version.row = Visible(h, c)[p].version.row
         /\ VisibleIds(g, c) = VisibleIds(h, c)
         /\ \A r \in VisibleIds(h, c) : RowOf(g, c, r) = RowOf(h, c, r)
<1> DEFINE a == Visible(g, c)
           b == Visible(h, c)
<1>1. VisibleInOrder(g, c) = VisibleInOrder(h, c)
  BY SameOrder
<1>2. /\ VisibleIds(g, c) = VisibleIds(h, c)
      /\ \A r \in VisibleIds(h, c) : VersionAt(g.rows[r], c).row = VersionAt(h.rows[r], c).row
  BY DEF LooksLike
<1>3. /\ DOMAIN a = 1 .. Len(VisibleInOrder(g, c))
      /\ \A p \in DOMAIN a : /\ a[p].id = VisibleInOrder(g, c)[p]
                             /\ a[p].version = VersionAt(g.rows[a[p].id], c)
  BY VisibleEntries
<1>4. /\ DOMAIN b = 1 .. Len(VisibleInOrder(h, c))
      /\ \A p \in DOMAIN b : /\ b[p].id = VisibleInOrder(h, c)[p]
                             /\ b[p].id \in VisibleIds(h, c)
                             /\ b[p].version = VersionAt(h.rows[b[p].id], c)
  BY VisibleEntries
<1> HIDE DEF a, b
<1>5. DOMAIN a = DOMAIN b
  BY <1>1, <1>3, <1>4
<1>6. \A p \in DOMAIN b : a[p].id = b[p].id /\ a[p].version.row = b[p].version.row
  BY <1>1, <1>2, <1>3, <1>4, <1>5
<1>7. RowsOf(a) = RowsOf(b)
  BY <1>5, <1>6 DEF RowsOf
<1> QED
  BY <1>2, <1>5, <1>6, <1>7 DEF a, b, RowOf

\* The entries an unmatched row without a key may continue, the rows that may
\* continue one, and the row number an incoming row gets.
Spare(old, match) ==
    Ascending({p \in DOMAIN old : MatchedBy(match, p) = 0 /\ old[p].version.row.id = NoId})
Needy(final, match) == Ascending({i \in DOMAIN final : match[i] = 0 /\ final[i].id = NoId})
Lent(final, match, i) == SelectInSeq(Needy(final, match), LAMBDA j : j = i)
RowId(old, final, match, i) ==
    IF match[i] # 0 THEN old[match[i]].id
    ELSE IF Lent(final, match, i) \in DOMAIN Spare(old, match)
    THEN old[Spare(old, match)[Lent(final, match, i)]].id ELSE 0

LEMMA PlanOverIs ==
  ASSUME NEW old, NEW final, NEW match
  PROVE  PlanOver(old, final, match) =
           [wanted  |-> [i \in DOMAIN final |->
                           [id |-> RowId(old, final, match, i), row |-> final[i]]],
            removed |-> {old[p].id : p \in DOMAIN old}
                           \ {RowId(old, final, match, i) : i \in DOMAIN final}]
BY DEF PlanOver, RowId, Lent, Spare, Needy

LEMMA SparesIn ==
  ASSUME NEW old, NEW len \in Nat, DOMAIN old = 1 .. len, NEW match
  PROVE  LET S == {p \in DOMAIN old : MatchedBy(match, p) = 0 /\ old[p].version.row.id = NoId}
         IN  /\ S \in SUBSET Int /\ IsFiniteSet(S)
             /\ Spare(old, match) \in Seq(S)
             /\ \A k \in DOMAIN Spare(old, match) : Spare(old, match)[k] \in S
<1> DEFINE S == {p \in DOMAIN old : MatchedBy(match, p) = 0 /\ old[p].version.row.id = NoId}
<1>1. S \in SUBSET Nat /\ \A x \in S : x <= len
  OBVIOUS
<1>2. Spare(old, match) = Ascending(S)
  BY DEF Spare
<1> HIDE DEF S
<1>3. IsFiniteSet(S) /\ S \in SUBSET Int
  BY <1>1, FS_BoundedSetOfNaturals
<1>4. Ascending(S) \in Seq(S)
  BY <1>3, AscendingIs
<1>5. Spare(old, match) \in Seq(S) /\ \A k \in DOMAIN Spare(old, match) : Spare(old, match)[k] \in S
  BY <1>2, <1>4
<1> QED
  BY <1>3, <1>5 DEF S

LEMMA SamePlanOver ==
  ASSUME NEW a, NEW b, DOMAIN a = DOMAIN b,
         \A p \in DOMAIN b : a[p].id = b[p].id /\ a[p].version.row = b[p].version.row,
         NEW final, NEW match, NEW len \in Nat, DOMAIN b = 1 .. len,
         \A i \in DOMAIN final : match[i] = 0 \/ match[i] \in DOMAIN b
  PROVE  PlanOver(a, final, match) = PlanOver(b, final, match)
<1>1. Spare(a, match) = Spare(b, match)
  <2>1. {p \in DOMAIN a : MatchedBy(match, p) = 0 /\ a[p].version.row.id = NoId}
           = {p \in DOMAIN b : MatchedBy(match, p) = 0 /\ b[p].version.row.id = NoId}
    OBVIOUS
  <2> QED
    BY <2>1 DEF Spare
<1>2. \A k \in DOMAIN Spare(b, match) : Spare(b, match)[k] \in DOMAIN b
  BY SparesIn
<1>3. \A i \in DOMAIN final : RowId(a, final, match, i) = RowId(b, final, match, i)
  BY <1>1, <1>2 DEF RowId
<1>4. {a[p].id : p \in DOMAIN a} = {b[p].id : p \in DOMAIN b}
  OBVIOUS
<1>5. {RowId(a, final, match, i) : i \in DOMAIN final} = {RowId(b, final, match, i) : i \in DOMAIN final}
  BY <1>3
<1>6. [i \in DOMAIN final |-> [id |-> RowId(a, final, match, i), row |-> final[i]]]
        = [i \in DOMAIN final |-> [id |-> RowId(b, final, match, i), row |-> final[i]]]
  BY <1>3
<1> QED
  BY <1>4, <1>5, <1>6, PlanOverIs

\* What a transaction touches is settled by what it sees.
LEMMA SameTouched ==
  ASSUME NEW g, NEW to \in Nat, NEW m \in Nat, HistoryOK(g, to, m),
         NEW h, NEW at \in Nat, NEW n \in Nat, HistoryOK(h, at, n),
         NEW c \in Nat, LooksLike(g, c, h, c), NEW ops \in Seq(Operations)
  PROVE  Touched(g, c, ops) = Touched(h, c, ops)
<1>0. /\ DOMAIN Visible(g, c) = DOMAIN Visible(h, c)
      /\ RowsOf(Visible(g, c)) = RowsOf(Visible(h, c))
      /\ \A p \in DOMAIN Visible(h, c) :
            /\ Visible(g, c)[p].id = Visible(h, c)[p].id
            /\ Visible(g, c)[p].version.row = Visible(h, c)[p].version.row
      /\ VisibleIds(g, c) = VisibleIds(h, c)
      /\ \A r \in VisibleIds(h, c) : RowOf(g, c, r) = RowOf(h, c, r)
  BY SameEntries
<1> DEFINE a == Visible(g, c)
           b == Visible(h, c)
           final == EditAll(RowsOf(b), ops)
           match == MatchRows(RowsOf(b), final)
<1>1. /\ DOMAIN a = DOMAIN b /\ RowsOf(a) = RowsOf(b)
      /\ \A p \in DOMAIN b : a[p].id = b[p].id /\ a[p].version.row = b[p].version.row
      /\ \A r \in VisibleIds(h, c) : RowOf(g, c, r) = RowOf(h, c, r)
  BY <1>0
<1>2. PlanTable(g, c, ops) = PlanOver(a, final, match) /\ PlanTable(h, c, ops) = PlanOver(b, final, match)
  BY <1>1 DEF PlanTable
<1>3. RowsOf(b) \in Seq(Rows) /\ DOMAIN RowsOf(b) = DOMAIN b
  BY VisibleRowsType DEF VisibleRows
<1>4. DOMAIN b = 1 .. Len(VisibleInOrder(h, c)) /\ Len(VisibleInOrder(h, c)) \in Nat
  BY VisibleEntries
<1>5. final \in Seq(Rows)
  BY <1>3, EditAllType
<1>6. Matching(match, RowsOf(b), Len(final))
  <2> HIDE DEF final
  <2> QED
    BY <1>3, <1>5, MatchRowsIs
<1> HIDE DEF final, match
<1>7. \A i \in DOMAIN final : match[i] = 0 \/ match[i] \in DOMAIN b
  BY <1>3, <1>5, <1>6 DEF Matching
<1> DEFINE len == Len(VisibleInOrder(h, c))
<1> HIDE DEF a, b, len
<1>8. PlanTable(g, c, ops) = PlanTable(h, c, ops)
  <2>1. DOMAIN b = 1 .. len /\ len \in Nat
    BY <1>4 DEF len
  <2>2. PlanOver(a, final, match) = PlanOver(b, final, match)
    BY <1>1, <1>7, <2>1, SamePlanOver
  <2> QED
    BY <1>2, <2>2
<1> DEFINE plan == PlanTable(h, c, ops)
<1>9. PlanOK(plan, h, c)
  BY PlanTableIs
<1> HIDE DEF plan
<1>10. Altered(g, c, plan) = Altered(h, c, plan)
  BY <1>1, <1>9 DEF Altered, PlanOK
<1> QED
  BY <1>8, <1>10 DEF Touched, plan

(***************************************************************************)
(* What the locks of a transaction cover.                                  *)
(***************************************************************************)

\* The keys have every row the operations touch.
Covers(tables, snapshot, ops, keys) ==
    \A tb \in TablesOf(ops) \cap DOMAIN tables :
        \A r \in Touched(tables[tb], snapshot, OpsOn(ops, tb)) : RowKey(tb, r) \in keys

\* A transaction has locked what its plan touches, and a sleeping request wants
\* what its own operations touch.
HeldFor(t) ==
    /\ txs[t].status = "active" =>
          /\ Covers(durable.tables, txs[t].snapshot, txs[t].plan, txs[t].held)
          /\ req[t].pc = "asleep" =>
                Covers(durable.tables, txs[t].snapshot, req[t].ops, req[t].wanted)
    /\ txs[t].status = "none" => req[t].pc # "asleep"

HeldOK == \A t \in Tx : HeldFor(t)

HeldInv == SerialInv /\ HeldOK

LEMMA CoversMore ==
  ASSUME NEW tables, NEW snapshot, NEW ops, NEW a, NEW b, Covers(tables, snapshot, ops, a),
         a \subseteq b
  PROVE  Covers(tables, snapshot, ops, b)
BY DEF Covers

LEMMA WantedCovers ==
  ASSUME NEW t, NEW ops
  PROVE  Covers(durable.tables, txs[t].snapshot, ops, Wanted(t, ops))
<1> DEFINE h(tb) == durable.tables[tb]
           plan(tb) == PlanTable(h(tb), txs[t].snapshot, OpsOn(ops, tb))
           altered(tb) == Altered(h(tb), txs[t].snapshot, plan(tb))
           touched(tb) == (plan(tb).removed \cup {plan(tb).wanted[i].id : i \in altered(tb)}) \ {0}
           rows(tb) == {RowOf(h(tb), txs[t].snapshot, r) : r \in touched(tb)}
                       \cup {plan(tb).wanted[i].row : i \in altered(tb)}
           keys(tb) == {TableKey(tb)} \cup {RowKey(tb, r) : r \in touched(tb)}
                       \cup UNION {UniqueKeys(tb, row) : row \in rows(tb)}
<1>1. Wanted(t, ops) = UNION {keys(tb) : tb \in TablesOf(ops)}
  BY DEF Wanted
<1>2. \A tb : Touched(durable.tables[tb], txs[t].snapshot, OpsOn(ops, tb)) = touched(tb)
  BY DEF Touched
<1> HIDE DEF touched, rows
<1>3. \A tb : \A r \in touched(tb) : RowKey(tb, r) \in keys(tb)
  OBVIOUS
<1> HIDE DEF keys
<1> QED
  BY <1>1, <1>2, <1>3 DEF Covers

\* What one turn of the acquisition loop does to the plan.
LoopWorks(t, ops, W) ==
    \/ txs'[t].status # "active"
    \/ /\ txs'[t].plan = txs[t].plan /\ txs[t].held \subseteq txs'[t].held
       /\ req'[t].pc = "asleep" => req'[t].ops = ops /\ req'[t].wanted = W
    \/ txs'[t].plan = ops /\ W \subseteq txs'[t].held /\ req'[t].pc # "asleep"

LEMMA LoopWorksIs ==
  ASSUME txs \in TxMaps, req \in ReqMaps, NEW t \in Tx, NEW T \in TxMaps,
         T[t].status = "active", T[t].snapshot = txs[t].snapshot, T[t].plan = txs[t].plan,
         T[t].held = txs[t].held,
         \A o \in Tx \ {t} : T[o] = txs[o],
         NEW ops \in Plans \cup {<< >>}, NEW W \in SUBSET LockKeys, NEW expired \in BOOLEAN,
         LockLoop(T, t, ops, W, expired)
  PROVE  LoopWorks(t, ops, W)
<1> DEFINE stops == Obstacles(t, W)
           stop  == First(stops)
           before == Before(W, stops)
           owners  == IF stops = {} THEN {} ELSE Blockers(t, stop)
           blocked == [Take(T, t, before) EXCEPT ![t].waiting = owners]
           give_up == OnCycle(blocked, t) \/ expired
           Return(M, pc) == /\ txs' = M
                            /\ req' = [req EXCEPT ![t] = [IdleReq EXCEPT !.pc = pc]]
           r == [pc |-> "asleep", ops |-> ops, wanted |-> W, notified |-> FALSE]
           Kept(M) == M[t].plan = T[t].plan /\ T[t].held \subseteq M[t].held
<1>1. /\ stops \in SUBSET W /\ stops \in SUBSET LockKeys
      /\ before \in SUBSET W /\ before \in SUBSET LockKeys
      /\ owners \in SUBSET Tx
      /\ stops # {} => stop \in stops
  <2>1. stops \in SUBSET W
    BY DEF Obstacles
  <2>2. before \in SUBSET W
    BY BeforeFree
  <2>3. owners \in SUBSET Tx
    BY DEF Blockers
  <2>4. stops # {} => stop \in stops
    <3>1. stops \in SUBSET LockKeys
      BY <2>1
    <3> HIDE DEF stops
    <3> QED
      BY <3>1, FirstIs
  <2> QED
    BY <2>1, <2>2, <2>3, <2>4
<1>2. \/ /\ \E k \in txs[t].held : Stale(t, k)
         /\ Return(T, "failed")
      \/ stops = {} /\ Return([Take(T, t, W) EXCEPT ![t].plan = ops], "idle")
      \/ /\ stops # {} /\ owners = {}
         /\ Return(Take(T, t, before \cup {stop}), "failed")
      \/ /\ owners # {} /\ give_up
         /\ txs' = Abort(blocked, t)
         /\ req' = Notify([req EXCEPT ![t] = IdleReq])
      \/ /\ owners # {} /\ ~ give_up
         /\ txs' = blocked
         /\ req' = [req EXCEPT ![t] = r]
  BY DEF LockLoop
<1>3. ASSUME NEW got \in SUBSET LockKeys
      PROVE  Take(T, t, got) \in TxMaps /\ Kept(Take(T, t, got)) /\ got \subseteq Take(T, t, got)[t].held
  <2> DEFINE M == Take(T, t, got)
  <2>1. M = [M EXCEPT ![t].waiting = {}] /\ {} \in SUBSET Tx
    BY TakeClears
  <2>2. Taken(M, T, t, got, {})
    <3> HIDE DEF M
    <3>1. M = [Take(T, t, got) EXCEPT ![t].waiting = {}]
      BY <2>1 DEF M
    <3> QED
      BY <2>1, <3>1, TakeIs
  <2> HIDE DEF M
  <2>3. M \in TxMaps /\ SameWork(M[t], T[t]) /\ M[t].held = T[t].held \cup got
    BY <2>2 DEF Taken
  <2>4. Kept(M) /\ got \subseteq M[t].held
    BY <2>3 DEF SameWork
  <2> QED
    BY <2>3, <2>4 DEF M
<1>4. blocked \in TxMaps /\ Kept(blocked) /\ blocked[t].status = "active" /\ \A o \in Tx \ {t} : blocked[o] = T[o]
  <2>1. Taken(blocked, T, t, before, owners)
    <3>1. blocked = [Take(T, t, before) EXCEPT ![t].waiting = owners]
      OBVIOUS
    <3> HIDE DEF blocked, before, owners
    <3> QED
      BY <1>1, <3>1, TakeIs
  <2> HIDE DEF blocked
  <2> QED
    BY <2>1 DEF Taken, SameWork
<1> HIDE DEF stops, stop, before, owners, blocked
<1>5. CASE Return(T, "failed")
  <2>1. RequestEnds(t, "failed") /\ txs' = T
    BY <1>5, ReturnIs
  <2> QED
    BY <2>1 DEF RequestEnds, LoopWorks
<1>6. CASE Return([Take(T, t, W) EXCEPT ![t].plan = ops], "idle")
  <2> DEFINE M == Take(T, t, W)
  <2>1. RequestEnds(t, "idle") /\ txs' = [M EXCEPT ![t].plan = ops]
    BY <1>6, ReturnIs
  <2>2. M \in TxMaps /\ W \subseteq M[t].held
    BY <1>3
  <2> HIDE DEF M
  <2>3. txs'[t].plan = ops /\ txs'[t].held = M[t].held
    BY <2>1, <2>2 DEF TxMaps, Transactions
  <2> QED
    BY <2>1, <2>2, <2>3 DEF RequestEnds, LoopWorks
<1>7. CASE stops # {} /\ Return(Take(T, t, before \cup {stop}), "failed")
  <2> DEFINE got == before \cup {stop}
  <2>1. RequestEnds(t, "failed") /\ txs' = Take(T, t, got)
    BY <1>7, ReturnIs
  <2>2. got \in SUBSET LockKeys
    BY <1>1, <1>7
  <2> HIDE DEF got
  <2>3. Kept(Take(T, t, got))
    BY <1>3, <2>2
  <2>4. txs'[t].plan = txs[t].plan /\ txs[t].held \subseteq txs'[t].held /\ req'[t].pc = "failed"
    BY <2>1, <2>3 DEF RequestEnds
  <2> QED
    BY <2>4 DEF LoopWorks
<1>8. CASE txs' = Abort(blocked, t)
  <2>1. Aborts(txs', blocked, t)
    BY <1>4, <1>8, AbortIs
  <2>2. txs'[t].status = "aborted"
    BY <1>4, <2>1 DEF Aborts
  <2> QED
    BY <2>2 DEF LoopWorks
<1>9. CASE txs' = blocked /\ req' = [req EXCEPT ![t] = r]
  <2>1. req'[t] = r
    BY <1>9 DEF ReqMaps
  <2> QED
    BY <1>4, <1>9, <2>1 DEF LoopWorks
<1> QED
  BY <1>2, <1>5, <1>6, <1>7, <1>8, <1>9

(***************************************************************************)
(* Locks go on covering the plans.                                         *)
(***************************************************************************)

\* The transaction keeps its plan, its locks and the request it sleeps in.
WorkHeld(t) ==
    /\ txs'[t].status = "active" =>
          /\ txs[t].status = "active" /\ txs'[t].snapshot = txs[t].snapshot
          /\ txs'[t].plan = txs[t].plan /\ txs[t].held \subseteq txs'[t].held
          /\ req'[t].pc = "asleep" =>
                req[t].pc = "asleep" /\ req'[t].ops = req[t].ops /\ req'[t].wanted = req[t].wanted
    /\ txs'[t].status = "none" =>
          txs[t].status = "none" /\ (req'[t].pc = "asleep" => req[t].pc = "asleep")

\* A reader at s sees what it saw.
SightKept(s) ==
    /\ DOMAIN durable'.tables \subseteq DOMAIN durable.tables
    /\ SameSight(durable'.tables, durable.tables, s)

LEMMA SightSelf ==
  ASSUME NEW s, durable' = durable
  PROVE  SightKept(s)
BY DEF SightKept, SameSight, LooksLike

LEMMA CoversKept ==
  ASSUME StateInv, StateInv', NEW s \in Nat, SightKept(s), NEW ops \in Seq(Operations), NEW keys,
         Covers(durable.tables, s, ops, keys)
  PROVE  Covers(durable'.tables, s, ops, keys)
<1> DEFINE H == durable.tables
           G == durable'.tables
<1>1. /\ TablesOK(H, durable.csn, durable.next_row) /\ durable.csn \in Nat /\ durable.next_row \in Nat
      /\ TablesOK(G, durable'.csn, durable'.next_row)
      /\ durable'.csn \in Nat /\ durable'.next_row \in Nat
  BY MaxCsnAssumption DEF StateInv, DurableOK
<1>2. ASSUME NEW tb \in TablesOf(ops) \cap DOMAIN G, NEW r \in Touched(G[tb], s, OpsOn(ops, tb))
      PROVE  RowKey(tb, r) \in keys
  <2>1. tb \in DOMAIN H /\ LooksLike(G[tb], s, H[tb], s)
    BY <1>2 DEF SightKept, SameSight
  <2>2. /\ HistoryOK(H[tb], durable.csn, durable.next_row)
        /\ HistoryOK(G[tb], durable'.csn, durable'.next_row)
    BY <1>1, <1>2, <2>1 DEF TablesOK
  <2>3. OpsOn(ops, tb) \in Seq(Operations)
    BY OperationsOf
  <2>4. Touched(G[tb], s, OpsOn(ops, tb)) = Touched(H[tb], s, OpsOn(ops, tb))
    BY <1>1, <2>1, <2>2, <2>3, SameTouched
  <2> QED
    BY <1>2, <2>1, <2>4 DEF Covers
<1> QED
  BY <1>2 DEF Covers

LEMMA WorkOf ==
  ASSUME StateInv, NEW t \in Tx
  PROVE  /\ txs[t].snapshot \in Nat /\ txs[t].snapshot <= durable.csn
         /\ txs[t].plan \in Seq(Operations) /\ req[t].ops \in Seq(Operations)
         /\ req[t].ops \in Plans \cup {<< >>} /\ req[t].wanted \in SUBSET LockKeys
<1>1. txs[t] \in Transactions /\ req[t] \in Requests
  BY DEF StateInv, LocksOK, TxMaps, ReqMaps
<1>2. txs[t].plan \in Seq(Operations) /\ txs[t].snapshot \in Nat
  BY <1>1, TxFields
<1>3. req[t].ops \in Plans \cup {<< >>} /\ req[t].wanted \in SUBSET LockKeys
  BY <1>1, ReqFields
<1>4. << >> \in Seq(Operations)
  OBVIOUS
<1> QED
  BY <1>2, <1>3, <1>4, RowsAssumption DEF StateInv, SnapshotsOK

LEMMA HeldKept ==
  ASSUME StateInv, StateInv', NEW t \in Tx, HeldFor(t), WorkHeld(t),
         txs'[t].status = "active" => SightKept(txs[t].snapshot)
  PROVE  HeldFor(t)'
<1> SUFFICES ASSUME txs'[t].status = "active"
             PROVE  /\ Covers(durable'.tables, txs'[t].snapshot, txs'[t].plan, txs'[t].held)
                    /\ req'[t].pc = "asleep" =>
                          Covers(durable'.tables, txs'[t].snapshot, req'[t].ops, req'[t].wanted)
  BY DEF HeldFor, WorkHeld
<1> DEFINE s == txs[t].snapshot
<1>1. /\ txs[t].status = "active" /\ txs'[t].snapshot = s
      /\ txs'[t].plan = txs[t].plan /\ txs[t].held \subseteq txs'[t].held
      /\ req'[t].pc = "asleep" =>
            req[t].pc = "asleep" /\ req'[t].ops = req[t].ops /\ req'[t].wanted = req[t].wanted
  BY DEF WorkHeld
<1>2. s \in Nat /\ txs[t].plan \in Seq(Operations) /\ req[t].ops \in Seq(Operations) /\ SightKept(s)
  BY WorkOf
<1>3. Covers(durable'.tables, s, txs[t].plan, txs[t].held)
  BY <1>1, <1>2, CoversKept DEF HeldFor
<1>4. Covers(durable'.tables, s, txs'[t].plan, txs'[t].held)
  BY <1>1, <1>3, CoversMore
<1>5. ASSUME req'[t].pc = "asleep" PROVE Covers(durable'.tables, s, req'[t].ops, req'[t].wanted)
  BY <1>1, <1>2, <1>5, CoversKept DEF HeldFor
<1> QED
  BY <1>1, <1>4, <1>5

\* Steps that leave the published versions alone.
LEMMA HeldSame ==
  ASSUME HeldInv, StateInv', durable' = durable, \A t \in Tx : WorkHeld(t)
  PROVE  HeldOK'
<1>1. ASSUME NEW t \in Tx PROVE HeldFor(t)'
  BY SightSelf, HeldKept DEF HeldInv, SerialInv, HeldOK
<1> QED
  BY <1>1 DEF HeldOK

\* A request gets the locks of its operations before it stages them.
LEMMA LoopHeld ==
  ASSUME HeldInv, StateInv', NEW t \in Tx, txs[t].status = "active",
         NEW ops, NEW W, LoopDone(t, W), LoopWorks(t, ops, W),
         Covers(durable.tables, txs[t].snapshot, ops, W), UNCHANGED Others
  PROVE  HeldOK'
<1>1. durable' = durable
  BY DEF Others
<1>2. ASSUME NEW o \in Tx, o # t PROVE WorkHeld(o)
  <2>1. CASE OthersKept(t)
    BY <1>2, <2>1 DEF OthersKept, WorkHeld
  <2>2. CASE Aborted(t)
    BY <1>2, <2>2 DEF Aborted, SameWork, WorkHeld
  <2> QED
    BY <2>1, <2>2 DEF LoopDone, Granted, Refused, Slept, GaveUp
<1>3. HeldFor(t)'
  <2> SUFFICES ASSUME txs'[t].status = "active"
               PROVE  /\ Covers(durable.tables, txs'[t].snapshot, txs'[t].plan, txs'[t].held)
                      /\ req'[t].pc = "asleep" =>
                            Covers(durable.tables, txs'[t].snapshot, req'[t].ops, req'[t].wanted)
    <3>1. txs'[t].status # "none"
      BY DEF LoopDone, Granted, Refused, Slept, GaveUp, StillActive
    <3> QED
      BY <1>1, <3>1 DEF HeldFor
  <2>1. txs'[t].snapshot = txs[t].snapshot
    BY DEF LoopDone, Granted, Refused, Slept, GaveUp, StillActive
  <2>2. Covers(durable.tables, txs[t].snapshot, txs[t].plan, txs[t].held)
    BY DEF HeldInv, HeldOK, HeldFor
  <2>3. CASE /\ txs'[t].plan = txs[t].plan /\ txs[t].held \subseteq txs'[t].held
             /\ req'[t].pc = "asleep" => req'[t].ops = ops /\ req'[t].wanted = W
    BY <2>1, <2>2, <2>3, CoversMore
  <2>4. CASE txs'[t].plan = ops /\ W \subseteq txs'[t].held /\ req'[t].pc # "asleep"
    BY <2>1, <2>4, CoversMore
  <2> QED
    BY <2>3, <2>4 DEF LoopWorks
<1>4. ASSUME NEW o \in Tx PROVE HeldFor(o)'
  <2>1. CASE o = t
    BY <1>3, <2>1
  <2>2. CASE o # t
    BY <1>1, <1>2, <2>2, SightSelf, HeldKept DEF HeldInv, SerialInv, HeldOK
  <2> QED
    BY <2>1, <2>2
<1> QED
  BY <1>4 DEF HeldOK

LEMMA LockHeld ==
  ASSUME HeldInv, StateInv', NEW t \in Tx, NEW ops \in Plans, NEW reads, Lock(t, ops, reads)
  PROVE  HeldOK'
<1>1. /\ req[t].pc = "idle" /\ txs[t].status = "active" /\ UNCHANGED Others
      /\ TablesOf(ops) \cup reads \subseteq Catalog(txs[t].schemas)
  BY DEF Lock, Others
<1>2. txs \in TxMaps /\ req \in ReqMaps /\ StateInv
  BY DEF HeldInv, SerialInv, StateInv, LocksOK
<1>3. CASE req' = [req EXCEPT ![t].pc = "failed"] /\ UNCHANGED txs
  <2>1. req'[t].pc = "failed" /\ \A o \in Tx \ {t} : req'[o] = req[o]
    BY <1>2, <1>3 DEF ReqMaps, Requests
  <2>2. \A o \in Tx : WorkHeld(o)
    BY <1>3, <2>1 DEF WorkHeld
  <2> QED
    BY <1>1, <2>2, HeldSame DEF Others
<1>4. CASE /\ TablesOf(ops) \subseteq DOMAIN durable.tables
           /\ LockLoop([txs EXCEPT ![t].reads = reads], t, ops, Wanted(t, ops), FALSE)
  <2> DEFINE T == [txs EXCEPT ![t].reads = reads]
             W == Wanted(t, ops)
  <2>1. ops \in Seq(Operations) /\ ops \in Plans \cup {<< >>} /\ reads \in SUBSET Tables
    BY <1>1, RowsAssumption DEF Catalog
  <2>2. W \in SUBSET LockKeys
    <3>1. txs[t].snapshot \in Nat
      BY <1>2, WorkOf
    <3>2. durable.csn \in Nat /\ durable.next_row \in Nat
          /\ TablesOK(durable.tables, durable.csn, durable.next_row)
      BY <1>2, MaxCsnAssumption DEF StateInv, DurableOK
    <3> QED
      BY <1>4, <2>1, <3>1, <3>2, WantedIs
  <2>3. SameLocks(T, txs, t)
    <3>1. T = [txs EXCEPT ![t].reads = reads]
      OBVIOUS
    <3> HIDE DEF T
    <3> QED
      BY <1>2, <2>1, <3>1, ReadsIs
  <2>4. LockLoop(T, t, ops, W, FALSE)
    BY <1>4
  <2>5. T[t].plan = txs[t].plan
    BY <1>2 DEF TxMaps, Transactions
  <2>6. Covers(durable.tables, txs[t].snapshot, ops, W)
    BY WantedCovers
  <2> HIDE DEF T, W
  <2>7. /\ T \in TxMaps /\ \A o \in Tx \ {t} : T[o] = txs[o]
        /\ T[t].status = "active" /\ T[t].snapshot = txs[t].snapshot
        /\ T[t].held = txs[t].held /\ T[t].waiting = txs[t].waiting
    BY <1>1, <2>3 DEF SameLocks
  <2>8. LoopDone(t, W)
    BY <1>2, <2>1, <2>2, <2>4, <2>7, LockLoopIs
  <2>9. LoopWorks(t, ops, W)
    BY <1>2, <2>1, <2>2, <2>4, <2>5, <2>7, LoopWorksIs
  <2> QED
    BY <1>1, <2>6, <2>8, <2>9, LoopHeld
<1> QED
  BY <1>3, <1>4 DEF Lock

LEMMA ResumedHeld ==
  ASSUME HeldInv, StateInv', NEW t \in Tx, req[t].pc = "asleep", txs[t].status = "active",
         NEW expired \in BOOLEAN, LockLoop(txs, t, req[t].ops, req[t].wanted, expired),
         UNCHANGED Others
  PROVE  HeldOK'
<1> DEFINE ops == req[t].ops
           W == req[t].wanted
<1>1. txs \in TxMaps /\ req \in ReqMaps /\ StateInv
  BY DEF HeldInv, SerialInv, StateInv, LocksOK
<1>2. ops \in Plans \cup {<< >>} /\ W \in SUBSET LockKeys
  BY <1>1, WorkOf
<1>3. Covers(durable.tables, txs[t].snapshot, ops, W)
  BY DEF HeldInv, HeldOK, HeldFor
<1>4. LockLoop(txs, t, ops, W, expired)
  OBVIOUS
<1> HIDE DEF ops, W
<1>5. LoopDone(t, W)
  BY <1>1, <1>2, <1>4, LockLoopIs
<1>6. LoopWorks(t, ops, W)
  BY <1>1, <1>2, <1>4, LoopWorksIs
<1> QED
  BY <1>3, <1>5, <1>6, LoopHeld

LEMMA FinishHeld ==
  ASSUME HeldInv, StateInv', NEW t \in Tx, Finish(t)
  PROVE  HeldOK'
<1>1. /\ DOMAIN durable'.tables \subseteq DOMAIN durable.tables
      /\ \A o \in Tx : txs'[o].status = "active" =>
            /\ o # t /\ txs[o].status = "active" /\ SameWork(txs'[o], txs[o])
            /\ SameSight(durable'.tables, durable.tables, txs[o].snapshot)
  BY PrunedReads DEF HeldInv, SerialInv
<1>2. Finished(t)
  BY FinishIs DEF HeldInv, SerialInv, StateInv
<1>3. ASSUME NEW o \in Tx PROVE HeldFor(o)'
  <2>1. WorkHeld(o)
    BY <1>1, <1>2 DEF WorkHeld, SameWork, Finished
  <2>2. txs'[o].status = "active" => SightKept(txs[o].snapshot)
    BY <1>1 DEF SightKept
  <2> QED
    BY <2>1, <2>2, HeldKept DEF HeldInv, SerialInv, HeldOK
<1> QED
  BY <1>3 DEF HeldOK

LEMMA GroupHeld ==
  ASSUME HeldInv, StateInv', ~ recovery, NEW newHeap, NEW newSchemas,
         GroupDone(newHeap, newSchemas), txs' = txs
  PROVE  HeldOK'
<1>1. /\ txs \in TxMaps /\ durable.csn \in Nat /\ durable'.csn = durable.csn + 1
      /\ \A o \in Tx : txs[o].snapshot \in Nat /\ txs[o].snapshot <= durable.csn
  BY MaxCsnAssumption, TxFields
     DEF HeldInv, SerialInv, StateInv, DurableOK, SnapshotsOK, LocksOK, TxMaps, GroupDone
<1>2. ASSUME NEW t \in Tx PROVE HeldFor(t)'
  <2> DEFINE s == txs[t].snapshot
  <2>1. txs[t].status = "active" => Oldest(txs, durable.csn + 1) <= s
    <3> DEFINE z == durable.csn + 1
    <3>1. z \in Nat /\ \A o \in Tx : txs[o].snapshot <= z
      BY <1>1
    <3> HIDE DEF z
    <3>2. txs[t].status = "active" => Oldest(txs, z) <= s
      BY <1>1, <3>1, OldestIs
    <3> QED
      BY <3>2 DEF z
  <2>2. txs[t].status = "active" => SightKept(s)
    BY <1>1, <2>1 DEF GroupDone, SightKept
  <2>3. Notifies(req', req)
    BY DEF GroupDone
  <2>4. WorkHeld(t)
    BY <2>3 DEF WorkHeld, Notifies
  <2> QED
    BY <2>2, <2>4, HeldKept DEF HeldInv, SerialInv, HeldOK
<1> QED
  BY <1>2 DEF HeldOK

LEMMA PublishHeld ==
  ASSUME HeldInv, StateInv', ~ recovery, durable.csn < MaxCsn,
         NEW newHeap, NEW newSchemas, NEW touched,
         Edit(newHeap, newSchemas, touched), Publish(newHeap, newSchemas, touched), txs' = txs
  PROVE  HeldOK'
<1>1. GroupDone(newHeap, newSchemas)
  BY PublishIs DEF HeldInv, SerialInv
<1> QED
  BY <1>1, GroupHeld

LEMMA DdlEdit ==
  ASSUME StateInv, NEW tb \in Catalog(schemas), DropTable(tb) \/ ReplaceSchema(tb)
  PROVE  \E newHeap, newSchemas : Edit(newHeap, newSchemas, {tb}) /\ Publish(newHeap, newSchemas, {tb})
<1>1. tb \in Tables /\ heap \in Heaps /\ schemas \in [Tables -> Nat]
  BY DEF Catalog, StateInv, HeapOK
<1>2. CASE DropTable(tb)
  <2> DEFINE H == [heap EXCEPT ![tb] = << >>]
             S == [schemas EXCEPT ![tb] = Absent]
  <2>1. Publish(H, S, {tb})
    BY <1>2 DEF DropTable
  <2>2. H \in Heaps /\ H[tb] = << >> /\ \A u \in Tables \ {tb} : H[u] = heap[u]
    BY <1>1 DEF Heaps
  <2>3. S \in [Tables -> Nat] /\ \A u \in Tables \ {tb} : S[u] = schemas[u]
    BY <1>1 DEF Absent
  <2> HIDE DEF H, S
  <2>4. Edit(H, S, {tb})
    BY <1>1, <2>2, <2>3 DEF Edit
  <2> QED
    BY <2>1, <2>4
<1>3. CASE ReplaceSchema(tb)
  <2> DEFINE S == [schemas EXCEPT ![tb] = @ + 1]
  <2>1. Publish(heap, S, {tb})
    BY <1>3 DEF ReplaceSchema
  <2>2. S \in [Tables -> Nat] /\ S[tb] # 0 /\ \A u \in Tables \ {tb} : S[u] = schemas[u]
    BY <1>1
  <2> HIDE DEF S
  <2>3. tb \in Catalog(S)
    BY <1>1, <2>2 DEF Catalog, Absent
  <2>4. Edit(heap, S, {tb})
    BY <1>1, <2>2, <2>3 DEF Edit
  <2> QED
    BY <2>1, <2>4
<1> QED
  BY <1>2, <1>3

LEMMA ApplyHeld ==
  ASSUME HeldInv, StateInv', NEW t \in Tx, CommitApply(t)
  PROVE  HeldOK'
<1>1. /\ gate.stage = "apply" /\ txs' = txs
      /\ Publish(HeapAfterAll(heap, gate.ops), schemas, TablesOf(gate.ops))
  BY DEF CommitApply
<1>2. ~ recovery
  BY <1>1 DEF HeldInv, SerialInv, ReadsOK
<1>3. /\ Edit(HeapAfterAll(heap, gate.ops), schemas, TablesOf(gate.ops)) /\ durable.csn < MaxCsn
  BY <1>1, ApplyEdit DEF HeldInv, SerialInv
<1> QED
  BY <1>1, <1>2, <1>3, PublishHeld

LEMMA DirectHeld ==
  ASSUME HeldInv, StateInv', NEW op \in DirectOps, DirectWrite(op) \/ DirectFail(op)
  PROVE  HeldOK'
<1>1. /\ DirectReady /\ op.table \in Catalog(schemas) /\ txs' = txs
      /\ \/ Publish(HeapAfter(heap, op), schemas, {op.table})
         \/ durable' = durable /\ req' = req
  BY DEF DirectWrite, DirectFail
<1>2. ~ recovery /\ durable.csn < MaxCsn
  BY <1>1 DEF DirectReady
<1>3. Edit(HeapAfter(heap, op), schemas, {op.table})
  BY <1>1, RowsAssumption, DirectEdit DEF HeldInv, SerialInv
<1>4. CASE durable' = durable /\ req' = req
  <2>1. \A t \in Tx : WorkHeld(t)
    BY <1>1, <1>4 DEF WorkHeld
  <2> QED
    BY <1>4, <2>1, HeldSame
<1> QED
  BY <1>1, <1>2, <1>3, <1>4, PublishHeld

LEMMA DdlHeld ==
  ASSUME HeldInv, StateInv', NEW tb, DropTable(tb) \/ ReplaceSchema(tb)
  PROVE  HeldOK'
<1>1. /\ DirectReady /\ tb \in Catalog(schemas) /\ txs' = txs
  BY DEF DropTable, ReplaceSchema
<1>2. ~ recovery /\ durable.csn < MaxCsn
  BY <1>1 DEF DirectReady
<1>3. PICK H, S : Edit(H, S, {tb}) /\ Publish(H, S, {tb})
  BY <1>1, DdlEdit DEF HeldInv, SerialInv
<1> QED
  BY <1>1, <1>2, <1>3, PublishHeld

LEMMA BegunHeld ==
  ASSUME HeldInv, StateInv', NEW t \in Tx, Begun(t)
  PROVE  HeldOK'
<1>1. /\ durable' = durable /\ req' = req /\ \A o \in Tx : o # t => txs'[o] = txs[o]
      /\ txs[t].status = "none" /\ txs'[t].status = "active" /\ txs'[t].plan = << >>
  BY DEF Begun
<1>2. HeldFor(t)'
  <2>1. req'[t].pc # "asleep"
    BY <1>1 DEF HeldInv, HeldOK, HeldFor
  <2>2. TablesOf(<< >>) = {}
    BY DEF TablesOf
  <2> QED
    BY <1>1, <2>1, <2>2 DEF HeldFor, Covers
<1>3. ASSUME NEW o \in Tx PROVE HeldFor(o)'
  <2>1. CASE o = t
    BY <1>2, <2>1
  <2>2. CASE o # t
    <3>1. WorkHeld(o)
      BY <1>1, <2>2 DEF WorkHeld
    <3> QED
      BY <1>1, <3>1, SightSelf, HeldKept DEF HeldInv, SerialInv, HeldOK
  <2> QED
    BY <2>1, <2>2
<1> QED
  BY <1>3 DEF HeldOK

LEMMA StepHeld ==
  ASSUME HeldInv, [Next]_vars
  PROVE  HeldInv'
<1> DEFINE Goal == HeldOK'
<1>0. SerialInv' /\ StateInv /\ StateInv'
  BY StepSerial DEF HeldInv, SerialInv
<1>1. ASSUME NEW t \in Tx, NEW s \in BOOLEAN, Begin(t, s) PROVE Goal
  BY <1>0, <1>1, BeginIs, BegunHeld
<1>2. ASSUME NEW t \in Tx, NEW ops \in Plans, NEW reads \in ReadSets, Lock(t, ops, reads)
      PROVE  Goal
  BY <1>0, <1>2, LockHeld
<1>3. ASSUME NEW t \in Tx, Wake(t) PROVE Goal
  <2>1. req[t].pc = "asleep" /\ UNCHANGED Others
    BY <1>3 DEF Wake, Others
  <2>2. CASE txs[t].status = "active" /\ LockLoop(txs, t, req[t].ops, req[t].wanted, FALSE)
    BY <1>0, <2>1, <2>2, ResumedHeld
  <2>3. CASE req' = [req EXCEPT ![t] = IdleReq] /\ UNCHANGED txs
    <3>1. req'[t].pc = "idle" /\ \A o \in Tx \ {t} : req'[o] = req[o]
      BY <1>0, <2>3, IdleReqType DEF StateInv, LocksOK, ReqMaps
    <3>2. \A o \in Tx : WorkHeld(o)
      BY <2>3, <3>1 DEF WorkHeld
    <3> QED
      BY <1>0, <2>1, <3>2, HeldSame DEF Others
  <2> QED
    BY <1>3, <2>2, <2>3 DEF Wake
<1>4. ASSUME NEW t \in Tx, Timeout(t) PROVE Goal
  <2>1. /\ req[t].pc = "asleep" /\ UNCHANGED Others /\ txs[t].status = "active"
        /\ LockLoop(txs, t, req[t].ops, req[t].wanted, TRUE)
    BY <1>4 DEF Timeout, Others
  <2> QED
    BY <1>0, <2>1, ResumedHeld
<1>5. ASSUME NEW t \in Tx, FailLock(t) PROVE Goal
  <2>1. Failed(t)
    BY <1>0, <1>5, FailLockIs
  <2>2. \A o \in Tx : WorkHeld(o)
    BY <2>1 DEF Failed, Aborted, SameWork, RequestEnds, WorkHeld
  <2> QED
    BY <1>0, <2>1, <2>2, HeldSame DEF Failed, Others
<1>6. ASSUME NEW t \in Tx, Rollback(t) \/ CommitFinish(t) PROVE Goal
  BY <1>0, <1>6, FinishHeld DEF Rollback, CommitFinish
<1>7. ASSUME NEW t \in Tx, Preview(t) \/ CommitRefused(t) \/ CommitStart(t) PROVE Goal
  <2>1. UNCHANGED <<durable, txs, req>>
    BY <1>7 DEF Preview, CommitRefused, CommitStart
  <2>2. \A o \in Tx : WorkHeld(o)
    BY <2>1 DEF WorkHeld
  <2> QED
    BY <1>0, <2>1, <2>2, HeldSame
<1>8. ASSUME NEW t \in Tx, CommitApply(t) PROVE Goal
  BY <1>0, <1>8, ApplyHeld
<1>9. ASSUME NEW t \in Tx, CommitFail(t) PROVE Goal
  <2>1. AllFailed /\ Notifies(req', req)
    BY <1>0, <1>9, CommitFailIs
  <2>2. \A o \in Tx : txs'[o].status # "active"
    BY <2>1 DEF AllFailed
  <2>3. \A o \in Tx : txs'[o].status = "none" => txs[o].status = "none"
    BY <2>1 DEF AllFailed
  <2>4. \A o \in Tx : req'[o].pc = req[o].pc
    BY <2>1 DEF Notifies
  <2> QED
    BY <2>2, <2>3, <2>4 DEF HeldInv, HeldOK, HeldFor
<1>10. ASSUME NEW op \in DirectOps, DirectWrite(op) \/ DirectFail(op) PROVE Goal
  BY <1>0, <1>10, DirectHeld
<1>11. ASSUME NEW tb \in DdlTables, DropTable(tb) \/ ReplaceSchema(tb) PROVE Goal
  BY <1>0, <1>11, DdlHeld
<1>12. ASSUME Done \/ UNCHANGED vars PROVE Goal
  <2>1. UNCHANGED <<durable, txs, req>>
    BY <1>12 DEF Done, vars
  <2>2. \A o \in Tx : WorkHeld(o)
    BY <2>1 DEF WorkHeld
  <2> QED
    BY <1>0, <2>1, <2>2, HeldSame
<1> HIDE DEF Goal
<1>13. Goal
  BY <1>1, <1>2, <1>3, <1>4, <1>5, <1>6, <1>7, <1>8, <1>9, <1>10, <1>11, <1>12 DEF Next
<1> QED
  BY <1>0, <1>13 DEF Goal, HeldInv

LEMMA InitHeld ==
  ASSUME Init
  PROVE  HeldInv
<1>1. \A t \in Tx : txs[t].status # "active" /\ req[t].pc # "asleep"
  BY NoTxType, IdleReqType DEF Init
<1> QED
  BY <1>1, InitSerial DEF HeldInv, HeldOK, HeldFor

(***************************************************************************)
(* Rows that are locked and not stale are current.                         *)
(***************************************************************************)

\* A row seen at the snapshot whose key is not stale is still there, with the
\* same contents.
LEMMA CurrentRow ==
  ASSUME StateInv, NEW t \in Tx, NEW tb, tb \in DOMAIN durable.tables,
         NEW r \in VisibleIds(durable.tables[tb], txs[t].snapshot), ~ Stale(t, RowKey(tb, r))
  PROVE  /\ r \in VisibleIds(durable.tables[tb], durable.csn)
         /\ RowOf(durable.tables[tb], durable.csn, r) = RowOf(durable.tables[tb], txs[t].snapshot, r)
<1> DEFINE h == durable.tables[tb]
           s == txs[t].snapshot
           chain == h.rows[r]
           last == Len(chain)
<1>1. s \in Nat /\ durable.csn \in Nat
  BY WorkOf DEF StateInv, DurableOK
<1>2. HistoryOK(h, durable.csn, durable.next_row) /\ durable.next_row \in Nat
  BY DEF StateInv, DurableOK, TablesOK
<1>3. ~ RowStale(t, tb, r)
  BY DEF Stale, RowKey, Exclusive
<1>4. r \in DOMAIN h.rows /\ \E i \in DOMAIN chain : SeenAt(chain[i], s)
  BY DEF VisibleIds
<1>5. chain[last].end = OpenEnd /\ VersionAt(chain, s).value_begin = chain[last].value_begin
  BY <1>3, <1>4 DEF RowStale
<1>6. ChainOK(chain, durable.csn)
  BY <1>2, <1>4 DEF HistoryOK
<1> HIDE DEF h, s
<1> DEFINE vs == VersionAt(chain, s)
<1>7. last \in DOMAIN chain
  BY <1>6, ChainType
<1> HIDE DEF chain, last
<1>8. SeenAt(chain[last], durable.csn) /\ VersionAt(chain, durable.csn) = chain[last]
  <2>1. SeenAt(chain[last], durable.csn)
    BY <1>1, <1>5, <1>6, <1>7, SeenNow
  <2> QED
    BY <1>1, <1>6, <1>7, <2>1, VersionSeen
<1>9. PICK i \in DOMAIN chain : SeenAt(chain[i], s)
  BY <1>4
<1>10. VersionAt(chain, s) = chain[i]
  BY <1>1, <1>6, <1>9, VersionSeen
<1>11. chain[i].row = chain[last].row
  BY <1>5, <1>6, <1>7, <1>10 DEF ChainOK, ValuesOK
<1>12. r \in VisibleIds(h, durable.csn)
  BY <1>4, <1>7, <1>8 DEF VisibleIds, chain
<1> QED
  BY <1>8, <1>10, <1>11, <1>12 DEF RowOf, chain, h, s

(***************************************************************************)
(* Counting rows.                                                          *)
(***************************************************************************)

\* How often x is at the positions S of s.
Hits(s, S, x) == Cardinality({i \in S : s[i] = x})

LEMMA HitsNumber ==
  ASSUME NEW s, NEW S, IsFiniteSet(S), NEW x
  PROVE  Hits(s, S, x) \in Nat /\ IsFiniteSet({i \in S : s[i] = x})
<1>1. IsFiniteSet({i \in S : s[i] = x})
  BY FS_Subset
<1> QED
  BY <1>1, FS_CardinalityType DEF Hits

\* Occurrences at two disjoint sets of positions add up.
LEMMA HitsSplit ==
  ASSUME NEW s, NEW S, IsFiniteSet(S), NEW A \in SUBSET S, NEW x
  PROVE  /\ Hits(s, S, x) = Hits(s, A, x) + Hits(s, S \ A, x)
         /\ Hits(s, A, x) \in Nat /\ Hits(s, S \ A, x) \in Nat
<1> DEFINE a == {i \in A : s[i] = x}
           b == {i \in S \ A : s[i] = x}
<1>1. IsFiniteSet(A) /\ IsFiniteSet(S \ A)
  BY FS_Subset
<1>2. Hits(s, A, x) \in Nat /\ Hits(s, S \ A, x) \in Nat /\ IsFiniteSet(a) /\ IsFiniteSet(b)
  BY <1>1, HitsNumber
<1>3. {i \in S : s[i] = x} = a \cup b /\ a \cap b = {}
  OBVIOUS
<1>4. Hits(s, A, x) = Cardinality(a) /\ Hits(s, S \ A, x) = Cardinality(b)
  BY DEF Hits
<1>5. Hits(s, S, x) = Cardinality(a \cup b)
  BY <1>3 DEF Hits
<1> HIDE DEF a, b
<1>6. Cardinality(a \cup b) = Cardinality(a) + Cardinality(b) - Cardinality(a \cap b)
  BY <1>2, FS_Union
<1>7. Cardinality(a \cap b) = 0
  BY <1>3, FS_EmptySet
<1> QED
  BY <1>2, <1>4, <1>5, <1>6, <1>7

\* Positions that correspond to each other hold the same rows.
LEMMA HitsMapped ==
  ASSUME NEW s, NEW A, IsFiniteSet(A), NEW u, NEW B, NEW f \in [A -> B],
         \A i \in A : u[f[i]] = s[i],
         \A i, j \in A : f[i] = f[j] => i = j,
         \A p \in B : \E i \in A : f[i] = p, NEW x
  PROVE  Hits(s, A, x) = Hits(u, B, x)
<1> DEFINE b == [i \in A |-> s[i]]
           a == [p \in B |-> u[p]]
<1>1. Hits(s, A, x) = Count(b, x) /\ Hits(u, B, x) = Count(a, x)
  <2>1. {i \in DOMAIN b : b[i] = x} = {i \in A : s[i] = x}
    OBVIOUS
  <2>2. {i \in DOMAIN a : a[i] = x} = {i \in B : u[i] = x}
    OBVIOUS
  <2> QED
    BY <2>1, <2>2 DEF Hits, Count
<1>2. /\ DOMAIN b = A /\ DOMAIN a = B /\ IsFiniteSet(DOMAIN b)
      /\ f \in [DOMAIN b -> DOMAIN a]
      /\ \A i \in DOMAIN b : a[f[i]] = b[i]
  OBVIOUS
<1> HIDE DEF a, b
<1>3. Alike(b, a)
  BY <1>2, RearrangedAlike
<1> QED
  BY <1>1, <1>3 DEF Alike

LEMMA CountHits ==
  ASSUME NEW s, NEW x
  PROVE  Count(s, x) = Hits(s, DOMAIN s, x)
BY DEF Count, Hits

LEMMA SeqDomain ==
  ASSUME NEW U, NEW s \in Seq(U)
  PROVE  /\ DOMAIN s = 1 .. Len(s) /\ Len(s) \in Nat /\ IsFiniteSet(DOMAIN s)
         /\ \A x : Count(s, x) \in Nat
<1>1. DOMAIN s = 1 .. Len(s) /\ Len(s) \in Nat
  OBVIOUS
<1>2. IsFiniteSet(DOMAIN s)
  BY <1>1, FS_Interval
<1>3. \A x : Count(s, x) \in Nat
  BY <1>2, HitsNumber, CountHits
<1> QED
  BY <1>1, <1>2, <1>3

\* The rows picked at S are those at S.
LEMMA CountPick ==
  ASSUME NEW U, NEW s \in Seq(U), NEW S \in SUBSET DOMAIN s, NEW x
  PROVE  Count(PickAt(s, S), x) = Hits(s, S, x)
<1> DEFINE p == PickAt(s, S)
           f == [k \in DOMAIN p |-> Ascending(S)[k]]
<1>1. /\ PickAt(s, S) \in Seq(U)
      /\ \A k \in 1 .. Len(PickAt(s, S)) :
            /\ Ascending(S)[k] \in S /\ PickAt(s, S)[k] = s[Ascending(S)[k]]
            /\ \A l \in 1 .. Len(PickAt(s, S)) : k < l => Ascending(S)[k] < Ascending(S)[l]
      /\ \A i \in S : \E k \in 1 .. Len(PickAt(s, S)) : Ascending(S)[k] = i
  BY PickAtIs
<1>2. p \in Seq(U) /\ DOMAIN p = 1 .. Len(p) /\ Len(p) \in Nat /\ IsFiniteSet(DOMAIN p)
  <2> HIDE DEF p
  <2>1. p \in Seq(U)
    BY <1>1 DEF p
  <2> QED
    BY <2>1, SeqDomain
<1>3. /\ \A k \in DOMAIN p : /\ Ascending(S)[k] \in S /\ p[k] = s[Ascending(S)[k]]
                             /\ \A l \in DOMAIN p : k < l => Ascending(S)[k] < Ascending(S)[l]
      /\ \A i \in S : \E k \in DOMAIN p : Ascending(S)[k] = i
  BY <1>1, <1>2
<1> HIDE DEF p
<1>4. /\ f \in [DOMAIN p -> S] /\ \A k \in DOMAIN p : s[f[k]] = p[k]
      /\ \A i \in S : \E k \in DOMAIN p : f[k] = i
  BY <1>3
<1>5. ASSUME NEW k \in DOMAIN p, NEW l \in DOMAIN p, f[k] = f[l]
      PROVE  k = l
  <2>1. S \subseteq Int
    BY SeqDomain
  <2>2. f[k] \in Int /\ f[l] \in Int
    BY <1>4, <2>1
  <2>3. k \in Int /\ l \in Int
    BY <1>2
  <2>4. ~ (k < l) /\ ~ (l < k)
    BY <1>3, <1>5, <2>2
  <2> QED
    BY <2>3, <2>4
<1> HIDE DEF f
<1>6. Hits(p, DOMAIN p, x) = Hits(s, S, x)
  <2> DEFINE A == DOMAIN p
  <2>1. /\ IsFiniteSet(A) /\ f \in [A -> S] /\ \A i \in A : s[f[i]] = p[i]
        /\ \A i, j \in A : f[i] = f[j] => i = j
        /\ \A i \in S : \E k \in A : f[k] = i
    BY <1>2, <1>4, <1>5
  <2> HIDE DEF A
  <2>2. Hits(p, A, x) = Hits(s, S, x)
    BY <2>1, HitsMapped
  <2> QED
    BY <2>2 DEF A
<1> QED
  BY <1>6, CountHits DEF p

LEMMA CountConcat ==
  ASSUME NEW U, NEW a \in Seq(U), NEW b \in Seq(U), NEW x
  PROVE  Count(a \o b, x) = Count(a, x) + Count(b, x)
<1> DEFINE s == a \o b
           A == DOMAIN a
           f == [i \in DOMAIN b |-> Len(a) + i]
<1>1. /\ s \in Seq(U) /\ Len(s) = Len(a) + Len(b)
      /\ \A i \in DOMAIN a : s[i] = a[i]
      /\ \A i \in DOMAIN b : s[Len(a) + i] = b[i]
  OBVIOUS
<1>2. DOMAIN s = 1 .. Len(s) /\ DOMAIN a = 1 .. Len(a) /\ DOMAIN b = 1 .. Len(b) /\ IsFiniteSet(DOMAIN s)
      /\ IsFiniteSet(DOMAIN b) /\ Len(a) \in Nat /\ Len(b) \in Nat /\ Len(s) \in Nat
  <2>1. DOMAIN a = 1 .. Len(a) /\ Len(a) \in Nat
    BY SeqDomain
  <2>2. DOMAIN b = 1 .. Len(b) /\ Len(b) \in Nat /\ IsFiniteSet(DOMAIN b)
    BY SeqDomain
  <2> HIDE DEF s
  <2>3. DOMAIN s = 1 .. Len(s) /\ Len(s) \in Nat /\ IsFiniteSet(DOMAIN s)
    BY <1>1, SeqDomain
  <2> QED
    BY <2>1, <2>2, <2>3
<1> HIDE DEF s
<1>3. A \in SUBSET DOMAIN s /\ DOMAIN s \ A = Len(a) + 1 .. Len(a) + Len(b)
  BY <1>1, <1>2
<1>4. Hits(s, DOMAIN s, x) = Hits(s, A, x) + Hits(s, DOMAIN s \ A, x)
  <2> HIDE DEF A
  <2> QED
    BY <1>2, <1>3, HitsSplit
<1>5. Hits(s, A, x) = Hits(a, DOMAIN a, x)
  <2>1. {i \in A : s[i] = x} = {i \in DOMAIN a : a[i] = x}
    BY <1>1
  <2> QED
    BY <2>1 DEF Hits
<1>6. Hits(b, DOMAIN b, x) = Hits(s, DOMAIN s \ A, x)
  <2>1. f \in [DOMAIN b -> DOMAIN s \ A]
    BY <1>2, <1>3
  <2>2. \A i \in DOMAIN b : s[f[i]] = b[i]
    BY <1>1
  <2>3. \A i, j \in DOMAIN b : f[i] = f[j] => i = j
    BY <1>2
  <2>4. \A p \in DOMAIN s \ A : \E i \in DOMAIN b : f[i] = p
    <3> SUFFICES ASSUME NEW p \in DOMAIN s \ A
                 PROVE  \E i \in DOMAIN b : f[i] = p
      OBVIOUS
    <3>1. p - Len(a) \in DOMAIN b
      BY <1>2, <1>3
    <3>2. f[p - Len(a)] = p
      BY <1>2, <1>3, <3>1
    <3> QED
      BY <3>1, <3>2
  <2> DEFINE B == DOMAIN b
             C == DOMAIN s \ A
  <2>5. /\ IsFiniteSet(B) /\ f \in [B -> C] /\ \A i \in B : s[f[i]] = b[i]
        /\ \A i, j \in B : f[i] = f[j] => i = j
        /\ \A i \in C : \E k \in B : f[k] = i
    BY <1>2, <2>1, <2>2, <2>3, <2>4
  <2> HIDE DEF f, A, B, C
  <2>6. Hits(b, B, x) = Hits(s, C, x)
    BY <2>5, HitsMapped
  <2> QED
    BY <2>6 DEF B, C
<1> QED
  BY <1>4, <1>5, <1>6, CountHits DEF s

(***************************************************************************)
(* The rows a plan keeps, removes and adds.                                *)
(***************************************************************************)

\* The entry of old that row i of final continues, or 0.
Place(old, final, match, i) ==
    IF match[i] # 0 THEN match[i]
    ELSE IF Lent(final, match, i) \in DOMAIN Spare(old, match)
    THEN Spare(old, match)[Lent(final, match, i)] ELSE 0

LEMMA SeqWider ==
  ASSUME NEW S, NEW T, S \subseteq T, NEW s \in Seq(S)
  PROVE  s \in Seq(T)
OBVIOUS

LEMMA PlaceIs ==
  ASSUME NEW old, NEW len \in Nat, DOMAIN old = 1 .. len, NEW final \in Seq(Rows), NEW match,
         Matching(match, RowsOf(old), Len(final))
  PROVE  /\ \A i \in DOMAIN final :
               /\ Place(old, final, match, i) \in 0 .. len
               /\ RowId(old, final, match, i) =
                     IF Place(old, final, match, i) = 0 THEN 0
                     ELSE old[Place(old, final, match, i)].id
         /\ \A i, j \in DOMAIN final :
               /\ Place(old, final, match, i) = Place(old, final, match, j)
               /\ Place(old, final, match, i) # 0
               => i = j
<1> DEFINE S == {p \in DOMAIN old : MatchedBy(match, p) = 0 /\ old[p].version.row.id = NoId}
           spare == Spare(old, match)
           N == {i \in DOMAIN final : match[i] = 0 /\ final[i].id = NoId}
           needy == Needy(final, match)
           lent(i) == Lent(final, match, i)
<1>1. /\ match \in Seq(Nat) /\ DOMAIN final = 1 .. Len(final) /\ Len(final) \in Nat
      /\ Len(match) = Len(final)
      /\ \A i \in DOMAIN final : match[i] = 0 \/ match[i] \in DOMAIN old
      /\ \A i, j \in DOMAIN final : match[i] = match[j] /\ match[i] # 0 => i = j
  BY DEF Matching, RowsOf
<1>2. /\ S \in SUBSET Int /\ IsFiniteSet(S) /\ spare \in Seq(S)
      /\ \A k \in DOMAIN spare : spare[k] \in S
  BY SparesIn
<1>3. \A k, l \in DOMAIN spare : spare[k] = spare[l] => k = l
  <2> HIDE DEF S
  <2>1. spare = Ascending(S)
    BY DEF Spare, S
  <2>2. /\ Ascending(S) \in Seq(S)
        /\ \A i, j \in 1 .. Len(Ascending(S)) : i < j => Ascending(S)[i] < Ascending(S)[j]
    BY <1>2, AscendingIs
  <2> HIDE DEF spare
  <2>3. DOMAIN spare = 1 .. Len(spare) /\ Len(spare) \in Nat /\ \A k \in DOMAIN spare : spare[k] \in Int
    BY <1>2, SeqDomain
  <2>4. \A i, j \in DOMAIN spare : i < j => spare[i] < spare[j]
    BY <2>1, <2>2, <2>3
  <2> QED
    BY <2>3, <2>4
<1>4. needy \in Seq(Nat)
  <2>1. N \in SUBSET Nat /\ \A i \in N : i <= Len(final)
    BY <1>1
  <2>2. needy = Ascending(N)
    BY DEF Needy
  <2> HIDE DEF N, needy
  <2>3. IsFiniteSet(N) /\ N \in SUBSET Int
    <3> DEFINE m == Len(final)
    <3>1. m \in Nat /\ \A i \in N : i <= m
      BY <1>1, <2>1
    <3>2. N \in SUBSET Nat
      BY <2>1
    <3> HIDE DEF m
    <3>3. IsFiniteSet(N)
      BY <3>1, <3>2, FS_BoundedSetOfNaturals
    <3> QED
      BY <3>2, <3>3
  <2>4. Ascending(N) \in Seq(N)
    BY <2>3, AscendingIs
  <2> DEFINE a == Ascending(N)
  <2>5. a \in Seq(N) /\ N \subseteq Nat
    BY <2>1, <2>4
  <2> HIDE DEF a
  <2>6. a \in Seq(Nat)
    BY <2>5, SeqWider
  <2> QED
    BY <2>2, <2>6 DEF a
<1>5. \A i \in DOMAIN final : lent(i) # 0 => needy[lent(i)] = i
  <2> SUFFICES ASSUME NEW i \in DOMAIN final, lent(i) # 0
               PROVE  needy[lent(i)] = i
    OBVIOUS
  <2>1. lent(i) = MatchedBy(needy, i)
    BY DEF Lent, MatchedBy
  <2>2. i \in Nat
    BY <1>1
  <2> HIDE DEF needy, lent
  <2>3. MatchedBy(needy, i) # 0 => needy[MatchedBy(needy, i)] = i
    BY <1>4, <2>2, MatchedIs
  <2> QED
    BY <2>1, <2>3
<1>6. 0 \notin DOMAIN spare
  BY <1>2
<1>7. \A k \in DOMAIN spare : spare[k] \in DOMAIN old /\ \A i \in DOMAIN final : match[i] # spare[k]
  <2> SUFFICES ASSUME NEW k \in DOMAIN spare
               PROVE  spare[k] \in DOMAIN old /\ \A i \in DOMAIN final : match[i] # spare[k]
    OBVIOUS
  <2> DEFINE p == spare[k]
  <2>1. p \in DOMAIN old /\ MatchedBy(match, p) = 0
    BY <1>2
  <2>2. p \in Nat
    BY <2>1
  <2> HIDE DEF p
  <2>3. \A i \in 1 .. Len(match) : match[i] # p
    BY <1>1, <2>1, <2>2, MatchedIs
  <2> QED
    BY <1>1, <2>1, <2>3 DEF p
<1> DEFINE place(i) == Place(old, final, match, i)
<1>8. \A i : place(i) = IF match[i] # 0 THEN match[i]
                        ELSE IF lent(i) \in DOMAIN spare THEN spare[lent(i)] ELSE 0
  BY DEF Place
<1>9. \A i : RowId(old, final, match, i) = IF match[i] # 0 THEN old[match[i]].id
                        ELSE IF lent(i) \in DOMAIN spare THEN old[spare[lent(i)]].id ELSE 0
  BY DEF RowId
<1> HIDE DEF S, spare, N, needy, lent, place
<1>10. ASSUME NEW i \in DOMAIN final
       PROVE  /\ place(i) \in 0 .. len
              /\ RowId(old, final, match, i) = IF place(i) = 0 THEN 0 ELSE old[place(i)].id
  BY <1>1, <1>7, <1>8, <1>9
<1>11. ASSUME NEW i \in DOMAIN final, NEW j \in DOMAIN final, place(i) = place(j), place(i) # 0
       PROVE  i = j
  <2>1. CASE match[i] # 0 /\ match[j] # 0
    BY <1>1, <1>8, <1>11, <2>1
  <2>2. CASE match[i] # 0 /\ match[j] = 0
    BY <1>7, <1>8, <1>11, <2>2
  <2>3. CASE match[i] = 0 /\ match[j] # 0
    BY <1>7, <1>8, <1>11, <2>3
  <2>4. CASE match[i] = 0 /\ match[j] = 0
    <3>1. /\ lent(i) \in DOMAIN spare /\ lent(j) \in DOMAIN spare
          /\ spare[lent(i)] = spare[lent(j)]
      BY <1>8, <1>11, <2>4
    <3>2. lent(i) = lent(j) /\ lent(i) # 0
      BY <1>3, <1>6, <3>1
    <3> QED
      BY <1>5, <3>2
  <2> QED
    BY <2>1, <2>2, <2>3, <2>4
<1> QED
  BY <1>10, <1>11 DEF place

\* Each row of final continues the row at its place or none; alt are the rows
\* that continue none or differ, gone the places of no unchanged row.
Continues(final, rows, place, alt, gone) ==
    /\ IsFiniteSet(DOMAIN rows) /\ IsFiniteSet(DOMAIN final) /\ 0 \notin DOMAIN rows
    /\ \A i \in DOMAIN final : place[i] \in DOMAIN rows \cup {0}
    /\ \A i, j \in DOMAIN final : place[i] = place[j] /\ place[i] # 0 => i = j
    /\ alt \in SUBSET DOMAIN final /\ gone \in SUBSET DOMAIN rows
    /\ \A i \in DOMAIN final : i \in alt <=> place[i] = 0 \/ final[i] # rows[place[i]]
    /\ \A p \in DOMAIN rows : p \in gone <=> \A i \in DOMAIN final \ alt : place[i] # p

\* Rows that continue unchanged are in both sequences equally often.
LEMMA KeptBalance ==
  ASSUME NEW rows, NEW final, NEW place, NEW alt, NEW gone,
         Continues(final, rows, place, alt, gone), NEW x
  PROVE  /\ Count(final, x) + Hits(rows, gone, x) = Count(rows, x) + Hits(final, alt, x)
         /\ Hits(rows, gone, x) \in Nat /\ Hits(final, alt, x) \in Nat
         /\ Count(final, x) \in Nat /\ Count(rows, x) \in Nat
<1> DEFINE F == DOMAIN final
           R == DOMAIN rows
           K == F \ alt
           P == R \ gone
           f == [i \in K |-> place[i]]
<1>1. alt \in SUBSET F /\ gone \in SUBSET R /\ IsFiniteSet(F) /\ IsFiniteSet(R)
  BY DEF Continues
<1>2. /\ f \in [K -> P] /\ \A i \in K : rows[f[i]] = final[i]
      /\ \A i, j \in K : f[i] = f[j] => i = j
      /\ \A p \in P : \E i \in K : f[i] = p
  BY DEF Continues
<1>3. Count(final, x) = Hits(final, F, x) /\ Count(rows, x) = Hits(rows, R, x)
  BY CountHits
<1> HIDE DEF F, R
<1>4. /\ Hits(final, F, x) = Hits(final, alt, x) + Hits(final, K, x)
      /\ Hits(final, alt, x) \in Nat /\ Hits(final, K, x) \in Nat
  <2> DEFINE A == alt
  <2>1. A \in SUBSET F /\ IsFiniteSet(F)
    BY <1>1
  <2> HIDE DEF A, K
  <2>2. /\ Hits(final, F, x) = Hits(final, A, x) + Hits(final, F \ A, x)
        /\ Hits(final, A, x) \in Nat /\ Hits(final, F \ A, x) \in Nat
    BY <2>1, HitsSplit
  <2> QED
    BY <2>2 DEF A, K
<1>5. /\ Hits(rows, R, x) = Hits(rows, gone, x) + Hits(rows, P, x)
      /\ Hits(rows, gone, x) \in Nat /\ Hits(rows, P, x) \in Nat
  <2> DEFINE A == gone
  <2>1. A \in SUBSET R /\ IsFiniteSet(R)
    BY <1>1
  <2> HIDE DEF A, P
  <2>2. /\ Hits(rows, R, x) = Hits(rows, A, x) + Hits(rows, R \ A, x)
        /\ Hits(rows, A, x) \in Nat /\ Hits(rows, R \ A, x) \in Nat
    BY <2>1, HitsSplit
  <2> QED
    BY <2>2 DEF A, P
<1>6. IsFiniteSet(K)
  BY <1>1, FS_Subset
<1> HIDE DEF K, P, f
<1>7. Hits(final, K, x) = Hits(rows, P, x)
  BY <1>2, <1>6, HitsMapped
<1> QED
  BY <1>3, <1>4, <1>5, <1>7

\* The entries old are those of the history h at c.
EntriesOK(old, h, c) ==
    /\ DOMAIN old = 1 .. Len(VisibleInOrder(h, c)) /\ Len(VisibleInOrder(h, c)) \in Nat
    /\ \A p \in DOMAIN old : /\ old[p].id \in VisibleIds(h, c)
                             /\ old[p].version = VersionAt(h.rows[old[p].id], c)
    /\ \A p, q \in DOMAIN old : old[p].id = old[q].id => p = q
    /\ \A r \in VisibleIds(h, c) : \E p \in DOMAIN old : old[p].id = r

LEMMA EntriesOf ==
  ASSUME NEW h, NEW at \in Nat, NEW n \in Nat, HistoryOK(h, at, n), NEW c \in Nat
  PROVE  EntriesOK(Visible(h, c), h, c)
<1> DEFINE old == Visible(h, c)
<1>1. DOMAIN old = 1 .. Len(VisibleInOrder(h, c)) /\ Len(VisibleInOrder(h, c)) \in Nat
  BY VisibleEntries
<1>2. \A p \in DOMAIN old : /\ old[p].id \in VisibleIds(h, c)
                            /\ old[p].version = VersionAt(h.rows[old[p].id], c)
  BY VisibleEntries
<1>3. \A p, q \in DOMAIN old : old[p].id = old[q].id => p = q
  BY VisibleEntries
<1>4. \A r \in VisibleIds(h, c) : \E p \in DOMAIN old : old[p].id = r
  <2> DEFINE s == VisibleInOrder(h, c)
  <2>1. Enumerates(s, VisibleIds(h, c), LogicalOrder(h, c))
    BY VisibleOrder
  <2>2. /\ DOMAIN old = 1 .. Len(s)
        /\ \A p \in DOMAIN old : old[p].id = s[p]
    BY VisibleEntries
  <2> HIDE DEF s, old
  <2>3. /\ \A x \in VisibleIds(h, c) : \E i \in DOMAIN s : s[i] = x
        /\ DOMAIN s = 1 .. Len(s)
    BY <2>1 DEF Enumerates
  <2> QED
    BY <2>2, <2>3
<1> HIDE DEF old
<1>5. EntriesOK(old, h, c)
  BY <1>1, <1>2, <1>3, <1>4 DEF EntriesOK
<1> QED
  BY <1>5 DEF old

\* The entries whose rows a plan touches.
Gone(h, c, ids) == {p \in DOMAIN Visible(h, c) : Visible(h, c)[p].id \in ids}

\* A plan over entries: what it wants, what it alters and which rows it touches.
PlansOver(old, final, match, alt, ids) ==
    /\ final \in Seq(Rows) /\ Matching(match, RowsOf(old), Len(final))
    /\ alt = {i \in DOMAIN final :
                \/ RowId(old, final, match, i) = 0
                \/ \E p \in DOMAIN old : /\ old[p].id = RowId(old, final, match, i)
                                         /\ final[i] # old[p].version.row}
    /\ ids = (({old[p].id : p \in DOMAIN old} \ {RowId(old, final, match, i) : i \in DOMAIN final})
                \cup {RowId(old, final, match, i) : i \in alt}) \ {0}

LEMMA OverBalance ==
  ASSUME NEW old, NEW len \in Nat, DOMAIN old = 1 .. len,
         \A p \in DOMAIN old : old[p].id \in Nat \ {0},
         \A p, q \in DOMAIN old : old[p].id = old[q].id => p = q,
         NEW final, NEW match, NEW alt, NEW ids, PlansOver(old, final, match, alt, ids),
         NEW gone, gone = {p \in DOMAIN old : old[p].id \in ids}, NEW x
  PROVE  /\ Count(final, x) + Hits(RowsOf(old), gone, x) = Count(RowsOf(old), x) + Hits(final, alt, x)
         /\ Hits(RowsOf(old), gone, x) \in Nat /\ Hits(final, alt, x) \in Nat
         /\ Count(final, x) \in Nat /\ Count(RowsOf(old), x) \in Nat
<1> DEFINE rows == RowsOf(old)
           place == [i \in DOMAIN final |-> Place(old, final, match, i)]
           id(i) == RowId(old, final, match, i)
<1>1. DOMAIN rows = DOMAIN old /\ \A p \in DOMAIN old : rows[p] = old[p].version.row
  BY DEF RowsOf
<1>2. /\ \A i \in DOMAIN final :
            /\ Place(old, final, match, i) \in 0 .. len
            /\ RowId(old, final, match, i) =
                  IF Place(old, final, match, i) = 0 THEN 0
                  ELSE old[Place(old, final, match, i)].id
      /\ \A i, j \in DOMAIN final :
            /\ Place(old, final, match, i) = Place(old, final, match, j)
            /\ Place(old, final, match, i) # 0
            => i = j
  <2>1. final \in Seq(Rows) /\ Matching(match, RowsOf(old), Len(final))
    BY DEF PlansOver
  <2> QED
    BY <2>1, PlaceIs
<1>3. /\ \A i \in DOMAIN final : /\ place[i] \in DOMAIN old \cup {0}
                                 /\ id(i) = IF place[i] = 0 THEN 0 ELSE old[place[i]].id
      /\ \A i, j \in DOMAIN final : place[i] = place[j] /\ place[i] # 0 => i = j
  BY <1>2
<1>4. IsFiniteSet(DOMAIN rows) /\ 0 \notin DOMAIN rows /\ IsFiniteSet(DOMAIN final)
  BY <1>1, FS_Interval, SeqDomain DEF PlansOver
<1> HIDE DEF place, id, rows
<1>5. /\ alt \in SUBSET DOMAIN final
      /\ \A i \in DOMAIN final : i \in alt <=> place[i] = 0 \/ final[i] # rows[place[i]]
  <2>1. \A i \in DOMAIN final : id(i) = 0 <=> place[i] = 0
    BY <1>3
  <2>2. ASSUME NEW i \in DOMAIN final, place[i] # 0
        PROVE  (\E p \in DOMAIN old : old[p].id = id(i) /\ final[i] # old[p].version.row)
                  <=> final[i] # rows[place[i]]
    <3>1. place[i] \in DOMAIN old /\ id(i) = old[place[i]].id
      BY <1>3, <2>2
    <3>2. \A p \in DOMAIN old : old[p].id = id(i) => p = place[i]
      BY <3>1
    <3>3. rows[place[i]] = old[place[i]].version.row
      BY <1>1, <3>1
    <3> QED
      BY <3>1, <3>2, <3>3
  <2>3. alt = {i \in DOMAIN final :
                  \/ id(i) = 0
                  \/ \E p \in DOMAIN old : old[p].id = id(i) /\ final[i] # old[p].version.row}
    BY DEF id, PlansOver
  <2> QED
    BY <2>1, <2>2, <2>3
<1>6. /\ gone \in SUBSET DOMAIN rows
      /\ \A p \in DOMAIN rows : p \in gone <=> \A i \in DOMAIN final \ alt : place[i] # p
  <2>1. alt \subseteq DOMAIN final
    BY <1>5
  <2>2. ASSUME NEW p \in DOMAIN old
        PROVE  old[p].id \in ids <=> \A i \in DOMAIN final \ alt : place[i] # p
    <3>1. \A i \in DOMAIN final : id(i) = old[p].id <=> place[i] = p
      BY <1>3
    <3>2. old[p].id \in ids <=> \/ \A i \in DOMAIN final : id(i) # old[p].id
                                \/ \E i \in alt : id(i) = old[p].id
      <4>1. ids = (({old[q].id : q \in DOMAIN old} \ {id(i) : i \in DOMAIN final})
                     \cup {id(i) : i \in alt}) \ {0}
        BY DEF id, PlansOver
      <4> QED
        BY <4>1
    <3>3. old[p].id \in ids <=> \/ \A i \in DOMAIN final : place[i] # p
                                \/ \E i \in alt : place[i] = p
      BY <2>1, <3>1, <3>2
    <3>4. p # 0
      BY <1>1, <1>4
    <3>5. ASSUME NEW i \in alt, place[i] = p, NEW j \in DOMAIN final \ alt, place[j] = p
          PROVE  FALSE
      BY <1>3, <2>1, <3>4, <3>5
    <3> QED
      BY <2>1, <3>3, <3>5
  <2> QED
    BY <1>1, <2>2
<1>7. /\ \A i \in DOMAIN final : place[i] \in DOMAIN rows \cup {0}
      /\ \A i, j \in DOMAIN final : place[i] = place[j] /\ place[i] # 0 => i = j
  BY <1>1, <1>3
<1>8. Continues(final, rows, place, alt, gone)
  BY <1>4, <1>5, <1>6, <1>7 DEF Continues
<1>9. /\ Count(final, x) + Hits(rows, gone, x) = Count(rows, x) + Hits(final, alt, x)
      /\ Hits(rows, gone, x) \in Nat /\ Hits(final, alt, x) \in Nat
      /\ Count(final, x) \in Nat /\ Count(rows, x) \in Nat
  BY <1>8, KeptBalance
<1> QED
  BY <1>9 DEF rows

\* The rows a plan wants, and those of them that are not as the reader sees them.
Final(h, c, ops) == EditAll(VisibleRows(h, c), ops)
Alters(h, c, ops) == Altered(h, c, PlanTable(h, c, ops))

LEMMA PlanParts ==
  ASSUME NEW h, NEW at \in Nat, NEW n \in Nat, HistoryOK(h, at, n), NEW c \in Nat,
         NEW ops \in Seq(Operations), NEW old, old = Visible(h, c),
         NEW match, match = MatchRows(RowsOf(old), Final(h, c, ops))
  PROVE  /\ [i \in DOMAIN PlanTable(h, c, ops).wanted |-> PlanTable(h, c, ops).wanted[i].row]
               = Final(h, c, ops)
         /\ PlansOver(old, Final(h, c, ops), match, Alters(h, c, ops), Touched(h, c, ops))
<1>0. EntriesOK(Visible(h, c), h, c)
  BY EntriesOf
<1> DEFINE final == Final(h, c, ops)
           id(i) == RowId(old, final, match, i)
           plan == PlanTable(h, c, ops)
<1>1. RowsOf(old) \in Seq(Rows) /\ VisibleRows(h, c) = RowsOf(old)
  BY VisibleRowsType
<1>2. final = EditAll(RowsOf(old), ops)
  BY <1>1 DEF Final
<1>3. final \in Seq(Rows)
  <2> HIDE DEF final
  <2> QED
    BY <1>1, <1>2, EditAllType
<1>4. Matching(match, RowsOf(old), Len(final))
  <2> HIDE DEF final
  <2>1. match = MatchRows(RowsOf(old), final)
    BY DEF final
  <2> QED
    BY <1>1, <1>3, <2>1, MatchRowsIs
<1>5. plan = PlanOver(old, final, match)
  <2>1. plan = PlanOver(old, EditAll(RowsOf(old), ops), MatchRows(RowsOf(old), EditAll(RowsOf(old), ops)))
    BY DEF PlanTable
  <2> HIDE DEF plan, final
  <2> QED
    BY <1>2, <2>1 DEF final
<1>6. /\ DOMAIN old = 1 .. Len(VisibleInOrder(h, c)) /\ Len(VisibleInOrder(h, c)) \in Nat
      /\ \A p \in DOMAIN old : /\ old[p].id \in VisibleIds(h, c)
                               /\ old[p].version = VersionAt(h.rows[old[p].id], c)
      /\ \A p, q \in DOMAIN old : old[p].id = old[q].id => p = q
      /\ \A r \in VisibleIds(h, c) : \E p \in DOMAIN old : old[p].id = r
  BY <1>0 DEF EntriesOK
<1>7. PlanOK(plan, h, c)
  BY PlanTableIs
<1> HIDE DEF final, plan
<1>8. plan = [wanted  |-> [i \in DOMAIN final |-> [id |-> id(i), row |-> final[i]]],
              removed |-> {old[p].id : p \in DOMAIN old} \ {id(i) : i \in DOMAIN final}]
  BY <1>5, PlanOverIs
<1>9. /\ DOMAIN plan.wanted = DOMAIN final
      /\ \A i \in DOMAIN final : plan.wanted[i].id = id(i) /\ plan.wanted[i].row = final[i]
      /\ plan.removed = {old[p].id : p \in DOMAIN old} \ {id(i) : i \in DOMAIN final}
  BY <1>8
<1>10. [i \in DOMAIN plan.wanted |-> plan.wanted[i].row] = final
  BY <1>3, <1>9
<1>11. \A i \in DOMAIN final : id(i) \in VisibleIds(h, c) \cup {0}
  BY <1>7, <1>9 DEF PlanOK
<1> HIDE DEF id
<1>12. Alters(h, c, ops) = {i \in DOMAIN final :
                               \/ id(i) = 0
                               \/ \E p \in DOMAIN old : /\ old[p].id = id(i)
                                                        /\ final[i] # old[p].version.row}
  <2>1. Alters(h, c, ops) = {i \in DOMAIN final : id(i) = 0 \/ final[i] # RowOf(h, c, id(i))}
    <3>1. Alters(h, c, ops) = Altered(h, c, plan)
      BY DEF Alters, plan
    <3> QED
      BY <1>9, <3>1 DEF Altered
  <2>2. ASSUME NEW i \in DOMAIN final, id(i) # 0
        PROVE  final[i] # RowOf(h, c, id(i)) <=>
                  \E p \in DOMAIN old : old[p].id = id(i) /\ final[i] # old[p].version.row
    <3>1. PICK p \in DOMAIN old : old[p].id = id(i)
      BY <1>6, <1>11, <2>2
    <3>2. old[p].version.row = RowOf(h, c, id(i))
      BY <1>6, <3>1 DEF RowOf
    <3>3. \A q \in DOMAIN old : old[q].id = id(i) => q = p
      BY <1>6, <3>1
    <3> QED
      BY <3>1, <3>2, <3>3
  <2> QED
    BY <2>1, <2>2
<1>13. Touched(h, c, ops) =
          (({old[p].id : p \in DOMAIN old} \ {id(i) : i \in DOMAIN final})
             \cup {id(i) : i \in Alters(h, c, ops)}) \ {0}
  <2>1. Touched(h, c, ops) = (plan.removed \cup {plan.wanted[i].id : i \in Alters(h, c, ops)}) \ {0}
    BY DEF Touched, Alters, plan
  <2>2. Alters(h, c, ops) \subseteq DOMAIN final
    BY <1>12
  <2>3. {plan.wanted[i].id : i \in Alters(h, c, ops)} = {id(i) : i \in Alters(h, c, ops)}
    BY <1>9, <2>2
  <2> QED
    BY <1>9, <2>1, <2>3
<1> QED
  BY <1>3, <1>4, <1>10, <1>12, <1>13 DEF PlansOver, final, plan, id

\* The plan's balance: the rows wanted, with those touched, are the rows seen with
\* those altered.
LEMMA PlanBalance ==
  ASSUME NEW h, NEW at \in Nat, NEW n \in Nat, HistoryOK(h, at, n), NEW c \in Nat,
         NEW ops \in Seq(Operations)
  PROVE  /\ Final(h, c, ops) \in Seq(Rows) /\ Alters(h, c, ops) \in SUBSET DOMAIN Final(h, c, ops)
         /\ [i \in DOMAIN PlanTable(h, c, ops).wanted |-> PlanTable(h, c, ops).wanted[i].row]
               = Final(h, c, ops)
         /\ Touched(h, c, ops) \in SUBSET VisibleIds(h, c)
         /\ \A x : /\ Count(Final(h, c, ops), x) + Hits(VisibleRows(h, c), Gone(h, c, Touched(h, c, ops)), x)
                         = Count(VisibleRows(h, c), x) + Hits(Final(h, c, ops), Alters(h, c, ops), x)
                   /\ Hits(VisibleRows(h, c), Gone(h, c, Touched(h, c, ops)), x) \in Nat
                   /\ Hits(Final(h, c, ops), Alters(h, c, ops), x) \in Nat
                   /\ Count(Final(h, c, ops), x) \in Nat /\ Count(VisibleRows(h, c), x) \in Nat
<1>0. EntriesOK(Visible(h, c), h, c)
  BY EntriesOf
<1> DEFINE old == Visible(h, c)
           final == Final(h, c, ops)
           match == MatchRows(RowsOf(old), final)
           alt == Alters(h, c, ops)
           ids == Touched(h, c, ops)
           len == Len(VisibleInOrder(h, c))
           gone == Gone(h, c, ids)
<1>1. /\ final \in Seq(Rows) /\ alt \in SUBSET DOMAIN final
      /\ [i \in DOMAIN PlanTable(h, c, ops).wanted |-> PlanTable(h, c, ops).wanted[i].row] = final
      /\ PlansOver(old, final, match, alt, ids)
  <2> HIDE DEF old, match
  <2>1. old = Visible(h, c) /\ match = MatchRows(RowsOf(old), final)
    BY DEF old, match
  <2>2. /\ [i \in DOMAIN PlanTable(h, c, ops).wanted |-> PlanTable(h, c, ops).wanted[i].row] = final
        /\ PlansOver(old, final, match, alt, ids)
    BY <2>1, PlanParts
  <2> HIDE DEF final, alt, ids
  <2> QED
    BY <2>2 DEF PlansOver
<1>2. /\ DOMAIN old = 1 .. len /\ len \in Nat
      /\ \A p \in DOMAIN old : old[p].id \in VisibleIds(h, c)
      /\ \A p, q \in DOMAIN old : old[p].id = old[q].id => p = q
      /\ \A r \in VisibleIds(h, c) : \E p \in DOMAIN old : old[p].id = r
  BY <1>0 DEF EntriesOK
<1>3. VisibleIds(h, c) \subseteq Nat \ {0}
  <2>1. VisibleIds(h, c) \subseteq DOMAIN h.rows
    BY DEF VisibleIds
  <2>2. DOMAIN h.rows \subseteq 1 .. n
    BY DEF HistoryOK
  <2> QED
    BY <2>1, <2>2
<1>4. gone = {p \in DOMAIN old : old[p].id \in ids}
  BY DEF Gone
<1>5. VisibleRows(h, c) = RowsOf(old)
  BY DEF VisibleRows
<1>6. ids \in SUBSET VisibleIds(h, c)
  <2>1. PlanOK(PlanTable(h, c, ops), h, c)
    BY PlanTableIs
  <2> DEFINE plan == PlanTable(h, c, ops)
  <2>2. ids = (plan.removed \cup {plan.wanted[i].id : i \in Altered(h, c, plan)}) \ {0}
    BY DEF Touched
  <2> HIDE DEF plan, ids
  <2>3. Altered(h, c, plan) \subseteq DOMAIN plan.wanted
    BY DEF Altered
  <2> QED
    BY <2>1, <2>2, <2>3 DEF PlanOK, plan
<1> HIDE DEF old, final, match, alt, ids, len, gone
<1>7. \A p \in DOMAIN old : old[p].id \in Nat \ {0}
  BY <1>2, <1>3
<1>8. ASSUME NEW x
      PROVE  /\ Count(final, x) + Hits(RowsOf(old), gone, x) = Count(RowsOf(old), x) + Hits(final, alt, x)
             /\ Hits(RowsOf(old), gone, x) \in Nat /\ Hits(final, alt, x) \in Nat
             /\ Count(final, x) \in Nat /\ Count(RowsOf(old), x) \in Nat
  <2>1. DOMAIN old = 1 .. len /\ len \in Nat
    BY <1>2
  <2>2. /\ \A p \in DOMAIN old : old[p].id \in Nat \ {0}
        /\ \A p, q \in DOMAIN old : old[p].id = old[q].id => p = q
    BY <1>2, <1>7
  <2>3. PlansOver(old, final, match, alt, ids) /\ gone = {p \in DOMAIN old : old[p].id \in ids}
    BY <1>1, <1>4
  <2> QED
    BY <2>1, <2>2, <2>3, OverBalance
<1> QED
  BY <1>1, <1>5, <1>6, <1>8 DEF old, final, match, alt, ids, gone

(***************************************************************************)
(* What the merged operations do to the rows of a table.                   *)
(***************************************************************************)

LEMMA HeapAppend ==
  ASSUME NEW h \in Heaps, NEW ops \in Seq(Operations), NEW op \in Operations
  PROVE  /\ HeapAfterAll(h, ops) \in Heaps
         /\ HeapAfterAll(h, Append(ops, op)) = HeapAfter(HeapAfterAll(h, ops), op)
         /\ HeapAfterAll(h, Append(ops, op))[op.table] = EditRows(HeapAfterAll(h, ops)[op.table], op)
<1> DEFINE all == Append(ops, op)
           n == Len(ops)
<1>1. /\ all \in Seq(Operations) /\ Len(all) = n + 1 /\ n \in Nat /\ all[n + 1] = op
      /\ SubSeq(all, 1, n) = ops
  OBVIOUS
<1>2. HeapAfterAll(h, ops) \in Heaps
  BY HeapAfterAllType
<1> HIDE DEF all, n
<1>3. PICK g : Applied(g, h, all)
  BY <1>1, AppliedExists
<1>4. HeapAfterAll(h, all) = g[n + 1]
  BY <1>1, <1>3, AppliedEnd
<1>5. n \in 0 .. Len(all) /\ n + 1 \in 1 .. Len(all) /\ n + 1 - 1 = n
  BY <1>1
<1>6. HeapAfterAll(h, SubSeq(all, 1, n)) = g[n]
  BY <1>3, <1>5 DEF Applied
<1>7. g[n + 1] = HeapAfter(g[n], op)
  BY <1>1, <1>3, <1>5 DEF Applied
<1>8. HeapAfterAll(h, all) = HeapAfter(HeapAfterAll(h, ops), op)
  BY <1>1, <1>4, <1>6, <1>7
<1>9. op.table \in Tables
  BY DEF Operations
<1>10. HeapAfterAll(h, all)[op.table] = EditRows(HeapAfterAll(h, ops)[op.table], op)
  <2> DEFINE a == HeapAfterAll(h, ops)
  <2>1. a \in Heaps
    BY <1>2
  <2> HIDE DEF a
  <2>2. HeapAfter(a, op)[op.table] = EditRows(a[op.table], op)
    BY <1>9, <2>1 DEF HeapAfter, Heaps
  <2> QED
    BY <1>8, <2>2 DEF a
<1> QED
  BY <1>2, <1>8, <1>10 DEF all

\* A delete by keys that identify the victims leaves the other rows.
LEMMA KeyedDelete ==
  ASSUME NEW rows, NEW V \in SUBSET DOMAIN rows,
         \A p \in V, q \in DOMAIN rows : p # q => rows[p].id # rows[q].id,
         NEW op, op.kind = "delete", op.ids = {rows[p].id : p \in V},
         DOMAIN rows \subseteq Nat \ {0}, \A p \in DOMAIN rows : 1 .. p - 1 \subseteq DOMAIN rows
  PROVE  EditRows(rows, op) = PickAt(rows, DOMAIN rows \ V)
<1>1. ASSUME NEW i \in DOMAIN rows
      PROVE  (rows[i].id \in op.ids /\ \A j \in 1 .. i - 1 : rows[j].id # rows[i].id) <=> i \in V
  <2>1. CASE i \in V
    <3>1. \A j \in 1 .. i - 1 : j \in DOMAIN rows /\ j # i
      <4>1. i \in Nat
        OBVIOUS
      <4> QED
        BY <4>1
    <3> QED
      BY <2>1, <3>1
  <2>2. CASE i \notin V
    BY <2>2
  <2> QED
    BY <2>1, <2>2
<1>2. {i \in DOMAIN rows : ~ /\ rows[i].id \in op.ids
                             /\ \A j \in 1 .. i - 1 : rows[j].id # rows[i].id} = DOMAIN rows \ V
  BY <1>1
<1> QED
  BY <1>2 DEF EditRows

LEMMA MergeOverCounts ==
  ASSUME NEW tb \in Tables, NEW cur, RowsOf(cur) \in Seq(Rows), DOMAIN RowsOf(cur) = DOMAIN cur,
         NEW removed, NEW appended \in Seq(Rows), NEW h \in Heaps, NEW y \in Seq(Operations),
         HeapAfterAll(h, y)[tb] = RowsOf(cur),
         NEW x, x = MergeOver(tb, cur, removed, appended),
         NEW V, V = {p \in DOMAIN cur : cur[p].id \in removed}, NEW r
  PROVE  /\ Count(HeapAfterAll(h, y \o x)[tb], r) + Hits(RowsOf(cur), V, r)
               = Count(RowsOf(cur), r) + Count(appended, r)
         /\ Hits(RowsOf(cur), V, r) \in Nat
<1> DEFINE rows == RowsOf(cur)
           row(p) == cur[p].version.row
           victims == {p \in DOMAIN cur : cur[p].id \in removed}
           others  == DOMAIN cur \ victims
           keyed   == /\ \A p \in victims : row(p).id # NoId
                      /\ \A p \in victims, q \in DOMAIN cur :
                            p # q => row(p).id # row(q).id
           Op(kind, r0, i) == [kind |-> kind, table |-> tb, rows |-> r0, ids |-> i]
           D == Op("delete", << >>, {row(p).id : p \in victims})
           U == Op("upsert", appended, {})
           left == PickAt(RowsOf(cur), others)
           R == Op("replace", left \o appended, {})
           G(z) == HeapAfterAll(h, z)[tb]
<1>1. x = IF removed = {} /\ appended = << >> THEN << >>
          ELSE IF keyed
          THEN (IF victims = {} THEN << >> ELSE <<D>>) \o (IF appended = << >> THEN << >> ELSE <<U>>)
          ELSE <<R>>
  BY DEF MergeOver
<1>2. rows \in Seq(Rows) /\ DOMAIN rows = DOMAIN cur /\ \A p \in DOMAIN cur : rows[p] = row(p)
  BY DEF RowsOf
<1>3. victims \in SUBSET DOMAIN cur /\ V = victims /\ (removed = {} => victims = {})
  OBVIOUS
<1>4. left \in Seq(Rows) /\ Count(left, r) = Hits(rows, others, r)
  <2>1. others \in SUBSET DOMAIN rows
    BY <1>2
  <2> HIDE DEF others, rows
  <2>2. left = PickAt(rows, others)
    BY DEF rows
  <2> HIDE DEF left
  <2> QED
    BY <1>2, <2>1, <2>2, PickAtIs, CountPick
<1>5. /\ D \in Operations /\ U \in Operations /\ R \in Operations
      /\ D.table = tb /\ U.table = tb /\ R.table = tb
  <2>1. {row(p).id : p \in victims} \in SUBSET Nat
    <3>1. \A p \in DOMAIN cur : row(p) \in Rows
      BY <1>2
    <3> QED
      BY <1>3, <3>1 DEF Rows
  <2>2. << >> \in Seq(Rows)
    OBVIOUS
  <2>3. left \o appended \in Seq(Rows)
    <3> HIDE DEF left
    <3> QED
      BY <1>4
  <2> HIDE DEF left
  <2> QED
    BY <2>1, <2>2, <2>3 DEF Operations
<1>6. keyed => EditRows(rows, D) = left
  <2> SUFFICES ASSUME keyed PROVE EditRows(rows, D) = left
    OBVIOUS
  <2>1. \A p \in victims, q \in DOMAIN rows : p # q => rows[p].id # rows[q].id
    BY <1>2, <1>3
  <2>2. D.kind = "delete" /\ D.ids = {rows[p].id : p \in victims}
    BY <1>2, <1>3
  <2>3. victims \in SUBSET DOMAIN rows
    BY <1>2, <1>3
  <2>4. DOMAIN rows \subseteq Nat \ {0} /\ \A p \in DOMAIN rows : 1 .. p - 1 \subseteq DOMAIN rows
    <3> HIDE DEF rows
    <3>1. DOMAIN rows = 1 .. Len(rows) /\ Len(rows) \in Nat
      BY <1>2, SeqDomain
    <3> QED
      BY <3>1
  <2>5. left = PickAt(rows, DOMAIN rows \ victims)
    BY <1>2
  <2> HIDE DEF D, rows, left, victims, keyed
  <2>6. EditRows(rows, D) = PickAt(rows, DOMAIN rows \ victims)
    BY <2>1, <2>2, <2>3, <2>4, KeyedDelete
  <2> QED
    BY <2>5, <2>6
<1>7. \A q : EditRows(q, U) = q \o appended
  BY DEF EditRows
<1>8. EditRows(rows, R) = left \o appended
  BY DEF EditRows
<1>9. others = DOMAIN rows \ victims /\ (victims = {} => others = DOMAIN rows)
  BY <1>2
<1>10. G(y) = rows
  OBVIOUS
<1> HIDE DEF D, U, R, keyed, victims, left, others, rows
<1>11. \/ x = << >> /\ victims = {} /\ appended = << >>
       \/ x = <<D>> /\ keyed /\ appended = << >>
       \/ x = <<U>> /\ victims = {}
       \/ x = <<D>> \o <<U>> /\ keyed
       \/ x = <<R>>
  <2>1. << >> \o << >> = << >> /\ << >> \o <<U>> = <<U>> /\ <<D>> \o << >> = <<D>>
    OBVIOUS
  <2> HIDE DEF Op, row
  <2> QED
    BY <1>1, <1>3, <2>1, Zenon
<1> HIDE DEF Op, row
<1>12. \A op \in Operations : op.table = tb => G(Append(y, op)) = EditRows(rows, op)
  <2> SUFFICES ASSUME NEW op \in Operations, op.table = tb
               PROVE  G(Append(y, op)) = EditRows(rows, op)
    OBVIOUS
  <2>1. HeapAfterAll(h, Append(y, op))[op.table] = EditRows(HeapAfterAll(h, y)[op.table], op)
    BY HeapAppend
  <2> QED
    BY <1>10, <2>1
<1>13. y \o << >> = y /\ y \o <<D>> = Append(y, D) /\ y \o <<U>> = Append(y, U)
       /\ y \o <<R>> = Append(y, R) /\ y \o (<<D>> \o <<U>>) = Append(Append(y, D), U)
  OBVIOUS
<1>14. /\ Count(<< >>, r) = 0
       /\ Count(left \o appended, r) = Count(left, r) + Count(appended, r)
       /\ Count(rows \o appended, r) = Count(rows, r) + Count(appended, r)
       /\ Count(appended, r) \in Nat /\ Count(left, r) \in Nat /\ Count(rows, r) \in Nat
  <2>1. Count(<< >>, r) = 0
    <3>1. {i \in DOMAIN << >> : << >>[i] = r} = {}
      OBVIOUS
    <3> QED
      BY <3>1, FS_EmptySet DEF Count
  <2> QED
    BY <1>2, <1>4, <2>1, CountConcat, SeqDomain
<1>15. victims = {} => Hits(rows, others, r) = Count(rows, r)
  BY <1>9, CountHits
<1>16. Count(G(y \o x), r) = Hits(rows, others, r) + Count(appended, r)
  <2>1. CASE x = << >> /\ victims = {} /\ appended = << >>
    BY <1>10, <1>13, <1>14, <1>15, <2>1
  <2>2. CASE x = <<D>> /\ keyed /\ appended = << >>
    <3>1. G(y \o x) = left
      BY <1>5, <1>6, <1>12, <1>13, <2>2
    <3> QED
      BY <1>4, <1>14, <2>2, <3>1
  <2>3. CASE x = <<U>> /\ victims = {}
    <3>1. G(y \o x) = rows \o appended
      BY <1>5, <1>7, <1>12, <1>13, <2>3
    <3> QED
      BY <1>14, <1>15, <2>3, <3>1
  <2>4. CASE x = <<D>> \o <<U>> /\ keyed
    <3> DEFINE z == Append(y, D)
    <3>1. z \in Seq(Operations) /\ G(z) = left
      BY <1>5, <1>6, <1>12, <2>4
    <3>2. y \o x = Append(z, U)
      BY <1>13, <2>4
    <3> HIDE DEF z
    <3>3. HeapAfterAll(h, Append(z, U))[U.table] = EditRows(HeapAfterAll(h, z)[U.table], U)
      BY <1>5, <3>1, HeapAppend
    <3>4. G(y \o x) = left \o appended
      BY <1>5, <1>7, <3>1, <3>2, <3>3
    <3> QED
      BY <1>4, <1>14, <3>4
  <2>5. CASE x = <<R>>
    <3>1. G(y \o x) = left \o appended
      BY <1>5, <1>8, <1>12, <1>13, <2>5
    <3> QED
      BY <1>4, <1>14, <3>1
  <2> QED
    BY <1>11, <2>1, <2>2, <2>3, <2>4, <2>5
<1>17. /\ Count(rows, r) = Hits(rows, V, r) + Hits(rows, others, r)
       /\ Hits(rows, V, r) \in Nat /\ Hits(rows, others, r) \in Nat
  <2>1. IsFiniteSet(DOMAIN rows) /\ victims \in SUBSET DOMAIN rows
    BY <1>2, <1>3, SeqDomain
  <2> DEFINE A == DOMAIN rows
  <2>2. IsFiniteSet(A) /\ victims \in SUBSET A /\ others = A \ victims
    BY <1>9, <2>1
  <2> HIDE DEF A
  <2>3. /\ Hits(rows, A, r) = Hits(rows, victims, r) + Hits(rows, A \ victims, r)
        /\ Hits(rows, victims, r) \in Nat /\ Hits(rows, A \ victims, r) \in Nat
    BY <2>2, HitsSplit
  <2>4. Count(rows, r) = Hits(rows, A, r)
    BY CountHits DEF A
  <2> QED
    BY <1>3, <2>2, <2>3, <2>4
<1> QED
  BY <1>14, <1>16, <1>17 DEF rows

\* Rows seen alike at two points occur equally often there.
LEMMA GoneSame ==
  ASSUME NEW h, NEW at \in Nat, NEW n \in Nat, HistoryOK(h, at, n), NEW c \in Nat, NEW d \in Nat,
         NEW ids, \A r \in ids : /\ r \in VisibleIds(h, c) /\ r \in VisibleIds(h, d)
                                 /\ RowOf(h, c, r) = RowOf(h, d, r),
         NEW x
  PROVE  Hits(VisibleRows(h, c), Gone(h, c, ids), x) = Hits(VisibleRows(h, d), Gone(h, d, ids), x)
<1> DEFINE a == Visible(h, c)
           b == Visible(h, d)
           A == Gone(h, c, ids)
           B == Gone(h, d, ids)
           s == VisibleRows(h, c)
           u == VisibleRows(h, d)
<1>1. EntriesOK(a, h, c) /\ EntriesOK(b, h, d)
  BY EntriesOf
<1>2. /\ A = {p \in DOMAIN a : a[p].id \in ids} /\ B = {p \in DOMAIN b : b[p].id \in ids}
      /\ s = RowsOf(a) /\ u = RowsOf(b)
  BY DEF Gone, VisibleRows
<1> HIDE DEF a, b, A, B, s, u
<1>3. /\ \A p \in A : p \in DOMAIN a /\ a[p].id \in ids /\ s[p] = RowOf(h, c, a[p].id)
      /\ \A p \in B : p \in DOMAIN b /\ b[p].id \in ids /\ u[p] = RowOf(h, d, b[p].id)
  BY <1>1, <1>2 DEF EntriesOK, RowsOf, RowOf
<1>4. /\ \A r \in ids : \E p \in A : a[p].id = r
      /\ \A r \in ids : \E p \in B : b[p].id = r
      /\ \A p, q \in A : a[p].id = a[q].id => p = q
      /\ \A p, q \in B : b[p].id = b[q].id => p = q
  BY <1>1, <1>2 DEF EntriesOK
<1> DEFINE f == [p \in A |-> CHOOSE q \in B : b[q].id = a[p].id]
<1>5. \A p \in A : f[p] \in B /\ b[f[p]].id = a[p].id
  BY <1>3, <1>4
<1>6. f \in [A -> B]
  BY <1>5
<1> HIDE DEF f
<1>7. \A p \in A : u[f[p]] = s[p]
  BY <1>3, <1>5
<1>8. \A p, q \in A : f[p] = f[q] => p = q
  BY <1>4, <1>5
<1>9. \A q \in B : \E p \in A : f[p] = q
  <2> SUFFICES ASSUME NEW q \in B PROVE \E p \in A : f[p] = q
    OBVIOUS
  <2>1. PICK p \in A : a[p].id = b[q].id
    BY <1>3, <1>4
  <2> QED
    BY <1>4, <1>5, <2>1
<1>10. IsFiniteSet(A)
  <2>1. IsFiniteSet(DOMAIN a)
    BY <1>1, FS_Interval DEF EntriesOK
  <2> QED
    BY <1>2, <2>1, FS_Subset
<1>11. Hits(s, A, x) = Hits(u, B, x)
  BY <1>6, <1>7, <1>8, <1>9, <1>10, HitsMapped
<1> QED
  BY <1>11 DEF s, u, A, B

\* Rows whose keys are locked and not stale merge exactly.
LEMMA MergeTableCounts ==
  ASSUME NEW h, NEW at \in Nat, NEW n \in Nat, HistoryOK(h, at, n),
         NEW s \in Nat, NEW c \in Nat, NEW ops \in Seq(Operations), NEW tb \in Tables,
         \A r \in Touched(h, s, ops) : r \in VisibleIds(h, c) /\ RowOf(h, c, r) = RowOf(h, s, r),
         NEW g \in Heaps, NEW y \in Seq(Operations), HeapAfterAll(g, y)[tb] = VisibleRows(h, c),
         NEW x
  PROVE  Count(HeapAfterAll(g, y \o MergeTable(h, tb, s, c, ops))[tb], x) + Count(VisibleRows(h, s), x)
            = Count(VisibleRows(h, c), x) + Count(Final(h, s, ops), x)
<1>0. /\ Final(h, s, ops) \in Seq(Rows) /\ Alters(h, s, ops) \in SUBSET DOMAIN Final(h, s, ops)
      /\ [i \in DOMAIN PlanTable(h, s, ops).wanted |-> PlanTable(h, s, ops).wanted[i].row]
            = Final(h, s, ops)
      /\ Touched(h, s, ops) \in SUBSET VisibleIds(h, s)
      /\ \A z : /\ Count(Final(h, s, ops), z) + Hits(VisibleRows(h, s), Gone(h, s, Touched(h, s, ops)), z)
                      = Count(VisibleRows(h, s), z) + Hits(Final(h, s, ops), Alters(h, s, ops), z)
                /\ Hits(VisibleRows(h, s), Gone(h, s, Touched(h, s, ops)), z) \in Nat
                /\ Hits(Final(h, s, ops), Alters(h, s, ops), z) \in Nat
                /\ Count(Final(h, s, ops), z) \in Nat /\ Count(VisibleRows(h, s), z) \in Nat
  BY PlanBalance
<1> DEFINE plan == PlanTable(h, s, ops)
           altered == Altered(h, s, plan)
           wishes == [i \in DOMAIN plan.wanted |-> plan.wanted[i].row]
           removed == (plan.removed \cup {plan.wanted[i].id : i \in altered}) \ {0}
           appended == PickAt(wishes, altered)
           cur == Visible(h, c)
           merged == MergeTable(h, tb, s, c, ops)
           final == Final(h, s, ops)
           alt == Alters(h, s, ops)
           ids == Touched(h, s, ops)
           seen == VisibleRows(h, s)
           now == VisibleRows(h, c)
           V == Gone(h, c, ids)
           W == Gone(h, s, ids)
<1>1. /\ final \in Seq(Rows) /\ alt \in SUBSET DOMAIN final
      /\ [i \in DOMAIN PlanTable(h, s, ops).wanted |-> PlanTable(h, s, ops).wanted[i].row] = final
      /\ ids \in SUBSET VisibleIds(h, s)
      /\ Count(final, x) + Hits(seen, W, x) = Count(seen, x) + Hits(final, alt, x)
      /\ Hits(seen, W, x) \in Nat /\ Hits(final, alt, x) \in Nat
      /\ Count(final, x) \in Nat /\ Count(seen, x) \in Nat
  BY <1>0
<1>2. merged = MergeOver(tb, cur, removed, appended)
  BY DEF MergeTable
<1>3. removed = ids
  BY DEF Touched
<1>4. wishes = final /\ altered = alt
  BY <1>1 DEF Alters
<1> HIDE DEF final, alt
<1>5. appended \in Seq(Rows) /\ Count(appended, x) = Hits(final, alt, x)
  <2> HIDE DEF wishes, altered
  <2>1. appended = PickAt(final, alt)
    BY <1>4
  <2> HIDE DEF appended
  <2> QED
    BY <1>1, <2>1, PickAtIs, CountPick
<1>6. RowsOf(cur) \in Seq(Rows) /\ DOMAIN RowsOf(cur) = DOMAIN cur /\ now = RowsOf(cur)
  BY VisibleRowsType DEF VisibleRows
<1>7. V = {p \in DOMAIN cur : cur[p].id \in removed}
  BY <1>3 DEF Gone
<1>8. Hits(now, V, x) = Hits(seen, W, x)
  <2>1. \A r \in ids : /\ r \in VisibleIds(h, c) /\ r \in VisibleIds(h, s)
                       /\ RowOf(h, c, r) = RowOf(h, s, r)
    BY <1>1
  <2> HIDE DEF ids
  <2> QED
    BY <2>1, GoneSame
<1> HIDE DEF plan, altered, wishes, removed, appended, cur, merged, ids, seen, V, W
<1>9. HeapAfterAll(g, y)[tb] = RowsOf(cur)
  BY <1>6
<1> HIDE DEF now
<1>10. /\ Count(HeapAfterAll(g, y \o merged)[tb], x) + Hits(RowsOf(cur), V, x)
             = Count(RowsOf(cur), x) + Count(appended, x)
       /\ Hits(RowsOf(cur), V, x) \in Nat
  BY <1>2, <1>5, <1>6, <1>7, <1>9, MergeOverCounts
<1>11. Count(now, x) \in Nat
  BY <1>6, SeqDomain
<1>12. Count(HeapAfterAll(g, y \o merged)[tb], x) \in Nat
  <2>1. y \o merged \in Seq(Operations)
    <3>1. merged \in Seq({op \in Operations : op.table = tb})
      BY MergeTableIs DEF merged
    <3>2. merged \in Seq(Operations)
      BY <3>1, SeqWider
    <3> QED
      BY <3>2
  <2> DEFINE z == y \o merged
  <2>2. z \in Seq(Operations)
    BY <2>1
  <2> HIDE DEF z
  <2>3. HeapAfterAll(g, z) \in Heaps
    BY <2>2, HeapAfterAllType
  <2>4. HeapAfterAll(g, z)[tb] \in Seq(Rows)
    BY <2>3 DEF Heaps
  <2>5. Count(HeapAfterAll(g, z)[tb], x) \in Nat
    BY <2>4, SeqDomain
  <2> QED
    BY <2>5 DEF z
<1>13. Count(HeapAfterAll(g, y \o merged)[tb], x) + Count(seen, x) = Count(now, x) + Count(final, x)
  <2> DEFINE a == Count(HeapAfterAll(g, y \o merged)[tb], x)
             b == Count(now, x)
             e == Count(appended, x)
             k == Hits(seen, W, x)
             fin == Count(final, x)
             old == Count(seen, x)
  <2>1. a \in Nat /\ b \in Nat /\ e \in Nat /\ k \in Nat /\ fin \in Nat /\ old \in Nat
    BY <1>1, <1>5, <1>11, <1>12
  <2>2. fin + k = old + e
    BY <1>1, <1>5
  <2>3. a + k = b + e
    BY <1>6, <1>8, <1>10
  <2> HIDE DEF a, b, e, k, fin, old
  <2>4. a + old = b + fin
    BY <2>1, <2>2, <2>3
  <2> QED
    BY <2>4 DEF a, old, b, fin
<1> QED
  BY <1>13 DEF merged, seen, now, final

(***************************************************************************)
(* The merged operations of a whole commit.                                *)
(***************************************************************************)

\* Operations on other tables leave a table's rows alone.
LEMMA OthersLeave ==
  ASSUME NEW h \in Heaps, NEW z \in Seq(Operations), NEW w \in Seq(Operations),
         NEW tb \in Tables, tb \notin TablesOf(w)
  PROVE  HeapAfterAll(h, z \o w)[tb] = HeapAfterAll(h, z)[tb]
<1> DEFINE n == Len(w)
           part(k) == z \o SubSeq(w, 1, k)
           P == {k \in 0 .. n : HeapAfterAll(h, part(k))[tb] = HeapAfterAll(h, z)[tb]}
<1>1. n \in Nat /\ part(0) = z /\ part(n) = z \o w
  OBVIOUS
<1>2. \A k \in 0 .. n - 1 : /\ part(k) \in Seq(Operations) /\ part(k + 1) = Append(part(k), w[k + 1])
                            /\ w[k + 1] \in Operations /\ w[k + 1].table # tb
  <2> SUFFICES ASSUME NEW k \in 0 .. n - 1
               PROVE  /\ part(k) \in Seq(Operations) /\ part(k + 1) = Append(part(k), w[k + 1])
                      /\ w[k + 1] \in Operations /\ w[k + 1].table # tb
    OBVIOUS
  <2>1. k + 1 \in DOMAIN w /\ k \in Nat
    OBVIOUS
  <2>2. w[k + 1].table # tb /\ w[k + 1] \in Operations
    BY <2>1 DEF TablesOf
  <2>3. SubSeq(w, 1, k + 1) = Append(SubSeq(w, 1, k), w[k + 1]) /\ SubSeq(w, 1, k) \in Seq(Operations)
    BY <2>1
  <2> DEFINE u == SubSeq(w, 1, k)
             e == w[k + 1]
  <2>4. SubSeq(w, 1, k + 1) = Append(u, e) /\ u \in Seq(Operations) /\ e \in Operations
    BY <2>2, <2>3
  <2> HIDE DEF u, e
  <2>5. z \o Append(u, e) = Append(z \o u, e) /\ z \o u \in Seq(Operations)
    BY <2>4
  <2> QED
    BY <2>2, <2>4, <2>5 DEF u, e
<1> HIDE DEF part, n
<1>3. 0 \in P
  BY <1>1
<1>4. ASSUME NEW k \in 0 .. n - 1, k \in P
      PROVE  k + 1 \in P
  <2> DEFINE y == part(k)
             op == w[k + 1]
  <2>1. y \in Seq(Operations) /\ op \in Operations /\ op.table # tb
    BY <1>2
  <2>2. part(k + 1) = Append(y, op)
    BY <1>2
  <2> HIDE DEF y, op
  <2>3. /\ HeapAfterAll(h, y) \in Heaps
        /\ HeapAfterAll(h, Append(y, op)) = HeapAfter(HeapAfterAll(h, y), op)
    BY <2>1, HeapAppend
  <2>4. HeapAfter(HeapAfterAll(h, y), op)[tb] = HeapAfterAll(h, y)[tb]
    BY <2>1, <2>3, HeapAfterType
  <2>5. HeapAfterAll(h, part(k + 1))[tb] = HeapAfterAll(h, part(k))[tb]
    BY <2>2, <2>3, <2>4 DEF y
  <2>6. k + 1 \in 0 .. n
    BY <1>1
  <2> QED
    BY <1>4, <2>5, <2>6
<1> HIDE DEF P
<1>5. \A k \in 0 .. n : k \in P
  BY <1>1, <1>3, <1>4, BoundedInduction, Zenon
<1>6. n \in P
  BY <1>1, <1>5
<1> QED
  BY <1>1, <1>6 DEF P

\* Without operations on a table its rows stay.
LEMMA NoEdit ==
  ASSUME NEW rows, NEW plan \in Seq(Operations), NEW tb, tb \notin TablesOf(plan)
  PROVE  EditAll(rows, OpsOn(plan, tb)) = rows
<1> DEFINE ops == OpsOn(plan, tb)
           S == {i \in DOMAIN plan : plan[i].table = tb}
<1>1. S = {}
  BY DEF TablesOf
<1>2. ops = << >>
  <2>1. ops = PickAt(plan, S)
    BY DEF OpsOn
  <2>2. S \in SUBSET DOMAIN plan
    OBVIOUS
  <2> HIDE DEF ops, S
  <2> QED
    BY <1>1, <2>1, <2>2, PickAtIs
<1> DEFINE Is(f) == f = [n \in 0 .. Len(ops) |->
                            IF n = 0 THEN rows ELSE EditRows(f[n - 1], ops[n])]
           g == CHOOSE f : Is(f)
           e == [n \in {0} |-> rows]
<1>3. EditAll(rows, ops) = g[Len(ops)]
  BY DEF EditAll
<1> HIDE DEF ops
<1>4. Len(ops) = 0
  BY <1>2
<1>5. Is(e)
  <2>1. 0 .. Len(ops) = {0}
    BY <1>4
  <2> QED
    BY <2>1
<1>6. Is(g)
  <2> HIDE DEF Is
  <2> QED
    BY <1>5
<1>7. g[0] = rows
  <2> HIDE DEF g
  <2> QED
    BY <1>4, <1>6
<1> QED
  BY <1>3, <1>4, <1>7 DEF ops

\* The operations z give table tb the rows of the heap, edited as transaction t
\* edited the rows it saw.
Exact(t, z, tb) ==
    \A x : Count(HeapAfterAll(heap, z)[tb], x) + Count(view[t][tb], x)
              = Count(heap[tb], x) + Count(Intended(t, tb), x)

\* What a transaction that passes the checks of the commit knows of its tables.
LEMMA CommitFacts ==
  ASSUME HeldInv, NEW t \in Tx, Committing(t), CommitReady(t)
  PROVE  /\ ~ recovery /\ txs[t].plan \in Seq(Operations) /\ txs[t].snapshot \in Nat
         /\ durable.csn \in Nat /\ durable.next_row \in Nat
         /\ TablesOK(durable.tables, durable.csn, durable.next_row)
         /\ heap \in Heaps /\ view[t] \in Heaps
         /\ TablesOf(txs[t].plan) \subseteq DOMAIN durable.tables
         /\ \A tb \in TablesOf(txs[t].plan) :
               /\ VisibleRows(durable.tables[tb], durable.csn) = heap[tb]
               /\ VisibleRows(durable.tables[tb], txs[t].snapshot) = view[t][tb]
               /\ \A r \in Touched(durable.tables[tb], txs[t].snapshot, OpsOn(txs[t].plan, tb)) :
                     ~ Stale(t, RowKey(tb, r))
<1> DEFINE plan == txs[t].plan
           T == TablesOf(plan)
<1>1. /\ StateInv /\ HeldFor(t)
  BY DEF HeldInv, HeldOK, SerialInv
<1>2. /\ ~ recovery /\ committer.token = durable.csn /\ T \subseteq DOMAIN durable.tables
      /\ \A k \in txs[t].held : ~ Stale(t, k)
  BY DEF CommitReady, Valid
<1>3. txs[t].status = "active" /\ T \subseteq Catalog(schemas)
  BY <1>1, <1>2 DEF StateInv, CommitOK
<1>4. plan \in Seq(Operations) /\ txs[t].snapshot \in Nat
  BY <1>1, WorkOf
<1>5. /\ durable.csn \in Nat /\ durable.next_row \in Nat
      /\ TablesOK(durable.tables, durable.csn, durable.next_row)
      /\ heap \in Heaps /\ view[t] \in Heaps
  BY <1>1 DEF StateInv, DurableOK, HeapOK, SnapshotsOK
<1>6. Covers(durable.tables, txs[t].snapshot, plan, txs[t].held)
  BY <1>1, <1>3 DEF HeldFor
<1>7. T \subseteq Tables
  BY <1>3 DEF Catalog
<1> HIDE DEF plan, T
<1>8. ASSUME NEW tb \in T
      PROVE  /\ VisibleRows(durable.tables[tb], durable.csn) = heap[tb]
             /\ VisibleRows(durable.tables[tb], txs[t].snapshot) = view[t][tb]
             /\ \A r \in Touched(durable.tables[tb], txs[t].snapshot, OpsOn(plan, tb)) :
                   ~ Stale(t, RowKey(tb, r))
  <2>1. tb \in Tables /\ tb \in DOMAIN durable.tables /\ tb \in Catalog(schemas)
    BY <1>2, <1>3, <1>7
  <2>2. VisibleRows(durable.tables[tb], durable.csn) = heap[tb]
    BY <1>1, <1>2, <2>1 DEF StateInv, HeapOK, InSync
  <2>3. view[t][tb] = ReadAt(durable.tables, tb, txs[t].snapshot)
    BY <1>1, <1>3, <2>1 DEF StateInv, SnapshotsOK
  <2>4. VisibleRows(durable.tables[tb], txs[t].snapshot) = view[t][tb]
    BY <2>1, <2>3 DEF ReadAt
  <2>5. ASSUME NEW r \in Touched(durable.tables[tb], txs[t].snapshot, OpsOn(plan, tb))
        PROVE  ~ Stale(t, RowKey(tb, r))
    <3>1. RowKey(tb, r) \in txs[t].held
      BY <1>6, <2>1 DEF Covers, T
    <3> QED
      BY <1>2, <3>1
  <2> QED
    BY <2>2, <2>4, <2>5
<1> QED
  BY <1>2, <1>4, <1>5, <1>8 DEF plan, T

\* One table of the merge, after operations on other tables.
LEMMA TableExact ==
  ASSUME HeldInv, NEW t \in Tx, Committing(t), CommitReady(t), NEW tb \in TablesOf(txs[t].plan),
         NEW z \in Seq(Operations), tb \notin TablesOf(z)
  PROVE  Exact(t, z \o MergeTable(durable.tables[tb], tb, txs[t].snapshot, durable.csn,
                                  OpsOn(txs[t].plan, tb)), tb)
<1>1. /\ ~ recovery /\ txs[t].plan \in Seq(Operations) /\ txs[t].snapshot \in Nat
      /\ durable.csn \in Nat /\ durable.next_row \in Nat
      /\ TablesOK(durable.tables, durable.csn, durable.next_row)
      /\ heap \in Heaps /\ view[t] \in Heaps
      /\ TablesOf(txs[t].plan) \subseteq DOMAIN durable.tables
      /\ \A u \in TablesOf(txs[t].plan) :
            /\ VisibleRows(durable.tables[u], durable.csn) = heap[u]
            /\ VisibleRows(durable.tables[u], txs[t].snapshot) = view[t][u]
            /\ \A r \in Touched(durable.tables[u], txs[t].snapshot, OpsOn(txs[t].plan, u)) :
                  ~ Stale(t, RowKey(u, r))
  BY CommitFacts
<1> DEFINE h == durable.tables[tb]
           s == txs[t].snapshot
           c == durable.csn
           n == durable.next_row
           ops == OpsOn(txs[t].plan, tb)
           w == MergeTable(h, tb, s, c, ops)
<1>2. /\ s \in Nat /\ c \in Nat /\ n \in Nat /\ tb \in DOMAIN durable.tables
      /\ VisibleRows(h, c) = heap[tb] /\ VisibleRows(h, s) = view[t][tb]
      /\ \A r \in Touched(h, s, ops) : ~ Stale(t, RowKey(tb, r))
  BY <1>1
<1>3. HistoryOK(h, c, n)
  BY <1>1, <1>2 DEF TablesOK
<1>4. tb \in Tables /\ ops \in Seq(Operations)
  BY <1>1, OperationsOf
<1>5. Final(h, s, ops) = Intended(t, tb)
  BY <1>2 DEF Final, Intended
<1>6. StateInv
  BY DEF HeldInv, SerialInv
<1> HIDE DEF ops
<1>7. Touched(h, s, ops) \in SUBSET VisibleIds(h, s)
  <2> HIDE DEF h, s, c, n
  <2> QED
    BY <1>2, <1>3, <1>4, PlanBalance
<1>8. \A r \in Touched(h, s, ops) : r \in VisibleIds(h, c) /\ RowOf(h, c, r) = RowOf(h, s, r)
  BY <1>2, <1>6, <1>7, CurrentRow
<1>9. HeapAfterAll(heap, z)[tb] = heap[tb]
  BY <1>1, <1>4, HeapAfterAllType
<1>10. ASSUME NEW x
       PROVE  Count(HeapAfterAll(heap, z \o w)[tb], x) + Count(view[t][tb], x)
                 = Count(heap[tb], x) + Count(Intended(t, tb), x)
  <2> HIDE DEF h, s, c, n
  <2>1. HeapAfterAll(heap, z)[tb] = VisibleRows(h, c) /\ heap \in Heaps
    BY <1>1, <1>2, <1>9
  <2>2. Count(HeapAfterAll(heap, z \o MergeTable(h, tb, s, c, ops))[tb], x) + Count(VisibleRows(h, s), x)
           = Count(VisibleRows(h, c), x) + Count(Final(h, s, ops), x)
    BY <1>2, <1>3, <1>4, <1>8, <2>1, MergeTableCounts
  <2> QED
    BY <1>2, <1>5, <2>2
<1> QED
  BY <1>10 DEF Exact, ops

\* The operations a commit writes are exact on every table.
LEMMA MergedExact ==
  ASSUME HeldInv, NEW t \in Tx, Committing(t), CommitReady(t)
  PROVE  \A tb \in Tables : Exact(t, MergedOps(t), tb)
<1>0. /\ ~ recovery /\ txs[t].plan \in Seq(Operations) /\ txs[t].snapshot \in Nat
      /\ durable.csn \in Nat /\ durable.next_row \in Nat
      /\ TablesOK(durable.tables, durable.csn, durable.next_row)
      /\ heap \in Heaps /\ view[t] \in Heaps
      /\ TablesOf(txs[t].plan) \subseteq DOMAIN durable.tables
  BY CommitFacts
<1> DEFINE plan == txs[t].plan
           T == TablesOf(plan)
           tables == Ascending(T)
           merged(tb) == MergeTable(durable.tables[tb], tb, txs[t].snapshot,
                                    durable.csn, OpsOn(plan, tb))
           seqs == [i \in DOMAIN tables |-> merged(tables[i])]
           N == Len(seqs)
           Upto(k) == {tables[j] : j \in 1 .. k}
           S == [k \in 0 .. N |-> {z \in Seq(Operations) :
                    TablesOf(z) \subseteq Upto(k) /\ \A tb \in Upto(k) : Exact(t, z, tb)}]
<1>1. MergedOps(t) = FlattenSeq(seqs)
  BY DEF MergedOps
<1>2. T \in SUBSET Tables /\ IsFiniteSet(T) /\ \A tb : OpsOn(plan, tb) \in Seq(Operations)
  BY <1>0, OperationsOf
<1>3. T \in SUBSET Int
  <2> HIDE DEF T
  <2>1. Tables \in SUBSET Nat /\ Nat \in SUBSET Int
    BY TablesAssumption
  <2> QED
    BY <1>2, <2>1
<1>4. /\ tables \in Seq(T) /\ \A i, j \in 1 .. Len(tables) : i < j => tables[i] < tables[j]
      /\ \A tb \in T : \E i \in 1 .. Len(tables) : tables[i] = tb
  <2> HIDE DEF T
  <2> QED
    BY <1>2, <1>3, AscendingIs
<1>5. ASSUME NEW tb \in T
      PROVE  /\ merged(tb) \in Seq(Operations) /\ TablesOf(merged(tb)) \subseteq {tb}
             /\ \A z \in Seq(Operations) : tb \notin TablesOf(z) => Exact(t, z \o merged(tb), tb)
  <2>1. HistoryOK(durable.tables[tb], durable.csn, durable.next_row)
    BY <1>0 DEF TablesOK
  <2>2. tb \in Tables /\ OpsOn(plan, tb) \in Seq(Operations)
    BY <1>2
  <2> DEFINE Q == {op \in Operations : op.table = tb}
  <2>3. \A z \in Seq(Operations) : tb \notin TablesOf(z) => Exact(t, z \o merged(tb), tb)
    BY TableExact
  <2> HIDE DEF plan
  <2>4. merged(tb) \in Seq(Q)
    BY <1>0, <2>1, <2>2, MergeTableIs
  <2>5. Q \subseteq Operations /\ \A op \in Q : op.table = tb
    OBVIOUS
  <2> HIDE DEF merged, Q
  <2>6. merged(tb) \in Seq(Operations)
    BY <2>4, <2>5
  <2>7. \A i \in DOMAIN merged(tb) : merged(tb)[i] \in Q
    BY <2>4
  <2> QED
    BY <2>3, <2>5, <2>6, <2>7 DEF TablesOf
<1> HIDE DEF merged, tables, T
<1>6. DOMAIN tables = 1 .. Len(tables) /\ Len(tables) \in Nat /\ \A i \in DOMAIN tables : tables[i] \in T
  BY <1>4
<1>7. seqs \in Seq(Seq(Operations)) /\ N = Len(tables) /\ \A k \in 1 .. N : seqs[k] = merged(tables[k])
  BY <1>5, <1>6
<1> HIDE DEF seqs, N
<1>8. << >> \in S[0]
  <2>1. << >> \in Seq(Operations) /\ TablesOf(<< >>) = {} /\ 0 \in 0 .. N /\ Upto(0) = {}
    BY <1>6, <1>7 DEF TablesOf
  <2> QED
    BY <2>1
<1>9. ASSUME NEW k \in 1 .. N, NEW z \in S[k - 1] PROVE z \o seqs[k] \in S[k]
  <2> DEFINE w == seqs[k]
             tk == tables[k]
  <2>1. k - 1 \in 0 .. N /\ k \in 0 .. N /\ k \in DOMAIN tables /\ N \in Nat
    BY <1>6, <1>7
  <2>2. z \in Seq(Operations) /\ TablesOf(z) \subseteq Upto(k - 1) /\ \A tb \in Upto(k - 1) : Exact(t, z, tb)
    BY <1>9, <2>1
  <2>3. /\ w \in Seq(Operations) /\ TablesOf(w) \subseteq {tk} /\ tk \in T /\ w = merged(tk)
    BY <1>5, <1>6, <1>7, <2>1
  <2>4. tk \notin Upto(k - 1)
    <3>1. ASSUME NEW j \in 1 .. k - 1 PROVE tables[j] # tables[k]
      <4>1. j \in DOMAIN tables /\ j < k
        BY <1>6, <2>1
      <4>2. tables[j] < tables[k] /\ tables[j] \in Int /\ tables[k] \in Int
        BY <1>3, <1>4, <1>6, <2>1, <4>1
      <4> QED
        BY <4>2
    <3> QED
      BY <3>1
  <2>5. Upto(k) = Upto(k - 1) \cup {tk}
    <3>1. 1 .. k = 1 .. k - 1 \cup {k}
      BY <2>1
    <3> QED
      BY <3>1
  <2>6. Upto(k - 1) \subseteq Tables
    <3>1. \A j \in 1 .. k - 1 : j \in DOMAIN tables
      BY <1>6, <2>1
    <3> QED
      BY <1>2, <1>6, <3>1
  <2> HIDE DEF Upto, w, tk
  <2>7. z \o w \in Seq(Operations) /\ TablesOf(z \o w) \subseteq TablesOf(z) \cup TablesOf(w)
    BY <2>2, <2>3, TablesJoin
  <2>8. Exact(t, z \o w, tk)
    BY <1>5, <2>2, <2>3, <2>4
  <2>9. ASSUME NEW tb \in Upto(k - 1) PROVE Exact(t, z \o w, tb)
    <3>1. tb \in Tables /\ tb \notin TablesOf(w) /\ heap \in Heaps
      BY <1>0, <2>3, <2>4, <2>6
    <3>2. HeapAfterAll(heap, z \o w)[tb] = HeapAfterAll(heap, z)[tb]
      BY <2>2, <2>3, <3>1, OthersLeave
    <3>3. Exact(t, z, tb)
      BY <2>2
    <3> QED
      BY <3>2, <3>3 DEF Exact
  <2>10. TablesOf(z \o w) \subseteq Upto(k) /\ \A tb \in Upto(k) : Exact(t, z \o w, tb)
    BY <2>2, <2>3, <2>5, <2>7, <2>8, <2>9
  <2> QED
    BY <2>1, <2>7, <2>10 DEF w
<1>10. S \in [0 .. N -> SUBSET Seq(Operations)]
  OBVIOUS
<1>11. N \in 0 .. N
  BY <1>6, <1>7
<1>12. Upto(N) = T
  BY <1>4, <1>6, <1>7
<1>13. FlattenSeq(seqs) \in S[N]
  <2> DEFINE X == S
  <2>1. X \in [0 .. Len(seqs) -> SUBSET Seq(Operations)] /\ << >> \in X[0]
        /\ \A k \in 1 .. Len(seqs) : \A x \in X[k - 1] : x \o seqs[k] \in X[k]
    BY <1>8, <1>9, <1>10 DEF N
  <2> HIDE DEF X
  <2>2. FlattenSeq(seqs) \in X[Len(seqs)]
    BY <1>7, <2>1, FlattenBy
  <2> QED
    BY <2>2 DEF X, N
<1>14. /\ MergedOps(t) \in Seq(Operations) /\ TablesOf(MergedOps(t)) \subseteq T
       /\ \A tb \in T : Exact(t, MergedOps(t), tb)
  <2> HIDE DEF Upto
  <2> QED
    BY <1>1, <1>11, <1>12, <1>13
<1>15. ASSUME NEW tb \in Tables \ T PROVE Exact(t, MergedOps(t), tb)
  <2>1. tb \notin TablesOf(MergedOps(t))
    BY <1>14
  <2>2. HeapAfterAll(heap, MergedOps(t))[tb] = heap[tb]
    BY <1>0, <1>14, <2>1, HeapAfterAllType
  <2>3. Intended(t, tb) = view[t][tb]
    BY <1>0, <1>15, NoEdit DEF Intended, T
  <2>4. heap[tb] \in Seq(Rows) /\ view[t][tb] \in Seq(Rows)
    BY <1>0 DEF Heaps
  <2>5. \A x : Count(heap[tb], x) \in Nat /\ Count(view[t][tb], x) \in Nat
    BY <2>4, SeqDomain
  <2> QED
    BY <2>2, <2>3, <2>5 DEF Exact
<1> QED
  BY <1>14, <1>15

(***************************************************************************)
(* Commits that change each table by the transaction's own edit.           *)
(***************************************************************************)

\* The group at the gate does to every table what its transaction did to the
\* rows it saw.
GateExact == gate.stage = "apply" => \A tb \in Tables : Exact(committer.tx, gate.ops, tb)

ExactInv == HeldInv /\ GateExact

\* Nothing the group at the gate was made from has changed.
GateLeft ==
    /\ UNCHANGED <<heap, gate, committer>>
    /\ gate.stage = "apply" =>
          txs'[committer.tx].plan = txs[committer.tx].plan /\ view'[committer.tx] = view[committer.tx]

LEMMA GateKept ==
  ASSUME GateExact, GateLeft
  PROVE  GateExact'
<1> DEFINE t == committer.tx
<1>1. ASSUME gate.stage = "apply", NEW tb \in Tables PROVE Exact(t, gate.ops, tb)'
  <2>1. Exact(t, gate.ops, tb)
    BY <1>1 DEF GateExact
  <2>2. heap' = heap /\ gate' = gate /\ committer' = committer
    BY DEF GateLeft
  <2>3. txs'[committer.tx].plan = txs[committer.tx].plan /\ view'[committer.tx] = view[committer.tx]
    BY <1>1 DEF GateLeft
  <2>4. txs'[committer'.tx].plan = txs[committer.tx].plan /\ view'[committer'.tx] = view[committer.tx]
    BY <2>2, <2>3
  <2>5. Intended(t, tb)' = Intended(t, tb)
    BY <2>4 DEF Intended
  <2> QED
    BY <2>1, <2>2, <2>4, <2>5 DEF Exact
<1>2. gate' = gate
  BY DEF GateLeft
<1> QED
  BY <1>1, <1>2 DEF GateExact

\* The committing transaction is active and asks for nothing.
LEMMA GateHolder ==
  ASSUME StateInv, gate.stage = "apply"
  PROVE  /\ committer.tx \in Tx /\ Committing(committer.tx)
         /\ txs[committer.tx].status = "active" /\ req[committer.tx].pc = "idle"
BY DEF StateInv, CommitOK, Committing

\* Requests for locks.
LEMMA AskedExact ==
  ASSUME ExactInv, NEW t \in Tx, Asked(t) \/ Resumed(t) \/ Returned(t) \/ Failed(t)
  PROVE  GateExact'
<1>1. UNCHANGED <<heap, gate, committer, view>>
  BY DEF Asked, Resumed, Returned, Failed, Others
<1>2. StateInv
  BY DEF ExactInv, HeldInv, SerialInv
<1>3. WorkLeft
  <2>1. CASE Asked(t)
    BY <2>1, LoopUnique DEF Asked
  <2>2. CASE Resumed(t)
    <3>1. ~ Committing(t)
      BY <1>2, <2>2 DEF Resumed, StateInv, CommitOK
    <3> QED
      BY <2>2, <3>1, LoopUnique DEF Resumed
  <2>3. CASE Returned(t)
    BY <2>3 DEF Returned, WorkLeft, SameWork
  <2>4. CASE Failed(t)
    <3>1. ~ Committing(t)
      BY <1>2, <2>4 DEF Failed, StateInv, CommitOK
    <3> QED
      BY <2>4, <3>1 DEF Failed, Aborted, WorkLeft
  <2> QED
    BY <2>1, <2>2, <2>3, <2>4
<1>4. GateLeft
  BY <1>1, <1>2, <1>3, GateHolder DEF GateLeft, WorkLeft, SameWork
<1> QED
  BY <1>4, GateKept DEF ExactInv

\* A transaction that begins or rolls back is not the one at the gate.
LEMMA EndsExact ==
  ASSUME ExactInv, NEW t \in Tx, Begun(t) \/ Rollback(t)
  PROVE  GateExact'
<1>1. StateInv
  BY DEF ExactInv, HeldInv, SerialInv
<1>2. view \in [Tx -> Heaps]
  BY <1>1 DEF StateInv, SnapshotsOK
<1>3. UNCHANGED <<heap, gate, committer>>
  BY DEF Begun, Rollback
<1>4. ASSUME NEW o \in Tx, Committing(o)
      PROVE  txs'[o].plan = txs[o].plan /\ view'[o] = view[o]
  <2>1. CASE Begun(t)
    <3>1. txs[o].status = "active"
      BY <1>1, <1>4 DEF StateInv, CommitOK
    <3>2. o # t
      BY <2>1, <3>1 DEF Begun
    <3> QED
      BY <1>2, <2>1, <3>2 DEF Begun
  <2>2. CASE Rollback(t)
    <3>1. o # t /\ Finish(t)
      BY <1>4, <2>2 DEF Rollback
    <3>2. Finished(t)
      BY <1>1, <3>1, FinishIs DEF StateInv
    <3>3. view' = [view EXCEPT ![t] = NoRows]
      BY <3>1 DEF Finish
    <3> QED
      BY <1>2, <3>1, <3>2, <3>3 DEF Finished, SameWork
  <2> QED
    BY <2>1, <2>2
<1>5. GateLeft
  BY <1>1, <1>3, <1>4, GateHolder DEF GateLeft
<1> QED
  BY <1>5, GateKept DEF ExactInv

\* The gate takes the merge of the rows it finds.
LEMMA StartExact ==
  ASSUME ExactInv, NEW t \in Tx, CommitStart(t)
  PROVE  GateExact'
<1>1. /\ Committing(t) /\ CommitReady(t)
      /\ UNCHANGED <<heap, txs, committer, view>>
      /\ gate' = [stage |-> IF MergedOps(t) = << >> THEN "finish" ELSE "apply", ops |-> MergedOps(t)]
  BY DEF CommitStart
<1>2. \A tb \in Tables : Exact(t, MergedOps(t), tb)
  BY <1>1, MergedExact DEF ExactInv
<1>3. committer'.tx = t /\ gate'.ops = MergedOps(t)
  BY <1>1 DEF Committing
<1>4. ASSUME NEW tb \in Tables PROVE Exact(committer.tx, gate.ops, tb)'
  <2>1. Exact(t, MergedOps(t), tb)
    BY <1>2
  <2>2. Intended(committer.tx, tb)' = Intended(t, tb)
    BY <1>1, <1>3 DEF Intended
  <2>3. view'[committer'.tx] = view[t] /\ heap' = heap
    BY <1>1, <1>3
  <2> QED
    BY <1>3, <2>1, <2>2, <2>3 DEF Exact
<1> QED
  BY <1>4 DEF GateExact

LEMMA StepExact ==
  ASSUME ExactInv, [Next]_vars
  PROVE  ExactInv'
<1> DEFINE Goal == GateExact'
<1>0. HeldInv /\ HeldInv' /\ StateInv
  BY StepHeld DEF ExactInv, HeldInv, SerialInv
<1>1. ASSUME NEW t \in Tx, NEW s \in BOOLEAN, Begin(t, s) PROVE Goal
  BY <1>0, <1>1, BeginIs, EndsExact
<1>2. ASSUME NEW t \in Tx, NEW ops \in Plans, NEW reads \in ReadSets, Lock(t, ops, reads)
      PROVE  Goal
  <2>1. Asked(t)
    BY <1>0, <1>2, LockIs
  <2> QED
    BY <2>1, AskedExact
<1>3. ASSUME NEW t \in Tx, Wake(t) PROVE Goal
  <2>1. Resumed(t) \/ Returned(t)
    BY <1>0, <1>3, WakeIs
  <2> QED
    BY <2>1, AskedExact
<1>4. ASSUME NEW t \in Tx, Timeout(t) PROVE Goal
  <2>1. Resumed(t)
    BY <1>0, <1>4, ResumeIs DEF Timeout, Others
  <2> QED
    BY <2>1, AskedExact
<1>5. ASSUME NEW t \in Tx, FailLock(t) PROVE Goal
  <2>1. Failed(t)
    BY <1>0, <1>5, FailLockIs
  <2> QED
    BY <2>1, AskedExact
<1>6. ASSUME NEW t \in Tx, Rollback(t) PROVE Goal
  BY <1>6, EndsExact
<1>7. ASSUME NEW t \in Tx, CommitStart(t) PROVE Goal
  BY <1>7, StartExact
<1>8. ASSUME NEW t \in Tx, CommitApply(t) PROVE Goal
  <2>1. gate.stage = "apply" /\ gate' = [gate EXCEPT !.stage = "finish"]
    BY <1>8 DEF CommitApply
  <2>2. gate \in [stage : {"free", "apply", "finish"}, ops : Seq(Operations)]
    BY <1>0 DEF StateInv, CommitOK
  <2>3. gate'.stage = "finish"
    BY <2>1, <2>2
  <2> QED
    BY <2>3 DEF GateExact
<1>9. ASSUME NEW t \in Tx, Preview(t) \/ CommitRefused(t) \/ CommitFail(t) \/ CommitFinish(t)
      PROVE  Goal
  <2>1. (gate' = gate /\ gate.stage = "free") \/ gate' = OpenGate
    BY <1>9 DEF Preview, CommitRefused, CommitFail, CommitFinish, GateFree
  <2> QED
    BY <2>1 DEF OpenGate, GateExact
<1>10. ASSUME (\E op \in DirectOps : DirectWrite(op) \/ DirectFail(op))
              \/ (\E tb \in DdlTables : DropTable(tb) \/ ReplaceSchema(tb))
       PROVE  Goal
  <2>1. gate' = gate /\ gate.stage = "free"
    BY <1>10 DEF DirectWrite, DirectFail, DropTable, ReplaceSchema, DirectReady, GateFree
  <2> QED
    BY <2>1 DEF GateExact
<1>11. ASSUME Done \/ UNCHANGED vars PROVE Goal
  <2>1. UNCHANGED <<heap, gate, committer, txs, view>>
    BY <1>11 DEF Done, vars
  <2>2. GateLeft
    BY <2>1 DEF GateLeft
  <2> QED
    BY <2>2, GateKept DEF ExactInv
<1> HIDE DEF Goal
<1>12. Goal
  BY <1>1, <1>2, <1>3, <1>4, <1>5, <1>6, <1>7, <1>8, <1>9, <1>10, <1>11 DEF Next
<1> QED
  BY <1>0, <1>12 DEF Goal, ExactInv

LEMMA InitExact ==
  ASSUME Init
  PROVE  ExactInv
<1>1. gate.stage # "apply"
  BY DEF Init, OpenGate
<1> QED
  BY <1>1, InitHeld DEF ExactInv, GateExact

\* The step that applies the group applies its operations.
LEMMA ApplyOnly ==
  ASSUME StateInv, [Next]_vars, CommitStep
  PROVE  heap' = HeapAfterAll(heap, gate.ops)
<1>1. gate.stage = "apply" /\ gate'.stage = "finish"
  BY DEF CommitStep
<1>2. gate' # gate /\ gate' # OpenGate /\ ~ GateFree
  BY <1>1 DEF OpenGate, GateFree
<1>3. \E t \in Tx : CommitApply(t)
  <2>1. ASSUME NEW t \in Tx,
               \/ Wake(t) \/ Timeout(t) \/ FailLock(t)
               \/ \E s \in BOOLEAN : Begin(t, s)
               \/ \E ops \in Plans, reads \in ReadSets : Lock(t, ops, reads)
        PROVE  FALSE
    BY <1>2, <2>1 DEF Wake, Timeout, FailLock, Begin, Lock
  <2>2. ASSUME NEW t \in Tx,
               \/ Rollback(t) \/ Preview(t) \/ CommitStart(t) \/ CommitRefused(t)
               \/ CommitFail(t) \/ CommitFinish(t)
        PROVE  FALSE
    BY <1>2, <2>2 DEF Rollback, Preview, CommitStart, CommitRefused, CommitFail, CommitFinish
  <2>3. ASSUME (\E op \in DirectOps : DirectWrite(op) \/ DirectFail(op))
               \/ (\E tb \in DdlTables : DropTable(tb) \/ ReplaceSchema(tb))
        PROVE  FALSE
    BY <1>2, <2>3 DEF DirectWrite, DirectFail, DropTable, ReplaceSchema, DirectReady
  <2>4. ~ Done /\ ~ UNCHANGED vars
    BY <1>2 DEF Done, vars
  <2> QED
    BY <2>1, <2>2, <2>3, <2>4 DEF Next
<1>4. PICK t \in Tx : CommitApply(t)
  BY <1>3
<1> QED
  BY <1>4 DEF CommitApply, Publish

\* A difference of numbers of rows.
LEMMA Difference ==
  ASSUME NEW a \in Nat, NEW b \in Nat, NEW c \in Nat, NEW d \in Nat, a + d = b + c
  PROVE  a = b + c - d
OBVIOUS

LEMMA AppliedExact ==
  ASSUME ExactInv, [Next]_vars, CommitStep, NEW tb \in Tables, NEW r
  PROVE  Count(heap'[tb], r) = Count(heap[tb], r) + Count(Intended(committer.tx, tb), r)
                                 - Count(view[committer.tx][tb], r)
<1> DEFINE t == committer.tx
<1>1. gate.stage = "apply" /\ StateInv /\ StateInv'
  BY StepExact DEF CommitStep, ExactInv, HeldInv, SerialInv
<1>2. Exact(t, gate.ops, tb)
  BY <1>1 DEF ExactInv, GateExact
<1>3. heap' = HeapAfterAll(heap, gate.ops)
  BY <1>1, ApplyOnly
<1>4. t \in Tx
  BY <1>1, GateHolder
<1>5. txs[t].plan \in Seq(Operations)
  BY <1>1, <1>4, WorkOf
<1>6. heap \in Heaps /\ heap' \in Heaps /\ view[t] \in Heaps
  BY <1>1, <1>4 DEF StateInv, HeapOK, SnapshotsOK
<1>7. heap[tb] \in Seq(Rows) /\ heap'[tb] \in Seq(Rows) /\ view[t][tb] \in Seq(Rows)
  BY <1>6 DEF Heaps
<1>8. OpsOn(txs[t].plan, tb) \in Seq(Operations)
  BY <1>5, OperationsOf
<1>9. Intended(t, tb) \in Seq(Rows)
  BY <1>7, <1>8, EditAllType DEF Intended
<1>10. /\ Count(heap'[tb], r) \in Nat /\ Count(heap[tb], r) \in Nat
       /\ Count(Intended(t, tb), r) \in Nat /\ Count(view[t][tb], r) \in Nat
  BY <1>7, <1>9, SeqDomain
<1>11. Count(heap'[tb], r) + Count(view[t][tb], r) = Count(heap[tb], r) + Count(Intended(t, tb), r)
  BY <1>2, <1>3 DEF Exact
<1> QED
  BY <1>10, <1>11, Difference

\* A commit changes each table by exactly the transaction's own edit, whatever
\* was committed, pruned or rolled back since its snapshot: the rows it plans
\* to change are those its locks kept as it saw them, and the others are left
\* as they are (plans(), merged_ops(), validate(), apply_op).
THEOREM MergesAreExact == Spec => MergeExact
<1>1. Init => ExactInv
  BY InitExact
<1>2. ExactInv /\ [Next]_vars => ExactInv'
  BY StepExact
<1>3. ExactInv /\ [Next]_vars =>
        [CommitStep => \A tb \in Tables :
           LET mine == Intended(committer.tx, tb)
               seen == view[committer.tx][tb]
           IN  \A r \in Range(heap[tb]) \cup Range(heap'[tb]) \cup Range(mine) \cup Range(seen) :
                  Count(heap'[tb], r) = Count(heap[tb], r) + Count(mine, r) - Count(seen, r)]_vars
  BY AppliedExact
<1> QED
  BY <1>1, <1>2, <1>3, PTL DEF Spec, MergeExact
=============================================================================
