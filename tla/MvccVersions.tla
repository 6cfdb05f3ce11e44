---------------------------- MODULE MvccVersions ----------------------------
(***************************************************************************)
(* The version algebra of chusql-core/storage/src/mvcc.rs: row-version     *)
(* chains, snapshot visibility, matching of row sets to stable row         *)
(* numbers, publication of a commit, pruning, and the translation of a     *)
(* transaction's final row set into operations on the current rows.        *)
(*                                                                         *)
(* Data abstraction.  A row is [id, val]: `id` is the business key the     *)
(* code looks up under the column name "id" (NoId when the row has none),  *)
(* `val` stands for all other columns.  A table is named by its object     *)
(* id.  A schema is its schema_version.  Rows of a table are a sequence,   *)
(* the scan order of the heap, because publication records that order.     *)
(***************************************************************************)
EXTENDS Integers, Sequences, FiniteSets, SequencesExt

NoId == 0          \* unique_key(row, "id") is None
OpenEnd == 0       \* Version.end is None; a real end is a CSN above a begin

EmptyFn == [x \in {} |-> x]

\* The elements of the finite set S as a sequence in the order Less: the i-th
\* has i - 1 others before it.  (TLC keeps the concatenation as a tuple.)
InOrder(S, Less(_, _)) ==
    << >> \o
    [i \in 1 .. Cardinality(S) |->
        CHOOSE x \in S : Cardinality({y \in S : Less(y, x)}) = i - 1]
Ascending(S) == InOrder(S, <)

\* The elements of s at the positions in S, in order.
PickAt(s, S) ==
    LET at == Ascending(S) IN [i \in DOMAIN at |-> s[at[i]]]

(***************************************************************************)
(* Visibility.                                                             *)
(***************************************************************************)

\* Version v is visible at csn.
SeenAt(v, csn) == v.begin <= csn /\ (v.end = OpenEnd \/ csn < v.end)

VisibleIds(history, csn) ==
    {r \in DOMAIN history.rows : \E i \in DOMAIN history.rows[r] :
                                    SeenAt(history.rows[r][i], csn)}

\* chain.iter().rev().find(..): the newest version visible at csn.
VersionAt(chain, csn) == chain[SelectLastInSeq(chain, LAMBDA v : SeenAt(v, csn))]

\* visible(): the visible rows with their numbers, in logical row order.
VisibleInOrder(history, csn) ==
    LET order(r) == VersionAt(history.rows[r], csn).order
        Before(a, b) == order(a) < order(b) \/ (order(a) = order(b) /\ a < b)
    IN  InOrder(VisibleIds(history, csn), Before)
Visible(history, csn) ==
    LET ids == VisibleInOrder(history, csn)
    IN  [p \in DOMAIN ids |-> [id |-> ids[p],
                               version |-> VersionAt(history.rows[ids[p]], csn)]]

RowOf(history, csn, r) == VersionAt(history.rows[r], csn).row
RowsOf(entries) == [p \in DOMAIN entries |-> entries[p].version.row]
VisibleRows(history, csn) == RowsOf(Visible(history, csn))

(***************************************************************************)
(* Matching an incoming row sequence to existing rows.                     *)
(***************************************************************************)

\* A keyed row takes the first unused row with its key, a row without a key
\* the first unused identical row; the queue popped by the code holds exactly
\* the unused positions of a key.
Matches(old, row) == IF row.id # NoId THEN old.id = row.id ELSE old = row

\* Mutant: identical rows are all matched to the first copy.
MatchFirst(old, rows) ==
    LET Prior(row) == LET all == {p \in DOMAIN old : Matches(old[p], row)}
                      IN  IF all = {} THEN 0 ELSE Min(all)
    IN  [i \in DOMAIN rows |-> Prior(rows[i])]

Prior(old, m, row) ==
    LET free == {p \in DOMAIN old \ ToSet(m) : Matches(old[p], row)}
    IN  IF free = {} THEN 0 ELSE Min(free)

\* For each incoming row the position of its prior row in old, or 0.
MatchRows(old, rows) ==
    LET matched[n \in 0 .. Len(rows)] ==
            IF n = 0 THEN << >>
            ELSE Append(matched[n - 1], Prior(old, matched[n - 1], rows[n]))
    IN  matched[Len(rows)]

\* The position in rows matched to position p of old, or 0.
MatchedBy(match, p) == SelectInSeq(match, LAMBDA q : q = p)

(***************************************************************************)
(* Publication of one commit.                                              *)
(***************************************************************************)

NewHistory(version, csn) ==
    [version |-> version, changed |-> csn, live |-> TRUE, rows |-> EmptyFn]

CloseLast(chain, csn) == [chain EXCEPT ![Len(chain)].end = csn]

\* The chain of row r after the commit at csn placed it at position `order`.
ExtendChain(chain, previous, row, order, csn) ==
    IF previous.row = row /\ previous.order = order
    THEN chain
    ELSE Append(CloseLast(chain, csn),
                [begin |-> csn, end |-> OpenEnd, order |-> order, row |-> row,
                 value_begin |-> IF previous.row = row THEN previous.value_begin
                                                       ELSE csn])

\* The chain of the row at position p of old, which the commit moved to a
\* place among the rows or left out.
ChainAfter(history, rows, csn, old, match, p) ==
    LET place == MatchedBy(match, p)
        chain == history.rows[old[p].id]
    IN  IF place = 0 THEN CloseLast(chain, csn)
        ELSE ExtendChain(chain, old[p].version, rows[place], place, csn)

\* One table of publish_changed over its visible rows `old`, of which match says
\* which incoming row continues which.  `ok` is FALSE when the rows contradict
\* what was already published at csn.
PublishOver(history, version, rows, csn, nextRow, old, match) ==
    LET fresh    == Ascending({i \in DOMAIN rows : match[i] = 0})
        chain(p) == ChainAfter(history, rows, csn, old, match, p)
        kept(r)  == IF \E p \in DOMAIN old : old[p].id = r
                    THEN chain(CHOOSE p \in DOMAIN old : old[p].id = r)
                    ELSE history.rows[r]
        added(i) == << [begin |-> csn, end |-> OpenEnd, value_begin |-> csn,
                        order |-> i, row |-> rows[i]] >>
        changed  == \/ history.version # version
                    \/ fresh # << >>
                    \/ \E p \in DOMAIN old :
                          \/ MatchedBy(match, p) = 0
                          \/ rows[MatchedBy(match, p)] # old[p].version.row
    IN  [history  |-> [version |-> version, live |-> TRUE,
                       changed |-> IF changed THEN csn ELSE history.changed,
                       rows |-> [r \in DOMAIN history.rows
                                        \cup nextRow + 1 .. nextRow + Len(fresh) |->
                                    IF r \in DOMAIN history.rows THEN kept(r)
                                    ELSE added(fresh[r - nextRow])]],
         next_row |-> nextRow + Len(fresh),
         ok       |-> \A p \in DOMAIN old :
                         chain(p) # history.rows[old[p].id] => old[p].version.begin # csn]

\* `at` is the CSN before the commit.
PublishTable(history, version, rows, csn, at, nextRow) ==
    LET old == Visible(history, at)
    IN  PublishOver(history, version, rows, csn, nextRow, old, MatchRows(RowsOf(old), rows))

\* A table missing from the catalog stops being live and its rows end at csn.
RetireTable(history, csn) ==
    [history EXCEPT !.live = FALSE, !.changed = csn,
        !.rows = [r \in DOMAIN @ |->
                     IF @[r][Len(@[r])].end = OpenEnd THEN CloseLast(@[r], csn)
                                                      ELSE @[r]]]

\* Versions no snapshot at or after `oldest` can see are dropped.
PruneRows(rows, oldest) ==
    LET keep(chain) ==
            PickAt(chain, {i \in DOMAIN chain : chain[i].end = OpenEnd \/ chain[i].end > oldest})
    IN  [r \in {q \in DOMAIN rows : keep(rows[q]) # << >>} |-> keep(rows[r])]

\* prune / prune_durable: retired tables go once no row is left.
PruneTables(tables, oldest) ==
    LET pruned == [t \in DOMAIN tables |->
                      [tables[t] EXCEPT !.rows = PruneRows(@, oldest)]]
    IN  [t \in {u \in DOMAIN tables : pruned[u].live \/ DOMAIN pruned[u].rows # {}}
            |-> pruned[t]]

HistoryOf(tables, t, version, csn) ==
    IF t \in DOMAIN tables THEN tables[t] ELSE NewHistory(version, csn)

AddTable(acc, t, p) ==
    [tables |-> [u \in DOMAIN acc.tables \cup {t} |-> IF u = t THEN p.history ELSE acc.tables[u]],
     next_row |-> p.next_row,
     ok |-> acc.ok /\ p.ok]

RetireMissing(tables, schemas, csn) ==
    [t \in DOMAIN tables |-> IF t \notin DOMAIN schemas /\ tables[t].live
                             THEN RetireTable(tables[t], csn) ELSE tables[t]]

\* publish_changed: schemas maps every catalog table to its version, changed
\* maps the affected ones to their rows.  The tables take their new row
\* numbers one after the other.
PublishState(durable, csn, schemas, changed, oldest) ==
    LET tables == Ascending(DOMAIN changed)
        Step(acc, t) ==
            AddTable(acc, t, PublishTable(HistoryOf(acc.tables, t, schemas[t], csn),
                                          schemas[t], changed[t], csn, durable.csn,
                                          acc.next_row))
        done[n \in 0 .. Len(tables)] ==
            IF n = 0
            THEN [tables |-> durable.tables, next_row |-> durable.next_row, ok |-> TRUE]
            ELSE Step(done[n - 1], tables[n])
        all == done[Len(tables)]
    IN  [ok |-> all.ok /\ csn >= durable.csn,
         durable |-> [csn |-> csn, next_row |-> all.next_row,
                      tables |-> PruneTables(RetireMissing(all.tables, schemas, csn), oldest)]]

(***************************************************************************)
(* A transaction's operations.  An operation is [kind, table, rows, ids]   *)
(* with kind "upsert", "delete" or "replace"; ids is the deleted key set.  *)
(***************************************************************************)

\* A delete drops the first row of each key; an upsert appends its rows.
EditRows(rows, op) ==
    CASE op.kind = "replace" -> op.rows
      [] op.kind = "upsert"  -> rows \o op.rows
      [] op.kind = "delete"  ->
            PickAt(rows, {i \in DOMAIN rows :
                             ~ /\ rows[i].id \in op.ids
                               /\ \A j \in 1 .. i - 1 : rows[j].id # rows[i].id})

\* The rows after operations on their table.
EditAll(rows, ops) ==
    LET edited[n \in 0 .. Len(ops)] ==
            IF n = 0 THEN rows ELSE EditRows(edited[n - 1], ops[n])
    IN  edited[Len(ops)]

OpsOn(ops, t) == PickAt(ops, {i \in DOMAIN ops : ops[i].table = t})
TablesOf(ops) == {ops[i].table : i \in DOMAIN ops}

\* The final rows of a table mapped to the row numbers of its rows `old`.  A row
\* without a business key that found no identical row takes the next unmatched
\* unkeyed row of the snapshot, so an update keeps its identity.
PlanOver(old, final, match) ==
    LET spare  == Ascending({p \in DOMAIN old : /\ MatchedBy(match, p) = 0
                                             /\ old[p].version.row.id = NoId})
        needy  == Ascending({i \in DOMAIN final : match[i] = 0 /\ final[i].id = NoId})
        lent(i) == SelectInSeq(needy, LAMBDA j : j = i)
        rowId(i) == IF match[i] # 0 THEN old[match[i]].id
                    ELSE IF lent(i) \in DOMAIN spare THEN old[spare[lent(i)]].id ELSE 0
    IN  [wanted  |-> [i \in DOMAIN final |-> [id |-> rowId(i), row |-> final[i]]],
         removed |-> {old[p].id : p \in DOMAIN old} \ {rowId(i) : i \in DOMAIN final}]

\* plans() for one table.
PlanTable(history, snapshot, ops) ==
    LET Over(old, final) == PlanOver(old, final, MatchRows(RowsOf(old), final))
        Edit(old) == Over(old, EditAll(RowsOf(old), ops))
    IN  Edit(Visible(history, snapshot))

\* The wanted entries of a plan that differ from the snapshot.
Altered(history, snapshot, plan) ==
    {i \in DOMAIN plan.wanted :
        \/ plan.wanted[i].id = 0
        \/ plan.wanted[i].row # RowOf(history, snapshot, plan.wanted[i].id)}

\* Mutant: the transaction's rows overwrite the table.
MergeOverwrites(history, t, snapshot, csn, ops) ==
    LET plan == PlanTable(history, snapshot, ops)
    IN  << [kind |-> "replace", table |-> t, ids |-> {},
            rows |-> [i \in DOMAIN plan.wanted |-> plan.wanted[i].row]] >>

\* A transaction's changes as operations on the current rows, a keyed delete and
\* an upsert when the victims' keys identify them, otherwise a replacement of the
\* whole table.
MergeOver(t, current, removed, appended) ==
    LET row(p)  == current[p].version.row
        victims == {p \in DOMAIN current : current[p].id \in removed}
        others  == DOMAIN current \ victims
        keyed   == /\ \A p \in victims : row(p).id # NoId
                   /\ \A p \in victims, q \in DOMAIN current :
                         p # q => row(p).id # row(q).id
        Op(kind, r, i) == [kind |-> kind, table |-> t, rows |-> r, ids |-> i]
    IN  IF removed = {} /\ appended = << >> THEN << >>
        ELSE IF keyed
        THEN (IF victims = {} THEN << >>
              ELSE << Op("delete", << >>, {row(p).id : p \in victims}) >>)
             \o (IF appended = << >> THEN << >> ELSE << Op("upsert", appended, {}) >>)
        ELSE << Op("replace", PickAt(RowsOf(current), others) \o appended, {}) >>

\* merged_ops() for one table.
MergeTable(history, t, snapshot, csn, ops) ==
    LET Merge(plan, altered) ==
            MergeOver(t, Visible(history, csn),
                      (plan.removed \cup {plan.wanted[i].id : i \in altered}) \ {0},
                      PickAt([i \in DOMAIN plan.wanted |-> plan.wanted[i].row], altered))
        Apply(plan) == Merge(plan, Altered(history, snapshot, plan))
    IN  Apply(PlanTable(history, snapshot, ops))
=============================================================================
