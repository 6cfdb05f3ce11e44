----------------------------- MODULE HeapTable -----------------------------
(***************************************************************************)
(* One table as chusql-core/storage/src/heap.rs keeps it: rows in the      *)
(* slots of heap pages, and a B+ tree per indexed column that maps the     *)
(* column's value to row positions.  The id column always has an index,    *)
(* column val has one between CreateIndex and DropIndex.                   *)
(*                                                                         *)
(* A row is [id, val]; NoKey stands for NULL or a missing column, which no *)
(* index holds.  Every row takes RowSize units of a page of PageSize, a    *)
(* slot entry one: a deleted row gives its bytes back (compact_page() runs *)
(* before an insert looks for room), its slot entry stays.  The handle is  *)
(* used under its mutex, so one call is one step; what a crash does to the *)
(* pages is the subject of PageJournal and WalCommit.                      *)
(***************************************************************************)
EXTENDS BTree

CONSTANTS
    TableRows,     \* the rows clients may write
    DeleteLists,   \* the id sequences a DeleteKeys may bring
    Rewrites,      \* the row sequences a ReplaceAll may bring
    PageSize,      \* size of a page, in units of a slot entry
    RowSize,       \* size of a row
    ReopenSparse,  \* may the table be reopened when deletions emptied the leftmost leaf?
    MaxCalls       \* bound on the calls

ASSUME SizeAssumption ==
    /\ RowSize \in Nat \ {0} /\ PageSize \in Nat /\ PageSize >= RowSize + 1
    /\ ReopenSparse \in BOOLEAN /\ MaxCalls \in Nat

VARIABLES
    pages,   \* heap pages: sequences of slots, each a row or Dead
    trees,   \* attached indexes: column -> tree
    calls    \* calls so far

vars == <<pages, trees, calls>>

NoKey == 0
Dead == [id |-> NoKey, val |-> NoKey]   \* a slot of length 0
Columns == {"id", "val"}

(***************************************************************************)
(* Heap pages.                                                             *)
(***************************************************************************)

\* (page << 16) | slot; the code counts pages and slots from 0, the model
\* from 1.
PackPosition(page, slot) == page * 65536 + slot
UnpackPosition(pos) == [page |-> pos \div 65536, slot |-> pos % 65536]

Live(page) == {s \in DOMAIN page : page[s] # Dead}

\* insert_tuple() after compact_page(): room for one more slot and row.
Fits(page) == (Len(page) + 1) + (Cardinality(Live(page)) + 1) * RowSize <= PageSize

\* insert_returning_position(): the last page, or a new one.
HeapInsert(heap, row) ==
    IF heap # <<>> /\ Fits(Last(heap))
    THEN [heap EXCEPT ![Len(heap)] = Append(@, row)]
    ELSE Append(heap, <<row>>)
LastPosition(heap) == PackPosition(Len(heap), Len(Last(heap)))

\* read_at(): nothing for a dead slot.
ReadAt(heap, pos) ==
    LET p == UnpackPosition(pos)
    IN  IF p.page \in DOMAIN heap /\ p.slot \in DOMAIN heap[p.page]
        THEN heap[p.page][p.slot] ELSE Dead

\* scan_pages_with_positions(): the live rows of pages from..to - 1, counted
\* from 0, in order, with their positions.
ScanPages(heap, from, to) ==
    LET PageRows(p) ==
            SelectSeq([s \in DOMAIN heap[p] |-> [pos |-> PackPosition(p, s), row |-> heap[p][s]]],
                      LAMBDA e : e.row # Dead)
    IN  FlattenSeq([i \in 1..(IF to > from THEN to - from ELSE 0) |-> PageRows(from + i)])
ScanWithPositions(heap) == ScanPages(heap, 0, Len(heap))
RowsIn(entries) == [i \in DOMAIN entries |-> entries[i].row]

\* As ScanShard, but the pages are divided rounding down.
ScanShardRoundedDown(heap, shard, shards) ==
    LET n == Len(heap)
        chunk == n \div shards
        Cut(k) == IF k * chunk < n THEN k * chunk ELSE n
    IN  RowsIn(ScanPages(heap, Cut(shard), Cut(shard + 1)))

\* scan_shard(): the pages are cut into chunks of ceil(n / shards).
ScanShard(heap, shard, shards) ==
    LET n == Len(heap)
        chunk == (n + shards - 1) \div shards
        Cut(k) == IF k * chunk < n THEN k * chunk ELSE n
    IN  RowsIn(ScanPages(heap, Cut(shard), Cut(shard + 1)))

(***************************************************************************)
(* Indexes next to the heap.                                               *)
(***************************************************************************)

\* The position of a row goes into every attached index it has a key for.
Index(ts, row, pos) ==
    [c \in DOMAIN ts |-> IF row[c] = NoKey THEN ts[c] ELSE TreeInsert(ts[c], row[c], pos)]
Unindex(ts, row, pos) ==
    [c \in DOMAIN ts |-> IF row[c] = NoKey THEN ts[c] ELSE TreeDelete(ts[c], row[c], pos)]

\* The table, as a value that the steps of one call change.
Table == [pages |-> pages, trees |-> trees]

\* A row enters the heap and then the indexes.
AddRow(t, row) ==
    LET heap == HeapInsert(t.pages, row)
    IN  [pages |-> heap, trees |-> Index(t.trees, row, LastPosition(heap))]

\* As DeleteAt, but the indexes keep the position.
DeleteAtKeepingKeys(t, pos) ==
    LET p == UnpackPosition(pos)
    IN  IF ReadAt(t.pages, pos) = Dead THEN t ELSE [t EXCEPT !.pages[p.page][p.slot] = Dead]

\* delete_at(): nothing for a slot that is dead already.
DeleteAt(t, pos) ==
    LET p == UnpackPosition(pos)
        row == ReadAt(t.pages, pos)
    IN  IF row = Dead THEN t
        ELSE [pages |-> [t.pages EXCEPT ![p.page][p.slot] = Dead],
              trees |-> Unindex(t.trees, row, pos)]

\* build_index() and fill_index(): every row of the heap is added to a tree.
FillIndex(tree, column, heap) ==
    FoldLeft(LAMBDA t, e : IF e.row[column] = NoKey THEN t
                           ELSE TreeInsert(t, e.row[column], e.pos),
             tree, ScanWithPositions(heap))

\* get_all_by_bytes(): the rows an index lookup returns.
GetAllByKey(column, key) ==
    LET found == TreeGetAll(trees[column], key)
    IN  SelectSeq([i \in DOMAIN found |-> ReadAt(pages, found[i])], LAMBDA row : row # Dead)

\* As ScanRange, but an exclusive lower bound is taken as inclusive.
ScanRangeClosed(column, lo, loInclusive, hi, hiInclusive) ==
    LET inside == SelectSeq(TreeScan(trees[column], lo, hi),
                            LAMBDA e : hiInclusive \/ e.key # hi)
    IN  SelectSeq([i \in DOMAIN inside |-> ReadAt(pages, inside[i].value)], LAMBDA row : row # Dead)

\* scan_range(): the tree is read with closed bounds, an exclusive bound is
\* applied to what comes back.
ScanRange(column, lo, loInclusive, hi, hiInclusive) ==
    LET inside == SelectSeq(TreeScan(trees[column], lo, hi),
                            LAMBDA e : /\ loInclusive \/ e.key # lo
                                       /\ hiInclusive \/ e.key # hi)
    IN  SelectSeq([i \in DOMAIN inside |-> ReadAt(pages, inside[i].value)], LAMBDA row : row # Dead)

(***************************************************************************)
(* Calls.                                                                  *)
(***************************************************************************)

\* The id index already holds the row's id.
DuplicateId(row) == row.id # NoKey /\ TreeGetAll(trees["id"], row.id) # <<>>

Call == calls < MaxCalls /\ calls' = calls + 1

Becomes(t) == pages' = t.pages /\ trees' = t.trees

\* insert_row() of a row that passes the check on the id index.
InsertRow(row) ==
    /\ Call /\ ~ DuplicateId(row)
    /\ Becomes(AddRow(Table, row))

\* delete_by_keys(): all positions are looked up before the first row goes.
DeleteByKeys(ids) ==
    /\ Call
    /\ LET found == [i \in DOMAIN ids |-> TreeGetAll(trees["id"], ids[i])]
           at == SelectSeq(found, LAMBDA values : values # <<>>)
       IN  Becomes(FoldLeft(LAMBDA t, values : DeleteAt(t, Head(values)), Table, at))

\* replace_all(): the data file is truncated, the trees are cleared, and the
\* rows enter without a look at the id index.
ReplaceRows(rows) ==
    /\ Call
    /\ Becomes(FoldLeft(AddRow, [pages |-> <<>>, trees |-> [c \in DOMAIN trees |-> EmptyTree]], rows))

\* apply_create_index().
CreateIndex(column) ==
    /\ Call /\ column \notin DOMAIN trees
    /\ trees' = [c \in DOMAIN trees \cup {column} |->
                    IF c = column THEN FillIndex(EmptyTree, c, pages) ELSE trees[c]]
    /\ UNCHANGED pages

\* apply_drop_index(); the id index stays.
DropIndex(column) ==
    /\ Call /\ column \in DOMAIN trees \ {"id"}
    /\ trees' = [c \in DOMAIN trees \ {column} |-> trees[c]]
    /\ UNCHANGED pages

\* Deletions have emptied the leftmost leaf of a tree that still has entries.
Sparse(tree) == TreeIsEmpty(tree) /\ \E i \in DOMAIN tree.nodes : tree.nodes[i].leaf /\ tree.nodes[i].keys # <<>>

\* The handle is dropped and open_with_indexes() opens the flushed files.  The
\* index files in `lost` are gone or cut to nothing: a kill did that, or
\* rebuild_recovery_indexes().  An index that looks empty is filled from the
\* heap.
Reopen(lost) ==
    /\ Call
    /\ LET found == [c \in DOMAIN trees |-> IF c \in lost THEN EmptyTree ELSE trees[c]]
       IN  /\ ReopenSparse \/ \A c \in DOMAIN found : ~ Sparse(found[c])
           /\ trees' = [c \in DOMAIN found |->
                           IF TreeIsEmpty(found[c]) THEN FillIndex(found[c], c, pages) ELSE found[c]]
    /\ UNCHANGED pages

Init ==
    /\ pages = <<>>
    /\ trees = [c \in {"id"} |-> EmptyTree]
    /\ calls = 0

Done == calls = MaxCalls /\ UNCHANGED vars

Next ==
    \/ \E row \in TableRows : InsertRow(row)
    \/ \E ids \in DeleteLists : DeleteByKeys(ids)
    \/ \E rows \in Rewrites : ReplaceRows(rows)
    \/ \E c \in Columns : CreateIndex(c) \/ DropIndex(c)
    \/ \E lost \in SUBSET DOMAIN trees : Reopen(lost)
    \/ Done

Spec == Init /\ [][Next]_vars

(***************************************************************************)
(* Properties.                                                             *)
(***************************************************************************)

\* Types: nodes hold at most Order - 1 keys in ascending order, an internal
\* node one child more than keys, and next names a page of the tree; pages
\* stay within their size.
TypeOK ==
    /\ \A p \in DOMAIN pages :
         /\ \A s \in DOMAIN pages[p] : pages[p][s] \in TableRows \cup {Dead}
         /\ Len(pages[p]) + Cardinality(Live(pages[p])) * RowSize <= PageSize
    /\ DOMAIN trees \subseteq Columns /\ "id" \in DOMAIN trees
    /\ \A c \in DOMAIN trees : \A i \in DOMAIN trees[c].nodes :
         LET node == trees[c].nodes[i]
         IN  /\ Len(node.keys) < Order
             /\ \A k \in 1..(Len(node.keys) - 1) : node.keys[k] <= node.keys[k + 1]
             /\ Len(node.values) = Len(node.keys) + (IF node.leaf THEN 0 ELSE 1)
             /\ node.next \in 0..Len(trees[c].nodes)
    /\ calls \in 0..MaxCalls

AllEntries == ScanWithPositions(pages)
KeysOf(column) == {r[column] : r \in TableRows} \ {NoKey}

\* The rows a lookup should return: those of the heap, in position order.
RowsWith(column, key) == SelectSeq(RowsIn(AllEntries), LAMBDA row : row[column] = key)

\* A lookup on any indexed column returns exactly the rows that a scan of the
\* heap finds, each once, after splits, deletions, rewrites and reopening.
LookupAgrees ==
    \A c \in DOMAIN trees : \A k \in KeysOf(c) : GetAllByKey(c, k) = RowsWith(c, k)

\* The entries of the heap that a range covers.
EntriesInRange(column, lo, loInclusive, hi, hiInclusive) ==
    {e \in ToSet(AllEntries) :
        /\ e.row[column] # NoKey
        /\ IF loInclusive THEN lo <= e.row[column] ELSE lo < e.row[column]
        /\ IF hiInclusive THEN e.row[column] <= hi ELSE e.row[column] < hi}

\* A range scan returns the rows of the range and no other, each once, in key
\* order.
RangeAgrees ==
    \A c \in DOMAIN trees : \A lo, hi \in KeysOf(c) : \A inclusive \in BOOLEAN :
        LET rows == ScanRange(c, lo, inclusive, hi, ~ inclusive)
            wanted == EntriesInRange(c, lo, inclusive, hi, ~ inclusive)
        IN  /\ Len(rows) = Cardinality(wanted)
            /\ ToSet(rows) = {e.row : e \in wanted}
            /\ \A i \in 1..(Len(rows) - 1) : rows[i][c] <= rows[i + 1][c]

\* An insert is refused as a duplicate only when the heap has a live row with
\* that id, and two live rows never share an id.
IdsUnique ==
    /\ \A row \in TableRows : DuplicateId(row) => RowsWith("id", row.id) # <<>>
    /\ \A a, b \in ToSet(AllEntries) : a # b /\ a.row.id = b.row.id => a.row.id = NoKey

\* Parallel shard scans, put together, give the full scan: no page is read
\* twice or left out, for any number of shards.
MaxShards == 4
ShardsAgree ==
    \A n \in 1..MaxShards :
        FlattenSeq([i \in 1..n |-> ScanShard(pages, i - 1, n)]) = RowsIn(AllEntries)
=============================================================================
