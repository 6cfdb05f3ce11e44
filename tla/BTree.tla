------------------------------- MODULE BTree -------------------------------
(***************************************************************************)
(* The disk B+ tree of chusql-core/storage/src/btree.rs, as operators on a *)
(* tree value: `nodes` are the pages behind the meta page, by page number, *)
(* and `root` is the page number the meta page names, 0 for an empty tree. *)
(*                                                                         *)
(* Keys are the encoded key bytes, of which only the order matters: they   *)
(* are numbers here.  Values are packed row positions.  Duplicate keys are *)
(* allowed.  Deletion never merges nodes.                                  *)
(***************************************************************************)
EXTENDS Integers, Sequences, FiniteSets, SequencesExt

CONSTANT Order      \* btree.order: a node holds at most Order - 1 keys

ASSUME OrderAssumption == Order \in Nat /\ Order >= 3

NoPage == 0
EmptyTree == [root |-> NoPage, nodes |-> <<>>]

Leaf(keys, values, next) == [leaf |-> TRUE, keys |-> keys, values |-> values, next |-> next]
Internal(keys, values) == [leaf |-> FALSE, keys |-> keys, values |-> values, next |-> NoPage]

\* partition_point() with < and with <= on sorted keys.
Below(keys, key) == Cardinality({i \in DOMAIN keys : keys[i] < key})
UpTo(keys, key) == Cardinality({i \in DOMAIN keys : keys[i] <= key})

\* leaf_slot(): equal keys are ordered by value.
LeafSlot(node, key, value) ==
    Below(node.keys, key)
      + Cardinality({i \in DOMAIN node.keys : node.keys[i] = key /\ node.values[i] < value})

\* The child a key is inserted below: child_slot().
ChildFor(node, key) == node.values[UpTo(node.keys, key) + 1]

\* split_node(): the key that moves up and the two halves.
SplitNode(node) ==
    LET mid == Len(node.keys) \div 2
        Left(s, n) == SubSeq(s, 1, n)
        Right(s, n) == SubSeq(s, n + 1, Len(s))
    IN  [sep |-> node.keys[mid + 1],
         left |-> [node EXCEPT !.keys = Left(@, mid),
                               !.values = Left(@, IF node.leaf THEN mid ELSE mid + 1)],
         right |-> IF node.leaf
                   THEN Leaf(Right(node.keys, mid), Right(node.values, mid), node.next)
                   ELSE Internal(Right(node.keys, mid + 1), Right(node.values, mid + 1))]

\* As Store, but a leaf that was split is not linked into the chain.
StoreUnlinked(nodes, id, node) ==
    IF Len(node.keys) <= Order - 1
    THEN [nodes |-> [nodes EXCEPT ![id] = node], sep |-> 0, right |-> NoPage]
    ELSE LET half == SplitNode(node)
         IN  [nodes |-> Append([nodes EXCEPT ![id] = half.left], half.right),
              sep |-> half.sep, right |-> Len(nodes) + 1]

\* A node that was changed is stored; one that overflows is split, its right
\* half goes to a new page, which its parent has to take in.
Store(nodes, id, node) ==
    IF Len(node.keys) <= Order - 1
    THEN [nodes |-> [nodes EXCEPT ![id] = node], sep |-> 0, right |-> NoPage]
    ELSE LET half == SplitNode(node)
             new == Len(nodes) + 1
             left == IF node.leaf THEN [half.left EXCEPT !.next = new] ELSE half.left
         IN  [nodes |-> Append([nodes EXCEPT ![id] = left], half.right),
              sep |-> half.sep, right |-> new]

LeafInsert(node, key, value) ==
    LET at == LeafSlot(node, key, value) + 1
    IN  [node EXCEPT !.keys = InsertAt(@, at, key), !.values = InsertAt(@, at, value)]

\* The parent takes in a new right half, behind every key up to the separator.
TakeIn(node, sep, right) ==
    LET at == UpTo(node.keys, sep) + 1
    IN  [node EXCEPT !.keys = InsertAt(@, at, sep), !.values = InsertAt(@, at + 1, right)]

\* insert() and insert_rec().
TreeInsert(tree, key, value) ==
    LET InsertRec[id \in DOMAIN tree.nodes] ==
            LET node == tree.nodes[id]
            IN  IF node.leaf
                THEN Store(tree.nodes, id, LeafInsert(node, key, value))
                ELSE LET below == InsertRec[ChildFor(node, key)]
                     IN  Store(below.nodes, id,
                               IF below.right = NoPage THEN node
                               ELSE TakeIn(node, below.sep, below.right))
        done == InsertRec[tree.root]
    IN  CASE tree.root = NoPage ->
               [root |-> Len(tree.nodes) + 1,
                nodes |-> Append(tree.nodes, Leaf(<<key>>, <<value>>, NoPage))]
          [] tree.root # NoPage /\ done.right = NoPage -> [tree EXCEPT !.nodes = done.nodes]
          [] OTHER -> [root |-> Len(done.nodes) + 1,
                       nodes |-> Append(done.nodes, Internal(<<done.sep>>, <<tree.root, done.right>>))]

\* delete() and delete_rec(): the first leaf that holds the pair loses it.
TreeDelete(tree, key, value) ==
    LET Holds(node) ==
            LET at == LeafSlot(node, key, value) + 1
            IN  at \in DOMAIN node.keys /\ node.keys[at] = key /\ node.values[at] = value
        Find[id \in DOMAIN tree.nodes] ==
            LET node == tree.nodes[id]
                children == SubSeq(node.values, Below(node.keys, key) + 1, UpTo(node.keys, key) + 1)
                found == SelectSeq([i \in DOMAIN children |-> Find[children[i]]],
                                   LAMBDA leaf : leaf # NoPage)
            IN  IF node.leaf THEN (IF Holds(node) THEN id ELSE NoPage)
                ELSE IF found = <<>> THEN NoPage ELSE Head(found)
        leaf == IF tree.root = NoPage THEN NoPage ELSE Find[tree.root]
        at == LeafSlot(tree.nodes[leaf], key, value) + 1
    IN  IF leaf = NoPage THEN tree
        ELSE [tree EXCEPT !.nodes[leaf].keys = RemoveAt(@, at),
                          !.nodes[leaf].values = RemoveAt(@, at)]

\* The leaf where a scan from lo starts; 0 as lo is no bound.
StartLeaf(tree, lo) ==
    LET Descend[id \in DOMAIN tree.nodes] ==
            LET node == tree.nodes[id]
            IN  IF node.leaf THEN id ELSE Descend[node.values[Below(node.keys, lo) + 1]]
    IN  IF tree.root = NoPage THEN NoPage ELSE Descend[tree.root]

\* scan(): the pairs with keys in lo..hi, along the leaf chain, until a key is
\* above hi.
TreeScan(tree, lo, hi) ==
    LET Entries(node) ==
            SelectSeq([i \in DOMAIN node.keys |-> [key |-> node.keys[i], value |-> node.values[i]]],
                      LAMBDA e : lo <= e.key /\ e.key <= hi)
        Walk[id \in 0..Len(tree.nodes)] ==
            IF id = NoPage THEN <<>>
            ELSE LET node == tree.nodes[id]
                 IN  IF \E i \in DOMAIN node.keys : node.keys[i] > hi THEN Entries(node)
                     ELSE Entries(node) \o Walk[node.next]
    IN  Walk[StartLeaf(tree, lo)]

\* get_all(): every value under a key, in ascending order.
TreeGetAll(tree, key) ==
    LET found == TreeScan(tree, key, key)
    IN  SortSeq([i \in DOMAIN found |-> found[i].value], <)

\* is_empty(): only the leftmost leaf is looked at.
TreeIsEmpty(tree) ==
    tree.root = NoPage \/ tree.nodes[StartLeaf(tree, 0)].keys = <<>>
=============================================================================
