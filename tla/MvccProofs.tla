----------------------------- MODULE MvccProofs -----------------------------
(***************************************************************************)
(* Proofs about Mvcc, for every set of transactions, tables, rows, plans   *)
(* and commits.                                                            *)
(*                                                                         *)
(* SnapshotsStable and HeapIsPublished rest on what the operators of       *)
(* MvccVersions do to a chain of versions.  ChainOK says that a chain is a *)
(* history: its versions follow each other and all but the last are        *)
(* closed.  So at most one version is visible to a reader, publishing at a *)
(* new number changes nothing for the readers before it (PublishTable) and *)
(* shows the published rows to those from then on, and pruning changes     *)
(* nothing for the readers from `oldest` on.  StateInv carries this        *)
(* through the steps: no snapshot of an active transaction is older than   *)
(* Oldest, and the rows of the heap are the newest versions whenever no    *)
(* recovery is required.                                                   *)
(*                                                                         *)
(* MvccVersions folds over rows, operations and tables with recursive      *)
(* functions.  That they exist is shown once (by induction over a set of   *)
(* numbers), and what they return by the same induction.                   *)
(*                                                                         *)
(* ImplementsLockManager: one turn of the acquisition loop of              *)
(* lock_inner(), whatever rows and plans are behind the keys, is a step    *)
(* of LockManager, and the other steps release keys or leave them alone.   *)
(* What LockManagerProofs proves is then true of Mvcc's lock table.        *)
(*                                                                         *)
(* ReadsAreCurrent adds what `changed` promises (ChangedOK): publishing a  *)
(* table either marks it with the new number or leaves every row as often  *)
(* as it was (UnchangedRows), so a table not marked since a snapshot still *)
(* has the rows of that snapshot.  ReadsOK carries what validate() found   *)
(* from there to the write, which the gate allows since no other group is  *)
(* published in between.                                                   *)
(***************************************************************************)
EXTENDS Mvcc, TLAPS, FiniteSetTheorems, WellFoundedInduction, NaturalsInduction

(***************************************************************************)
(* Finite sets in order.                                                   *)
(***************************************************************************)

StrictOrder(S, R) ==
    /\ \A x \in S : <<x, x>> \notin R
    /\ \A x, y, z \in S : <<x, y>> \in R /\ <<y, z>> \in R => <<x, z>> \in R
    /\ \A x, y \in S : x # y => <<x, y>> \in R \/ <<y, x>> \in R

Under(S, R, x) == {y \in S : <<y, x>> \in R}
Rank(S, R, x) == Cardinality(Under(S, R, x))

\* The sequence has every element of S, in the order R.
Enumerates(s, S, R) ==
    /\ s \in Seq(S)
    /\ \A x \in S : \E i \in DOMAIN s : s[i] = x
    /\ \A i, j \in DOMAIN s : i < j => <<s[i], s[j]>> \in R

LEMMA RankType ==
  ASSUME NEW S, IsFiniteSet(S), NEW R, StrictOrder(S, R), NEW x \in S
  PROVE  /\ Rank(S, R, x) \in 0 .. Cardinality(S) - 1
         /\ Cardinality(S) \in Nat \ {0}
         /\ IsFiniteSet(Under(S, R, x))
<1>1. Under(S, R, x) \in SUBSET (S \ {x})
  BY DEF Under, StrictOrder
<1>2. IsFiniteSet(S \ {x}) /\ Cardinality(S \ {x}) = Cardinality(S) - 1
  BY FS_RemoveElement
<1>3. Cardinality(S) \in Nat /\ Cardinality(S \ {x}) \in Nat
  BY <1>2, FS_CardinalityType
<1>4. /\ IsFiniteSet(Under(S, R, x)) /\ Cardinality(Under(S, R, x)) <= Cardinality(S \ {x})
      /\ Cardinality(Under(S, R, x)) \in Nat
  BY <1>1, <1>2, FS_Subset, FS_CardinalityType
<1> QED
  BY <1>2, <1>3, <1>4 DEF Rank

LEMMA RankGrows ==
  ASSUME NEW S, IsFiniteSet(S), NEW R, StrictOrder(S, R), NEW x \in S, NEW y \in S,
         <<x, y>> \in R
  PROVE  Rank(S, R, x) < Rank(S, R, y)
<1>1. x \notin Under(S, R, x) /\ Under(S, R, x) \cup {x} \in SUBSET Under(S, R, y)
  BY DEF Under, StrictOrder
<1>2. IsFiniteSet(Under(S, R, x)) /\ IsFiniteSet(Under(S, R, y))
  BY RankType
<1>3. Cardinality(Under(S, R, x) \cup {x}) = Cardinality(Under(S, R, x)) + 1
  BY <1>1, <1>2, FS_AddElement
<1>4. Cardinality(Under(S, R, x) \cup {x}) <= Cardinality(Under(S, R, y))
  BY <1>1, <1>2, FS_Subset
<1>5. Rank(S, R, x) \in Nat /\ Rank(S, R, y) \in Nat
  BY RankType, <1>2, FS_CardinalityType DEF Rank
<1> QED
  BY <1>3, <1>4, <1>5 DEF Rank

LEMMA RankUnique ==
  ASSUME NEW S, IsFiniteSet(S), NEW R, StrictOrder(S, R), NEW x \in S, NEW y \in S,
         Rank(S, R, x) = Rank(S, R, y)
  PROVE  x = y
<1>1. Rank(S, R, x) \in Int /\ Rank(S, R, y) \in Int
  BY RankType, FS_CardinalityType DEF Rank
<1>2. ~ (<<x, y>> \in R) /\ ~ (<<y, x>> \in R)
  BY <1>1, RankGrows
<1> QED
  BY <1>2 DEF StrictOrder

\* Every rank below the cardinality is taken.
LEMMA RankTaken ==
  ASSUME NEW S, IsFiniteSet(S), NEW R, StrictOrder(S, R), NEW i \in 1 .. Cardinality(S)
  PROVE  \E x \in S : Rank(S, R, x) = i - 1
<1> DEFINE n == Cardinality(S)
           T == 0 .. n - 1
           f == [x \in S |-> Rank(S, R, x)]
<1>1. n \in Nat
  BY FS_CardinalityType
<1>2. f \in [S -> T]
  BY RankType
<1>3. \A x, y \in S : f[x] = f[y] => x = y
  BY RankUnique
<1>4. f \in Injection(S, T)
  BY <1>2, <1>3 DEF Injection, IsInjective
<1>5. IsFiniteSet(T) /\ Cardinality(T) = n
  <2>1. 0 \in Int /\ n - 1 \in Int
    BY <1>1
  <2>2. IsFiniteSet(T) /\ Cardinality(T) = IF 0 > n - 1 THEN 0 ELSE (n - 1) - 0 + 1
    BY <2>1, FS_Interval
  <2> HIDE DEF n
  <2> QED
    BY <1>1, <2>2
<1>6. f \in Surjection(S, T)
  <2> HIDE DEF f, T
  <2> QED
    BY <1>4, <1>5, FS_Injection
<1>7. i - 1 \in T
  BY <1>1
<1>8. \E x \in S : f[x] = i - 1
  <2> HIDE DEF f, T
  <2> QED
    BY <1>6, <1>7 DEF Surjection
<1> QED
  BY <1>8

\* A sequence with the ranks in order enumerates the set.
LEMMA RanksEnumerate ==
  ASSUME NEW S, IsFiniteSet(S), NEW R, StrictOrder(S, R),
         NEW s \in Seq(S), Len(s) = Cardinality(S),
         \A i \in 1 .. Len(s) : Rank(S, R, s[i]) = i - 1
  PROVE  Enumerates(s, S, R)
<1>1. Cardinality(S) \in Nat /\ DOMAIN s = 1 .. Cardinality(S)
  BY FS_CardinalityType
<1>2. ASSUME NEW x \in S PROVE \E i \in DOMAIN s : s[i] = x
  <2>1. Rank(S, R, x) \in 0 .. Cardinality(S) - 1
    BY RankType
  <2>2. Rank(S, R, x) + 1 \in 1 .. Cardinality(S) /\ (Rank(S, R, x) + 1) - 1 = Rank(S, R, x)
    BY <1>1, <2>1
  <2>3. Rank(S, R, s[Rank(S, R, x) + 1]) = Rank(S, R, x) /\ s[Rank(S, R, x) + 1] \in S
    BY <1>1, <2>2
  <2> QED
    BY <1>1, <2>2, <2>3, RankUnique
<1>3. ASSUME NEW i \in DOMAIN s, NEW j \in DOMAIN s, i < j PROVE <<s[i], s[j]>> \in R
  <2>1. s[i] \in S /\ s[j] \in S /\ Rank(S, R, s[i]) = i - 1 /\ Rank(S, R, s[j]) = j - 1
    BY <1>1
  <2>2. s[i] # s[j]
    BY <1>1, <1>3, <2>1
  <2>3. <<s[j], s[i]>> \notin R
    <3>1. SUFFICES ASSUME <<s[j], s[i]>> \in R PROVE FALSE
      OBVIOUS
    <3>2. Rank(S, R, s[j]) < Rank(S, R, s[i])
      BY <2>1, <3>1, RankGrows
    <3> QED
      BY <1>1, <1>3, <2>1, <3>2
  <2> QED
    BY <2>1, <2>2, <2>3 DEF StrictOrder
<1> QED
  BY <1>2, <1>3 DEF Enumerates

\* The ranks of an enumeration, which is therefore the only one.
LEMMA EnumerationRanks ==
  ASSUME NEW S, IsFiniteSet(S), NEW R, StrictOrder(S, R), NEW s, Enumerates(s, S, R)
  PROVE  /\ Len(s) = Cardinality(S)
         /\ \A i \in 1 .. Len(s) : s[i] \in S /\ Rank(S, R, s[i]) = i - 1
<1>1. s \in Seq(S) /\ Len(s) \in Nat /\ DOMAIN s = 1 .. Len(s)
  BY DEF Enumerates
<1>2. \A i, j \in 1 .. Len(s) : i < j => <<s[i], s[j]>> \in R
  BY <1>1, Zenon DEF Enumerates
<1>3. \A i, j \in 1 .. Len(s) : s[i] = s[j] => i = j
  <2> SUFFICES ASSUME NEW i \in 1 .. Len(s), NEW j \in 1 .. Len(s), s[i] = s[j], i < j
               PROVE  FALSE
    BY <1>1
  <2>1. <<s[i], s[j]>> \in R /\ s[i] \in S
    BY <1>1, <1>2
  <2> QED
    BY <2>1 DEF StrictOrder
<1>4. ASSUME NEW k \in 0 .. Len(s)
      PROVE  Cardinality({s[i] : i \in 1 .. k}) = k
  <2> DEFINE T == {s[i] : i \in 1 .. k}
             f == [i \in 1 .. k |-> s[i]]
  <2>1. 1 .. k \subseteq 1 .. Len(s)
    BY <1>1
  <2>2. f \in Surjection(1 .. k, T)
    BY DEF Surjection
  <2>3. f \in Injection(1 .. k, T)
    BY <1>3, <2>1 DEF Injection, IsInjective
  <2>4. IsFiniteSet(1 .. k) /\ Cardinality(1 .. k) = k
    <3>1. 1 \in Int /\ k \in Int
      BY <1>1
    <3>2. IsFiniteSet(1 .. k) /\ Cardinality(1 .. k) = IF 1 > k THEN 0 ELSE k - 1 + 1
      BY <3>1, FS_Interval
    <3> QED
      BY <1>1, <3>2
  <2> HIDE DEF T, f
  <2>5. Cardinality(T) = Cardinality(1 .. k)
    BY <2>2, <2>3, <2>4, FS_Surjection
  <2> QED
    BY <2>4, <2>5 DEF T
<1>5. Len(s) = Cardinality(S)
  <2>1. S = {s[i] : i \in 1 .. Len(s)}
    BY <1>1 DEF Enumerates
  <2> QED
    BY <1>1, <1>4, <2>1
<1>6. ASSUME NEW i \in 1 .. Len(s) PROVE s[i] \in S /\ Rank(S, R, s[i]) = i - 1
  <2>1. s[i] \in S
    BY <1>1
  <2>2. Under(S, R, s[i]) = {s[j] : j \in 1 .. i - 1}
    <3>1. ASSUME NEW j \in 1 .. i - 1 PROVE s[j] \in Under(S, R, s[i])
      <4>1. j \in 1 .. Len(s) /\ j < i
        BY <1>1
      <4> QED
        BY <1>1, <1>2, <4>1 DEF Under
    <3>2. ASSUME NEW y \in Under(S, R, s[i]) PROVE \E j \in 1 .. i - 1 : s[j] = y
      <4>1. y \in S /\ <<y, s[i]>> \in R
        BY DEF Under
      <4>2. PICK j \in 1 .. Len(s) : s[j] = y
        BY <1>1, <4>1 DEF Enumerates
      <4>3. ~ (i < j) /\ i # j
        <5>1. <<s[i], s[i]>> \notin R
          BY <2>1 DEF StrictOrder
        <5>2. i < j => <<s[i], y>> \in R
          BY <1>1, <4>2 DEF Enumerates
        <5> QED
          BY <2>1, <4>1, <4>2, <5>1, <5>2 DEF StrictOrder
      <4>4. j \in 1 .. i - 1
        BY <1>1, <4>3
      <4> QED
        BY <4>2, <4>4
    <3> QED
      BY <3>1, <3>2
  <2>3. i - 1 \in 0 .. Len(s)
    BY <1>1
  <2> QED
    BY <1>4, <2>1, <2>2, <2>3 DEF Rank
<1> QED
  BY <1>5, <1>6

LEMMA OneEnumeration ==
  ASSUME NEW S, IsFiniteSet(S), NEW R, StrictOrder(S, R),
         NEW s, Enumerates(s, S, R), NEW t, Enumerates(t, S, R)
  PROVE  s = t
<1>1. s \in Seq(S) /\ t \in Seq(S)
  BY DEF Enumerates
<1>2. Len(s) = Len(t)
  BY EnumerationRanks
<1>3. \A i \in 1 .. Len(s) : s[i] = t[i]
  BY <1>2, EnumerationRanks, RankUnique
<1> QED
  BY <1>1, <1>2, <1>3

LEMMA AscendingIs ==
  ASSUME NEW S \in SUBSET Int, IsFiniteSet(S)
  PROVE  /\ Ascending(S) \in Seq(S) /\ Len(Ascending(S)) = Cardinality(S)
         /\ \A x \in S : \E i \in 1 .. Len(Ascending(S)) : Ascending(S)[i] = x
         /\ \A i, j \in 1 .. Len(Ascending(S)) : i < j => Ascending(S)[i] < Ascending(S)[j]
<1> DEFINE R == {p \in S \X S : p[1] < p[2]}
           E(i) == CHOOSE x \in S : Cardinality({y \in S : y < x}) = i - 1
           s == [i \in 1 .. Cardinality(S) |-> E(i)]
<1>1. \A x, y \in S : <<x, y>> \in R <=> x < y
  OBVIOUS
<1>2. StrictOrder(S, R)
  <2> HIDE DEF R
  <2> QED
    BY <1>1 DEF StrictOrder
<1>3. \A x \in S : Under(S, R, x) = {y \in S : y < x}
  <2> HIDE DEF R
  <2> QED
    BY <1>1 DEF Under
<1> HIDE DEF R
<1>4. ASSUME NEW i \in 1 .. Cardinality(S)
      PROVE  E(i) \in S /\ Cardinality({y \in S : y < E(i)}) = i - 1
  <2>1. PICK x \in S : Rank(S, R, x) = i - 1
    BY <1>2, RankTaken
  <2>2. Cardinality({y \in S : y < x}) = i - 1
    BY <1>3, <2>1 DEF Rank
  <2> QED
    BY <2>2
<1>5. Cardinality(S) \in Nat
  BY FS_CardinalityType
<1>6. s \in Seq(S) /\ Len(s) = Cardinality(S)
  <2>1. \A i \in 1 .. Cardinality(S) : E(i) \in S
    BY <1>4
  <2> HIDE DEF E
  <2> QED
    BY <1>5, <2>1
<1>7. Ascending(S) = s
  <2>1. Ascending(S) = << >> \o s
    BY DEF Ascending, InOrder
  <2> HIDE DEF s
  <2> QED
    BY <1>6, <2>1
<1>8. \A i \in 1 .. Len(s) : s[i] = E(i)
  BY <1>6
<1> HIDE DEF s, E
<1>9. \A i \in 1 .. Len(s) : Rank(S, R, s[i]) = i - 1
  BY <1>3, <1>4, <1>6, <1>8 DEF Rank
<1>10. Enumerates(s, S, R)
  BY <1>2, <1>6, <1>9, RanksEnumerate
<1>11. DOMAIN s = 1 .. Len(s)
  BY <1>6
<1>12. \A i, j \in 1 .. Len(s) : i < j => <<s[i], s[j]>> \in R
  BY <1>10, <1>11, Zenon DEF Enumerates
<1>13. \A i, j \in 1 .. Len(s) : i < j => s[i] < s[j]
  <2>1. \A i \in 1 .. Len(s) : s[i] \in S
    BY <1>6
  <2> QED
    BY <1>1, <1>12, <2>1, Zenon
<1>14. \A x \in S : \E i \in 1 .. Len(s) : s[i] = x
  BY <1>10, <1>11 DEF Enumerates
<1> QED
  BY <1>6, <1>7, <1>13, <1>14

\* What is picked from a sequence: the elements at those positions, in order.
LEMMA PickAtIs ==
  ASSUME NEW U, NEW s \in Seq(U), NEW S \in SUBSET DOMAIN s
  PROVE  /\ PickAt(s, S) \in Seq(U)
         /\ \A k \in 1 .. Len(PickAt(s, S)) :
               /\ Ascending(S)[k] \in S /\ PickAt(s, S)[k] = s[Ascending(S)[k]]
               /\ \A l \in 1 .. Len(PickAt(s, S)) : k < l => Ascending(S)[k] < Ascending(S)[l]
         /\ \A i \in S : \E k \in 1 .. Len(PickAt(s, S)) : Ascending(S)[k] = i
         /\ PickAt(s, S) = << >> <=> S = {}
<1> DEFINE at == Ascending(S)
<1>1. DOMAIN s = 1 .. Len(s) /\ Len(s) \in Nat /\ S \in SUBSET Int
  OBVIOUS
<1>2. IsFiniteSet(S)
  <2>1. S \in SUBSET Nat /\ \A n \in S : n <= Len(s)
    BY <1>1
  <2> QED
    BY <1>1, <2>1, FS_BoundedSetOfNaturals
<1>3. /\ at \in Seq(S)
      /\ \A x \in S : \E i \in 1 .. Len(at) : at[i] = x
      /\ \A i, j \in 1 .. Len(at) : i < j => at[i] < at[j]
  BY <1>1, <1>2, AscendingIs
<1>4. PickAt(s, S) = [i \in DOMAIN at |-> s[at[i]]]
  BY DEF PickAt
<1> HIDE DEF at
<1>5. DOMAIN at = 1 .. Len(at) /\ Len(at) \in Nat
  BY <1>3
<1>6. \A k \in 1 .. Len(at) : at[k] \in S /\ s[at[k]] \in U
  <2>1. \A k \in 1 .. Len(at) : at[k] \in S
    BY <1>3, <1>5
  <2>2. \A i \in S : s[i] \in U
    BY <1>1
  <2> QED
    BY <2>1, <2>2
<1>7. PickAt(s, S) \in Seq(U) /\ Len(PickAt(s, S)) = Len(at)
  BY <1>4, <1>5, <1>6
<1>8. \A k \in 1 .. Len(at) : PickAt(s, S)[k] = s[at[k]]
  BY <1>4, <1>5
<1>9. PickAt(s, S) = << >> <=> S = {}
  <2>1. PickAt(s, S) = << >> <=> Len(at) = 0
    BY <1>7
  <2> QED
    BY <1>3, <1>5, <2>1
<1> QED
  BY <1>3, <1>6, <1>7, <1>8, <1>9 DEF at

(***************************************************************************)
(* Chains and what is visible of them.                                     *)
(***************************************************************************)

Versions == [begin : Nat, end : Nat, order : Nat, row : Rows, value_begin : Nat]

\* A value has one commit it began at, and none began after `at`.
ValuesOK(chain, at) ==
    /\ \A i \in DOMAIN chain : chain[i].value_begin <= at
    /\ \A i, j \in DOMAIN chain :
          chain[i].value_begin = chain[j].value_begin => chain[i].row = chain[j].row

\* Versions up to the commit `at`, one after the other, all but the last closed.
ChainOK(chain, at) ==
    /\ chain \in Seq(Versions) /\ chain # << >>
    /\ \A i \in DOMAIN chain :
          /\ chain[i].begin <= at
          /\ chain[i].end # OpenEnd => chain[i].begin < chain[i].end /\ chain[i].end <= at
    /\ \A i, j \in DOMAIN chain : i < j => /\ chain[i].end # OpenEnd
                                           /\ chain[i].end <= chain[j].begin
    /\ ValuesOK(chain, at)

\* The rows of a table at the commit `at`, when n row numbers were given out.
HistoryOK(history, at, n) ==
    /\ DOMAIN history.rows \subseteq 1 .. n
    /\ \A r \in DOMAIN history.rows : ChainOK(history.rows[r], at)

\* A reader at c sees of h what a reader at d sees of g.
LooksLike(h, c, g, d) ==
    /\ VisibleIds(h, c) = VisibleIds(g, d)
    /\ \A r \in VisibleIds(g, d) :
          /\ VersionAt(h.rows[r], c).order = VersionAt(g.rows[r], d).order
          /\ VersionAt(h.rows[r], c).row = VersionAt(g.rows[r], d).row

LEMMA VersionSeen ==
  ASSUME NEW chain, NEW at \in Nat, ChainOK(chain, at), NEW c \in Nat,
         NEW i \in DOMAIN chain, SeenAt(chain[i], c)
  PROVE  /\ VersionAt(chain, c) = chain[i]
         /\ \A j \in DOMAIN chain : SeenAt(chain[j], c) => j = i
<1>1. chain \in Seq(Versions) /\ DOMAIN chain = 1 .. Len(chain) /\ Len(chain) \in Nat
  BY DEF ChainOK
<1>2. \A k \in DOMAIN chain : chain[k] \in Versions
  BY <1>1
<1>3. ASSUME NEW j \in DOMAIN chain, SeenAt(chain[j], c) PROVE j = i
  <2>1. ASSUME NEW a \in DOMAIN chain, NEW b \in DOMAIN chain, a < b,
               SeenAt(chain[a], c), SeenAt(chain[b], c)
        PROVE  FALSE
    <3>1. chain[a].end # OpenEnd /\ chain[a].end <= chain[b].begin
      BY <2>1 DEF ChainOK
    <3>2. chain[b].begin <= c /\ c < chain[a].end
      BY <2>1, <3>1 DEF SeenAt
    <3>3. chain[a].end \in Nat /\ chain[b].begin \in Nat
      BY <1>2 DEF Versions
    <3> QED
      BY <3>1, <3>2, <3>3
  <2> QED
    BY <1>1, <1>3, <2>1
<1> DEFINE I == {k \in 1 .. Len(chain) : SeenAt(chain[k], c)}
<1>4. I = {i}
  BY <1>1, <1>3
<1>5. Max({i}) = i
  BY <1>1 DEF Max
<1>6. VersionAt(chain, c) = chain[i]
  <2>1. VersionAt(chain, c) = chain[IF I # {} THEN Max(I) ELSE 0]
    BY DEF VersionAt, SelectLastInSeq
  <2> HIDE DEF I
  <2> QED
    BY <1>4, <1>5, <2>1
<1> QED
  BY <1>3, <1>6

LEMMA VisibleIs ==
  ASSUME NEW h, NEW at \in Nat, NEW n \in Nat, HistoryOK(h, at, n), NEW c \in Nat
  PROVE  /\ VisibleIds(h, c) \in SUBSET DOMAIN h.rows
         /\ VisibleIds(h, c) \in SUBSET Nat /\ IsFiniteSet(VisibleIds(h, c))
         /\ \A r \in VisibleIds(h, c) :
               /\ VersionAt(h.rows[r], c) \in Versions
               /\ \E i \in DOMAIN h.rows[r] : /\ SeenAt(h.rows[r][i], c)
                                              /\ VersionAt(h.rows[r], c) = h.rows[r][i]
<1>1. VisibleIds(h, c) \in SUBSET DOMAIN h.rows /\ DOMAIN h.rows \in SUBSET (1 .. n)
  BY DEF VisibleIds, HistoryOK
<1>2. VisibleIds(h, c) \in SUBSET Nat /\ \A r \in VisibleIds(h, c) : r <= n
  BY <1>1
<1>3. IsFiniteSet(VisibleIds(h, c))
  BY <1>2, FS_BoundedSetOfNaturals
<1>4. ASSUME NEW r \in VisibleIds(h, c)
      PROVE  /\ VersionAt(h.rows[r], c) \in Versions
             /\ \E i \in DOMAIN h.rows[r] : /\ SeenAt(h.rows[r][i], c)
                                            /\ VersionAt(h.rows[r], c) = h.rows[r][i]
  <2>1. PICK i \in DOMAIN h.rows[r] : SeenAt(h.rows[r][i], c)
    BY DEF VisibleIds
  <2>2. ChainOK(h.rows[r], at)
    BY <1>1 DEF HistoryOK
  <2>3. VersionAt(h.rows[r], c) = h.rows[r][i]
    BY <2>1, <2>2, VersionSeen
  <2>4. h.rows[r] \in Seq(Versions)
    BY <2>2 DEF ChainOK
  <2> QED
    BY <2>1, <2>3, <2>4
<1> QED
  BY <1>1, <1>2, <1>3, <1>4

\* The logical order of the visible rows.
LogicalOrder(h, c) ==
    {p \in VisibleIds(h, c) \X VisibleIds(h, c) :
        LET a == VersionAt(h.rows[p[1]], c).order
            b == VersionAt(h.rows[p[2]], c).order
        IN  a < b \/ (a = b /\ p[1] < p[2])}

LEMMA LogicalOrderIs ==
  ASSUME NEW h, NEW at \in Nat, NEW n \in Nat, HistoryOK(h, at, n), NEW c \in Nat
  PROVE  /\ \A x, y \in VisibleIds(h, c) :
               <<x, y>> \in LogicalOrder(h, c) <=>
                  \/ VersionAt(h.rows[x], c).order < VersionAt(h.rows[y], c).order
                  \/ /\ VersionAt(h.rows[x], c).order = VersionAt(h.rows[y], c).order
                     /\ x < y
         /\ StrictOrder(VisibleIds(h, c), LogicalOrder(h, c))
<1> DEFINE V == VisibleIds(h, c)
           order == [x \in V |-> VersionAt(h.rows[x], c).order]
           R == LogicalOrder(h, c)
<1>1. ASSUME NEW x \in V, NEW y \in V
      PROVE  <<x, y>> \in R <=> order[x] < order[y] \/ (order[x] = order[y] /\ x < y)
  BY DEF LogicalOrder
<1>2. V \in SUBSET Nat /\ \A x \in V : VersionAt(h.rows[x], c) \in Versions
  BY VisibleIs
<1>3. order \in [V -> Nat]
  BY <1>2 DEF Versions
<1>4. \A x \in V : order[x] = VersionAt(h.rows[x], c).order
  OBVIOUS
<1> HIDE DEF V, R, order
<1>5. StrictOrder(V, R)
  <2>1. \A x \in V : <<x, x>> \notin R
    BY <1>1, <1>2, <1>3
  <2>2. ASSUME NEW x \in V, NEW y \in V, NEW z \in V, <<x, y>> \in R, <<y, z>> \in R
        PROVE  <<x, z>> \in R
    <3>1. order[x] \in Nat /\ order[y] \in Nat /\ order[z] \in Nat
      BY <1>3
    <3>2. x \in Nat /\ y \in Nat /\ z \in Nat
      BY <1>2
    <3>3. order[x] < order[y] \/ (order[x] = order[y] /\ x < y)
      BY <1>1, <2>2
    <3>4. order[y] < order[z] \/ (order[y] = order[z] /\ y < z)
      BY <1>1, <2>2
    <3>5. order[x] < order[z] \/ (order[x] = order[z] /\ x < z)
      BY <3>1, <3>2, <3>3, <3>4
    <3> QED
      BY <1>1, <3>5
  <2>3. ASSUME NEW x \in V, NEW y \in V, x # y PROVE <<x, y>> \in R \/ <<y, x>> \in R
    <3>1. order[x] \in Nat /\ order[y] \in Nat /\ x \in Nat /\ y \in Nat
      BY <1>2, <1>3
    <3>2. \/ order[x] < order[y] \/ (order[x] = order[y] /\ x < y)
          \/ order[y] < order[x] \/ (order[y] = order[x] /\ y < x)
      BY <2>3, <3>1
    <3> QED
      BY <1>1, <3>2
  <2> QED
    BY <2>1, <2>2, <2>3 DEF StrictOrder
<1> QED
  BY <1>1, <1>4, <1>5 DEF V, R

\* VisibleInOrder() has each visible row once, in logical order.
LEMMA VisibleOrder ==
  ASSUME NEW h, NEW at \in Nat, NEW n \in Nat, HistoryOK(h, at, n), NEW c \in Nat
  PROVE  Enumerates(VisibleInOrder(h, c), VisibleIds(h, c), LogicalOrder(h, c))
<1> DEFINE V == VisibleIds(h, c)
           R == LogicalOrder(h, c)
           B(y, x) == \/ VersionAt(h.rows[y], c).order < VersionAt(h.rows[x], c).order
                      \/ /\ VersionAt(h.rows[y], c).order = VersionAt(h.rows[x], c).order
                         /\ y < x
           E(i) == CHOOSE x \in V : Cardinality({y \in V : B(y, x)}) = i - 1
           s == [i \in 1 .. Cardinality(V) |-> E(i)]
<1>1. StrictOrder(V, R) /\ IsFiniteSet(V)
  BY LogicalOrderIs, VisibleIs
<1>2. \A x, y \in V : <<y, x>> \in R <=> B(y, x)
  BY LogicalOrderIs
<1>3. VisibleInOrder(h, c) = << >> \o s
  BY DEF VisibleInOrder, InOrder
<1> HIDE DEF V, R, B
<1>4. \A x \in V : Under(V, R, x) = {y \in V : B(y, x)}
  BY <1>2 DEF Under
<1>5. ASSUME NEW i \in 1 .. Cardinality(V)
      PROVE  E(i) \in V /\ Cardinality({y \in V : B(y, E(i))}) = i - 1
  <2>1. PICK x \in V : Rank(V, R, x) = i - 1
    BY <1>1, RankTaken
  <2>2. Cardinality({y \in V : B(y, x)}) = i - 1
    BY <1>4, <2>1 DEF Rank
  <2> QED
    BY <2>2
<1>6. Cardinality(V) \in Nat
  BY <1>1, FS_CardinalityType
<1>7. s \in Seq(V) /\ Len(s) = Cardinality(V)
  <2>1. \A i \in 1 .. Cardinality(V) : E(i) \in V
    BY <1>5
  <2> HIDE DEF E
  <2> QED
    BY <1>6, <2>1
<1>8. \A i \in 1 .. Len(s) : s[i] = E(i)
  BY <1>7
<1> HIDE DEF s, E
<1>9. VisibleInOrder(h, c) = s
  BY <1>3, <1>7
<1>10. \A i \in 1 .. Len(s) : Rank(V, R, s[i]) = i - 1
  BY <1>4, <1>5, <1>7, <1>8 DEF Rank
<1>11. Enumerates(s, V, R)
  BY <1>1, <1>7, <1>10, RanksEnumerate
<1> QED
  BY <1>9, <1>11 DEF V, R

\* What Visible() returns.
LEMMA VisibleEntries ==
  ASSUME NEW h, NEW at \in Nat, NEW n \in Nat, HistoryOK(h, at, n), NEW c \in Nat
  PROVE  LET old == Visible(h, c) IN
         /\ DOMAIN old = 1 .. Len(VisibleInOrder(h, c)) /\ Len(VisibleInOrder(h, c)) \in Nat
         /\ \A p \in DOMAIN old :
               /\ old[p] = [id |-> VisibleInOrder(h, c)[p],
                            version |-> VersionAt(h.rows[old[p].id], c)]
               /\ old[p].id = VisibleInOrder(h, c)[p]
               /\ old[p].id \in VisibleIds(h, c)
               /\ old[p].version = VersionAt(h.rows[old[p].id], c)
         /\ \A p, q \in DOMAIN old : old[p].id = old[q].id => p = q
         /\ \A r \in VisibleIds(h, c) : \E p \in DOMAIN old : old[p].id = r
<1> DEFINE ids == VisibleInOrder(h, c)
           V == VisibleIds(h, c)
           R == LogicalOrder(h, c)
<1>1. Enumerates(ids, V, R) /\ StrictOrder(V, R)
  BY VisibleOrder, LogicalOrderIs
<1>2. Visible(h, c) = [p \in DOMAIN ids |-> [id |-> ids[p],
                                            version |-> VersionAt(h.rows[ids[p]], c)]]
  BY DEF Visible
<1> HIDE DEF ids, V, R
<1>3. ids \in Seq(V) /\ DOMAIN ids = 1 .. Len(ids) /\ Len(ids) \in Nat
  BY <1>1 DEF Enumerates
<1>4. ASSUME NEW p \in DOMAIN ids, NEW q \in DOMAIN ids, ids[p] = ids[q] PROVE p = q
  <2>1. \A i, j \in DOMAIN ids : i < j => <<ids[i], ids[j]>> \in R
    BY <1>1 DEF Enumerates
  <2>2. ids[p] \in V /\ <<ids[p], ids[p]>> \notin R
    BY <1>1, <1>3 DEF StrictOrder
  <2>3. ~ (p < q) /\ ~ (q < p)
    BY <1>4, <2>1, <2>2
  <2> QED
    BY <1>3, <2>3
<1>5. \A r \in V : \E p \in DOMAIN ids : ids[p] = r
  BY <1>1 DEF Enumerates
<1>6. DOMAIN Visible(h, c) = DOMAIN ids
  BY <1>2
<1>7. ASSUME NEW p \in DOMAIN ids
      PROVE  /\ Visible(h, c)[p] = [id |-> ids[p], version |-> VersionAt(h.rows[ids[p]], c)]
             /\ Visible(h, c)[p].id = ids[p]
             /\ Visible(h, c)[p].version = VersionAt(h.rows[ids[p]], c)
             /\ ids[p] \in V
  BY <1>2, <1>3
<1> QED
  BY <1>3, <1>4, <1>5, <1>6, <1>7 DEF ids, V

\* Readers that see the same rows see them in the same order, and read the same
\* sequence.
LEMMA SameOrder ==
  ASSUME NEW h, NEW at \in Nat, NEW n \in Nat, HistoryOK(h, at, n), NEW c \in Nat,
         NEW g, NEW to \in Nat, NEW m \in Nat, HistoryOK(g, to, m), NEW d \in Nat,
         LooksLike(h, c, g, d)
  PROVE  VisibleInOrder(h, c) = VisibleInOrder(g, d)
<1> DEFINE V == VisibleIds(h, c)
<1>1. V = VisibleIds(g, d) /\ IsFiniteSet(V)
  BY VisibleIs DEF LooksLike
<1>2. LogicalOrder(h, c) = LogicalOrder(g, d)
  BY DEF LogicalOrder, LooksLike
<1>3. /\ Enumerates(VisibleInOrder(h, c), V, LogicalOrder(h, c))
      /\ Enumerates(VisibleInOrder(g, d), V, LogicalOrder(h, c))
      /\ StrictOrder(V, LogicalOrder(h, c))
  BY <1>1, <1>2, VisibleOrder, LogicalOrderIs
<1> QED
  BY <1>1, <1>3, OneEnumeration

LEMMA SameRead ==
  ASSUME NEW h, NEW at \in Nat, NEW n \in Nat, HistoryOK(h, at, n), NEW c \in Nat,
         NEW g, NEW to \in Nat, NEW m \in Nat, HistoryOK(g, to, m), NEW d \in Nat,
         LooksLike(h, c, g, d)
  PROVE  VisibleRows(h, c) = VisibleRows(g, d)
<1> DEFINE V == VisibleIds(h, c)
<1>1. V = VisibleIds(g, d)
  BY DEF LooksLike
<1>4. VisibleInOrder(h, c) = VisibleInOrder(g, d)
  BY SameOrder
<1>5. DOMAIN Visible(h, c) = DOMAIN Visible(g, d)
  <2>1. DOMAIN Visible(h, c) = 1 .. Len(VisibleInOrder(h, c))
    BY VisibleEntries
  <2>2. DOMAIN Visible(g, d) = 1 .. Len(VisibleInOrder(g, d))
    BY VisibleEntries
  <2> QED
    BY <1>4, <2>1, <2>2
<1>6. ASSUME NEW p \in DOMAIN Visible(h, c)
      PROVE  Visible(h, c)[p].version.row = Visible(g, d)[p].version.row
  <2>1. /\ Visible(h, c)[p].id = VisibleInOrder(h, c)[p] /\ Visible(h, c)[p].id \in V
        /\ Visible(h, c)[p].version = VersionAt(h.rows[Visible(h, c)[p].id], c)
    BY VisibleEntries
  <2>2. /\ Visible(g, d)[p].id = VisibleInOrder(g, d)[p]
        /\ Visible(g, d)[p].version = VersionAt(g.rows[Visible(g, d)[p].id], d)
    BY <1>5, VisibleEntries
  <2>3. Visible(h, c)[p].id = Visible(g, d)[p].id
    BY <1>4, <2>1, <2>2
  <2> QED
    BY <1>1, <2>1, <2>2, <2>3 DEF LooksLike
<1> QED
  BY <1>5, <1>6 DEF VisibleRows, RowsOf

(***************************************************************************)
(* What the operations on a chain leave visible.                           *)
(***************************************************************************)

SeesAt(chain, c) == \E i \in DOMAIN chain : SeenAt(chain[i], c)

\* A reader at c sees of chain a what a reader at d sees of chain b.
SameAt(a, b, c, d) ==
    /\ SeesAt(a, c) <=> SeesAt(b, d)
    /\ SeesAt(b, d) => /\ VersionAt(a, c).order = VersionAt(b, d).order
                       /\ VersionAt(a, c).row = VersionAt(b, d).row

LEMMA LooksLikeBy ==
  ASSUME NEW h, NEW g, NEW c, NEW d,
         \A r \in DOMAIN h.rows \cap DOMAIN g.rows : SameAt(h.rows[r], g.rows[r], c, d),
         \A r \in DOMAIN h.rows \ DOMAIN g.rows : ~ SeesAt(h.rows[r], c),
         \A r \in DOMAIN g.rows \ DOMAIN h.rows : ~ SeesAt(g.rows[r], d)
  PROVE  LooksLike(h, c, g, d)
<1>1. VisibleIds(h, c) = {r \in DOMAIN h.rows : SeesAt(h.rows[r], c)}
  BY DEF VisibleIds, SeesAt
<1>2. VisibleIds(g, d) = {r \in DOMAIN g.rows : SeesAt(g.rows[r], d)}
  BY DEF VisibleIds, SeesAt
<1>3. VisibleIds(h, c) = VisibleIds(g, d)
  BY <1>1, <1>2 DEF SameAt
<1>4. ASSUME NEW r \in VisibleIds(g, d)
      PROVE  /\ VersionAt(h.rows[r], c).order = VersionAt(g.rows[r], d).order
             /\ VersionAt(h.rows[r], c).row = VersionAt(g.rows[r], d).row
  <2>1. r \in DOMAIN h.rows /\ r \in DOMAIN g.rows /\ SeesAt(g.rows[r], d)
    BY <1>1, <1>2, <1>3
  <2>2. SameAt(h.rows[r], g.rows[r], c, d)
    BY <2>1
  <2> QED
    BY <2>1, <2>2 DEF SameAt
<1> QED
  BY <1>3, <1>4 DEF LooksLike

LEMMA SameAtBy ==
  ASSUME NEW a, NEW b, NEW c \in Nat, NEW d \in Nat,
         NEW to \in Nat, ChainOK(a, to), NEW at \in Nat, ChainOK(b, at),
         \A i \in DOMAIN b : SeenAt(b[i], d) =>
            \E j \in DOMAIN a : SeenAt(a[j], c) /\ a[j].order = b[i].order /\ a[j].row = b[i].row,
         \A j \in DOMAIN a : SeenAt(a[j], c) => SeesAt(b, d)
  PROVE  SameAt(a, b, c, d)
<1>1. SeesAt(a, c) <=> SeesAt(b, d)
  BY DEF SeesAt
<1>2. ASSUME SeesAt(b, d)
      PROVE  /\ VersionAt(a, c).order = VersionAt(b, d).order
             /\ VersionAt(a, c).row = VersionAt(b, d).row
  <2>1. PICK i \in DOMAIN b : SeenAt(b[i], d)
    BY <1>2 DEF SeesAt
  <2>2. PICK j \in DOMAIN a : SeenAt(a[j], c) /\ a[j].order = b[i].order /\ a[j].row = b[i].row
    BY <2>1
  <2>3. VersionAt(a, c) = a[j] /\ VersionAt(b, d) = b[i]
    BY <2>1, <2>2, VersionSeen
  <2> QED
    BY <2>2, <2>3
<1> QED
  BY <1>1, <1>2 DEF SameAt

LEMMA ChainType ==
  ASSUME NEW chain, NEW at, ChainOK(chain, at)
  PROVE  /\ chain \in Seq(Versions) /\ DOMAIN chain = 1 .. Len(chain) /\ Len(chain) \in Nat
         /\ Len(chain) \in DOMAIN chain
         /\ \A i \in DOMAIN chain :
               /\ chain[i] \in Versions
               /\ chain[i].begin \in Nat /\ chain[i].end \in Nat /\ chain[i].order \in Nat
               /\ chain[i].row \in Rows /\ chain[i].value_begin \in Nat
<1>1. chain \in Seq(Versions) /\ chain # << >>
  BY DEF ChainOK
<1>2. DOMAIN chain = 1 .. Len(chain) /\ Len(chain) \in Nat /\ Len(chain) # 0
  BY <1>1
<1>3. \A i \in DOMAIN chain : chain[i] \in Versions
  BY <1>1
<1>4. \A v \in Versions : /\ v.begin \in Nat /\ v.end \in Nat /\ v.order \in Nat
                          /\ v.row \in Rows /\ v.value_begin \in Nat
  BY DEF Versions
<1> QED
  BY <1>1, <1>2, <1>3, <1>4

LEMMA ChainLater ==
  ASSUME NEW chain, NEW at \in Nat, NEW to \in Nat, at <= to, ChainOK(chain, at)
  PROVE  ChainOK(chain, to)
<1>1. ASSUME NEW i \in DOMAIN chain
      PROVE  /\ chain[i].begin <= to
             /\ chain[i].end # OpenEnd => chain[i].begin < chain[i].end /\ chain[i].end <= to
  <2>1. chain[i].begin \in Nat /\ chain[i].end \in Nat
    BY ChainType
  <2>2. /\ chain[i].begin <= at
        /\ chain[i].end # OpenEnd => chain[i].begin < chain[i].end /\ chain[i].end <= at
    BY DEF ChainOK
  <2> QED
    BY <2>1, <2>2
<1>2. ValuesOK(chain, to)
  <2>1. ASSUME NEW i \in DOMAIN chain PROVE chain[i].value_begin <= to
    <3>1. chain[i].value_begin \in Nat /\ chain[i].value_begin <= at
      BY ChainType DEF ChainOK, ValuesOK
    <3> QED
      BY <3>1
  <2> QED
    BY <2>1 DEF ChainOK, ValuesOK
<1> QED
  BY <1>1, <1>2 DEF ChainOK

\* The version visible now is the last one, and it is open.
LEMMA SeenNow ==
  ASSUME NEW chain, NEW at \in Nat, ChainOK(chain, at), NEW c \in Nat, at <= c,
         NEW i \in DOMAIN chain
  PROVE  /\ SeenAt(chain[i], c) <=> chain[i].end = OpenEnd
         /\ chain[i].end = OpenEnd => i = Len(chain)
<1>1. chain[i].begin \in Nat /\ chain[i].end \in Nat
  BY ChainType
<1>2. /\ chain[i].begin <= at
      /\ chain[i].end # OpenEnd => chain[i].begin < chain[i].end /\ chain[i].end <= at
  BY DEF ChainOK
<1>3. SeenAt(chain[i], c) <=> chain[i].end = OpenEnd
  BY <1>1, <1>2 DEF SeenAt
<1>4. chain[i].end = OpenEnd => i = Len(chain)
  <2>1. DOMAIN chain = 1 .. Len(chain) /\ Len(chain) \in Nat /\ Len(chain) \in DOMAIN chain
    BY ChainType
  <2>2. i < Len(chain) => chain[i].end # OpenEnd
    BY <2>1 DEF ChainOK
  <2> QED
    BY <2>1, <2>2
<1> QED
  BY <1>3, <1>4

LEMMA SameLater ==
  ASSUME NEW chain, NEW at \in Nat, ChainOK(chain, at), NEW c \in Nat, NEW d \in Nat,
         at <= c, at <= d
  PROVE  SameAt(chain, chain, c, d)
<1>1. \A i \in DOMAIN chain : SeenAt(chain[i], c) <=> SeenAt(chain[i], d)
  BY SeenNow
<1> QED
  BY <1>1, SameAtBy DEF SeesAt

LEMMA SameSelf ==
  ASSUME NEW chain, NEW c PROVE SameAt(chain, chain, c, c)
BY DEF SameAt

\* A version that ends after the readers at c.
LEMMA ClosedVersion ==
  ASSUME NEW v \in Versions, NEW csn \in Nat, v.end = OpenEnd, v.begin < csn
  PROVE  /\ [v EXCEPT !.end = csn] \in Versions
         /\ [v EXCEPT !.end = csn].begin = v.begin /\ [v EXCEPT !.end = csn].end = csn
         /\ [v EXCEPT !.end = csn].order = v.order /\ [v EXCEPT !.end = csn].row = v.row
         /\ [v EXCEPT !.end = csn].value_begin = v.value_begin
         /\ csn # OpenEnd
         /\ \A c \in Nat : c < csn => (SeenAt([v EXCEPT !.end = csn], c) <=> SeenAt(v, c))
         /\ ~ SeenAt([v EXCEPT !.end = csn], csn)
<1> DEFINE w == [v EXCEPT !.end = csn]
<1>1. /\ w \in Versions /\ w.begin = v.begin /\ w.end = csn
      /\ w.order = v.order /\ w.row = v.row /\ w.value_begin = v.value_begin
  BY DEF Versions
<1>2. v.begin \in Nat /\ csn # OpenEnd
  BY DEF Versions, OpenEnd
<1> HIDE DEF w
<1>3. ~ SeenAt(w, csn)
  BY <1>1, <1>2 DEF SeenAt
<1>4. \A c \in Nat : c < csn => (SeenAt(w, c) <=> SeenAt(v, c))
  BY <1>1, <1>2 DEF SeenAt
<1> QED
  BY <1>1, <1>2, <1>3, <1>4 DEF w

LEMMA CloseLastOK ==
  ASSUME NEW chain, NEW at \in Nat, ChainOK(chain, at), NEW csn \in Nat, at < csn,
         chain[Len(chain)].end = OpenEnd
  PROVE  /\ ChainOK(CloseLast(chain, csn), csn)
         /\ Len(CloseLast(chain, csn)) = Len(chain)
         /\ \A i \in DOMAIN CloseLast(chain, csn) :
               /\ i \in DOMAIN chain /\ CloseLast(chain, csn)[i].row = chain[i].row
               /\ CloseLast(chain, csn)[i].value_begin = chain[i].value_begin
         /\ \A i \in DOMAIN CloseLast(chain, csn) : /\ CloseLast(chain, csn)[i].end # OpenEnd
                                                    /\ CloseLast(chain, csn)[i].end <= csn
         /\ ~ SeesAt(CloseLast(chain, csn), csn)
         /\ \A c \in Nat : c < csn => SameAt(CloseLast(chain, csn), chain, c, c)
<1> DEFINE n == Len(chain)
           new == CloseLast(chain, csn)
<1>1. /\ chain \in Seq(Versions) /\ DOMAIN chain = 1 .. n /\ n \in Nat /\ n \in DOMAIN chain
      /\ \A i \in DOMAIN chain : chain[i] \in Versions /\ chain[i].begin \in Nat /\ chain[i].end \in Nat
  BY ChainType
<1>2. \A i \in DOMAIN chain :
          /\ chain[i].begin <= at
          /\ chain[i].end # OpenEnd => chain[i].begin < chain[i].end /\ chain[i].end <= at
  BY DEF ChainOK
<1>3. \A i, j \in DOMAIN chain : i < j => /\ chain[i].end # OpenEnd
                                          /\ chain[i].end <= chain[j].begin
  BY DEF ChainOK
<1>4. chain[n].begin < csn
  BY <1>1, <1>2
<1> DEFINE last == [chain[n] EXCEPT !.end = csn]
<1>5. /\ last \in Versions /\ last.begin = chain[n].begin /\ last.end = csn
      /\ last.order = chain[n].order /\ last.row = chain[n].row /\ csn # OpenEnd
      /\ last.value_begin = chain[n].value_begin
      /\ \A c \in Nat : c < csn => (SeenAt(last, c) <=> SeenAt(chain[n], c))
      /\ ~ SeenAt(last, csn)
  BY <1>1, <1>4, ClosedVersion
<1>6. new = [chain EXCEPT ![n] = last]
  BY DEF CloseLast
<1> HIDE DEF new, last, n
<1>7. /\ new \in Seq(Versions) /\ Len(new) = n /\ DOMAIN new = DOMAIN chain
      /\ new[n] = last /\ \A i \in DOMAIN chain : i # n => new[i] = chain[i]
  BY <1>1, <1>5, <1>6 DEF n
<1>8. \A i \in DOMAIN chain : i # n => chain[i].end # OpenEnd /\ i < n
  BY <1>1, <1>3
<1>9. ASSUME NEW i \in DOMAIN new
      PROVE  /\ new[i].begin <= csn /\ new[i].end # OpenEnd
             /\ new[i].begin < new[i].end /\ new[i].end <= csn
             /\ new[i].begin = chain[i].begin /\ new[i].order = chain[i].order
             /\ new[i].row = chain[i].row /\ new[i].value_begin = chain[i].value_begin
             /\ \A c \in Nat : c < csn => (SeenAt(new[i], c) <=> SeenAt(chain[i], c))
             /\ ~ SeenAt(new[i], csn)
  <2>1. CASE i = n
    BY <1>1, <1>4, <1>5, <1>7, <2>1
  <2>2. CASE i # n
    <3>1. new[i] = chain[i] /\ chain[i].end # OpenEnd
      BY <1>7, <1>8, <2>2
    <3>2. /\ chain[i].begin \in Nat /\ chain[i].end \in Nat /\ chain[i].begin <= at
          /\ chain[i].begin < chain[i].end /\ chain[i].end <= at
      BY <1>1, <1>2, <1>7, <3>1
    <3>3. ~ SeenAt(chain[i], csn)
      BY <3>1, <3>2 DEF SeenAt
    <3> QED
      BY <3>1, <3>2, <3>3
  <2> QED
    BY <2>1, <2>2
<1>10. ASSUME NEW i \in DOMAIN new, NEW j \in DOMAIN new, i < j
       PROVE  new[i].end <= new[j].begin
  <2>1. i # n /\ i \in DOMAIN chain /\ j \in DOMAIN chain
    BY <1>1, <1>7, <1>10
  <2>2. new[i] = chain[i] /\ new[j].begin = chain[j].begin
    BY <1>7, <1>9, <2>1
  <2> QED
    BY <1>3, <1>10, <2>1, <2>2
<1>11. new # << >>
  BY <1>1, <1>7
<1>15. ValuesOK(new, csn)
  <2>1. ValuesOK(chain, csn)
    BY ChainLater DEF ChainOK
  <2> QED
    BY <1>7, <1>9, <2>1 DEF ValuesOK
<1>12. ChainOK(new, csn)
  BY <1>7, <1>9, <1>10, <1>11, <1>15 DEF ChainOK
<1>13. ASSUME NEW c \in Nat, c < csn PROVE SameAt(new, chain, c, c)
  <2>1. ASSUME NEW i \in DOMAIN chain, SeenAt(chain[i], c)
        PROVE  /\ i \in DOMAIN new /\ SeenAt(new[i], c)
               /\ new[i].order = chain[i].order /\ new[i].row = chain[i].row
    BY <1>7, <1>9, <1>13, <2>1
  <2>2. ASSUME NEW i \in DOMAIN new, SeenAt(new[i], c) PROVE SeesAt(chain, c)
    BY <1>7, <1>9, <1>13, <2>2 DEF SeesAt
  <2> QED
    BY <1>12, <2>1, <2>2, SameAtBy
<1>14. ~ SeesAt(new, csn)
  BY <1>9 DEF SeesAt
<1> QED
  BY <1>7, <1>9, <1>12, <1>13, <1>14 DEF new, n

\* A row that goes on with a new version.
\* The chain `new` shows v at csn, and before csn what `chain` shows.
Extended(new, chain, v, csn) ==
    /\ ChainOK(new, csn) /\ SeesAt(new, csn) /\ VersionAt(new, csn) = v
    /\ \A c \in Nat : c < csn => SameAt(new, chain, c, c)

LEMMA ExtendOK ==
  ASSUME NEW chain, NEW at \in Nat, ChainOK(chain, at), NEW csn \in Nat, at < csn,
         chain[Len(chain)].end = OpenEnd,
         NEW v \in Versions, v.begin = csn, v.end = OpenEnd,
         \/ v.value_begin = csn
         \/ v.value_begin = chain[Len(chain)].value_begin /\ v.row = chain[Len(chain)].row
  PROVE  Extended(Append(CloseLast(chain, csn), v), chain, v, csn)
<1> DEFINE base == CloseLast(chain, csn)
           new == Append(base, v)
           n == Len(base)
<1>1. /\ ChainOK(base, csn)
      /\ \A i \in DOMAIN base : base[i].end # OpenEnd /\ base[i].end <= csn
      /\ \A c \in Nat : c < csn => SameAt(base, chain, c, c)
      /\ \A i \in DOMAIN base : /\ i \in DOMAIN chain /\ base[i].row = chain[i].row
                                /\ base[i].value_begin = chain[i].value_begin
  BY CloseLastOK
<1>2. base \in Seq(Versions) /\ DOMAIN base = 1 .. n /\ n \in Nat
  BY <1>1, ChainType
<1> HIDE DEF base
<1>3. /\ new \in Seq(Versions) /\ Len(new) = n + 1 /\ DOMAIN new = 1 .. n + 1 /\ new # << >>
      /\ new[n + 1] = v /\ \A i \in 1 .. n : new[i] = base[i]
  BY <1>2
<1> HIDE DEF new, n
<1>4. ASSUME NEW i \in DOMAIN new
      PROVE  /\ new[i].begin <= csn
             /\ new[i].end # OpenEnd => new[i].begin < new[i].end /\ new[i].end <= csn
  <2>1. CASE i = n + 1
    BY <1>3, <2>1
  <2>2. CASE i # n + 1
    <3>1. i \in DOMAIN base /\ new[i] = base[i]
      BY <1>2, <1>3, <2>2
    <3> QED
      BY <1>1, <3>1 DEF ChainOK
  <2> QED
    BY <2>1, <2>2
<1>5. ASSUME NEW i \in DOMAIN new, NEW j \in DOMAIN new, i < j
      PROVE  new[i].end # OpenEnd /\ new[i].end <= new[j].begin
  <2>1. i \in DOMAIN base /\ new[i] = base[i]
    BY <1>2, <1>3, <1>5
  <2>2. CASE j = n + 1
    BY <1>1, <1>3, <2>1, <2>2
  <2>3. CASE j # n + 1
    <3>1. j \in DOMAIN base /\ new[j] = base[j]
      BY <1>2, <1>3, <2>3
    <3> QED
      BY <1>1, <1>5, <2>1, <3>1 DEF ChainOK
  <2> QED
    BY <2>2, <2>3
<1>9. ValuesOK(new, csn)
  <2>1. /\ \A i \in DOMAIN chain : chain[i].value_begin \in Nat /\ chain[i].value_begin <= at
        /\ \A i, j \in DOMAIN chain :
              chain[i].value_begin = chain[j].value_begin => chain[i].row = chain[j].row
        /\ Len(chain) \in DOMAIN chain
    BY ChainType DEF ChainOK, ValuesOK
  <2>2. \A i \in DOMAIN new :
           \/ i = n + 1 /\ new[i] = v
           \/ i \in DOMAIN chain /\ new[i].row = chain[i].row
              /\ new[i].value_begin = chain[i].value_begin
    BY <1>1, <1>2, <1>3
  <2>3. \A i \in DOMAIN chain : chain[i].value_begin < csn
    BY <2>1
  <2>4. \A i \in DOMAIN chain : v.value_begin = chain[i].value_begin => v.row = chain[i].row
    BY <2>1, <2>3
  <2>5. v.value_begin <= csn
    BY <2>1, <2>3
  <2>6. \A i \in DOMAIN new : new[i].value_begin <= csn
    <3> HIDE DEF new
    <3> QED
      BY <2>1, <2>2, <2>3, <2>5
  <2>7. \A i, j \in DOMAIN new : new[i].value_begin = new[j].value_begin => new[i].row = new[j].row
    BY <2>1, <2>2, <2>4
  <2> QED
    BY <2>6, <2>7 DEF ValuesOK
<1>6. ChainOK(new, csn)
  BY <1>3, <1>4, <1>5, <1>9 DEF ChainOK
<1>7. SeesAt(new, csn) /\ VersionAt(new, csn) = v
  <2>1. n + 1 \in DOMAIN new /\ SeenAt(new[n + 1], csn)
    BY <1>2, <1>3 DEF SeenAt
  <2>2. VersionAt(new, csn) = new[n + 1]
    BY <1>6, <2>1, VersionSeen
  <2> QED
    BY <1>3, <2>1, <2>2 DEF SeesAt
<1>8. ASSUME NEW c \in Nat, c < csn PROVE SameAt(new, chain, c, c)
  <2>1. SameAt(base, chain, c, c)
    BY <1>1, <1>8
  <2>2. ~ SeenAt(v, c)
    BY <1>8 DEF SeenAt
  <2>3. ASSUME NEW i \in DOMAIN base, SeenAt(base[i], c)
        PROVE  i \in DOMAIN new /\ new[i] = base[i]
    BY <1>2, <1>3
  <2>4. ASSUME NEW i \in DOMAIN new, SeenAt(new[i], c) PROVE i \in DOMAIN base /\ base[i] = new[i]
    BY <1>2, <1>3, <2>2, <2>4
  <2>5. SameAt(new, base, c, c)
    <3>1. \A i \in DOMAIN base : SeenAt(base[i], c) =>
             \E j \in DOMAIN new : SeenAt(new[j], c) /\ new[j].order = base[i].order
                                                     /\ new[j].row = base[i].row
      BY <2>3
    <3>2. \A j \in DOMAIN new : SeenAt(new[j], c) => SeesAt(base, c)
      BY <2>4 DEF SeesAt
    <3> QED
      BY <1>1, <1>6, <3>1, <3>2, SameAtBy
  <2> QED
    BY <2>1, <2>5 DEF SameAt
<1> QED
  BY <1>6, <1>7, <1>8 DEF new, base, Extended

\* A pruned chain shows the same to every reader that is not older.
LEMMA PruneOK ==
  ASSUME NEW chain, NEW at \in Nat, ChainOK(chain, at), NEW oldest \in Nat, NEW K,
         K = {i \in DOMAIN chain : chain[i].end = OpenEnd \/ chain[i].end > oldest}
  PROVE  /\ PickAt(chain, K) # << >> => ChainOK(PickAt(chain, K), at)
         /\ \A c \in Nat : oldest <= c =>
               /\ PickAt(chain, K) # << >> => SameAt(PickAt(chain, K), chain, c, c)
               /\ PickAt(chain, K) = << >> => ~ SeesAt(chain, c)
<1> DEFINE new == PickAt(chain, K)
           pos == Ascending(K)
<1>1. /\ chain \in Seq(Versions)
      /\ \A i \in DOMAIN chain : chain[i].begin \in Nat /\ chain[i].end \in Nat
  BY ChainType
<1>2. K \in SUBSET DOMAIN chain
  OBVIOUS
<1>3. /\ new \in Seq(Versions)
      /\ \A k \in 1 .. Len(new) :
            /\ pos[k] \in K /\ new[k] = chain[pos[k]]
            /\ \A l \in 1 .. Len(new) : k < l => pos[k] < pos[l]
      /\ \A i \in K : \E k \in 1 .. Len(new) : pos[k] = i
      /\ new = << >> <=> K = {}
  <2>1. ASSUME NEW S \in SUBSET DOMAIN chain
        PROVE  /\ PickAt(chain, S) \in Seq(Versions)
               /\ \A k \in 1 .. Len(PickAt(chain, S)) :
                     /\ Ascending(S)[k] \in S /\ PickAt(chain, S)[k] = chain[Ascending(S)[k]]
                     /\ \A l \in 1 .. Len(PickAt(chain, S)) :
                           k < l => Ascending(S)[k] < Ascending(S)[l]
               /\ \A i \in S : \E k \in 1 .. Len(PickAt(chain, S)) : Ascending(S)[k] = i
               /\ PickAt(chain, S) = << >> <=> S = {}
    BY <1>1, PickAtIs, Zenon
  <2> QED
    BY <1>2, <2>1, Zenon
<1> HIDE DEF new, pos
<1>4. DOMAIN new = 1 .. Len(new)
  BY <1>3
<1>5. ASSUME new # << >> PROVE ChainOK(new, at)
  <2>1. ASSUME NEW k \in DOMAIN new
        PROVE  /\ new[k].begin <= at
               /\ new[k].end # OpenEnd => new[k].begin < new[k].end /\ new[k].end <= at
    <3>1. pos[k] \in DOMAIN chain /\ new[k] = chain[pos[k]]
      BY <1>2, <1>3, <1>4
    <3> QED
      BY <3>1 DEF ChainOK
  <2>2. ASSUME NEW k \in DOMAIN new, NEW l \in DOMAIN new, k < l
        PROVE  new[k].end # OpenEnd /\ new[k].end <= new[l].begin
    <3>1. /\ pos[k] \in DOMAIN chain /\ new[k] = chain[pos[k]]
          /\ pos[l] \in DOMAIN chain /\ new[l] = chain[pos[l]] /\ pos[k] < pos[l]
      BY <1>2, <1>3, <1>4, <2>2
    <3> QED
      BY <3>1 DEF ChainOK
  <2>3. ValuesOK(new, at)
    <3>1. \A k \in DOMAIN new : pos[k] \in DOMAIN chain /\ new[k] = chain[pos[k]]
      BY <1>2, <1>3, <1>4
    <3> QED
      BY <3>1 DEF ChainOK, ValuesOK
  <2> QED
    BY <1>3, <1>5, <2>1, <2>2, <2>3 DEF ChainOK
<1>6. ASSUME NEW c \in Nat, oldest <= c, NEW i \in DOMAIN chain, SeenAt(chain[i], c)
      PROVE  i \in K
  BY <1>1, <1>6 DEF SeenAt
<1>7. ASSUME NEW c \in Nat, oldest <= c, new = << >> PROVE ~ SeesAt(chain, c)
  BY <1>3, <1>6, <1>7 DEF SeesAt
<1>8. ASSUME NEW c \in Nat, oldest <= c, new # << >> PROVE SameAt(new, chain, c, c)
  <2>1. \A i \in DOMAIN chain : SeenAt(chain[i], c) =>
           \E j \in DOMAIN new : SeenAt(new[j], c) /\ new[j].order = chain[i].order
                                                   /\ new[j].row = chain[i].row
    <3> SUFFICES ASSUME NEW i \in DOMAIN chain, SeenAt(chain[i], c)
                 PROVE  \E j \in DOMAIN new : new[j] = chain[i]
      OBVIOUS
    <3>1. i \in K
      BY <1>6, <1>8
    <3> QED
      BY <1>3, <1>4, <3>1
  <2>2. \A j \in DOMAIN new : SeenAt(new[j], c) => SeesAt(chain, c)
    BY <1>2, <1>3, <1>4 DEF SeesAt
  <2> QED
    BY <1>5, <1>8, <2>1, <2>2, SameAtBy
<1> QED
  BY <1>5, <1>7, <1>8 DEF new

(***************************************************************************)
(* A table that is pruned or retired.                                      *)
(***************************************************************************)

Shaped(h) == h = [version |-> h.version, changed |-> h.changed, live |-> h.live, rows |-> h.rows]

LEMMA HistoryLater ==
  ASSUME NEW h, NEW at \in Nat, NEW n \in Nat, HistoryOK(h, at, n),
         NEW to \in Nat, at <= to, NEW m \in Nat, n <= m
  PROVE  /\ HistoryOK(h, to, m)
         /\ \A c, d \in Nat : at <= c /\ at <= d => LooksLike(h, c, h, d)
<1>1. DOMAIN h.rows \subseteq 1 .. m
  <2>1. 1 .. n \subseteq 1 .. m
    OBVIOUS
  <2> QED
    BY <2>1 DEF HistoryOK
<1>2. \A r \in DOMAIN h.rows : ChainOK(h.rows[r], to)
  BY ChainLater DEF HistoryOK
<1>3. ASSUME NEW c \in Nat, NEW d \in Nat, at <= c, at <= d PROVE LooksLike(h, c, h, d)
  <2>1. \A r \in DOMAIN h.rows : SameAt(h.rows[r], h.rows[r], c, d)
    BY <1>3, SameLater DEF HistoryOK
  <2> QED
    BY <2>1, LooksLikeBy
<1> QED
  BY <1>1, <1>2, <1>3 DEF HistoryOK

Keep(chain, oldest) ==
    PickAt(chain, {i \in DOMAIN chain : chain[i].end = OpenEnd \/ chain[i].end > oldest})

LEMMA PruneHistory ==
  ASSUME NEW h, NEW at \in Nat, NEW n \in Nat, HistoryOK(h, at, n), Shaped(h),
         NEW oldest \in Nat, NEW g, g = [h EXCEPT !.rows = PruneRows(@, oldest)]
  PROVE  /\ HistoryOK(g, at, n) /\ Shaped(g)
         /\ g.version = h.version /\ g.live = h.live /\ g.changed = h.changed
         /\ \A c \in Nat : oldest <= c => LooksLike(g, c, h, c)
<1>1. /\ g.rows = PruneRows(h.rows, oldest) /\ g.version = h.version /\ g.live = h.live
      /\ g.changed = h.changed /\ Shaped(g)
  <2> DEFINE R == PruneRows(h.rows, oldest)
  <2>1. g = [h EXCEPT !.rows = R]
    OBVIOUS
  <2> HIDE DEF R
  <2>2. g = [version |-> h.version, changed |-> h.changed, live |-> h.live, rows |-> R]
    BY <2>1 DEF Shaped
  <2> QED
    BY <2>2 DEF Shaped, R
<1>2. PruneRows(h.rows, oldest) = [r \in {q \in DOMAIN h.rows : Keep(h.rows[q], oldest) # << >>}
                                     |-> Keep(h.rows[r], oldest)]
  BY DEF PruneRows, Keep
<1>3. /\ DOMAIN g.rows = {q \in DOMAIN h.rows : Keep(h.rows[q], oldest) # << >>}
      /\ \A r \in DOMAIN g.rows : g.rows[r] = Keep(h.rows[r], oldest)
  BY <1>1, <1>2
<1>4. ASSUME NEW r \in DOMAIN h.rows
      PROVE  /\ Keep(h.rows[r], oldest) # << >> => ChainOK(Keep(h.rows[r], oldest), at)
             /\ \A c \in Nat : oldest <= c =>
                   /\ Keep(h.rows[r], oldest) # << >> => SameAt(Keep(h.rows[r], oldest), h.rows[r], c, c)
                   /\ Keep(h.rows[r], oldest) = << >> => ~ SeesAt(h.rows[r], c)
  <2>1. ChainOK(h.rows[r], at)
    BY DEF HistoryOK
  <2> QED
    BY <2>1, PruneOK DEF Keep
<1>5. HistoryOK(g, at, n)
  <2>1. DOMAIN g.rows \subseteq 1 .. n
    BY <1>3 DEF HistoryOK
  <2> QED
    BY <1>3, <1>4, <2>1 DEF HistoryOK
<1>6. ASSUME NEW c \in Nat, oldest <= c PROVE LooksLike(g, c, h, c)
  <2>1. \A r \in DOMAIN g.rows \cap DOMAIN h.rows : SameAt(g.rows[r], h.rows[r], c, c)
    BY <1>3, <1>4, <1>6
  <2>2. \A r \in DOMAIN g.rows \ DOMAIN h.rows : ~ SeesAt(g.rows[r], c)
    BY <1>3
  <2>3. \A r \in DOMAIN h.rows \ DOMAIN g.rows : ~ SeesAt(h.rows[r], c)
    BY <1>3, <1>4, <1>6
  <2> QED
    BY <2>1, <2>2, <2>3, LooksLikeBy
<1> QED
  BY <1>1, <1>5, <1>6

LEMMA RetireHistory ==
  ASSUME NEW h, NEW at \in Nat, NEW n \in Nat, HistoryOK(h, at, n), Shaped(h),
         NEW csn \in Nat, at < csn, NEW g, g = RetireTable(h, csn)
  PROVE  /\ HistoryOK(g, csn, n) /\ Shaped(g) /\ g.live = FALSE
         /\ \A c \in Nat : c < csn => LooksLike(g, c, h, c)
         /\ VisibleIds(g, csn) = {}
<1> DEFINE Closed(chain) == IF chain[Len(chain)].end = OpenEnd THEN CloseLast(chain, csn) ELSE chain
           R == [r \in DOMAIN h.rows |-> Closed(h.rows[r])]
<1>1. g = [h EXCEPT !.live = FALSE, !.changed = csn, !.rows = R]
  BY DEF RetireTable
<1> HIDE DEF R
<1>2. g = [version |-> h.version, changed |-> csn, live |-> FALSE, rows |-> R]
  BY <1>1 DEF Shaped
<1>3. Shaped(g) /\ g.rows = R /\ g.live = FALSE
  BY <1>2 DEF Shaped
<1>4. DOMAIN R = DOMAIN h.rows /\ \A r \in DOMAIN h.rows : R[r] = Closed(h.rows[r])
  BY DEF R
<1>5. ASSUME NEW r \in DOMAIN h.rows
      PROVE  /\ ChainOK(R[r], csn) /\ ~ SeesAt(R[r], csn)
             /\ \A c \in Nat : c < csn => SameAt(R[r], h.rows[r], c, c)
  <2> DEFINE chain == h.rows[r]
  <2>1. ChainOK(chain, at)
    BY DEF HistoryOK
  <2>2. CASE chain[Len(chain)].end = OpenEnd
    <3>1. R[r] = CloseLast(chain, csn)
      BY <1>4, <2>2
    <3> QED
      BY <2>1, <2>2, <3>1, CloseLastOK
  <2>3. CASE chain[Len(chain)].end # OpenEnd
    <3>1. R[r] = chain
      BY <1>4, <2>3
    <3>2. ChainOK(chain, csn)
      BY <2>1, ChainLater
    <3>3. \A i \in DOMAIN chain : ~ SeenAt(chain[i], csn)
      BY <2>1, <2>3, SeenNow
    <3> QED
      BY <3>1, <3>2, <3>3, SameSelf DEF SeesAt
  <2> QED
    BY <2>2, <2>3
<1>6. HistoryOK(g, csn, n)
  BY <1>3, <1>4, <1>5 DEF HistoryOK
<1>7. ASSUME NEW c \in Nat, c < csn PROVE LooksLike(g, c, h, c)
  <2>1. \A r \in DOMAIN g.rows \cap DOMAIN h.rows : SameAt(g.rows[r], h.rows[r], c, c)
    BY <1>3, <1>5, <1>7
  <2>2. DOMAIN g.rows = DOMAIN h.rows
    BY <1>3, <1>4
  <2> QED
    BY <2>1, <2>2, LooksLikeBy
<1>8. VisibleIds(g, csn) = {}
  BY <1>3, <1>4, <1>5 DEF VisibleIds, SeesAt
<1> QED
  BY <1>3, <1>6, <1>7, <1>8

(***************************************************************************)
(* Matching.                                                               *)
(***************************************************************************)

LEMMA LeastNumber ==
  ASSUME NEW S \in SUBSET Nat, S # {}
  PROVE  \E s \in S : \A o \in S : s <= o
<1> DEFINE R == OpToRel(<, Nat)
<1>1. IsWellFoundedOn(R, Nat)
  BY NatLessThanWellFounded
<1>2. PICK s \in S : \A o \in S : ~ (<<o, s>> \in R)
  BY <1>1, WFMin
<1>3. \A o \in S : o < s => <<o, s>> \in R
  BY DEF OpToRel
<1>4. \A o \in S : ~ (o < s)
  BY <1>2, <1>3
<1> HIDE DEF R
<1>5. \A o \in S : o \in Nat /\ s \in Nat
  OBVIOUS
<1> QED
  BY <1>4, <1>5

\* Induction over the natural numbers, for a set of them.
LEMMA SetInduction ==
  ASSUME NEW P \in SUBSET Nat, 0 \in P, \A n \in P : n + 1 \in P
  PROVE  P = Nat
<1> DEFINE Bad == Nat \ P
<1>1. SUFFICES ASSUME Bad # {} PROVE FALSE
  OBVIOUS
<1>2. PICK x \in Bad : \A y \in Bad : x <= y
  BY <1>1, LeastNumber
<1>3. x \in Nat /\ x # 0
  BY <1>2
<1>4. x - 1 \in Nat /\ ~ (x <= x - 1) /\ (x - 1) + 1 = x
  BY <1>3
<1> QED
  BY <1>2, <1>4

LEMMA BoundedInduction ==
  ASSUME NEW n \in Nat, NEW P, 0 \in P, \A k \in 0 .. n - 1 : k \in P => k + 1 \in P
  PROVE  \A k \in 0 .. n : k \in P
<1> DEFINE Q == {k \in Nat : k <= n => k \in P}
<1>1. 0 \in Q
  OBVIOUS
<1>2. ASSUME NEW k \in Q PROVE k + 1 \in Q
  <2>1. k + 1 <= n => k \in 0 .. n - 1 /\ k <= n
    OBVIOUS
  <2> QED
    BY <2>1
<1>3. Q = Nat
  <2>1. Q \in SUBSET Nat
    OBVIOUS
  <2> HIDE DEF Q
  <2> QED
    BY <1>1, <1>2, <2>1, SetInduction
<1> QED
  BY <1>3

\* f is defined by recursion, from e by the steps F.
Recurs(f, n, D, e, F) ==
    /\ f \in [0 .. n -> D] /\ f[0] = e
    /\ \A k \in 1 .. n : f[k] = F[<<f[k - 1], k>>]

\* A recursive function whose steps stay in D exists.
LEMMA Recursion ==
  ASSUME NEW n \in Nat, NEW D, NEW e \in D, NEW F \in [D \X (1 .. n) -> D]
  PROVE  \E f : Recurs(f, n, D, e, F)
<1> DEFINE Upto(f, m) == f[0] = e /\ \A k \in 1 .. m : f[k] = F[<<f[k - 1], k>>]
           P == {m \in 0 .. n : \E f \in [0 .. m -> D] : Upto(f, m)}
<1>1. 0 \in P
  <2> DEFINE f == [m \in 0 .. 0 |-> e]
  <2>1. f \in [0 .. 0 -> D] /\ f[0] = e /\ 1 .. 0 = {}
    OBVIOUS
  <2>2. 0 \in 0 .. n
    OBVIOUS
  <2>3. Upto(f, 0)
    BY <2>1
  <2> HIDE DEF f, Upto
  <2> QED
    BY <2>1, <2>2, <2>3
<1>2. ASSUME NEW k \in 0 .. n - 1, k \in P PROVE k + 1 \in P
  <2>1. PICK f \in [0 .. k -> D] : Upto(f, k)
    BY <1>2
  <2> DEFINE x == F[<<f[k], k + 1>>]
             g == [m \in 0 .. k + 1 |-> IF m = k + 1 THEN x ELSE f[m]]
  <2>2. x \in D
    <3>1. f[k] \in D /\ k + 1 \in 1 .. n
      BY <1>2, <2>1
    <3> QED
      BY <3>1
  <2>3. g \in [0 .. k + 1 -> D]
    <3>1. \A m \in 0 .. k + 1 : m # k + 1 => m \in 0 .. k
      OBVIOUS
    <3> HIDE DEF x
    <3> QED
      BY <2>1, <2>2, <3>1
  <2>4. g[0] = e
    BY <2>1
  <2>5. ASSUME NEW m \in 1 .. k + 1 PROVE g[m] = F[<<g[m - 1], m>>]
    <3>1. CASE m = k + 1
      <4>1. g[m] = x /\ g[m - 1] = f[k]
        BY <3>1
      <4> QED
        BY <3>1, <4>1
    <3>2. CASE m # k + 1
      <4>1. m \in 1 .. k /\ g[m] = f[m] /\ g[m - 1] = f[m - 1]
        BY <3>2
      <4> QED
        BY <2>1, <4>1
    <3> QED
      BY <3>1, <3>2
  <2> HIDE DEF g
  <2>6. k + 1 \in 0 .. n
    OBVIOUS
  <2> QED
    BY <2>3, <2>4, <2>5, <2>6
<1> HIDE DEF P
<1>3. n \in P
  BY <1>1, <1>2, BoundedInduction
<1> QED
  BY <1>3 DEF P, Recurs

LEMMA MinIs ==
  ASSUME NEW S \in SUBSET Nat, S # {}
  PROVE  Min(S) \in S /\ \A y \in S : Min(S) <= y
BY LeastNumber DEF Min

LEMMA MatchedIs ==
  ASSUME NEW m \in Seq(Nat), NEW p \in Nat
  PROVE  /\ MatchedBy(m, p) \in 0 .. Len(m)
         /\ MatchedBy(m, p) # 0 => m[MatchedBy(m, p)] = p
         /\ MatchedBy(m, p) = 0 => \A i \in 1 .. Len(m) : m[i] # p
<1> DEFINE I == {i \in 1 .. Len(m) : m[i] = p}
<1>1. MatchedBy(m, p) = IF I # {} THEN Min(I) ELSE 0
  BY DEF MatchedBy, SelectInSeq
<1>2. I \in SUBSET Nat
  OBVIOUS
<1>3. I # {} => Min(I) \in I
  BY <1>2, MinIs
<1> HIDE DEF I
<1>4. CASE I = {}
  BY <1>1, <1>4 DEF I
<1>5. CASE I # {}
  <2>1. MatchedBy(m, p) \in I
    BY <1>1, <1>3, <1>5
  <2> QED
    BY <2>1 DEF I
<1> QED
  BY <1>4, <1>5

LEMMA PriorIs ==
  ASSUME NEW old \in Seq(Rows), NEW m \in Seq(Nat), NEW row
  PROVE  Prior(old, m, row) = 0 \/ Prior(old, m, row) \in DOMAIN old \ ToSet(m)
<1> DEFINE free == {p \in DOMAIN old \ ToSet(m) : Matches(old[p], row)}
<1>1. Prior(old, m, row) = IF free = {} THEN 0 ELSE Min(free)
  BY DEF Prior
<1>2. free \in SUBSET Nat
  OBVIOUS
<1>3. free # {} => Min(free) \in free
  BY <1>2, MinIs
<1> QED
  BY <1>1, <1>3

\* Every incoming row continues a row of its own, or is new.
Matching(m, old, n) ==
    /\ m \in Seq(Nat) /\ Len(m) = n
    /\ \A i \in 1 .. n : m[i] = 0 \/ m[i] \in DOMAIN old
    /\ \A i, j \in 1 .. n : m[i] = m[j] /\ m[i] # 0 => i = j

LEMMA MatchingGrows ==
  ASSUME NEW old \in Seq(Rows), NEW m, NEW n \in Nat, Matching(m, old, n), NEW row
  PROVE  Matching(Append(m, Prior(old, m, row)), old, n + 1)
<1> DEFINE x == Prior(old, m, row)
           new == Append(m, x)
<1>1. /\ m \in Seq(Nat) /\ Len(m) = n /\ DOMAIN m = 1 .. n
      /\ \A i \in 1 .. n : m[i] = 0 \/ m[i] \in DOMAIN old
      /\ \A i, j \in 1 .. n : m[i] = m[j] /\ m[i] # 0 => i = j
  BY DEF Matching
<1>2. x = 0 \/ x \in DOMAIN old \ ToSet(m)
  BY <1>1, PriorIs
<1>3. x \in Nat
  BY <1>2
<1>4. \A i \in 1 .. n : m[i] \in ToSet(m)
  BY <1>1 DEF ToSet
<1> HIDE DEF x
<1>5. /\ new \in Seq(Nat) /\ Len(new) = n + 1 /\ new[n + 1] = x
      /\ \A i \in 1 .. n : new[i] = m[i]
  BY <1>1, <1>3
<1> HIDE DEF new
<1>6. \A i \in 1 .. n + 1 : i = n + 1 \/ i \in 1 .. n
  OBVIOUS
<1>7. \A i \in 1 .. n + 1 : new[i] = 0 \/ new[i] \in DOMAIN old
  BY <1>1, <1>2, <1>5, <1>6
<1>8. \A i, j \in 1 .. n + 1 : new[i] = new[j] /\ new[i] # 0 => i = j
  BY <1>1, <1>2, <1>4, <1>5, <1>6
<1>9. Matching(new, old, n + 1)
  BY <1>5, <1>7, <1>8 DEF Matching
<1> QED
  BY <1>9 DEF new, x

LEMMA MatchRowsIs ==
  ASSUME NEW old \in Seq(Rows), NEW rows \in Seq(Rows)
  PROVE  Matching(MatchRows(old, rows), old, Len(rows))
<1> DEFINE N == Len(rows)
           Is(f) == f = [n \in 0 .. N |->
                           IF n = 0 THEN << >>
                           ELSE Append(f[n - 1], Prior(old, f[n - 1], rows[n]))]
           g == CHOOSE f : Is(f)
<1>1. MatchRows(old, rows) = g[N]
  BY DEF MatchRows
<1>2. N \in Nat
  OBVIOUS
<1>3. \E f : Is(f)
  <2> DEFINE D == Seq(Nat)
             F == [a \in D \X (1 .. N) |-> Append(a[1], Prior(old, a[1], rows[a[2]]))]
  <2>1. F \in [D \X (1 .. N) -> D]
    <3>1. ASSUME NEW a \in D \X (1 .. N)
          PROVE  Append(a[1], Prior(old, a[1], rows[a[2]])) \in D
      <4>1. a[1] \in Seq(Nat)
        OBVIOUS
      <4>2. Prior(old, a[1], rows[a[2]]) \in Nat
        <5>1. Prior(old, a[1], rows[a[2]]) = 0 \/ Prior(old, a[1], rows[a[2]]) \in DOMAIN old \ ToSet(a[1])
          BY <4>1, PriorIs
        <5> QED
          BY <5>1
      <4> QED
        BY <4>1, <4>2
    <3> QED
      BY <3>1
  <2>2. << >> \in D
    OBVIOUS
  <2>3. ASSUME NEW m \in D, NEW k \in 1 .. N
        PROVE  F[<<m, k>>] = Append(m, Prior(old, m, rows[k]))
    OBVIOUS
  <2> HIDE DEF F, D, N
  <2>7. PICK f : Recurs(f, N, D, << >>, F)
    BY <1>2, <2>1, <2>2, Recursion
  <2>4. f \in [0 .. N -> D] /\ f[0] = << >> /\ \A k \in 1 .. N : f[k] = F[<<f[k - 1], k>>]
    BY <2>7 DEF Recurs
  <2>5. ASSUME NEW k \in 0 .. N
        PROVE  f[k] = IF k = 0 THEN << >> ELSE Append(f[k - 1], Prior(old, f[k - 1], rows[k]))
    <3>1. CASE k = 0
      BY <2>4, <3>1
    <3>2. CASE k # 0
      <4>1. k \in 1 .. N /\ k - 1 \in 0 .. N
        BY <1>2, <3>2
      <4>2. f[k - 1] \in D
        BY <2>4, <4>1
      <4> QED
        BY <2>3, <2>4, <3>2, <4>1, <4>2
    <3> QED
      BY <3>1, <3>2
  <2>6. Is(f)
    BY <2>4, <2>5
  <2> QED
    BY <2>6
<1>4. Is(g)
  <2> HIDE DEF Is
  <2> QED
    BY <1>3
<1> HIDE DEF g, N
<1>5. /\ g[0] = << >>
      /\ \A n \in 1 .. N : g[n] = Append(g[n - 1], Prior(old, g[n - 1], rows[n]))
  <2>1. \A n \in 0 .. N : g[n] = IF n = 0 THEN << >>
                                 ELSE Append(g[n - 1], Prior(old, g[n - 1], rows[n]))
    BY <1>4
  <2>2. 0 \in 0 .. N /\ \A n \in 1 .. N : n \in 0 .. N /\ n # 0
    BY <1>2
  <2> QED
    BY <2>1, <2>2
<1> HIDE DEF Is
<1> DEFINE P == {k \in 0 .. N : Matching(g[k], old, k)}
<1>6. 0 \in P
  <2>1. Matching(<< >>, old, 0)
    BY DEF Matching
  <2> QED
    BY <1>2, <1>5, <2>1
<1>7. ASSUME NEW k \in 0 .. N - 1, k \in P PROVE k + 1 \in P
  <2>1. k + 1 \in 1 .. N /\ k + 1 \in 0 .. N /\ (k + 1) - 1 = k /\ k \in Nat
    BY <1>2
  <2>2. g[k + 1] = Append(g[k], Prior(old, g[k], rows[k + 1]))
    BY <1>5, <2>1
  <2>3. Matching(g[k], old, k)
    BY <1>7
  <2>4. Matching(g[k + 1], old, k + 1)
    BY <2>1, <2>2, <2>3, MatchingGrows
  <2> QED
    BY <2>1, <2>4
<1> HIDE DEF P
<1>8. \A k \in 0 .. N : k \in P
  BY <1>2, <1>6, <1>7, BoundedInduction, Zenon
<1>9. N \in P
  BY <1>2, <1>8
<1> QED
  BY <1>1, <1>9 DEF P, N

(***************************************************************************)
(* The publication of one table.                                           *)
(***************************************************************************)

\* The rows a reader sees are those whose orders number them.
LEMMA ShowsBy ==
  ASSUME NEW g, NEW at \in Nat, NEW n \in Nat, HistoryOK(g, at, n), NEW c \in Nat,
         NEW rows \in Seq(Rows),
         \A r \in VisibleIds(g, c) :
            /\ VersionAt(g.rows[r], c).order \in 1 .. Len(rows)
            /\ VersionAt(g.rows[r], c).row = rows[VersionAt(g.rows[r], c).order],
         \A i \in 1 .. Len(rows) : \E r \in VisibleIds(g, c) : VersionAt(g.rows[r], c).order = i,
         \A r, q \in VisibleIds(g, c) :
            VersionAt(g.rows[r], c).order = VersionAt(g.rows[q], c).order => r = q
  PROVE  VisibleRows(g, c) = rows
<1> DEFINE V == VisibleIds(g, c)
           order == [r \in V |-> VersionAt(g.rows[r], c).order]
           N == Len(rows)
           E(i) == CHOOSE r \in V : order[r] = i
           s == [i \in 1 .. N |-> E(i)]
           R == LogicalOrder(g, c)
<1>1. /\ \A r \in V : order[r] \in 1 .. N /\ VersionAt(g.rows[r], c).row = rows[order[r]]
      /\ \A i \in 1 .. N : \E r \in V : order[r] = i
      /\ \A r, q \in V : order[r] = order[q] => r = q
  OBVIOUS
<1>2. \A x, y \in V : order[x] < order[y] => <<x, y>> \in R
  BY LogicalOrderIs
<1>3. StrictOrder(V, R) /\ IsFiniteSet(V)
  BY LogicalOrderIs, VisibleIs
<1>4. N \in Nat
  OBVIOUS
<1>5. Enumerates(VisibleInOrder(g, c), V, R)
  BY VisibleOrder
<1>6. LET old == Visible(g, c) IN
      /\ DOMAIN old = 1 .. Len(VisibleInOrder(g, c)) /\ Len(VisibleInOrder(g, c)) \in Nat
      /\ \A p \in DOMAIN old : old[p].id = VisibleInOrder(g, c)[p] /\ old[p].id \in V
                               /\ old[p].version = VersionAt(g.rows[old[p].id], c)
  BY VisibleEntries
<1>7. \A x \in V : VersionAt(g.rows[x], c).row = rows[order[x]]
  BY <1>1
<1> HIDE DEF V, order, R
<1>8. \A i \in 1 .. N : E(i) \in V /\ order[E(i)] = i
  BY <1>1
<1> HIDE DEF E, N
<1>9. /\ s \in Seq(V) /\ Len(s) = N /\ DOMAIN s = 1 .. N
      /\ \A i \in 1 .. N : s[i] \in V /\ order[s[i]] = i
  BY <1>4, <1>8
<1> HIDE DEF s
<1>10. Enumerates(s, V, R)
  <2>1. ASSUME NEW x \in V PROVE \E i \in DOMAIN s : s[i] = x
    <3>1. order[x] \in 1 .. N
      BY <1>1
    <3>2. s[order[x]] = x
      BY <1>1, <1>9, <3>1
    <3> QED
      BY <1>9, <3>1, <3>2
  <2>2. ASSUME NEW i \in DOMAIN s, NEW j \in DOMAIN s, i < j PROVE <<s[i], s[j]>> \in R
    BY <1>2, <1>9, <2>2
  <2> QED
    BY <1>9, <2>1, <2>2 DEF Enumerates
<1>11. VisibleInOrder(g, c) = s
  BY <1>3, <1>5, <1>10, OneEnumeration
<1> DEFINE old == Visible(g, c)
<1>12. /\ DOMAIN old = 1 .. N
       /\ \A p \in 1 .. N : old[p].version.row = rows[p]
  <2>1. DOMAIN old = 1 .. N
    BY <1>6, <1>9, <1>11
  <2>2. ASSUME NEW p \in 1 .. N PROVE old[p].version.row = rows[p]
    <3>1. old[p].id = s[p] /\ old[p].version = VersionAt(g.rows[s[p]], c)
      BY <1>6, <1>11, <2>1
    <3>2. s[p] \in V /\ order[s[p]] = p
      BY <1>9
    <3> QED
      BY <1>7, <3>1, <3>2
  <2> QED
    BY <2>1, <2>2
<1> HIDE DEF old
<1>13. VisibleRows(g, c) = [p \in 1 .. N |-> rows[p]]
  <2>1. VisibleRows(g, c) = [p \in DOMAIN old |-> old[p].version.row]
    BY DEF VisibleRows, RowsOf, old
  <2> QED
    BY <1>12, <2>1
<1>14. rows = [p \in 1 .. N |-> rows[p]]
  BY DEF N
<1> QED
  BY <1>13, <1>14

\* What a reader sees is a sequence of rows.
LEMMA VisibleRowsType ==
  ASSUME NEW h, NEW at \in Nat, NEW n \in Nat, HistoryOK(h, at, n), NEW c \in Nat
  PROVE  /\ VisibleRows(h, c) \in Seq(Rows)
         /\ DOMAIN VisibleRows(h, c) = DOMAIN Visible(h, c)
         /\ VisibleRows(h, c) = RowsOf(Visible(h, c))
<1> DEFINE old == Visible(h, c)
           N == Len(VisibleInOrder(h, c))
<1>1. /\ DOMAIN old = 1 .. N /\ N \in Nat
      /\ \A p \in DOMAIN old : /\ old[p].id \in VisibleIds(h, c)
                               /\ old[p].version = VersionAt(h.rows[old[p].id], c)
  BY VisibleEntries
<1>2. \A r \in VisibleIds(h, c) : VersionAt(h.rows[r], c) \in Versions
  BY VisibleIs
<1>3. VisibleRows(h, c) = [p \in DOMAIN old |-> old[p].version.row]
  BY DEF VisibleRows, RowsOf
<1> HIDE DEF old, N
<1>4. \A p \in DOMAIN old : old[p].version.row \in Rows
  BY <1>1, <1>2 DEF Versions
<1>5. VisibleRows(h, c) \in Seq(Rows) /\ DOMAIN VisibleRows(h, c) = DOMAIN old
  BY <1>1, <1>3, <1>4
<1> QED
  BY <1>5 DEF old, VisibleRows

\* The version a commit adds.
LEMMA NewVersion ==
  ASSUME NEW csn \in Nat, NEW order \in Nat, NEW row \in Rows, NEW vb \in Nat, NEW v,
         v = [begin |-> csn, end |-> OpenEnd, order |-> order, row |-> row, value_begin |-> vb]
  PROVE  /\ v \in Versions /\ v.begin = csn /\ v.end = OpenEnd /\ v.order = order /\ v.row = row
         /\ v.value_begin = vb
BY DEF Versions, OpenEnd

LEMMA FreshChain ==
  ASSUME NEW csn \in Nat, NEW v \in Versions, v.begin = csn, v.end = OpenEnd,
         v.value_begin = csn
  PROVE  /\ ChainOK(<<v>>, csn)
         /\ SeesAt(<<v>>, csn) /\ VersionAt(<<v>>, csn) = v
         /\ \A c \in Nat : c < csn => ~ SeesAt(<<v>>, c)
<1>1. /\ <<v>> \in Seq(Versions) /\ <<v>> # << >> /\ DOMAIN <<v>> = {1} /\ <<v>>[1] = v
  OBVIOUS
<1>2. ChainOK(<<v>>, csn)
  <2>1. \A i \in DOMAIN <<v>> : <<v>>[i].begin <= csn /\ <<v>>[i].end = OpenEnd
    BY <1>1
  <2>2. \A i, j \in DOMAIN <<v>> : ~ (i < j)
    BY <1>1
  <2>3. ValuesOK(<<v>>, csn)
    BY <1>1 DEF ValuesOK
  <2> QED
    BY <1>1, <2>1, <2>2, <2>3 DEF ChainOK
<1>3. SeenAt(<<v>>[1], csn)
  BY <1>1 DEF SeenAt
<1>4. VersionAt(<<v>>, csn) = v
  BY <1>1, <1>2, <1>3, VersionSeen
<1>5. \A c \in Nat : c < csn => ~ SeenAt(v, c)
  BY DEF SeenAt
<1> QED
  BY <1>1, <1>2, <1>3, <1>4, <1>5 DEF SeesAt

\* The chain of a visible row after the commit.
LEMMA ChainAfterOK ==
  ASSUME NEW h, NEW at \in Nat, NEW n \in Nat, HistoryOK(h, at, n), NEW csn \in Nat, at < csn,
         NEW rows \in Seq(Rows), NEW m \in Seq(Nat), Len(m) = Len(rows),
         NEW p \in DOMAIN Visible(h, at)
  PROVE  LET new == ChainAfter(h, rows, csn, Visible(h, at), m, p)
             chain == h.rows[Visible(h, at)[p].id]
             place == MatchedBy(m, p)
         IN  /\ ChainOK(new, csn)
             /\ \A c \in Nat : c < csn => SameAt(new, chain, c, c)
             /\ place = 0 => ~ SeesAt(new, csn)
             /\ place # 0 => /\ SeesAt(new, csn)
                             /\ VersionAt(new, csn).order = place
                             /\ VersionAt(new, csn).row = rows[place]
<1> DEFINE old == Visible(h, at)
           r == old[p].id
           chain == h.rows[r]
           new == ChainAfter(h, rows, csn, old, m, p)
           place == MatchedBy(m, p)
           last == chain[Len(chain)]
<1>1. r \in VisibleIds(h, at) /\ old[p].version = VersionAt(chain, at) /\ p \in Nat
  <2>1. /\ DOMAIN old = 1 .. Len(VisibleInOrder(h, at))
        /\ r \in VisibleIds(h, at) /\ old[p].version = VersionAt(chain, at)
    BY VisibleEntries
  <2>2. p \in 1 .. Len(VisibleInOrder(h, at))
    BY <2>1
  <2> QED
    BY <2>1, <2>2
<1>2. r \in DOMAIN h.rows
  BY <1>1 DEF VisibleIds
<1>3. ChainOK(chain, at)
  BY <1>2 DEF HistoryOK
<1>4. PICK i \in DOMAIN chain : SeenAt(chain[i], at) /\ VersionAt(chain, at) = chain[i]
  BY <1>1, VisibleIs
<1>5. i = Len(chain) /\ last.end = OpenEnd /\ old[p].version = last
  BY <1>1, <1>3, <1>4, SeenNow
<1>6. last \in Versions /\ last.value_begin \in Nat /\ Len(chain) \in DOMAIN chain
  BY <1>3, ChainType
<1>7. /\ place \in 0 .. Len(rows)
  BY <1>1, MatchedIs
<1>8. new = IF place = 0 THEN CloseLast(chain, csn)
            ELSE ExtendChain(chain, last, rows[place], place, csn)
  BY <1>5 DEF ChainAfter
<1> HIDE DEF new, place, last, chain, r, old
<1>9. CASE place = 0
  <2>1. new = CloseLast(chain, csn)
    BY <1>8, <1>9
  <2>2. ChainOK(new, csn) /\ ~ SeesAt(new, csn) /\ \A c \in Nat : c < csn => SameAt(new, chain, c, c)
    BY <1>3, <1>5, <2>1, CloseLastOK DEF last
  <2> QED
    BY <1>9, <2>2 DEF new, place, chain, r, old
<1>10. CASE place # 0
  <2>1. place \in 1 .. Len(rows) /\ place \in Nat /\ rows[place] \in Rows
    BY <1>7, <1>10
  <2>2. CASE last.row = rows[place] /\ last.order = place
    <3>1. new = chain
      BY <1>8, <1>10, <2>2 DEF ExtendChain
    <3>2. ChainOK(chain, csn)
      BY <1>3, ChainLater
    <3>3. SeenAt(chain[Len(chain)], csn)
      <4>1. at <= csn /\ chain[Len(chain)].end = OpenEnd
        BY <1>5 DEF last
      <4> QED
        BY <1>3, <1>6, <4>1, SeenNow
    <3>4. SeesAt(chain, csn) /\ VersionAt(chain, csn) = last
      BY <1>6, <3>2, <3>3, VersionSeen DEF SeesAt, last
    <3> QED
      BY <1>10, <2>2, <3>1, <3>2, <3>4, SameSelf DEF new, place, chain, r, old
  <2>3. CASE ~ (last.row = rows[place] /\ last.order = place)
    <3> DEFINE vb == IF last.row = rows[place] THEN last.value_begin ELSE csn
               v == [begin |-> csn, end |-> OpenEnd, order |-> place, row |-> rows[place],
                     value_begin |-> vb]
    <3>1. new = Append(CloseLast(chain, csn), v)
      BY <1>8, <1>10, <2>3 DEF ExtendChain
    <3>2. vb \in Nat
      BY <1>6
    <3>5. vb = csn \/ (vb = last.value_begin /\ rows[place] = last.row)
      OBVIOUS
    <3> HIDE DEF vb
    <3>3. /\ v \in Versions /\ v.begin = csn /\ v.end = OpenEnd /\ v.order = place
          /\ v.row = rows[place] /\ v.value_begin = vb
      BY <2>1, <3>2, NewVersion
    <3> HIDE DEF v
    <3>4. /\ ChainOK(new, csn) /\ SeesAt(new, csn) /\ VersionAt(new, csn) = v
          /\ \A c \in Nat : c < csn => SameAt(new, chain, c, c)
      <4>1. /\ chain[Len(chain)].end = OpenEnd
            /\ \/ v.value_begin = csn
               \/ v.value_begin = chain[Len(chain)].value_begin /\ v.row = chain[Len(chain)].row
        BY <1>5, <3>3, <3>5 DEF last
      <4>2. Extended(Append(CloseLast(chain, csn), v), chain, v, csn)
        <5> HIDE DEF chain
        <5> QED
          BY <1>3, <3>3, <4>1, ExtendOK
      <4> HIDE DEF chain
      <4> QED
        BY <3>1, <4>2 DEF Extended
    <3> QED
      BY <1>10, <3>3, <3>4 DEF new, place, chain, r, old
  <2> QED
    BY <2>2, <2>3
<1> QED
  BY <1>9, <1>10

(***************************************************************************)
(* Counting rows.                                                          *)
(***************************************************************************)

\* Every row occurs as often in the one sequence as in the other.
Alike(a, b) == \A r : Count(a, r) = Count(b, r)

LEMMA AlikeTrans ==
  ASSUME NEW a, NEW b, NEW c, Alike(a, b), Alike(b, c)
  PROVE  Alike(a, c)
BY DEF Alike

\* f takes the positions of b to those of a with the same rows.
LEMMA RearrangedAlike ==
  ASSUME NEW a, NEW b, IsFiniteSet(DOMAIN b), NEW f \in [DOMAIN b -> DOMAIN a],
         \A i \in DOMAIN b : a[f[i]] = b[i],
         \A i, j \in DOMAIN b : f[i] = f[j] => i = j,
         \A p \in DOMAIN a : \E i \in DOMAIN b : f[i] = p
  PROVE  Alike(b, a)
<1>1. ASSUME NEW r PROVE Count(b, r) = Count(a, r)
  <2> DEFINE A == {p \in DOMAIN a : a[p] = r}
             B == {i \in DOMAIN b : b[i] = r}
             g == [i \in B |-> f[i]]
  <2>1. g \in [B -> A]
    OBVIOUS
  <2>2. \A i, j \in B : g[i] = g[j] => i = j
    OBVIOUS
  <2>3. \A p \in A : \E i \in B : g[i] = p
    OBVIOUS
  <2>4. IsFiniteSet(B)
    BY FS_Subset
  <2> HIDE DEF A, B, g
  <2>5. g \in Bijection(B, A)
    BY <2>1, <2>2, <2>3 DEF Bijection, Injection, Surjection, IsInjective
  <2>6. Cardinality(A) = Cardinality(B)
    BY <2>4, <2>5, FS_Bijection DEF ExistsBijection
  <2> QED
    BY <2>6 DEF Count, A, B
<1> QED
  BY <1>1 DEF Alike

\* The positions of the rows that continue no row.
Fresh(h, at, rows) ==
    {i \in DOMAIN rows : MatchRows(RowsOf(Visible(h, at)), rows)[i] = 0}

\* What the publication P of the rows makes of the table.
Parts(P, h, version, rows, csn, at, n) ==
    LET G == P.history
        old == Visible(h, at)
        m == MatchRows(RowsOf(old), rows)
        fresh == Ascending(Fresh(h, at, rows))
    IN  /\ P.next_row = n + Len(fresh)
        /\ G.version = version /\ G.live = TRUE /\ Shaped(G)
        /\ DOMAIN G.rows = DOMAIN h.rows \cup n + 1 .. n + Len(fresh)
        /\ \A r \in DOMAIN h.rows \ VisibleIds(h, at) : G.rows[r] = h.rows[r]
        /\ \A p \in DOMAIN old : G.rows[old[p].id] = ChainAfter(h, rows, csn, old, m, p)
        /\ \A r \in n + 1 .. n + Len(fresh) \ DOMAIN h.rows :
              G.rows[r] = << [begin |-> csn, end |-> OpenEnd, value_begin |-> csn,
                              order |-> fresh[r - n], row |-> rows[fresh[r - n]]] >>

LEMMA PublishedParts ==
  ASSUME NEW h, NEW at \in Nat, NEW n \in Nat, HistoryOK(h, at, n), NEW csn \in Nat,
         NEW rows \in Seq(Rows), NEW version
  PROVE  Parts(PublishTable(h, version, rows, csn, at, n), h, version, rows, csn, at, n)
<1> DEFINE P == PublishTable(h, version, rows, csn, at, n)
           old == Visible(h, at)
           m == MatchRows(RowsOf(old), rows)
           fresh == Ascending(Fresh(h, at, rows))
           chain(p) == ChainAfter(h, rows, csn, old, m, p)
           kept(r)  == IF \E p \in DOMAIN old : old[p].id = r
                       THEN chain(CHOOSE p \in DOMAIN old : old[p].id = r)
                       ELSE h.rows[r]
           added(i) == << [begin |-> csn, end |-> OpenEnd, value_begin |-> csn,
                           order |-> i, row |-> rows[i]] >>
           C == P.history.changed
           R == [r \in DOMAIN h.rows \cup n + 1 .. n + Len(fresh) |->
                    IF r \in DOMAIN h.rows THEN kept(r) ELSE added(fresh[r - n])]
<1>1. /\ P.next_row = n + Len(fresh)
      /\ P.history = [version |-> version, live |-> TRUE, changed |-> C, rows |-> R]
  BY DEF PublishTable, PublishOver, Fresh
<1>2. /\ \A p \in DOMAIN old : old[p].id \in VisibleIds(h, at) /\ old[p].id \in DOMAIN h.rows
      /\ \A p, q \in DOMAIN old : old[p].id = old[q].id => p = q
      /\ VisibleIds(h, at) \in SUBSET DOMAIN h.rows
  BY VisibleEntries, VisibleIs
<1>3. \A r \in DOMAIN h.rows : R[r] = kept(r)
  OBVIOUS
<1>4. \A r \in n + 1 .. n + Len(fresh) \ DOMAIN h.rows : R[r] = added(fresh[r - n])
  <2> HIDE DEF kept, fresh
  <2> QED
    OBVIOUS
<1>5. DOMAIN R = DOMAIN h.rows \cup n + 1 .. n + Len(fresh)
  <2> HIDE DEF kept, fresh, added
  <2> QED
    OBVIOUS
<1> HIDE DEF R, P, C
<1>6. \A r \in DOMAIN h.rows \ VisibleIds(h, at) : R[r] = h.rows[r]
  <2> HIDE DEF old, m
  <2> QED
    BY <1>2, <1>3
<1>7. ASSUME NEW p \in DOMAIN old PROVE R[old[p].id] = chain(p)
  <2>1. R[old[p].id] = chain(CHOOSE q \in DOMAIN old : old[q].id = old[p].id)
    BY <1>2, <1>3
  <2>2. (CHOOSE q \in DOMAIN old : old[q].id = old[p].id) = p
    <3> HIDE DEF old
    <3> QED
      BY <1>2
  <2> QED
    BY <2>1, <2>2
<1> HIDE DEF old, m, fresh
<1>8. P.history.version = version /\ P.history.live = TRUE /\ Shaped(P.history) /\ P.history.rows = R
  BY <1>1 DEF Shaped
<1> QED
  BY <1>1, <1>4, <1>5, <1>6, <1>7, <1>8 DEF Parts, P, old, m, fresh

\* The publication P of the rows over h: readers at csn see the rows, readers
\* before it what they saw.
TablePublished(P, h, version, rows, csn, n) ==
    /\ P.next_row \in Nat /\ n <= P.next_row
    /\ P.history.version = version /\ P.history.live = TRUE /\ Shaped(P.history)
    /\ HistoryOK(P.history, csn, P.next_row)
    /\ VisibleRows(P.history, csn) = rows
    /\ \A c \in Nat : c < csn => LooksLike(P.history, c, h, c)

LEMMA PublishTableOK ==
  ASSUME NEW h, NEW at \in Nat, NEW n \in Nat, HistoryOK(h, at, n), NEW csn \in Nat,
         at < csn \/ DOMAIN h.rows = {},
         NEW rows \in Seq(Rows), NEW version, NEW P,
         P = PublishTable(h, version, rows, csn, at, n)
  PROVE  TablePublished(P, h, version, rows, csn, n)
<1> DEFINE G == P.history
           old == Visible(h, at)
           m == MatchRows(RowsOf(old), rows)
           fresh == Ascending(Fresh(h, at, rows))
           K == Len(fresh)
           N == Len(rows)
<1>1. /\ P.next_row = n + K
      /\ G.version = version /\ G.live = TRUE /\ Shaped(G)
      /\ DOMAIN G.rows = DOMAIN h.rows \cup n + 1 .. n + K
      /\ \A r \in DOMAIN h.rows \ VisibleIds(h, at) : G.rows[r] = h.rows[r]
      /\ \A p \in DOMAIN old : G.rows[old[p].id] = ChainAfter(h, rows, csn, old, m, p)
      /\ \A r \in n + 1 .. n + K \ DOMAIN h.rows :
            G.rows[r] = << [begin |-> csn, end |-> OpenEnd, value_begin |-> csn,
                            order |-> fresh[r - n], row |-> rows[fresh[r - n]]] >>
  <2>1. Parts(P, h, version, rows, csn, at, n)
    BY PublishedParts
  <2> QED
    BY <2>1 DEF Parts
<1>2. RowsOf(old) \in Seq(Rows) /\ DOMAIN RowsOf(old) = DOMAIN old
  BY VisibleRowsType DEF VisibleRows
<1>3. Matching(m, RowsOf(old), N)
  BY <1>2, MatchRowsIs
<1>4. /\ m \in Seq(Nat) /\ Len(m) = N /\ DOMAIN rows = 1 .. N /\ N \in Nat
      /\ \A i \in 1 .. N : m[i] = 0 \/ m[i] \in DOMAIN old
      /\ \A i, j \in 1 .. N : m[i] = m[j] /\ m[i] # 0 => i = j
  BY <1>2, <1>3 DEF Matching
<1>5. /\ fresh \in Seq(Fresh(h, at, rows)) /\ K \in Nat
      /\ \A x \in Fresh(h, at, rows) : \E i \in 1 .. K : fresh[i] = x
      /\ \A i, j \in 1 .. K : i < j => fresh[i] < fresh[j]
      /\ \A i \in 1 .. K : fresh[i] \in 1 .. N /\ m[fresh[i]] = 0
  <2>1. Fresh(h, at, rows) \in SUBSET (1 .. N)
    BY <1>4 DEF Fresh
  <2>2. IsFiniteSet(Fresh(h, at, rows)) /\ Fresh(h, at, rows) \in SUBSET Int
    <3>1. Fresh(h, at, rows) \in SUBSET Nat /\ \A x \in Fresh(h, at, rows) : x <= N
      BY <1>4, <2>1
    <3> QED
      BY <1>4, <3>1, FS_BoundedSetOfNaturals
  <2>3. /\ fresh \in Seq(Fresh(h, at, rows))
        /\ \A x \in Fresh(h, at, rows) : \E i \in 1 .. K : fresh[i] = x
        /\ \A i, j \in 1 .. K : i < j => fresh[i] < fresh[j]
    BY <2>2, AscendingIs
  <2> HIDE DEF fresh
  <2>4. \A i \in 1 .. K : fresh[i] \in Fresh(h, at, rows)
    BY <2>3
  <2>5. K \in Nat
    BY <2>3
  <2> QED
    BY <2>1, <2>3, <2>4, <2>5 DEF Fresh
<1>6. /\ \A p \in DOMAIN old : old[p].id \in VisibleIds(h, at)
      /\ \A r \in VisibleIds(h, at) : \E p \in DOMAIN old : old[p].id = r
      /\ \A p \in DOMAIN old : p \in Nat \ {0}
  <2>1. \A p \in DOMAIN old : old[p].id \in VisibleIds(h, at)
    BY VisibleEntries
  <2>3. /\ DOMAIN old = 1 .. Len(VisibleInOrder(h, at))
        /\ \A p \in DOMAIN old : old[p].id = VisibleInOrder(h, at)[p]
    BY VisibleEntries
  <2> HIDE DEF old
  <2>2. ASSUME NEW r \in VisibleIds(h, at) PROVE \E p \in DOMAIN old : old[p].id = r
    <3> DEFINE ids == VisibleInOrder(h, at)
    <3>1. Enumerates(ids, VisibleIds(h, at), LogicalOrder(h, at))
      BY VisibleOrder
    <3> HIDE DEF ids
    <3>2. ids \in Seq(VisibleIds(h, at)) /\ \E p \in DOMAIN ids : ids[p] = r
      BY <3>1 DEF Enumerates
    <3>3. DOMAIN ids = 1 .. Len(ids)
      BY <3>2
    <3> QED
      BY <2>3, <3>2, <3>3 DEF ids
  <2> QED
    BY <2>1, <2>2, <2>3
<1>7. VisibleIds(h, at) \in SUBSET DOMAIN h.rows /\ DOMAIN h.rows \in SUBSET (1 .. n)
  BY VisibleIs DEF HistoryOK
<1>8. ASSUME NEW p \in DOMAIN old
      PROVE  /\ ChainOK(G.rows[old[p].id], csn)
             /\ \A c \in Nat : c < csn => SameAt(G.rows[old[p].id], h.rows[old[p].id], c, c)
             /\ MatchedBy(m, p) = 0 => ~ SeesAt(G.rows[old[p].id], csn)
             /\ MatchedBy(m, p) # 0 =>
                   /\ SeesAt(G.rows[old[p].id], csn)
                   /\ VersionAt(G.rows[old[p].id], csn).order = MatchedBy(m, p)
                   /\ VersionAt(G.rows[old[p].id], csn).row = rows[MatchedBy(m, p)]
  <2>1. at < csn
    BY <1>6, <1>7
  <2>2. G.rows[old[p].id] = ChainAfter(h, rows, csn, old, m, p)
    BY <1>1
  <2> HIDE DEF m, G
  <2> QED
    BY <1>4, <2>1, <2>2, ChainAfterOK
<1>9. \A p \in DOMAIN old : /\ MatchedBy(m, p) \in 0 .. N
                            /\ MatchedBy(m, p) # 0 => m[MatchedBy(m, p)] = p
                            /\ MatchedBy(m, p) = 0 => \A i \in 1 .. N : m[i] # p
  <2> HIDE DEF m, old
  <2> QED
    BY <1>4, <1>6, MatchedIs
<1> HIDE DEF m, old, G, fresh, K, N
<1>10. ASSUME NEW r \in DOMAIN h.rows, r \notin VisibleIds(h, at)
       PROVE  /\ G.rows[r] = h.rows[r] /\ ChainOK(G.rows[r], csn) /\ ~ SeesAt(G.rows[r], csn)
              /\ \A c \in Nat : c < csn => SameAt(G.rows[r], h.rows[r], c, c)
  <2>1. G.rows[r] = h.rows[r]
    BY <1>1, <1>10
  <2>2. at < csn /\ ChainOK(h.rows[r], at)
    BY DEF HistoryOK
  <2>3. ChainOK(h.rows[r], csn)
    BY <2>2, ChainLater
  <2>4. at <= csn /\ at <= at
    BY <2>2
  <2>5. \A i \in DOMAIN h.rows[r] : SeenAt(h.rows[r][i], csn) => SeenAt(h.rows[r][i], at)
    BY <2>2, <2>4, SeenNow
  <2>6. ~ SeesAt(h.rows[r], csn)
    BY <1>10, <2>5 DEF VisibleIds, SeesAt
  <2> QED
    BY <2>1, <2>3, <2>6, SameSelf
<1>11. ASSUME NEW k \in 1 .. K
       PROVE  /\ n + k \notin DOMAIN h.rows /\ n + k \in DOMAIN G.rows
              /\ ChainOK(G.rows[n + k], csn)
              /\ SeesAt(G.rows[n + k], csn)
              /\ VersionAt(G.rows[n + k], csn).order = fresh[k]
              /\ VersionAt(G.rows[n + k], csn).row = rows[fresh[k]]
              /\ \A c \in Nat : c < csn => ~ SeesAt(G.rows[n + k], c)
  <2>1. n + k \in n + 1 .. n + K /\ n + k \notin 1 .. n /\ (n + k) - n = k
    BY <1>5
  <2>2. n + k \notin DOMAIN h.rows
    BY <1>7, <2>1
  <2> DEFINE v == [begin |-> csn, end |-> OpenEnd, value_begin |-> csn,
                   order |-> fresh[k], row |-> rows[fresh[k]]]
  <2>3. G.rows[n + k] = <<v>>
    BY <1>1, <2>1, <2>2
  <2>4. fresh[k] \in Nat /\ rows[fresh[k]] \in Rows
    BY <1>4, <1>5
  <2>5. /\ v \in Versions /\ v.begin = csn /\ v.end = OpenEnd /\ v.order = fresh[k]
        /\ v.row = rows[fresh[k]] /\ v.value_begin = csn
    BY <2>4 DEF Versions, OpenEnd
  <2> HIDE DEF v
  <2>6. /\ ChainOK(<<v>>, csn) /\ SeesAt(<<v>>, csn) /\ VersionAt(<<v>>, csn) = v
        /\ \A c \in Nat : c < csn => ~ SeesAt(<<v>>, c)
    BY <2>5, FreshChain
  <2>7. n + k \in DOMAIN G.rows
    BY <1>1, <2>1
  <2> QED
    BY <2>2, <2>3, <2>5, <2>6, <2>7
<1>12. \A r \in DOMAIN G.rows : r \in DOMAIN h.rows \/ \E k \in 1 .. K : r = n + k
  <2>1. \A r \in n + 1 .. n + K : r - n \in 1 .. K /\ r = n + (r - n)
    BY <1>5
  <2> QED
    BY <1>1, <2>1
<1>13. ASSUME NEW r \in DOMAIN h.rows
       PROVE  /\ r \in DOMAIN G.rows /\ ChainOK(G.rows[r], csn)
              /\ \A c \in Nat : c < csn => SameAt(G.rows[r], h.rows[r], c, c)
              /\ SeesAt(G.rows[r], csn) => \E p \in DOMAIN old : r = old[p].id /\ MatchedBy(m, p) # 0
  <2>1. r \in DOMAIN G.rows
    BY <1>1
  <2>2. CASE r \in VisibleIds(h, at)
    <3>1. PICK p \in DOMAIN old : old[p].id = r
      BY <1>6, <2>2
    <3> QED
      BY <1>8, <2>1, <3>1
  <2>3. CASE r \notin VisibleIds(h, at)
    BY <1>10, <2>1, <2>3
  <2> QED
    BY <2>2, <2>3
<1>14. HistoryOK(G, csn, P.next_row)
  <2>1. 1 .. n \subseteq 1 .. n + K /\ n + 1 .. n + K \subseteq 1 .. n + K
    BY <1>5
  <2>2. DOMAIN G.rows \subseteq 1 .. n + K
    BY <1>1, <1>7, <2>1
  <2>3. \A r \in DOMAIN G.rows : ChainOK(G.rows[r], csn)
    BY <1>11, <1>12, <1>13
  <2> QED
    BY <1>1, <2>2, <2>3 DEF HistoryOK
<1>15. ASSUME NEW c \in Nat, c < csn PROVE LooksLike(G, c, h, c)
  <2>1. \A r \in DOMAIN G.rows \cap DOMAIN h.rows : SameAt(G.rows[r], h.rows[r], c, c)
    BY <1>13, <1>15
  <2>2. \A r \in DOMAIN G.rows \ DOMAIN h.rows : ~ SeesAt(G.rows[r], c)
    BY <1>11, <1>12, <1>15
  <2>3. DOMAIN h.rows \ DOMAIN G.rows = {}
    BY <1>13
  <2> QED
    BY <2>1, <2>2, <2>3, LooksLikeBy
<1>16. P.next_row \in Nat /\ n <= P.next_row
  BY <1>1, <1>5
<1> DEFINE V == VisibleIds(G, csn)
           ord(r) == VersionAt(G.rows[r], csn).order
<1>17. V = {r \in DOMAIN G.rows : SeesAt(G.rows[r], csn)}
  BY DEF VisibleIds, SeesAt
<1> HIDE DEF V
<1>18. ASSUME NEW r \in V
       PROVE  \/ \E p \in DOMAIN old : r = old[p].id /\ MatchedBy(m, p) # 0
              \/ \E k \in 1 .. K : r = n + k
  BY <1>12, <1>13, <1>17
<1>19. ASSUME NEW p \in DOMAIN old, MatchedBy(m, p) # 0
       PROVE  /\ old[p].id \in V /\ ord(old[p].id) = MatchedBy(m, p)
              /\ ord(old[p].id) \in 1 .. N /\ m[ord(old[p].id)] = p
              /\ VersionAt(G.rows[old[p].id], csn).row = rows[ord(old[p].id)]
  <2>1. old[p].id \in DOMAIN G.rows
    BY <1>6, <1>7, <1>13
  <2>2. /\ old[p].id \in V /\ ord(old[p].id) = MatchedBy(m, p)
        /\ VersionAt(G.rows[old[p].id], csn).row = rows[MatchedBy(m, p)]
    BY <1>8, <1>17, <1>19, <2>1
  <2>3. MatchedBy(m, p) \in 1 .. N /\ m[MatchedBy(m, p)] = p
    BY <1>4, <1>9, <1>19
  <2> HIDE DEF ord
  <2> QED
    BY <2>2, <2>3
<1>20. ASSUME NEW k \in 1 .. K
       PROVE  /\ n + k \in V /\ ord(n + k) = fresh[k] /\ ord(n + k) \in 1 .. N
              /\ m[ord(n + k)] = 0 /\ VersionAt(G.rows[n + k], csn).row = rows[ord(n + k)]
  BY <1>5, <1>11, <1>17
<1>21. \A r \in V : ord(r) \in 1 .. N /\ VersionAt(G.rows[r], csn).row = rows[ord(r)]
  <2> HIDE DEF ord
  <2> QED
    BY <1>18, <1>19, <1>20
<1>22. ASSUME NEW i \in 1 .. N PROVE \E r \in V : ord(r) = i
  <2>1. CASE m[i] = 0
    <3>1. i \in Fresh(h, at, rows)
      BY <1>4, <2>1 DEF Fresh, m, old
    <3>2. PICK k \in 1 .. K : fresh[k] = i
      BY <1>5, <3>1
    <3> QED
      BY <1>20, <3>2
  <2>2. CASE m[i] # 0
    <3>1. m[i] \in DOMAIN old
      BY <1>4, <2>2
    <3>2. MatchedBy(m, m[i]) # 0
      BY <1>9, <3>1
    <3>3. old[m[i]].id \in V /\ ord(old[m[i]].id) \in 1 .. N /\ m[ord(old[m[i]].id)] = m[i]
      BY <1>19, <3>1, <3>2
    <3>4. ord(old[m[i]].id) = i
      <4> HIDE DEF ord
      <4> QED
        BY <1>4, <2>2, <3>3
    <3> QED
      BY <3>3, <3>4
  <2> QED
    BY <2>1, <2>2
<1>23. ASSUME NEW r \in V, NEW q \in V, ord(r) = ord(q) PROVE r = q
  <2> HIDE DEF ord
  <2>1. CASE m[ord(r)] = 0
    <3>1. PICK k \in 1 .. K : r = n + k
      BY <1>6, <1>18, <1>19, <2>1
    <3>2. PICK l \in 1 .. K : q = n + l
      BY <1>6, <1>18, <1>19, <1>23, <2>1
    <3>3. fresh[k] = fresh[l]
      BY <1>20, <1>23, <3>1, <3>2
    <3>4. fresh[k] \in Int
      BY <1>5
    <3>5. ~ (k < l) /\ ~ (l < k)
      BY <1>5, <3>3, <3>4
    <3> QED
      BY <1>5, <3>1, <3>2, <3>5
  <2>2. CASE m[ord(r)] # 0
    <3>1. PICK p \in DOMAIN old : r = old[p].id /\ MatchedBy(m, p) # 0
      BY <1>18, <1>20, <2>2
    <3>2. PICK s \in DOMAIN old : q = old[s].id /\ MatchedBy(m, s) # 0
      BY <1>18, <1>20, <1>23, <2>2
    <3> QED
      BY <1>19, <1>23, <3>1, <3>2
  <2> QED
    BY <2>1, <2>2
<1>24. VisibleRows(G, csn) = rows
  BY <1>14, <1>16, <1>21, <1>22, <1>23, ShowsBy DEF V, N
<1> QED
  BY <1>1, <1>14, <1>15, <1>16, <1>24 DEF G, TablePublished

\* A table that is not marked as changed has the rows it had, perhaps in another
\* order.
MarkedOrAlike(g, h, rows, csn, at) ==
    g.changed = csn \/ (g.changed = h.changed /\ Alike(rows, VisibleRows(h, at)))

LEMMA UnchangedRows ==
  ASSUME NEW h, NEW at \in Nat, NEW n \in Nat, HistoryOK(h, at, n), NEW csn \in Nat,
         NEW rows \in Seq(Rows), NEW version, NEW P,
         P = PublishTable(h, version, rows, csn, at, n)
  PROVE  MarkedOrAlike(P.history, h, rows, csn, at)
<1> DEFINE old == Visible(h, at)
           m == MatchRows(RowsOf(old), rows)
           fresh == Ascending(Fresh(h, at, rows))
           N == Len(rows)
           changed == \/ h.version # version
                      \/ fresh # << >>
                      \/ \E p \in DOMAIN old : \/ MatchedBy(m, p) = 0
                                               \/ rows[MatchedBy(m, p)] # old[p].version.row
<1>1. P.history.changed = IF changed THEN csn ELSE h.changed
  BY DEF PublishTable, PublishOver, Fresh
<1>2. /\ RowsOf(old) \in Seq(Rows) /\ DOMAIN RowsOf(old) = DOMAIN old
      /\ VisibleRows(h, at) = RowsOf(old)
      /\ \A p \in DOMAIN old : RowsOf(old)[p] = old[p].version.row
  BY VisibleRowsType DEF RowsOf
<1>3. Matching(m, RowsOf(old), N)
  BY <1>2, MatchRowsIs
<1>4. /\ m \in Seq(Nat) /\ Len(m) = N /\ DOMAIN rows = 1 .. N /\ N \in Nat
      /\ \A i \in 1 .. N : m[i] = 0 \/ m[i] \in DOMAIN old
      /\ \A i, j \in 1 .. N : m[i] = m[j] /\ m[i] # 0 => i = j
  BY <1>2, <1>3 DEF Matching
<1>5. \A p \in DOMAIN old : p \in Nat
  <2>1. DOMAIN old = 1 .. Len(VisibleInOrder(h, at))
    BY VisibleEntries
  <2> HIDE DEF old
  <2> QED
    BY <2>1
<1>6. \A p \in DOMAIN old : /\ MatchedBy(m, p) \in 0 .. N
                            /\ MatchedBy(m, p) # 0 => m[MatchedBy(m, p)] = p
  <2> HIDE DEF m, old
  <2> QED
    BY <1>4, <1>5, MatchedIs
<1>7. fresh = << >> => Fresh(h, at, rows) = {}
  <2>1. Fresh(h, at, rows) \in SUBSET Nat /\ \A x \in Fresh(h, at, rows) : x <= N
    BY <1>4 DEF Fresh
  <2>2. IsFiniteSet(Fresh(h, at, rows)) /\ Fresh(h, at, rows) \in SUBSET Int
    <3> DEFINE S == Fresh(h, at, rows)
    <3>1. S \in SUBSET Nat /\ \A x \in S : x <= N
      BY <2>1
    <3>2. N \in Nat
      BY <1>4
    <3> HIDE DEF S, N
    <3>3. IsFiniteSet(S) /\ S \in SUBSET Int
      BY <3>1, <3>2, FS_BoundedSetOfNaturals
    <3> QED
      BY <3>3 DEF S
  <2>3. \A x \in Fresh(h, at, rows) : \E i \in 1 .. Len(fresh) : fresh[i] = x
    BY <2>2, AscendingIs
  <2> HIDE DEF fresh
  <2> QED
    BY <2>3
<1>8. fresh = << >> => \A i \in 1 .. N : m[i] # 0
  BY <1>4, <1>7 DEF Fresh
<1> HIDE DEF m, old, fresh, N
<1>9. ASSUME ~ changed PROVE Alike(rows, RowsOf(old))
  <2>1. /\ \A i \in 1 .. N : m[i] \in DOMAIN old
        /\ \A p \in DOMAIN old : /\ MatchedBy(m, p) \in 1 .. N /\ m[MatchedBy(m, p)] = p
                                  /\ rows[MatchedBy(m, p)] = old[p].version.row
    BY <1>4, <1>6, <1>8, <1>9
  <2>2. \A i, j \in 1 .. N : m[i] = m[j] => i = j
    BY <1>4, <1>8, <1>9
  <2>3. \A i \in 1 .. N : RowsOf(old)[m[i]] = rows[i]
    <3>1. ASSUME NEW i \in 1 .. N PROVE RowsOf(old)[m[i]] = rows[i]
      <4>1. MatchedBy(m, m[i]) = i
        BY <2>1, <2>2
      <4> QED
        BY <1>2, <2>1, <4>1
    <3> QED
      BY <3>1
  <2>4. IsFiniteSet(DOMAIN rows)
    BY <1>4, FS_Interval
  <2> DEFINE a == RowsOf(old)
  <2>5. m \in [DOMAIN rows -> DOMAIN a]
    BY <1>2, <1>4, <2>1
  <2>6. \A p \in DOMAIN a : \E i \in DOMAIN rows : m[i] = p
    BY <1>2, <1>4, <2>1
  <2>7. /\ \A i \in DOMAIN rows : a[m[i]] = rows[i]
        /\ \A i, j \in DOMAIN rows : m[i] = m[j] => i = j
    BY <1>4, <2>2, <2>3
  <2> HIDE DEF a
  <2>8. Alike(rows, a)
    BY <2>4, <2>5, <2>6, <2>7, RearrangedAlike
  <2> QED
    BY <2>8 DEF a
<1> HIDE DEF changed
<1> QED
  BY <1>1, <1>2, <1>9 DEF MarkedOrAlike

\* g is the table t with the given rows after the commit at csn: it is marked as
\* changed, or has the rows it had at the commit before, `at`.
Unaltered(g, base, t, csn, at, rows) ==
    \/ g.changed = csn
    \/ t \in DOMAIN base /\ g.changed = base[t].changed /\ Alike(rows, VisibleRows(base[t], at))

(***************************************************************************)
(* The publication of a commit.                                            *)
(***************************************************************************)

TablesOK(tables, at, n) == \A t \in DOMAIN tables : HistoryOK(tables[t], at, n) /\ Shaped(tables[t])

\* What a reader at c reads of table t.
ReadAt(tables, t, c) == IF t \in DOMAIN tables THEN VisibleRows(tables[t], c) ELSE << >>

LEMMA EmptyRead ==
  ASSUME NEW h, NEW at \in Nat, NEW n \in Nat, HistoryOK(h, at, n), NEW c \in Nat,
         VisibleIds(h, c) = {}
  PROVE  VisibleRows(h, c) = << >>
<1>1. << >> \in Seq(Rows) /\ 1 .. Len(<< >>) = {}
  OBVIOUS
<1> QED
  BY <1>1, ShowsBy

LEMMA LooksLikeTrans ==
  ASSUME NEW f, NEW g, NEW h, NEW a, NEW b, NEW c, LooksLike(f, a, g, b), LooksLike(g, b, h, c)
  PROVE  LooksLike(f, a, h, c)
BY DEF LooksLike

LEMMA NewHistoryOK ==
  ASSUME NEW version, NEW csn, NEW at \in Nat, NEW n \in Nat
  PROVE  /\ HistoryOK(NewHistory(version, csn), at, n) /\ Shaped(NewHistory(version, csn))
         /\ DOMAIN NewHistory(version, csn).rows = {}
         /\ \A c \in Nat : VisibleRows(NewHistory(version, csn), c) = << >>
<1> DEFINE h == NewHistory(version, csn)
<1>1. Shaped(h) /\ DOMAIN h.rows = {}
  BY DEF NewHistory, EmptyFn, Shaped
<1> HIDE DEF h
<1>2. HistoryOK(h, at, n)
  BY <1>1 DEF HistoryOK
<1>3. \A c \in Nat : VisibleIds(h, c) = {}
  BY <1>1 DEF VisibleIds
<1>4. \A c \in Nat : VisibleRows(h, c) = << >>
  BY <1>2, <1>3, EmptyRead
<1> QED
  BY <1>1, <1>2, <1>4 DEF h

\* A reader at c sees the same rows of both.
SameSight(new, tables, c) ==
    \A t \in DOMAIN new \cap DOMAIN tables : LooksLike(new[t], c, tables[t], c)

\* Readers from `oldest` on see the same of the pruned tables.
TablesPruned(new, tables, at, n, oldest) ==
    /\ TablesOK(new, at, n)
    /\ DOMAIN new \subseteq DOMAIN tables /\ \A t \in DOMAIN new : new[t].changed = tables[t].changed
    /\ \A t \in DOMAIN tables : tables[t].live = TRUE =>
          t \in DOMAIN new /\ new[t].live = TRUE /\ new[t].version = tables[t].version
    /\ \A t, c : c \in Nat /\ oldest <= c => ReadAt(new, t, c) = ReadAt(tables, t, c)
    /\ \A c \in Nat : oldest <= c => SameSight(new, tables, c)

LEMMA PruneTablesOK ==
  ASSUME NEW tables, NEW at \in Nat, NEW n \in Nat, TablesOK(tables, at, n),
         NEW oldest \in Nat, NEW new, new = PruneTables(tables, oldest)
  PROVE  TablesPruned(new, tables, at, n, oldest)
<1> DEFINE P(t) == [tables[t] EXCEPT !.rows = PruneRows(@, oldest)]
           pruned == [t \in DOMAIN tables |-> P(t)]
<1>1. new = [t \in {u \in DOMAIN tables : pruned[u].live \/ DOMAIN pruned[u].rows # {}} |-> pruned[t]]
  BY DEF PruneTables
<1>2. \A t \in DOMAIN tables : pruned[t] = P(t)
  OBVIOUS
<1>3. ASSUME NEW t \in DOMAIN tables
      PROVE  /\ HistoryOK(P(t), at, n) /\ Shaped(P(t))
             /\ P(t).version = tables[t].version /\ P(t).live = tables[t].live
             /\ P(t).changed = tables[t].changed
             /\ \A c \in Nat : oldest <= c => LooksLike(P(t), c, tables[t], c)
  <2>1. HistoryOK(tables[t], at, n) /\ Shaped(tables[t])
    BY DEF TablesOK
  <2> QED
    BY <2>1, PruneHistory
<1> HIDE DEF P, pruned
<1>4. /\ \A t \in DOMAIN new : t \in DOMAIN tables /\ new[t] = P(t)
      /\ \A t \in DOMAIN tables : P(t).live = TRUE \/ DOMAIN P(t).rows # {} => t \in DOMAIN new
  BY <1>1, <1>2
<1>5. TablesOK(new, at, n)
  BY <1>3, <1>4 DEF TablesOK
<1>6. \A t \in DOMAIN tables : tables[t].live = TRUE =>
         t \in DOMAIN new /\ new[t].live = TRUE /\ new[t].version = tables[t].version
  BY <1>3, <1>4
<1>7. ASSUME NEW t, NEW c, c \in Nat, oldest <= c PROVE ReadAt(new, t, c) = ReadAt(tables, t, c)
  <2>1. CASE t \notin DOMAIN tables
    BY <1>4, <2>1 DEF ReadAt
  <2>2. CASE t \in DOMAIN tables
    <3>1. HistoryOK(tables[t], at, n)
      BY <2>2 DEF TablesOK
    <3>2. HistoryOK(P(t), at, n) /\ LooksLike(P(t), c, tables[t], c)
      BY <1>3, <1>7, <2>2
    <3>3. VisibleRows(P(t), c) = VisibleRows(tables[t], c)
      BY <1>7, <3>1, <3>2, SameRead
    <3>4. CASE t \in DOMAIN new
      BY <1>4, <2>2, <3>3, <3>4 DEF ReadAt
    <3>5. CASE t \notin DOMAIN new
      <4>1. VisibleIds(P(t), c) = {}
        BY <1>4, <2>2, <3>5 DEF VisibleIds
      <4>2. VisibleRows(P(t), c) = << >>
        BY <1>7, <3>2, <4>1, EmptyRead
      <4> QED
        BY <2>2, <3>3, <3>5, <4>2 DEF ReadAt
    <3> QED
      BY <3>4, <3>5
  <2> QED
    BY <2>1, <2>2
<1>8. DOMAIN new \subseteq DOMAIN tables /\ \A t \in DOMAIN new : new[t].changed = tables[t].changed
  BY <1>3, <1>4
<1>9. \A c \in Nat : oldest <= c => SameSight(new, tables, c)
  BY <1>3, <1>4 DEF SameSight
<1> QED
  BY <1>5, <1>6, <1>7, <1>8, <1>9 DEF TablesPruned

(***************************************************************************)
(* The tables of the commit one after the other.                           *)
(***************************************************************************)

PublishStep(durable0, csn, schemas0, changed, acc, t) ==
    AddTable(acc, t, PublishTable(HistoryOf(acc.tables, t, schemas0[t], csn),
                                  schemas0[t], changed[t], csn, durable0.csn, acc.next_row))

Publishes(f, durable0, csn, schemas0, changed, order, n) ==
    f = [k \in 0 .. n |->
            IF k = 0
            THEN [tables |-> durable0.tables, next_row |-> durable0.next_row, ok |-> TRUE]
            ELSE PublishStep(durable0, csn, schemas0, changed, f[k - 1], order[k])]

LEMMA PublishesExist ==
  ASSUME NEW durable0, NEW csn, NEW schemas0, NEW changed, NEW order, NEW n \in Nat
  PROVE  \E f : Publishes(f, durable0, csn, schemas0, changed, order, n)
<1> DEFINE Start == [tables |-> durable0.tables, next_row |-> durable0.next_row, ok |-> TRUE]
           Step(acc, k) == PublishStep(durable0, csn, schemas0, changed, acc, order[k])
           Is(f, m) == Publishes(f, durable0, csn, schemas0, changed, order, m)
           P == {k \in Nat : \E f : Is(f, k)}
<1>0. \A f, m : Is(f, m) <=> f = [k \in 0 .. m |-> IF k = 0 THEN Start ELSE Step(f[k - 1], k)]
  BY DEF Publishes
<1> HIDE DEF Start, Step, Is
<1>1. 0 \in P
  <2> DEFINE f == [m \in 0 .. 0 |-> Start]
  <2>1. f = [k \in 0 .. 0 |-> IF k = 0 THEN Start ELSE Step(f[k - 1], k)]
    OBVIOUS
  <2> HIDE DEF f
  <2>2. Is(f, 0)
    BY <1>0, <2>1
  <2> QED
    BY <2>2
<1>2. ASSUME NEW k \in P PROVE k + 1 \in P
  <2>1. PICK f : Is(f, k)
    BY <1>2
  <2>4. f = [m \in 0 .. k |-> IF m = 0 THEN Start ELSE Step(f[m - 1], m)]
    BY <1>0, <2>1
  <2> DEFINE g == [m \in 0 .. k + 1 |-> IF m = k + 1 THEN Step(f[k], k + 1) ELSE f[m]]
  <2>2. ASSUME NEW m \in 0 .. k + 1
        PROVE  g[m] = IF m = 0 THEN Start ELSE Step(g[m - 1], m)
    <3>1. CASE m = k + 1
      <4>1. g[m - 1] = f[k] /\ m # 0
        BY <3>1
      <4> QED
        BY <3>1, <4>1
    <3>2. CASE m # k + 1
      <4>1. m \in 0 .. k
        BY <3>2
      <4>2. f[m] = IF m = 0 THEN Start ELSE Step(f[m - 1], m)
        BY <2>4, <4>1
      <4>3. m # 0 => g[m - 1] = f[m - 1]
        BY <4>1
      <4> QED
        BY <3>2, <4>2, <4>3
    <3> QED
      BY <3>1, <3>2
  <2>3. Is(g, k + 1)
    <3>1. g = [m \in 0 .. k + 1 |-> g[m]]
      OBVIOUS
    <3> HIDE DEF g
    <3>2. g = [m \in 0 .. k + 1 |-> IF m = 0 THEN Start ELSE Step(g[m - 1], m)]
      BY <2>2, <3>1
    <3> QED
      BY <1>0, <3>2
  <2> HIDE DEF g
  <2> QED
    BY <2>3
<1>3. P = Nat
  <2> HIDE DEF P
  <2>1. P \in SUBSET Nat
    BY DEF P
  <2> QED
    BY <1>1, <1>2, <2>1, SetInduction
<1> QED
  BY <1>3 DEF Is

\* The state after some of the tables were published over the tables `base`.
Published(acc, base, at, first, csn, schemas0, changed, done) ==
    /\ acc.next_row \in Nat /\ first <= acc.next_row
    /\ DOMAIN acc.tables = DOMAIN base \cup done
    /\ \A t \in DOMAIN base \ done : acc.tables[t] = base[t]
    /\ \A t \in done :
          /\ HistoryOK(acc.tables[t], csn, acc.next_row) /\ Shaped(acc.tables[t])
          /\ acc.tables[t].live = TRUE /\ acc.tables[t].version = schemas0[t]
          /\ VisibleRows(acc.tables[t], csn) = changed[t]
          /\ Unaltered(acc.tables[t], base, t, csn, at, changed[t])
          /\ \A c \in Nat : c < csn =>
                /\ VisibleRows(acc.tables[t], c) = ReadAt(base, t, c)
                /\ t \in DOMAIN base => LooksLike(acc.tables[t], c, base[t], c)

LEMMA PublishedStep ==
  ASSUME NEW durable0, NEW at \in Nat, at = durable0.csn, NEW first \in Nat,
         TablesOK(durable0.tables, at, first), NEW csn \in Nat,
         at < csn \/ DOMAIN durable0.tables = {},
         NEW schemas0, NEW changed, NEW acc, NEW done,
         Published(acc, durable0.tables, at, first, csn, schemas0, changed, done),
         NEW t, t \notin done, changed[t] \in Seq(Rows)
  PROVE  Published(PublishStep(durable0, csn, schemas0, changed, acc, t),
                   durable0.tables, at, first, csn, schemas0, changed, done \cup {t})
<1> DEFINE base == durable0.tables
           h == HistoryOf(acc.tables, t, schemas0[t], csn)
           P == PublishTable(h, schemas0[t], changed[t], csn, at, acc.next_row)
           new == AddTable(acc, t, P)
<1>1. /\ acc.next_row \in Nat /\ first <= acc.next_row
      /\ DOMAIN acc.tables = DOMAIN base \cup done
      /\ \A u \in DOMAIN base \ done : acc.tables[u] = base[u]
      /\ \A u \in done :
          /\ HistoryOK(acc.tables[u], csn, acc.next_row) /\ Shaped(acc.tables[u])
          /\ acc.tables[u].live = TRUE /\ acc.tables[u].version = schemas0[u]
          /\ VisibleRows(acc.tables[u], csn) = changed[u]
          /\ Unaltered(acc.tables[u], base, u, csn, at, changed[u])
          /\ \A c \in Nat : c < csn =>
                /\ VisibleRows(acc.tables[u], c) = ReadAt(base, u, c)
                /\ u \in DOMAIN base => LooksLike(acc.tables[u], c, base[u], c)
  BY DEF Published
<1>2. /\ HistoryOK(h, at, acc.next_row)
      /\ at < csn \/ DOMAIN h.rows = {}
      /\ h.changed = csn \/ (t \in DOMAIN base /\ h = base[t])
      /\ t \in DOMAIN base => h = base[t]
      /\ \A c \in Nat : VisibleRows(h, c) = ReadAt(base, t, c)
  <2>1. CASE t \in DOMAIN base
    <3>1. h = base[t]
      BY <1>1, <2>1 DEF HistoryOf
    <3>2. HistoryOK(base[t], at, first) /\ at <= at
      BY <2>1 DEF TablesOK
    <3>3. HistoryOK(base[t], at, acc.next_row)
      BY <1>1, <3>2, HistoryLater
    <3>4. at < csn
      BY <2>1
    <3> QED
      BY <2>1, <3>1, <3>3, <3>4 DEF ReadAt
  <2>2. CASE t \notin DOMAIN base
    <3>1. h = NewHistory(schemas0[t], csn)
      BY <1>1, <2>2 DEF HistoryOf
    <3> QED
      BY <1>1, <2>2, <3>1, NewHistoryOK DEF ReadAt, NewHistory
  <2> QED
    BY <2>1, <2>2
<1> HIDE DEF h
<1>3. /\ P.next_row \in Nat /\ acc.next_row <= P.next_row
      /\ P.history.version = schemas0[t] /\ P.history.live = TRUE /\ Shaped(P.history)
      /\ HistoryOK(P.history, csn, P.next_row)
      /\ VisibleRows(P.history, csn) = changed[t]
      /\ Unaltered(P.history, base, t, csn, at, changed[t])
      /\ \A c \in Nat : c < csn => LooksLike(P.history, c, h, c)
  <2> DEFINE n == acc.next_row
             rows == changed[t]
             version == schemas0[t]
  <2>1. P = PublishTable(h, version, rows, csn, at, n)
    OBVIOUS
  <2>2. n \in Nat
    BY <1>1
  <2>3. HistoryOK(h, at, n)
    BY <1>2
  <2>4. at < csn \/ DOMAIN h.rows = {}
    BY <1>2
  <2>5. rows \in Seq(Rows)
    OBVIOUS
  <2> HIDE DEF P, n, rows, version
  <2>6. TablePublished(P, h, version, rows, csn, n)
    BY <2>1, <2>2, <2>3, <2>4, <2>5, PublishTableOK
  <2>7. MarkedOrAlike(P.history, h, rows, csn, at)
    BY <2>1, <2>2, <2>3, <2>5, UnchangedRows
  <2>8. Unaltered(P.history, base, t, csn, at, rows)
    BY <1>2, <2>7 DEF Unaltered, MarkedOrAlike
  <2> QED
    BY <2>6, <2>8 DEF n, rows, version, TablePublished
<1> HIDE DEF P
<1>4. \A c \in Nat : c < csn => VisibleRows(P.history, c) = VisibleRows(h, c)
  BY <1>1, <1>2, <1>3, SameRead
<1>5. PublishStep(durable0, csn, schemas0, changed, acc, t) = new
  BY DEF PublishStep, P, h
<1>6. /\ new.next_row = P.next_row
      /\ DOMAIN new.tables = DOMAIN acc.tables \cup {t}
      /\ new.tables[t] = P.history
      /\ \A u \in DOMAIN acc.tables : u # t => new.tables[u] = acc.tables[u]
  BY DEF AddTable
<1> HIDE DEF new
<1>7. first <= new.next_row /\ new.next_row \in Nat
  BY <1>1, <1>3, <1>6
<1>8. DOMAIN new.tables = DOMAIN base \cup (done \cup {t})
  BY <1>1, <1>6
<1>9. \A u \in DOMAIN base \ (done \cup {t}) : new.tables[u] = base[u]
  BY <1>1, <1>6
<1>10. ASSUME NEW u \in done \cup {t}
       PROVE  /\ HistoryOK(new.tables[u], csn, new.next_row) /\ Shaped(new.tables[u])
              /\ new.tables[u].live = TRUE /\ new.tables[u].version = schemas0[u]
              /\ VisibleRows(new.tables[u], csn) = changed[u]
              /\ Unaltered(new.tables[u], base, u, csn, at, changed[u])
              /\ \A c \in Nat : c < csn =>
                    /\ VisibleRows(new.tables[u], c) = ReadAt(base, u, c)
                    /\ u \in DOMAIN base => LooksLike(new.tables[u], c, base[u], c)
  <2>1. CASE u = t
    BY <1>2, <1>3, <1>4, <1>6, <2>1
  <2>2. CASE u # t
    <3>1. u \in done /\ new.tables[u] = acc.tables[u]
      BY <1>1, <1>6, <1>10, <2>2
    <3>2. HistoryOK(acc.tables[u], csn, acc.next_row) /\ csn <= csn /\ acc.next_row <= new.next_row
      BY <1>1, <1>3, <1>6, <3>1
    <3>3. HistoryOK(acc.tables[u], csn, new.next_row)
      BY <1>1, <1>7, <3>2, HistoryLater
    <3> QED
      BY <1>1, <3>1, <3>3
  <2> QED
    BY <2>1, <2>2
<1> QED
  BY <1>5, <1>7, <1>8, <1>9, <1>10 DEF Published

\* The tables of the commit are published in order.
LEMMA AllPublished ==
  ASSUME NEW durable0, NEW at \in Nat, at = durable0.csn, NEW first \in Nat,
         first = durable0.next_row, TablesOK(durable0.tables, at, first), NEW csn \in Nat,
         at < csn \/ DOMAIN durable0.tables = {},
         NEW schemas0, NEW changed, NEW order, DOMAIN changed \in SUBSET Nat,
         IsFiniteSet(DOMAIN changed), order = Ascending(DOMAIN changed),
         \A t \in DOMAIN changed : changed[t] \in Seq(Rows),
         NEW f, Publishes(f, durable0, csn, schemas0, changed, order, Len(order))
  PROVE  Published(f[Len(order)], durable0.tables, at, first, csn, schemas0, changed, DOMAIN changed)
<1> DEFINE S == DOMAIN changed
           N == Len(order)
           upto(k) == {order[i] : i \in 1 .. k}
           OK(k) == Published(f[k], durable0.tables, at, first, csn, schemas0, changed, upto(k))
           P == {k \in 0 .. N : OK(k)}
<1>1. /\ order \in Seq(S) /\ \A x \in S : \E i \in 1 .. N : order[i] = x
      /\ \A i, j \in 1 .. N : i < j => order[i] < order[j]
  <2>1. S \in SUBSET Int
    OBVIOUS
  <2> HIDE DEF S
  <2> QED
    BY <2>1, AscendingIs DEF S
<1>2. N \in Nat /\ \A i \in 1 .. N : order[i] \in S /\ order[i] \in Int
  <2>1. N \in Nat /\ \A i \in 1 .. N : order[i] \in S
    BY <1>1
  <2> QED
    BY <2>1
<1>3. /\ f[0] = [tables |-> durable0.tables, next_row |-> durable0.next_row, ok |-> TRUE]
      /\ \A k \in 1 .. N : f[k] = PublishStep(durable0, csn, schemas0, changed, f[k - 1], order[k])
  <2>1. \A k \in 0 .. N : f[k] = IF k = 0
            THEN [tables |-> durable0.tables, next_row |-> durable0.next_row, ok |-> TRUE]
            ELSE PublishStep(durable0, csn, schemas0, changed, f[k - 1], order[k])
    BY DEF Publishes
  <2>2. 0 \in 0 .. N /\ \A k \in 1 .. N : k \in 0 .. N /\ k # 0
    BY <1>2
  <2> QED
    BY <2>1, <2>2
<1>4. 0 \in P
  <2>1. upto(0) = {} /\ 0 \in 0 .. N
    BY <1>2
  <2>2. f[0].tables = durable0.tables /\ f[0].next_row = first
    BY <1>3
  <2>3. OK(0)
    BY <2>1, <2>2 DEF Published
  <2> QED
    BY <2>1, <2>3
<1>5. ASSUME NEW k \in 0 .. N - 1, k \in P PROVE k + 1 \in P
  <2>1. k + 1 \in 1 .. N /\ k + 1 \in 0 .. N /\ (k + 1) - 1 = k
    BY <1>2
  <2>2. f[k + 1] = PublishStep(durable0, csn, schemas0, changed, f[k], order[k + 1])
    BY <1>3, <2>1
  <2>3. order[k + 1] \notin upto(k)
    <3>1. ASSUME NEW i \in 1 .. k PROVE order[i] # order[k + 1]
      <4>1. i \in 1 .. N /\ i < k + 1
        BY <1>2
      <4> QED
        BY <1>1, <1>2, <2>1, <4>1
    <3> QED
      BY <3>1
  <2>4. upto(k + 1) = upto(k) \cup {order[k + 1]}
    <3>1. 1 .. k + 1 = (1 .. k) \cup {k + 1}
      OBVIOUS
    <3> QED
      BY <3>1
  <2>5. changed[order[k + 1]] \in Seq(Rows)
    BY <1>2, <2>1
  <2>6. OK(k)
    BY <1>5
  <2> HIDE DEF upto
  <2> DEFINE t == order[k + 1]
             done == upto(k)
             acc == f[k]
  <2>8. /\ Published(acc, durable0.tables, at, first, csn, schemas0, changed, done)
        /\ t \notin done /\ changed[t] \in Seq(Rows)
    BY <2>3, <2>5, <2>6
  <2>9. Published(PublishStep(durable0, csn, schemas0, changed, acc, t),
                  durable0.tables, at, first, csn, schemas0, changed, done \cup {t})
    <3> HIDE DEF t, done, acc
    <3> QED
      BY <2>8, PublishedStep
  <2>7. OK(k + 1)
    BY <2>2, <2>4, <2>9
  <2> HIDE DEF OK
  <2> QED
    BY <2>1, <2>7
<1>6. \A k \in 0 .. N : k \in P
  <2> HIDE DEF P, N
  <2> QED
    BY <1>2, <1>4, <1>5, BoundedInduction, Zenon
<1>7. N \in P
  <2> HIDE DEF P, N
  <2> QED
    BY <1>2, <1>6
<1>8. upto(N) = S
  <2> HIDE DEF S, N
  <2> QED
    BY <1>1, <1>2
<1> QED
  BY <1>7, <1>8

\* What a commit at csn makes of the published state.
StatePublished(D, durable0, csn, schemas0, changed, oldest) ==
    /\ D = [csn |-> csn, next_row |-> D.next_row, tables |-> D.tables]
    /\ D.csn = csn /\ D.next_row \in Nat /\ TablesOK(D.tables, csn, D.next_row)
    /\ \A t \in DOMAIN changed :
          /\ t \in DOMAIN D.tables /\ D.tables[t].live = TRUE
          /\ D.tables[t].version = schemas0[t]
          /\ VisibleRows(D.tables[t], csn) = changed[t]
    /\ \A t \in DOMAIN durable0.tables :
          t \in DOMAIN schemas0 /\ t \notin DOMAIN changed /\ durable0.tables[t].live = TRUE =>
             /\ t \in DOMAIN D.tables /\ D.tables[t].live = TRUE
             /\ D.tables[t].version = durable0.tables[t].version
             /\ VisibleRows(D.tables[t], csn) = VisibleRows(durable0.tables[t], durable0.csn)
    /\ \A t : /\ t \notin DOMAIN schemas0
              /\ t \in DOMAIN durable0.tables =>
                    \/ durable0.tables[t].live = TRUE
                    \/ ReadAt(durable0.tables, t, durable0.csn) = << >>
              => ReadAt(D.tables, t, csn) = << >>
    /\ \A t, c : c \in Nat /\ oldest <= c /\ c < csn =>
          ReadAt(D.tables, t, c) = ReadAt(durable0.tables, t, c)
    /\ \A c \in Nat : oldest <= c /\ c < csn => SameSight(D.tables, durable0.tables, c)
    /\ DOMAIN D.tables \subseteq DOMAIN durable0.tables \cup DOMAIN changed
    /\ \A t \in DOMAIN D.tables :
          Unaltered(D.tables[t], durable0.tables, t, csn, durable0.csn, ReadAt(D.tables, t, csn))

LEMMA PublishStateOK ==
  ASSUME NEW durable0, durable0.csn \in Nat, durable0.next_row \in Nat,
         TablesOK(durable0.tables, durable0.csn, durable0.next_row), NEW csn \in Nat,
         durable0.csn < csn \/ DOMAIN durable0.tables = {},
         NEW schemas0, NEW changed, DOMAIN changed \in SUBSET Nat, IsFiniteSet(DOMAIN changed),
         DOMAIN changed \in SUBSET DOMAIN schemas0,
         \A t \in DOMAIN changed : changed[t] \in Seq(Rows),
         NEW oldest \in Nat, oldest <= csn,
         NEW D, D = PublishState(durable0, csn, schemas0, changed, oldest).durable
  PROVE  StatePublished(D, durable0, csn, schemas0, changed, oldest)
<1> DEFINE at == durable0.csn
           first == durable0.next_row
           base == durable0.tables
           order == Ascending(DOMAIN changed)
           Is(f) == Publishes(f, durable0, csn, schemas0, changed, order, Len(order))
           g == CHOOSE f : Is(f)
           all == g[Len(order)]
           M == RetireMissing(all.tables, schemas0, csn)
           n == all.next_row
<1>1. D = [csn |-> csn, next_row |-> n, tables |-> PruneTables(M, oldest)]
  BY DEF PublishState, Publishes, PublishStep
<1>2. Len(order) \in Nat
  <2>1. DOMAIN changed \in SUBSET Int
    OBVIOUS
  <2>2. order \in Seq(DOMAIN changed)
    BY <2>1, AscendingIs
  <2> HIDE DEF order
  <2> QED
    BY <2>2
<1>3. \E f : Is(f)
  <2> HIDE DEF order
  <2> QED
    BY <1>2, PublishesExist
<1>4. Is(g)
  <2> HIDE DEF Is
  <2> QED
    BY <1>3
<1> HIDE DEF g
<1>5. Published(all, base, at, first, csn, schemas0, changed, DOMAIN changed)
  BY <1>4, AllPublished
<1> HIDE DEF all, order, Is
<1>6. /\ n \in Nat /\ first <= n
      /\ DOMAIN all.tables = DOMAIN base \cup DOMAIN changed
      /\ \A t \in DOMAIN base \ DOMAIN changed : all.tables[t] = base[t]
      /\ \A t \in DOMAIN changed :
          /\ HistoryOK(all.tables[t], csn, n) /\ Shaped(all.tables[t])
          /\ all.tables[t].live = TRUE /\ all.tables[t].version = schemas0[t]
          /\ VisibleRows(all.tables[t], csn) = changed[t]
          /\ Unaltered(all.tables[t], base, t, csn, at, changed[t])
          /\ \A c \in Nat : c < csn =>
                /\ VisibleRows(all.tables[t], c) = ReadAt(base, t, c)
                /\ t \in DOMAIN base => LooksLike(all.tables[t], c, base[t], c)
  BY <1>5 DEF Published
<1>7. ASSUME NEW t \in DOMAIN base
      PROVE  /\ at < csn /\ at <= at /\ HistoryOK(base[t], at, first) /\ Shaped(base[t])
             /\ HistoryOK(base[t], csn, n) /\ HistoryOK(base[t], at, n)
             /\ VisibleRows(base[t], csn) = VisibleRows(base[t], at)
  <2>1. at < csn /\ HistoryOK(base[t], at, first) /\ Shaped(base[t])
    BY DEF TablesOK
  <2>2. at \in Nat /\ first \in Nat /\ at <= csn /\ at <= at
    BY <2>1
  <2> HIDE DEF at, first, n, base
  <2>3. HistoryOK(base[t], csn, n) /\ LooksLike(base[t], csn, base[t], at)
    BY <1>6, <2>1, <2>2, HistoryLater
  <2>4. HistoryOK(base[t], at, n)
    BY <1>6, <2>1, <2>2, HistoryLater
  <2>5. VisibleRows(base[t], csn) = VisibleRows(base[t], at)
    BY <1>6, <2>2, <2>3, SameRead
  <2> QED
    BY <2>1, <2>2, <2>3, <2>4, <2>5
<1>8. ASSUME NEW t \in DOMAIN all.tables
      PROVE  /\ HistoryOK(all.tables[t], csn, n) /\ Shaped(all.tables[t])
             /\ \A c \in Nat : c < csn =>
                   /\ VisibleRows(all.tables[t], c) = ReadAt(base, t, c)
                   /\ t \in DOMAIN base => LooksLike(all.tables[t], c, base[t], c)
  <2>1. CASE t \in DOMAIN changed
    BY <1>6, <2>1
  <2>2. CASE t \notin DOMAIN changed
    <3>1. t \in DOMAIN base /\ all.tables[t] = base[t]
      BY <1>6, <2>2
    <3> QED
      BY <1>7, <3>1 DEF ReadAt, LooksLike
  <2> QED
    BY <2>1, <2>2
<1>9. /\ DOMAIN M = DOMAIN all.tables
      /\ \A t \in DOMAIN all.tables :
            /\ t \in DOMAIN schemas0 => M[t] = all.tables[t]
            /\ M[t] = all.tables[t] \/ (t \notin DOMAIN schemas0 /\ M[t] = RetireTable(all.tables[t], csn))
            /\ t \notin DOMAIN schemas0 /\ all.tables[t].live = TRUE =>
                  M[t] = RetireTable(all.tables[t], csn)
  BY DEF RetireMissing
<1> HIDE DEF M
<1>10. ASSUME NEW t \in DOMAIN M
       PROVE  /\ HistoryOK(M[t], csn, n) /\ Shaped(M[t])
              /\ \A c \in Nat : c < csn =>
                    /\ VisibleRows(M[t], c) = ReadAt(base, t, c)
                    /\ t \in DOMAIN base => LooksLike(M[t], c, base[t], c)
  <2>1. CASE M[t] = all.tables[t]
    BY <1>8, <1>9, <2>1
  <2>2. CASE t \notin DOMAIN schemas0 /\ M[t] = RetireTable(all.tables[t], csn)
    <3>1. t \in DOMAIN base /\ all.tables[t] = base[t]
      BY <1>6, <1>9, <2>2
    <3>2. at < csn /\ HistoryOK(base[t], at, n) /\ Shaped(base[t]) /\ at \in Nat
      BY <1>7, <3>1
    <3> DEFINE b == base[t]
               r == M[t]
    <3>5. r = RetireTable(b, csn) /\ n \in Nat /\ HistoryOK(b, at, n) /\ Shaped(b)
      BY <1>6, <2>2, <3>1, <3>2
    <3>6. /\ HistoryOK(r, csn, n) /\ Shaped(r)
          /\ \A c \in Nat : c < csn => LooksLike(r, c, b, c)
      <4> HIDE DEF at, n, b, r
      <4> QED
        BY <3>2, <3>5, RetireHistory
    <3> HIDE DEF at, n, base
    <3>3. /\ HistoryOK(M[t], csn, n) /\ Shaped(M[t])
          /\ \A c \in Nat : c < csn => LooksLike(M[t], c, base[t], c)
      BY <3>6
    <3>4. \A c \in Nat : c < csn => VisibleRows(M[t], c) = VisibleRows(base[t], c)
      BY <1>6, <3>2, <3>3, SameRead
    <3> QED
      BY <3>1, <3>3, <3>4 DEF ReadAt
  <2> QED
    BY <1>9, <2>1, <2>2
<1>11. TablesOK(M, csn, n)
  BY <1>10 DEF TablesOK
<1> DEFINE new == PruneTables(M, oldest)
<1>12. /\ TablesOK(new, csn, n) /\ DOMAIN new \subseteq DOMAIN M
       /\ \A t \in DOMAIN new : new[t].changed = M[t].changed
       /\ \A t \in DOMAIN M : M[t].live = TRUE =>
             t \in DOMAIN new /\ new[t].live = TRUE /\ new[t].version = M[t].version
       /\ \A t, c : c \in Nat /\ oldest <= c => ReadAt(new, t, c) = ReadAt(M, t, c)
       /\ \A c \in Nat : oldest <= c => SameSight(new, M, c)
  <2>1. new = PruneTables(M, oldest) /\ n \in Nat
    BY <1>6
  <2> HIDE DEF n, new
  <2>2. TablesPruned(new, M, csn, n, oldest)
    BY <1>11, <2>1, PruneTablesOK
  <2> QED
    BY <2>2 DEF TablesPruned
<1> HIDE DEF new
<1>13. /\ D = [csn |-> csn, next_row |-> D.next_row, tables |-> D.tables]
       /\ D.csn = csn /\ D.next_row = n /\ D.tables = new
  BY <1>1 DEF new
<1>14. ASSUME NEW t \in DOMAIN all.tables, t \in DOMAIN schemas0, all.tables[t].live = TRUE
       PROVE  /\ t \in DOMAIN new /\ new[t].live = TRUE
              /\ new[t].version = all.tables[t].version
              /\ VisibleRows(new[t], csn) = VisibleRows(all.tables[t], csn)
  <2>1. t \in DOMAIN M /\ M[t] = all.tables[t]
    BY <1>9, <1>14
  <2>2. ReadAt(new, t, csn) = ReadAt(M, t, csn)
    BY <1>12
  <2> QED
    BY <1>12, <1>14, <2>1, <2>2 DEF ReadAt
<1>15. \A t \in DOMAIN changed :
          /\ t \in DOMAIN new /\ new[t].live = TRUE /\ new[t].version = schemas0[t]
          /\ VisibleRows(new[t], csn) = changed[t]
  BY <1>6, <1>14
<1>16. \A t \in DOMAIN base :
          t \in DOMAIN schemas0 /\ t \notin DOMAIN changed /\ base[t].live = TRUE =>
             /\ t \in DOMAIN new /\ new[t].live = TRUE
             /\ new[t].version = base[t].version
             /\ VisibleRows(new[t], csn) = VisibleRows(base[t], at)
  BY <1>6, <1>7, <1>14
<1>17. ASSUME NEW t, NEW c, c \in Nat, oldest <= c, c < csn
       PROVE  ReadAt(new, t, c) = ReadAt(base, t, c)
  <2>1. ReadAt(new, t, c) = ReadAt(M, t, c)
    BY <1>12, <1>17
  <2>2. CASE t \in DOMAIN M
    BY <1>10, <1>17, <2>1, <2>2 DEF ReadAt
  <2>3. CASE t \notin DOMAIN M
    BY <1>6, <1>9, <2>1, <2>3 DEF ReadAt
  <2> QED
    BY <2>2, <2>3
<1>18. ASSUME NEW t, t \notin DOMAIN schemas0,
              t \in DOMAIN base => base[t].live = TRUE \/ ReadAt(base, t, at) = << >>
       PROVE  ReadAt(new, t, csn) = << >>
  <2>1. ReadAt(new, t, csn) = ReadAt(M, t, csn)
    BY <1>12
  <2>2. CASE t \notin DOMAIN base
    BY <1>6, <1>9, <1>18, <2>1, <2>2 DEF ReadAt
  <2>3. CASE t \in DOMAIN base
    <3>1. t \in DOMAIN M /\ t \in DOMAIN all.tables /\ all.tables[t] = base[t]
      BY <1>6, <1>9, <1>18, <2>3
    <3>2. CASE M[t] = RetireTable(base[t], csn)
      <4> DEFINE b == base[t]
                 r == M[t]
      <4>1. at < csn /\ at \in Nat /\ HistoryOK(b, at, n) /\ Shaped(b) /\ n \in Nat
        BY <1>6, <1>7, <2>3
      <4>2. r = RetireTable(b, csn)
        BY <3>2
      <4>3. HistoryOK(r, csn, n) /\ VisibleIds(r, csn) = {}
        <5> HIDE DEF at, n, b, r
        <5> QED
          BY <4>1, <4>2, RetireHistory
      <4>4. VisibleRows(r, csn) = << >>
        <5> HIDE DEF n, r
        <5> QED
          BY <4>1, <4>3, EmptyRead
      <4> QED
        BY <2>1, <3>1, <4>4 DEF ReadAt
    <3>3. CASE M[t] # RetireTable(base[t], csn)
      <4>1. M[t] = base[t] /\ ReadAt(base, t, at) = << >>
        BY <1>9, <1>18, <2>3, <3>1, <3>3
      <4>2. VisibleRows(base[t], csn) = VisibleRows(base[t], at)
        BY <1>7, <2>3
      <4> QED
        BY <2>1, <2>3, <3>1, <4>1, <4>2 DEF ReadAt
    <3> QED
      BY <3>2, <3>3
  <2> QED
    BY <2>2, <2>3
<1>19. \A t : /\ t \notin DOMAIN schemas0
              /\ t \in DOMAIN base => base[t].live = TRUE \/ ReadAt(base, t, at) = << >>
              => ReadAt(new, t, csn) = << >>
  BY <1>18
<1>20. \A t, c : c \in Nat /\ oldest <= c /\ c < csn => ReadAt(new, t, c) = ReadAt(base, t, c)
  BY <1>17
<1>21. n \in Nat /\ TablesOK(new, csn, n)
  BY <1>6, <1>12
<1>22. ASSUME NEW t \in DOMAIN new PROVE Unaltered(new[t], base, t, csn, at, ReadAt(new, t, csn))
  <2>1. t \in DOMAIN M /\ t \in DOMAIN all.tables /\ new[t].changed = M[t].changed
    BY <1>9, <1>12
  <2>2. ReadAt(new, t, csn) = VisibleRows(M[t], csn)
    BY <1>12, <2>1 DEF ReadAt
  <2>3. CASE M[t] # all.tables[t]
    <3>1. M[t] = RetireTable(all.tables[t], csn) /\ Shaped(all.tables[t])
      BY <1>8, <1>9, <2>1, <2>3
    <3>2. M[t].changed = csn
      BY <3>1 DEF RetireTable, Shaped
    <3> QED
      BY <2>1, <3>2 DEF Unaltered
  <2>4. CASE M[t] = all.tables[t] /\ t \in DOMAIN changed
    <3>1. Unaltered(all.tables[t], base, t, csn, at, changed[t]) /\ ReadAt(new, t, csn) = changed[t]
      BY <1>6, <2>2, <2>4
    <3> QED
      BY <2>1, <2>4, <3>1 DEF Unaltered
  <2>5. CASE M[t] = all.tables[t] /\ t \notin DOMAIN changed
    <3>1. t \in DOMAIN base /\ M[t] = base[t]
      BY <1>6, <2>1, <2>5
    <3>2. ReadAt(new, t, csn) = VisibleRows(base[t], at)
      BY <1>7, <2>2, <3>1
    <3> QED
      BY <2>1, <3>1, <3>2 DEF Unaltered, Alike
  <2> QED
    BY <2>3, <2>4, <2>5
<1>23. DOMAIN new \subseteq DOMAIN base \cup DOMAIN changed
  BY <1>6, <1>9, <1>12
<1>24. ASSUME NEW c \in Nat, oldest <= c, c < csn PROVE SameSight(new, base, c)
  <2> SUFFICES ASSUME NEW t \in DOMAIN new \cap DOMAIN base
               PROVE  LooksLike(new[t], c, base[t], c)
    BY DEF SameSight
  <2>1. t \in DOMAIN M /\ LooksLike(M[t], c, base[t], c)
    BY <1>10, <1>12, <1>24
  <2>2. LooksLike(new[t], c, M[t], c)
    BY <1>12, <1>24, <2>1 DEF SameSight
  <2> QED
    BY <2>1, <2>2, LooksLikeTrans
<1> HIDE DEF n
<1> QED
  BY <1>13, <1>15, <1>16, <1>19, <1>20, <1>21, <1>22, <1>23, <1>24 DEF StatePublished

(***************************************************************************)
(* What operations make of rows.                                           *)
(***************************************************************************)

LEMMA EditRowsType ==
  ASSUME NEW rows \in Seq(Rows), NEW op \in Operations
  PROVE  EditRows(rows, op) \in Seq(Rows)
<1> DEFINE left == {i \in DOMAIN rows :
                       ~ /\ rows[i].id \in op.ids
                         /\ \A j \in 1 .. i - 1 : rows[j].id # rows[i].id}
<1>1. op.kind \in {"upsert", "delete", "replace"} /\ op.rows \in Seq(Rows)
  BY DEF Operations
<1>2. PickAt(rows, left) \in Seq(Rows)
  <2>1. left \in SUBSET DOMAIN rows
    OBVIOUS
  <2> HIDE DEF left
  <2> QED
    BY <2>1, PickAtIs
<1>3. rows \o op.rows \in Seq(Rows)
  BY <1>1
<1>4. CASE op.kind = "replace"
  BY <1>1, <1>4 DEF EditRows
<1>5. CASE op.kind = "upsert"
  BY <1>3, <1>5 DEF EditRows
<1>6. CASE op.kind = "delete"
  BY <1>2, <1>6 DEF EditRows
<1> QED
  BY <1>1, <1>4, <1>5, <1>6

LEMMA EditAllType ==
  ASSUME NEW rows \in Seq(Rows), NEW ops \in Seq(Operations)
  PROVE  EditAll(rows, ops) \in Seq(Rows)
<1> DEFINE N == Len(ops)
           D == Seq(Rows)
           Is(f) == f = [n \in 0 .. N |-> IF n = 0 THEN rows ELSE EditRows(f[n - 1], ops[n])]
           g == CHOOSE f : Is(f)
           F == [a \in D \X (1 .. N) |-> EditRows(a[1], ops[a[2]])]
<1>1. EditAll(rows, ops) = g[N]
  BY DEF EditAll
<1>2. N \in Nat /\ \A k \in 1 .. N : ops[k] \in Operations
  OBVIOUS
<1>3. F \in [D \X (1 .. N) -> D]
  <2>1. ASSUME NEW a \in D \X (1 .. N) PROVE EditRows(a[1], ops[a[2]]) \in D
    <3>1. a[1] \in Seq(Rows) /\ ops[a[2]] \in Operations
      BY <1>2
    <3> QED
      BY <3>1, EditRowsType
  <2> QED
    BY <2>1
<1>4. \A x \in D, k \in 1 .. N : F[<<x, k>>] = EditRows(x, ops[k])
  OBVIOUS
<1>5. rows \in D
  OBVIOUS
<1>10. \A x \in D, k \in 1 .. N : EditRows(x, ops[k]) \in D
  BY <1>2, EditRowsType
<1> HIDE DEF F, D, N
<1>6. PICK f : Recurs(f, N, D, rows, F)
  BY <1>2, <1>3, <1>5, Recursion
<1>7. Is(f)
  <2>1. f \in [0 .. N -> D] /\ f[0] = rows /\ \A k \in 1 .. N : f[k] = F[<<f[k - 1], k>>]
    BY <1>6 DEF Recurs
  <2>2. ASSUME NEW k \in 0 .. N PROVE f[k] = IF k = 0 THEN rows ELSE EditRows(f[k - 1], ops[k])
    <3>1. CASE k = 0
      BY <2>1, <3>1
    <3>2. CASE k # 0
      <4>1. k \in 1 .. N /\ k - 1 \in 0 .. N
        BY <1>2, <3>2
      <4>2. f[k - 1] \in D
        BY <2>1, <4>1
      <4> QED
        BY <1>4, <2>1, <3>2, <4>1, <4>2
    <3> QED
      BY <3>1, <3>2
  <2> QED
    BY <2>1, <2>2
<1>8. Is(g)
  <2> HIDE DEF Is
  <2> QED
    BY <1>7
<1> HIDE DEF g
<1>9. g[0] = rows /\ \A n \in 1 .. N : g[n] = EditRows(g[n - 1], ops[n])
  <2>1. \A n \in 0 .. N : g[n] = IF n = 0 THEN rows ELSE EditRows(g[n - 1], ops[n])
    BY <1>8
  <2>2. 0 \in 0 .. N /\ \A n \in 1 .. N : n \in 0 .. N /\ n # 0
    BY <1>2
  <2> QED
    BY <2>1, <2>2
<1> HIDE DEF Is
<1> DEFINE P == {k \in 0 .. N : g[k] \in D}
<1>11. 0 \in P
  BY <1>2, <1>5, <1>9
<1>12. ASSUME NEW k \in 0 .. N - 1, k \in P PROVE k + 1 \in P
  <2>1. k + 1 \in 1 .. N /\ k + 1 \in 0 .. N /\ (k + 1) - 1 = k
    BY <1>2
  <2>2. g[k + 1] = EditRows(g[k], ops[k + 1]) /\ g[k] \in D
    BY <1>9, <1>12, <2>1
  <2> QED
    BY <1>10, <2>1, <2>2
<1> HIDE DEF P
<1>13. \A k \in 0 .. N : k \in P
  BY <1>2, <1>11, <1>12, BoundedInduction, Zenon
<1>14. N \in P
  BY <1>2, <1>13
<1> QED
  BY <1>1, <1>14 DEF P, D

LEMMA OperationsOf ==
  ASSUME NEW ops \in Seq(Operations)
  PROVE  /\ TablesOf(ops) \in SUBSET Tables /\ IsFiniteSet(TablesOf(ops))
         /\ \A tb : OpsOn(ops, tb) \in Seq(Operations)
<1>1. TablesOf(ops) \in SUBSET Tables
  <2>1. ASSUME NEW i \in DOMAIN ops PROVE ops[i].table \in Tables
    <3>1. ops[i] \in Operations
      OBVIOUS
    <3> QED
      BY <3>1 DEF Operations
  <2> QED
    BY <2>1 DEF TablesOf
<1>2. IsFiniteSet(TablesOf(ops))
  BY <1>1, TablesAssumption, FS_Subset
<1>3. ASSUME NEW tb PROVE OpsOn(ops, tb) \in Seq(Operations)
  <2> DEFINE S == {i \in DOMAIN ops : ops[i].table = tb}
  <2>1. S \in SUBSET DOMAIN ops
    OBVIOUS
  <2>2. OpsOn(ops, tb) = PickAt(ops, S)
    BY DEF OpsOn
  <2> HIDE DEF S
  <2> QED
    BY <2>1, <2>2, PickAtIs
<1> QED
  BY <1>1, <1>2, <1>3

Heaps == [Tables -> Seq(Rows)]

LEMMA HeapAfterType ==
  ASSUME NEW h \in Heaps, NEW op \in Operations
  PROVE  /\ HeapAfter(h, op) \in Heaps
         /\ \A tb \in Tables : tb # op.table => HeapAfter(h, op)[tb] = h[tb]
<1>1. op.table \in Tables
  BY DEF Operations
<1>2. h[op.table] \in Seq(Rows)
  BY <1>1 DEF Heaps
<1>3. EditRows(h[op.table], op) \in Seq(Rows)
  BY <1>2, EditRowsType
<1>4. HeapAfter(h, op) = [h EXCEPT ![op.table] = EditRows(h[op.table], op)]
  BY DEF HeapAfter
<1> QED
  BY <1>1, <1>3, <1>4 DEF Heaps

LEMMA HeapAfterAllType ==
  ASSUME NEW h \in Heaps, NEW ops \in Seq(Operations)
  PROVE  /\ HeapAfterAll(h, ops) \in Heaps
         /\ \A tb \in Tables \ TablesOf(ops) : HeapAfterAll(h, ops)[tb] = h[tb]
<1> DEFINE N == Len(ops)
           D == Heaps
           Is(f) == f = [n \in 0 .. N |-> IF n = 0 THEN h ELSE HeapAfter(f[n - 1], ops[n])]
           g == CHOOSE f : Is(f)
           F == [a \in D \X (1 .. N) |-> HeapAfter(a[1], ops[a[2]])]
<1>1. HeapAfterAll(h, ops) = g[N]
  BY DEF HeapAfterAll
<1>2. N \in Nat /\ \A k \in 1 .. N : ops[k] \in Operations
  OBVIOUS
<1>15. \A k \in 1 .. N : ops[k].table \in TablesOf(ops)
  BY DEF TablesOf
<1>3. F \in [D \X (1 .. N) -> D]
  <2>1. ASSUME NEW a \in D \X (1 .. N) PROVE HeapAfter(a[1], ops[a[2]]) \in D
    <3>1. a[1] \in Heaps /\ ops[a[2]] \in Operations
      BY <1>2
    <3> QED
      BY <3>1, HeapAfterType
  <2> QED
    BY <2>1
<1>4. \A x \in D, k \in 1 .. N : F[<<x, k>>] = HeapAfter(x, ops[k])
  OBVIOUS
<1>5. h \in D
  OBVIOUS
<1>10. \A x \in D, k \in 1 .. N :
          /\ HeapAfter(x, ops[k]) \in D
          /\ \A tb \in Tables \ TablesOf(ops) : HeapAfter(x, ops[k])[tb] = x[tb]
  <2> SUFFICES ASSUME NEW x \in D, NEW k \in 1 .. N
               PROVE  /\ HeapAfter(x, ops[k]) \in D
                      /\ \A tb \in Tables \ TablesOf(ops) : HeapAfter(x, ops[k])[tb] = x[tb]
    OBVIOUS
  <2>1. ops[k] \in Operations /\ ops[k].table \in TablesOf(ops)
    BY <1>2, <1>15
  <2> QED
    BY <2>1, HeapAfterType
<1> HIDE DEF F, D, N
<1>6. PICK f : Recurs(f, N, D, h, F)
  BY <1>2, <1>3, <1>5, Recursion
<1>7. Is(f)
  <2>1. f \in [0 .. N -> D] /\ f[0] = h /\ \A k \in 1 .. N : f[k] = F[<<f[k - 1], k>>]
    BY <1>6 DEF Recurs
  <2>2. ASSUME NEW k \in 0 .. N PROVE f[k] = IF k = 0 THEN h ELSE HeapAfter(f[k - 1], ops[k])
    <3>1. CASE k = 0
      BY <2>1, <3>1
    <3>2. CASE k # 0
      <4>1. k \in 1 .. N /\ k - 1 \in 0 .. N
        BY <1>2, <3>2
      <4>2. f[k - 1] \in D
        BY <2>1, <4>1
      <4> QED
        BY <1>4, <2>1, <3>2, <4>1, <4>2
    <3> QED
      BY <3>1, <3>2
  <2> QED
    BY <2>1, <2>2
<1>8. Is(g)
  <2> HIDE DEF Is
  <2> QED
    BY <1>7
<1> HIDE DEF g
<1>9. g[0] = h /\ \A n \in 1 .. N : g[n] = HeapAfter(g[n - 1], ops[n])
  <2>1. \A n \in 0 .. N : g[n] = IF n = 0 THEN h ELSE HeapAfter(g[n - 1], ops[n])
    BY <1>8
  <2>2. 0 \in 0 .. N /\ \A n \in 1 .. N : n \in 0 .. N /\ n # 0
    BY <1>2
  <2> QED
    BY <2>1, <2>2
<1> HIDE DEF Is
<1> DEFINE P == {k \in 0 .. N : g[k] \in D /\ \A tb \in Tables \ TablesOf(ops) : g[k][tb] = h[tb]}
<1>11. 0 \in P
  BY <1>2, <1>5, <1>9
<1>12. ASSUME NEW k \in 0 .. N - 1, k \in P PROVE k + 1 \in P
  <2>1. k + 1 \in 1 .. N /\ k + 1 \in 0 .. N /\ (k + 1) - 1 = k
    BY <1>2
  <2>2. /\ g[k + 1] = HeapAfter(g[k], ops[k + 1]) /\ g[k] \in D
        /\ \A tb \in Tables \ TablesOf(ops) : g[k][tb] = h[tb]
    BY <1>9, <1>12, <2>1
  <2>3. /\ g[k + 1] \in D
        /\ \A tb \in Tables \ TablesOf(ops) : g[k + 1][tb] = h[tb]
    BY <1>10, <2>1, <2>2
  <2> QED
    BY <2>1, <2>3
<1> HIDE DEF P
<1>13. \A k \in 0 .. N : k \in P
  BY <1>2, <1>11, <1>12, BoundedInduction, Zenon
<1>14. N \in P
  BY <1>2, <1>13
<1> QED
  BY <1>1, <1>14 DEF P, D

\* Whatever the first sequence has and every further one keeps when appended,
\* the whole has.
LEMMA FlattenBy ==
  ASSUME NEW U, NEW seqs \in Seq(Seq(U)),
         NEW S \in [0 .. Len(seqs) -> SUBSET Seq(U)], << >> \in S[0],
         \A k \in 1 .. Len(seqs) : \A x \in S[k - 1] : x \o seqs[k] \in S[k]
  PROVE  FlattenSeq(seqs) \in S[Len(seqs)]
<1> DEFINE N == Len(seqs)
           D == Seq(U)
           Is(f) == f = [i \in 1 .. N |-> IF i = 1 THEN seqs[i] ELSE f[i - 1] \o seqs[i]]
           g == CHOOSE f : Is(f)
           F == [a \in D \X (1 .. N) |-> a[1] \o seqs[a[2]]]
<1>1. FlattenSeq(seqs) = IF N = 0 THEN seqs ELSE g[N]
  BY DEF FlattenSeq
<1>2. N \in Nat /\ \A k \in 1 .. N : seqs[k] \in D
  OBVIOUS
<1>3. F \in [D \X (1 .. N) -> D]
  <2>1. ASSUME NEW a \in D \X (1 .. N) PROVE a[1] \o seqs[a[2]] \in D
    <3>1. a[1] \in Seq(U) /\ seqs[a[2]] \in Seq(U)
      BY <1>2
    <3> QED
      BY <3>1
  <2> QED
    BY <2>1
<1>4. \A x \in D, k \in 1 .. N : F[<<x, k>>] = x \o seqs[k]
  OBVIOUS
<1>5. << >> \in D /\ \A x \in D : << >> \o x = x
  OBVIOUS
<1>15. N = 0 => seqs = << >>
  OBVIOUS
<1>16. S \in [0 .. N -> SUBSET D] /\ << >> \in S[0]
       /\ \A k \in 1 .. N : \A x \in S[k - 1] : x \o seqs[k] \in S[k]
  OBVIOUS
<1> HIDE DEF F, D, N
<1>6. PICK e : Recurs(e, N, D, << >>, F)
  BY <1>2, <1>3, <1>5, Recursion
<1> DEFINE f == [i \in 1 .. N |-> e[i]]
<1>7. Is(f)
  <2>1. e \in [0 .. N -> D] /\ e[0] = << >> /\ \A k \in 1 .. N : e[k] = F[<<e[k - 1], k>>]
    BY <1>6 DEF Recurs
  <2>2. ASSUME NEW k \in 1 .. N PROVE f[k] = IF k = 1 THEN seqs[k] ELSE f[k - 1] \o seqs[k]
    <3>1. k - 1 \in 0 .. N /\ e[k - 1] \in D
      BY <1>2, <2>1
    <3>2. f[k] = e[k - 1] \o seqs[k]
      BY <1>4, <2>1, <3>1
    <3>3. CASE k = 1
      <4>1. e[k - 1] = << >>
        BY <2>1, <3>3
      <4> QED
        BY <1>2, <1>5, <3>2, <3>3, <4>1
    <3>4. CASE k # 1
      <4>1. k - 1 \in 1 .. N
        BY <1>2, <3>4
      <4> QED
        BY <3>2, <3>4, <4>1
    <3> QED
      BY <3>3, <3>4
  <2>3. f = [k \in 1 .. N |-> f[k]]
    OBVIOUS
  <2> HIDE DEF f
  <2> QED
    BY <2>2, <2>3
<1> HIDE DEF f
<1>8. Is(g)
  <2> HIDE DEF Is
  <2> QED
    BY <1>7
<1> HIDE DEF g
<1>9. \A n \in 1 .. N : g[n] = IF n = 1 THEN seqs[n] ELSE g[n - 1] \o seqs[n]
  BY <1>8
<1> HIDE DEF Is
<1> DEFINE P == {k \in 0 .. N : k # 0 => g[k] \in S[k]}
<1>11. 0 \in P
  BY <1>2
<1>12. ASSUME NEW k \in 0 .. N - 1, k \in P PROVE k + 1 \in P
  <2>1. k + 1 \in 1 .. N /\ k + 1 \in 0 .. N /\ (k + 1) - 1 = k /\ k \in 0 .. N
    BY <1>2
  <2>2. \A x \in S[k] : x \o seqs[k + 1] \in S[k + 1]
    BY <1>16, <2>1
  <2>3. seqs[k + 1] \in D
    BY <1>2, <2>1
  <2>4. CASE k = 0
    <3>1. g[k + 1] = seqs[k + 1]
      BY <1>9, <2>1, <2>4
    <3>2. << >> \o seqs[k + 1] = seqs[k + 1]
      BY <1>5, <2>3
    <3>3. << >> \o seqs[k + 1] \in S[k + 1]
      BY <1>16, <2>2, <2>4
    <3> QED
      BY <2>1, <3>1, <3>2, <3>3
  <2>5. CASE k # 0
    <3>1. g[k + 1] = g[k] \o seqs[k + 1] /\ g[k] \in S[k]
      <4>1. k + 1 # 1
        BY <2>1, <2>5
      <4>2. g[k] \in S[k]
        BY <1>12, <2>5
      <4> QED
        BY <1>9, <2>1, <4>1, <4>2
    <3> QED
      BY <2>1, <2>2, <3>1
  <2> QED
    BY <2>4, <2>5
<1> HIDE DEF P
<1>13. \A k \in 0 .. N : k \in P
  BY <1>2, <1>11, <1>12, BoundedInduction, Zenon
<1>14. N \in P /\ S[N] = S[Len(seqs)]
  BY <1>2, <1>13 DEF N
<1> QED
  BY <1>1, <1>14, <1>15, <1>16 DEF P

LEMMA FlattenType ==
  ASSUME NEW U, NEW seqs \in Seq(Seq(U))
  PROVE  FlattenSeq(seqs) \in Seq(U)
<1> DEFINE D == Seq(U)
           S == [k \in 0 .. Len(seqs) |-> D]
<1>1. /\ Len(seqs) \in Nat /\ \A k \in 1 .. Len(seqs) : seqs[k] \in D
      /\ << >> \in D /\ \A x, y \in D : x \o y \in D
  OBVIOUS
<1> HIDE DEF D
<1>2. S \in [0 .. Len(seqs) -> SUBSET D] /\ << >> \in S[0] /\ \A k \in 0 .. Len(seqs) : S[k] = D
  BY <1>1
<1>3. \A k \in 1 .. Len(seqs) : k \in 0 .. Len(seqs) /\ k - 1 \in 0 .. Len(seqs)
  BY <1>1
<1> HIDE DEF S
<1>4. \A k \in 1 .. Len(seqs) : \A x \in S[k - 1] : x \o seqs[k] \in S[k]
  BY <1>1, <1>2, <1>3
<1>5. FlattenSeq(seqs) \in S[Len(seqs)]
  BY <1>2, <1>4, FlattenBy DEF D
<1>6. Len(seqs) \in 0 .. Len(seqs)
  BY <1>1
<1> QED
  BY <1>2, <1>5, <1>6 DEF D

(***************************************************************************)
(* Plans.                                                                  *)
(***************************************************************************)

Wishes == [id : Nat, row : Rows]

\* A plan is about rows of the snapshot, and rows to come.
PlanOK(plan, h, snapshot) ==
    /\ plan.wanted \in Seq(Wishes)
    /\ \A i \in DOMAIN plan.wanted : /\ plan.wanted[i].row \in Rows
                                     /\ plan.wanted[i].id \in VisibleIds(h, snapshot) \cup {0}
    /\ plan.removed \in SUBSET VisibleIds(h, snapshot)

LEMMA PlanTableIs ==
  ASSUME NEW h, NEW at \in Nat, NEW n \in Nat, HistoryOK(h, at, n), NEW snapshot \in Nat,
         NEW ops \in Seq(Operations)
  PROVE  PlanOK(PlanTable(h, snapshot, ops), h, snapshot)
<1> DEFINE old == Visible(h, snapshot)
           final == EditAll(RowsOf(old), ops)
           m == MatchRows(RowsOf(old), final)
           plan == PlanOver(old, final, m)
           V == VisibleIds(h, snapshot)
           S == {p \in DOMAIN old : MatchedBy(m, p) = 0 /\ old[p].version.row.id = NoId}
           spare == Ascending(S)
           needy == Ascending({i \in DOMAIN final : m[i] = 0 /\ final[i].id = NoId})
           lent(i) == SelectInSeq(needy, LAMBDA j : j = i)
           rowId(i) == IF m[i] # 0 THEN old[m[i]].id
                       ELSE IF lent(i) \in DOMAIN spare THEN old[spare[lent(i)]].id ELSE 0
           wanted == [i \in DOMAIN final |-> [id |-> rowId(i), row |-> final[i]]]
<1>1. PlanTable(h, snapshot, ops) = plan
  BY DEF PlanTable
<1>2. /\ plan.wanted = wanted
      /\ plan.removed = {old[p].id : p \in DOMAIN old} \ {rowId(i) : i \in DOMAIN final}
  BY DEF PlanOver
<1>3. RowsOf(old) \in Seq(Rows) /\ DOMAIN RowsOf(old) = DOMAIN old
  BY VisibleRowsType DEF VisibleRows
<1>4. final \in Seq(Rows)
  BY <1>3, EditAllType
<1>5. Matching(m, RowsOf(old), Len(final))
  <2> HIDE DEF final
  <2> QED
    BY <1>3, <1>4, MatchRowsIs
<1>6. \A p \in DOMAIN old : old[p].id \in V
  BY VisibleEntries
<1>7. DOMAIN old = 1 .. Len(VisibleInOrder(h, snapshot)) /\ Len(VisibleInOrder(h, snapshot)) \in Nat
  BY VisibleEntries
<1>8. V \in SUBSET Nat
  BY VisibleIs
<1>9. \A k \in DOMAIN spare : spare[k] \in DOMAIN old
  <2>1. S \in SUBSET DOMAIN old
    OBVIOUS
  <2> HIDE DEF S, old
  <2>2. S \in SUBSET Int /\ S \in SUBSET Nat /\ \A x \in S : x <= Len(VisibleInOrder(h, snapshot))
    BY <1>7, <2>1
  <2>3. IsFiniteSet(S)
    BY <1>7, <2>2, FS_BoundedSetOfNaturals
  <2>4. spare \in Seq(S)
    BY <2>2, <2>3, AscendingIs
  <2> HIDE DEF spare
  <2> QED
    BY <2>1, <2>4
<1> HIDE DEF V, old, final, m, plan, spare, needy
<1>10. DOMAIN final = 1 .. Len(final) /\ Len(final) \in Nat /\ \A i \in DOMAIN final : final[i] \in Rows
  BY <1>4
<1>11. \A i \in DOMAIN final : m[i] = 0 \/ m[i] \in DOMAIN old
  BY <1>3, <1>5, <1>10 DEF Matching
<1> HIDE DEF lent
<1>12. \A i \in DOMAIN final : rowId(i) \in V \cup {0}
  BY <1>6, <1>9, <1>11
<1> HIDE DEF rowId
<1>13. \A i \in DOMAIN final : rowId(i) \in Nat
  <2>1. V \cup {0} \in SUBSET Nat
    BY <1>8
  <2> QED
    BY <1>12, <2>1
<1>14. /\ DOMAIN wanted = DOMAIN final
       /\ \A i \in DOMAIN final : wanted[i].id = rowId(i) /\ wanted[i].row = final[i]
                                  /\ wanted[i] \in Wishes
  BY <1>10, <1>13 DEF Wishes
<1>15. wanted \in Seq(Wishes)
  <2>1. wanted = [i \in 1 .. Len(final) |-> wanted[i]]
    BY <1>10
  <2> HIDE DEF wanted
  <2> QED
    BY <1>10, <1>14, <2>1
<1> HIDE DEF wanted
<1>16. plan.removed \in SUBSET V
  BY <1>2, <1>6
<1>17. PlanOK(plan, h, snapshot)
  BY <1>2, <1>10, <1>12, <1>14, <1>15, <1>16 DEF PlanOK, V
<1> QED
  BY <1>1, <1>17

LEMMA MergeTableIs ==
  ASSUME NEW h, NEW at \in Nat, NEW n \in Nat, HistoryOK(h, at, n), NEW snapshot \in Nat,
         NEW csn \in Nat, NEW ops \in Seq(Operations), NEW tb \in Tables
  PROVE  MergeTable(h, tb, snapshot, csn, ops) \in Seq({op \in Operations : op.table = tb})
<1> DEFINE Q == {op \in Operations : op.table = tb}
           plan == PlanTable(h, snapshot, ops)
           altered == Altered(h, snapshot, plan)
           current == Visible(h, csn)
           removed == (plan.removed \cup {plan.wanted[i].id : i \in altered}) \ {0}
           wishes == [i \in DOMAIN plan.wanted |-> plan.wanted[i].row]
           appended == PickAt(wishes, altered)
<1>1. MergeTable(h, tb, snapshot, csn, ops) = MergeOver(tb, current, removed, appended)
  BY DEF MergeTable
<1>2. PlanOK(plan, h, snapshot)
  BY PlanTableIs
<1>3. altered \in SUBSET DOMAIN plan.wanted
  BY DEF Altered
<1> HIDE DEF plan, altered
<1>4. wishes \in Seq(Rows) /\ DOMAIN wishes = DOMAIN plan.wanted
  <2>1. /\ plan.wanted \in Seq(Wishes)
        /\ \A i \in DOMAIN plan.wanted : plan.wanted[i].row \in Rows
    BY <1>2 DEF PlanOK
  <2>2. DOMAIN plan.wanted = 1 .. Len(plan.wanted) /\ Len(plan.wanted) \in Nat
    BY <2>1
  <2> QED
    BY <2>1, <2>2
<1> HIDE DEF wishes
<1>5. appended \in Seq(Rows)
  BY <1>3, <1>4, PickAtIs
<1>6. RowsOf(current) \in Seq(Rows) /\ DOMAIN RowsOf(current) = DOMAIN current
  BY VisibleRowsType DEF VisibleRows
<1>7. \A p \in DOMAIN current : current[p].version.row.id \in Nat
  <2>1. \A p \in DOMAIN current : /\ current[p].id \in VisibleIds(h, csn)
                                  /\ current[p].version = VersionAt(h.rows[current[p].id], csn)
    BY VisibleEntries
  <2>2. \A r \in VisibleIds(h, csn) : VersionAt(h.rows[r], csn) \in Versions
    BY VisibleIs
  <2> HIDE DEF current
  <2> QED
    BY <2>1, <2>2 DEF Versions, Rows
<1> HIDE DEF appended, current, removed
<1> DEFINE row(p) == current[p].version.row
           victims == {p \in DOMAIN current : current[p].id \in removed}
           others  == DOMAIN current \ victims
           keyed   == /\ \A p \in victims : row(p).id # NoId
                      /\ \A p \in victims, q \in DOMAIN current :
                            p # q => row(p).id # row(q).id
           Op(kind, r, i) == [kind |-> kind, table |-> tb, rows |-> r, ids |-> i]
           D == Op("delete", << >>, {row(p).id : p \in victims})
           U == Op("upsert", appended, {})
           R == Op("replace", PickAt(RowsOf(current), others) \o appended, {})
<1>8. MergeOver(tb, current, removed, appended) =
        IF removed = {} /\ appended = << >> THEN << >>
        ELSE IF keyed
        THEN (IF victims = {} THEN << >> ELSE <<D>>) \o (IF appended = << >> THEN << >> ELSE <<U>>)
        ELSE <<R>>
  BY DEF MergeOver
<1>9. D \in Q
  <2>1. {row(p).id : p \in victims} \in SUBSET Nat
    BY <1>7
  <2>2. << >> \in Seq(Rows)
    OBVIOUS
  <2> QED
    BY <2>1, <2>2 DEF Operations
<1>10. U \in Q
  BY <1>5 DEF Operations
<1>11. R \in Q
  <2>1. others \in SUBSET DOMAIN RowsOf(current)
    BY <1>6
  <2> HIDE DEF others
  <2>2. PickAt(RowsOf(current), others) \in Seq(Rows)
    BY <1>6, <2>1, PickAtIs
  <2>3. PickAt(RowsOf(current), others) \o appended \in Seq(Rows)
    BY <1>5, <2>2
  <2> QED
    BY <2>3 DEF Operations
<1> HIDE DEF D, U, R, Q, keyed, victims
<1>12. <<D>> \in Seq(Q) /\ <<U>> \in Seq(Q) /\ <<R>> \in Seq(Q) /\ << >> \in Seq(Q)
  BY <1>9, <1>10, <1>11
<1>13. \A x, y \in Seq(Q) : x \o y \in Seq(Q)
  OBVIOUS
<1>14. MergeOver(tb, current, removed, appended) \in Seq(Q)
  BY <1>8, <1>12, <1>13
<1> QED
  BY <1>1, <1>14 DEF Q

LEMMA MergedOpsIs ==
  ASSUME NEW t, txs[t].plan \in Seq(Operations), txs[t].snapshot \in Nat,
         durable.csn \in Nat, durable.next_row \in Nat,
         TablesOK(durable.tables, durable.csn, durable.next_row),
         TablesOf(txs[t].plan) \subseteq DOMAIN durable.tables
  PROVE  /\ MergedOps(t) \in Seq(Operations)
         /\ TablesOf(MergedOps(t)) \subseteq TablesOf(txs[t].plan)
<1> DEFINE plan == txs[t].plan
           T == TablesOf(plan)
           tables == Ascending(T)
           merged(tb) == MergeTable(durable.tables[tb], tb, txs[t].snapshot,
                                    durable.csn, OpsOn(plan, tb))
           seqs == [i \in DOMAIN tables |-> merged(tables[i])]
           Q == {op \in Operations : op.table \in T}
<1>1. MergedOps(t) = FlattenSeq(seqs)
  BY DEF MergedOps
<1>2. T \in SUBSET Tables /\ IsFiniteSet(T) /\ \A tb : OpsOn(plan, tb) \in Seq(Operations)
  BY OperationsOf
<1>3. T \in SUBSET Int
  <2> HIDE DEF T
  <2>1. Tables \in SUBSET Nat /\ Nat \in SUBSET Int
    BY TablesAssumption
  <2> QED
    BY <1>2, <2>1
<1>4. tables \in Seq(T)
  <2> HIDE DEF T
  <2> QED
    BY <1>2, <1>3, AscendingIs
<1>5. ASSUME NEW tb \in T PROVE merged(tb) \in Seq(Q)
  <2>1. HistoryOK(durable.tables[tb], durable.csn, durable.next_row)
    BY DEF TablesOK
  <2>2. tb \in Tables /\ OpsOn(plan, tb) \in Seq(Operations)
    BY <1>2
  <2> HIDE DEF plan
  <2>3. merged(tb) \in Seq({op \in Operations : op.table = tb})
    BY <2>1, <2>2, MergeTableIs
  <2>4. {op \in Operations : op.table = tb} \subseteq Q
    OBVIOUS
  <2> HIDE DEF merged, Q
  <2> QED
    BY <2>3, <2>4
<1> HIDE DEF merged, tables, T, Q
<1>6. DOMAIN tables = 1 .. Len(tables) /\ Len(tables) \in Nat /\ \A i \in DOMAIN tables : tables[i] \in T
  BY <1>4
<1>7. seqs \in Seq(Seq(Q))
  BY <1>5, <1>6
<1> HIDE DEF seqs
<1>8. MergedOps(t) \in Seq(Q)
  BY <1>1, <1>7, FlattenType
<1>9. Q \subseteq Operations /\ \A op \in Q : op.table \in T
  BY DEF Q
<1>10. MergedOps(t) \in Seq(Operations)
  BY <1>8, <1>9
<1>11. TablesOf(MergedOps(t)) \subseteq T
  <2> DEFINE ops == MergedOps(t)
  <2> HIDE DEF ops
  <2>1. ops \in Seq(Q)
    BY <1>8 DEF ops
  <2>2. \A i \in DOMAIN ops : ops[i] \in Q
    BY <2>1
  <2>3. TablesOf(ops) \subseteq T
    BY <1>9, <2>2 DEF TablesOf
  <2> QED
    BY <2>3 DEF ops
<1> QED
  BY <1>10, <1>11 DEF T

LEMMA WantedIs ==
  ASSUME NEW t, txs[t].snapshot \in Nat, NEW ops \in Seq(Operations),
         durable.csn \in Nat, durable.next_row \in Nat,
         TablesOK(durable.tables, durable.csn, durable.next_row),
         TablesOf(ops) \subseteq DOMAIN durable.tables
  PROVE  Wanted(t, ops) \in SUBSET LockKeys
<1> DEFINE snapshot == txs[t].snapshot
           h(tb)       == durable.tables[tb]
           plan(tb)    == PlanTable(h(tb), snapshot, OpsOn(ops, tb))
           altered(tb) == Altered(h(tb), snapshot, plan(tb))
           touched(tb) == (plan(tb).removed \cup {plan(tb).wanted[i].id : i \in altered(tb)}) \ {0}
           rows(tb)    == {RowOf(h(tb), snapshot, r) : r \in touched(tb)}
                          \cup {plan(tb).wanted[i].row : i \in altered(tb)}
           keys(tb)    == {TableKey(tb)} \cup {RowKey(tb, r) : r \in touched(tb)}
                          \cup UNION {UniqueKeys(tb, row) : row \in rows(tb)}
<1>1. Wanted(t, ops) = UNION {keys(tb) : tb \in TablesOf(ops)}
  BY DEF Wanted
<1>2. ASSUME NEW tb \in TablesOf(ops) PROVE keys(tb) \in SUBSET LockKeys
  <2>1. tb \in Tables /\ OpsOn(ops, tb) \in Seq(Operations) /\ tb \in DOMAIN durable.tables
    BY OperationsOf
  <2>2. HistoryOK(h(tb), durable.csn, durable.next_row)
    BY <2>1 DEF TablesOK
  <2>3. PlanOK(plan(tb), h(tb), snapshot)
    BY <2>1, <2>2, PlanTableIs
  <2>4. altered(tb) \in SUBSET DOMAIN plan(tb).wanted
    BY DEF Altered
  <2> HIDE DEF plan, altered
  <2>5. touched(tb) \in SUBSET VisibleIds(h(tb), snapshot)
    BY <2>3, <2>4 DEF PlanOK
  <2>6. /\ VisibleIds(h(tb), snapshot) \in SUBSET Nat
        /\ \A r \in VisibleIds(h(tb), snapshot) : VersionAt(h(tb).rows[r], snapshot) \in Versions
    BY <2>2, VisibleIs
  <2> HIDE DEF touched
  <2>7. \A r \in touched(tb) : r \in Nat /\ RowOf(h(tb), snapshot, r) \in Rows
    <3> SUFFICES ASSUME NEW r \in touched(tb) PROVE r \in Nat /\ RowOf(h(tb), snapshot, r) \in Rows
      OBVIOUS
    <3>1. VersionAt(h(tb).rows[r], snapshot) \in Versions /\ r \in Nat
      BY <2>5, <2>6
    <3>2. \A v \in Versions : v.row \in Rows
      BY DEF Versions
    <3> QED
      BY <3>1, <3>2 DEF RowOf
  <2>8. \A i \in altered(tb) : plan(tb).wanted[i].row \in Rows
    BY <2>3, <2>4 DEF PlanOK
  <2>9. rows(tb) \in SUBSET Rows
    BY <2>7, <2>8
  <2> HIDE DEF rows
  <2>10. TableKey(tb) \in LockKeys /\ \A r \in touched(tb) : RowKey(tb, r) \in LockKeys
    BY <2>1, <2>7 DEF TableKey, RowKey, LockKeys
  <2>11. \A row \in Rows : UniqueKeys(tb, row) \in SUBSET LockKeys
    <3> SUFFICES ASSUME NEW row \in Rows PROVE UniqueKeys(tb, row) \in SUBSET LockKeys
      OBVIOUS
    <3>1. row.id \in Nat /\ row.val \in Nat
      BY DEF Rows
    <3>2. <<3, tb, 1, row.id>> \in LockKeys /\ <<3, tb, 2, row.val>> \in LockKeys
      BY <2>1, <3>1 DEF LockKeys
    <3> QED
      BY <3>2 DEF UniqueKeys
  <2> QED
    BY <2>9, <2>10, <2>11
<1> HIDE DEF keys
<1> QED
  BY <1>1, <1>2

(***************************************************************************)
(* Updates of the transaction map and of the requests.                     *)
(***************************************************************************)

TxMaps == [Tx -> Transactions]
ReqMaps == [Tx -> Requests]

\* Nothing but the locks of a transaction differs.
SameWork(a, b) ==
    /\ a.snapshot = b.snapshot /\ a.schemas = b.schemas /\ a.serializable = b.serializable
    /\ a.reads = b.reads /\ a.plan = b.plan

LEMMA TxFields ==
  ASSUME NEW r \in Transactions
  PROVE  /\ r.status \in Statuses /\ r.snapshot \in Nat /\ r.schemas \in [Tables -> Nat]
         /\ r.serializable \in BOOLEAN /\ r.reads \in SUBSET Tables
         /\ r.held \in SUBSET LockKeys /\ r.waiting \in SUBSET Tx
         /\ r.plan \in Plans \cup {<< >>} /\ r.plan \in Seq(Operations)
<1>1. /\ r.status \in Statuses /\ r.snapshot \in Nat /\ r.schemas \in [Tables -> Nat]
      /\ r.serializable \in BOOLEAN /\ r.reads \in SUBSET Tables
      /\ r.held \in SUBSET LockKeys /\ r.waiting \in SUBSET Tx
      /\ r.plan \in Plans \cup {<< >>}
  BY DEF Transactions
<1>2. << >> \in Seq(Operations)
  OBVIOUS
<1>3. r.plan \in Seq(Operations)
  BY <1>1, <1>2, RowsAssumption
<1> QED
  BY <1>1, <1>3

LEMMA ReqFields ==
  ASSUME NEW r \in Requests
  PROVE  /\ r.pc \in {"idle", "asleep", "failed"} /\ r.ops \in Plans \cup {<< >>}
         /\ r.wanted \in SUBSET LockKeys /\ r.notified \in BOOLEAN
BY DEF Requests

LEMMA NoTxType ==
  /\ NoTx \in Transactions /\ NoTx.status = "none" /\ NoTx.snapshot = 0
  /\ NoTx.held = {} /\ NoTx.waiting = {} /\ NoTx.plan = << >>
  /\ Ended \in Transactions /\ Ended.status = "ended" /\ Ended.snapshot = 0
  /\ Ended.held = {} /\ Ended.waiting = {} /\ Ended.plan = << >>
<1>1. [tb \in Tables |-> Absent] \in [Tables -> Nat]
  BY DEF Absent
<1> QED
  BY <1>1 DEF NoTx, Ended, Transactions, Statuses

LEMMA IdleReqType ==
  /\ IdleReq \in Requests /\ IdleReq.pc = "idle" /\ IdleReq.wanted = {} /\ IdleReq.notified = FALSE
  /\ \A p \in {"idle", "failed"} :
        LET r == [IdleReq EXCEPT !.pc = p]
        IN  r \in Requests /\ r.pc = p /\ r.wanted = {} /\ r.notified = FALSE
BY DEF IdleReq, Requests

LEMMA TakeRecord ==
  ASSUME NEW r \in Transactions, NEW h \in SUBSET LockKeys
  PROVE  LET q == [r EXCEPT !.held = h, !.waiting = {}]
         IN  /\ q \in Transactions /\ q.status = r.status /\ SameWork(q, r)
             /\ q.held = h /\ q.waiting = {}
BY DEF Transactions, SameWork

LEMMA WaitRecord ==
  ASSUME NEW r \in Transactions, NEW w \in SUBSET Tx
  PROVE  LET q == [r EXCEPT !.waiting = w]
         IN  /\ q \in Transactions /\ q.status = r.status /\ SameWork(q, r)
             /\ q.held = r.held /\ q.waiting = w
BY DEF Transactions, SameWork

\* M is T with the keys `got` given to t, which waits for w.
Taken(M, T, t, got, w) ==
    /\ M \in TxMaps /\ \A o \in Tx : o # t => M[o] = T[o]
    /\ M[t].status = T[t].status /\ SameWork(M[t], T[t])
    /\ M[t].held = T[t].held \cup got /\ M[t].waiting = w

LEMMA TakeIs ==
  ASSUME NEW T \in TxMaps, NEW t \in Tx, NEW got \in SUBSET LockKeys, NEW w \in SUBSET Tx,
         NEW M, M = [Take(T, t, got) EXCEPT ![t].waiting = w]
  PROVE  Taken(M, T, t, got, w)
<1> DEFINE r == T[t]
           h == r.held \cup got
           u == [r EXCEPT !.held = h, !.waiting = {}]
           q == [u EXCEPT !.waiting = w]
<1>1. r \in Transactions
  BY DEF TxMaps
<1>2. h \in SUBSET LockKeys
  BY <1>1, TxFields
<1>3. M = [T EXCEPT ![t] = q]
  BY DEF Take, TxMaps
<1> HIDE DEF r, h
<1>4. u \in Transactions /\ u.status = r.status /\ SameWork(u, r) /\ u.held = h
  BY <1>1, <1>2, TakeRecord
<1> HIDE DEF u
<1>5. q \in Transactions /\ q.status = u.status /\ SameWork(q, u) /\ q.held = u.held /\ q.waiting = w
  BY <1>4, WaitRecord
<1> HIDE DEF q
<1>7. M \in TxMaps /\ M[t] = q /\ \A o \in Tx : o # t => M[o] = T[o]
  BY <1>3, <1>5 DEF TxMaps
<1>8. SameWork(q, r)
  BY <1>4, <1>5 DEF SameWork
<1> QED
  BY <1>4, <1>5, <1>7, <1>8 DEF r, h, Taken

LEMMA TakeClears ==
  ASSUME NEW T \in TxMaps, NEW t \in Tx, NEW got \in SUBSET LockKeys
  PROVE  Take(T, t, got) = [Take(T, t, got) EXCEPT ![t].waiting = {}]
<1>1. T[t] \in Transactions
  BY DEF TxMaps
<1>2. DOMAIN T[t] = {"status", "snapshot", "schemas", "serializable", "reads", "held", "waiting", "plan"}
  BY <1>1 DEF Transactions
<1>3. Take(T, t, got) = [T EXCEPT ![t] = [T[t] EXCEPT !.held = T[t].held \cup got, !.waiting = {}]]
  BY DEF Take, TxMaps
<1>4. [T[t] EXCEPT !.held = T[t].held \cup got, !.waiting = {}].waiting = {}
  BY <1>2
<1> DEFINE r == [T[t] EXCEPT !.held = T[t].held \cup got, !.waiting = {}]
<1>5. r = [r EXCEPT !.waiting = {}]
  <2>1. r.waiting = {} /\ r = [x \in DOMAIN r |-> r[x]]
    BY <1>4
  <2> HIDE DEF r
  <2> QED
    BY <2>1
<1> HIDE DEF r
<1>6. Take(T, t, got) = [T EXCEPT ![t] = r]
  BY <1>3 DEF r
<1>7. [T EXCEPT ![t] = r][t] = r
  BY DEF TxMaps
<1> DEFINE M == [T EXCEPT ![t] = r]
<1>8. M = [x \in DOMAIN M |-> M[x]] /\ M[t] = r
  BY <1>7
<1> HIDE DEF M
<1>9. M = [M EXCEPT ![t] = [M[t] EXCEPT !.waiting = {}]]
  BY <1>5, <1>8
<1> QED
  BY <1>6, <1>9 DEF M

\* M is T but for the work of t.
SameLocks(M, T, t) ==
    /\ M \in TxMaps /\ \A o \in Tx : o # t => M[o] = T[o]
    /\ M[t].status = T[t].status /\ M[t].snapshot = T[t].snapshot
    /\ M[t].held = T[t].held /\ M[t].waiting = T[t].waiting

LEMMA PlannedIs ==
  ASSUME NEW T \in TxMaps, NEW t \in Tx, NEW ops \in Plans \cup {<< >>},
         NEW M, M = [T EXCEPT ![t].plan = ops]
  PROVE  SameLocks(M, T, t)
<1>1. T[t] \in Transactions
  BY DEF TxMaps
<1> DEFINE r == T[t]
           q == [r EXCEPT !.plan = ops]
<1>2. M = [T EXCEPT ![t] = q]
  BY DEF TxMaps
<1>3. /\ q \in Transactions /\ q.status = r.status /\ q.snapshot = r.snapshot
      /\ q.held = r.held /\ q.waiting = r.waiting
  <2> HIDE DEF r
  <2> QED
    BY <1>1 DEF Transactions, r
<1> HIDE DEF q
<1>4. M \in TxMaps /\ M[t] = q /\ \A o \in Tx : o # t => M[o] = T[o]
  BY <1>2, <1>3 DEF TxMaps
<1> QED
  BY <1>3, <1>4 DEF SameLocks

LEMMA ReadsIs ==
  ASSUME NEW T \in TxMaps, NEW t \in Tx, NEW reads \in SUBSET Tables,
         NEW M, M = [T EXCEPT ![t].reads = reads]
  PROVE  SameLocks(M, T, t) /\ M[t].plan = T[t].plan
<1>1. T[t] \in Transactions
  BY DEF TxMaps
<1> DEFINE r == T[t]
           q == [r EXCEPT !.reads = reads]
<1>2. M = [T EXCEPT ![t] = q]
  BY DEF TxMaps
<1>3. /\ q \in Transactions /\ q.status = r.status /\ q.snapshot = r.snapshot
      /\ q.held = r.held /\ q.waiting = r.waiting /\ q.plan = r.plan
  <2> HIDE DEF r
  <2> QED
    BY <1>1 DEF Transactions, r
<1> HIDE DEF q
<1>4. M \in TxMaps /\ M[t] = q /\ \A o \in Tx : o # t => M[o] = T[o]
  BY <1>2, <1>3 DEF TxMaps
<1> QED
  BY <1>3, <1>4 DEF SameLocks

LEMMA DropEdgeIs ==
  ASSUME NEW r \in Transactions, NEW t
  PROVE  LET q == [r EXCEPT !.waiting = @ \ {t}]
         IN  /\ q \in Transactions /\ q.status = r.status /\ SameWork(q, r)
             /\ q.held = r.held /\ q.waiting = r.waiting \ {t}
BY DEF Transactions, SameWork

LEMMA AbortRecord ==
  ASSUME NEW r \in Transactions
  PROVE  LET q == [r EXCEPT !.status = "aborted", !.held = {}, !.waiting = {}]
         IN  /\ q \in Transactions /\ q.status = "aborted" /\ SameWork(q, r)
             /\ q.held = {} /\ q.waiting = {}
BY DEF Transactions, SameWork, Statuses

\* A is T after abort(t).
Aborts(A, T, t) ==
    /\ A \in TxMaps
    /\ \A o \in Tx : SameWork(A[o], T[o])
    /\ \A o \in Tx : o # t => /\ A[o].status = T[o].status /\ A[o].held = T[o].held
                              /\ A[o].waiting = T[o].waiting \ {t}
    /\ T[t].status \in {"active", "aborted"} =>
          A[t].status = "aborted" /\ A[t].held = {} /\ A[t].waiting = {}
    /\ T[t].status \notin {"active", "aborted"} =>
          /\ A[t].status = T[t].status
          /\ A[t].held = T[t].held /\ A[t].waiting = T[t].waiting \ {t}

LEMMA AbortIs ==
  ASSUME NEW T \in TxMaps, NEW t \in Tx
  PROVE  Aborts(Abort(T, t), T, t)
<1> DEFINE A(o) == [T[o] EXCEPT !.status = "aborted", !.held = {}, !.waiting = {}]
           B(o) == [T[o] EXCEPT !.waiting = @ \ {t}]
           M == Abort(T, t)
<1>1. M = [o \in Tx |-> IF o = t /\ T[o].status \in {"active", "aborted"} THEN A(o) ELSE B(o)]
  BY DEF Abort
<1>2. \A o \in Tx : T[o] \in Transactions
  BY DEF TxMaps
<1>3. \A o \in Tx : /\ A(o) \in Transactions /\ A(o).status = "aborted" /\ SameWork(A(o), T[o])
                    /\ A(o).held = {} /\ A(o).waiting = {}
  BY <1>2, AbortRecord
<1>4. \A o \in Tx : /\ B(o) \in Transactions /\ B(o).status = T[o].status /\ SameWork(B(o), T[o])
                    /\ B(o).held = T[o].held /\ B(o).waiting = T[o].waiting \ {t}
  BY <1>2, DropEdgeIs
<1> HIDE DEF A, B, M
<1>5. /\ \A o \in Tx : M[o] = IF o = t /\ T[o].status \in {"active", "aborted"} THEN A(o) ELSE B(o)
      /\ M \in TxMaps
  BY <1>1, <1>3, <1>4 DEF TxMaps
<1>6. \A o \in Tx : SameWork(M[o], T[o])
  BY <1>3, <1>4, <1>5
<1>7. \A o \in Tx : o # t => M[o].status = T[o].status /\ M[o].held = T[o].held
                             /\ M[o].waiting = T[o].waiting \ {t}
  BY <1>4, <1>5
<1>8. T[t].status \in {"active", "aborted"} =>
        M[t].status = "aborted" /\ M[t].held = {} /\ M[t].waiting = {}
  BY <1>3, <1>5
<1>9. T[t].status \notin {"active", "aborted"} =>
        /\ M[t].status = T[t].status
        /\ M[t].held = T[t].held /\ M[t].waiting = T[t].waiting \ {t}
  BY <1>4, <1>5
<1> QED
  BY <1>5, <1>6, <1>7, <1>8, <1>9 DEF M, Aborts

\* N is R after notify_all.
Notifies(N, R) ==
    /\ N \in ReqMaps
    /\ \A o \in Tx : /\ N[o].pc = R[o].pc /\ N[o].ops = R[o].ops
                     /\ N[o].wanted = R[o].wanted
                     /\ N[o].notified = (R[o].pc = "asleep")

LEMMA NotifyIs ==
  ASSUME NEW R \in ReqMaps
  PROVE  Notifies(Notify(R), R)
<1> DEFINE N(o) == [R[o] EXCEPT !.notified = (R[o].pc = "asleep")]
<1>1. ASSUME NEW o \in Tx
      PROVE  /\ N(o) \in Requests /\ N(o).pc = R[o].pc /\ N(o).ops = R[o].ops
             /\ N(o).wanted = R[o].wanted /\ N(o).notified = (R[o].pc = "asleep")
  <2> DEFINE r == R[o]
             b == (r.pc = "asleep")
  <2>1. r \in Requests /\ b \in BOOLEAN
    BY DEF ReqMaps
  <2> HIDE DEF b, r
  <2>2. /\ [r EXCEPT !.notified = b] \in Requests /\ [r EXCEPT !.notified = b].pc = r.pc
        /\ [r EXCEPT !.notified = b].ops = r.ops /\ [r EXCEPT !.notified = b].wanted = r.wanted
        /\ [r EXCEPT !.notified = b].notified = b
    BY <2>1 DEF Requests
  <2> QED
    BY <2>2 DEF b, r
<1>2. Notify(R) = [o \in Tx |-> N(o)]
  BY DEF Notify
<1> HIDE DEF N
<1>3. Notify(R) \in ReqMaps /\ \A o \in Tx : Notify(R)[o] = N(o)
  BY <1>1, <1>2 DEF ReqMaps
<1> QED
  BY <1>1, <1>3 DEF Notifies

(***************************************************************************)
(* The first of some keys.                                                 *)
(***************************************************************************)

LEMMA FirstIs ==
  ASSUME NEW S \in SUBSET LockKeys, S # {}
  PROVE  First(S) \in S
<1>1. \A k \in S : /\ k = <<k[1], k[2], k[3], k[4]>>
                   /\ k[1] \in Nat /\ k[2] \in Nat /\ k[3] \in Nat /\ k[4] \in Nat
  <2> SUFFICES ASSUME NEW k \in S PROVE /\ k = <<k[1], k[2], k[3], k[4]>>
                   /\ k[1] \in Nat /\ k[2] \in Nat /\ k[3] \in Nat /\ k[4] \in Nat
    OBVIOUS
  <2>1. k \in {1, 2, 3} \X Tables \X {0, 1, 2} \X Nat
    BY DEF LockKeys
  <2>2. k = <<k[1], k[2], k[3], k[4]>> /\ k[1] \in {1, 2, 3} /\ k[2] \in Tables /\ k[3] \in {0, 1, 2} /\ k[4] \in Nat
    BY <2>1
  <2> QED
    BY <2>2, TablesAssumption
<1>2. PICK a \in S : \A s \in S : a[1] <= s[1]
  <2> DEFINE N == {s[1] : s \in S}
  <2>1. N \in SUBSET Nat /\ N # {}
    BY <1>1
  <2>2. PICK x \in N : \A y \in N : x <= y
    BY <2>1, LeastNumber
  <2> QED
    BY <2>2
<1> DEFINE S2 == {s \in S : s[1] = a[1]}
<1>3. PICK b \in S2 : \A s \in S2 : b[2] <= s[2]
  <2> DEFINE N == {s[2] : s \in S2}
  <2>1. N \in SUBSET Nat /\ N # {}
    BY <1>1, <1>2
  <2>2. PICK x \in N : \A y \in N : x <= y
    BY <2>1, LeastNumber
  <2> QED
    BY <2>2
<1> DEFINE S3 == {s \in S2 : s[2] = b[2]}
<1>4. PICK c \in S3 : \A s \in S3 : c[3] <= s[3]
  <2> DEFINE N == {s[3] : s \in S3}
  <2>1. N \in SUBSET Nat /\ N # {}
    BY <1>1, <1>3
  <2>2. PICK x \in N : \A y \in N : x <= y
    BY <2>1, LeastNumber
  <2> QED
    BY <2>2
<1> DEFINE S4 == {s \in S3 : s[3] = c[3]}
<1>5. PICK d \in S4 : \A s \in S4 : d[4] <= s[4]
  <2> DEFINE N == {s[4] : s \in S4}
  <2>1. N \in SUBSET Nat /\ N # {}
    BY <1>1, <1>4
  <2>2. PICK x \in N : \A y \in N : x <= y
    BY <2>1, LeastNumber
  <2> QED
    BY <2>2
<1>6. d \in S /\ d[1] = a[1] /\ d[2] = b[2] /\ d[3] = c[3]
  BY <1>5
<1>7. ASSUME NEW s \in S \ {d} PROVE KeyLess(d, s)
  <2>1. /\ d[1] \in Nat /\ d[2] \in Nat /\ d[3] \in Nat /\ d[4] \in Nat
        /\ s[1] \in Nat /\ s[2] \in Nat /\ s[3] \in Nat /\ s[4] \in Nat
        /\ (d[1] = s[1] /\ d[2] = s[2] /\ d[3] = s[3] /\ d[4] = s[4] => d = s)
    BY <1>1, <1>6
  <2>2. CASE d[1] # s[1]
    <3>1. d[1] < s[1]
      BY <1>2, <1>6, <2>1, <2>2
    <3>2. 1 \in 1 .. 4 /\ 1 .. 1 - 1 = {}
      OBVIOUS
    <3> QED
      BY <3>1, <3>2 DEF KeyLess
  <2>3. CASE d[1] = s[1] /\ d[2] # s[2]
    <3>0. s \in S2
      BY <1>6, <2>3
    <3>1. d[2] < s[2]
      BY <1>3, <1>6, <2>1, <2>3, <3>0
    <3>2. 2 \in 1 .. 4 /\ 1 .. 2 - 1 = {1}
      OBVIOUS
    <3> QED
      BY <2>3, <3>1, <3>2 DEF KeyLess
  <2>4. CASE d[1] = s[1] /\ d[2] = s[2] /\ d[3] # s[3]
    <3>0. s \in S3
      BY <1>6, <2>4
    <3>1. d[3] < s[3]
      BY <1>4, <1>6, <2>1, <2>4, <3>0
    <3>2. 3 \in 1 .. 4 /\ 1 .. 3 - 1 = {1, 2}
      OBVIOUS
    <3> QED
      BY <2>4, <3>1, <3>2 DEF KeyLess
  <2>5. CASE d[1] = s[1] /\ d[2] = s[2] /\ d[3] = s[3] /\ d[4] # s[4]
    <3>0. s \in S4
      BY <1>6, <2>5
    <3>1. d[4] < s[4]
      BY <1>5, <1>6, <2>1, <2>5, <3>0
    <3>2. 4 \in 1 .. 4 /\ 1 .. 4 - 1 = {1, 2, 3}
      OBVIOUS
    <3> QED
      BY <2>5, <3>1, <3>2 DEF KeyLess
  <2> QED
    BY <2>1, <2>2, <2>3, <2>4, <2>5
<1> QED
  BY <1>6, <1>7 DEF First

(***************************************************************************)
(* What one turn of the acquisition loop does to the locks.                *)
(***************************************************************************)

OthersKept(t) == \A o \in Tx \ {t} : txs'[o] = txs[o] /\ req'[o] = req[o]

StillActive(t) == txs'[t].status = "active" /\ txs'[t].snapshot = txs[t].snapshot

RequestEnds(t, pc) ==
    req'[t].pc = pc /\ req'[t].wanted = {} /\ req'[t].notified = FALSE

Granted(t, W) ==
    /\ OthersKept(t) /\ StillActive(t) /\ RequestEnds(t, "idle")
    /\ \A k \in W : Blockers(t, k) = {}
    /\ txs'[t].held = txs[t].held \cup W /\ txs'[t].waiting = {}

Refused(t, W) ==
    /\ OthersKept(t) /\ StillActive(t) /\ RequestEnds(t, "failed")
    /\ \E got \in SUBSET W : /\ \A k \in got : Blockers(t, k) = {}
                             /\ txs'[t].held = txs[t].held \cup got
    /\ txs'[t].waiting \in {txs[t].waiting, {}}

Slept(t, W) ==
    /\ OthersKept(t) /\ StillActive(t)
    /\ req'[t].pc = "asleep" /\ req'[t].wanted = W /\ req'[t].notified = FALSE
    /\ \E got \in SUBSET W, stop \in W :
          /\ \A k \in got : Blockers(t, k) = {}
          /\ Blockers(t, stop) # {}
          /\ txs'[t].held = txs[t].held \cup got
          /\ txs'[t].waiting = Blockers(t, stop)
    /\ ~ OnCycle(txs', t)

\* abort(t) and notify_all.
Aborted(t) ==
    /\ \A o \in Tx \ {t} :
          /\ txs'[o].status = txs[o].status /\ txs'[o].held = txs[o].held
          /\ txs'[o].waiting = txs[o].waiting \ {t} /\ SameWork(txs'[o], txs[o])
          /\ req'[o].pc = req[o].pc /\ req'[o].wanted = req[o].wanted
          /\ req'[o].ops = req[o].ops
          /\ req'[o].notified = (req[o].pc = "asleep")
    /\ RequestEnds(t, "idle") /\ txs'[t].snapshot = txs[t].snapshot
    /\ txs'[t].held = {} /\ txs'[t].waiting = {}

GaveUp(t, W) ==
    /\ Aborted(t) /\ txs'[t].status = "aborted"
    /\ \E stop \in W : Blockers(t, stop) # {}

LoopDone(t, W) ==
    /\ txs' \in TxMaps /\ req' \in ReqMaps
    /\ Granted(t, W) \/ Refused(t, W) \/ Slept(t, W) \/ GaveUp(t, W)

LEMMA BeforeFree ==
  ASSUME NEW t, NEW W \in SUBSET LockKeys, NEW S, S = Obstacles(t, W)
  PROVE  Before(W, S) \in SUBSET W /\ \A k \in Before(W, S) : Blockers(t, k) = {}
<1>1. Before(W, S) \in SUBSET W
  BY DEF Before
<1>2. ASSUME NEW k \in Before(W, S) PROVE k \notin S
  <2>1. k \in {1, 2, 3} \X Tables \X {0, 1, 2} \X Nat
    BY <1>1 DEF LockKeys
  <2>2. k[1] \in Int /\ k[2] \in Int /\ k[3] \in Int /\ k[4] \in Int
    <3>1. k[1] \in {1, 2, 3} /\ k[2] \in Tables /\ k[3] \in {0, 1, 2} /\ k[4] \in Nat
      BY <2>1
    <3>2. Tables \in SUBSET Nat /\ Nat \in SUBSET Int
      BY TablesAssumption
    <3>3. k[2] \in Int /\ k[4] \in Int
      BY <3>1, <3>2
    <3> QED
      BY <3>1, <3>3
  <2>3. \A i \in 1 .. 4 : k[i] \in Int
    BY <2>2
  <2>4. ~ KeyLess(k, k)
    BY <2>3 DEF KeyLess
  <2> QED
    BY <2>4 DEF Before
<1>3. \A k \in Before(W, S) : Blockers(t, k) = {}
  BY <1>1, <1>2 DEF Obstacles
<1> QED
  BY <1>1, <1>3

LEMMA ReturnIs ==
  ASSUME req \in ReqMaps, NEW t \in Tx, NEW p \in {"idle", "failed"},
         req' = [req EXCEPT ![t] = [IdleReq EXCEPT !.pc = p]]
  PROVE  /\ req' \in ReqMaps /\ \A o \in Tx \ {t} : req'[o] = req[o]
         /\ RequestEnds(t, p)
<1> DEFINE r == [IdleReq EXCEPT !.pc = p]
<1>1. r \in Requests /\ r.pc = p /\ r.wanted = {} /\ r.notified = FALSE
  BY IdleReqType
<1>2. req' = [req EXCEPT ![t] = r]
  OBVIOUS
<1> HIDE DEF r
<1>3. req' \in ReqMaps /\ req'[t] = r /\ \A o \in Tx \ {t} : req'[o] = req[o]
  BY <1>1, <1>2 DEF ReqMaps
<1> QED
  BY <1>1, <1>3 DEF RequestEnds

LEMMA AbortedIs ==
  ASSUME txs \in TxMaps, req \in ReqMaps, NEW t \in Tx, NEW T \in TxMaps,
         \A o \in Tx \ {t} : T[o] = txs[o], T[t].snapshot = txs[t].snapshot,
         T[t].status \in {"active", "aborted"} \/ (T[t].held = {} /\ T[t].waiting = {}),
         txs' = Abort(T, t), req' = Notify([req EXCEPT ![t] = IdleReq])
  PROVE  /\ txs' \in TxMaps /\ req' \in ReqMaps /\ Aborted(t)
         /\ txs'[t].status = IF T[t].status \in {"active", "aborted"} THEN "aborted" ELSE T[t].status
         /\ SameWork(txs'[t], T[t])
<1> DEFINE R == [req EXCEPT ![t] = IdleReq]
<1>1. R \in ReqMaps /\ R[t] = IdleReq /\ \A o \in Tx \ {t} : R[o] = req[o]
  BY IdleReqType DEF ReqMaps
<1>2. req' = Notify(R)
  OBVIOUS
<1> HIDE DEF R
<1>3. /\ req' \in ReqMaps
      /\ \A o \in Tx : req'[o].pc = R[o].pc /\ req'[o].wanted = R[o].wanted
                       /\ req'[o].ops = R[o].ops /\ req'[o].notified = (R[o].pc = "asleep")
  <2>1. Notifies(Notify(R), R)
    BY <1>1, NotifyIs
  <2> QED
    BY <1>2, <2>1 DEF Notifies
<1>4. RequestEnds(t, "idle")
  <2>1. req'[t].pc = "idle" /\ req'[t].wanted = {} /\ req'[t].notified = ("idle" = "asleep")
    BY <1>1, <1>3, IdleReqType
  <2> QED
    BY <2>1 DEF RequestEnds
<1>50. Aborts(txs', T, t)
  BY AbortIs
<1>5. /\ txs' \in TxMaps
      /\ \A o \in Tx : SameWork(txs'[o], T[o])
      /\ \A o \in Tx \ {t} : /\ txs'[o].status = T[o].status /\ txs'[o].held = T[o].held
                             /\ txs'[o].waiting = T[o].waiting \ {t}
  BY <1>50 DEF Aborts
<1>6. /\ txs'[t].held = {} /\ txs'[t].waiting = {}
      /\ txs'[t].status = IF T[t].status \in {"active", "aborted"} THEN "aborted" ELSE T[t].status
  <2>1. CASE T[t].status \in {"active", "aborted"}
    BY <1>50, <2>1 DEF Aborts
  <2>2. CASE T[t].status \notin {"active", "aborted"}
    BY <1>50, <2>2 DEF Aborts
  <2> QED
    BY <2>1, <2>2
<1>7. Aborted(t)
  <2>1. ASSUME NEW o \in Tx \ {t}
        PROVE  /\ txs'[o].status = txs[o].status /\ txs'[o].held = txs[o].held
               /\ txs'[o].waiting = txs[o].waiting \ {t} /\ SameWork(txs'[o], txs[o])
    <3>1. o \in Tx /\ T[o] = txs[o]
      OBVIOUS
    <3> QED
      BY <1>5, <3>1
  <2>2. ASSUME NEW o \in Tx \ {t}
        PROVE  /\ req'[o].pc = req[o].pc /\ req'[o].wanted = req[o].wanted
               /\ req'[o].ops = req[o].ops /\ req'[o].notified = (req[o].pc = "asleep")
    <3>1. o \in Tx /\ R[o] = req[o]
      BY <1>1
    <3> QED
      BY <1>3, <3>1
  <2>3. txs'[t].snapshot = txs[t].snapshot
    BY <1>5 DEF SameWork
  <2> QED
    BY <1>4, <1>6, <2>1, <2>2, <2>3 DEF Aborted
<1> QED
  BY <1>3, <1>5, <1>6, <1>7

LEMMA LockLoopIs ==
  ASSUME txs \in TxMaps, req \in ReqMaps, NEW t \in Tx, NEW T \in TxMaps,
         \A o \in Tx \ {t} : T[o] = txs[o],
         T[t].status = "active", T[t].snapshot = txs[t].snapshot,
         T[t].held = txs[t].held, T[t].waiting = txs[t].waiting,
         NEW ops \in Plans \cup {<< >>}, NEW W \in SUBSET LockKeys, NEW expired \in BOOLEAN,
         LockLoop(T, t, ops, W, expired)
  PROVE  LoopDone(t, W)
<1> DEFINE stops == Obstacles(t, W)
           stop  == First(stops)
           before == Before(W, stops)
           owners  == IF stops = {} THEN {} ELSE Blockers(t, stop)
           blocked == [Take(T, t, before) EXCEPT ![t].waiting = owners]
           give_up == OnCycle(blocked, t) \/ expired
           Return(M, pc) == /\ txs' = M
                            /\ req' = [req EXCEPT ![t] = [IdleReq EXCEPT !.pc = pc]]
<1>1. /\ stops \in SUBSET W /\ stops \in SUBSET LockKeys
      /\ before \in SUBSET W /\ before \in SUBSET LockKeys
      /\ \A k \in before : Blockers(t, k) = {}
      /\ owners \in SUBSET Tx
      /\ stops # {} => stop \in stops
      /\ stops = {} => \A k \in W : Blockers(t, k) = {}
  <2>1. stops \in SUBSET W /\ (stops = {} => \A k \in W : Blockers(t, k) = {})
    BY DEF Obstacles
  <2>2. before \in SUBSET W /\ \A k \in before : Blockers(t, k) = {}
    BY BeforeFree
  <2>3. owners \in SUBSET Tx
    BY DEF Blockers
  <2>4. stops # {} => stop \in stops
    <3>1. stops \in SUBSET LockKeys
      BY <2>1
    <3> HIDE DEF stops
    <3> QED
      BY <3>1, FirstIs
  <2> QED
    BY <2>1, <2>2, <2>3, <2>4
<1>2. \/ /\ \E k \in txs[t].held : Stale(t, k)
         /\ Return(T, "failed")
      \/ stops = {} /\ Return([Take(T, t, W) EXCEPT ![t].plan = ops], "idle")
      \/ /\ stops # {} /\ owners = {}
         /\ Return(Take(T, t, before \cup {stop}), "failed")
      \/ /\ owners # {} /\ give_up
         /\ txs' = Abort(blocked, t)
         /\ req' = Notify([req EXCEPT ![t] = IdleReq])
      \/ /\ owners # {} /\ ~ give_up
         /\ txs' = blocked
         /\ req' = [req EXCEPT ![t] = [pc |-> "asleep", ops |-> ops,
                                       wanted |-> W, notified |-> FALSE]]
  BY DEF LockLoop
<1> HIDE DEF stops, stop, before, owners
<1>3. CASE Return(T, "failed")
  <2>1. /\ req' \in ReqMaps /\ \A o \in Tx \ {t} : req'[o] = req[o] /\ RequestEnds(t, "failed")
    BY <1>3, ReturnIs
  <2>5. RequestEnds(t, "failed")
    BY <1>3, ReturnIs
  <2>2. txs' = T
    BY <1>3
  <2>3. \E got \in SUBSET W : /\ \A k \in got : Blockers(t, k) = {}
                              /\ txs'[t].held = txs[t].held \cup got
    <3>1. {} \in SUBSET W /\ txs'[t].held = txs[t].held \cup {}
      BY <2>2
    <3> QED
      BY <3>1
  <2>4. Refused(t, W)
    BY <2>1, <2>2, <2>3, <2>5 DEF Refused, OthersKept, StillActive
  <2> QED
    BY <2>1, <2>2, <2>4 DEF LoopDone
<1>4. CASE stops = {} /\ Return([Take(T, t, W) EXCEPT ![t].plan = ops], "idle")
  <2>1. /\ req' \in ReqMaps /\ \A o \in Tx \ {t} : req'[o] = req[o]
    BY <1>4, ReturnIs
  <2>2. RequestEnds(t, "idle")
    BY <1>4, ReturnIs
  <2> DEFINE M == Take(T, t, W)
  <2>3. M = [M EXCEPT ![t].waiting = {}] /\ {} \in SUBSET Tx
    BY TakeClears
  <2>4. /\ M \in TxMaps /\ \A o \in Tx : o # t => M[o] = T[o]
        /\ M[t].status = T[t].status /\ SameWork(M[t], T[t])
        /\ M[t].held = T[t].held \cup W /\ M[t].waiting = {}
    <3>1. Taken(M, T, t, W, {})
      <4> HIDE DEF M
      <4>1. M = [Take(T, t, W) EXCEPT ![t].waiting = {}]
        BY <2>3 DEF M
      <4> QED
        BY <2>3, <4>1, TakeIs
    <3> HIDE DEF M
    <3> QED
      BY <3>1 DEF Taken
  <2>5. txs' = [M EXCEPT ![t].plan = ops]
    BY <1>4
  <2> HIDE DEF M
  <2>6. /\ txs' \in TxMaps /\ \A o \in Tx : o # t => txs'[o] = M[o]
        /\ txs'[t].status = M[t].status /\ txs'[t].snapshot = M[t].snapshot
        /\ txs'[t].held = M[t].held /\ txs'[t].waiting = M[t].waiting
    <3>1. SameLocks(txs', M, t)
      BY <2>4, <2>5, PlannedIs
    <3> QED
      BY <3>1 DEF SameLocks
  <2>7. Granted(t, W)
    <3>1. OthersKept(t)
      BY <2>1, <2>4, <2>6 DEF OthersKept
    <3>2. StillActive(t)
      BY <2>4, <2>6 DEF StillActive, SameWork
    <3> QED
      BY <1>1, <1>4, <2>2, <2>4, <2>6, <3>1, <3>2 DEF Granted
  <2> QED
    BY <2>1, <2>6, <2>7 DEF LoopDone
<1>5. CASE stops # {} /\ owners = {} /\ Return(Take(T, t, before \cup {stop}), "failed")
  <2>1. /\ req' \in ReqMaps /\ \A o \in Tx \ {t} : req'[o] = req[o]
    BY <1>5, ReturnIs
  <2>2. RequestEnds(t, "failed")
    BY <1>5, ReturnIs
  <2> DEFINE got == before \cup {stop}
             M == Take(T, t, got)
  <2>3. got \in SUBSET W /\ got \in SUBSET LockKeys /\ \A k \in got : Blockers(t, k) = {}
    BY <1>1, <1>5 DEF owners
  <2> HIDE DEF got
  <2>4. M = [M EXCEPT ![t].waiting = {}] /\ {} \in SUBSET Tx
    BY <2>3, TakeClears
  <2>5. /\ M \in TxMaps /\ \A o \in Tx : o # t => M[o] = T[o]
        /\ M[t].status = T[t].status /\ SameWork(M[t], T[t])
        /\ M[t].held = T[t].held \cup got /\ M[t].waiting = {}
    <3>1. Taken(M, T, t, got, {})
      <4> HIDE DEF M
      <4>1. M = [Take(T, t, got) EXCEPT ![t].waiting = {}]
        BY <2>4 DEF M
      <4> QED
        BY <2>3, <2>4, <4>1, TakeIs
    <3> HIDE DEF M
    <3> QED
      BY <3>1 DEF Taken
  <2>6. txs' = M
    BY <1>5 DEF got
  <2> HIDE DEF M
  <2>7. Refused(t, W)
    <3>1. OthersKept(t)
      BY <2>1, <2>5, <2>6 DEF OthersKept
    <3>2. StillActive(t)
      BY <2>5, <2>6 DEF StillActive, SameWork
    <3> QED
      BY <2>2, <2>3, <2>5, <2>6, <3>1, <3>2 DEF Refused
  <2> QED
    BY <2>1, <2>5, <2>6, <2>7 DEF LoopDone
<1>6. owners # {} => stops # {} /\ Blockers(t, stop) = owners /\ stop \in W
  BY <1>1 DEF owners
<1>7. /\ blocked \in TxMaps /\ \A o \in Tx : o # t => blocked[o] = T[o]
      /\ blocked[t].status = T[t].status /\ SameWork(blocked[t], T[t])
      /\ blocked[t].held = T[t].held \cup before /\ blocked[t].waiting = owners
  <2>1. Taken(blocked, T, t, before, owners)
    <3>1. blocked = [Take(T, t, before) EXCEPT ![t].waiting = owners]
      OBVIOUS
    <3> HIDE DEF blocked
    <3> QED
      BY <1>1, <3>1, TakeIs
  <2> HIDE DEF blocked
  <2> QED
    BY <2>1 DEF Taken
<1> HIDE DEF blocked
<1>8. CASE /\ owners # {} /\ give_up
           /\ txs' = Abort(blocked, t)
           /\ req' = Notify([req EXCEPT ![t] = IdleReq])
  <2>1. \A o \in Tx \ {t} : blocked[o] = txs[o]
    BY <1>7
  <2>2. blocked[t].status \in {"active", "aborted"} /\ blocked[t].snapshot = txs[t].snapshot
    BY <1>7 DEF SameWork
  <2>3. txs' \in TxMaps /\ req' \in ReqMaps /\ Aborted(t) /\ txs'[t].status = "aborted"
    BY <1>7, <1>8, <2>1, <2>2, AbortedIs
  <2>4. GaveUp(t, W)
    BY <1>6, <1>8, <2>3 DEF GaveUp
  <2> QED
    BY <2>3, <2>4 DEF LoopDone
<1>9. CASE /\ owners # {} /\ ~ give_up
           /\ txs' = blocked
           /\ req' = [req EXCEPT ![t] = [pc |-> "asleep", ops |-> ops,
                                         wanted |-> W, notified |-> FALSE]]
  <2> DEFINE r == [pc |-> "asleep", ops |-> ops, wanted |-> W, notified |-> FALSE]
  <2>1. r \in Requests /\ r.pc = "asleep" /\ r.wanted = W /\ r.notified = FALSE
    BY DEF Requests
  <2>2. req' = [req EXCEPT ![t] = r]
    BY <1>9
  <2> HIDE DEF r
  <2>3. req' \in ReqMaps /\ req'[t] = r /\ \A o \in Tx \ {t} : req'[o] = req[o]
    BY <2>1, <2>2 DEF ReqMaps
  <2>4. txs' = blocked /\ ~ OnCycle(blocked, t)
    BY <1>9
  <2>5. OthersKept(t)
    BY <1>7, <2>3, <2>4 DEF OthersKept
  <2>6. StillActive(t)
    BY <1>7, <2>4 DEF StillActive, SameWork
  <2>7. before \in SUBSET W /\ stop \in W /\ (\A k \in before : Blockers(t, k) = {})
        /\ Blockers(t, stop) # {} /\ txs'[t].held = txs[t].held \cup before
        /\ txs'[t].waiting = Blockers(t, stop)
    BY <1>1, <1>6, <1>7, <1>9, <2>4
  <2>8. Slept(t, W)
    <3>1. \E got \in SUBSET W, s \in W :
            /\ \A k \in got : Blockers(t, k) = {}
            /\ Blockers(t, s) # {}
            /\ txs'[t].held = txs[t].held \cup got
            /\ txs'[t].waiting = Blockers(t, s)
      BY <2>7
    <3>2. ~ OnCycle(txs', t)
      BY <2>4
    <3> QED
      BY <2>1, <2>3, <2>5, <2>6, <3>1, <3>2 DEF Slept
  <2> QED
    BY <1>7, <2>3, <2>4, <2>8 DEF LoopDone
<1> QED
  BY <1>2, <1>3, <1>4, <1>5, <1>8, <1>9

(***************************************************************************)
(* The inductive invariant.                                                *)
(***************************************************************************)

\* Locks and edges belong to active transactions, edges and wanted keys to
\* requests in flight.
LocksOK ==
    /\ txs \in TxMaps /\ req \in ReqMaps
    /\ \A t \in Tx :
          /\ txs[t].held # {} => txs[t].status = "active"
          /\ txs[t].waiting # {} => txs[t].status = "active" /\ req[t].pc \in {"asleep", "failed"}
          /\ req[t].pc # "asleep" => req[t].wanted = {} /\ req[t].notified = FALSE

\* Every chain of published versions is a history up to the current commit.
DurableOK ==
    /\ durable.csn \in 0 .. MaxCsn /\ durable.next_row \in Nat
    /\ durable = [csn |-> durable.csn, next_row |-> durable.next_row, tables |-> durable.tables]
    /\ TablesOK(durable.tables, durable.csn, durable.next_row)

\* A transaction reads what it saw at its begin.
SnapshotsOK ==
    /\ view \in [Tx -> Heaps]
    /\ \A t \in Tx :
          /\ txs[t].snapshot <= durable.csn
          /\ txs[t].status = "active" =>
                \A tb \in Tables : view[t][tb] = ReadAt(durable.tables, tb, txs[t].snapshot)

\* The newest versions are the rows of the heap; a dropped table has none.
InSync(tb) ==
    IF tb \in Catalog(schemas)
    THEN /\ tb \in DOMAIN durable.tables
         /\ durable.tables[tb].live = TRUE /\ durable.tables[tb].version = schemas[tb]
         /\ VisibleRows(durable.tables[tb], durable.csn) = heap[tb]
    ELSE heap[tb] = << >> /\ ReadAt(durable.tables, tb, durable.csn) = << >>

HeapOK ==
    /\ recovery \in BOOLEAN /\ schemas \in [Tables -> Nat] /\ heap \in Heaps
    /\ ~ recovery => \A tb \in Tables : InSync(tb)

\* What the commit request that holds the gate relies on.
CommitOK ==
    /\ committer \in [tx : Tx \cup {"none"}, token : Nat]
    /\ gate \in [stage : {"free", "apply", "finish"}, ops : Seq(Operations)]
    /\ gate.stage # "free" => committer.tx \in Tx
    /\ gate.stage = "apply" =>
          TablesOf(gate.ops) \subseteq Catalog(schemas) /\ durable.csn < MaxCsn
    /\ \A t \in Tx : Committing(t) =>
          /\ txs[t].status = "active" /\ req[t].pc = "idle"
          /\ committer.token < MaxCsn /\ committer.token <= durable.csn
          /\ committer.token = durable.csn => TablesOf(txs[t].plan) \subseteq Catalog(schemas)

StateInv == LocksOK /\ DurableOK /\ SnapshotsOK /\ HeapOK /\ CommitOK

\* What the runs check follows.
LEMMA StateInvIs ==
  ASSUME StateInv
  PROVE  TypeOK /\ SnapshotStable /\ HeapPublished
<1>1. TypeOK
  BY DEF StateInv, LocksOK, DurableOK, SnapshotsOK, HeapOK, CommitOK, TypeOK, TxMaps, ReqMaps,
         Heaps, GateFree
<1>2. SnapshotStable
  BY DEF StateInv, SnapshotsOK, SnapshotStable, ReadAt
<1>3. HeapPublished
  <2> SUFFICES ASSUME ~ recovery, NEW tb \in Catalog(schemas)
               PROVE  /\ tb \in DOMAIN durable.tables
                      /\ durable.tables[tb].live /\ durable.tables[tb].version = schemas[tb]
                      /\ VisibleRows(durable.tables[tb], durable.csn) = heap[tb]
    BY DEF HeapPublished
  <2>1. tb \in Tables
    BY DEF Catalog
  <2>2. InSync(tb)
    BY <2>1 DEF StateInv, HeapOK
  <2> QED
    BY <2>2 DEF InSync
<1> QED
  BY <1>1, <1>2, <1>3

(***************************************************************************)
(* Steps of the locks.                                                     *)
(***************************************************************************)

\* A step that changes only locks and requests.
LockStep ==
    /\ UNCHANGED <<durable, schemas, heap, committer, gate, recovery, view>>
    /\ txs' \in TxMaps /\ req' \in ReqMaps
    /\ \A o \in Tx :
          /\ txs'[o].snapshot = txs[o].snapshot
          /\ txs'[o].status = "active" => txs[o].status = "active"
          /\ Committing(o) => /\ txs'[o].status = txs[o].status /\ txs'[o].plan = txs[o].plan
                              /\ req'[o].pc = req[o].pc

LEMMA LockStepKeeps ==
  ASSUME StateInv, LockStep, LocksOK'
  PROVE  StateInv'
<1>1. DurableOK'
  BY DEF StateInv, DurableOK, LockStep
<1>2. SnapshotsOK'
  <2>1. view' = view /\ durable' = durable
    BY DEF LockStep
  <2>2. ASSUME NEW t \in Tx
        PROVE  /\ txs'[t].snapshot <= durable'.csn
               /\ txs'[t].status = "active" =>
                     \A tb \in Tables : view'[t][tb] = ReadAt(durable'.tables, tb, txs'[t].snapshot)
    BY <2>1 DEF StateInv, SnapshotsOK, LockStep
  <2> QED
    BY <2>1, <2>2 DEF StateInv, SnapshotsOK
<1>3. HeapOK'
  <2>1. \A tb \in Tables : InSync(tb)' = InSync(tb)
    BY DEF InSync, LockStep, Catalog, ReadAt
  <2> QED
    BY <2>1 DEF StateInv, HeapOK, LockStep
<1>4. CommitOK'
  <2>1. committer' = committer /\ gate' = gate /\ schemas' = schemas /\ durable' = durable
    BY DEF LockStep
  <2>2. Catalog(schemas') = Catalog(schemas)
    BY <2>1
  <2>3. ASSUME NEW t \in Tx, Committing(t)'
        PROVE  /\ txs'[t].status = "active" /\ req'[t].pc = "idle"
               /\ committer'.token < MaxCsn /\ committer'.token <= durable'.csn
               /\ committer'.token = durable'.csn => TablesOf(txs'[t].plan) \subseteq Catalog(schemas')
    <3>1. Committing(t)
      BY <2>1, <2>3 DEF Committing
    <3>2. txs'[t].status = txs[t].status /\ txs'[t].plan = txs[t].plan /\ req'[t].pc = req[t].pc
      BY <3>1 DEF LockStep
    <3>3. /\ txs[t].status = "active" /\ req[t].pc = "idle"
          /\ committer.token < MaxCsn /\ committer.token <= durable.csn
          /\ committer.token = durable.csn => TablesOf(txs[t].plan) \subseteq Catalog(schemas)
      BY <3>1 DEF StateInv, CommitOK
    <3> QED
      BY <2>1, <2>2, <3>2, <3>3
  <2> QED
    BY <2>1, <2>2, <2>3 DEF StateInv, CommitOK
<1> QED
  BY <1>1, <1>2, <1>3, <1>4 DEF StateInv

\* What the loop leaves for the invariant.
LEMMA LoopKeeps ==
  ASSUME StateInv, NEW t \in Tx, ~ Committing(t), txs[t].status = "active", NEW W, LoopDone(t, W),
         req[t].pc # "failed",
         UNCHANGED <<durable, schemas, heap, committer, gate, recovery, view>>
  PROVE  StateInv'
<1>1. LocksOK /\ txs' \in TxMaps /\ req' \in ReqMaps
  BY DEF StateInv, LoopDone
<1> DEFINE Fine(o) == /\ txs'[o].held # {} => txs'[o].status = "active"
                      /\ txs'[o].waiting # {} =>
                            txs'[o].status = "active" /\ req'[o].pc \in {"asleep", "failed"}
                      /\ req'[o].pc # "asleep" => req'[o].wanted = {} /\ req'[o].notified = FALSE
           Same(o) == /\ txs'[o].snapshot = txs[o].snapshot
                      /\ txs'[o].status = "active" => txs[o].status = "active"
                      /\ Committing(o) => /\ txs'[o].status = txs[o].status
                                          /\ txs'[o].plan = txs[o].plan
                                          /\ req'[o].pc = req[o].pc
<1>2. ASSUME NEW o \in Tx, OthersKept(t), o # t PROVE Fine(o) /\ Same(o)
  <2>1. txs'[o] = txs[o] /\ req'[o] = req[o]
    BY <1>2 DEF OthersKept
  <2> QED
    BY <1>1, <2>1 DEF LocksOK
<1>3. ASSUME NEW o \in Tx, Aborted(t), o # t PROVE Fine(o) /\ Same(o)
  <2>1. /\ txs'[o].status = txs[o].status /\ txs'[o].held = txs[o].held
        /\ txs'[o].waiting = txs[o].waiting \ {t} /\ SameWork(txs'[o], txs[o])
        /\ req'[o].pc = req[o].pc /\ req'[o].wanted = req[o].wanted
        /\ req'[o].notified = (req[o].pc = "asleep")
    BY <1>3 DEF Aborted
  <2>2. Fine(o)
    BY <1>1, <2>1 DEF LocksOK
  <2>3. Same(o)
    BY <2>1 DEF SameWork
  <2> QED
    BY <2>2, <2>3
<1>4. CASE Granted(t, W)
  <2>1. Fine(t) /\ Same(t)
    BY <1>4 DEF Granted, StillActive, RequestEnds
  <2>2. \A o \in Tx : Fine(o) /\ Same(o)
    <3> HIDE DEF Fine, Same
    <3> QED
      BY <1>2, <1>4, <2>1 DEF Granted
  <2> QED
    BY <1>1, <2>2, LockStepKeeps DEF LocksOK, LockStep
<1>5. CASE Refused(t, W)
  <2>1. Fine(t) /\ Same(t)
    BY <1>1, <1>5 DEF Refused, StillActive, RequestEnds, LocksOK
  <2>2. \A o \in Tx : Fine(o) /\ Same(o)
    <3> HIDE DEF Fine, Same
    <3> QED
      BY <1>2, <1>5, <2>1 DEF Refused
  <2> QED
    BY <1>1, <2>2, LockStepKeeps DEF LocksOK, LockStep
<1>6. CASE Slept(t, W)
  <2>1. Fine(t) /\ Same(t)
    BY <1>6 DEF Slept, StillActive
  <2>2. \A o \in Tx : Fine(o) /\ Same(o)
    <3> HIDE DEF Fine, Same
    <3> QED
      BY <1>2, <1>6, <2>1 DEF Slept
  <2> QED
    BY <1>1, <2>2, LockStepKeeps DEF LocksOK, LockStep
<1>7. CASE GaveUp(t, W)
  <2>1. Fine(t) /\ Same(t)
    BY <1>7 DEF GaveUp, Aborted, RequestEnds
  <2>2. \A o \in Tx : Fine(o) /\ Same(o)
    <3> HIDE DEF Fine, Same
    <3> QED
      BY <1>3, <1>7, <2>1 DEF GaveUp
  <2> QED
    BY <1>1, <2>2, LockStepKeeps DEF LocksOK, LockStep
<1> QED
  BY <1>4, <1>5, <1>6, <1>7 DEF LoopDone

\* The variables the lock requests leave alone.
Others == <<durable, schemas, heap, committer, gate, recovery, view>>

\* A request of t was made, or ran again.
Asked(t) ==
    /\ req[t].pc = "idle" /\ txs[t].status = "active" /\ ~ Committing(t)
    /\ \E W \in SUBSET LockKeys : LoopDone(t, W)
    /\ UNCHANGED Others
Resumed(t) ==
    /\ req[t].pc = "asleep" /\ txs[t].status = "active"
    /\ LoopDone(t, req[t].wanted)
    /\ UNCHANGED Others

LEMMA LockIs ==
  ASSUME StateInv, NEW t \in Tx, NEW ops \in Plans, NEW reads, Lock(t, ops, reads)
  PROVE  Asked(t)
<1>1. /\ req[t].pc = "idle" /\ txs[t].status = "active" /\ ~ Committing(t)
      /\ TablesOf(ops) \cup reads \subseteq Catalog(txs[t].schemas)
      /\ UNCHANGED Others
  BY DEF Lock, Others
<1>2. txs \in TxMaps /\ req \in ReqMaps /\ txs[t] \in Transactions /\ req[t] \in Requests
  BY DEF StateInv, LocksOK, TxMaps, ReqMaps
<1>3. reads \in SUBSET Tables
  BY <1>1 DEF Catalog
<1>4. CASE /\ \/ \E k \in txs[t].held : Stale(t, k)
              \/ ~ TablesOf(ops) \subseteq DOMAIN durable.tables
           /\ req' = [req EXCEPT ![t].pc = "failed"]
           /\ UNCHANGED txs
  <2> DEFINE r == [req[t] EXCEPT !.pc = "failed"]
  <2>1. req' = [req EXCEPT ![t] = r]
    BY <1>2, <1>4 DEF ReqMaps
  <2>2. r \in Requests /\ r.pc = "failed" /\ r.wanted = req[t].wanted /\ r.notified = req[t].notified
    BY <1>2 DEF Requests
  <2>3. req[t].wanted = {} /\ req[t].notified = FALSE
    BY <1>1 DEF StateInv, LocksOK
  <2> HIDE DEF r
  <2>4. req' \in ReqMaps /\ req'[t] = r /\ \A o \in Tx \ {t} : req'[o] = req[o]
    BY <1>2, <2>1, <2>2 DEF ReqMaps
  <2>5. RequestEnds(t, "failed")
    BY <2>2, <2>3, <2>4 DEF RequestEnds
  <2>6. OthersKept(t) /\ StillActive(t)
    BY <1>1, <1>4, <2>4 DEF OthersKept, StillActive
  <2>7. \E got \in SUBSET {} : /\ \A k \in got : Blockers(t, k) = {}
                               /\ txs'[t].held = txs[t].held \cup got
    <3>1. {} \in SUBSET {} /\ txs'[t].held = txs[t].held \cup {}
      BY <1>4
    <3> QED
      BY <3>1
  <2>8. Refused(t, {})
    BY <1>4, <2>5, <2>6, <2>7 DEF Refused
  <2>9. LoopDone(t, {}) /\ {} \in SUBSET LockKeys
    BY <1>2, <1>4, <2>4, <2>8 DEF LoopDone
  <2> QED
    BY <1>1, <2>9 DEF Asked
<1>5. CASE /\ TablesOf(ops) \subseteq DOMAIN durable.tables
           /\ LockLoop([txs EXCEPT ![t].reads = reads], t, ops, Wanted(t, ops), FALSE)
  <2> DEFINE T == [txs EXCEPT ![t].reads = reads]
             W == Wanted(t, ops)
  <2>1. ops \in Seq(Operations) /\ ops \in Plans \cup {<< >>}
    BY RowsAssumption
  <2>2. W \in SUBSET LockKeys
    <3>1. txs[t].snapshot \in Nat
      BY <1>2, TxFields
    <3>2. durable.csn \in Nat /\ durable.next_row \in Nat
          /\ TablesOK(durable.tables, durable.csn, durable.next_row)
      BY MaxCsnAssumption DEF StateInv, DurableOK
    <3> QED
      BY <1>5, <2>1, <3>1, <3>2, WantedIs
  <2>3. SameLocks(T, txs, t)
    <3>1. T = [txs EXCEPT ![t].reads = reads]
      OBVIOUS
    <3> HIDE DEF T
    <3> QED
      BY <1>2, <1>3, <3>1, ReadsIs
  <2>4. LockLoop(T, t, ops, W, FALSE)
    BY <1>5
  <2> HIDE DEF T, W
  <2>5. /\ T \in TxMaps /\ \A o \in Tx \ {t} : T[o] = txs[o]
        /\ T[t].status = "active" /\ T[t].snapshot = txs[t].snapshot
        /\ T[t].held = txs[t].held /\ T[t].waiting = txs[t].waiting
    BY <1>1, <2>3 DEF SameLocks
  <2>6. LoopDone(t, W)
    BY <1>2, <2>1, <2>2, <2>4, <2>5, LockLoopIs
  <2> QED
    BY <1>1, <2>2, <2>6 DEF Asked
<1> QED
  BY <1>4, <1>5 DEF Lock

LEMMA ResumeIs ==
  ASSUME StateInv, NEW t \in Tx, req[t].pc = "asleep", txs[t].status = "active",
         NEW expired \in BOOLEAN, LockLoop(txs, t, req[t].ops, req[t].wanted, expired),
         UNCHANGED Others
  PROVE  Resumed(t)
<1>1. txs \in TxMaps /\ req \in ReqMaps /\ req[t] \in Requests
  BY DEF StateInv, LocksOK, ReqMaps
<1>2. req[t].ops \in Plans \cup {<< >>} /\ req[t].wanted \in SUBSET LockKeys
  BY <1>1, ReqFields
<1>3. LoopDone(t, req[t].wanted)
  BY <1>1, <1>2, LockLoopIs
<1> QED
  BY <1>3 DEF Resumed

LEMMA AskedKeeps ==
  ASSUME StateInv, NEW t \in Tx, Asked(t) \/ Resumed(t)
  PROVE  StateInv'
<1>1. UNCHANGED <<durable, schemas, heap, committer, gate, recovery, view>>
  BY DEF Asked, Resumed, Others
<1>2. ~ Committing(t) /\ txs[t].status = "active" /\ req[t].pc # "failed"
  BY DEF Asked, Resumed, StateInv, CommitOK
<1>3. PICK W : LoopDone(t, W)
  BY DEF Asked, Resumed
<1> QED
  BY <1>1, <1>2, <1>3, LoopKeeps

\* A request returns because its transaction is gone.
Returned(t) ==
    /\ req[t].pc = "asleep" /\ req[t].notified /\ txs[t].status # "active"
    /\ txs' = txs /\ req' \in ReqMaps
    /\ \A o \in Tx \ {t} : req'[o] = req[o]
    /\ RequestEnds(t, "idle")
    /\ UNCHANGED Others

LEMMA WakeIs ==
  ASSUME StateInv, NEW t \in Tx, Wake(t)
  PROVE  Resumed(t) \/ Returned(t)
<1>1. req[t].pc = "asleep" /\ req[t].notified /\ UNCHANGED Others
  BY DEF Wake, Others
<1>2. CASE txs[t].status = "active"
  <2>1. LockLoop(txs, t, req[t].ops, req[t].wanted, FALSE)
    BY <1>2 DEF Wake
  <2> QED
    BY <1>1, <1>2, <2>1, ResumeIs
<1>3. CASE txs[t].status # "active"
  <2>1. txs' = txs /\ req' = [req EXCEPT ![t] = IdleReq] /\ req \in ReqMaps
    BY <1>3 DEF Wake, StateInv, LocksOK
  <2>2. req' \in ReqMaps /\ req'[t] = IdleReq /\ \A o \in Tx \ {t} : req'[o] = req[o]
    BY <2>1, IdleReqType DEF ReqMaps
  <2>3. RequestEnds(t, "idle")
    BY <2>2, IdleReqType DEF RequestEnds
  <2> QED
    BY <1>1, <1>3, <2>1, <2>2, <2>3 DEF Returned
<1> QED
  BY <1>2, <1>3

LEMMA ReturnedKeeps ==
  ASSUME StateInv, NEW t \in Tx, Returned(t)
  PROVE  StateInv'
<1>1. LocksOK /\ txs' = txs /\ req' \in ReqMaps
  BY DEF StateInv, Returned
<1>2. ~ Committing(t)
  BY DEF Returned, StateInv, CommitOK
<1>3. \A o \in Tx : o # t => req'[o] = req[o]
  BY DEF Returned
<1>4. txs[t].waiting = {} /\ RequestEnds(t, "idle")
  BY <1>1 DEF Returned, LocksOK
<1>5. LocksOK'
  BY <1>1, <1>3, <1>4 DEF LocksOK, RequestEnds
<1>6. LockStep
  <2>1. \A o \in Tx : Committing(o) => req'[o].pc = req[o].pc
    BY <1>2, <1>3
  <2> QED
    BY <1>1, <2>1 DEF LockStep, LocksOK, Returned, Others
<1> QED
  BY <1>5, <1>6, LockStepKeeps

\* lock() aborts the transaction of a failed request.
Failed(t) ==
    /\ req[t].pc = "failed"
    /\ txs' \in TxMaps /\ req' \in ReqMaps /\ Aborted(t)
    /\ txs'[t].status = IF txs[t].status = "active" THEN "aborted" ELSE txs[t].status
    /\ UNCHANGED Others

LEMMA FailLockIs ==
  ASSUME StateInv, NEW t \in Tx, FailLock(t)
  PROVE  Failed(t)
<1>1. /\ req[t].pc = "failed" /\ txs' = Abort(txs, t)
      /\ req' = Notify([req EXCEPT ![t] = IdleReq]) /\ UNCHANGED Others
  BY DEF FailLock, Others
<1>2. LocksOK /\ txs \in TxMaps /\ req \in ReqMaps /\ txs[t].status \in Statuses
  BY DEF StateInv, LocksOK, TxMaps, Transactions
<1>3. txs[t].status \in {"active", "aborted"} \/ (txs[t].held = {} /\ txs[t].waiting = {})
  BY <1>2 DEF LocksOK
<1>4. \A o \in Tx \ {t} : txs[o] = txs[o]
  OBVIOUS
<1>5. /\ txs' \in TxMaps /\ req' \in ReqMaps /\ Aborted(t)
      /\ txs'[t].status = IF txs[t].status \in {"active", "aborted"} THEN "aborted" ELSE txs[t].status
  BY <1>1, <1>2, <1>3, <1>4, AbortedIs
<1> QED
  BY <1>1, <1>5 DEF Failed

LEMMA FailedKeeps ==
  ASSUME StateInv, NEW t \in Tx, Failed(t)
  PROVE  StateInv'
<1>1. LocksOK /\ txs' \in TxMaps /\ req' \in ReqMaps /\ Aborted(t)
  BY DEF StateInv, Failed
<1>2. ~ Committing(t)
  BY DEF Failed, StateInv, CommitOK
<1> DEFINE Fine(o) == /\ txs'[o].held # {} => txs'[o].status = "active"
                      /\ txs'[o].waiting # {} =>
                            txs'[o].status = "active" /\ req'[o].pc \in {"asleep", "failed"}
                      /\ req'[o].pc # "asleep" => req'[o].wanted = {} /\ req'[o].notified = FALSE
           Same(o) == /\ txs'[o].snapshot = txs[o].snapshot
                      /\ txs'[o].status = "active" => txs[o].status = "active"
                      /\ Committing(o) => /\ txs'[o].status = txs[o].status
                                          /\ txs'[o].plan = txs[o].plan
                                          /\ req'[o].pc = req[o].pc
<1>3. ASSUME NEW o \in Tx, o # t PROVE Fine(o) /\ Same(o)
  <2>1. /\ txs'[o].status = txs[o].status /\ txs'[o].held = txs[o].held
        /\ txs'[o].waiting = txs[o].waiting \ {t} /\ SameWork(txs'[o], txs[o])
        /\ req'[o].pc = req[o].pc /\ req'[o].wanted = req[o].wanted
        /\ req'[o].notified = (req[o].pc = "asleep")
    BY <1>1, <1>3 DEF Aborted
  <2>2. Fine(o)
    BY <1>1, <2>1 DEF LocksOK
  <2>3. Same(o)
    BY <2>1 DEF SameWork
  <2> QED
    BY <2>2, <2>3
<1>4. Fine(t) /\ Same(t)
  BY <1>1, <1>2 DEF Aborted, RequestEnds, Failed
<1>5. \A o \in Tx : Fine(o) /\ Same(o)
  <2> HIDE DEF Fine, Same
  <2> QED
    BY <1>3, <1>4
<1> QED
  BY <1>1, <1>5, LockStepKeeps DEF LocksOK, LockStep, Failed, Others

LEMMA OldestIs ==
  ASSUME NEW T \in TxMaps, NEW other \in Nat, \A t \in Tx : T[t].snapshot <= other
  PROVE  /\ Oldest(T, other) \in Nat /\ Oldest(T, other) <= other
         /\ \A t \in Tx : T[t].status = "active" => Oldest(T, other) <= T[t].snapshot
<1> DEFINE live == {T[t].snapshot : t \in {u \in Tx : T[u].status = "active"}}
<1>1. Oldest(T, other) = IF live = {} THEN other ELSE Min(live)
  BY DEF Oldest
<1>2. \A t \in Tx : T[t].snapshot \in Nat
  BY TxFields DEF TxMaps
<1>3. live \in SUBSET Nat /\ \A x \in live : x <= other
  BY <1>2
<1>4. \A t \in Tx : T[t].status = "active" => T[t].snapshot \in live
  OBVIOUS
<1> HIDE DEF live
<1>5. CASE live = {}
  BY <1>1, <1>4, <1>5
<1>6. CASE live # {}
  <2>1. Min(live) \in live /\ \A y \in live : Min(live) <= y
    BY <1>3, <1>6, MinIs
  <2> QED
    BY <1>1, <1>3, <1>4, <1>6, <2>1
<1> QED
  BY <1>5, <1>6

(***************************************************************************)
(* Begin.                                                                  *)
(***************************************************************************)

\* t becomes active; nothing else about the locks changes.
Begun(t) ==
    /\ txs[t].status = "none" /\ txs' \in TxMaps
    /\ \A o \in Tx \ {t} : txs'[o] = txs[o]
    /\ txs'[t].status = "active" /\ txs'[t].snapshot = durable.csn
    /\ txs'[t].held = {} /\ txs'[t].waiting = {} /\ txs'[t].plan = << >>
    /\ view' = [view EXCEPT ![t] = heap] /\ ~ recovery
    /\ UNCHANGED <<durable, schemas, heap, req, committer, gate, recovery>>

LEMMA BeginIs ==
  ASSUME StateInv, NEW t \in Tx, NEW s \in BOOLEAN, Begin(t, s)
  PROVE  Begun(t)
<1> DEFINE r == [NoTx EXCEPT !.status = "active", !.snapshot = durable.csn,
                             !.schemas = schemas, !.serializable = s]
<1>1. durable.csn \in Nat /\ schemas \in [Tables -> Nat] /\ txs \in TxMaps
  BY MaxCsnAssumption DEF StateInv, DurableOK, HeapOK, LocksOK
<1>2. NoTx \in Transactions /\ NoTx.held = {} /\ NoTx.waiting = {} /\ NoTx.plan = << >>
  BY NoTxType
<1>3. /\ r \in Transactions /\ r.status = "active" /\ r.snapshot = durable.csn
      /\ r.held = {} /\ r.waiting = {} /\ r.plan = << >>
  <2> DEFINE n == NoTx
  <2> HIDE DEF n
  <2>1. n \in Transactions /\ n.held = {} /\ n.waiting = {} /\ n.plan = << >>
    BY <1>2 DEF n
  <2> DEFINE q == [n EXCEPT !.status = "active", !.snapshot = durable.csn,
                            !.schemas = schemas, !.serializable = s]
  <2>2. q \in Transactions /\ q.status = "active" /\ q.snapshot = durable.csn
        /\ q.held = {} /\ q.waiting = {} /\ q.plan = << >>
    BY <1>1, <2>1 DEF Transactions, Statuses
  <2> QED
    BY <2>2 DEF n
<1>4. /\ txs' = [txs EXCEPT ![t] = r] /\ txs[t].status = "none" /\ ~ recovery
      /\ view' = [view EXCEPT ![t] = heap]
      /\ UNCHANGED <<durable, schemas, heap, req, committer, gate, recovery>>
  BY DEF Begin
<1> HIDE DEF r
<1>5. txs' \in TxMaps /\ txs'[t] = r /\ \A o \in Tx \ {t} : txs'[o] = txs[o]
  BY <1>1, <1>3, <1>4 DEF TxMaps
<1> QED
  BY <1>3, <1>4, <1>5 DEF Begun

LEMMA SameHeapOK ==
  ASSUME HeapOK, UNCHANGED <<durable, schemas, heap, recovery>>
  PROVE  HeapOK'
<1>1. \A tb \in Tables : InSync(tb)' = InSync(tb)
  BY DEF InSync, Catalog, ReadAt
<1> QED
  BY <1>1 DEF HeapOK

LEMMA BegunKeeps ==
  ASSUME StateInv, NEW t \in Tx, Begun(t)
  PROVE  StateInv'
<1>1. LocksOK'
  <2>1. LocksOK /\ req' = req /\ txs' \in TxMaps
    BY DEF StateInv, Begun
  <2>2. ASSUME NEW o \in Tx
        PROVE  /\ txs'[o].held # {} => txs'[o].status = "active"
               /\ txs'[o].waiting # {} =>
                     txs'[o].status = "active" /\ req'[o].pc \in {"asleep", "failed"}
               /\ req'[o].pc # "asleep" => req'[o].wanted = {} /\ req'[o].notified = FALSE
    <3>1. CASE o = t
      BY <2>1, <3>1 DEF Begun, LocksOK
    <3>2. CASE o # t
      <4>1. txs'[o] = txs[o]
        BY <3>2 DEF Begun
      <4> QED
        BY <2>1, <4>1 DEF LocksOK
    <3> QED
      BY <3>1, <3>2
  <2> QED
    BY <2>1, <2>2 DEF LocksOK
<1>2. DurableOK'
  BY DEF StateInv, DurableOK, Begun
<1>3. HeapOK'
  BY SameHeapOK DEF StateInv, Begun
<1>4. SnapshotsOK'
  <2>1. /\ durable' = durable /\ view' = [view EXCEPT ![t] = heap] /\ ~ recovery
        /\ txs'[t].snapshot = durable.csn
        /\ \A o \in Tx : o # t => txs'[o] = txs[o]
    BY DEF Begun
  <2>2. /\ view \in [Tx -> Heaps] /\ heap \in Heaps /\ \A tb \in Tables : InSync(tb)
        /\ \A o \in Tx : /\ txs[o].snapshot <= durable.csn
                         /\ txs[o].status = "active" =>
                               \A tb \in Tables : view[o][tb] = ReadAt(durable.tables, tb, txs[o].snapshot)
        /\ durable.csn \in Nat
    BY <2>1, MaxCsnAssumption DEF StateInv, SnapshotsOK, HeapOK, DurableOK
  <2>3. \A tb \in Tables : heap[tb] = ReadAt(durable.tables, tb, durable.csn)
    BY <2>2 DEF InSync, ReadAt
  <2>4. view' \in [Tx -> Heaps] /\ view'[t] = heap /\ \A o \in Tx : o # t => view'[o] = view[o]
    BY <2>1, <2>2
  <2>5. ASSUME NEW o \in Tx
        PROVE  /\ txs'[o].snapshot <= durable'.csn
               /\ txs'[o].status = "active" =>
                     \A tb \in Tables : view'[o][tb] = ReadAt(durable'.tables, tb, txs'[o].snapshot)
    <3>1. CASE o = t
      BY <2>1, <2>2, <2>3, <2>4, <3>1
    <3>2. CASE o # t
      <4>1. txs'[o] = txs[o] /\ view'[o] = view[o]
        BY <2>1, <2>4, <3>2
      <4> QED
        BY <2>1, <2>2, <4>1
    <3> QED
      BY <3>1, <3>2
  <2> QED
    BY <2>4, <2>5 DEF SnapshotsOK
<1>5. CommitOK'
  <2>1. /\ committer' = committer /\ gate' = gate /\ schemas' = schemas /\ durable' = durable
        /\ req' = req
    BY DEF Begun
  <2>2. ASSUME NEW o \in Tx, Committing(o)' PROVE Committing(o) /\ txs'[o] = txs[o]
    <3>1. Committing(o)
      BY <2>1, <2>2 DEF Committing
    <3>2. o # t
      BY <3>1 DEF StateInv, CommitOK, Begun
    <3> QED
      BY <3>1, <3>2 DEF Begun
  <2>3. ASSUME NEW o \in Tx, Committing(o)'
        PROVE  /\ txs'[o].status = "active" /\ req'[o].pc = "idle"
               /\ committer'.token < MaxCsn /\ committer'.token <= durable'.csn
               /\ committer'.token = durable'.csn => TablesOf(txs'[o].plan) \subseteq Catalog(schemas')
    BY <2>1, <2>2, <2>3 DEF StateInv, CommitOK
  <2> QED
    BY <2>1, <2>3 DEF StateInv, CommitOK
<1> QED
  BY <1>1, <1>2, <1>3, <1>4, <1>5 DEF StateInv

(***************************************************************************)
(* The end of a transaction.                                               *)
(***************************************************************************)

Finished(t) ==
    /\ txs' \in TxMaps /\ req' \in ReqMaps
    /\ txs'[t].status = "ended" /\ txs'[t].snapshot = 0
    /\ txs'[t].held = {} /\ txs'[t].waiting = {}
    /\ \A o \in Tx \ {t} :
          /\ txs'[o].status = txs[o].status /\ txs'[o].held = txs[o].held
          /\ txs'[o].waiting = txs[o].waiting \ {t} /\ SameWork(txs'[o], txs[o])
    /\ \A o \in Tx : /\ req'[o].pc = req[o].pc /\ req'[o].wanted = req[o].wanted
                     /\ req'[o].ops = req[o].ops /\ req'[o].notified = (req[o].pc = "asleep")

\* The published state after the pruning.
Pruned(t) ==
    /\ durable' = [csn |-> durable.csn, next_row |-> durable.next_row, tables |-> durable'.tables]
    /\ TablesPruned(durable'.tables, durable.tables, durable.csn, durable.next_row,
                    Oldest(txs', durable.csn))

LEMMA FinishIs ==
  ASSUME LocksOK, DurableOK, NEW t \in Tx, Finish(t)
  PROVE  Finished(t) /\ Pruned(t)
<1> DEFINE E(o) == [txs[o] EXCEPT !.waiting = @ \ {t}]
           left == [o \in Tx |-> IF o = t THEN Ended ELSE E(o)]
<1>1. /\ txs' = left /\ req' = Notify(req)
      /\ durable' = [durable EXCEPT !.tables = PruneTables(@, Oldest(left, durable.csn))]
  BY DEF Finish
<1>2. txs \in TxMaps /\ req \in ReqMaps /\ \A o \in Tx : txs[o] \in Transactions
  BY DEF LocksOK, TxMaps
<1>3. \A o \in Tx : /\ E(o) \in Transactions /\ E(o).status = txs[o].status /\ SameWork(E(o), txs[o])
                    /\ E(o).held = txs[o].held /\ E(o).waiting = txs[o].waiting \ {t}
  BY <1>2, DropEdgeIs
<1> HIDE DEF E
<1>4. /\ txs' \in TxMaps /\ txs'[t] = Ended /\ \A o \in Tx : o # t => txs'[o] = E(o)
  BY <1>1, <1>3, NoTxType DEF TxMaps
<1>5. Notifies(req', req)
  BY <1>1, <1>2, NotifyIs
<1>6. Finished(t)
  <2>1. /\ txs'[t].status = "ended" /\ txs'[t].snapshot = 0
        /\ txs'[t].held = {} /\ txs'[t].waiting = {}
    BY <1>4, NoTxType
  <2>2. \A o \in Tx \ {t} :
          /\ txs'[o].status = txs[o].status /\ txs'[o].held = txs[o].held
          /\ txs'[o].waiting = txs[o].waiting \ {t} /\ SameWork(txs'[o], txs[o])
    BY <1>3, <1>4
  <2>3. /\ req' \in ReqMaps
        /\ \A o \in Tx : /\ req'[o].pc = req[o].pc /\ req'[o].wanted = req[o].wanted
                         /\ req'[o].ops = req[o].ops /\ req'[o].notified = (req[o].pc = "asleep")
    BY <1>5 DEF Notifies
  <2> QED
    BY <1>4, <2>1, <2>2, <2>3 DEF Finished
<1>7. Pruned(t)
  <2>1. durable.csn \in Nat /\ durable.next_row \in Nat
        /\ durable = [csn |-> durable.csn, next_row |-> durable.next_row, tables |-> durable.tables]
        /\ TablesOK(durable.tables, durable.csn, durable.next_row)
    BY MaxCsnAssumption DEF DurableOK
  <2> DEFINE old == Oldest(txs', durable.csn)
             new == PruneTables(durable.tables, old)
             c == durable.csn
             n == durable.next_row
             tables == durable.tables
  <2>2. durable' = [csn |-> c, next_row |-> n, tables |-> new]
    <3>1. durable' = [durable EXCEPT !.tables = new]
      BY <1>1, <2>1
    <3> HIDE DEF new
    <3> QED
      BY <2>1, <3>1
  <2>3. old \in Nat
    <3> DEFINE live == {txs'[u].snapshot : u \in {v \in Tx : txs'[v].status = "active"}}
    <3>1. old = IF live = {} THEN durable.csn ELSE Min(live)
      BY DEF Oldest
    <3>2. live \in SUBSET Nat
      BY <1>4, TxFields DEF TxMaps
    <3> HIDE DEF live
    <3> QED
      BY <2>1, <3>1, <3>2, MinIs
  <2>4. TablesPruned(new, tables, c, n, old)
    <3> HIDE DEF old, new, c, n, tables
    <3>1. new = PruneTables(tables, old)
      BY DEF new, tables
    <3>2. c \in Nat /\ n \in Nat /\ TablesOK(tables, c, n)
      BY <2>1 DEF c, n, tables
    <3> QED
      BY <2>3, <3>1, <3>2, PruneTablesOK
  <2>5. durable'.tables = new
    BY <2>2
  <2> HIDE DEF new
  <2> QED
    BY <2>2, <2>4, <2>5 DEF Pruned
<1> QED
  BY <1>6, <1>7

\* Pruning with the snapshots that are left disturbs no reader.
LEMMA FinishedKeeps ==
  ASSUME StateInv, NEW t \in Tx, Finish(t), schemas' = schemas, heap' = heap, recovery' = recovery
  PROVE  LocksOK' /\ DurableOK' /\ SnapshotsOK' /\ HeapOK'
<1>1. Finished(t) /\ Pruned(t)
  BY FinishIs DEF StateInv
<1>2. LocksOK'
  <2>1. txs' \in TxMaps /\ req' \in ReqMaps /\ LocksOK
    BY <1>1 DEF Finished, StateInv
  <2>2. ASSUME NEW o \in Tx
        PROVE  /\ txs'[o].held # {} => txs'[o].status = "active"
               /\ txs'[o].waiting # {} =>
                     txs'[o].status = "active" /\ req'[o].pc \in {"asleep", "failed"}
               /\ req'[o].pc # "asleep" => req'[o].wanted = {} /\ req'[o].notified = FALSE
    <3>0. /\ req'[o].pc = req[o].pc /\ req'[o].wanted = req[o].wanted
          /\ req'[o].notified = (req[o].pc = "asleep")
      BY <1>1 DEF Finished
    <3>1. CASE o = t
      BY <1>1, <2>1, <3>0, <3>1 DEF Finished, LocksOK
    <3>2. CASE o # t
      <4>1. /\ txs'[o].status = txs[o].status /\ txs'[o].held = txs[o].held
            /\ txs'[o].waiting = txs[o].waiting \ {t}
        BY <1>1, <3>2 DEF Finished
      <4> QED
        BY <2>1, <3>0, <4>1 DEF LocksOK
    <3> QED
      BY <3>1, <3>2
  <2> QED
    BY <2>1, <2>2 DEF LocksOK
<1> DEFINE new == durable'.tables
           old == Oldest(txs', durable.csn)
<1>3. /\ durable'.csn = durable.csn /\ durable'.next_row = durable.next_row
      /\ durable' = [csn |-> durable.csn, next_row |-> durable.next_row, tables |-> new]
  BY <1>1 DEF Pruned
<1>4. /\ TablesOK(new, durable.csn, durable.next_row)
      /\ \A u \in DOMAIN durable.tables : durable.tables[u].live = TRUE =>
            u \in DOMAIN new /\ new[u].live = TRUE /\ new[u].version = durable.tables[u].version
      /\ \A u, c : c \in Nat /\ old <= c => ReadAt(new, u, c) = ReadAt(durable.tables, u, c)
  BY <1>1 DEF Pruned, TablesPruned
<1>5. DurableOK'
  <2>1. durable.csn \in 0 .. MaxCsn /\ durable.next_row \in Nat
    BY DEF StateInv, DurableOK
  <2> QED
    BY <1>3, <1>4, <2>1 DEF DurableOK
<1>6. durable.csn \in Nat /\ \A o \in Tx : txs[o].snapshot <= durable.csn
  BY MaxCsnAssumption DEF StateInv, DurableOK, SnapshotsOK
<1>7. txs' \in TxMaps /\ \A o \in Tx : txs'[o].snapshot <= durable.csn
  <2>1. ASSUME NEW o \in Tx, o # t PROVE txs'[o].snapshot = txs[o].snapshot
    BY <1>1, <2>1 DEF Finished, SameWork
  <2>2. txs'[t].snapshot = 0 /\ txs' \in TxMaps
    BY <1>1 DEF Finished
  <2> QED
    BY <1>6, <2>1, <2>2
<1>8. /\ old \in Nat /\ old <= durable.csn
      /\ \A o \in Tx : txs'[o].status = "active" => old <= txs'[o].snapshot
  BY <1>6, <1>7, OldestIs
<1>9. SnapshotsOK'
  <2>1. view' = [view EXCEPT ![t] = NoRows] /\ view \in [Tx -> Heaps]
    BY DEF Finish, StateInv, SnapshotsOK
  <2>2. NoRows \in Heaps
    BY DEF NoRows, Heaps
  <2>3. view' \in [Tx -> Heaps] /\ \A o \in Tx : o # t => view'[o] = view[o]
    BY <2>1, <2>2
  <2>4. ASSUME NEW o \in Tx, txs'[o].status = "active", NEW tb \in Tables
        PROVE  view'[o][tb] = ReadAt(durable'.tables, tb, txs'[o].snapshot)
    <3>1. o # t
      BY <1>1, <2>4 DEF Finished
    <3>2. txs[o].status = "active" /\ txs'[o].snapshot = txs[o].snapshot
      BY <1>1, <2>4, <3>1 DEF Finished, SameWork
    <3>3. view[o][tb] = ReadAt(durable.tables, tb, txs[o].snapshot)
      BY <3>2 DEF StateInv, SnapshotsOK
    <3>4. txs'[o].snapshot \in Nat /\ old <= txs'[o].snapshot
      BY <1>7, <1>8, <2>4, TxFields DEF TxMaps
    <3> HIDE DEF new, old
    <3>5. ReadAt(new, tb, txs'[o].snapshot) = ReadAt(durable.tables, tb, txs'[o].snapshot)
      BY <1>4, <3>4
    <3> QED
      BY <2>3, <3>1, <3>2, <3>3, <3>5 DEF new
  <2> QED
    BY <1>3, <1>7, <2>3, <2>4 DEF SnapshotsOK
<1>10. HeapOK'
  <2>1. ASSUME NEW tb \in Tables, InSync(tb) PROVE InSync(tb)'
    <3>1. ReadAt(new, tb, durable.csn) = ReadAt(durable.tables, tb, durable.csn)
      <4> HIDE DEF new, old
      <4> QED
        BY <1>4, <1>6, <1>8
    <3>2. CASE tb \in Catalog(schemas)
      <4>1. /\ tb \in DOMAIN durable.tables
            /\ durable.tables[tb].live = TRUE /\ durable.tables[tb].version = schemas[tb]
            /\ VisibleRows(durable.tables[tb], durable.csn) = heap[tb]
        BY <2>1, <3>2 DEF InSync
      <4>2. tb \in DOMAIN new /\ new[tb].live = TRUE /\ new[tb].version = schemas[tb]
        BY <1>4, <4>1
      <4>3. VisibleRows(new[tb], durable.csn) = heap[tb]
        BY <3>1, <4>1, <4>2 DEF ReadAt
      <4> QED
        BY <1>3, <3>2, <4>2, <4>3 DEF InSync
    <3>3. CASE tb \notin Catalog(schemas)
      BY <1>3, <2>1, <3>1, <3>3 DEF InSync
    <3> QED
      BY <3>2, <3>3
  <2> QED
    BY <2>1 DEF StateInv, HeapOK
<1> QED
  BY <1>2, <1>5, <1>9, <1>10

LEMMA RollbackKeeps ==
  ASSUME StateInv, NEW t \in Tx, Rollback(t)
  PROVE  StateInv'
<1>1. /\ Finish(t) /\ ~ Committing(t)
      /\ UNCHANGED <<schemas, heap, committer, gate, recovery>>
  BY DEF Rollback
<1>2. LocksOK' /\ DurableOK' /\ SnapshotsOK' /\ HeapOK'
  BY <1>1, FinishedKeeps
<1>3. Finished(t) /\ Pruned(t)
  BY <1>1, FinishIs DEF StateInv
<1>4. CommitOK'
  <2>1. committer' = committer /\ gate' = gate /\ schemas' = schemas /\ durable'.csn = durable.csn
    BY <1>1, <1>3 DEF Pruned
  <2>2. ASSUME NEW o \in Tx, Committing(o)'
        PROVE  /\ txs'[o].status = "active" /\ req'[o].pc = "idle"
               /\ committer'.token < MaxCsn /\ committer'.token <= durable'.csn
               /\ committer'.token = durable'.csn => TablesOf(txs'[o].plan) \subseteq Catalog(schemas')
    <3>1. Committing(o) /\ o # t
      BY <1>1, <2>1, <2>2 DEF Committing
    <3>2. txs'[o].status = txs[o].status /\ txs'[o].plan = txs[o].plan /\ req'[o].pc = req[o].pc
      BY <1>3, <3>1 DEF Finished, SameWork
    <3> QED
      BY <2>1, <3>1, <3>2 DEF StateInv, CommitOK
  <2> QED
    BY <2>1, <2>2 DEF StateInv, CommitOK
<1> QED
  BY <1>2, <1>4 DEF StateInv

\* The commit mutex and the gate are free again.
LEMMA Released ==
  ASSUME committer' = NoCommitter, gate' = OpenGate
  PROVE  CommitOK'
<1>1. committer' \in [tx : Tx \cup {"none"}, token : Nat] /\ committer'.tx = "none"
  BY DEF NoCommitter
<1>2. gate' \in [stage : {"free", "apply", "finish"}, ops : Seq(Operations)] /\ gate'.stage = "free"
  BY DEF OpenGate
<1>3. \A o \in Tx : ~ Committing(o)'
  BY <1>1, TxAssumption DEF Committing
<1> QED
  BY <1>1, <1>2, <1>3 DEF CommitOK

LEMMA CommitFinishKeeps ==
  ASSUME StateInv, NEW t \in Tx, CommitFinish(t)
  PROVE  StateInv'
<1>1. Finish(t) /\ committer' = NoCommitter /\ gate' = OpenGate /\ UNCHANGED <<schemas, heap, recovery>>
  BY DEF CommitFinish
<1>2. LocksOK' /\ DurableOK' /\ SnapshotsOK' /\ HeapOK'
  BY <1>1, FinishedKeeps
<1>3. CommitOK'
  BY <1>1, Released
<1> QED
  BY <1>2, <1>3 DEF StateInv

\* Steps that concern only the commit mutex and the gate.
LEMMA SameState ==
  ASSUME StateInv, UNCHANGED <<durable, schemas, heap, txs, req, recovery, view>>
  PROVE  LocksOK' /\ DurableOK' /\ SnapshotsOK' /\ HeapOK'
<1>1. HeapOK'
  BY SameHeapOK DEF StateInv
<1>2. LocksOK'
  BY DEF StateInv, LocksOK
<1>3. DurableOK'
  BY DEF StateInv, DurableOK
<1>4. SnapshotsOK'
  BY DEF StateInv, SnapshotsOK
<1> QED
  BY <1>1, <1>2, <1>3, <1>4

LEMMA PreviewKeeps ==
  ASSUME StateInv, NEW t \in Tx, Preview(t)
  PROVE  StateInv'
<1>1. /\ durable.csn < MaxCsn /\ gate.stage = "free" /\ req[t].pc = "idle"
      /\ txs[t].status = "active" /\ TablesOf(txs[t].plan) \subseteq Catalog(schemas)
      /\ committer' = [tx |-> t, token |-> durable.csn]
      /\ UNCHANGED <<durable, schemas, heap, txs, req, gate, recovery, view>>
  BY DEF Preview, GateFree, Valid
<1>2. LocksOK' /\ DurableOK' /\ SnapshotsOK' /\ HeapOK'
  BY <1>1, SameState
<1>3. CommitOK'
  <2>1. durable.csn \in Nat /\ t # "none"
    BY MaxCsnAssumption, TxAssumption DEF StateInv, DurableOK
  <2>2. committer' \in [tx : Tx \cup {"none"}, token : Nat] /\ committer'.tx = t
        /\ committer'.token = durable.csn
    BY <1>1, <2>1
  <2>3. gate' = gate /\ gate.stage = "free"
    BY <1>1
  <2>4. ASSUME NEW o \in Tx, Committing(o)'
        PROVE  /\ txs'[o].status = "active" /\ req'[o].pc = "idle"
               /\ committer'.token < MaxCsn /\ committer'.token <= durable'.csn
               /\ committer'.token = durable'.csn => TablesOf(txs'[o].plan) \subseteq Catalog(schemas')
    <3>1. o = t
      BY <2>2, <2>4 DEF Committing
    <3> QED
      BY <1>1, <2>1, <2>2, <3>1
  <2> QED
    BY <2>2, <2>3, <2>4 DEF StateInv, CommitOK
<1> QED
  BY <1>2, <1>3 DEF StateInv

LEMMA CommitStartKeeps ==
  ASSUME StateInv, NEW t \in Tx, CommitStart(t)
  PROVE  StateInv'
<1> DEFINE ops == MergedOps(t)
           stage == IF ops = << >> THEN "finish" ELSE "apply"
<1>1. /\ Committing(t) /\ committer.token = durable.csn
      /\ TablesOf(txs[t].plan) \subseteq DOMAIN durable.tables
      /\ gate' = [stage |-> stage, ops |-> ops]
      /\ UNCHANGED <<durable, schemas, heap, txs, req, committer, recovery, view>>
  BY DEF CommitStart, CommitReady
<1>2. LocksOK' /\ DurableOK' /\ SnapshotsOK' /\ HeapOK'
  BY <1>1, SameState
<1>3. CommitOK'
  <2>1. txs[t].plan \in Seq(Operations) /\ txs[t].snapshot \in Nat
    BY TxFields DEF StateInv, LocksOK, TxMaps
  <2>2. durable.csn \in Nat /\ durable.next_row \in Nat
        /\ TablesOK(durable.tables, durable.csn, durable.next_row)
    BY MaxCsnAssumption DEF StateInv, DurableOK
  <2>3. ops \in Seq(Operations) /\ TablesOf(ops) \subseteq TablesOf(txs[t].plan)
    BY <1>1, <2>1, <2>2, MergedOpsIs
  <2> HIDE DEF ops
  <2>4. /\ gate' \in [stage : {"free", "apply", "finish"}, ops : Seq(Operations)]
        /\ gate'.ops = ops
    BY <1>1, <2>3
  <2>5. TablesOf(txs[t].plan) \subseteq Catalog(schemas) /\ committer.token < MaxCsn
    BY <1>1 DEF StateInv, CommitOK
  <2>6. TablesOf(gate'.ops) \subseteq Catalog(schemas') /\ durable'.csn < MaxCsn
    BY <1>1, <2>3, <2>4, <2>5
  <2>7. committer.tx \in Tx
    BY <1>1 DEF Committing
  <2>8. committer' = committer /\ txs' = txs /\ req' = req /\ durable' = durable /\ schemas' = schemas
    BY <1>1
  <2> QED
    BY <2>4, <2>6, <2>7, <2>8 DEF StateInv, CommitOK, Committing
<1> QED
  BY <1>2, <1>3 DEF StateInv

LEMMA CommitRefusedKeeps ==
  ASSUME StateInv, NEW t \in Tx, CommitRefused(t)
  PROVE  StateInv'
<1>1. /\ gate.stage = "free" /\ committer' = NoCommitter
      /\ UNCHANGED <<durable, schemas, heap, txs, req, gate, recovery, view>>
  BY DEF CommitRefused, GateFree
<1>2. LocksOK' /\ DurableOK' /\ SnapshotsOK' /\ HeapOK'
  BY <1>1, SameState
<1>3. CommitOK'
  <2>1. committer' \in [tx : Tx \cup {"none"}, token : Nat] /\ committer'.tx = "none"
    BY <1>1 DEF NoCommitter
  <2>2. \A o \in Tx : ~ Committing(o)'
    BY <2>1, TxAssumption DEF Committing
  <2> QED
    BY <1>1, <2>1, <2>2 DEF StateInv, CommitOK
<1> QED
  BY <1>2, <1>3 DEF StateInv

(***************************************************************************)
(* Publication.                                                            *)
(***************************************************************************)

\* What the published group may change.
Edit(newHeap, newSchemas, touched) ==
    /\ newHeap \in Heaps /\ newSchemas \in [Tables -> Nat]
    /\ touched \in SUBSET Catalog(schemas)
    /\ \A tb \in Tables \ touched : newHeap[tb] = heap[tb] /\ newSchemas[tb] = schemas[tb]
    /\ \A tb \in touched \ Catalog(newSchemas) : newHeap[tb] = << >>

\* Everything but the recovery flag, the gate and the transactions.
GroupDone(newHeap, newSchemas) ==
    /\ heap' = newHeap /\ schemas' = newSchemas
    /\ Notifies(req', req)
    /\ DurableOK' /\ durable'.csn = durable.csn + 1
    /\ ~ recovery => \A tb \in Tables : InSync(tb)'
    /\ \A tb, c : c \in Nat /\ Oldest(txs, durable.csn + 1) <= c /\ c <= durable.csn =>
          ReadAt(durable'.tables, tb, c) = ReadAt(durable.tables, tb, c)
    /\ \A c \in Nat : Oldest(txs, durable.csn + 1) <= c /\ c <= durable.csn =>
          SameSight(durable'.tables, durable.tables, c)
    /\ ~ recovery => DOMAIN durable'.tables \subseteq DOMAIN durable.tables
    /\ \A tb \in DOMAIN durable'.tables :
          Unaltered(durable'.tables[tb], durable.tables, tb, durable'.csn, durable.csn,
                    ReadAt(durable'.tables, tb, durable'.csn))

LEMMA PublishIs ==
  ASSUME StateInv, durable.csn < MaxCsn, NEW newHeap, NEW newSchemas, NEW touched,
         Edit(newHeap, newSchemas, touched), Publish(newHeap, newSchemas, touched)
  PROVE  GroupDone(newHeap, newSchemas)
<1> DEFINE at == durable.csn
           csn == at + 1
           live == Catalog(newSchemas)
           S == [tb \in live |-> newSchemas[tb]]
           C == [tb \in touched \cap live |-> newHeap[tb]]
           old == Oldest(txs, csn)
<1>1. /\ durable' = PublishState(durable, csn, S, C, old).durable
      /\ heap' = newHeap /\ schemas' = newSchemas /\ req' = Notify(req)
  BY DEF Publish
<1>2. /\ newHeap \in Heaps /\ newSchemas \in [Tables -> Nat]
      /\ touched \in SUBSET Tables /\ touched \in SUBSET Catalog(schemas)
      /\ \A tb \in Tables \ touched : newHeap[tb] = heap[tb] /\ newSchemas[tb] = schemas[tb]
      /\ \A tb \in touched \ live : newHeap[tb] = << >>
  BY DEF Edit, Catalog
<1>3. at \in Nat /\ csn \in Nat /\ at < csn /\ csn \in 0 .. MaxCsn
  BY MaxCsnAssumption DEF StateInv, DurableOK
<1>4. durable.next_row \in Nat /\ TablesOK(durable.tables, durable.csn, durable.next_row)
  BY DEF StateInv, DurableOK
<1>5. /\ DOMAIN C = touched \cap live /\ DOMAIN S = live
      /\ live \in SUBSET Tables
      /\ \A tb \in DOMAIN C : C[tb] = newHeap[tb]
      /\ \A tb \in live : S[tb] = newSchemas[tb]
  BY DEF Catalog
<1>6. DOMAIN C \in SUBSET Nat /\ IsFiniteSet(DOMAIN C) /\ DOMAIN C \in SUBSET DOMAIN S
  <2>1. DOMAIN C \in SUBSET Tables /\ Tables \in SUBSET Nat /\ IsFiniteSet(Tables)
    BY <1>5, TablesAssumption
  <2>2. IsFiniteSet(DOMAIN C)
    BY <2>1, FS_Subset
  <2> QED
    BY <1>5, <2>1, <2>2
<1>7. \A tb \in DOMAIN C : C[tb] \in Seq(Rows)
  BY <1>2, <1>5 DEF Heaps
<1>8. txs \in TxMaps /\ req \in ReqMaps /\ \A t \in Tx : txs[t].snapshot <= csn
  <2>1. txs \in TxMaps /\ req \in ReqMaps /\ \A t \in Tx : txs[t].snapshot <= at /\ txs[t].snapshot \in Nat
    BY TxFields DEF StateInv, LocksOK, SnapshotsOK, TxMaps
  <2> QED
    BY <1>3, <2>1
<1>9. old \in Nat /\ old <= csn
  BY <1>3, <1>8, OldestIs
<1> HIDE DEF S, C, old, live
<1>10. StatePublished(durable', durable, csn, S, C, old)
  <2> HIDE DEF csn, at
  <2>1. durable.csn \in Nat /\ (durable.csn < csn \/ DOMAIN durable.tables = {})
    BY <1>3 DEF at
  <2> QED
    BY <1>1, <1>3, <1>4, <1>6, <1>7, <1>9, <2>1, PublishStateOK
<1> DEFINE T == durable'.tables
<1>11. /\ durable' = [csn |-> csn, next_row |-> durable'.next_row, tables |-> T]
       /\ durable'.csn = csn /\ durable'.next_row \in Nat /\ TablesOK(T, csn, durable'.next_row)
  BY <1>10 DEF StatePublished
<1>12. /\ \A t \in DOMAIN C :
          /\ t \in DOMAIN T /\ T[t].live = TRUE
          /\ T[t].version = S[t]
          /\ VisibleRows(T[t], csn) = C[t]
  BY <1>10 DEF StatePublished
<1>13. \A t \in DOMAIN durable.tables :
          t \in DOMAIN S /\ t \notin DOMAIN C /\ durable.tables[t].live = TRUE =>
             /\ t \in DOMAIN T /\ T[t].live = TRUE
             /\ T[t].version = durable.tables[t].version
             /\ VisibleRows(T[t], csn) = VisibleRows(durable.tables[t], durable.csn)
  BY <1>10 DEF StatePublished
<1>14. \A t : /\ t \notin DOMAIN S
              /\ t \in DOMAIN durable.tables =>
                    \/ durable.tables[t].live = TRUE
                    \/ ReadAt(durable.tables, t, durable.csn) = << >>
              => ReadAt(T, t, csn) = << >>
  BY <1>10 DEF StatePublished
<1>15. \A t, c : c \in Nat /\ old <= c /\ c < csn => ReadAt(T, t, c) = ReadAt(durable.tables, t, c)
  BY <1>10 DEF StatePublished
<1>16. DurableOK' /\ durable'.csn = durable.csn + 1
  BY <1>3, <1>11 DEF DurableOK
<1>17. ASSUME ~ recovery, NEW tb \in Tables PROVE InSync(tb)'
  <2>1. InSync(tb) /\ schemas' = newSchemas /\ heap' = newHeap /\ durable'.csn = csn
    BY <1>1, <1>11, <1>17 DEF StateInv, HeapOK
  <2>2. CASE tb \in live /\ tb \in touched
    <3>1. tb \in DOMAIN C
      BY <1>5, <2>2
    <3>2. /\ tb \in DOMAIN T /\ T[tb].live = TRUE /\ T[tb].version = newSchemas[tb]
          /\ VisibleRows(T[tb], csn) = newHeap[tb]
      BY <1>5, <1>12, <2>2, <3>1
    <3>3. tb \in Catalog(schemas')
      BY <2>1, <2>2 DEF live
    <3> QED
      BY <2>1, <3>2, <3>3 DEF InSync
  <2>3. CASE tb \in live /\ tb \notin touched
    <3>1. newHeap[tb] = heap[tb] /\ newSchemas[tb] = schemas[tb] /\ tb \notin DOMAIN C /\ tb \in DOMAIN S
      BY <1>2, <1>5, <2>3
    <3>2. tb \in Catalog(schemas)
      BY <2>3, <3>1 DEF live, Catalog
    <3>3. /\ tb \in DOMAIN durable.tables
          /\ durable.tables[tb].live = TRUE /\ durable.tables[tb].version = schemas[tb]
          /\ VisibleRows(durable.tables[tb], durable.csn) = heap[tb]
      BY <2>1, <3>2 DEF InSync
    <3>4. /\ tb \in DOMAIN T /\ T[tb].live = TRUE
          /\ T[tb].version = schemas[tb] /\ VisibleRows(T[tb], csn) = heap[tb]
      BY <1>13, <3>1, <3>3
    <3>5. tb \in Catalog(schemas')
      BY <2>1, <2>3 DEF live
    <3> QED
      BY <2>1, <3>1, <3>4, <3>5 DEF InSync
  <2>4. CASE tb \notin live
    <3>1. tb \notin Catalog(schemas') /\ tb \notin DOMAIN S
      BY <1>5, <2>1, <2>4 DEF live
    <3>2. tb \in DOMAIN durable.tables =>
             durable.tables[tb].live = TRUE \/ ReadAt(durable.tables, tb, durable.csn) = << >>
      BY <2>1 DEF InSync
    <3>3. ReadAt(T, tb, csn) = << >>
      BY <1>14, <3>1, <3>2
    <3>4. newHeap[tb] = << >>
      <4>1. CASE tb \in touched
        BY <1>2, <2>4, <4>1
      <4>2. CASE tb \notin touched
        <5>1. newHeap[tb] = heap[tb] /\ newSchemas[tb] = schemas[tb]
          BY <1>2, <4>2
        <5>2. tb \notin Catalog(schemas)
          BY <2>4, <5>1 DEF live, Catalog
        <5> QED
          BY <2>1, <5>1, <5>2 DEF InSync
      <4> QED
        BY <4>1, <4>2
    <3> QED
      BY <2>1, <3>1, <3>3, <3>4 DEF InSync
  <2> QED
    BY <2>2, <2>3, <2>4
<1>18. Notifies(req', req)
  BY <1>1, <1>8, NotifyIs
<1>19. \A tb, c : c \in Nat /\ Oldest(txs, durable.csn + 1) <= c /\ c <= durable.csn =>
          ReadAt(durable'.tables, tb, c) = ReadAt(durable.tables, tb, c)
  BY <1>3, <1>15 DEF old
<1>20. \A tb \in DOMAIN durable'.tables :
          Unaltered(durable'.tables[tb], durable.tables, tb, durable'.csn, durable.csn,
                    ReadAt(durable'.tables, tb, durable'.csn))
  BY <1>10 DEF StatePublished
<1>21. \A c \in Nat : Oldest(txs, durable.csn + 1) <= c /\ c <= durable.csn =>
          SameSight(durable'.tables, durable.tables, c)
  <2>1. \A c \in Nat : old <= c /\ c < csn => SameSight(durable'.tables, durable.tables, c)
    BY <1>10 DEF StatePublished
  <2> QED
    BY <1>3, <2>1 DEF old
<1>22. ASSUME ~ recovery PROVE DOMAIN durable'.tables \subseteq DOMAIN durable.tables
  <2>1. DOMAIN durable'.tables \subseteq DOMAIN durable.tables \cup DOMAIN C
    BY <1>10 DEF StatePublished
  <2>2. DOMAIN C \subseteq Catalog(schemas)
    BY <1>2, <1>5
  <2>3. Catalog(schemas) \subseteq DOMAIN durable.tables
    BY <1>22 DEF StateInv, HeapOK, InSync, Catalog
  <2> QED
    BY <2>1, <2>2, <2>3
<1> QED
  BY <1>1, <1>16, <1>17, <1>18, <1>19, <1>20, <1>21, <1>22 DEF GroupDone

\* A published group disturbs neither the locks nor a reader.
LEMMA GroupKeeps ==
  ASSUME StateInv, NEW newHeap, NEW newSchemas, newHeap \in Heaps, newSchemas \in [Tables -> Nat],
         GroupDone(newHeap, newSchemas), view' = view, recovery' \in BOOLEAN,
         ~ recovery' => ~ recovery, txs' \in TxMaps,
         \A t \in Tx : /\ txs'[t].snapshot = txs[t].snapshot
                       /\ txs'[t].status = "active" => txs[t].status = "active"
  PROVE  DurableOK' /\ SnapshotsOK' /\ HeapOK'
<1>1. DurableOK' /\ durable'.csn = durable.csn + 1 /\ heap' = newHeap /\ schemas' = newSchemas
  BY DEF GroupDone
<1>2. HeapOK'
  <2>1. ~ recovery' => \A tb \in Tables : InSync(tb)'
    BY DEF GroupDone
  <2> QED
    BY <1>1, <2>1 DEF HeapOK
<1>3. SnapshotsOK'
  <2>1. /\ view \in [Tx -> Heaps] /\ durable.csn \in Nat /\ txs \in TxMaps
        /\ \A t \in Tx : txs[t].snapshot <= durable.csn /\ txs[t].snapshot \in Nat
    BY MaxCsnAssumption, TxFields DEF StateInv, SnapshotsOK, DurableOK, LocksOK, TxMaps
  <2>2. durable.csn + 1 \in Nat /\ \A t \in Tx : txs[t].snapshot <= durable.csn + 1
    BY <2>1
  <2>3. \A t \in Tx : txs[t].status = "active" => Oldest(txs, durable.csn + 1) <= txs[t].snapshot
    BY <2>1, <2>2, OldestIs
  <2>4. ASSUME NEW t \in Tx, txs'[t].status = "active", NEW tb \in Tables
        PROVE  view'[t][tb] = ReadAt(durable'.tables, tb, txs'[t].snapshot)
    <3>1. txs[t].status = "active" /\ txs'[t].snapshot = txs[t].snapshot
      BY <2>4
    <3>2. view[t][tb] = ReadAt(durable.tables, tb, txs[t].snapshot)
      BY <3>1 DEF StateInv, SnapshotsOK
    <3>3. ReadAt(durable'.tables, tb, txs[t].snapshot) = ReadAt(durable.tables, tb, txs[t].snapshot)
      BY <2>1, <2>3, <3>1 DEF GroupDone
    <3> QED
      BY <3>1, <3>2, <3>3
  <2>5. \A t \in Tx : txs'[t].snapshot <= durable'.csn
    BY <1>1, <2>2
  <2> QED
    BY <2>1, <2>4, <2>5 DEF SnapshotsOK
<1> QED
  BY <1>1, <1>2, <1>3

LEMMA NotifyKeepsLocks ==
  ASSUME LocksOK, txs' = txs, Notifies(req', req)
  PROVE  LocksOK'
<1>1. ASSUME NEW t \in Tx
      PROVE  /\ req'[t].pc = req[t].pc /\ req'[t].wanted = req[t].wanted
             /\ req'[t].notified = (req[t].pc = "asleep")
  BY DEF Notifies
<1>2. req' \in ReqMaps
  BY DEF Notifies
<1>3. ASSUME NEW t \in Tx
      PROVE  /\ txs'[t].held # {} => txs'[t].status = "active"
             /\ txs'[t].waiting # {} =>
                   txs'[t].status = "active" /\ req'[t].pc \in {"asleep", "failed"}
             /\ req'[t].pc # "asleep" => req'[t].wanted = {} /\ req'[t].notified = FALSE
  BY <1>1 DEF LocksOK
<1> QED
  BY <1>2, <1>3 DEF LocksOK

\* A published group that leaves the transactions as they are.
LEMMA PublishKeeps ==
  ASSUME StateInv, durable.csn < MaxCsn, NEW newHeap, NEW newSchemas, NEW touched,
         Edit(newHeap, newSchemas, touched), Publish(newHeap, newSchemas, touched),
         UNCHANGED <<txs, committer, view>>, recovery' \in BOOLEAN, ~ recovery' => ~ recovery,
         gate' \in [stage : {"free", "finish"}, ops : Seq(Operations)],
         gate'.stage # "free" => committer.tx \in Tx
  PROVE  StateInv'
<1>1. GroupDone(newHeap, newSchemas)
  BY PublishIs
<1>2. newHeap \in Heaps /\ newSchemas \in [Tables -> Nat] /\ txs' \in TxMaps
  BY DEF Edit, StateInv, LocksOK
<1>3. DurableOK' /\ SnapshotsOK' /\ HeapOK'
  BY <1>1, <1>2, GroupKeeps
<1>4. LocksOK'
  BY <1>1, NotifyKeepsLocks DEF GroupDone, StateInv
<1>5. CommitOK'
  <2>1. /\ committer' = committer /\ txs' = txs /\ durable'.csn = durable.csn + 1
        /\ durable.csn \in Nat /\ committer \in [tx : Tx \cup {"none"}, token : Nat]
    BY <1>1, MaxCsnAssumption DEF GroupDone, StateInv, DurableOK, CommitOK
  <2>2. ASSUME NEW t \in Tx, Committing(t)'
        PROVE  /\ txs'[t].status = "active" /\ req'[t].pc = "idle"
               /\ committer'.token < MaxCsn /\ committer'.token <= durable'.csn
               /\ committer'.token # durable'.csn
    <3>1. Committing(t)
      BY <2>1, <2>2 DEF Committing
    <3>2. req'[t].pc = req[t].pc
      BY <1>1 DEF GroupDone, Notifies
    <3>3. /\ txs[t].status = "active" /\ req[t].pc = "idle"
          /\ committer.token < MaxCsn /\ committer.token <= durable.csn
      BY <3>1 DEF StateInv, CommitOK
    <3>4. committer.token \in Nat
      BY <2>1
    <3> QED
      BY <2>1, <3>2, <3>3, <3>4
  <2>3. gate' \in [stage : {"free", "apply", "finish"}, ops : Seq(Operations)] /\ gate'.stage # "apply"
    OBVIOUS
  <2> QED
    BY <2>1, <2>2, <2>3 DEF CommitOK
<1> QED
  BY <1>3, <1>4, <1>5 DEF StateInv

\* The operations of the gate change only their tables.
LEMMA ApplyEdit ==
  ASSUME StateInv, gate.stage = "apply"
  PROVE  /\ Edit(HeapAfterAll(heap, gate.ops), schemas, TablesOf(gate.ops))
         /\ gate.ops \in Seq(Operations) /\ durable.csn < MaxCsn
<1>1. /\ gate.ops \in Seq(Operations) /\ TablesOf(gate.ops) \subseteq Catalog(schemas)
      /\ durable.csn < MaxCsn /\ heap \in Heaps /\ schemas \in [Tables -> Nat]
  BY DEF StateInv, CommitOK, HeapOK
<1>2. /\ HeapAfterAll(heap, gate.ops) \in Heaps
      /\ \A tb \in Tables \ TablesOf(gate.ops) : HeapAfterAll(heap, gate.ops)[tb] = heap[tb]
  BY <1>1, HeapAfterAllType
<1> QED
  BY <1>1, <1>2 DEF Edit

LEMMA CommitApplyKeeps ==
  ASSUME StateInv, NEW t \in Tx, CommitApply(t)
  PROVE  StateInv'
<1>1. /\ gate.stage = "apply" /\ Committing(t)
      /\ Publish(HeapAfterAll(heap, gate.ops), schemas, TablesOf(gate.ops))
      /\ gate' = [gate EXCEPT !.stage = "finish"]
      /\ UNCHANGED <<txs, committer, recovery, view>>
  BY DEF CommitApply
<1>2. /\ Edit(HeapAfterAll(heap, gate.ops), schemas, TablesOf(gate.ops))
      /\ gate.ops \in Seq(Operations) /\ durable.csn < MaxCsn
  BY <1>1, ApplyEdit
<1>3. gate \in [stage : {"free", "apply", "finish"}, ops : Seq(Operations)]
      /\ recovery' \in BOOLEAN /\ recovery' = recovery /\ committer.tx \in Tx
  BY <1>1 DEF StateInv, CommitOK, HeapOK, Committing
<1>4. gate' \in [stage : {"free", "finish"}, ops : Seq(Operations)]
  BY <1>1, <1>3
<1> QED
  BY <1>1, <1>2, <1>3, <1>4, PublishKeeps

LEMMA FreeGate ==
  ASSUME StateInv, DirectReady, gate' = gate
  PROVE  /\ gate' \in [stage : {"free", "finish"}, ops : Seq(Operations)]
         /\ gate'.stage = "free" /\ ~ recovery /\ durable.csn < MaxCsn
         /\ heap \in Heaps /\ schemas \in [Tables -> Nat]
BY DEF StateInv, CommitOK, HeapOK, DirectReady, GateFree

LEMMA DirectEdit ==
  ASSUME StateInv, NEW op \in Operations, op.table \in Catalog(schemas)
  PROVE  Edit(HeapAfter(heap, op), schemas, {op.table})
<1>1. heap \in Heaps /\ schemas \in [Tables -> Nat]
  BY DEF StateInv, HeapOK
<1>2. /\ HeapAfter(heap, op) \in Heaps
      /\ \A tb \in Tables : tb # op.table => HeapAfter(heap, op)[tb] = heap[tb]
  BY <1>1, HeapAfterType
<1> QED
  BY <1>1, <1>2 DEF Edit

LEMMA DirectWriteKeeps ==
  ASSUME StateInv, NEW op \in DirectOps, DirectWrite(op)
  PROVE  StateInv'
<1>1. /\ DirectReady /\ op.table \in Catalog(schemas)
      /\ Publish(HeapAfter(heap, op), schemas, {op.table})
      /\ UNCHANGED <<txs, committer, gate, recovery, view>>
  BY DEF DirectWrite
<1>2. op \in Operations
  BY RowsAssumption
<1>3. Edit(HeapAfter(heap, op), schemas, {op.table})
  BY <1>1, <1>2, DirectEdit
<1>4. /\ gate' \in [stage : {"free", "finish"}, ops : Seq(Operations)]
      /\ gate'.stage = "free" /\ durable.csn < MaxCsn
  BY <1>1, FreeGate
<1>5. recovery' = recovery /\ recovery' \in BOOLEAN
  BY <1>1 DEF StateInv, HeapOK
<1> QED
  BY <1>1, <1>3, <1>4, <1>5, PublishKeeps

LEMMA DropTableKeeps ==
  ASSUME StateInv, NEW tb, DropTable(tb)
  PROVE  StateInv'
<1> DEFINE H == [heap EXCEPT ![tb] = << >>]
           S == [schemas EXCEPT ![tb] = Absent]
<1>1. /\ DirectReady /\ tb \in Catalog(schemas) /\ tb \in Tables
      /\ Publish(H, S, {tb})
      /\ UNCHANGED <<txs, committer, gate, recovery, view>>
  BY DEF DropTable, Catalog
<1>2. /\ gate' \in [stage : {"free", "finish"}, ops : Seq(Operations)]
      /\ gate'.stage = "free" /\ durable.csn < MaxCsn
      /\ heap \in Heaps /\ schemas \in [Tables -> Nat]
  BY <1>1, FreeGate
<1>3. Edit(H, S, {tb})
  <2>1. H \in Heaps /\ H[tb] = << >> /\ \A u \in Tables \ {tb} : H[u] = heap[u]
    BY <1>1, <1>2 DEF Heaps
  <2>2. S \in [Tables -> Nat] /\ \A u \in Tables \ {tb} : S[u] = schemas[u]
    BY <1>1, <1>2 DEF Absent
  <2> HIDE DEF H, S
  <2> QED
    BY <1>1, <2>1, <2>2 DEF Edit
<1>4. recovery' = recovery /\ recovery' \in BOOLEAN
  BY <1>1 DEF StateInv, HeapOK
<1> HIDE DEF H, S
<1> QED
  BY <1>1, <1>2, <1>3, <1>4, PublishKeeps

LEMMA ReplaceSchemaKeeps ==
  ASSUME StateInv, NEW tb, ReplaceSchema(tb)
  PROVE  StateInv'
<1> DEFINE S == [schemas EXCEPT ![tb] = @ + 1]
<1>1. /\ DirectReady /\ tb \in Catalog(schemas) /\ tb \in Tables
      /\ Publish(heap, S, {tb})
      /\ UNCHANGED <<txs, committer, gate, recovery, view>>
  BY DEF ReplaceSchema, Catalog
<1>2. /\ gate' \in [stage : {"free", "finish"}, ops : Seq(Operations)]
      /\ gate'.stage = "free" /\ durable.csn < MaxCsn
      /\ heap \in Heaps /\ schemas \in [Tables -> Nat]
  BY <1>1, FreeGate
<1>3. Edit(heap, S, {tb})
  <2>1. S \in [Tables -> Nat] /\ S[tb] = schemas[tb] + 1 /\ \A u \in Tables \ {tb} : S[u] = schemas[u]
    BY <1>1, <1>2
  <2>2. S[tb] # Absent
    BY <1>1, <1>2, <2>1 DEF Absent
  <2>3. tb \in Catalog(S)
    BY <1>1, <2>2 DEF Catalog
  <2> HIDE DEF S
  <2> QED
    BY <1>1, <1>2, <2>1, <2>3 DEF Edit
<1>4. recovery' = recovery /\ recovery' \in BOOLEAN
  BY <1>1 DEF StateInv, HeapOK
<1> HIDE DEF S
<1> QED
  BY <1>1, <1>2, <1>3, <1>4, PublishKeeps

\* A request that fails before the publication seals the database.
LEMMA SealedKeeps ==
  ASSUME StateInv, UNCHANGED <<durable, schemas, view>>, heap' \in Heaps, recovery' = TRUE,
         txs' \in TxMaps,
         \A t \in Tx : /\ txs'[t].snapshot = txs[t].snapshot
                       /\ txs'[t].status = "active" => txs[t].status = "active"
  PROVE  DurableOK' /\ SnapshotsOK' /\ HeapOK'
<1>1. DurableOK'
  BY DEF StateInv, DurableOK
<1>2. HeapOK'
  BY DEF StateInv, HeapOK
<1>3. SnapshotsOK'
  <2>1. ASSUME NEW t \in Tx
        PROVE  /\ txs'[t].snapshot <= durable'.csn
               /\ txs'[t].status = "active" =>
                     \A tb \in Tables : view'[t][tb] = ReadAt(durable'.tables, tb, txs'[t].snapshot)
    BY DEF StateInv, SnapshotsOK
  <2> QED
    BY <2>1 DEF StateInv, SnapshotsOK
<1> QED
  BY <1>1, <1>2, <1>3

LEMMA DirectFailKeeps ==
  ASSUME StateInv, NEW op \in DirectOps, DirectFail(op)
  PROVE  StateInv'
<1>1. /\ DirectReady /\ op.table \in Catalog(schemas) /\ recovery' = TRUE
      /\ UNCHANGED <<txs, committer, gate, view>>
  BY DEF DirectFail
<1>2. op \in Operations
  BY RowsAssumption
<1>3. Edit(HeapAfter(heap, op), schemas, {op.table})
  BY <1>1, <1>2, DirectEdit
<1>4. /\ gate' \in [stage : {"free", "finish"}, ops : Seq(Operations)]
      /\ gate'.stage = "free" /\ durable.csn < MaxCsn /\ heap \in Heaps
  BY <1>1, FreeGate
<1>5. CASE Publish(HeapAfter(heap, op), schemas, {op.table})
  BY <1>1, <1>3, <1>4, <1>5, PublishKeeps
<1>6. CASE heap' \in {heap, HeapAfter(heap, op)} /\ UNCHANGED <<durable, schemas, req>>
  <2>1. heap' \in Heaps
    BY <1>3, <1>4, <1>6 DEF Edit
  <2>2. txs' \in TxMaps /\ txs' = txs
    BY <1>1 DEF StateInv, LocksOK
  <2>3. DurableOK' /\ SnapshotsOK' /\ HeapOK'
    BY <1>1, <1>6, <2>1, <2>2, SealedKeeps
  <2>4. LocksOK'
    BY <1>1, <1>6 DEF StateInv, LocksOK
  <2>5. CommitOK'
    BY <1>1, <1>6 DEF StateInv, CommitOK, Committing
  <2> QED
    BY <2>3, <2>4, <2>5 DEF StateInv
<1> QED
  BY <1>5, <1>6 DEF DirectFail

\* fail_all().
AllFailed ==
    /\ txs' \in TxMaps
    /\ \A t \in Tx : /\ txs'[t].status = IF txs[t].status = "active" THEN "aborted" ELSE txs[t].status
                     /\ txs'[t].held = {} /\ txs'[t].waiting = {}
                     /\ txs'[t].snapshot = txs[t].snapshot

LEMMA FailAllIs ==
  ASSUME StateInv,
         txs' = [o \in Tx |-> IF Known(o)
                              THEN [txs[o] EXCEPT !.status = "aborted", !.held = {}, !.waiting = {}]
                              ELSE txs[o]]
  PROVE  AllFailed
<1> DEFINE A(o) == [txs[o] EXCEPT !.status = "aborted", !.held = {}, !.waiting = {}]
<1>1. \A o \in Tx : txs[o] \in Transactions /\ txs[o].status \in Statuses
  BY DEF StateInv, LocksOK, TxMaps, Transactions
<1>2. \A o \in Tx : /\ A(o) \in Transactions /\ A(o).status = "aborted" /\ SameWork(A(o), txs[o])
                    /\ A(o).held = {} /\ A(o).waiting = {}
  BY <1>1, AbortRecord
<1>3. txs' = [o \in Tx |-> IF Known(o) THEN A(o) ELSE txs[o]]
  OBVIOUS
<1> HIDE DEF A
<1>4. txs' \in TxMaps /\ \A o \in Tx : txs'[o] = IF Known(o) THEN A(o) ELSE txs[o]
  BY <1>1, <1>2, <1>3 DEF TxMaps
<1>5. ASSUME NEW t \in Tx
      PROVE  /\ txs'[t].status = IF txs[t].status = "active" THEN "aborted" ELSE txs[t].status
             /\ txs'[t].held = {} /\ txs'[t].waiting = {} /\ txs'[t].snapshot = txs[t].snapshot
  <2>1. CASE Known(t)
    BY <1>2, <1>4, <2>1 DEF Known, SameWork
  <2>2. CASE ~ Known(t)
    <3>1. txs'[t] = txs[t] /\ txs[t].status # "active"
      BY <1>4, <2>2 DEF Known
    <3>2. txs[t].held = {} /\ txs[t].waiting = {}
      BY <3>1 DEF StateInv, LocksOK
    <3> QED
      BY <3>1, <3>2
  <2> QED
    BY <2>1, <2>2
<1> QED
  BY <1>4, <1>5 DEF AllFailed

LEMMA CommitFailIs ==
  ASSUME StateInv, NEW t \in Tx, CommitFail(t)
  PROVE  AllFailed /\ Notifies(req', req) /\ StateInv'
<1>1. /\ gate.stage = "apply" /\ recovery' = TRUE /\ gate' = OpenGate /\ committer' = NoCommitter
      /\ view' = view
  BY DEF CommitFail
<1>2. AllFailed
  BY FailAllIs DEF CommitFail
<1>3. /\ Edit(HeapAfterAll(heap, gate.ops), schemas, TablesOf(gate.ops))
      /\ gate.ops \in Seq(Operations) /\ durable.csn < MaxCsn
  BY <1>1, ApplyEdit
<1>4. /\ txs' \in TxMaps
      /\ \A o \in Tx : /\ txs'[o].snapshot = txs[o].snapshot
                       /\ txs'[o].status = "active" => txs[o].status = "active"
  BY <1>2 DEF AllFailed
<1>5. CommitOK'
  BY <1>1, Released
<1>6. Notifies(req', req) => LocksOK'
  <2> SUFFICES ASSUME Notifies(req', req) PROVE LocksOK'
    OBVIOUS
  <2>1. \A o \in Tx : /\ req'[o].pc = req[o].pc /\ req'[o].wanted = req[o].wanted
                      /\ req'[o].notified = (req[o].pc = "asleep")
    BY DEF Notifies
  <2>2. \A o \in Tx : req[o].pc # "asleep" => req[o].wanted = {}
    BY DEF StateInv, LocksOK
  <2> QED
    BY <1>2, <2>1, <2>2 DEF LocksOK, AllFailed, Notifies
<1>7. CASE Publish(HeapAfterAll(heap, gate.ops), schemas, TablesOf(gate.ops))
  <2>1. GroupDone(HeapAfterAll(heap, gate.ops), schemas)
    BY <1>3, <1>7, PublishIs
  <2>2. HeapAfterAll(heap, gate.ops) \in Heaps /\ schemas \in [Tables -> Nat]
    BY <1>3 DEF Edit
  <2>3. DurableOK' /\ SnapshotsOK' /\ HeapOK'
    BY <1>1, <1>4, <2>1, <2>2, GroupKeeps
  <2>4. Notifies(req', req)
    BY <2>1 DEF GroupDone
  <2> QED
    BY <1>2, <1>5, <1>6, <2>3, <2>4 DEF StateInv
<1>8. CASE /\ \E n \in 0 .. Len(gate.ops) : heap' = HeapAfterAll(heap, SubSeq(gate.ops, 1, n))
           /\ req' = Notify(req)
           /\ UNCHANGED <<durable, schemas>>
  <2>1. PICK n \in 0 .. Len(gate.ops) : heap' = HeapAfterAll(heap, SubSeq(gate.ops, 1, n))
    BY <1>8
  <2>2. SubSeq(gate.ops, 1, n) \in Seq(Operations)
    BY <1>3
  <2>3. heap \in Heaps /\ req \in ReqMaps
    BY DEF StateInv, HeapOK, LocksOK
  <2>4. heap' \in Heaps
    BY <2>1, <2>2, <2>3, HeapAfterAllType
  <2>5. Notifies(req', req)
    BY <1>8, <2>3, NotifyIs
  <2>6. DurableOK' /\ SnapshotsOK' /\ HeapOK'
    BY <1>1, <1>4, <1>8, <2>4, SealedKeeps
  <2> QED
    BY <1>2, <1>5, <1>6, <2>5, <2>6 DEF StateInv
<1> QED
  BY <1>7, <1>8 DEF CommitFail

(***************************************************************************)
(* The initial state.                                                      *)
(***************************************************************************)

LEMMA InitKeeps ==
  ASSUME Init
  PROVE  StateInv
<1> DEFINE D0 == [csn |-> 0, next_row |-> 0, tables |-> EmptyFn]
<1>1. /\ schemas = [tb \in Tables |-> 1] /\ heap = InitRows
      /\ durable = PublishState(D0, 0, schemas, heap, 0).durable
      /\ txs = [t \in Tx |-> NoTx] /\ req = [t \in Tx |-> IdleReq]
      /\ committer = NoCommitter /\ gate = OpenGate /\ recovery = FALSE
      /\ view = [t \in Tx |-> NoRows]
  BY DEF Init
<1>2. /\ heap \in Heaps /\ schemas \in [Tables -> Nat] /\ DOMAIN heap = Tables /\ DOMAIN schemas = Tables
      /\ \A tb \in DOMAIN heap : heap[tb] \in Seq(Rows)
  BY <1>1, RowsAssumption DEF Heaps
<1>3. D0.csn = 0 /\ D0.next_row = 0 /\ DOMAIN D0.tables = {} /\ D0.tables = EmptyFn
  BY DEF EmptyFn
<1> HIDE DEF D0
<1>4. D0.csn \in Nat /\ D0.next_row \in Nat /\ TablesOK(D0.tables, D0.csn, D0.next_row)
  BY <1>3 DEF TablesOK
<1>5. StatePublished(durable, D0, 0, schemas, heap, 0)
  <2>1. DOMAIN heap \in SUBSET Nat /\ IsFiniteSet(DOMAIN heap) /\ DOMAIN heap \in SUBSET DOMAIN schemas
    BY <1>2, TablesAssumption
  <2> DEFINE z == 0
  <2>2. durable = PublishState(D0, z, schemas, heap, z).durable /\ z \in Nat /\ z <= z
    BY <1>1
  <2> HIDE DEF z
  <2>3. StatePublished(durable, D0, z, schemas, heap, z)
    BY <1>2, <1>3, <1>4, <2>1, <2>2, PublishStateOK
  <2> QED
    BY <2>3 DEF z
<1>6. DurableOK
  <2>1. /\ durable = [csn |-> 0, next_row |-> durable.next_row, tables |-> durable.tables]
        /\ durable.csn = 0 /\ durable.next_row \in Nat /\ TablesOK(durable.tables, 0, durable.next_row)
    BY <1>5 DEF StatePublished
  <2> QED
    BY <2>1, MaxCsnAssumption DEF DurableOK
<1>7. durable.csn = 0
  BY <1>5 DEF StatePublished
<1>8. HeapOK
  <2>1. ASSUME NEW tb \in Tables PROVE InSync(tb)
    <3>1. /\ tb \in DOMAIN durable.tables /\ durable.tables[tb].live = TRUE
          /\ durable.tables[tb].version = schemas[tb]
          /\ VisibleRows(durable.tables[tb], 0) = heap[tb]
      BY <1>2, <1>5 DEF StatePublished
    <3>2. tb \in Catalog(schemas)
      BY <1>1 DEF Catalog, Absent
    <3> QED
      BY <1>7, <3>1, <3>2 DEF InSync
  <2> QED
    BY <1>1, <1>2, <2>1 DEF HeapOK
<1>9. LocksOK
  <2>1. txs \in TxMaps /\ req \in ReqMaps
    BY <1>1, NoTxType, IdleReqType DEF TxMaps, ReqMaps
  <2>2. \A t \in Tx : txs[t] = NoTx /\ req[t] = IdleReq
    BY <1>1
  <2> QED
    BY <2>1, <2>2, NoTxType, IdleReqType DEF LocksOK
<1>10. SnapshotsOK
  <2>1. view \in [Tx -> Heaps]
    BY <1>1 DEF NoRows, Heaps
  <2>2. \A t \in Tx : txs[t] = NoTx
    BY <1>1
  <2> QED
    BY <1>7, <2>1, <2>2, NoTxType DEF SnapshotsOK
<1>11. CommitOK
  <2>1. committer \in [tx : Tx \cup {"none"}, token : Nat] /\ committer.tx = "none"
    BY <1>1 DEF NoCommitter
  <2>2. gate \in [stage : {"free", "apply", "finish"}, ops : Seq(Operations)] /\ gate.stage = "free"
    BY <1>1 DEF OpenGate
  <2>3. \A o \in Tx : ~ Committing(o)
    BY <2>1, TxAssumption DEF Committing
  <2> QED
    BY <2>1, <2>2, <2>3 DEF CommitOK
<1> QED
  BY <1>6, <1>8, <1>9, <1>10, <1>11 DEF StateInv

(***************************************************************************)
(* The theorems.                                                           *)
(***************************************************************************)

LEMMA StutterKeeps ==
  ASSUME StateInv, UNCHANGED vars
  PROVE  StateInv'
<1>1. UNCHANGED <<durable, schemas, heap, txs, req, committer, gate, recovery, view>>
  BY DEF vars
<1>2. LocksOK' /\ DurableOK' /\ SnapshotsOK' /\ HeapOK'
  BY <1>1, SameState
<1>3. CommitOK'
  BY <1>1 DEF StateInv, CommitOK, Committing
<1> QED
  BY <1>2, <1>3 DEF StateInv

LEMMA StepKeeps ==
  ASSUME StateInv, [Next]_vars
  PROVE  StateInv'
<1>1. ASSUME NEW t \in Tx, NEW s \in BOOLEAN, Begin(t, s) PROVE StateInv'
  BY <1>1, BeginIs, BegunKeeps
<1>2. ASSUME NEW t \in Tx, NEW ops \in Plans, NEW reads \in ReadSets, Lock(t, ops, reads)
      PROVE  StateInv'
  <2>1. Asked(t)
    BY <1>2, LockIs
  <2> QED
    BY <2>1, AskedKeeps
<1>3. ASSUME NEW t \in Tx, Wake(t) PROVE StateInv'
  <2>1. Resumed(t) \/ Returned(t)
    BY <1>3, WakeIs
  <2> QED
    BY <2>1, AskedKeeps, ReturnedKeeps
<1>4. ASSUME NEW t \in Tx, Timeout(t) PROVE StateInv'
  <2>1. Resumed(t)
    BY <1>4, ResumeIs DEF Timeout, Others
  <2> QED
    BY <2>1, AskedKeeps
<1>5. ASSUME NEW t \in Tx, FailLock(t) PROVE StateInv'
  BY <1>5, FailLockIs, FailedKeeps
<1>6. ASSUME NEW t \in Tx, Rollback(t) PROVE StateInv'
  BY <1>6, RollbackKeeps
<1>7. ASSUME NEW t \in Tx, Preview(t) PROVE StateInv'
  BY <1>7, PreviewKeeps
<1>8. ASSUME NEW t \in Tx, CommitStart(t) PROVE StateInv'
  BY <1>8, CommitStartKeeps
<1>9. ASSUME NEW t \in Tx, CommitRefused(t) PROVE StateInv'
  BY <1>9, CommitRefusedKeeps
<1>10. ASSUME NEW t \in Tx, CommitApply(t) PROVE StateInv'
  BY <1>10, CommitApplyKeeps
<1>11. ASSUME NEW t \in Tx, CommitFail(t) PROVE StateInv'
  BY <1>11, CommitFailIs
<1>12. ASSUME NEW t \in Tx, CommitFinish(t) PROVE StateInv'
  BY <1>12, CommitFinishKeeps
<1>13. ASSUME NEW op \in DirectOps, DirectWrite(op) PROVE StateInv'
  BY <1>13, DirectWriteKeeps
<1>14. ASSUME NEW op \in DirectOps, DirectFail(op) PROVE StateInv'
  BY <1>14, DirectFailKeeps
<1>15. ASSUME NEW tb \in DdlTables, DropTable(tb) PROVE StateInv'
  BY <1>15, DropTableKeeps
<1>16. ASSUME NEW tb \in DdlTables, ReplaceSchema(tb) PROVE StateInv'
  BY <1>16, ReplaceSchemaKeeps
<1>17. CASE Done \/ UNCHANGED vars
  BY <1>17, StutterKeeps DEF Done
<1> QED
  BY <1>1, <1>2, <1>3, <1>4, <1>5, <1>6, <1>7, <1>8, <1>9, <1>10, <1>11, <1>12, <1>13, <1>14,
     <1>15, <1>16, <1>17 DEF Next

\* The invariant holds in every reachable state.
THEOREM StateInvariant == Spec => []StateInv
<1>1. Init => StateInv
  BY InitKeeps
<1>2. StateInv /\ [Next]_vars => StateInv'
  BY StepKeeps
<1> QED
  BY <1>1, <1>2, PTL DEF Spec

\* TypeOK: every variable keeps its type and the lock state its shape.
THEOREM TypeCorrect == Spec => []TypeOK
<1>1. StateInv => TypeOK
  BY StateInvIs
<1> QED
  BY <1>1, StateInvariant, PTL

\* SnapshotStable: for every set of transactions and tables, a transaction
\* reads at its end the rows it saw at its begin.
THEOREM SnapshotsStable == Spec => []SnapshotStable
<1>1. StateInv => SnapshotStable
  BY StateInvIs
<1> QED
  BY <1>1, StateInvariant, PTL

\* HeapPublished: outside recovery the newest versions are the rows of the heap.
THEOREM HeapIsPublished == Spec => []HeapPublished
<1>1. StateInv => HeapPublished
  BY StateInvIs
<1> QED
  BY <1>1, StateInvariant, PTL

(***************************************************************************)
(* Mvcc implements LockManager.                                            *)
(***************************************************************************)

StatusOf   == [t \in Tx |-> txs[t].status]
HeldOf     == [t \in Tx |-> txs[t].held]
WaitingOf  == [t \in Tx |-> txs[t].waiting]
PcOf       == [t \in Tx |-> req[t].pc]
WantedOf   == [t \in Tx |-> req[t].wanted]
NotifiedOf == [t \in Tx |-> req[t].notified]

Locks == INSTANCE LockManagerProofs WITH
            Keys     <- LockKeys,
            Shared   <- {k \in LockKeys : ~ Exclusive(k)},
            status   <- StatusOf,
            held     <- HeldOf,
            waiting  <- WaitingOf,
            pc       <- PcOf,
            wanted   <- WantedOf,
            notified <- NotifiedOf

LEMMA MapBlockers ==
  ASSUME NEW t, NEW k \in LockKeys
  PROVE  Locks!Blockers(t, k) = Blockers(t, k)
BY DEF Locks!Blockers, Blockers, StatusOf, HeldOf

\* The request of t ends; nobody else is concerned.
LEMMA MapEnds ==
  ASSUME NEW t \in Tx, NEW p, RequestEnds(t, p), OthersKept(t)
  PROVE  Locks!EndRequest(t, p)
BY DEF Locks!EndRequest, RequestEnds, OthersKept, PcOf, WantedOf, NotifiedOf

LEMMA MapStatus ==
  ASSUME NEW t \in Tx, OthersKept(t), StillActive(t), txs[t].status = "active"
  PROVE  StatusOf' = StatusOf
BY DEF StatusOf, OthersKept, StillActive

LEMMA MapHeld ==
  ASSUME NEW t \in Tx, OthersKept(t), NEW h, txs'[t].held = h
  PROVE  HeldOf' = [HeldOf EXCEPT ![t] = h]
BY DEF HeldOf, OthersKept

LEMMA MapWaiting ==
  ASSUME NEW t \in Tx, OthersKept(t), NEW w, txs'[t].waiting = w
  PROVE  WaitingOf' = [WaitingOf EXCEPT ![t] = w]
BY DEF WaitingOf, OthersKept

LEMMA MapGrant ==
  ASSUME NEW t \in Tx, NEW W \in SUBSET LockKeys, txs[t].status = "active", Granted(t, W)
  PROVE  Locks!Grant(t, W)
<1>1. OthersKept(t) /\ StillActive(t) /\ RequestEnds(t, "idle")
  BY DEF Granted
<1>2. \A k \in W : Locks!Blockers(t, k) = {}
  BY MapBlockers DEF Granted
<1>3. HeldOf' = [HeldOf EXCEPT ![t] = @ \cup W]
  <2>1. HeldOf[t] = txs[t].held /\ txs'[t].held = txs[t].held \cup W
    BY DEF HeldOf, Granted
  <2>2. HeldOf' = [HeldOf EXCEPT ![t] = txs[t].held \cup W]
    BY <1>1, <2>1, MapHeld
  <2> QED
    BY <2>1, <2>2
<1>4. WaitingOf' = [WaitingOf EXCEPT ![t] = {}]
  BY <1>1, MapWaiting DEF Granted
<1>5. StatusOf' = StatusOf
  BY <1>1, MapStatus
<1>6. Locks!EndRequest(t, "idle")
  BY <1>1, MapEnds
<1> QED
  BY <1>2, <1>3, <1>4, <1>5, <1>6 DEF Locks!Grant

LEMMA MapRefuse ==
  ASSUME NEW t \in Tx, NEW W \in SUBSET LockKeys, txs[t].status = "active", Refused(t, W)
  PROVE  Locks!Refuse(t, W)
<1>1. OthersKept(t) /\ StillActive(t) /\ RequestEnds(t, "failed")
  BY DEF Refused
<1>2. PICK got \in SUBSET W : /\ \A k \in got : Blockers(t, k) = {}
                              /\ txs'[t].held = txs[t].held \cup got
  BY DEF Refused
<1>3. \A k \in got : Locks!Blockers(t, k) = {}
  BY <1>2, MapBlockers
<1>4. HeldOf' = [HeldOf EXCEPT ![t] = @ \cup got]
  <2>1. HeldOf[t] = txs[t].held
    BY DEF HeldOf
  <2>2. HeldOf' = [HeldOf EXCEPT ![t] = txs[t].held \cup got]
    BY <1>1, <1>2, MapHeld
  <2> QED
    BY <2>1, <2>2
<1>5. WaitingOf' \in {WaitingOf, [WaitingOf EXCEPT ![t] = {}]}
  <2>1. CASE txs'[t].waiting = {}
    BY <1>1, <2>1, MapWaiting
  <2>2. CASE txs'[t].waiting = txs[t].waiting
    BY <1>1, <2>2 DEF WaitingOf, OthersKept
  <2> QED
    BY <2>1, <2>2 DEF Refused
<1>6. StatusOf' = StatusOf
  BY <1>1, MapStatus
<1>7. Locks!EndRequest(t, "failed")
  BY <1>1, MapEnds
<1> QED
  BY <1>2, <1>3, <1>4, <1>5, <1>6, <1>7 DEF Locks!Refuse

LEMMA MapSleep ==
  ASSUME NEW t \in Tx, NEW W \in SUBSET LockKeys, txs[t].status = "active", Slept(t, W)
  PROVE  Locks!Sleep(t, W)
<1>1. OthersKept(t) /\ StillActive(t)
  BY DEF Slept
<1>2. PICK got \in SUBSET W, stop \in W :
          /\ \A k \in got : Blockers(t, k) = {}
          /\ Blockers(t, stop) # {}
          /\ txs'[t].held = txs[t].held \cup got
          /\ txs'[t].waiting = Blockers(t, stop)
  BY DEF Slept
<1>3. Locks!Blockers(t, stop) = Blockers(t, stop) /\ \A k \in got : Locks!Blockers(t, k) = {}
  BY <1>2, MapBlockers
<1>4. HeldOf' = [HeldOf EXCEPT ![t] = @ \cup got]
  <2>1. HeldOf[t] = txs[t].held
    BY DEF HeldOf
  <2>2. HeldOf' = [HeldOf EXCEPT ![t] = txs[t].held \cup got]
    BY <1>1, <1>2, MapHeld
  <2> QED
    BY <2>1, <2>2
<1>5. WaitingOf' = [WaitingOf EXCEPT ![t] = Locks!Blockers(t, stop)]
  BY <1>1, <1>2, <1>3, MapWaiting
<1>6. ~ Locks!Cycle(WaitingOf', t)
  <2>1. ~ OnCycle(txs', t)
    BY DEF Slept
  <2>2. \A o \in Tx : WaitingOf'[o] = txs'[o].waiting
    BY DEF WaitingOf
  <2>3. PICK S \in SUBSET Tx : /\ txs'[t].waiting \subseteq S
                               /\ \A o \in S : txs'[o].waiting \subseteq S
                               /\ t \notin S
    BY <2>1 DEF OnCycle
  <2>4. WaitingOf'[t] \subseteq S /\ \A o \in S : WaitingOf'[o] \subseteq S
    BY <2>2, <2>3
  <2> QED
    BY <2>3, <2>4 DEF Locks!Cycle, Locks!OnCycle, Locks!ClosedUnder
<1>7. StatusOf' = StatusOf
  BY <1>1, MapStatus
<1>8. /\ PcOf' = [PcOf EXCEPT ![t] = "asleep"] /\ WantedOf' = [WantedOf EXCEPT ![t] = W]
      /\ NotifiedOf' = [NotifiedOf EXCEPT ![t] = FALSE]
  BY <1>1 DEF PcOf, WantedOf, NotifiedOf, OthersKept, Slept
<1> QED
  BY <1>2, <1>3, <1>4, <1>5, <1>6, <1>7, <1>8 DEF Locks!Sleep

\* abort() and notify_all.
LEMMA MapAborted ==
  ASSUME NEW t \in Tx, Aborted(t)
  PROVE  /\ HeldOf' = [HeldOf EXCEPT ![t] = {}]
         /\ Locks!DropEdges(t)
         /\ PcOf' = [PcOf EXCEPT ![t] = "idle"]
         /\ WantedOf' = [WantedOf EXCEPT ![t] = {}]
         /\ Locks!NotifyAll(PcOf')
<1>1. /\ req'[t].pc = "idle" /\ req'[t].wanted = {} /\ req'[t].notified = FALSE
      /\ txs'[t].held = {} /\ txs'[t].waiting = {}
  BY DEF Aborted, RequestEnds
<1>2. \A o \in Tx \ {t} :
          /\ txs'[o].held = txs[o].held /\ txs'[o].waiting = txs[o].waiting \ {t}
          /\ req'[o].pc = req[o].pc /\ req'[o].wanted = req[o].wanted
          /\ req'[o].notified = (req[o].pc = "asleep")
  BY DEF Aborted
<1>3. HeldOf' = [HeldOf EXCEPT ![t] = {}]
  BY <1>1, <1>2 DEF HeldOf
<1>4. Locks!DropEdges(t)
  BY <1>1, <1>2 DEF WaitingOf, Locks!DropEdges
<1>5. PcOf' = [PcOf EXCEPT ![t] = "idle"] /\ WantedOf' = [WantedOf EXCEPT ![t] = {}]
  BY <1>1, <1>2 DEF PcOf, WantedOf
<1>6. Locks!NotifyAll(PcOf')
  <2>1. \A o \in Tx : req'[o].notified = (req'[o].pc = "asleep")
    BY <1>1, <1>2
  <2> QED
    BY <2>1 DEF Locks!NotifyAll, NotifiedOf, PcOf
<1> QED
  BY <1>3, <1>4, <1>5, <1>6

LEMMA MapGiveUp ==
  ASSUME NEW t \in Tx, NEW W \in SUBSET LockKeys, GaveUp(t, W)
  PROVE  Locks!GiveUp(t, W)
<1>1. Aborted(t) /\ txs'[t].status = "aborted" /\ \E stop \in W : Blockers(t, stop) # {}
  BY DEF GaveUp
<1>2. \E stop \in W : Locks!Blockers(t, stop) # {}
  BY <1>1, MapBlockers
<1>3. StatusOf' = [StatusOf EXCEPT ![t] = "aborted"]
  BY <1>1 DEF StatusOf, Aborted
<1> QED
  BY <1>1, <1>2, <1>3, MapAborted DEF Locks!GiveUp

LEMMA MapLoop ==
  ASSUME NEW t \in Tx, NEW W \in SUBSET LockKeys, txs[t].status = "active", LoopDone(t, W)
  PROVE  Locks!LockLoop(t, W)
BY MapGrant, MapRefuse, MapSleep, MapGiveUp DEF LoopDone, Locks!LockLoop

LEMMA MapAsked ==
  ASSUME NEW t \in Tx, Asked(t)
  PROVE  \E W \in SUBSET LockKeys : Locks!Lock(t, W)
<1>1. PICK W \in SUBSET LockKeys : LoopDone(t, W)
  BY DEF Asked
<1>2. PcOf[t] = "idle" /\ StatusOf[t] = "active" /\ txs[t].status = "active"
  BY DEF Asked, PcOf, StatusOf
<1>3. Locks!LockLoop(t, W)
  BY <1>1, <1>2, MapLoop
<1> QED
  BY <1>2, <1>3 DEF Locks!Lock

LEMMA MapResumed ==
  ASSUME StateInv, NEW t \in Tx, Resumed(t)
  PROVE  Locks!Resume(t)
<1>1. PcOf[t] = "asleep" /\ StatusOf[t] = "active" /\ WantedOf[t] = req[t].wanted
      /\ txs[t].status = "active"
  BY DEF Resumed, PcOf, StatusOf, WantedOf
<1>2. req[t].wanted \in SUBSET LockKeys
  BY ReqFields DEF StateInv, LocksOK, ReqMaps
<1>3. Locks!LockLoop(t, req[t].wanted)
  BY <1>1, <1>2, MapLoop DEF Resumed
<1> QED
  BY <1>1, <1>3 DEF Locks!Resume

LEMMA MapReturned ==
  ASSUME NEW t \in Tx, Returned(t)
  PROVE  Locks!Resume(t)
<1>1. OthersKept(t) /\ RequestEnds(t, "idle") /\ txs' = txs
  BY DEF Returned, OthersKept
<1>2. PcOf[t] = "asleep" /\ StatusOf[t] # "active" /\ NotifiedOf[t]
  BY DEF Returned, PcOf, StatusOf, NotifiedOf
<1>3. StatusOf' = StatusOf /\ HeldOf' = HeldOf /\ WaitingOf' = WaitingOf
  BY <1>1 DEF StatusOf, HeldOf, WaitingOf
<1>4. Locks!EndRequest(t, "idle")
  BY <1>1, MapEnds
<1> QED
  BY <1>2, <1>3, <1>4 DEF Locks!Resume

LEMMA MapFailed ==
  ASSUME NEW t \in Tx, Failed(t)
  PROVE  Locks!FailLock(t)
<1>1. Aborted(t) /\ PcOf[t] = "failed"
  BY DEF Failed, PcOf
<1>2. StatusOf' = [StatusOf EXCEPT ![t] = IF @ = "active" THEN "aborted" ELSE @]
  <2>1. txs'[t].status = IF txs[t].status = "active" THEN "aborted" ELSE txs[t].status
    BY DEF Failed
  <2>2. \A o \in Tx : o # t => txs'[o].status = txs[o].status
    BY <1>1 DEF Aborted
  <2> QED
    BY <2>1, <2>2 DEF StatusOf
<1> QED
  BY <1>1, <1>2, MapAborted DEF Locks!FailLock

LEMMA MapNotify ==
  ASSUME \A o \in Tx : /\ req'[o].pc = req[o].pc /\ req'[o].wanted = req[o].wanted
                       /\ req'[o].notified = (req[o].pc = "asleep")
  PROVE  PcOf' = PcOf /\ WantedOf' = WantedOf /\ Locks!NotifyAll(PcOf)
<1>1. PcOf' = PcOf /\ WantedOf' = WantedOf
  BY DEF PcOf, WantedOf
<1>2. NotifiedOf' = [o \in Tx |-> PcOf[o] = "asleep"]
  BY DEF NotifiedOf, PcOf
<1> QED
  BY <1>1, <1>2 DEF Locks!NotifyAll

LEMMA MapFinished ==
  ASSUME NEW t \in Tx, Known(t), Finished(t)
  PROVE  Locks!Finish(t)
<1>1. StatusOf[t] \in {"active", "aborted"}
  BY DEF StatusOf, Known
<1>2. /\ txs'[t].status = "ended" /\ txs'[t].held = {} /\ txs'[t].waiting = {}
      /\ \A o \in Tx : o # t => /\ txs'[o].status = txs[o].status /\ txs'[o].held = txs[o].held
                                /\ txs'[o].waiting = txs[o].waiting \ {t}
  BY DEF Finished
<1>3. StatusOf' = [StatusOf EXCEPT ![t] = "ended"] /\ HeldOf' = [HeldOf EXCEPT ![t] = {}]
  BY <1>2 DEF StatusOf, HeldOf
<1>4. Locks!DropEdges(t)
  BY <1>2 DEF WaitingOf, Locks!DropEdges
<1>5. PcOf' = PcOf /\ WantedOf' = WantedOf /\ Locks!NotifyAll(PcOf)
  BY MapNotify DEF Finished
<1> QED
  BY <1>1, <1>3, <1>4, <1>5 DEF Locks!Finish

LEMMA MapPublished ==
  ASSUME Notifies(req', req), txs' = txs
  PROVE  Locks!Publish
<1>1. PcOf' = PcOf /\ WantedOf' = WantedOf /\ Locks!NotifyAll(PcOf)
  BY MapNotify DEF Notifies
<1>2. StatusOf' = StatusOf /\ HeldOf' = HeldOf /\ WaitingOf' = WaitingOf
  BY DEF StatusOf, HeldOf, WaitingOf
<1> QED
  BY <1>1, <1>2 DEF Locks!Publish

LEMMA MapFailAll ==
  ASSUME AllFailed, Notifies(req', req)
  PROVE  Locks!FailAll
<1>1. PcOf' = PcOf /\ WantedOf' = WantedOf /\ Locks!NotifyAll(PcOf)
  BY MapNotify DEF Notifies
<1>2. StatusOf' = [t \in Tx |-> IF StatusOf[t] = "active" THEN "aborted" ELSE StatusOf[t]]
  BY DEF StatusOf, AllFailed
<1>3. HeldOf' = [t \in Tx |-> {}] /\ WaitingOf' = [t \in Tx |-> {}]
  BY DEF HeldOf, WaitingOf, AllFailed
<1> QED
  BY <1>1, <1>2, <1>3 DEF Locks!FailAll

LEMMA MapBegun ==
  ASSUME StateInv, NEW t \in Tx, Begun(t)
  PROVE  Locks!Begin(t)
<1>1. /\ txs[t].status = "none" /\ req' = req /\ \A o \in Tx : o # t => txs'[o] = txs[o]
      /\ txs'[t].status = "active" /\ txs'[t].held = {} /\ txs'[t].waiting = {}
  BY DEF Begun
<1>2. txs[t].held = {} /\ txs[t].waiting = {}
  BY <1>1 DEF StateInv, LocksOK
<1>3. StatusOf[t] = "none" /\ StatusOf' = [StatusOf EXCEPT ![t] = "active"]
  BY <1>1 DEF StatusOf
<1>4. HeldOf' = HeldOf /\ WaitingOf' = WaitingOf
  BY <1>1, <1>2 DEF HeldOf, WaitingOf
<1>5. PcOf' = PcOf /\ WantedOf' = WantedOf /\ NotifiedOf' = NotifiedOf
  BY <1>1 DEF PcOf, WantedOf, NotifiedOf
<1> QED
  BY <1>3, <1>4, <1>5 DEF Locks!Begin

LEMMA MapStutter ==
  ASSUME txs' = txs, req' = req
  PROVE  Locks!vars' = Locks!vars
BY DEF Locks!vars, StatusOf, HeldOf, WaitingOf, PcOf, WantedOf, NotifiedOf

\* A published group is a wake-up of the lock table.
LEMMA MapGroup ==
  ASSUME StateInv, NEW newHeap, NEW newSchemas, NEW touched, txs' = txs,
         Publish(newHeap, newSchemas, touched)
  PROVE  Locks!Publish
<1>1. req' = Notify(req) /\ req \in ReqMaps
  BY DEF Publish, StateInv, LocksOK
<1>2. Notifies(req', req)
  BY <1>1, NotifyIs
<1> QED
  BY <1>2, MapPublished

LEMMA MapInit ==
  ASSUME Init
  PROVE  Locks!Init
<1>1. txs = [t \in Tx |-> NoTx] /\ req = [t \in Tx |-> IdleReq]
  BY DEF Init
<1>2. /\ NoTx.status = "none" /\ NoTx.held = {} /\ NoTx.waiting = {}
      /\ IdleReq.pc = "idle" /\ IdleReq.wanted = {} /\ IdleReq.notified = FALSE
  BY NoTxType, IdleReqType
<1>3. /\ StatusOf = [t \in Tx |-> "none"] /\ HeldOf = [t \in Tx |-> {}]
      /\ WaitingOf = [t \in Tx |-> {}]
  BY <1>1, <1>2 DEF StatusOf, HeldOf, WaitingOf
<1>4. /\ PcOf = [t \in Tx |-> "idle"] /\ WantedOf = [t \in Tx |-> {}]
      /\ NotifiedOf = [t \in Tx |-> FALSE]
  BY <1>1, <1>2 DEF PcOf, WantedOf, NotifiedOf
<1> QED
  BY <1>3, <1>4 DEF Locks!Init

LEMMA MapStep ==
  ASSUME StateInv, [Next]_vars
  PROVE  [Locks!Next]_(Locks!vars)
<1>1. ASSUME NEW t \in Tx, NEW s \in BOOLEAN, Begin(t, s) PROVE Locks!Next
  <2>1. Locks!Begin(t)
    BY <1>1, BeginIs, MapBegun
  <2> QED
    BY <2>1 DEF Locks!Next
<1>2. ASSUME NEW t \in Tx, NEW ops \in Plans, NEW reads \in ReadSets, Lock(t, ops, reads)
      PROVE  Locks!Next
  <2>1. Asked(t)
    BY <1>2, LockIs
  <2>2. \E W \in SUBSET LockKeys : Locks!Lock(t, W)
    BY <2>1, MapAsked
  <2> QED
    BY <2>2 DEF Locks!Next
<1>3. ASSUME NEW t \in Tx, Wake(t) \/ Timeout(t) PROVE Locks!Next
  <2>1. Resumed(t) \/ Returned(t)
    <3>1. CASE Wake(t)
      BY <3>1, WakeIs
    <3>2. CASE Timeout(t)
      BY <3>2, ResumeIs DEF Timeout, Others
    <3> QED
      BY <1>3, <3>1, <3>2
  <2>2. Locks!Resume(t)
    BY <2>1, MapResumed, MapReturned
  <2> QED
    BY <2>2 DEF Locks!Next
<1>4. ASSUME NEW t \in Tx, FailLock(t) PROVE Locks!Next
  <2>1. Locks!FailLock(t)
    BY <1>4, FailLockIs, MapFailed
  <2> QED
    BY <2>1 DEF Locks!Next
<1>5. ASSUME NEW t \in Tx, Rollback(t) \/ CommitFinish(t) PROVE Locks!Next
  <2>1. Finish(t)
    BY <1>5 DEF Rollback, CommitFinish
  <2>2. Finished(t)
    BY <2>1, FinishIs DEF StateInv
  <2>3. Known(t)
    BY <1>5 DEF Rollback, CommitFinish, StateInv, CommitOK, Known
  <2>4. Locks!Finish(t)
    BY <2>2, <2>3, MapFinished
  <2> QED
    BY <2>4 DEF Locks!Next
<1>6. ASSUME NEW t \in Tx, Preview(t) \/ CommitStart(t) \/ CommitRefused(t)
      PROVE  Locks!vars' = Locks!vars
  BY <1>6, MapStutter DEF Preview, CommitStart, CommitRefused
<1>7. ASSUME NEW t \in Tx, CommitApply(t) PROVE Locks!Next
  <2>1. Locks!Publish
    BY <1>7, MapGroup DEF CommitApply
  <2> QED
    BY <2>1 DEF Locks!Next
<1>8. ASSUME NEW t \in Tx, CommitFail(t) PROVE Locks!Next
  <2>1. Locks!FailAll
    BY <1>8, CommitFailIs, MapFailAll
  <2> QED
    BY <2>1 DEF Locks!Next
<1>9. ASSUME NEW op \in DirectOps, DirectWrite(op) PROVE Locks!Next
  <2>1. Locks!Publish
    BY <1>9, MapGroup DEF DirectWrite
  <2> QED
    BY <2>1 DEF Locks!Next
<1>10. ASSUME NEW op \in DirectOps, DirectFail(op) PROVE Locks!Next \/ Locks!vars' = Locks!vars
  <2>1. CASE Publish(HeapAfter(heap, op), schemas, {op.table})
    <3>1. Locks!Publish
      BY <1>10, <2>1, MapGroup DEF DirectFail
    <3> QED
      BY <3>1 DEF Locks!Next
  <2>2. CASE req' = req
    BY <1>10, <2>2, MapStutter DEF DirectFail
  <2> QED
    BY <1>10, <2>1, <2>2 DEF DirectFail
<1>11. ASSUME NEW tb \in DdlTables, DropTable(tb) \/ ReplaceSchema(tb) PROVE Locks!Next
  <2>1. Locks!Publish
    <3>1. CASE DropTable(tb)
      BY <3>1, MapGroup DEF DropTable
    <3>2. CASE ReplaceSchema(tb)
      BY <3>2, MapGroup DEF ReplaceSchema
    <3> QED
      BY <1>11, <3>1, <3>2
  <2> QED
    BY <2>1 DEF Locks!Next
<1>12. CASE Done \/ UNCHANGED vars
  BY <1>12, MapStutter DEF Done, vars
<1>13. Locks!Next \/ Locks!vars' = Locks!vars
  BY <1>1, <1>2, <1>3, <1>4, <1>5, <1>6, <1>7, <1>8, <1>9, <1>10, <1>11, <1>12 DEF Next
<1> QED
  BY <1>13

\* Every step of the storage layer is a step of the lock table or leaves it
\* alone, whatever rows, plans and schemas are behind the keys.
THEOREM ImplementsLockManager == Spec => Locks!Spec
<1>1. Init => Locks!Init
  BY MapInit
<1>2. StateInv /\ [Next]_vars => [Locks!Next]_(Locks!vars)
  BY MapStep
<1> QED
  BY <1>1, <1>2, StateInvariant, PTL DEF Spec, Locks!Spec

\* What is proved of LockManager holds of the storage layer: two transactions
\* never hold the same key exclusively.
THEOREM RowsLockedOnce ==
  Spec => [](\A t, u \in Tx : t # u =>
                \A k \in txs[t].held \cap txs[u].held : ~ Exclusive(k))
<1>1. Locks!Spec => []Locks!LockExclusion
  BY Locks!ExclusionHolds
<1>2. Locks!LockExclusion =>
        \A t, u \in Tx : t # u => \A k \in txs[t].held \cap txs[u].held : ~ Exclusive(k)
  BY DEF Locks!LockExclusion, HeldOf
<1> QED
  BY <1>1, <1>2, ImplementsLockManager, PTL

\* No wake-up is lost: a request asleep with no notification pending belongs to
\* an active transaction, and another one holds a key it wants.
THEOREM SleepersBlocked ==
  Spec => [](\A t \in Tx : req[t].pc = "asleep" /\ ~ req[t].notified =>
                txs[t].status = "active" /\ \E k \in req[t].wanted : Blockers(t, k) # {})
<1>1. Locks!Spec => []Locks!NoLostWakeup
  BY Locks!NoWakeupLost
<1>2. StateInv /\ Locks!NoLostWakeup =>
        \A t \in Tx : req[t].pc = "asleep" /\ ~ req[t].notified =>
           txs[t].status = "active" /\ \E k \in req[t].wanted : Blockers(t, k) # {}
  <2> SUFFICES ASSUME StateInv, Locks!NoLostWakeup, NEW t \in Tx, req[t].pc = "asleep", ~ req[t].notified
               PROVE  txs[t].status = "active" /\ \E k \in req[t].wanted : Blockers(t, k) # {}
    OBVIOUS
  <2>1. PcOf[t] = "asleep" /\ ~ NotifiedOf[t] /\ WantedOf[t] = req[t].wanted /\ StatusOf[t] = txs[t].status
    BY DEF PcOf, NotifiedOf, WantedOf, StatusOf
  <2>2. StatusOf[t] = "active" /\ \E k \in WantedOf[t] : Locks!Blockers(t, k) # {}
    BY <2>1 DEF Locks!NoLostWakeup
  <2>3. req[t].wanted \in SUBSET LockKeys
    BY ReqFields DEF StateInv, LocksOK, ReqMaps
  <2> QED
    BY <2>1, <2>2, <2>3, MapBlockers
<1> QED
  BY <1>1, <1>2, StateInvariant, ImplementsLockManager, PTL

\* Transactions never wait for each other in a circle.
THEOREM NoCircularWait == Spec => [](\A t \in Tx : ~ OnCycle(txs, t))
<1>1. Locks!Spec => []Locks!Acyclic
  BY Locks!NeverDeadlocked
<1>2. Locks!Acyclic => \A t \in Tx : ~ OnCycle(txs, t)
  <2> SUFFICES ASSUME Locks!Acyclic, NEW t \in Tx PROVE ~ OnCycle(txs, t)
    OBVIOUS
  <2>1. PICK S \in SUBSET Tx : /\ WaitingOf[t] \subseteq S /\ t \notin S
                               /\ \A o \in S : WaitingOf[o] \subseteq S
    BY DEF Locks!Acyclic, Locks!OnCycle, Locks!ClosedUnder
  <2>2. \A o \in Tx : WaitingOf[o] = txs[o].waiting
    BY DEF WaitingOf
  <2> QED
    BY <2>1, <2>2 DEF OnCycle
<1> QED
  BY <1>1, <1>2, ImplementsLockManager, PTL

(***************************************************************************)
(* Serializable reads.                                                     *)
(***************************************************************************)

\* A table that was not marked as changed since a snapshot has its rows.
ChangedOK ==
    \A t \in Tx : txs[t].status = "active" =>
        \A tb \in DOMAIN durable.tables :
            durable.tables[tb].changed <= txs[t].snapshot =>
                Alike(ReadAt(durable.tables, tb, durable.csn),
                      ReadAt(durable.tables, tb, txs[t].snapshot))

\* What a transaction declared to have read is still there when it writes.
ReadsOK ==
    gate.stage = "apply" =>
        /\ ~ recovery
        /\ txs[committer.tx].serializable =>
              \A tb \in txs[committer.tx].reads :
                  Alike(ReadAt(durable.tables, tb, durable.csn),
                        ReadAt(durable.tables, tb, txs[committer.tx].snapshot))

SerialInv == StateInv /\ ChangedOK /\ ReadsOK

LEMMA AlikeSelf ==
  ASSUME NEW a PROVE Alike(a, a)
BY DEF Alike

\* The snapshots of active transactions are those of before.
SnapshotsLeft ==
    \A t \in Tx : txs'[t].status = "active" =>
                     txs[t].status = "active" /\ txs'[t].snapshot = txs[t].snapshot

\* The committing transaction has its reads, and the gate its stage.
CommitterLeft ==
    /\ gate' = gate /\ committer' = committer /\ recovery' = recovery
    /\ gate.stage = "apply" => SameWork(txs'[committer.tx], txs[committer.tx])

LEMMA ChangedSame ==
  ASSUME ChangedOK, durable' = durable, SnapshotsLeft
  PROVE  ChangedOK'
BY DEF ChangedOK, SnapshotsLeft

LEMMA ReadsSame ==
  ASSUME ReadsOK, durable' = durable, CommitterLeft
  PROVE  ReadsOK'
BY DEF ReadsOK, CommitterLeft, SameWork

\* Requests for locks.
LEMMA LoopSerial ==
  ASSUME StateInv, NEW t \in Tx, ~ Committing(t), NEW W, LoopDone(t, W), txs[t].status = "active",
         UNCHANGED Others
  PROVE  SnapshotsLeft /\ CommitterLeft
<1>1. committer.tx # t /\ (gate.stage = "apply" => committer.tx \in Tx)
  BY DEF Committing, StateInv, CommitOK
<1>2. ASSUME OthersKept(t), StillActive(t) PROVE SnapshotsLeft /\ CommitterLeft
  BY <1>1, <1>2 DEF OthersKept, StillActive, SnapshotsLeft, CommitterLeft, SameWork, Others
<1>3. ASSUME GaveUp(t, W) PROVE SnapshotsLeft /\ CommitterLeft
  <2>1. SnapshotsLeft
    BY <1>3 DEF GaveUp, Aborted, SameWork, SnapshotsLeft
  <2>2. CommitterLeft
    BY <1>1, <1>3 DEF GaveUp, Aborted, CommitterLeft, Others
  <2> QED
    BY <2>1, <2>2
<1> QED
  BY <1>2, <1>3 DEF LoopDone, Granted, Refused, Slept

LEMMA AskedSerial ==
  ASSUME SerialInv, NEW t \in Tx, Asked(t) \/ Resumed(t) \/ Returned(t) \/ Failed(t)
  PROVE  ChangedOK' /\ ReadsOK'
<1>1. durable' = durable
  BY DEF Asked, Resumed, Returned, Failed, Others
<1>2. gate.stage = "apply" => committer.tx \in Tx
  BY DEF SerialInv, StateInv, CommitOK
<1>3. SnapshotsLeft /\ CommitterLeft
  <2>1. CASE Asked(t)
    BY <2>1, LoopSerial DEF Asked, SerialInv
  <2>2. CASE Resumed(t)
    <3>1. ~ Committing(t)
      BY <2>2 DEF Resumed, SerialInv, StateInv, CommitOK
    <3> QED
      BY <2>2, <3>1, LoopSerial DEF Resumed, SerialInv
  <2>3. CASE Returned(t)
    BY <2>3 DEF Returned, SnapshotsLeft, CommitterLeft, SameWork, Others
  <2>4. CASE Failed(t)
    <3>1. ~ Committing(t)
      BY <2>4 DEF Failed, SerialInv, StateInv, CommitOK
    <3>2. SnapshotsLeft
      BY <2>4 DEF Failed, Aborted, SameWork, SnapshotsLeft
    <3>3. CommitterLeft
      BY <1>2, <2>4, <3>1 DEF Failed, Aborted, CommitterLeft, Others, Committing
    <3> QED
      BY <3>2, <3>3
  <2> QED
    BY <2>1, <2>2, <2>3, <2>4
<1> QED
  BY <1>1, <1>3, ChangedSame, ReadsSame DEF SerialInv

LEMMA BegunSerial ==
  ASSUME SerialInv, NEW t \in Tx, Begun(t), gate.stage = "free"
  PROVE  ChangedOK' /\ ReadsOK'
<1>1. durable' = durable /\ gate' = gate
  BY DEF Begun
<1>2. ReadsOK'
  BY <1>1 DEF ReadsOK
<1>3. ASSUME NEW o \in Tx, txs'[o].status = "active", NEW tb \in DOMAIN durable.tables,
             durable.tables[tb].changed <= txs'[o].snapshot
      PROVE  Alike(ReadAt(durable.tables, tb, durable.csn), ReadAt(durable.tables, tb, txs'[o].snapshot))
  <2>1. CASE o = t
    <3>1. txs'[o].snapshot = durable.csn
      BY <2>1 DEF Begun
    <3> QED
      BY <3>1, AlikeSelf
  <2>2. CASE o # t
    <3>1. txs'[o] = txs[o]
      BY <2>2 DEF Begun
    <3> QED
      BY <1>3, <3>1 DEF SerialInv, ChangedOK
  <2> QED
    BY <2>1, <2>2
<1> QED
  BY <1>1, <1>2, <1>3 DEF ChangedOK

\* Pruning leaves what the active transactions and new readers read.
LEMMA PrunedReads ==
  ASSUME StateInv, NEW t \in Tx, Finish(t)
  PROVE  /\ durable'.csn = durable.csn /\ DOMAIN durable'.tables \subseteq DOMAIN durable.tables
         /\ \A tb \in DOMAIN durable'.tables : durable'.tables[tb].changed = durable.tables[tb].changed
         /\ \A tb : ReadAt(durable'.tables, tb, durable.csn) = ReadAt(durable.tables, tb, durable.csn)
         /\ \A o \in Tx : txs'[o].status = "active" =>
               /\ o # t /\ txs[o].status = "active" /\ SameWork(txs'[o], txs[o])
               /\ \A tb : ReadAt(durable'.tables, tb, txs[o].snapshot)
                             = ReadAt(durable.tables, tb, txs[o].snapshot)
               /\ SameSight(durable'.tables, durable.tables, txs[o].snapshot)
<1> DEFINE old == Oldest(txs', durable.csn)
<1>1. Finished(t) /\ Pruned(t)
  BY FinishIs DEF StateInv
<1>2. /\ durable.csn \in Nat /\ txs' \in TxMaps
      /\ \A o \in Tx : txs[o].snapshot <= durable.csn /\ txs[o].snapshot \in Nat
  BY <1>1, MaxCsnAssumption, TxFields DEF StateInv, DurableOK, SnapshotsOK, LocksOK, TxMaps, Finished
<1>3. \A o \in Tx : txs'[o].snapshot <= durable.csn
  <2>1. \A o \in Tx : o # t => txs'[o].snapshot = txs[o].snapshot
    BY <1>1 DEF Finished, SameWork
  <2>2. txs'[t].snapshot = 0
    BY <1>1 DEF Finished
  <2> QED
    BY <1>2, <2>1, <2>2
<1>4. /\ old \in Nat /\ old <= durable.csn
      /\ \A o \in Tx : txs'[o].status = "active" => old <= txs'[o].snapshot
  <2> DEFINE T == txs'
             z == durable.csn
  <2>1. T \in TxMaps /\ z \in Nat /\ \A o \in Tx : T[o].snapshot <= z
    BY <1>2, <1>3
  <2> HIDE DEF T, z
  <2>2. /\ Oldest(T, z) \in Nat /\ Oldest(T, z) <= z
        /\ \A o \in Tx : T[o].status = "active" => Oldest(T, z) <= T[o].snapshot
    BY <2>1, OldestIs
  <2> QED
    BY <2>2 DEF T, z
<1> HIDE DEF old
<1>5. /\ durable'.csn = durable.csn /\ DOMAIN durable'.tables \subseteq DOMAIN durable.tables
      /\ \A tb \in DOMAIN durable'.tables : durable'.tables[tb].changed = durable.tables[tb].changed
      /\ \A tb, c : c \in Nat /\ old <= c =>
            ReadAt(durable'.tables, tb, c) = ReadAt(durable.tables, tb, c)
      /\ \A c \in Nat : old <= c => SameSight(durable'.tables, durable.tables, c)
  BY <1>1 DEF Pruned, TablesPruned, old
<1>6. ASSUME NEW o \in Tx, txs'[o].status = "active"
      PROVE  /\ o # t /\ txs[o].status = "active" /\ SameWork(txs'[o], txs[o])
             /\ txs[o].snapshot \in Nat /\ old <= txs[o].snapshot
  <2>1. o # t
    BY <1>1, <1>6 DEF Finished
  <2>2. txs'[o].status = txs[o].status /\ SameWork(txs'[o], txs[o])
    BY <1>1, <2>1 DEF Finished
  <2> QED
    BY <1>2, <1>4, <1>6, <2>1, <2>2 DEF SameWork
<1> QED
  BY <1>2, <1>4, <1>5, <1>6

LEMMA FinishSerial ==
  ASSUME SerialInv, NEW t \in Tx, Finish(t), recovery' = recovery,
         \/ gate' = gate /\ committer' = committer /\ committer.tx # t
         \/ gate' = OpenGate
  PROVE  ChangedOK' /\ ReadsOK'
<1>1. /\ durable'.csn = durable.csn /\ DOMAIN durable'.tables \subseteq DOMAIN durable.tables
      /\ \A tb \in DOMAIN durable'.tables : durable'.tables[tb].changed = durable.tables[tb].changed
      /\ \A tb : ReadAt(durable'.tables, tb, durable.csn) = ReadAt(durable.tables, tb, durable.csn)
      /\ \A o \in Tx : txs'[o].status = "active" =>
            /\ o # t /\ txs[o].status = "active" /\ SameWork(txs'[o], txs[o])
            /\ \A tb : ReadAt(durable'.tables, tb, txs[o].snapshot)
                          = ReadAt(durable.tables, tb, txs[o].snapshot)
  BY PrunedReads DEF SerialInv
<1>2. ChangedOK'
  <2>1. ASSUME NEW o \in Tx, txs'[o].status = "active", NEW tb \in DOMAIN durable'.tables,
               durable'.tables[tb].changed <= txs'[o].snapshot
        PROVE  Alike(ReadAt(durable'.tables, tb, durable'.csn),
                     ReadAt(durable'.tables, tb, txs'[o].snapshot))
    <3>1. txs[o].status = "active" /\ txs'[o].snapshot = txs[o].snapshot
      BY <1>1, <2>1 DEF SameWork
    <3>2. tb \in DOMAIN durable.tables /\ durable.tables[tb].changed <= txs[o].snapshot
      BY <1>1, <2>1, <3>1
    <3>3. Alike(ReadAt(durable.tables, tb, durable.csn), ReadAt(durable.tables, tb, txs[o].snapshot))
      BY <3>1, <3>2 DEF SerialInv, ChangedOK
    <3> QED
      BY <1>1, <2>1, <3>1, <3>3
  <2> QED
    BY <2>1 DEF ChangedOK
<1>3. ReadsOK'
  <2>1. CASE gate' = OpenGate
    BY <2>1 DEF ReadsOK, OpenGate
  <2>2. CASE gate' = gate /\ committer' = committer /\ committer.tx # t /\ gate.stage = "apply"
    <3> DEFINE o == committer.tx
    <3>1. o \in Tx /\ txs[o].status = "active" /\ ~ recovery
      BY <2>2 DEF SerialInv, StateInv, CommitOK, Committing, ReadsOK
    <3>2. txs'[o].status = "active"
      <4>1. Finished(t)
        BY FinishIs DEF SerialInv, StateInv
      <4> QED
        BY <2>2, <3>1, <4>1 DEF Finished
    <3>3. ASSUME txs'[o].serializable, NEW tb \in txs'[o].reads
          PROVE  Alike(ReadAt(durable'.tables, tb, durable'.csn),
                       ReadAt(durable'.tables, tb, txs'[o].snapshot))
      <4>1. SameWork(txs'[o], txs[o])
        BY <1>1, <3>1, <3>2
      <4>2. txs[o].serializable /\ tb \in txs[o].reads /\ txs'[o].snapshot = txs[o].snapshot
        BY <3>3, <4>1 DEF SameWork
      <4>3. Alike(ReadAt(durable.tables, tb, durable.csn), ReadAt(durable.tables, tb, txs[o].snapshot))
        BY <2>2, <4>2 DEF SerialInv, ReadsOK
      <4> QED
        BY <1>1, <3>1, <3>2, <4>2, <4>3
    <3> QED
      BY <2>2, <3>1, <3>3 DEF ReadsOK
  <2>3. CASE gate' = gate /\ gate.stage # "apply"
    BY <2>3 DEF ReadsOK
  <2> QED
    BY <2>1, <2>2, <2>3
<1> QED
  BY <1>2, <1>3

\* A published group.
LEMMA GroupSerial ==
  ASSUME SerialInv, NEW newHeap, NEW newSchemas, GroupDone(newHeap, newSchemas), SnapshotsLeft
  PROVE  ChangedOK'
<1>1. ASSUME NEW t \in Tx, txs'[t].status = "active", NEW tb \in DOMAIN durable'.tables,
             durable'.tables[tb].changed <= txs'[t].snapshot
      PROVE  Alike(ReadAt(durable'.tables, tb, durable'.csn),
                   ReadAt(durable'.tables, tb, txs'[t].snapshot))
  <2> DEFINE s == txs[t].snapshot
  <2>1. txs[t].status = "active" /\ txs'[t].snapshot = s
    BY <1>1 DEF SnapshotsLeft
  <2>2. /\ s \in Nat /\ durable.csn \in Nat /\ s <= durable.csn /\ durable'.csn = durable.csn + 1
        /\ txs \in TxMaps /\ \A o \in Tx : txs[o].snapshot <= durable.csn + 1
    <3>1. /\ txs \in TxMaps /\ durable.csn \in Nat /\ durable'.csn = durable.csn + 1
          /\ \A o \in Tx : txs[o].snapshot \in Nat /\ txs[o].snapshot <= durable.csn
      BY MaxCsnAssumption, TxFields
         DEF SerialInv, StateInv, DurableOK, SnapshotsOK, LocksOK, TxMaps, GroupDone
    <3> QED
      BY <3>1
  <2>3. Oldest(txs, durable.csn + 1) <= s
    <3> DEFINE z == durable.csn + 1
    <3>1. z \in Nat /\ \A o \in Tx : txs[o].snapshot <= z
      BY <2>2
    <3> HIDE DEF z
    <3>2. Oldest(txs, z) <= s
      BY <2>1, <2>2, <3>1, OldestIs
    <3> QED
      BY <3>2 DEF z
  <2>4. ReadAt(durable'.tables, tb, s) = ReadAt(durable.tables, tb, s)
    BY <2>2, <2>3 DEF GroupDone
  <2>5. durable'.tables[tb].changed # durable'.csn
    BY <1>1, <2>1, <2>2
  <2>6. Unaltered(durable'.tables[tb], durable.tables, tb, durable'.csn, durable.csn,
                  ReadAt(durable'.tables, tb, durable'.csn))
    BY DEF GroupDone
  <2>7. /\ tb \in DOMAIN durable.tables /\ durable.tables[tb].changed <= s
        /\ Alike(ReadAt(durable'.tables, tb, durable'.csn), ReadAt(durable.tables, tb, durable.csn))
    BY <1>1, <2>1, <2>5, <2>6 DEF Unaltered, ReadAt
  <2>8. Alike(ReadAt(durable.tables, tb, durable.csn), ReadAt(durable.tables, tb, s))
    BY <2>1, <2>7 DEF SerialInv, ChangedOK
  <2> QED
    BY <2>1, <2>4, <2>7, <2>8, AlikeTrans
<1> QED
  BY <1>1 DEF ChangedOK

\* Steps that concern only the commit mutex and the gate.
LEMMA GateSerial ==
  ASSUME SerialInv, UNCHANGED <<durable, txs>>, gate'.stage # "apply"
  PROVE  ChangedOK' /\ ReadsOK'
BY ChangedSame DEF SerialInv, SnapshotsLeft, ReadsOK

\* validate() looked at the reads before the gate's operations were set.
LEMMA StartSerial ==
  ASSUME SerialInv, NEW t \in Tx, CommitStart(t)
  PROVE  ChangedOK' /\ ReadsOK'
<1>1. /\ ~ recovery /\ committer.tx = t /\ Valid(t, txs[t].plan # << >>)
      /\ TablesOf(txs[t].plan) \subseteq DOMAIN durable.tables
      /\ UNCHANGED <<durable, txs, committer, recovery>>
      /\ gate' = [stage |-> IF MergedOps(t) = << >> THEN "finish" ELSE "apply", ops |-> MergedOps(t)]
  BY DEF CommitStart, CommitReady, Committing
<1>2. ChangedOK'
  BY <1>1, ChangedSame DEF SerialInv, SnapshotsLeft
<1>3. CASE MergedOps(t) = << >>
  <2>1. gate'.stage # "apply"
    BY <1>1, <1>3
  <2> QED
    BY <1>2, <2>1 DEF ReadsOK
<1>4. CASE MergedOps(t) # << >>
  <2>1. txs[t].plan \in Seq(Operations) /\ txs[t].snapshot \in Nat
    BY TxFields DEF SerialInv, StateInv, LocksOK, TxMaps
  <2>2. durable.csn \in Nat /\ durable.next_row \in Nat
        /\ TablesOK(durable.tables, durable.csn, durable.next_row)
    BY MaxCsnAssumption DEF SerialInv, StateInv, DurableOK
  <2>3. MergedOps(t) \in Seq(Operations) /\ TablesOf(MergedOps(t)) \subseteq TablesOf(txs[t].plan)
    BY <1>1, <2>1, <2>2, MergedOpsIs
  <2>4. txs[t].plan # << >>
    <3>1. ASSUME NEW s \in Seq(Operations), s # << >> PROVE TablesOf(s) # {}
      <4>1. 1 \in DOMAIN s
        BY <3>1
      <4> QED
        BY <4>1 DEF TablesOf
    <3>2. TablesOf(MergedOps(t)) # {}
      BY <1>4, <2>3, <3>1
    <3>3. TablesOf(<< >>) = {}
      BY DEF TablesOf
    <3> QED
      BY <2>3, <3>2, <3>3
  <2>5. ASSUME txs[t].serializable, NEW tb \in txs[t].reads
        PROVE  Alike(ReadAt(durable.tables, tb, durable.csn),
                     ReadAt(durable.tables, tb, txs[t].snapshot))
    <3>1. /\ txs[t].status = "active" /\ tb \in DOMAIN durable.tables
          /\ durable.tables[tb].changed <= txs[t].snapshot
      BY <1>1, <2>4, <2>5 DEF Valid
    <3> QED
      BY <3>1 DEF SerialInv, ChangedOK
  <2>6. committer'.tx = t /\ txs' = txs /\ durable' = durable /\ ~ recovery'
    BY <1>1
  <2>7. ReadsOK'
    BY <2>5, <2>6 DEF ReadsOK
  <2> QED
    BY <1>2, <2>7
<1> QED
  BY <1>3, <1>4

\* A published group that leaves the transactions as they are.
LEMMA PublishSerial ==
  ASSUME SerialInv, durable.csn < MaxCsn, NEW newHeap, NEW newSchemas, NEW touched,
         Edit(newHeap, newSchemas, touched), Publish(newHeap, newSchemas, touched),
         txs' = txs, gate'.stage # "apply"
  PROVE  ChangedOK' /\ ReadsOK'
<1>1. GroupDone(newHeap, newSchemas)
  BY PublishIs DEF SerialInv
<1>2. SnapshotsLeft
  BY DEF SnapshotsLeft
<1> QED
  BY <1>1, <1>2, GroupSerial DEF ReadsOK

LEMMA ApplySerial ==
  ASSUME SerialInv, NEW t \in Tx, CommitApply(t)
  PROVE  ChangedOK' /\ ReadsOK'
<1>1. /\ gate.stage = "apply" /\ txs' = txs
      /\ Publish(HeapAfterAll(heap, gate.ops), schemas, TablesOf(gate.ops))
      /\ gate' = [gate EXCEPT !.stage = "finish"]
  BY DEF CommitApply
<1>2. /\ Edit(HeapAfterAll(heap, gate.ops), schemas, TablesOf(gate.ops))
      /\ durable.csn < MaxCsn
      /\ gate \in [stage : {"free", "apply", "finish"}, ops : Seq(Operations)]
  BY <1>1, ApplyEdit DEF SerialInv, StateInv, CommitOK
<1>3. gate'.stage # "apply"
  BY <1>1, <1>2
<1> QED
  BY <1>1, <1>2, <1>3, PublishSerial

LEMMA FailSerial ==
  ASSUME SerialInv, NEW t \in Tx, CommitFail(t)
  PROVE  ChangedOK' /\ ReadsOK'
<1>1. AllFailed
  BY CommitFailIs DEF SerialInv
<1>2. \A o \in Tx : txs'[o].status # "active"
  BY <1>1 DEF AllFailed
<1>3. gate' = OpenGate
  BY DEF CommitFail
<1> QED
  BY <1>2, <1>3 DEF ChangedOK, ReadsOK, OpenGate

LEMMA DirectSerial ==
  ASSUME SerialInv, NEW op \in DirectOps, DirectWrite(op) \/ DirectFail(op)
  PROVE  ChangedOK' /\ ReadsOK'
<1>1. /\ DirectReady /\ op.table \in Catalog(schemas) /\ txs' = txs /\ gate' = gate
      /\ \/ Publish(HeapAfter(heap, op), schemas, {op.table})
         \/ durable' = durable
  BY DEF DirectWrite, DirectFail
<1>2. gate'.stage # "apply" /\ durable.csn < MaxCsn
  BY <1>1 DEF DirectReady, GateFree
<1>3. Edit(HeapAfter(heap, op), schemas, {op.table})
  BY <1>1, RowsAssumption, DirectEdit DEF SerialInv
<1> QED
  BY <1>1, <1>2, <1>3, PublishSerial, GateSerial

LEMMA DdlSerial ==
  ASSUME SerialInv, NEW tb, DropTable(tb) \/ ReplaceSchema(tb)
  PROVE  ChangedOK' /\ ReadsOK'
<1>1. /\ DirectReady /\ tb \in Catalog(schemas) /\ tb \in Tables /\ txs' = txs /\ gate' = gate
      /\ heap \in Heaps /\ schemas \in [Tables -> Nat]
  BY DEF DropTable, ReplaceSchema, Catalog, SerialInv, StateInv, HeapOK
<1>2. gate'.stage # "apply" /\ durable.csn < MaxCsn
  BY <1>1 DEF DirectReady, GateFree
<1>3. CASE DropTable(tb)
  <2> DEFINE H == [heap EXCEPT ![tb] = << >>]
             S == [schemas EXCEPT ![tb] = Absent]
  <2>1. Publish(H, S, {tb})
    BY <1>3 DEF DropTable
  <2>2. H \in Heaps /\ H[tb] = << >> /\ \A u \in Tables \ {tb} : H[u] = heap[u]
    BY <1>1 DEF Heaps
  <2>3. S \in [Tables -> Nat] /\ \A u \in Tables \ {tb} : S[u] = schemas[u]
    BY <1>1 DEF Absent
  <2> HIDE DEF H, S
  <2>4. Edit(H, S, {tb})
    BY <1>1, <2>2, <2>3 DEF Edit
  <2> QED
    BY <1>1, <1>2, <2>1, <2>4, PublishSerial
<1>4. CASE ReplaceSchema(tb)
  <2> DEFINE S == [schemas EXCEPT ![tb] = @ + 1]
  <2>1. Publish(heap, S, {tb})
    BY <1>4 DEF ReplaceSchema
  <2>2. S \in [Tables -> Nat] /\ S[tb] # 0 /\ \A u \in Tables \ {tb} : S[u] = schemas[u]
    BY <1>1
  <2> HIDE DEF S
  <2>3. tb \in Catalog(S)
    BY <1>1, <2>2 DEF Catalog, Absent
  <2>4. Edit(heap, S, {tb})
    BY <1>1, <2>2, <2>3 DEF Edit
  <2> QED
    BY <1>1, <1>2, <2>1, <2>4, PublishSerial
<1> QED
  BY <1>3, <1>4

LEMMA StepSerial ==
  ASSUME SerialInv, [Next]_vars
  PROVE  SerialInv'
<1> DEFINE Goal == ChangedOK' /\ ReadsOK'
<1>0. StateInv /\ StateInv'
  BY StepKeeps DEF SerialInv
<1>1. ASSUME NEW t \in Tx, NEW s \in BOOLEAN, Begin(t, s) PROVE Goal
  BY <1>0, <1>1, BeginIs, BegunSerial DEF Begin, GateFree
<1>2. ASSUME NEW t \in Tx, NEW ops \in Plans, NEW reads \in ReadSets, Lock(t, ops, reads)
      PROVE  Goal
  <2>1. Asked(t)
    BY <1>0, <1>2, LockIs
  <2> QED
    BY <2>1, AskedSerial
<1>3. ASSUME NEW t \in Tx, Wake(t) PROVE Goal
  <2>1. Resumed(t) \/ Returned(t)
    BY <1>0, <1>3, WakeIs
  <2> QED
    BY <2>1, AskedSerial
<1>4. ASSUME NEW t \in Tx, Timeout(t) PROVE Goal
  <2>1. Resumed(t)
    BY <1>0, <1>4, ResumeIs DEF Timeout, Others
  <2> QED
    BY <2>1, AskedSerial
<1>5. ASSUME NEW t \in Tx, FailLock(t) PROVE Goal
  <2>1. Failed(t)
    BY <1>0, <1>5, FailLockIs
  <2> QED
    BY <2>1, AskedSerial
<1>6. ASSUME NEW t \in Tx, Rollback(t) PROVE Goal
  BY <1>6, FinishSerial DEF Rollback, Committing
<1>7. ASSUME NEW t \in Tx, Preview(t) \/ CommitRefused(t) PROVE Goal
  BY <1>7, GateSerial DEF Preview, CommitRefused, GateFree
<1>8. ASSUME NEW t \in Tx, CommitStart(t) PROVE Goal
  BY <1>8, StartSerial
<1>9. ASSUME NEW t \in Tx, CommitApply(t) PROVE Goal
  BY <1>9, ApplySerial
<1>10. ASSUME NEW t \in Tx, CommitFail(t) PROVE Goal
  BY <1>10, FailSerial
<1>11. ASSUME NEW t \in Tx, CommitFinish(t) PROVE Goal
  BY <1>11, FinishSerial DEF CommitFinish
<1>12. ASSUME NEW op \in DirectOps, DirectWrite(op) \/ DirectFail(op) PROVE Goal
  BY <1>12, DirectSerial
<1>13. ASSUME NEW tb \in DdlTables, DropTable(tb) \/ ReplaceSchema(tb) PROVE Goal
  BY <1>13, DdlSerial
<1>14. ASSUME Done \/ UNCHANGED vars PROVE Goal
  <2>1. UNCHANGED <<durable, txs, gate, committer, recovery>>
    BY <1>14 DEF Done, vars
  <2>2. SnapshotsLeft /\ CommitterLeft
    BY <2>1 DEF SnapshotsLeft, CommitterLeft, SameWork
  <2> QED
    BY <2>1, <2>2, ChangedSame, ReadsSame DEF SerialInv
<1> HIDE DEF Goal
<1>15. Goal
  BY <1>1, <1>2, <1>3, <1>4, <1>5, <1>6, <1>7, <1>8, <1>9, <1>10, <1>11, <1>12, <1>13, <1>14 DEF Next
<1> QED
  BY <1>0, <1>15 DEF Goal, SerialInv

LEMMA InitSerial ==
  ASSUME Init
  PROVE  SerialInv
<1>1. \A t \in Tx : txs[t].status # "active"
  BY NoTxType DEF Init
<1>2. gate.stage # "apply"
  BY DEF Init, OpenGate
<1> QED
  BY <1>1, <1>2, InitKeeps DEF SerialInv, ChangedOK, ReadsOK

\* What the gate's transaction read is in the heap.
LEMMA ReadsInHeap ==
  ASSUME SerialInv, gate.stage = "apply", txs[committer.tx].serializable,
         NEW tb \in txs[committer.tx].reads
  PROVE  SameRows(heap[tb], view[committer.tx][tb])
<1> DEFINE t == committer.tx
<1>1. t \in Tx /\ ~ recovery /\ txs[t].status = "active"
  BY DEF SerialInv, StateInv, CommitOK, Committing, ReadsOK
<1>2. tb \in Tables
  BY <1>1, TxFields DEF SerialInv, StateInv, LocksOK, TxMaps, Transactions
<1>3. view[t][tb] = ReadAt(durable.tables, tb, txs[t].snapshot)
  BY <1>1, <1>2 DEF SerialInv, StateInv, SnapshotsOK
<1>4. heap[tb] = ReadAt(durable.tables, tb, durable.csn)
  BY <1>1, <1>2 DEF SerialInv, StateInv, HeapOK, InSync, ReadAt
<1>5. Alike(heap[tb], view[t][tb])
  BY <1>3, <1>4 DEF SerialInv, ReadsOK
<1> QED
  BY <1>5 DEF Alike, SameRows

\* A serializable transaction writes only while every table it declared to
\* have read has the rows of its snapshot: validate() compares the CSN a table
\* was last changed at, and what publish_changed leaves unmarked is the same
\* multiset of rows, whatever was written, dropped, pruned or rolled back
\* since the transaction began.
THEOREM ReadsAreCurrent == Spec => SerializableReads
<1>1. Init => SerialInv
  BY InitSerial
<1>2. SerialInv /\ [Next]_vars => SerialInv'
  BY StepSerial
<1>3. SerialInv => [CommitStep /\ txs[committer.tx].serializable =>
                      \A tb \in txs[committer.tx].reads :
                         SameRows(heap[tb], view[committer.tx][tb])]_vars
  BY ReadsInHeap DEF CommitStep
<1> QED
  BY <1>1, <1>2, <1>3, PTL DEF Spec, SerializableReads
=============================================================================
