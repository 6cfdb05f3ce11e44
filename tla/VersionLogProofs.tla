-------------------------- MODULE VersionLogProofs --------------------------
(***************************************************************************)
(* VersionLog is correct for all catalogs, readers and values, and any     *)
(* number of commits, crashes and write errors.                            *)
(*                                                                         *)
(* What the files, the memory and the version being persisted have in      *)
(* common is not the whole durable: readers that went away let versions be *)
(* pruned in one and not in the other.  Same compares what is left when    *)
(* nobody has an older snapshot, the open versions.  Shows says that the   *)
(* open versions are the rows of a catalog.                                *)
(*                                                                         *)
(* Publication keeps a durable Sound and makes it show the catalog         *)
(* (PublishedShows); at the commit the durable has already, it changes     *)
(* nothing (RawAgain).  A line of the log makes of everything that         *)
(* is the same as the memory something that is the same as the version     *)
(* being persisted (LineMakes).                                            *)
(***************************************************************************)
EXTENDS VersionLog, TLAPS, FiniteSetTheorems, WellFoundedInduction, NaturalsInduction

OpenOf(d) == {v \in d.versions : v.end = OpenEnd}

\* A chain has one open version, and Mvcc::open() accepts the durable.
Sound(d) ==
    /\ d \in Durables /\ OpenAccepts(d)
    /\ \A v, w \in OpenOf(d) : v.table = w.table /\ v.row = w.row => v = w

Same(d, e) ==
    d.csn = e.csn /\ d.next_row = e.next_row /\ d.live = e.live /\ OpenOf(d) = OpenOf(e)

Shows(d, csn, catalog) ==
    /\ d.csn = csn /\ d.live = DOMAIN catalog
    /\ \A v \in OpenOf(d) : v.table \in DOMAIN catalog
    /\ \A t \in DOMAIN catalog : RowsOf(d, t) = catalog[t]

ShowsTarget(d) == Shows(d, target.csn, target.catalog)

\* What a restart would find is sound: the last commit, or the one before.
FilesSound ==
    /\ torn => pc \in {"sealed", "down"}
    /\ base # NoBase =>
         /\ Sound(base) /\ Sound(Found) /\ base.csn <= Found.csn
         /\ Found.csn \in {checkpoint, target.csn}
         /\ Found.csn = target.csn => ShowsTarget(Found)
    /\ \A i \in DOMAIN delta : delta[i].csn <= Found.csn

\* Before the first publication.
Importing ==
    /\ base = NoBase => /\ pc \in {"up", "snapshot", "down"}
                        /\ checkpoint = target.csn /\ delta = <<>> /\ ~ torn
    /\ pc = "down" \/ NeedsImport => mem = NoDurable /\ format = 1
    /\ NeedsImport /\ pc # "down" => checkpoint = target.csn /\ delta = <<>>
    /\ target.csn = 0 => target.catalog = EmptyFn

\* How the checkpoint follows the commits.
Stages ==
    /\ checkpoint <= target.csn
    /\ pc = "up" => checkpoint = target.csn
    /\ pc \in {"append", "checkpoint", "sealed", "recover"} => checkpoint < target.csn
    /\ pc \in {"append", "checkpoint", "recover"} => ~ NeedsImport

MemorySound ==
    /\ Sound(mem) /\ Sound(next)
    /\ \A r \in Readers : readers[r] <= mem.csn
    /\ pc = "down" => readers = [r \in Readers |-> Idle]
    /\ pc \in {"up", "snapshot", "append", "checkpoint", "recover"} /\ ~ NeedsImport =>
         Same(Found, mem)
    /\ pc \in {"up", "checkpoint"} /\ ~ NeedsImport => ShowsTarget(mem)

\* The version being persisted.
NextSound ==
    /\ pc \in {"snapshot", "append", "truncate", "install"} =>
         /\ ShowsTarget(next) /\ mem.csn <= next.csn /\ mem.next_row <= next.next_row
         /\ mem.csn = next.csn => Same(mem, next)
    /\ pc = "truncate" => base = next
    /\ pc \in {"truncate", "install"} => base # NoBase /\ Same(Found, next)

Inv == TypeOK /\ FilesSound /\ Importing /\ Stages /\ MemorySound /\ NextSound

(***************************************************************************)
(* Reading the log.                                                        *)
(***************************************************************************)

LEMMA LeastNumber ==
  ASSUME NEW S \in SUBSET Nat, S # {}
  PROVE  \E s \in S : \A o \in S : s <= o
<1> DEFINE R == OpToRel(<, Nat)
<1>1. IsWellFoundedOn(R, Nat)
  BY NatLessThanWellFounded
<1>2. PICK s \in S : \A o \in S : ~ (<<o, s>> \in R)
  BY <1>1, WFMin
<1>3. \A o \in S : o < s => <<o, s>> \in R
  BY DEF OpToRel
<1>4. \A o \in S : ~ (o < s)
  BY <1>2, <1>3
<1> HIDE DEF R
<1>5. \A o \in S : o \in Nat /\ s \in Nat
  OBVIOUS
<1> QED
  BY <1>4, <1>5

\* Induction over the natural numbers, for a set of them.
LEMMA SetInduction ==
  ASSUME NEW P \in SUBSET Nat, 0 \in P, \A n \in P : n + 1 \in P
  PROVE  P = Nat
<1> DEFINE Bad == Nat \ P
<1>1. SUFFICES ASSUME Bad # {} PROVE FALSE
  OBVIOUS
<1>2. PICK x \in Bad : \A y \in Bad : x <= y
  BY <1>1, LeastNumber
<1>3. x \in Nat /\ x # 0
  BY <1>2
<1>4. x - 1 \in Nat /\ ~ (x <= x - 1) /\ (x - 1) + 1 = x
  BY <1>3
<1> QED
  BY <1>2, <1>4

Line(start, f, log, m) == IF m = 0 THEN start ELSE ReplayDelta(start.csn, f[m - 1], log[m])
Reads(f, start, log, n) == f = [m \in 0 .. n |-> Line(start, f, log, m)]

LEMMA ReplayedIs ==
  ASSUME NEW start, NEW log
  PROVE  Replayed(start, log) = (CHOOSE f : Reads(f, start, log, Len(log)))[Len(log)]
BY DEF Replayed, Reads, Line

LEMMA ReadsAt ==
  ASSUME NEW start, NEW log, NEW n \in Nat, NEW f, Reads(f, start, log, n)
  PROVE  /\ f[0] = start
         /\ \A m \in 1 .. n : f[m] = ReplayDelta(start.csn, f[m - 1], log[m])
<1>1. \A m \in 0 .. n : f[m] = Line(start, f, log, m)
  BY DEF Reads
<1> QED
  BY <1>1 DEF Line

\* The recursive function of Replayed exists.
LEMMA ReadsExist ==
  ASSUME NEW start, NEW log, NEW n \in Nat
  PROVE  \E f : Reads(f, start, log, n)
<1> DEFINE P == {k \in Nat : \E f : Reads(f, start, log, k)}
<1>1. 0 \in P
  <2> DEFINE f == [m \in 0 .. 0 |-> start]
  <2>1. Reads(f, start, log, 0)
    BY DEF Reads, Line
  <2> QED
    BY <2>1
<1>2. ASSUME NEW k \in P PROVE k + 1 \in P
  <2>1. PICK f : Reads(f, start, log, k)
    BY <1>2
  <2> DEFINE g == [m \in 0 .. k + 1 |-> IF m = k + 1 THEN ReplayDelta(start.csn, f[k], log[k + 1])
                                        ELSE f[m]]
  <2>2. ASSUME NEW m \in 0 .. k + 1 PROVE g[m] = Line(start, g, log, m)
    <3>1. CASE m = k + 1
      <4>1. g[m - 1] = f[k] /\ m # 0
        BY <3>1
      <4> QED
        BY <3>1, <4>1 DEF Line
    <3>2. CASE m # k + 1
      <4>1. m \in 0 .. k
        BY <3>2
      <4>2. f[m] = Line(start, f, log, m)
        BY <2>1, <4>1 DEF Reads
      <4>3. m # 0 => g[m - 1] = f[m - 1]
        BY <4>1
      <4> QED
        BY <3>2, <4>2, <4>3 DEF Line
    <3> QED
      BY <3>1, <3>2
  <2>3. Reads(g, start, log, k + 1)
    <3>1. g = [m \in 0 .. k + 1 |-> g[m]]
      OBVIOUS
    <3> HIDE DEF g
    <3> QED
      BY <2>2, <3>1 DEF Reads
  <2> HIDE DEF g
  <2> QED
    BY <2>3
<1>3. P = Nat
  <2> HIDE DEF P
  <2>1. P \in SUBSET Nat
    BY DEF P
  <2> QED
    BY <1>1, <1>2, <2>1, SetInduction
<1> QED
  BY <1>3

\* Lines at or below the base change nothing.
LEMMA ReplaySkips ==
  ASSUME NEW start, start # Refused,
         NEW log \in Seq(Deltas), \A i \in DOMAIN log : log[i].csn <= start.csn
  PROVE  Replayed(start, log) = start
<1> DEFINE N == Len(log)
<1>1. N \in Nat
  OBVIOUS
<1>2. PICK f : Reads(f, start, log, N) /\ Replayed(start, log) = f[N]
  BY <1>1, ReadsExist, ReplayedIs
<1> HIDE DEF N
<1>6. f[0] = start /\ \A m \in 1 .. N : f[m] = ReplayDelta(start.csn, f[m - 1], log[m])
  BY <1>1, <1>2, ReadsAt
<1> DEFINE P == {k \in Nat : k <= N => f[k] = start}
<1>3. 0 \in P
  BY <1>6
<1>4. ASSUME NEW k \in P PROVE k + 1 \in P
  <2> SUFFICES ASSUME k + 1 <= N PROVE f[k + 1] = start
    OBVIOUS
  <2>1. k \in Nat /\ k + 1 \in 1 .. N /\ (k + 1) - 1 = k /\ f[k] = start
    BY <1>1
  <2>2. f[k + 1] = ReplayDelta(start.csn, f[k], log[k + 1])
    BY <1>6, <2>1
  <2>3. log[k + 1] \in Deltas /\ log[k + 1].csn <= start.csn
    BY <2>1 DEF N
  <2> QED
    BY <2>1, <2>2, <2>3 DEF ReplayDelta, Deltas
<1>5. P = Nat
  <2>1. P \in SUBSET Nat
    OBVIOUS
  <2> HIDE DEF P
  <2> QED
    BY <1>3, <1>4, <2>1, SetInduction
<1> QED
  BY <1>1, <1>2, <1>5

\* A line that was appended is read last.
LEMMA ReplayAppend ==
  ASSUME NEW start, NEW log \in Seq(Deltas), NEW d \in Deltas
  PROVE  Replayed(start, Append(log, d)) = ReplayDelta(start.csn, Replayed(start, log), d)
<1> DEFINE N == Len(log)
           longer == Append(log, d)
<1>1. /\ N \in Nat /\ Len(longer) = N + 1
      /\ longer[N + 1] = d /\ \A m \in 1 .. N : longer[m] = log[m]
  OBVIOUS
<1> HIDE DEF longer
<1>2. PICK f : Reads(f, start, log, N) /\ Replayed(start, log) = f[N]
  BY <1>1, ReadsExist, ReplayedIs
<1> HIDE DEF N
<1>3. PICK g : Reads(g, start, longer, N + 1) /\ Replayed(start, longer) = g[N + 1]
  <2>1. N + 1 \in Nat
    BY <1>1
  <2>2. \E g : Reads(g, start, longer, N + 1)
    BY <2>1, ReadsExist
  <2> QED
    BY <1>1, <2>2, ReplayedIs
<1>10. f[0] = start /\ \A m \in 1 .. N : f[m] = ReplayDelta(start.csn, f[m - 1], log[m])
  BY <1>1, <1>2, ReadsAt
<1>11. g[0] = start /\ \A m \in 1 .. N + 1 : g[m] = ReplayDelta(start.csn, g[m - 1], longer[m])
  <2> DEFINE K == N + 1
  <2>1. K \in Nat /\ Reads(g, start, longer, K)
    BY <1>1, <1>3
  <2> HIDE DEF K
  <2>2. g[0] = start /\ \A m \in 1 .. K : g[m] = ReplayDelta(start.csn, g[m - 1], longer[m])
    BY <2>1, ReadsAt
  <2> QED
    BY <2>2 DEF K
<1> DEFINE P == {k \in Nat : k <= N => f[k] = g[k]}
<1>4. 0 \in P
  BY <1>10, <1>11
<1>5. ASSUME NEW k \in P PROVE k + 1 \in P
  <2> SUFFICES ASSUME k + 1 <= N PROVE f[k + 1] = g[k + 1]
    OBVIOUS
  <2>1. /\ k \in Nat /\ k + 1 \in 1 .. N /\ k + 1 \in 1 .. N + 1 /\ (k + 1) - 1 = k
        /\ f[k] = g[k] /\ N + 1 \in Nat
    BY <1>1
  <2>2. f[k + 1] = ReplayDelta(start.csn, f[k], log[k + 1])
    BY <1>10, <2>1
  <2>3. g[k + 1] = ReplayDelta(start.csn, g[k], longer[k + 1])
    BY <1>11, <2>1
  <2> QED
    BY <1>1, <2>1, <2>2, <2>3
<1>6. P = Nat
  <2>1. P \in SUBSET Nat
    OBVIOUS
  <2> HIDE DEF P
  <2> QED
    BY <1>4, <1>5, <2>1, SetInduction
<1>7. f[N] = g[N]
  BY <1>1, <1>6
<1>8. g[N + 1] = ReplayDelta(start.csn, g[N], longer[N + 1])
  <2>1. N + 1 \in Nat /\ N + 1 \in 1 .. N + 1 /\ (N + 1) - 1 = N
    BY <1>1
  <2> QED
    BY <1>11, <2>1
<1>9. Replayed(start, longer) = ReplayDelta(start.csn, Replayed(start, log), d)
  BY <1>1, <1>2, <1>3, <1>7, <1>8
<1> QED
  BY <1>9 DEF longer

(***************************************************************************)
(* Durables.                                                               *)
(***************************************************************************)

LEMMA NotRefused ==
  ASSUME NEW d \in Durables
  PROVE  d # Refused
BY DEF Durables, Refused, NoDurable

LEMMA PruneIs ==
  ASSUME NEW d \in Durables, NEW o \in Nat
  PROVE  /\ Prune(d, o) \in Durables
         /\ Prune(d, o).csn = d.csn /\ Prune(d, o).next_row = d.next_row /\ Prune(d, o).live = d.live
         /\ Prune(d, o).versions = {v \in d.versions : v.end = OpenEnd \/ v.end > o}
BY DEF Prune, Durables

LEMMA PruneKeeps ==
  ASSUME NEW d, Sound(d), NEW o \in Nat
  PROVE  Sound(Prune(d, o)) /\ Same(Prune(d, o), d)
<1> DEFINE p == Prune(d, o)
<1>1. d \in Durables
  BY DEF Sound
<1>2. /\ p \in Durables /\ p.csn = d.csn /\ p.next_row = d.next_row /\ p.live = d.live
      /\ p.versions = {v \in d.versions : v.end = OpenEnd \/ v.end > o}
  BY <1>1, PruneIs
<1> HIDE DEF p
<1>3. OpenOf(p) = OpenOf(d) /\ p.versions \subseteq d.versions
  BY <1>2 DEF OpenOf
<1>4. OpenAccepts(p)
  BY <1>2, <1>3 DEF Sound, OpenAccepts
<1>5. Sound(p) /\ Same(p, d)
  BY <1>2, <1>3, <1>4 DEF Sound, Same
<1> QED
  BY <1>5 DEF p

LEMMA SameIsSymmetric ==
  ASSUME NEW d, NEW e, Same(d, e)
  PROVE  Same(e, d)
BY DEF Same

LEMMA SameIsTransitive ==
  ASSUME NEW d, NEW e, NEW f, Same(d, e), Same(e, f)
  PROVE  Same(d, f)
BY DEF Same

LEMMA VisibleIs ==
  ASSUME NEW d, NEW t
  PROVE  Visible(d, t) = {v \in OpenOf(d) : v.table = t}
BY DEF Visible, OpenOf

LEMMA SameShows ==
  ASSUME NEW d, NEW e, NEW csn, NEW catalog, Same(d, e), Shows(d, csn, catalog)
  PROVE  Shows(e, csn, catalog)
<1>1. \A t : Visible(d, t) = Visible(e, t)
  BY VisibleIs DEF Same
<1>2. \A t : RowsOf(d, t) = RowsOf(e, t)
  BY <1>1 DEF RowsOf
<1> QED
  BY <1>2 DEF Same, Shows

LEMMA SettledIs ==
  ASSUME NEW d, Sound(d)
  PROVE  Settled(d) = [csn |-> d.csn, next_row |-> d.next_row, live |-> d.live,
                       versions |-> OpenOf(d)]
<1>1. d \in Durables /\ d.csn \in Nat
  BY DEF Sound, Durables
<1> DEFINE s == Settled(d)
<1>2. /\ s \in Durables /\ s.csn = d.csn /\ s.next_row = d.next_row /\ s.live = d.live
      /\ s.versions = {v \in d.versions : v.end = OpenEnd \/ v.end > d.csn}
  BY <1>1, PruneIs DEF Settled
<1> HIDE DEF s
<1>3. \A v \in d.versions : v.end \in Nat /\ (v.end # OpenEnd => v.end <= d.csn)
  BY <1>1 DEF Sound, OpenAccepts, Durables, Versions
<1>4. s.versions = OpenOf(d)
  BY <1>1, <1>2, <1>3 DEF OpenOf
<1>5. s = [csn |-> d.csn, next_row |-> d.next_row, live |-> d.live, versions |-> OpenOf(d)]
  BY <1>2, <1>4 DEF Durables
<1> QED
  BY <1>5 DEF s

LEMMA SameSettles ==
  ASSUME NEW d, NEW e, Sound(d), Sound(e), Same(d, e)
  PROVE  Settled(d) = Settled(e)
BY SettledIs DEF Same

LEMMA NothingSound == Sound(NoDurable) /\ OpenOf(NoDurable) = {}
BY DEF Sound, OpenOf, NoDurable, Durables, OpenAccepts

(***************************************************************************)
(* Publication.                                                            *)
(***************************************************************************)

GoodCatalogs == {EmptyFn} \cup Catalogs \cup Legacy

LEMMA CatalogIs ==
  ASSUME NEW catalog \in GoodCatalogs
  PROVE  /\ DOMAIN catalog \subseteq Nat
         /\ \A t \in DOMAIN catalog : catalog[t] \subseteq [key : Nat, val : Values]
         /\ \A t \in DOMAIN catalog : \A c, d \in catalog[t] : c.key = d.key => c = d
         /\ IsFiniteSet(RowsIn(catalog, DOMAIN catalog))
<1>1. CASE catalog \in Catalogs \cup Legacy
  BY <1>1, VersionLogAssumption
<1>2. CASE catalog = EmptyFn
  <2>1. DOMAIN catalog = {}
    BY <1>2 DEF EmptyFn
  <2>2. RowsIn(catalog, DOMAIN catalog) = {}
    BY <2>1 DEF RowsIn
  <2> QED
    BY <2>1, <2>2, FS_EmptySet
<1> QED
  BY <1>1, <1>2 DEF GoodCatalogs

LEMMA RowsInIs ==
  ASSUME NEW catalog, NEW tables, NEW n \in RowsIn(catalog, tables)
  PROVE  n = <<n[1], n[2]>> /\ n[1] \in tables /\ n[2] \in catalog[n[1]]
BY DEF RowsIn

LEMMA RowIn ==
  ASSUME NEW catalog, NEW tables, NEW t \in tables, NEW c \in catalog[t]
  PROVE  <<t, c>> \in RowsIn(catalog, tables)
BY DEF RowsIn

\* A row that begins is one of the table's, with other contents than it had.
Begins(d, catalog, touched, n) ==
    /\ n = <<n[1], n[2]>> /\ n[1] \in touched /\ n[1] \in DOMAIN catalog /\ n[1] \in Nat
    /\ n[2] \in catalog[n[1]] /\ n[2].key \in Nat /\ n[2].val \in Values
    /\ n[2] = [key |-> n[2].key, val |-> n[2].val]
    /\ \A v \in Visible(d, n[1]) : [key |-> v.key, val |-> v.val] # n[2]

LEMMA NewIs ==
  ASSUME NEW d, NEW catalog \in GoodCatalogs, NEW touched \in SUBSET DOMAIN catalog,
         NEW n \in New(d, catalog, touched)
  PROVE  Begins(d, catalog, touched, n)
<1>1. n \in RowsIn(catalog, touched) /\ \A v \in Visible(d, n[1]) : ~ Kept(v, {n[2]})
  BY DEF New
<1>2. n = <<n[1], n[2]>> /\ n[1] \in touched /\ n[2] \in catalog[n[1]]
  BY <1>1, RowsInIs
<1>3. n[1] \in DOMAIN catalog /\ n[1] \in Nat /\ n[2] \in [key : Nat, val : Values]
  BY <1>2, CatalogIs
<1> QED
  BY <1>1, <1>2, <1>3 DEF Kept, Begins

LEMMA FreshFinite ==
  ASSUME NEW d, NEW catalog \in GoodCatalogs, NEW touched \in SUBSET DOMAIN catalog
  PROVE  /\ IsFiniteSet(Fresh(d, catalog, touched))
         /\ Cardinality(Fresh(d, catalog, touched)) \in Nat
<1>1. Fresh(d, catalog, touched) \subseteq RowsIn(catalog, DOMAIN catalog)
  <2> SUFFICES ASSUME NEW n \in Fresh(d, catalog, touched) PROVE n \in RowsIn(catalog, DOMAIN catalog)
    OBVIOUS
  <2>1. n \in New(d, catalog, touched)
    BY DEF Fresh
  <2>4. Begins(d, catalog, touched, n)
    BY <2>1, NewIs
  <2>2. n = <<n[1], n[2]>> /\ n[1] \in DOMAIN catalog /\ n[2] \in catalog[n[1]]
    BY <2>4 DEF Begins
  <2>3. <<n[1], n[2]>> \in RowsIn(catalog, DOMAIN catalog)
    BY <2>2, RowIn
  <2> QED
    BY <2>2, <2>3
<1>2. IsFiniteSet(RowsIn(catalog, DOMAIN catalog))
  BY CatalogIs
<1>3. IsFiniteSet(Fresh(d, catalog, touched))
  BY <1>1, <1>2, FS_Subset
<1> QED
  BY <1>3, FS_CardinalityType

\* Rows of fresh pairs, in the order of their tables and keys, get one number each.
LEMMA FreshNumbers ==
  ASSUME NEW d \in Durables, NEW catalog \in GoodCatalogs, NEW touched \in SUBSET DOMAIN catalog,
         NEW m \in Fresh(d, catalog, touched), NEW n \in Fresh(d, catalog, touched)
  PROVE  LET fresh == Fresh(d, catalog, touched)
         IN  /\ Number(d, fresh, n) \in Nat
             /\ Number(d, fresh, n) > d.next_row
             /\ Number(d, fresh, n) <= d.next_row + Cardinality(fresh)
             /\ Number(d, fresh, m) = Number(d, fresh, n) => m = n
<1> DEFINE fresh == Fresh(d, catalog, touched)
<1>1. IsFiniteSet(fresh) /\ Cardinality(fresh) \in Nat /\ d.next_row \in Nat
  BY FreshFinite DEF Durables
<1>2. \A o \in fresh : /\ o = <<o[1], o[2]>> /\ o[1] \in Nat /\ o[2].key \in Nat
                       /\ o[1] \in DOMAIN catalog /\ o[2] \in catalog[o[1]]
  <2> SUFFICES ASSUME NEW o \in fresh
               PROVE  /\ o = <<o[1], o[2]>> /\ o[1] \in Nat /\ o[2].key \in Nat
                      /\ o[1] \in DOMAIN catalog /\ o[2] \in catalog[o[1]]
    OBVIOUS
  <2>1. o \in New(d, catalog, touched)
    BY DEF Fresh
  <2>2. Begins(d, catalog, touched, o)
    BY <2>1, NewIs
  <2> QED
    BY <2>2 DEF Begins
<1>3. \A o, q \in fresh : o[1] = q[1] /\ o[2].key = q[2].key => o = q
  <2> SUFFICES ASSUME NEW o \in fresh, NEW q \in fresh, o[1] = q[1], o[2].key = q[2].key
               PROVE  o = q
    OBVIOUS
  <2>1. o[2] = q[2]
    BY <1>2, CatalogIs
  <2> HIDE DEF fresh
  <2> QED
    BY <1>2, <2>1
<1> HIDE DEF fresh
<1>4. \A o \in fresh : UpTo(fresh, o) \in SUBSET fresh /\ o \in UpTo(fresh, o)
  BY <1>2 DEF UpTo
<1>5. \A o \in fresh : /\ IsFiniteSet(UpTo(fresh, o)) /\ Cardinality(UpTo(fresh, o)) \in Nat
                       /\ Cardinality(UpTo(fresh, o)) <= Cardinality(fresh)
                       /\ Cardinality(UpTo(fresh, o)) # 0
  <2> SUFFICES ASSUME NEW o \in fresh
               PROVE  /\ IsFiniteSet(UpTo(fresh, o)) /\ Cardinality(UpTo(fresh, o)) \in Nat
                      /\ Cardinality(UpTo(fresh, o)) <= Cardinality(fresh)
                      /\ Cardinality(UpTo(fresh, o)) # 0
    OBVIOUS
  <2>1. IsFiniteSet(UpTo(fresh, o)) /\ Cardinality(UpTo(fresh, o)) <= Cardinality(fresh)
    BY <1>1, <1>4, FS_Subset
  <2>2. Cardinality(UpTo(fresh, o)) \in Nat
    BY <2>1, FS_CardinalityType
  <2>3. UpTo(fresh, o) # {}
    BY <1>4
  <2>4. Cardinality(UpTo(fresh, o)) # 0
    BY <2>1, <2>3, FS_EmptySet
  <2> QED
    BY <2>1, <2>2, <2>4
<1>6. \A o, q \in fresh : UpTo(fresh, o) \subseteq UpTo(fresh, q) \/ UpTo(fresh, q) \subseteq UpTo(fresh, o)
  BY <1>2 DEF UpTo
<1>7. ASSUME Cardinality(UpTo(fresh, m)) = Cardinality(UpTo(fresh, n)) PROVE m = n
  <2>1. m \in fresh /\ n \in fresh
    BY DEF fresh
  <2>2. UpTo(fresh, m) = UpTo(fresh, n)
    <3>1. CASE UpTo(fresh, m) \subseteq UpTo(fresh, n)
      BY <1>5, <1>7, <2>1, <3>1, FS_Subset
    <3>2. CASE UpTo(fresh, n) \subseteq UpTo(fresh, m)
      BY <1>5, <1>7, <2>1, <3>2, FS_Subset
    <3> QED
      BY <1>6, <2>1, <3>1, <3>2
  <2>3. m \in UpTo(fresh, n) /\ n \in UpTo(fresh, m)
    BY <1>4, <2>1, <2>2
  <2>4. m[1] = n[1] /\ m[2].key = n[2].key
    BY <1>2, <2>1, <2>3 DEF UpTo
  <2> QED
    BY <1>3, <2>1, <2>4
<1>8. m \in fresh /\ n \in fresh
  BY DEF fresh
<1>9. /\ Number(d, fresh, n) = d.next_row + Cardinality(UpTo(fresh, n))
      /\ Number(d, fresh, m) = d.next_row + Cardinality(UpTo(fresh, m))
  BY <1>8 DEF Number
<1>10. /\ Number(d, fresh, n) \in Nat
       /\ Number(d, fresh, n) > d.next_row
       /\ Number(d, fresh, n) <= d.next_row + Cardinality(fresh)
       /\ Number(d, fresh, m) = Number(d, fresh, n) => m = n
  BY <1>1, <1>5, <1>7, <1>8, <1>9
<1> QED
  BY <1>10 DEF fresh

\* A row whose key is known goes on in the chain of the version it ends.
LEMMA KnownNumber ==
  ASSUME NEW d, Sound(d), NEW catalog \in GoodCatalogs, NEW touched \in SUBSET DOMAIN catalog,
         NEW n \in New(d, catalog, touched), n \notin Fresh(d, catalog, touched)
  PROVE  \E v \in Ended(d, catalog, touched) :
            /\ v \in OpenOf(d) /\ v.table = n[1] /\ v.key = n[2].key
            /\ Number(d, Fresh(d, catalog, touched), n) = v.row
<1>1. Known(d, n) # {}
  BY DEF Fresh
<1> DEFINE v == CHOOSE w \in Known(d, n) : TRUE
<1>2. v \in Known(d, n) /\ Number(d, Fresh(d, catalog, touched), n) = v.row
  BY <1>1 DEF Number
<1> HIDE DEF v
<1>3. v \in Visible(d, n[1]) /\ v \in OpenOf(d) /\ v.table = n[1] /\ v.key = n[2].key
      /\ v.end = OpenEnd /\ v \in d.versions
  BY <1>2 DEF Known, Visible, OpenOf
<1>7. Begins(d, catalog, touched, n)
  BY NewIs
<1>4. /\ n[1] \in touched /\ n[1] \in DOMAIN catalog /\ n[2] \in catalog[n[1]]
      /\ [key |-> v.key, val |-> v.val] # n[2]
  BY <1>3, <1>7 DEF Begins
<1>5. ~ Kept(v, catalog[n[1]])
  <2> SUFFICES ASSUME [key |-> v.key, val |-> v.val] \in catalog[n[1]] PROVE FALSE
    BY DEF Kept
  <2> DEFINE c == [key |-> v.key, val |-> v.val]
  <2>1. c \in catalog[n[1]] /\ c.key = n[2].key
    BY <1>3
  <2>2. c = n[2]
    <3> HIDE DEF c
    <3> QED
      BY <1>4, <2>1, CatalogIs
  <2> QED
    BY <1>4, <2>2
<1>6. v \in Ended(d, catalog, touched)
  BY <1>3, <1>4, <1>5 DEF Ended, Stays
<1> QED
  BY <1>2, <1>3, <1>6

\* A publication before it is pruned.
Raw(d, csn, catalog, touched) ==
    LET ended == Ended(d, catalog, touched)
        fresh == Fresh(d, catalog, touched)
    IN  [csn |-> csn, next_row |-> d.next_row + Cardinality(fresh), live |-> DOMAIN catalog,
         versions |-> (d.versions \ ended)
             \cup {EndAt(v, csn) : v \in ended}
             \cup {BeginAt(d, fresh, n, csn) : n \in New(d, catalog, touched)}]

LEMMA PublishedIs ==
  ASSUME NEW d, NEW csn, NEW catalog, NEW touched, NEW oldest
  PROVE  Published(d, csn, catalog, touched, oldest) = Prune(Raw(d, csn, catalog, touched), oldest)
BY DEF Published, Raw

\* What a publication may be given: a commit after the durable's, or the same
\* once more.
Publishable(d, csn, catalog, touched) ==
    /\ Sound(d) /\ csn \in Nat /\ catalog \in GoodCatalogs /\ touched \in SUBSET DOMAIN catalog
    /\ d.csn <= csn
    /\ d.csn = csn => /\ Ended(d, catalog, touched) = {} /\ New(d, catalog, touched) = {}

\* The three kinds of versions after a publication.
Old(d, catalog, touched, v) == v \in d.versions /\ v \notin Ended(d, catalog, touched)
Closed(d, csn, catalog, touched, v) ==
    \E u \in Ended(d, catalog, touched) : /\ v.table = u.table /\ v.row = u.row /\ v.key = u.key
                                          /\ v.val = u.val /\ v.begin = u.begin /\ v.end = csn
                                          /\ u \in OpenOf(d)
Opened(d, csn, catalog, touched, v) ==
    \E n \in New(d, catalog, touched) :
        /\ v.table = n[1] /\ v.row = Number(d, Fresh(d, catalog, touched), n)
        /\ v.key = n[2].key /\ v.val = n[2].val /\ v.begin = csn /\ v.end = OpenEnd

LEMMA NumberIs ==
  ASSUME NEW d, Sound(d), NEW catalog \in GoodCatalogs, NEW touched \in SUBSET DOMAIN catalog,
         NEW n \in New(d, catalog, touched)
  PROVE  /\ Number(d, Fresh(d, catalog, touched), n) \in Nat
         /\ Number(d, Fresh(d, catalog, touched), n)
              <= d.next_row + Cardinality(Fresh(d, catalog, touched))
<1> DEFINE fresh == Fresh(d, catalog, touched)
<1>1. Cardinality(fresh) \in Nat /\ d \in Durables /\ d.next_row \in Nat
  BY FreshFinite DEF Sound, Durables
<1>2. CASE n \in fresh
  <2>1. Number(d, fresh, n) \in Nat /\ Number(d, fresh, n) <= d.next_row + Cardinality(fresh)
    BY <1>1, <1>2, FreshNumbers
  <2> QED
    BY <2>1
<1>3. CASE n \notin fresh
  <2>1. PICK v \in Ended(d, catalog, touched) : Number(d, fresh, n) = v.row
    BY <1>3, KnownNumber
  <2>2. v \in d.versions
    BY DEF Ended
  <2>3. v.row \in Nat /\ v.row <= d.next_row
    BY <1>1, <2>2 DEF Sound, OpenAccepts, Durables, Versions
  <2> HIDE DEF fresh
  <2>4. Number(d, fresh, n) \in Nat /\ Number(d, fresh, n) <= d.next_row + Cardinality(fresh)
    BY <1>1, <2>1, <2>3
  <2> QED
    BY <2>4 DEF fresh
<1> QED
  BY <1>2, <1>3

LEMMA BeginIs ==
  ASSUME NEW d, Sound(d), NEW csn \in Nat, NEW catalog \in GoodCatalogs,
         NEW touched \in SUBSET DOMAIN catalog, NEW n \in New(d, catalog, touched)
  PROVE  LET v == BeginAt(d, Fresh(d, catalog, touched), n, csn)
         IN  /\ v \in Versions
             /\ v.table = n[1] /\ v.row = Number(d, Fresh(d, catalog, touched), n)
             /\ v.key = n[2].key /\ v.val = n[2].val /\ v.begin = csn /\ v.end = OpenEnd
<1>1. Begins(d, catalog, touched, n)
  BY NewIs
<1>2. Number(d, Fresh(d, catalog, touched), n) \in Nat
  BY NumberIs
<1>3. n[1] \in Nat /\ n[2].key \in Nat /\ n[2].val \in Values
  BY <1>1 DEF Begins
<1> QED
  BY <1>2, <1>3 DEF BeginAt, Versions, OpenEnd

LEMMA EndedIs ==
  ASSUME NEW d, NEW catalog, NEW touched, NEW u \in Ended(d, catalog, touched)
  PROVE  u \in d.versions /\ u \in OpenOf(d) /\ u.end = OpenEnd
BY DEF Ended, Stays, OpenOf

LEMMA EndIs ==
  ASSUME NEW u \in Versions, NEW csn \in Nat
  PROVE  LET v == EndAt(u, csn)
         IN  /\ v \in Versions /\ v.table = u.table /\ v.row = u.row /\ v.key = u.key
             /\ v.val = u.val /\ v.begin = u.begin /\ v.end = csn
BY DEF EndAt, Versions

LEMMA RawIs ==
  ASSUME NEW d, Sound(d), NEW csn \in Nat, NEW catalog \in GoodCatalogs,
         NEW touched \in SUBSET DOMAIN catalog
  PROVE  LET r == Raw(d, csn, catalog, touched)
         IN  /\ r \in Durables /\ r.csn = csn /\ r.live = DOMAIN catalog
             /\ r.next_row = d.next_row + Cardinality(Fresh(d, catalog, touched))
             /\ \A v \in r.versions : /\ v \in Versions
                                      /\ \/ Old(d, catalog, touched, v)
                                         \/ Closed(d, csn, catalog, touched, v)
                                         \/ Opened(d, csn, catalog, touched, v)
             /\ \A v : Old(d, catalog, touched, v) => v \in r.versions
             /\ \A n \in New(d, catalog, touched) :
                   BeginAt(d, Fresh(d, catalog, touched), n, csn) \in r.versions
<1> DEFINE r == Raw(d, csn, catalog, touched)
           ended == Ended(d, catalog, touched)
           fresh == Fresh(d, catalog, touched)
           new == New(d, catalog, touched)
<1>1. d \in Durables /\ d.next_row \in Nat /\ d.versions \subseteq Versions
  BY DEF Sound, Durables
<1>2. Cardinality(fresh) \in Nat /\ DOMAIN catalog \in SUBSET Nat
  BY FreshFinite, CatalogIs
<1>3. /\ r.csn = csn /\ r.live = DOMAIN catalog
      /\ r.next_row = d.next_row + Cardinality(fresh)
      /\ r.versions = (d.versions \ ended) \cup {EndAt(v, csn) : v \in ended}
                        \cup {BeginAt(d, fresh, n, csn) : n \in new}
      /\ r = [csn |-> r.csn, next_row |-> r.next_row, live |-> r.live, versions |-> r.versions]
  BY DEF Raw
<1>4. ASSUME NEW v \in d.versions \ ended PROVE v \in Versions /\ Old(d, catalog, touched, v)
  BY <1>1 DEF Old
<1>5. ASSUME NEW u \in ended
      PROVE  EndAt(u, csn) \in Versions /\ Closed(d, csn, catalog, touched, EndAt(u, csn))
  <2>1. u \in Versions /\ u \in OpenOf(d)
    BY <1>1, EndedIs
  <2> DEFINE v == EndAt(u, csn)
  <2>2. /\ v \in Versions /\ v.table = u.table /\ v.row = u.row /\ v.key = u.key
        /\ v.val = u.val /\ v.begin = u.begin /\ v.end = csn
    BY <2>1, EndIs
  <2> HIDE DEF v
  <2>3. v \in Versions /\ Closed(d, csn, catalog, touched, v)
    BY <2>1, <2>2 DEF Closed
  <2> QED
    BY <2>3 DEF v
<1>6. ASSUME NEW n \in new
      PROVE  /\ BeginAt(d, fresh, n, csn) \in Versions
             /\ Opened(d, csn, catalog, touched, BeginAt(d, fresh, n, csn))
  <2> DEFINE v == BeginAt(d, fresh, n, csn)
  <2>1. /\ v \in Versions
        /\ v.table = n[1] /\ v.row = Number(d, fresh, n)
        /\ v.key = n[2].key /\ v.val = n[2].val /\ v.begin = csn /\ v.end = OpenEnd
    BY BeginIs
  <2> HIDE DEF v
  <2>2. v \in Versions /\ Opened(d, csn, catalog, touched, v)
    BY <2>1 DEF Opened
  <2> QED
    BY <2>2 DEF v
<1> HIDE DEF r, ended, fresh, new
<1>7. \A v \in r.versions : /\ v \in Versions
                            /\ \/ Old(d, catalog, touched, v)
                               \/ Closed(d, csn, catalog, touched, v)
                               \/ Opened(d, csn, catalog, touched, v)
  BY <1>3, <1>4, <1>5, <1>6
<1>8. r \in Durables
  <2>1. r.versions \in SUBSET Versions /\ r.csn \in Nat /\ r.next_row \in Nat /\ r.live \in SUBSET Nat
    BY <1>1, <1>2, <1>3, <1>7
  <2> QED
    BY <1>3, <2>1 DEF Durables
<1>9. \A v : Old(d, catalog, touched, v) => v \in r.versions
  BY <1>3 DEF Old, ended
<1>10. \A n \in new : BeginAt(d, fresh, n, csn) \in r.versions
  BY <1>3
<1> QED
  BY <1>3, <1>7, <1>8, <1>9, <1>10 DEF r, fresh, new

\* No two rows of a table begin in the same chain.
LEMMA NumbersDiffer ==
  ASSUME NEW d, Sound(d), NEW catalog \in GoodCatalogs, NEW touched \in SUBSET DOMAIN catalog,
         NEW m \in New(d, catalog, touched), NEW n \in New(d, catalog, touched), m[1] = n[1],
         Number(d, Fresh(d, catalog, touched), m) = Number(d, Fresh(d, catalog, touched), n)
  PROVE  m = n
<1> DEFINE fresh == Fresh(d, catalog, touched)
<1>1. d \in Durables /\ d.next_row \in Nat
  BY DEF Sound, Durables
<1>2. \A o \in New(d, catalog, touched) : o \notin fresh =>
         \E v \in OpenOf(d) : v.table = o[1] /\ v.key = o[2].key /\ Number(d, fresh, o) = v.row
  BY KnownNumber
<1>3. \A v \in OpenOf(d) : v.row \in Nat /\ v.row <= d.next_row
  BY <1>1 DEF Sound, OpenAccepts, Durables, Versions, OpenOf
<1>4. \A o \in fresh : Number(d, fresh, o) > d.next_row /\ Number(d, fresh, o) \in Nat
  BY <1>1, FreshNumbers
<1>5. CASE m \in fresh /\ n \in fresh
  BY <1>1, <1>5, FreshNumbers
<1>6. CASE m \notin fresh /\ n \notin fresh
  <2>1. PICK v \in OpenOf(d) : v.table = m[1] /\ v.key = m[2].key /\ Number(d, fresh, m) = v.row
    BY <1>2, <1>6
  <2>2. PICK w \in OpenOf(d) : w.table = n[1] /\ w.key = n[2].key /\ Number(d, fresh, n) = w.row
    BY <1>2, <1>6
  <2>3. v = w
    BY <2>1, <2>2 DEF Sound
  <2>4. m[2].key = n[2].key
    BY <2>1, <2>2, <2>3
  <2>5. Begins(d, catalog, touched, m) /\ Begins(d, catalog, touched, n)
    BY NewIs
  <2>6. /\ m = <<m[1], m[2]>> /\ n = <<n[1], n[2]>> /\ m[2] \in catalog[n[1]] /\ n[2] \in catalog[n[1]]
        /\ n[1] \in DOMAIN catalog
    BY <2>5 DEF Begins
  <2>7. m[2] = n[2]
    BY <2>4, <2>6, CatalogIs
  <2> QED
    BY <2>6, <2>7
<1>7. CASE m \in fresh /\ n \notin fresh
  <2>1. PICK w \in OpenOf(d) : Number(d, fresh, n) = w.row
    BY <1>2, <1>7
  <2> HIDE DEF fresh
  <2>2. Number(d, fresh, m) = w.row
    BY <2>1 DEF fresh
  <2> QED
    BY <1>1, <1>3, <1>4, <1>7, <2>2
<1>8. CASE m \notin fresh /\ n \in fresh
  <2>1. PICK w \in OpenOf(d) : Number(d, fresh, m) = w.row
    BY <1>2, <1>8
  <2> HIDE DEF fresh
  <2>2. Number(d, fresh, n) = w.row
    BY <2>1 DEF fresh
  <2> QED
    BY <1>1, <1>3, <1>4, <1>8, <2>2
<1> QED
  BY <1>5, <1>6, <1>7, <1>8

\* A row that begins is not in the chain of an open version that stays.
LEMMA NumberNotOld ==
  ASSUME NEW d, Sound(d), NEW catalog \in GoodCatalogs, NEW touched \in SUBSET DOMAIN catalog,
         NEW n \in New(d, catalog, touched), NEW w \in OpenOf(d), w.table = n[1],
         w.row = Number(d, Fresh(d, catalog, touched), n)
  PROVE  w \in Ended(d, catalog, touched)
<1> DEFINE fresh == Fresh(d, catalog, touched)
<1>1. d \in Durables /\ d.next_row \in Nat
  BY DEF Sound, Durables
<1>2. w.row \in Nat /\ w.row <= d.next_row
  BY <1>1 DEF Sound, OpenAccepts, Durables, Versions, OpenOf
<1>3. CASE n \in fresh
  <2>1. Number(d, fresh, n) > d.next_row /\ Number(d, fresh, n) \in Nat
    BY <1>1, <1>3, FreshNumbers
  <2> HIDE DEF fresh
  <2>2. Number(d, fresh, n) = w.row
    BY DEF fresh
  <2> QED
    BY <1>1, <1>2, <2>1, <2>2
<1>4. CASE n \notin fresh
  <2>1. PICK v \in Ended(d, catalog, touched) :
            v \in OpenOf(d) /\ v.table = n[1] /\ Number(d, fresh, n) = v.row
    BY <1>4, KnownNumber
  <2>2. v = w
    BY <2>1 DEF Sound
  <2> QED
    BY <2>1, <2>2
<1> QED
  BY <1>3, <1>4

LEMMA RawSound ==
  ASSUME NEW d, NEW csn, NEW catalog, NEW touched, Publishable(d, csn, catalog, touched)
  PROVE  Sound(Raw(d, csn, catalog, touched))
<1> DEFINE r == Raw(d, csn, catalog, touched)
           ended == Ended(d, catalog, touched)
           fresh == Fresh(d, catalog, touched)
           new == New(d, catalog, touched)
           Is1(v) == Old(d, catalog, touched, v)
           Is2(v) == Closed(d, csn, catalog, touched, v)
           Is3(v) == Opened(d, csn, catalog, touched, v)
<1>1. /\ Sound(d) /\ csn \in Nat /\ catalog \in GoodCatalogs /\ touched \in SUBSET DOMAIN catalog
      /\ d \in Durables /\ d.csn \in Nat /\ d.next_row \in Nat /\ d.csn <= csn
      /\ d.csn = csn => ended = {} /\ new = {}
  BY DEF Publishable, Sound, Durables
<1>2. /\ r \in Durables /\ r.csn = csn
      /\ r.next_row = d.next_row + Cardinality(fresh)
      /\ \A v \in r.versions : v \in Versions /\ (Is1(v) \/ Is2(v) \/ Is3(v))
  BY <1>1, RawIs
<1>3. Cardinality(fresh) \in Nat
  BY <1>1, FreshFinite
<1>4. \A u \in d.versions :
         /\ u \in Versions /\ u.row <= d.next_row /\ u.begin <= d.csn
         /\ u.row \in Nat /\ u.begin \in Nat /\ u.end \in Nat
         /\ u.end # OpenEnd => u.end > u.begin /\ u.end <= d.csn
  BY <1>1 DEF Sound, OpenAccepts, Durables, Versions
<1>5. ASSUME NEW v, Is1(v)
      PROVE  v \in d.versions /\ v \notin ended /\ v.begin <= d.csn /\ v.begin \in Nat
  BY <1>4, <1>5 DEF Old
<1>6. ASSUME NEW v, Is2(v)
      PROVE  /\ d.csn < csn /\ v.end = csn /\ v.begin \in Nat /\ v.begin <= d.csn /\ v.end # OpenEnd
             /\ \E u \in ended : /\ u \in d.versions /\ v.table = u.table /\ v.row = u.row
                                 /\ v.begin = u.begin /\ v.key = u.key /\ v.val = u.val
  <2>1. PICK u \in ended : /\ v.table = u.table /\ v.row = u.row /\ v.key = u.key
                           /\ v.val = u.val /\ v.begin = u.begin /\ v.end = csn
    BY <1>6 DEF Closed
  <2>2. u \in d.versions
    BY EndedIs
  <2>3. d.csn < csn
    <3> HIDE DEF ended, new
    <3> QED
      BY <1>1, <2>1
  <2>4. csn # OpenEnd
    BY <1>1, <2>3 DEF OpenEnd
  <2> QED
    BY <1>4, <2>1, <2>2, <2>3, <2>4
<1>7. ASSUME NEW v, Is3(v)
      PROVE  /\ d.csn < csn /\ v.end = OpenEnd /\ v.begin = csn
             /\ \E n \in new : v.table = n[1] /\ v.row = Number(d, fresh, n) /\ v.key = n[2].key /\ v.val = n[2].val
  <2>1. PICK n \in new : /\ v.table = n[1] /\ v.row = Number(d, fresh, n)
                         /\ v.key = n[2].key /\ v.val = n[2].val /\ v.begin = csn /\ v.end = OpenEnd
    BY <1>7 DEF Opened
  <2>2. d.csn < csn
    <3> HIDE DEF ended, new
    <3> QED
      BY <1>1, <2>1
  <2> QED
    BY <2>1, <2>2
<1>8. \A n \in new : Number(d, fresh, n) \in Nat /\ Number(d, fresh, n) <= d.next_row + Cardinality(fresh)
  BY <1>1, NumberIs
<1>9. \A m, n \in new : m[1] = n[1] /\ Number(d, fresh, m) = Number(d, fresh, n) => m = n
  BY <1>1, NumbersDiffer
<1>10. \A n \in new : \A w \in OpenOf(d) : w.table = n[1] /\ w.row = Number(d, fresh, n) => w \in ended
  BY <1>1, NumberNotOld
<1>20. \A v, w \in d.versions : v.table = w.table /\ v.row = w.row /\ v.begin = w.begin => v = w
  BY <1>1 DEF Sound, OpenAccepts
<1>21. \A v, w \in OpenOf(d) : v.table = w.table /\ v.row = w.row => v = w
  BY <1>1 DEF Sound
<1>22. ASSUME NEW v \in Versions, NEW w \in Versions, v.table = w.table, v.row = w.row,
              v.key = w.key, v.val = w.val, v.begin = w.begin, v.end = w.end
       PROVE  v = w
  BY <1>22 DEF Versions
<1> HIDE DEF r, ended, fresh, new, Is1, Is2, Is3
<1>11. ASSUME NEW v \in r.versions
       PROVE  /\ v.row <= r.next_row /\ v.begin <= r.csn
              /\ v.end # OpenEnd => v.end > v.begin /\ v.end <= r.csn
  <2>1. CASE Is1(v)
    BY <1>1, <1>2, <1>3, <1>4, <1>5, <2>1
  <2>2. CASE Is2(v)
    <3>1. v.row \in Nat /\ v.row <= d.next_row
      BY <1>4, <1>6, <2>2
    <3> QED
      BY <1>1, <1>2, <1>3, <1>6, <2>2, <3>1
  <2>3. CASE Is3(v)
    BY <1>1, <1>2, <1>3, <1>7, <1>8, <2>3
  <2> QED
    BY <1>2, <2>1, <2>2, <2>3
<1>12. ASSUME NEW v \in r.versions, NEW w \in r.versions,
              v.table = w.table, v.row = w.row, v.begin = w.begin
       PROVE  v = w
  <2>1. CASE Is3(v) /\ Is3(w)
    <3>1. PICK m \in new : v.table = m[1] /\ v.row = Number(d, fresh, m) /\ v.key = m[2].key /\ v.val = m[2].val
      BY <1>7, <2>1
    <3>2. PICK n \in new : w.table = n[1] /\ w.row = Number(d, fresh, n) /\ w.key = n[2].key /\ w.val = n[2].val
      BY <1>7, <2>1
    <3>3. m = n
      BY <1>9, <1>12, <3>1, <3>2
    <3>4. v.end = w.end
      BY <1>7, <2>1
    <3> QED
      BY <1>2, <1>12, <1>22, <3>1, <3>2, <3>3, <3>4
  <2>2. CASE Is3(v) /\ ~ Is3(w)
    BY <1>1, <1>2, <1>5, <1>6, <1>7, <1>12, <2>2
  <2>3. CASE ~ Is3(v) /\ Is3(w)
    BY <1>1, <1>2, <1>5, <1>6, <1>7, <1>12, <2>3
  <2>4. CASE Is1(v) /\ Is1(w)
    BY <1>5, <1>12, <1>20, <2>4
  <2>5. CASE Is1(v) /\ Is2(w)
    <3>1. PICK u \in ended : u \in d.versions /\ w.table = u.table /\ w.row = u.row /\ w.begin = u.begin
      BY <1>6, <2>5
    <3> QED
      BY <1>5, <1>12, <1>20, <2>5, <3>1
  <2>6. CASE Is2(v) /\ Is1(w)
    <3>1. PICK u \in ended : u \in d.versions /\ v.table = u.table /\ v.row = u.row /\ v.begin = u.begin
      BY <1>6, <2>6
    <3> QED
      BY <1>5, <1>12, <1>20, <2>6, <3>1
  <2>7. CASE Is2(v) /\ Is2(w)
    <3>1. PICK u \in ended : /\ u \in d.versions /\ v.table = u.table /\ v.row = u.row
                             /\ v.begin = u.begin /\ v.key = u.key /\ v.val = u.val
      BY <1>6, <2>7
    <3>2. PICK x \in ended : /\ x \in d.versions /\ w.table = x.table /\ w.row = x.row
                             /\ w.begin = x.begin /\ w.key = x.key /\ w.val = x.val
      BY <1>6, <2>7
    <3>3. u = x
      BY <1>12, <1>20, <3>1, <3>2
    <3>4. v.end = w.end
      BY <1>6, <2>7
    <3> QED
      BY <1>2, <1>12, <1>22, <3>1, <3>2, <3>3, <3>4
  <2> QED
    BY <1>2, <2>1, <2>2, <2>3, <2>4, <2>5, <2>6, <2>7
<1>13. ASSUME NEW v \in OpenOf(r), NEW w \in OpenOf(r), v.table = w.table, v.row = w.row
       PROVE  v = w
  <2>1. v \in r.versions /\ w \in r.versions /\ v.end = OpenEnd /\ w.end = OpenEnd
    BY DEF OpenOf
  <2>2. ~ Is2(v) /\ ~ Is2(w)
    BY <1>6, <2>1
  <2>3. CASE Is3(v) /\ Is3(w)
    BY <1>7, <1>12, <1>13, <2>1, <2>3
  <2>4. CASE Is1(v) /\ Is1(w)
    <3>1. v \in OpenOf(d) /\ w \in OpenOf(d)
      BY <1>5, <2>1, <2>4 DEF OpenOf
    <3> QED
      BY <1>13, <1>21, <3>1
  <2>5. CASE Is1(v) /\ Is3(w)
    <3>1. v \in OpenOf(d) /\ v \notin ended
      BY <1>5, <2>1, <2>5 DEF OpenOf
    <3>2. PICK n \in new : w.table = n[1] /\ w.row = Number(d, fresh, n)
      BY <1>7, <2>5
    <3> QED
      BY <1>10, <1>13, <3>1, <3>2
  <2>6. CASE Is3(v) /\ Is1(w)
    <3>1. w \in OpenOf(d) /\ w \notin ended
      BY <1>5, <2>1, <2>6 DEF OpenOf
    <3>2. PICK n \in new : v.table = n[1] /\ v.row = Number(d, fresh, n)
      BY <1>7, <2>6
    <3> QED
      BY <1>10, <1>13, <3>1, <3>2
  <2> QED
    BY <1>2, <2>1, <2>2, <2>3, <2>4, <2>5, <2>6
<1>14. OpenAccepts(r)
  BY <1>11, <1>12 DEF OpenAccepts
<1>15. Sound(r)
  BY <1>2, <1>13, <1>14 DEF Sound
<1> QED
  BY <1>15 DEF r

Untouched(d, catalog, touched) == \A t \in DOMAIN catalog \ touched : RowsOf(d, t) = catalog[t]

LEMMA RawShows ==
  ASSUME NEW d, NEW csn, NEW catalog, NEW touched, Publishable(d, csn, catalog, touched),
         Untouched(d, catalog, touched)
  PROVE  Shows(Raw(d, csn, catalog, touched), csn, catalog)
<1> DEFINE r == Raw(d, csn, catalog, touched)
           ended == Ended(d, catalog, touched)
           fresh == Fresh(d, catalog, touched)
           new == New(d, catalog, touched)
<1>1. /\ Sound(d) /\ csn \in Nat /\ catalog \in GoodCatalogs /\ touched \in SUBSET DOMAIN catalog
      /\ d.csn \in Nat /\ d.csn <= csn
      /\ d.csn = csn => ended = {}
  BY DEF Publishable, Sound, Durables
<1>2. r.csn = csn /\ r.live = DOMAIN catalog
  BY <1>1, RawIs
<1>3. \A v \in r.versions : \/ Old(d, catalog, touched, v)
                            \/ Closed(d, csn, catalog, touched, v)
                            \/ Opened(d, csn, catalog, touched, v)
  BY <1>1, RawIs
<1>4. \A v : Old(d, catalog, touched, v) => v \in r.versions
  BY <1>1, RawIs
<1>5. \A n \in new : BeginAt(d, fresh, n, csn) \in r.versions
  BY <1>1, RawIs
<1> HIDE DEF r
<1>6. ASSUME NEW v \in OpenOf(r)
      PROVE  \/ v \in OpenOf(d) /\ v \notin ended
             \/ \E n \in new : v.table = n[1] /\ v.key = n[2].key /\ v.val = n[2].val
  <2>1. v \in r.versions /\ v.end = OpenEnd
    BY DEF OpenOf
  <2>2. ~ Closed(d, csn, catalog, touched, v)
    <3> SUFFICES ASSUME Closed(d, csn, catalog, touched, v) PROVE FALSE
      OBVIOUS
    <3>1. ended # {} /\ v.end = csn
      BY DEF Closed
    <3> HIDE DEF ended
    <3> QED
      BY <1>1, <2>1, <3>1 DEF OpenEnd
  <2>3. CASE Old(d, catalog, touched, v)
    BY <2>1, <2>3 DEF Old, OpenOf
  <2>4. CASE Opened(d, csn, catalog, touched, v)
    BY <2>4 DEF Opened
  <2> QED
    BY <1>3, <2>1, <2>2, <2>3, <2>4
<1>7. ASSUME NEW v \in OpenOf(d), v \notin ended
      PROVE  /\ v \in OpenOf(r) /\ v.table \in DOMAIN catalog
             /\ v.table \in touched => [key |-> v.key, val |-> v.val] \in catalog[v.table]
  <2>1. v \in d.versions /\ v.end = OpenEnd
    BY DEF OpenOf
  <2>2. Stays(v, catalog, touched)
    BY <1>7, <2>1 DEF Ended
  <2>3. v \in r.versions
    BY <1>4, <1>7, <2>1 DEF Old
  <2> QED
    BY <2>1, <2>2, <2>3 DEF Stays, Kept, OpenOf
<1>8. ASSUME NEW v \in OpenOf(d), v.table \in DOMAIN catalog,
             v.table \in touched => [key |-> v.key, val |-> v.val] \in catalog[v.table]
      PROVE  v \notin ended
  BY <1>8 DEF Ended, Stays, Kept
<1>9. ASSUME NEW n \in new
      PROVE  /\ n[1] \in touched /\ n[1] \in DOMAIN catalog /\ n[2] \in catalog[n[1]]
             /\ n[2] = [key |-> n[2].key, val |-> n[2].val]
             /\ \E v \in OpenOf(r) : v.table = n[1] /\ v.key = n[2].key /\ v.val = n[2].val
  <2>1. Begins(d, catalog, touched, n)
    BY <1>1, NewIs
  <2> DEFINE v == BeginAt(d, fresh, n, csn)
  <2>2. v.table = n[1] /\ v.key = n[2].key /\ v.val = n[2].val /\ v.end = OpenEnd
    BY <1>1, BeginIs
  <2>3. v \in r.versions
    BY <1>5
  <2> HIDE DEF v
  <2>4. v \in OpenOf(r)
    BY <2>2, <2>3 DEF OpenOf
  <2>5. \E x \in OpenOf(r) : x.table = n[1] /\ x.key = n[2].key /\ x.val = n[2].val
    BY <2>2, <2>4
  <2> QED
    BY <2>1, <2>5 DEF Begins
<1>10. ASSUME NEW v \in OpenOf(r) PROVE v.table \in DOMAIN catalog
  <2> HIDE DEF ended, new
  <2> QED
    BY <1>6, <1>7, <1>9
<1>11. ASSUME NEW t \in DOMAIN catalog, t \in touched PROVE RowsOf(r, t) = catalog[t]
  <2>1. ASSUME NEW v \in Visible(r, t) PROVE [key |-> v.key, val |-> v.val] \in catalog[t]
    <3>1. v \in OpenOf(r) /\ v.table = t
      BY VisibleIs
    <3>2. CASE v \in OpenOf(d) /\ v \notin ended
      BY <1>7, <1>11, <3>1, <3>2
    <3>3. CASE \E n \in new : v.table = n[1] /\ v.key = n[2].key /\ v.val = n[2].val
      <4>1. PICK n \in new : v.table = n[1] /\ v.key = n[2].key /\ v.val = n[2].val
        BY <3>3
      <4>2. n[2] \in catalog[n[1]] /\ n[2] = [key |-> n[2].key, val |-> n[2].val]
        BY <1>9
      <4> QED
        BY <3>1, <4>1, <4>2
    <3> QED
      BY <1>6, <3>1, <3>2, <3>3
  <2>2. ASSUME NEW c \in catalog[t]
        PROVE  \E v \in Visible(r, t) : c = [key |-> v.key, val |-> v.val]
    <3>1. CASE <<t, c>> \in new
      <4> DEFINE n == <<t, c>>
      <4>1. n[1] = t /\ n[2] = c /\ n \in new
        BY <3>1
      <4> HIDE DEF n
      <4>2. c = [key |-> c.key, val |-> c.val]
        BY <1>9, <4>1
      <4>3. PICK v \in OpenOf(r) : v.table = t /\ v.key = c.key /\ v.val = c.val
        BY <1>9, <4>1
      <4>4. v \in Visible(r, t)
        BY <4>3, VisibleIs
      <4> QED
        BY <4>2, <4>3, <4>4
    <3>2. CASE <<t, c>> \notin new
      <4> DEFINE n == <<t, c>>
      <4>1. n[1] = t /\ n[2] = c /\ n \in RowsIn(catalog, touched) /\ n \notin new
        BY <1>11, <3>2, RowIn
      <4> HIDE DEF n
      <4>2. PICK v \in Visible(d, t) : Kept(v, {c})
        BY <4>1 DEF New
      <4>3. v \in OpenOf(d) /\ v.table = t /\ c = [key |-> v.key, val |-> v.val]
        BY <4>2, VisibleIs DEF Kept
      <4>4. v \notin ended
        BY <1>8, <4>3
      <4>5. v \in Visible(r, t)
        BY <1>7, <4>3, <4>4, VisibleIs
      <4> QED
        BY <4>3, <4>5
    <3> QED
      BY <3>1, <3>2
  <2> QED
    BY <2>1, <2>2 DEF RowsOf
<1>12. ASSUME NEW t \in DOMAIN catalog, t \notin touched PROVE RowsOf(r, t) = catalog[t]
  <2>1. Visible(r, t) = Visible(d, t)
    <3>1. ASSUME NEW v \in Visible(r, t) PROVE v \in Visible(d, t)
      <4>1. v \in OpenOf(r) /\ v.table = t
        BY VisibleIs
      <4>2. v \in OpenOf(d)
        <5> HIDE DEF ended, new
        <5> QED
          BY <1>6, <1>9, <1>12, <4>1
      <4> QED
        BY <4>1, <4>2, VisibleIs
    <3>2. ASSUME NEW v \in Visible(d, t) PROVE v \in Visible(r, t)
      <4>1. v \in OpenOf(d) /\ v.table = t
        BY VisibleIs
      <4>2. v \notin ended
        BY <1>8, <1>12, <4>1
      <4> QED
        BY <1>7, <4>1, <4>2, VisibleIs
    <3> QED
      BY <3>1, <3>2
  <2>2. RowsOf(r, t) = RowsOf(d, t)
    BY <2>1 DEF RowsOf
  <2> QED
    BY <1>12, <2>2 DEF Untouched
<1>13. Shows(r, csn, catalog)
  BY <1>2, <1>10, <1>11, <1>12 DEF Shows
<1> QED
  BY <1>13 DEF r

\* At the commit the durable already has, a publication changes nothing.
LEMMA RawAgain ==
  ASSUME NEW d, NEW catalog, NEW touched, Publishable(d, d.csn, catalog, touched),
         d.live = DOMAIN catalog
  PROVE  Same(d, Raw(d, d.csn, catalog, touched))
<1> DEFINE r == Raw(d, d.csn, catalog, touched)
<1>1. /\ Ended(d, catalog, touched) = {} /\ New(d, catalog, touched) = {} /\ d.next_row \in Nat
  BY DEF Publishable, Sound, Durables
<1>2. Fresh(d, catalog, touched) = {}
  BY <1>1 DEF Fresh
<1>3. Cardinality(Fresh(d, catalog, touched)) = 0
  BY <1>2, FS_EmptySet
<1>4. r.csn = d.csn /\ r.next_row = d.next_row /\ r.live = d.live /\ r.versions = d.versions
  BY <1>1, <1>3 DEF Raw
<1> HIDE DEF r
<1>5. Same(d, r)
  BY <1>4 DEF Same, OpenOf
<1> QED
  BY <1>5 DEF r

LEMMA PublishedShows ==
  ASSUME NEW d, NEW csn, NEW catalog, NEW touched, NEW oldest \in Nat,
         Publishable(d, csn, catalog, touched), Untouched(d, catalog, touched)
  PROVE  LET p == Published(d, csn, catalog, touched, oldest)
         IN  /\ Sound(p) /\ Shows(p, csn, catalog) /\ d.next_row <= p.next_row
             /\ d.csn = csn /\ d.live = DOMAIN catalog => Same(d, p)
<1> DEFINE p == Published(d, csn, catalog, touched, oldest)
           r == Raw(d, csn, catalog, touched)
<1>1. p = Prune(r, oldest)
  BY PublishedIs
<1>2. Sound(r) /\ Shows(r, csn, catalog)
  BY RawSound, RawShows
<1>3. d.next_row <= r.next_row
  <2>1. Sound(d) /\ csn \in Nat /\ catalog \in GoodCatalogs /\ touched \in SUBSET DOMAIN catalog
    BY DEF Publishable
  <2>2. r.next_row = d.next_row + Cardinality(Fresh(d, catalog, touched))
    BY <2>1, RawIs
  <2>3. Cardinality(Fresh(d, catalog, touched)) \in Nat /\ d.next_row \in Nat
    BY <2>1, FreshFinite DEF Sound, Durables
  <2> QED
    BY <2>2, <2>3
<1>4. d.csn = csn /\ d.live = DOMAIN catalog => Same(d, r)
  BY RawAgain
<1> HIDE DEF p, r
<1>5. Sound(p) /\ Same(p, r) /\ Same(r, p)
  BY <1>1, <1>2, PruneKeeps, SameIsSymmetric
<1>6. Shows(p, csn, catalog)
  BY <1>2, <1>5, SameShows
<1>7. d.next_row <= p.next_row
  BY <1>3, <1>5 DEF Same
<1>8. d.csn = csn /\ d.live = DOMAIN catalog => Same(d, p)
  BY <1>4, <1>5, SameIsTransitive
<1> QED
  BY <1>5, <1>6, <1>7, <1>8 DEF p

\* What a durable shows may be published again.
LEMMA PublishableAgain ==
  ASSUME NEW d, Sound(d), NEW csn \in Nat, NEW catalog \in GoodCatalogs,
         NEW touched \in SUBSET DOMAIN catalog, Shows(d, csn, catalog)
  PROVE  /\ Publishable(d, csn, catalog, touched) /\ Untouched(d, catalog, touched)
         /\ Publishes(d, csn, catalog, touched)
<1>1. d.csn = csn
  BY DEF Shows
<1>2. Untouched(d, catalog, touched)
  BY DEF Untouched, Shows
<1>3. ASSUME NEW v \in d.versions PROVE Stays(v, catalog, touched)
  <2> SUFFICES ASSUME v.end = OpenEnd
               PROVE  v.table \in DOMAIN catalog /\ Kept(v, catalog[v.table])
    BY DEF Stays
  <2>1. v \in OpenOf(d)
    BY DEF OpenOf
  <2>2. v.table \in DOMAIN catalog /\ v \in Visible(d, v.table)
    BY <2>1, VisibleIs DEF Shows
  <2>3. [key |-> v.key, val |-> v.val] \in RowsOf(d, v.table)
    BY <2>2 DEF RowsOf
  <2> QED
    BY <2>2, <2>3 DEF Kept, Shows
<1>4. Ended(d, catalog, touched) = {}
  BY <1>3 DEF Ended
<1>5. ASSUME NEW n \in New(d, catalog, touched) PROVE FALSE
  <2>1. Begins(d, catalog, touched, n)
    BY NewIs
  <2>2. n[1] \in DOMAIN catalog /\ n[2] \in catalog[n[1]]
    BY <2>1 DEF Begins
  <2>3. n[2] \in RowsOf(d, n[1])
    BY <2>2 DEF Shows
  <2>4. PICK v \in Visible(d, n[1]) : n[2] = [key |-> v.key, val |-> v.val]
    BY <2>3 DEF RowsOf
  <2> QED
    BY <2>1, <2>4 DEF Begins
<1>6. New(d, catalog, touched) = {}
  BY <1>5
<1> QED
  BY <1>1, <1>2, <1>4, <1>6 DEF Publishable, Publishes

LEMMA PublishableNext ==
  ASSUME NEW d, Sound(d), NEW csn \in Nat, NEW catalog \in GoodCatalogs,
         NEW touched \in SUBSET DOMAIN catalog, d.csn < csn
  PROVE  Publishable(d, csn, catalog, touched) /\ Publishes(d, csn, catalog, touched)
<1>1. d.csn \in Nat /\ \A v \in d.versions : v.begin \in Nat /\ v.begin <= d.csn
  BY DEF Sound, Durables, Versions, OpenAccepts
<1>2. \A v \in Ended(d, catalog, touched) : v.begin # csn
  BY <1>1 DEF Ended
<1>3. d.csn <= csn /\ d.csn # csn /\ csn >= d.csn
  BY <1>1
<1> QED
  BY <1>2, <1>3 DEF Publishable, Publishes

(***************************************************************************)
(* Lines.                                                                  *)
(***************************************************************************)

Chain(v) == <<v.table, v.row>>

\* The chains a line names; all others are the same in both durables.
Changed(d, e) == {c \in ChainsOf(d.versions \cup e.versions) : ChainIn(d, c) # ChainIn(e, c)}

LEMMA ChangedIs ==
  ASSUME NEW d \in Durables, NEW e \in Durables
  PROVE  /\ Changed(d, e) \in SUBSET (Nat \X Nat)
         /\ \A v \in d.versions \cup e.versions :
               Chain(v) \notin Changed(d, e) => (v \in d.versions <=> v \in e.versions)
<1>1. \A v \in d.versions \cup e.versions : v.table \in Nat /\ v.row \in Nat
  BY DEF Durables, Versions
<1>2. ChainsOf(d.versions \cup e.versions) \subseteq Nat \X Nat
  BY <1>1 DEF ChainsOf
<1>3. ASSUME NEW v \in d.versions \cup e.versions, Chain(v) \notin Changed(d, e)
      PROVE  v \in d.versions <=> v \in e.versions
  <2>1. Chain(v) \in ChainsOf(d.versions \cup e.versions)
    BY DEF Chain, ChainsOf
  <2>2. ChainIn(d, Chain(v)) = ChainIn(e, Chain(v))
    BY <1>3, <2>1 DEF Changed
  <2>3. v \in d.versions <=> v \in ChainIn(d, Chain(v))
    BY DEF ChainIn, Chain
  <2>4. v \in e.versions <=> v \in ChainIn(e, Chain(v))
    BY DEF ChainIn, Chain
  <2> QED
    BY <2>2, <2>3, <2>4
<1> QED
  BY <1>2, <1>3 DEF Changed

LEMMA LineIs ==
  ASSUME NEW d \in Durables, NEW e \in Durables, NEW o \in Nat, o <= e.csn
  PROVE  LET line == DeltaOf(d, e, o)
         IN  /\ line \in Deltas /\ line.csn = e.csn /\ line.next_row = e.next_row
             /\ line.oldest = o /\ line.chains = Changed(d, e) /\ line.kind = "delta"
             /\ line.versions = {v \in e.versions : Chain(v) \in Changed(d, e)}
             /\ line.retired = d.live \ e.live /\ line.live = e.live \ d.live
<1>1. Changed(d, e) \in SUBSET (Nat \X Nat)
  BY ChangedIs
<1>2. DeltaOf(d, e, o) = [kind |-> "delta", csn |-> e.csn, next_row |-> e.next_row, oldest |-> o,
         chains |-> Changed(d, e), versions |-> {v \in e.versions : Chain(v) \in Changed(d, e)},
         retired |-> d.live \ e.live, live |-> e.live \ d.live]
  BY DEF DeltaOf, Changed, Chain
<1>3. /\ e.csn \in Nat /\ e.next_row \in Nat /\ e.versions \in SUBSET Versions
      /\ d.live \in SUBSET Nat /\ e.live \in SUBSET Nat
  BY DEF Durables
<1> DEFINE vs == {v \in e.versions : Chain(v) \in Changed(d, e)}
           cs == Changed(d, e)
<1>4. vs \in SUBSET Versions
  BY <1>3
<1> HIDE DEF vs, cs
<1>5. DeltaOf(d, e, o) = [kind |-> "delta", csn |-> e.csn, next_row |-> e.next_row, oldest |-> o,
         chains |-> cs, versions |-> vs, retired |-> d.live \ e.live, live |-> e.live \ d.live]
  BY <1>2 DEF vs, cs
<1>6. cs \in SUBSET (Nat \X Nat)
  BY <1>1 DEF cs
<1>7. LET line == DeltaOf(d, e, o)
      IN  /\ line \in Deltas /\ line.csn = e.csn /\ line.next_row = e.next_row
          /\ line.oldest = o /\ line.chains = cs /\ line.kind = "delta"
          /\ line.versions = vs
          /\ line.retired = d.live \ e.live /\ line.live = e.live \ d.live
  BY <1>3, <1>4, <1>5, <1>6 DEF Deltas, Lines, Whole
<1> QED
  BY <1>7 DEF vs, cs

\* A line written for the step from d to e, applied to what is the same as d.
LEMMA LineMakes ==
  ASSUME NEW f, NEW d, NEW e, Sound(f), Sound(d), Sound(e), Same(f, d),
         d.csn <= e.csn, d.next_row <= e.next_row, NEW o \in Nat, o <= e.csn
  PROVE  /\ f # Refused /\ Accepts(f, DeltaOf(d, e, o))
         /\ Sound(ApplyDelta(f, DeltaOf(d, e, o)))
         /\ Same(ApplyDelta(f, DeltaOf(d, e, o)), e)
<1> DEFINE line == DeltaOf(d, e, o)
           cs == Changed(d, e)
<1>1. /\ f \in Durables /\ d \in Durables /\ e \in Durables
      /\ f.csn \in Nat /\ e.csn \in Nat /\ f.next_row \in Nat /\ e.next_row \in Nat
      /\ f.versions \in SUBSET Versions /\ e.versions \in SUBSET Versions
      /\ e.live \in SUBSET Nat
  BY DEF Sound, Durables
<1>2. /\ line \in Deltas /\ line.csn = e.csn /\ line.next_row = e.next_row
      /\ line.oldest = o /\ line.chains = cs /\ line.kind = "delta"
      /\ line.versions = {v \in e.versions : Chain(v) \in cs}
      /\ line.retired = d.live \ e.live /\ line.live = e.live \ d.live
  BY <1>1, LineIs
<1>3. \A v \in d.versions \cup e.versions :
         Chain(v) \notin cs => (v \in d.versions <=> v \in e.versions)
  BY <1>1, ChangedIs
<1>4. f.csn = d.csn /\ f.next_row = d.next_row /\ f.live = d.live /\ OpenOf(f) = OpenOf(d)
  BY DEF Same
<1> HIDE DEF line, cs
<1>5. f # Refused /\ Accepts(f, line)
  <2>1. f # Refused
    BY <1>1, NotRefused
  <2> QED
    BY <1>1, <1>2, <1>4, <2>1 DEF Accepts
<1> DEFINE vs == {v \in f.versions : Chain(v) \notin cs} \cup {v \in e.versions : Chain(v) \in cs}
           r == [csn |-> e.csn, next_row |-> e.next_row, live |-> e.live, versions |-> vs]
<1>6. (f.live \ line.retired) \cup line.live = e.live
  BY <1>2, <1>4
<1>7. ApplyDelta(f, line) = Prune(r, o)
  <2>1. {v \in f.versions : <<v.table, v.row>> \notin line.chains} \cup line.versions = vs
    BY <1>2 DEF Chain
  <2> HIDE DEF vs
  <2> QED
    BY <1>2, <1>6, <2>1 DEF ApplyDelta
<1>8. vs \in SUBSET Versions /\ r \in Durables
  <2>1. vs \in SUBSET Versions
    BY <1>1
  <2> HIDE DEF vs
  <2> QED
    BY <1>1, <2>1 DEF Durables
<1>9. r.csn = e.csn /\ r.next_row = e.next_row /\ r.live = e.live /\ r.versions = vs
  OBVIOUS
<1>10. OpenOf(r) = OpenOf(e)
  <2>1. ASSUME NEW v \in OpenOf(r) PROVE v \in OpenOf(e)
    <3>1. v \in vs /\ v.end = OpenEnd
      BY DEF OpenOf
    <3>2. CASE v \in e.versions
      BY <3>1, <3>2 DEF OpenOf
    <3>3. CASE v \in f.versions /\ Chain(v) \notin cs
      <4>1. v \in OpenOf(d)
        BY <1>4, <3>1, <3>3 DEF OpenOf
      <4>2. v \in d.versions
        BY <4>1 DEF OpenOf
      <4>3. v \in e.versions
        BY <1>3, <3>3, <4>2
      <4> QED
        BY <3>1, <4>3 DEF OpenOf
    <3> QED
      BY <3>1, <3>2, <3>3
  <2>2. ASSUME NEW v \in OpenOf(e) PROVE v \in OpenOf(r)
    <3>1. v \in e.versions /\ v.end = OpenEnd
      BY DEF OpenOf
    <3>2. CASE Chain(v) \in cs
      BY <3>1, <3>2 DEF OpenOf
    <3>3. CASE Chain(v) \notin cs
      <4>1. v \in d.versions
        BY <1>3, <3>1, <3>3
      <4>2. v \in OpenOf(f)
        BY <1>4, <3>1, <4>1 DEF OpenOf
      <4> QED
        BY <3>1, <3>3, <4>2 DEF OpenOf
    <3> QED
      BY <3>2, <3>3
  <2> QED
    BY <2>1, <2>2
<1> HIDE DEF r
<1>11. \A v \in vs : \/ v \in f.versions /\ Chain(v) \notin cs
                     \/ v \in e.versions /\ Chain(v) \in cs
  OBVIOUS
<1> HIDE DEF vs
<1>12. ASSUME NEW v \in r.versions
       PROVE  /\ v.row <= r.next_row /\ v.begin <= r.csn
              /\ v.end # OpenEnd => v.end > v.begin /\ v.end <= r.csn
  <2>1. v \in Versions
    BY <1>8, <1>9
  <2>2. v.row \in Nat /\ v.begin \in Nat /\ v.end \in Nat
    BY <2>1 DEF Versions
  <2>3. CASE v \in f.versions
    <3>1. /\ v.row <= f.next_row /\ v.begin <= f.csn
          /\ v.end # OpenEnd => v.end > v.begin /\ v.end <= f.csn
      BY <2>3 DEF Sound, OpenAccepts
    <3> QED
      BY <1>1, <1>4, <1>9, <2>2, <3>1
  <2>4. CASE v \in e.versions
    BY <1>9, <2>4 DEF Sound, OpenAccepts
  <2> QED
    BY <1>9, <1>11, <2>3, <2>4
<1>13. ASSUME NEW v \in r.versions, NEW w \in r.versions,
              v.table = w.table, v.row = w.row, v.begin = w.begin
       PROVE  v = w
  <2>1. Chain(v) = Chain(w)
    BY <1>13 DEF Chain
  <2>2. CASE Chain(v) \in cs
    <3>1. v \in e.versions /\ w \in e.versions
      BY <1>9, <1>11, <2>1, <2>2
    <3> QED
      BY <1>13, <3>1 DEF Sound, OpenAccepts
  <2>3. CASE Chain(v) \notin cs
    <3>1. v \in f.versions /\ w \in f.versions
      BY <1>9, <1>11, <2>1, <2>3
    <3> QED
      BY <1>13, <3>1 DEF Sound, OpenAccepts
  <2> QED
    BY <2>2, <2>3
<1>14. OpenAccepts(r)
  BY <1>12, <1>13 DEF OpenAccepts
<1>15. Sound(r) /\ Same(r, e)
  BY <1>8, <1>9, <1>10, <1>14 DEF Sound, Same, r
<1>16. Sound(ApplyDelta(f, line)) /\ Same(ApplyDelta(f, line), r)
  BY <1>7, <1>15, PruneKeeps
<1>17. Same(ApplyDelta(f, line), e)
  BY <1>15, <1>16, SameIsTransitive
<1> QED
  BY <1>5, <1>16, <1>17 DEF line

(***************************************************************************)
(* Steps.                                                                  *)
(***************************************************************************)

LEMMA OldestIs ==
  ASSUME NEW rs \in [Readers -> {Idle} \cup Nat], NEW csn \in Nat, \A r \in Readers : rs[r] <= csn
  PROVE  Oldest(rs, csn) \in Nat /\ Oldest(rs, csn) <= csn
<1> DEFINE open == {rs[r] : r \in {q \in DOMAIN rs : rs[q] # Idle}}
<1>1. open \in SUBSET Nat /\ \A n \in open : n <= csn
  OBVIOUS
<1>2. Oldest(rs, csn) = IF open = {} THEN csn ELSE CHOOSE n \in open : \A m \in open : n <= m
  BY DEF Oldest
<1> HIDE DEF open
<1>3. CASE open = {}
  BY <1>2, <1>3
<1>4. CASE open # {}
  <2>1. \E n \in open : \A m \in open : n <= m
    BY <1>1, <1>4, LeastNumber
  <2>2. Oldest(rs, csn) \in open
    BY <1>2, <1>4, <2>1
  <2> QED
    BY <1>1, <2>2
<1> QED
  BY <1>3, <1>4

LEMMA FoundSame ==
  ASSUME UNCHANGED <<base, delta>>
  PROVE  Found' = Found
BY DEF Found

LEMMA FoundBase ==
  ASSUME base # NoBase
  PROVE  Found = Replayed(base, delta)
BY DEF Found

LEMMA FoundEmpty ==
  ASSUME FilesOK, delta = <<>>
  PROVE  Found = IF base = NoBase THEN NoDurable ELSE base
<1> DEFINE start == IF base = NoBase THEN NoDurable ELSE base
<1>1. delta \in Seq(Deltas) /\ \A i \in DOMAIN delta : delta[i].csn <= start.csn
  OBVIOUS
<1>3. start # Refused
  BY NotRefused, NothingSound DEF FilesOK, Sound
<1> HIDE DEF start
<1>2. Replayed(start, delta) = start
  BY <1>1, <1>3, ReplaySkips
<1> QED
  BY <1>2 DEF Found, start

LEMMA BaseIs ==
  ASSUME base \in Durables
  PROVE  base # NoBase
BY DEF Durables, NoBase, NoDurable

\* A publication starts to be persisted.
LEMMA StartInv ==
  ASSUME Inv, NEW csn, NEW catalog, NEW touched, StartPersist(csn, catalog, touched),
         pc \in {"up", "recover"}, target'.csn = csn, target'.catalog = catalog,
         Publishable(mem, csn, catalog, touched), Untouched(mem, catalog, touched),
         mem.csn = csn => mem.live = DOMAIN catalog,
         checkpoint <= csn,
         NeedsImport => csn = checkpoint,
         ~ NeedsImport => checkpoint < csn,
         csn = 0 => catalog = EmptyFn,
         base # NoBase => /\ Found.csn \in {checkpoint, csn}
                          /\ Found.csn = csn => Shows(Found, csn, catalog)
  PROVE  Inv'
<1>1. /\ next' = Publication(csn, catalog, touched)
      /\ pc' \in {"snapshot", "append"}
      /\ pc' = "append" => format = 2 /\ base # NoBase
      /\ UNCHANGED <<base, delta, torn, mem, format, checkpoint, readers, faults>>
  BY DEF StartPersist, MustSnapshot, files, memory
<1>2. csn \in Nat /\ catalog \in GoodCatalogs /\ Sound(mem)
  BY DEF Publishable
<1>3. Oldest(readers, csn) \in Nat
  <2>1. mem.csn <= csn /\ mem.csn \in Nat
    BY DEF Publishable, Sound, Durables
  <2>2. readers \in [Readers -> {Idle} \cup Nat] /\ \A r \in Readers : readers[r] <= mem.csn
    BY DEF Inv, TypeOK, MemorySound
  <2>3. \A r \in Readers : readers[r] <= csn
    BY <1>2, <2>1, <2>2 DEF Idle
  <2> QED
    BY <1>2, <2>2, <2>3, OldestIs
<1>4. /\ Sound(next') /\ Shows(next', csn, catalog) /\ mem.next_row <= next'.next_row
      /\ mem.csn = csn /\ mem.live = DOMAIN catalog => Same(mem, next')
  <2> DEFINE p == Published(mem, csn, catalog, touched, Oldest(readers, csn))
  <2>1. next' = p
    BY <1>1 DEF Publication
  <2>2. /\ Sound(p) /\ Shows(p, csn, catalog) /\ mem.next_row <= p.next_row
        /\ mem.csn = csn /\ mem.live = DOMAIN catalog => Same(mem, p)
    BY <1>3, PublishedShows
  <2> HIDE DEF p
  <2> QED
    BY <2>1, <2>2
<1>5. next'.csn = csn /\ mem.csn <= csn
  BY <1>4 DEF Shows, Publishable
<1>6. Found' = Found /\ (NeedsImport' <=> NeedsImport)
  BY <1>1, FoundSame DEF NeedsImport
<1>7. TypeOK'
  <2>1. next' \in Durables
    BY <1>4 DEF Sound
  <2> QED
    BY <1>1, <1>2, <2>1 DEF Inv, TypeOK, FilesOK, MemoryOK, GoodCatalogs
<1>8. FilesSound'
  <2>1. ~ torn
    BY DEF Inv, FilesSound
  <2> QED
    BY <1>1, <1>6, <2>1 DEF Inv, FilesSound, ShowsTarget
<1>9. Importing'
  BY <1>1, <1>6 DEF Inv, Importing, NeedsImport
<1>10. Stages'
  <2>1. NeedsImport => format = 1
    BY DEF Inv, Importing
  <2> QED
    BY <1>1, <1>6, <2>1 DEF Inv, Stages
<1>11. MemorySound'
  BY <1>1, <1>4, <1>6 DEF Inv, MemorySound
<1>12. NextSound'
  BY <1>1, <1>4, <1>5 DEF NextSound, ShowsTarget
<1> QED
  BY <1>7, <1>8, <1>9, <1>10, <1>11, <1>12 DEF Inv

LEMMA TargetGood ==
  ASSUME TypeOK
  PROVE  target.catalog \in GoodCatalogs /\ target.csn \in Nat /\ checkpoint \in Nat
BY DEF TypeOK, GoodCatalogs

LEMMA EnsureInv ==
  ASSUME Inv, EnsureMvcc
  PROVE  Inv'
<1> DEFINE catalog == target.catalog
<1>1. /\ pc = "up" /\ NeedsImport /\ UNCHANGED target
      /\ StartPersist(checkpoint, catalog, DOMAIN catalog)
  BY DEF EnsureMvcc
<1>2. mem = NoDurable /\ checkpoint = target.csn /\ (target.csn = 0 => catalog = EmptyFn)
  BY <1>1 DEF Inv, Importing
<1>3. catalog \in GoodCatalogs /\ checkpoint \in Nat
  BY TargetGood DEF Inv
<1>4. Sound(mem) /\ mem.csn = 0 /\ mem.live = {} /\ OpenOf(mem) = {}
  BY <1>2, NothingSound DEF NoDurable
<1>5. Untouched(mem, catalog, DOMAIN catalog)
  BY DEF Untouched
<1>6. checkpoint = 0 => DOMAIN catalog = {} /\ Shows(mem, checkpoint, catalog)
  <2> SUFFICES ASSUME checkpoint = 0 PROVE DOMAIN catalog = {} /\ Shows(mem, checkpoint, catalog)
    OBVIOUS
  <2>1. DOMAIN catalog = {}
    BY <1>2 DEF EmptyFn
  <2> QED
    BY <1>4, <2>1 DEF Shows
<1>7. Publishable(mem, checkpoint, catalog, DOMAIN catalog)
  <2>1. CASE checkpoint = 0
    BY <1>3, <1>4, <1>6, <2>1, PublishableAgain
  <2>2. CASE checkpoint # 0
    <3>1. mem.csn < checkpoint
      BY <1>3, <1>4, <2>2
    <3> QED
      BY <1>3, <1>4, <3>1, PublishableNext
  <2> QED
    BY <2>1, <2>2
<1>8. base # NoBase => /\ Found.csn \in {checkpoint, target.csn}
                       /\ Found.csn = target.csn => Shows(Found, target.csn, catalog)
  BY DEF Inv, FilesSound, ShowsTarget
<1>9. mem.csn = checkpoint => mem.live = DOMAIN catalog
  BY <1>4, <1>6
<1>10. target'.csn = checkpoint /\ target'.catalog = catalog /\ checkpoint <= checkpoint
  BY <1>1, <1>2, <1>3
<1> HIDE DEF catalog
<1>11. base # NoBase => /\ Found.csn \in {checkpoint, checkpoint}
                        /\ Found.csn = checkpoint => Shows(Found, checkpoint, catalog)
  BY <1>2, <1>8
<1> QED
  BY <1>1, <1>2, <1>5, <1>7, <1>9, <1>10, <1>11, StartInv

LEMMA CommitInv ==
  ASSUME Inv, NEW catalog \in Catalogs, Commit(catalog)
  PROVE  Inv'
<1> DEFINE touched == {t \in DOMAIN catalog : t \in DOMAIN target.catalog
                                                 => target.catalog[t] # catalog[t]}
           csn == target.csn + 1
<1>1. /\ pc = "up" /\ ~ NeedsImport /\ StartPersist(csn, catalog, touched)
      /\ target'.csn = csn /\ target'.catalog = catalog
  BY DEF Commit
<1>2. target.csn \in Nat /\ csn \in Nat /\ csn # 0 /\ checkpoint \in Nat /\ checkpoint = target.csn
      /\ checkpoint < csn /\ checkpoint <= csn /\ target.csn # csn
  BY <1>1, TargetGood DEF Inv, Stages
<1>3. catalog \in GoodCatalogs /\ touched \in SUBSET DOMAIN catalog
  BY DEF GoodCatalogs
<1>4. Sound(mem) /\ Same(Found, mem) /\ Shows(mem, target.csn, target.catalog)
  BY <1>1 DEF Inv, MemorySound, ShowsTarget
<1>5. mem.csn = target.csn /\ Found.csn = target.csn
  BY <1>4 DEF Shows, Same
<1>6. Untouched(mem, catalog, touched)
  BY <1>4 DEF Untouched, Shows
<1> HIDE DEF touched, csn
<1>7. Publishable(mem, csn, catalog, touched)
  BY <1>2, <1>3, <1>4, <1>5, PublishableNext
<1>8. mem.csn # csn /\ Found.csn # csn /\ Found.csn = checkpoint
  BY <1>2, <1>5
<1>9. base # NoBase => /\ Found.csn \in {checkpoint, csn}
                       /\ Found.csn = csn => Shows(Found, csn, catalog)
  BY <1>8
<1> QED
  BY <1>1, <1>2, <1>6, <1>7, <1>8, <1>9, StartInv

LEMMA RepublishReady ==
  ASSUME Inv, pc = "recover"
  PROVE  /\ Publishable(mem, target.csn, target.catalog, DOMAIN target.catalog)
         /\ Publishes(mem, target.csn, target.catalog, DOMAIN target.catalog)
         /\ Untouched(mem, target.catalog, DOMAIN target.catalog)
         /\ mem.csn = target.csn => mem.live = DOMAIN target.catalog
<1> DEFINE catalog == target.catalog
<1>1. catalog \in GoodCatalogs /\ target.csn \in Nat /\ checkpoint \in Nat
  BY TargetGood DEF Inv
<1>2. ~ NeedsImport /\ checkpoint < target.csn
  BY DEF Inv, Stages
<1>3. Sound(mem) /\ Same(Found, mem) /\ base # NoBase
  BY <1>2 DEF Inv, MemorySound, NeedsImport
<1>4. Untouched(mem, catalog, DOMAIN catalog)
  BY DEF Untouched
<1>5. /\ Found.csn \in {checkpoint, target.csn}
      /\ Found.csn = target.csn => Shows(Found, target.csn, catalog)
  BY <1>3 DEF Inv, FilesSound, ShowsTarget
<1>6. mem.csn = Found.csn
  BY <1>3 DEF Same
<1> HIDE DEF catalog
<1>7. CASE Found.csn = target.csn
  <2>1. Shows(mem, target.csn, catalog)
    BY <1>3, <1>5, <1>7, SameShows
  <2>2. /\ Publishable(mem, target.csn, catalog, DOMAIN catalog)
        /\ Publishes(mem, target.csn, catalog, DOMAIN catalog)
    BY <1>1, <1>3, <2>1, PublishableAgain
  <2>3. mem.live = DOMAIN catalog
    BY <2>1 DEF Shows
  <2> QED
    BY <1>4, <2>2, <2>3 DEF catalog
<1>8. CASE Found.csn # target.csn
  <2>1. mem.csn < target.csn
    BY <1>1, <1>2, <1>5, <1>6, <1>8
  <2>2. /\ Publishable(mem, target.csn, catalog, DOMAIN catalog)
        /\ Publishes(mem, target.csn, catalog, DOMAIN catalog)
    BY <1>1, <1>3, <2>1, PublishableNext
  <2> QED
    BY <1>4, <1>6, <1>8, <2>2 DEF catalog
<1> QED
  BY <1>7, <1>8

LEMMA RepublishInv ==
  ASSUME Inv, Republish
  PROVE  Inv'
<1> DEFINE catalog == target.catalog
<1>1. /\ pc = "recover" /\ StartPersist(target.csn, catalog, DOMAIN catalog)
      /\ target'.csn = target.csn /\ target'.catalog = catalog
  BY DEF Republish
<1>2. /\ ~ NeedsImport /\ checkpoint < target.csn /\ checkpoint <= target.csn
      /\ target.csn = 0 => catalog = EmptyFn
  BY <1>1 DEF Inv, Stages, Importing
<1>3. /\ Publishable(mem, target.csn, catalog, DOMAIN catalog)
      /\ Untouched(mem, catalog, DOMAIN catalog)
      /\ mem.csn = target.csn => mem.live = DOMAIN catalog
  BY <1>1, RepublishReady
<1>4. base # NoBase => /\ Found.csn \in {checkpoint, target.csn}
                       /\ Found.csn = target.csn => Shows(Found, target.csn, catalog)
  BY DEF Inv, FilesSound, ShowsTarget
<1> HIDE DEF catalog
<1> QED
  BY <1>1, <1>2, <1>3, <1>4, StartInv

LEMMA RenameInv ==
  ASSUME Inv, RenameSnapshot
  PROVE  Inv'
<1>1. /\ pc = "snapshot" /\ base' = next /\ pc' = "truncate"
      /\ UNCHANGED <<delta, torn, mem, format, next, target, checkpoint, readers, faults>>
  BY DEF RenameSnapshot, memory
<1>2. /\ Sound(next) /\ ShowsTarget(next) /\ mem.csn <= next.csn /\ Sound(mem)
      /\ next \in Durables /\ next.csn \in Nat /\ next.csn = target.csn
  BY <1>1 DEF Inv, NextSound, MemorySound, Sound, Durables, ShowsTarget, Shows
<1>3. base' # NoBase
  BY <1>1, <1>2 DEF Durables, NoBase, NoDurable
<1>4. delta \in Seq(Deltas) /\ \A i \in DOMAIN delta : delta[i].csn <= next.csn
  <2>1. CASE NeedsImport
    BY <1>1, <2>1 DEF Inv, Importing, TypeOK, FilesOK
  <2>2. CASE ~ NeedsImport
    <3>1. /\ Same(Found, mem) /\ \A i \in DOMAIN delta : delta[i].csn <= Found.csn
      BY <1>1, <2>2 DEF Inv, MemorySound, FilesSound
    <3>2. Found.csn <= next.csn /\ Found.csn \in Nat
      BY <1>2, <3>1 DEF Same, Sound, Durables
    <3>3. delta \in Seq(Deltas)
      BY DEF Inv, TypeOK, FilesOK
    <3>5. \A i \in DOMAIN delta : delta[i] \in Deltas
      BY <3>3
    <3>4. \A i \in DOMAIN delta : delta[i].csn \in Nat
      BY <3>5 DEF Deltas, Lines
    <3> QED
      BY <1>2, <3>1, <3>2, <3>3, <3>4
  <2> QED
    BY <2>1, <2>2
<1>5. Found' = next
  <2>1. Replayed(next, delta) = next
    BY <1>2, <1>4, NotRefused, ReplaySkips
  <2>2. Found' = Replayed(next, delta)
    BY <1>1, <1>3 DEF Found
  <2> QED
    BY <2>1, <2>2
<1>6. NeedsImport' => NeedsImport
  BY <1>1, <1>3 DEF NeedsImport
<1>7. TypeOK'
  BY <1>1, <1>2 DEF Inv, TypeOK, FilesOK, MemoryOK
<1>8. FilesSound'
  <2>1. ~ torn
    BY <1>1 DEF Inv, FilesSound
  <2> QED
    BY <1>1, <1>2, <1>3, <1>4, <1>5, <2>1 DEF FilesSound, ShowsTarget
<1>9. Importing'
  BY <1>1, <1>3, <1>6 DEF Inv, Importing
<1>10. Stages'
  BY <1>1 DEF Inv, Stages
<1>11. MemorySound'
  BY <1>1 DEF Inv, MemorySound
<1>12. NextSound'
  BY <1>1, <1>2, <1>3, <1>5 DEF Inv, NextSound, ShowsTarget, Same
<1> QED
  BY <1>7, <1>8, <1>9, <1>10, <1>11, <1>12 DEF Inv

LEMMA TruncateInv ==
  ASSUME Inv, TruncateLog
  PROVE  Inv'
<1>1. /\ pc = "truncate" /\ delta' = <<>> /\ torn' = FALSE /\ pc' = "install"
      /\ UNCHANGED <<base, mem, format, next, target, checkpoint, readers, faults>>
  BY DEF TruncateLog, memory
<1>2. base # NoBase /\ base = next /\ Sound(next) /\ ShowsTarget(next)
      /\ next.csn = target.csn /\ next.csn \in Nat
  BY <1>1 DEF Inv, NextSound, MemorySound, ShowsTarget, Shows, Sound, Durables
<1>3. Found' = next
  <2>1. <<>> \in Seq(Deltas) /\ \A i \in DOMAIN <<>> : <<>>[i].csn <= base.csn
    OBVIOUS
  <2>4. base # Refused
    BY <1>2, NotRefused DEF Sound
  <2>2. Replayed(base, <<>>) = base
    BY <2>1, <2>4, ReplaySkips
  <2>3. Found' = Replayed(base, <<>>)
    BY <1>1, <1>2 DEF Found
  <2> QED
    BY <1>2, <2>2, <2>3
<1>4. NeedsImport' <=> NeedsImport
  BY <1>1 DEF NeedsImport
<1>5. TypeOK'
  <2>1. <<>> \in Seq(Deltas)
    OBVIOUS
  <2> QED
    BY <1>1, <2>1 DEF Inv, TypeOK, FilesOK, MemoryOK
<1>6. FilesSound'
  BY <1>1, <1>2, <1>3 DEF FilesSound, ShowsTarget
<1>7. Importing'
  BY <1>1, <1>2, <1>4 DEF Inv, Importing
<1>8. Stages'
  BY <1>1 DEF Inv, Stages
<1>9. MemorySound'
  BY <1>1 DEF Inv, MemorySound
<1>10. NextSound'
  BY <1>1, <1>2, <1>3 DEF Inv, NextSound, ShowsTarget, Same
<1> QED
  BY <1>5, <1>6, <1>7, <1>8, <1>9, <1>10 DEF Inv

\* A whole line is in the log.
LEMMA LineWritten ==
  ASSUME Inv, pc = "append", base' = base, delta' = LogWith(NextLine)
  PROVE  /\ base # NoBase /\ delta' \in Seq(Deltas)
         /\ Sound(Found') /\ Same(Found', next) /\ base.csn <= Found'.csn
         /\ \A i \in DOMAIN delta' : delta'[i].csn <= Found'.csn
<1>1. ~ torn /\ ~ NeedsImport /\ base # NoBase /\ Sound(base) /\ Sound(Found) /\ base.csn <= Found.csn
  BY DEF Inv, FilesSound, Stages, NeedsImport
<1>2. /\ Sound(mem) /\ Sound(next) /\ Same(Found, mem) /\ mem.csn <= next.csn
      /\ mem.next_row <= next.next_row
      /\ mem.csn = next.csn => Same(mem, next)
  BY <1>1 DEF Inv, MemorySound, NextSound
<1>3. /\ mem.csn \in Nat /\ next.csn \in Nat /\ base.csn \in Nat /\ Found.csn = mem.csn
      /\ mem \in Durables /\ next \in Durables
  BY <1>1, <1>2 DEF Sound, Durables, Same
<1> DEFINE o == Oldest(readers, next.csn)
           line == DeltaOf(mem, next, o)
<1>4. o \in Nat /\ o <= next.csn
  <2>1. readers \in [Readers -> {Idle} \cup Nat] /\ \A r \in Readers : readers[r] <= mem.csn
    BY DEF Inv, TypeOK, MemorySound
  <2>2. \A r \in Readers : readers[r] <= next.csn
    BY <1>2, <1>3, <2>1 DEF Idle
  <2> QED
    BY <1>3, <2>1, <2>2, OldestIs
<1> HIDE DEF o
<1>5. line \in Deltas /\ line.csn = next.csn /\ line.kind = "delta"
  BY <1>3, <1>4, LineIs
<1>6. /\ Found # Refused /\ Accepts(Found, line) /\ Sound(ApplyDelta(Found, line)) /\ Same(ApplyDelta(Found, line), next)
  BY <1>1, <1>2, <1>4, LineMakes
<1> HIDE DEF line
<1>7. delta' = Append(delta, line) /\ delta \in Seq(Deltas)
  BY <1>1 DEF LogWith, NextLine, line, o, Inv, TypeOK, FilesOK
<1>8. Found = Replayed(base, delta)
  BY <1>1, FoundBase
<1>9. Found' = ReplayDelta(base.csn, Found, line)
  <2>1. Found' = Replayed(base, delta')
    BY <1>1 DEF Found
  <2>2. Replayed(base, Append(delta, line)) = ReplayDelta(base.csn, Replayed(base, delta), line)
    BY <1>5, <1>7, ReplayAppend
  <2> QED
    BY <1>7, <1>8, <2>1, <2>2
<1>10. Sound(Found') /\ Same(Found', next)
  <2>1. CASE line.csn <= base.csn
    <3>1. Found' = Found
      BY <1>5, <1>6, <1>9, <2>1 DEF ReplayDelta, Deltas
    <3>2. mem.csn = next.csn
      BY <1>1, <1>2, <1>3, <1>5, <2>1
    <3>3. Same(Found, next)
      BY <1>2, <3>2, SameIsTransitive
    <3> QED
      BY <1>1, <3>1, <3>3
  <2>2. CASE ~ (line.csn <= base.csn)
    <3>1. Found' = ApplyDelta(Found, line)
      BY <1>5, <1>6, <1>9, <2>2 DEF ReplayDelta, Deltas
    <3> QED
      BY <1>6, <3>1
  <2> QED
    BY <2>1, <2>2
<1>11. Found'.csn = next.csn /\ base.csn <= next.csn
  BY <1>1, <1>2, <1>3, <1>10 DEF Same
<1>12. \A i \in DOMAIN delta' : delta'[i].csn <= next.csn
  <2> SUFFICES ASSUME NEW i \in DOMAIN delta' PROVE delta'[i].csn <= next.csn
    OBVIOUS
  <2>1. CASE i \in DOMAIN delta
    <3>1. delta'[i] = delta[i] /\ delta[i] \in Deltas
      BY <1>5, <1>7, <2>1
    <3>2. delta[i].csn <= Found.csn /\ delta[i].csn \in Nat
      BY <2>1, <3>1 DEF Inv, FilesSound, Deltas, Lines
    <3> QED
      BY <1>2, <1>3, <3>1, <3>2
  <2>2. CASE i \notin DOMAIN delta
    <3>1. delta'[i] = line
      BY <1>5, <1>7, <2>2
    <3> QED
      BY <1>3, <1>5, <3>1
  <2> QED
    BY <2>1, <2>2
<1>13. delta' \in Seq(Deltas)
  BY <1>5, <1>7
<1> QED
  BY <1>1, <1>10, <1>11, <1>12, <1>13

LEMMA AppendInv ==
  ASSUME Inv, AppendDelta
  PROVE  Inv'
<1>1. /\ pc = "append" /\ delta' = LogWith(NextLine) /\ torn' = FALSE /\ pc' = "install"
      /\ UNCHANGED <<base, mem, format, next, target, checkpoint, readers, faults>>
  BY DEF AppendDelta, memory
<1>2. /\ base # NoBase /\ delta' \in Seq(Deltas)
      /\ Sound(Found') /\ Same(Found', next) /\ base.csn <= Found'.csn
      /\ \A i \in DOMAIN delta' : delta'[i].csn <= Found'.csn
  BY <1>1, LineWritten
<1>3. ShowsTarget(next)
  BY <1>1 DEF Inv, NextSound
<1>4. ShowsTarget(Found') /\ Found'.csn = target.csn
  <2>1. Same(next, Found')
    BY <1>2, SameIsSymmetric
  <2>2. Shows(Found', target.csn, target.catalog)
    BY <1>3, <2>1, SameShows DEF ShowsTarget
  <2> QED
    BY <2>2 DEF ShowsTarget, Shows
<1>5. (NeedsImport' <=> NeedsImport) /\ ~ NeedsImport
  BY <1>1 DEF NeedsImport, Inv, Stages
<1>6. TypeOK'
  BY <1>1, <1>2 DEF Inv, TypeOK, FilesOK, MemoryOK
<1>7. FilesSound'
  BY <1>1, <1>2, <1>4 DEF Inv, FilesSound, ShowsTarget
<1>8. Importing'
  BY <1>1, <1>2, <1>5 DEF Inv, Importing
<1>9. Stages'
  BY <1>1 DEF Inv, Stages
<1>10. MemorySound'
  BY <1>1 DEF Inv, MemorySound
<1>11. NextSound'
  BY <1>1, <1>2, <1>3 DEF Inv, NextSound, ShowsTarget
<1> QED
  BY <1>6, <1>7, <1>8, <1>9, <1>10, <1>11 DEF Inv

LEMMA InstallInv ==
  ASSUME Inv, Install
  PROVE  Inv'
<1>1. /\ pc = "install" /\ mem' = next /\ format' = 2 /\ next' = NoDurable
      /\ pc' = IF checkpoint < target.csn THEN "checkpoint" ELSE "up"
      /\ UNCHANGED <<base, delta, torn, target, checkpoint, readers, faults>>
  BY DEF Install, files
<1>2. /\ base # NoBase /\ Same(Found, next) /\ ShowsTarget(next) /\ Sound(next)
      /\ mem.csn <= next.csn /\ Sound(mem)
  BY <1>1 DEF Inv, NextSound, MemorySound
<1>3. /\ next.csn = target.csn /\ checkpoint <= target.csn /\ target.csn \in Nat /\ checkpoint \in Nat
      /\ mem.csn \in Nat /\ next \in Durables
  BY <1>2, TargetGood DEF ShowsTarget, Shows, Inv, Stages, Sound, Durables
<1>4. Found' = Found /\ ~ NeedsImport'
  BY <1>1, <1>2, <1>3, FoundSame DEF NeedsImport
<1>5. TypeOK'
  BY <1>1, <1>3, NothingSound DEF Inv, TypeOK, FilesOK, MemoryOK, Sound
<1>6. FilesSound'
  BY <1>1, <1>4 DEF Inv, FilesSound, ShowsTarget
<1>7. Importing'
  BY <1>1, <1>2, <1>4 DEF Inv, Importing
<1>8. Stages'
  BY <1>1, <1>3, <1>4 DEF Inv, Stages
<1>9. \A r \in Readers : readers[r] <= next.csn
  <2>1. \A r \in Readers : readers[r] \in {Idle} \cup Nat /\ readers[r] <= mem.csn
    BY DEF Inv, TypeOK, MemorySound
  <2> QED
    BY <1>2, <1>3, <2>1 DEF Idle
<1>10. MemorySound'
  BY <1>1, <1>2, <1>4, <1>9, NothingSound DEF MemorySound, ShowsTarget
<1>11. NextSound'
  BY <1>1 DEF NextSound
<1> QED
  BY <1>5, <1>6, <1>7, <1>8, <1>10, <1>11 DEF Inv

LEMMA CheckpointInv ==
  ASSUME Inv, WriteCheckpoint
  PROVE  Inv'
<1>1. /\ pc = "checkpoint" /\ checkpoint' = target.csn /\ pc' = "up"
      /\ UNCHANGED <<base, delta, torn, mem, format, next, target, readers, faults>>
  BY DEF WriteCheckpoint, files, memory
<1>2. ~ NeedsImport /\ ShowsTarget(mem) /\ Same(Found, mem) /\ base # NoBase
  BY <1>1 DEF Inv, Stages, MemorySound, NeedsImport
<1>3. mem.csn = target.csn /\ Found.csn = target.csn /\ target.csn \in Nat
  BY <1>2, TargetGood DEF ShowsTarget, Shows, Same, Inv
<1>4. Found' = Found /\ ~ NeedsImport'
  BY <1>1, <1>2, <1>3, FoundSame DEF NeedsImport
<1>5. TypeOK'
  BY <1>1, <1>3 DEF Inv, TypeOK, FilesOK, MemoryOK
<1>6. FilesSound'
  BY <1>1, <1>3, <1>4 DEF Inv, FilesSound, ShowsTarget
<1>7. Importing'
  BY <1>1, <1>2, <1>4 DEF Inv, Importing
<1>8. Stages'
  BY <1>1, <1>3 DEF Stages
<1>9. MemorySound'
  BY <1>1, <1>2, <1>4 DEF Inv, MemorySound, ShowsTarget
<1>10. NextSound'
  BY <1>1 DEF NextSound
<1> QED
  BY <1>5, <1>6, <1>7, <1>8, <1>9, <1>10 DEF Inv

LEMMA BeginInv ==
  ASSUME Inv, NEW r \in Readers, Begin(r)
  PROVE  Inv'
<1>1. /\ pc = "up" /\ readers' = [readers EXCEPT ![r] = mem.csn]
      /\ UNCHANGED <<base, delta, torn, mem, format, next, target, checkpoint, pc, faults>>
  BY DEF Begin, files, memory
<1>2. mem.csn \in Nat /\ readers \in [Readers -> {Idle} \cup Nat]
  BY DEF Inv, TypeOK, MemoryOK, Durables
<1>3. Found' = Found /\ (NeedsImport' <=> NeedsImport)
  BY <1>1, FoundSame DEF NeedsImport
<1>4. TypeOK'
  BY <1>1, <1>2 DEF Inv, TypeOK, FilesOK, MemoryOK
<1>5. FilesSound' /\ Importing' /\ Stages'
  BY <1>1, <1>3 DEF Inv, FilesSound, ShowsTarget, Importing, Stages
<1>6. \A q \in Readers : readers'[q] <= mem.csn
  BY <1>1, <1>2 DEF Inv, MemorySound
<1>7. MemorySound'
  BY <1>1, <1>3, <1>6 DEF Inv, MemorySound, ShowsTarget
<1>8. NextSound'
  BY <1>1, <1>3 DEF Inv, NextSound, ShowsTarget
<1> QED
  BY <1>4, <1>5, <1>7, <1>8 DEF Inv

\* finish() prunes the memory; what is the same as it stays so.
LEMMA FinishInv ==
  ASSUME Inv, NEW r \in Readers, Finish(r)
  PROVE  Inv'
<1>1. /\ pc \in {"up", "checkpoint"} /\ readers' = [readers EXCEPT ![r] = Idle]
      /\ mem' = Prune(mem, Oldest(readers', mem.csn))
      /\ UNCHANGED <<base, delta, torn, format, next, target, checkpoint, pc, faults>>
  BY DEF Finish, files
<1>2. Sound(mem) /\ mem.csn \in Nat /\ readers \in [Readers -> {Idle} \cup Nat]
  BY DEF Inv, TypeOK, MemorySound, Sound, Durables
<1>3. readers' \in [Readers -> {Idle} \cup Nat] /\ \A q \in Readers : readers'[q] <= mem.csn
  <2>1. readers' \in [Readers -> {Idle} \cup Nat]
    BY <1>1, <1>2
  <2>2. \A q \in Readers : readers[q] <= mem.csn
    BY DEF Inv, MemorySound
  <2>3. \A q \in Readers : readers'[q] = Idle \/ readers'[q] = readers[q]
    BY <1>1, <1>2
  <2>4. Idle <= mem.csn
    BY <1>2 DEF Idle
  <2> QED
    BY <2>1, <2>2, <2>3, <2>4
<1>4. Oldest(readers', mem.csn) \in Nat
  BY <1>2, <1>3, OldestIs
<1>5. Sound(mem') /\ Same(mem', mem)
  BY <1>1, <1>2, <1>4, PruneKeeps
<1>6. mem'.csn = mem.csn /\ mem' \in Durables /\ Same(mem, mem')
  BY <1>5, SameIsSymmetric DEF Same, Sound
<1>7. Found' = Found /\ (NeedsImport' <=> NeedsImport)
  BY <1>1, <1>6, FoundSame DEF NeedsImport
<1>8. TypeOK'
  BY <1>1, <1>3, <1>6 DEF Inv, TypeOK, FilesOK, MemoryOK
<1>9. FilesSound' /\ Stages'
  BY <1>1, <1>7 DEF Inv, FilesSound, ShowsTarget, Stages
<1>10. mem = NoDurable => mem' = NoDurable
  <2> SUFFICES ASSUME mem = NoDurable PROVE mem' = NoDurable
    OBVIOUS
  <2> DEFINE o == Oldest(readers', mem.csn)
  <2>1. NoDurable \in Durables /\ o \in Nat
    BY <1>4, NothingSound DEF Sound
  <2>2. mem' = Prune(NoDurable, o)
    BY <1>1
  <2> HIDE DEF o
  <2> QED
    BY <2>1, <2>2 DEF Prune, NoDurable
<1>11. Importing'
  BY <1>1, <1>7, <1>10 DEF Inv, Importing
<1>12. MemorySound'
  <2>1. ASSUME ~ NeedsImport PROVE Same(Found, mem') /\ ShowsTarget(mem')
    <3>1. Same(Found, mem) /\ ShowsTarget(mem)
      BY <1>1, <2>1 DEF Inv, MemorySound
    <3> QED
      BY <1>6, <3>1, SameIsTransitive, SameShows DEF ShowsTarget
  <2>2. Sound(next) /\ (pc' = pc) /\ pc # "down"
    BY <1>1 DEF Inv, MemorySound
  <2> QED
    BY <1>1, <1>3, <1>5, <1>6, <1>7, <2>1, <2>2 DEF MemorySound, ShowsTarget
<1>13. NextSound'
  BY <1>1 DEF NextSound
<1> QED
  BY <1>8, <1>9, <1>11, <1>12, <1>13 DEF Inv

\* What is left of a write that was cut short.
LEMMA CutLeaves ==
  ASSUME Inv, CutShort, base' = base, UNCHANGED <<target, checkpoint>>
  PROVE  /\ delta' \in Seq(Deltas) /\ torn' \in BOOLEAN
         /\ base # NoBase =>
              /\ Sound(Found') /\ base.csn <= Found'.csn
              /\ Found'.csn \in {checkpoint, target.csn}
              /\ Found'.csn = target.csn => ShowsTarget(Found')
         /\ \A i \in DOMAIN delta' : delta'[i].csn <= Found'.csn
         /\ pc # "append" => UNCHANGED <<delta, torn>> /\ Found' = Found
         /\ base = NoBase => UNCHANGED <<delta, torn>>
<1>1. pc = "append" => base # NoBase
  BY DEF Inv, Importing
<1>2. CASE UNCHANGED delta
  <2>1. Found' = Found
    BY <1>2, FoundSame
  <2>2. torn' \in BOOLEAN /\ delta \in Seq(Deltas)
    BY DEF CutShort, Inv, TypeOK, FilesOK
  <2>3. pc # "append" => UNCHANGED <<delta, torn>>
    BY DEF CutShort
  <2> QED
    BY <1>1, <1>2, <2>1, <2>2, <2>3 DEF Inv, FilesSound, ShowsTarget
<1>3. CASE pc = "append" /\ delta' = LogWith(NextLine) /\ torn' = FALSE
  <2>1. /\ base # NoBase /\ delta' \in Seq(Deltas)
        /\ Sound(Found') /\ Same(Found', next) /\ base.csn <= Found'.csn
        /\ \A i \in DOMAIN delta' : delta'[i].csn <= Found'.csn
    BY <1>3, LineWritten
  <2>2. ShowsTarget(next) /\ Same(next, Found')
    BY <1>3, <2>1, SameIsSymmetric DEF Inv, NextSound
  <2>3. ShowsTarget(Found')
    BY <2>2, SameShows DEF ShowsTarget
  <2>4. Found'.csn = target.csn
    BY <2>3 DEF ShowsTarget, Shows
  <2> QED
    BY <1>3, <2>1, <2>3, <2>4
<1> QED
  BY <1>2, <1>3 DEF CutShort

LEMMA ErrorInv ==
  ASSUME Inv, WriteError
  PROVE  Inv'
<1>1. /\ faults < MaxFaults /\ faults' = faults + 1
      /\ pc \in {"snapshot", "truncate", "append", "checkpoint"} /\ CutShort
      /\ pc' = IF target.csn = checkpoint THEN "up" ELSE "sealed"
      /\ next' = NoDurable
      /\ UNCHANGED <<base, mem, format, target, checkpoint, readers>>
  BY DEF WriteError, Fault, memory
<1>2. /\ delta' \in Seq(Deltas) /\ torn' \in BOOLEAN
      /\ base # NoBase =>
           /\ Sound(Found') /\ base.csn <= Found'.csn
           /\ Found'.csn \in {checkpoint, target.csn}
           /\ Found'.csn = target.csn => ShowsTarget(Found')
      /\ \A i \in DOMAIN delta' : delta'[i].csn <= Found'.csn
      /\ pc # "append" => UNCHANGED <<delta, torn>> /\ Found' = Found
      /\ base = NoBase => UNCHANGED <<delta, torn>>
  BY <1>1, CutLeaves
<1>3. /\ checkpoint <= target.csn /\ checkpoint \in Nat /\ target.csn \in Nat
      /\ target.csn = checkpoint => pc \in {"snapshot", "truncate"}
      /\ base = NoBase => pc = "snapshot" /\ target.csn = checkpoint
  BY <1>1, TargetGood DEF Inv, Stages, Importing
<1>4. NeedsImport' <=> NeedsImport
  BY <1>1 DEF NeedsImport
<1>5. TypeOK'
  <2>1. faults' \in 0 .. MaxFaults
    BY <1>1, VersionLogAssumption DEF Inv, TypeOK
  <2>2. NoDurable \in Durables
    BY NothingSound DEF Sound
  <2> QED
    BY <1>1, <1>2, <2>1, <2>2 DEF Inv, TypeOK, FilesOK, MemoryOK
<1>6. FilesSound'
  <2>1. torn' /\ pc' = "up" => FALSE
    BY <1>1, <1>2, <1>3 DEF Inv, FilesSound
  <2>2. pc' \in {"up", "sealed"}
    BY <1>1
  <2> QED
    BY <1>1, <1>2, <2>1, <2>2 DEF Inv, FilesSound, ShowsTarget
<1>7. Importing'
  <2>1. NeedsImport => checkpoint = target.csn /\ delta = <<>> /\ pc # "append"
    BY <1>1, <1>3 DEF Inv, Importing
  <2> QED
    BY <1>1, <1>2, <1>3, <1>4, <2>1 DEF Inv, Importing
<1>8. Stages'
  BY <1>1, <1>3 DEF Stages
<1>9. ASSUME pc' = "up", ~ NeedsImport PROVE Same(Found', mem) /\ ShowsTarget(mem)
  <2>1. target.csn = checkpoint /\ pc \in {"snapshot", "truncate"} /\ Found' = Found
    BY <1>1, <1>2, <1>3, <1>9
  <2>2. ShowsTarget(next) /\ mem.csn <= next.csn /\ (mem.csn = next.csn => Same(mem, next))
    BY <2>1 DEF Inv, NextSound
  <2>3. mem.csn = next.csn
    <3>1. next.csn = target.csn /\ mem.csn \in Nat
      BY <2>2 DEF ShowsTarget, Shows, Inv, TypeOK, MemoryOK, Durables
    <3>2. ~ (mem.csn < checkpoint)
      BY <1>9 DEF NeedsImport
    <3> QED
      BY <1>3, <2>1, <2>2, <3>1, <3>2
  <2>4. Same(mem, next) /\ Same(next, mem)
    BY <2>2, <2>3, SameIsSymmetric
  <2>5. ShowsTarget(mem)
    BY <2>2, <2>4, SameShows DEF ShowsTarget
  <2>6. Same(Found, mem)
    <3>1. CASE pc = "snapshot"
      BY <1>9, <3>1 DEF Inv, MemorySound
    <3>2. CASE pc = "truncate"
      <4>1. Same(Found, next)
        BY <3>2 DEF Inv, NextSound
      <4> QED
        BY <2>4, <4>1, SameIsTransitive
    <3> QED
      BY <2>1, <3>1, <3>2
  <2> QED
    BY <2>1, <2>5, <2>6
<1>10. MemorySound'
  <2>1. pc' \in {"up", "sealed"}
    BY <1>1
  <2> QED
    BY <1>1, <1>4, <1>9, <2>1, NothingSound DEF Inv, MemorySound, ShowsTarget
<1>11. NextSound'
  BY <1>1 DEF NextSound
<1> QED
  BY <1>5, <1>6, <1>7, <1>8, <1>10, <1>11 DEF Inv

LEMMA CrashInv ==
  ASSUME Inv, Crash
  PROVE  Inv'
<1>1. /\ CutShort /\ readers' = [r \in Readers |-> Idle]
      /\ mem' = NoDurable /\ format' = 1 /\ next' = NoDurable /\ pc' = "down"
      /\ UNCHANGED <<base, target, checkpoint>>
      /\ faults' = faults \/ (faults < MaxFaults /\ faults' = faults + 1)
  BY DEF Crash, Fault
<1>2. /\ delta' \in Seq(Deltas) /\ torn' \in BOOLEAN
      /\ base # NoBase =>
           /\ Sound(Found') /\ base.csn <= Found'.csn
           /\ Found'.csn \in {checkpoint, target.csn}
           /\ Found'.csn = target.csn => ShowsTarget(Found')
      /\ \A i \in DOMAIN delta' : delta'[i].csn <= Found'.csn
      /\ base = NoBase => UNCHANGED <<delta, torn>>
  BY <1>1, CutLeaves
<1>3. NoDurable \in Durables /\ Sound(NoDurable) /\ NoDurable.csn = 0
  BY NothingSound DEF Sound, NoDurable
<1>4. TypeOK'
  <2>1. faults' \in 0 .. MaxFaults
    BY <1>1, VersionLogAssumption DEF Inv, TypeOK
  <2>2. readers' \in [Readers -> {Idle} \cup Nat]
    BY <1>1
  <2> QED
    BY <1>1, <1>2, <1>3, <2>1, <2>2 DEF Inv, TypeOK, FilesOK, MemoryOK
<1>5. FilesSound'
  BY <1>1, <1>2 DEF Inv, FilesSound, ShowsTarget
<1>6. Importing'
  BY <1>1, <1>2 DEF Inv, Importing
<1>7. Stages'
  BY <1>1 DEF Inv, Stages
<1>8. MemorySound'
  BY <1>1, <1>3 DEF MemorySound, Idle
<1>9. NextSound'
  BY <1>1 DEF NextSound
<1> QED
  BY <1>4, <1>5, <1>6, <1>7, <1>8, <1>9 DEF Inv

LEMMA OpenInv ==
  ASSUME Inv, Open
  PROVE  Inv'
<1>1. /\ pc = "down" /\ mem' = Found /\ format' = IF base = NoBase THEN 1 ELSE 2
      /\ torn' = FALSE
      /\ pc' = IF checkpoint < target.csn THEN "recover" ELSE "up"
      /\ UNCHANGED <<base, delta, next, target, checkpoint, readers, faults>>
  BY DEF Open
<1>2. base = NoBase => Found = NoDurable /\ checkpoint = target.csn /\ delta = <<>>
  BY FoundEmpty DEF Inv, Importing, TypeOK
<1>3. Sound(Found) /\ Found \in Durables /\ Found.csn \in Nat
  BY <1>2, NothingSound DEF Inv, FilesSound, Sound, Durables
<1>4. Found' = Found
  BY <1>1, FoundSame
<1>5. checkpoint <= target.csn /\ checkpoint \in Nat /\ target.csn \in Nat
  BY TargetGood DEF Inv, Stages
<1>6. base # NoBase => /\ Found.csn \in {checkpoint, target.csn}
                       /\ Found.csn = target.csn => ShowsTarget(Found)
  BY DEF Inv, FilesSound
<1>7. NeedsImport' <=> base = NoBase
  BY <1>1, <1>2, <1>5, <1>6 DEF NeedsImport
<1>8. TypeOK'
  BY <1>1, <1>3 DEF Inv, TypeOK, FilesOK, MemoryOK
<1>9. FilesSound'
  BY <1>1, <1>4 DEF Inv, FilesSound, ShowsTarget
<1>10. Importing'
  BY <1>1, <1>2, <1>5, <1>7 DEF Inv, Importing
<1>11. Stages'
  BY <1>1, <1>2, <1>5, <1>7 DEF Stages
<1>12. MemorySound'
  <2>1. Same(Found, Found)
    BY DEF Same
  <2>2. \A r \in Readers : readers[r] <= Found.csn
    BY <1>1, <1>3 DEF Inv, MemorySound, Idle
  <2>3. pc' = "up" /\ base # NoBase => ShowsTarget(Found)
    BY <1>1, <1>5, <1>6
  <2>4. pc' \in {"up", "recover"}
    BY <1>1
  <2> QED
    BY <1>1, <1>3, <1>4, <1>7, <2>1, <2>2, <2>3, <2>4 DEF Inv, MemorySound, ShowsTarget
<1>13. NextSound'
  BY <1>1 DEF NextSound
<1> QED
  BY <1>8, <1>9, <1>10, <1>11, <1>12, <1>13 DEF Inv

LEMMA StutterInv ==
  ASSUME Inv, UNCHANGED vars
  PROVE  Inv'
<1>1. UNCHANGED <<base, delta, torn, mem, format, next, target, checkpoint, readers, pc, faults>>
  BY DEF vars, files, memory
<1>2. Found' = Found /\ (NeedsImport' <=> NeedsImport)
  BY <1>1, FoundSame DEF NeedsImport
<1> QED
  BY <1>1, <1>2 DEF Inv, TypeOK, FilesOK, MemoryOK, FilesSound, Importing, Stages, MemorySound,
     NextSound, ShowsTarget

LEMMA InitInv == Init => Inv
<1> SUFFICES ASSUME Init PROVE Inv
  OBVIOUS
<1>1. /\ base = NoBase /\ delta = <<>> /\ torn = FALSE /\ mem = NoDurable /\ format = 1
      /\ next = NoDurable /\ checkpoint = target.csn /\ readers = [r \in Readers |-> Idle]
      /\ pc = "up" /\ faults = 0
  BY DEF Init
<1>2. /\ target.csn \in Nat /\ target.catalog \in {EmptyFn} \cup Catalogs \cup Legacy
      /\ target.csn = 0 => target.catalog = EmptyFn
  BY DEF Init
<1>3. NoDurable \in Durables /\ Sound(NoDurable) /\ NoDurable.csn = 0
  BY NothingSound DEF Sound, NoDurable
<1>4. NeedsImport
  BY <1>1 DEF NeedsImport
<1>5. TypeOK
  <2>1. delta \in Seq(Deltas) /\ readers \in [Readers -> {Idle} \cup Nat] /\ faults \in 0 .. MaxFaults
    BY <1>1, VersionLogAssumption
  <2> QED
    BY <1>1, <1>2, <1>3, <2>1 DEF TypeOK, FilesOK, MemoryOK
<1>6. FilesSound
  BY <1>1 DEF FilesSound
<1>7. Importing
  BY <1>1, <1>2 DEF Importing
<1>8. Stages
  BY <1>1, <1>2 DEF Stages
<1>9. MemorySound
  BY <1>1, <1>3, <1>4 DEF MemorySound, Idle
<1>10. NextSound
  BY <1>1 DEF NextSound
<1> QED
  BY <1>5, <1>6, <1>7, <1>8, <1>9, <1>10 DEF Inv

LEMMA NextInv == Inv /\ [Next]_vars => Inv'
<1> SUFFICES ASSUME Inv, [Next]_vars PROVE Inv'
  OBVIOUS
<1>1. CASE EnsureMvcc
  BY <1>1, EnsureInv
<1>2. CASE Republish
  BY <1>2, RepublishInv
<1>3. ASSUME NEW catalog \in Catalogs, Commit(catalog) PROVE Inv'
  BY <1>3, CommitInv
<1>4. CASE RenameSnapshot
  BY <1>4, RenameInv
<1>5. CASE TruncateLog
  BY <1>5, TruncateInv
<1>6. CASE AppendDelta
  BY <1>6, AppendInv
<1>7. CASE Install
  BY <1>7, InstallInv
<1>8. CASE WriteCheckpoint
  BY <1>8, CheckpointInv
<1>9. ASSUME NEW r \in Readers, Begin(r) PROVE Inv'
  BY <1>9, BeginInv
<1>10. ASSUME NEW r \in Readers, Finish(r) PROVE Inv'
  BY <1>10, FinishInv
<1>11. CASE WriteError
  BY <1>11, ErrorInv
<1>12. CASE Crash
  BY <1>12, CrashInv
<1>13. CASE Open
  BY <1>13, OpenInv
<1>14. CASE Done \/ UNCHANGED vars
  BY <1>14, StutterInv DEF Done
<1> QED
  BY <1>1, <1>2, <1>3, <1>4, <1>5, <1>6, <1>7, <1>8, <1>9, <1>10, <1>11, <1>12, <1>13, <1>14
     DEF Next

LEMMA Inductive == Spec => []Inv
  BY InitInv, NextInv, PTL DEF Spec

(***************************************************************************)
(* Theorems.                                                               *)
(***************************************************************************)

\* Files, memory and program counter keep their types, and no line of the delta
\* log is ever damaged: Mvcc::open() cuts a line without its end before persist()
\* appends the next.
THEOREM TypeCorrect == Spec => []TypeOK
<1>1. Inv => TypeOK
  BY DEF Inv
<1> QED
  BY <1>1, Inductive, PTL

\* Wherever the process stops, Mvcc::open() accepts base and log: the log has a
\* base, replay_deltas() meets no line that turns back, and the chains are sound.
THEOREM AlwaysOpens == Spec => []OpenAccepted
<1>1. Inv => OpenAccepted
  <2> SUFFICES ASSUME Inv PROVE OpenAccepted
    OBVIOUS
  <2>1. base = NoBase => Found = NoDurable /\ delta = <<>> /\ ~ torn
    BY FoundEmpty DEF Inv, Importing, TypeOK
  <2>2. Sound(Found)
    BY <2>1, NothingSound DEF Inv, FilesSound
  <2>3. Found # Refused
    BY <2>2 DEF Sound, Durables, Refused, NoDurable
  <2> QED
    BY <2>1, <2>2, <2>3 DEF OpenAccepted, Readable, Sound
<1> QED
  BY <1>1, Inductive, PTL

\* The files hold a whole version at any moment: the one in memory until the
\* rename or the line is complete, then the one being persisted.
THEOREM WholeVersion == Spec => []FilesHoldVersion
<1>1. Inv => FilesHoldVersion
  <2> SUFFICES ASSUME Inv PROVE FilesHoldVersion
    OBVIOUS
  <2>1. Sound(mem) /\ Sound(next)
    BY DEF Inv, MemorySound
  <2>2. ASSUME pc \in {"up", "recover", "snapshot", "append", "checkpoint"}, ~ NeedsImport
        PROVE  Settled(Found) = Settled(mem)
    <3>1. Sound(Found) /\ Same(Found, mem)
      BY <2>2 DEF Inv, FilesSound, MemorySound, NeedsImport
    <3> QED
      BY <2>1, <3>1, SameSettles
  <2>3. ASSUME pc \in {"truncate", "install"} PROVE Settled(Found) = Settled(next)
    <3>1. Sound(Found) /\ Same(Found, next)
      BY <2>3 DEF Inv, FilesSound, NextSound
    <3> QED
      BY <2>1, <3>1, SameSettles
  <2> QED
    BY <2>2, <2>3 DEF FilesHoldVersion
<1> QED
  BY <1>1, Inductive, PTL

\* A reader that begins sees the rows of the last commit, in every table of the
\* catalog and in no other, after any crashes, redone groups and new bases.
THEOREM LastCommitVisible == Spec => []ReadersSeeCommit
<1>1. Inv => ReadersSeeCommit
  <2> SUFFICES ASSUME Inv, pc \in {"up", "checkpoint"}, ~ NeedsImport
               PROVE  /\ mem.csn = target.csn
                      /\ mem.live = DOMAIN target.catalog
                      /\ \A v \in mem.versions : v.end = OpenEnd => v.table \in mem.live
                      /\ \A t \in mem.live : RowsOf(mem, t) = target.catalog[t]
    BY DEF ReadersSeeCommit
  <2>1. Shows(mem, target.csn, target.catalog)
    BY DEF Inv, MemorySound, ShowsTarget
  <2> QED
    BY <2>1 DEF Shows, OpenOf
<1> QED
  BY <1>1, Inductive, PTL

\* recover_wal() may publish its group again any number of times: publish_changed()
\* accepts it, and when the files already have it no version changes.
THEOREM RedoHarmless == Spec => []RedoAccepted
<1>1. Inv => RedoAccepted
  <2> DEFINE csn == target.csn
             catalog == target.catalog
             o == Oldest(readers, csn)
             p == Published(mem, csn, catalog, DOMAIN catalog, o)
  <2> SUFFICES ASSUME Inv, pc = "recover"
               PROVE  /\ Publishes(mem, csn, catalog, DOMAIN catalog)
                      /\ mem.csn = csn => Settled(p) = Settled(mem)
    BY DEF RedoAccepted, Publication
  <2>1. /\ Publishable(mem, csn, catalog, DOMAIN catalog)
        /\ Publishes(mem, csn, catalog, DOMAIN catalog)
        /\ Untouched(mem, catalog, DOMAIN catalog)
        /\ mem.csn = csn => mem.live = DOMAIN catalog
    BY RepublishReady
  <2>2. o \in Nat
    <3>1. csn \in Nat /\ mem.csn \in Nat /\ mem.csn <= csn
      BY <2>1 DEF Publishable, Sound, Durables
    <3>2. readers \in [Readers -> {Idle} \cup Nat] /\ \A r \in Readers : readers[r] <= mem.csn
      BY DEF Inv, TypeOK, MemorySound
    <3> HIDE DEF csn
    <3>3. \A r \in Readers : readers[r] <= csn
      BY <3>1, <3>2 DEF Idle
    <3> QED
      BY <3>1, <3>2, <3>3, OldestIs
  <2>3. ASSUME mem.csn = csn PROVE Settled(p) = Settled(mem)
    <3> HIDE DEF o
    <3>1. Sound(p) /\ Same(mem, p)
      BY <2>1, <2>2, <2>3, PublishedShows
    <3>2. Sound(mem)
      BY DEF Inv, MemorySound
    <3> HIDE DEF p
    <3> QED
      BY <3>1, <3>2, SameSettles
  <2> QED
    BY <2>1, <2>3
<1> QED
  BY <1>1, Inductive, PTL

=============================================================================
