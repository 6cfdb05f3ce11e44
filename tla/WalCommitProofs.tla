-------------------------- MODULE WalCommitProofs --------------------------
(***************************************************************************)
(* Sequence numbers never turn back; a database that serves has log,       *)
(* checkpoint, pages and versions in step, and has every group as a whole  *)
(* or not at all; and recovery gives up in two cases only: for all rows,   *)
(* groups and pages, and any number of crashes and write errors.           *)
(*                                                                         *)
(* The first two hold whatever recovery redoes; the other two until it     *)
(* redoes frames of an append that failed (strays).                        *)
(*                                                                         *)
(* The log is seen through what recover_wal() makes of it: either nothing  *)
(* after the checkpoint is committed, and then the data file and the       *)
(* versions are those of the checkpoint (Settled), or something is, and    *)
(* then redoing it leaves no frame behind (Redoable).                      *)
(*                                                                         *)
(* The pages are seen through two sets of rows: the rows that stay under   *)
(* the group under way and the rows that come with it.  Whatever pages     *)
(* reached the data file, each of its rows stays, came already or is still *)
(* to be deleted, no row that stays is lost (Laid), and what is left to do *)
(* brings what is missing (Work); the same holds when the group starts     *)
(* again from the data file (Covers, Redo).                                *)
(***************************************************************************)
EXTENDS WalCommit, TLAPS, FiniteSetTheorems, WellFoundedInduction, NaturalsInduction

LogFrames == [lsn : Nat \ {0}, op : Operations \cup {Commit}]
RowSteps ==
    [kind : {"insert", "add"}, arg : Rows] \cup [kind : {"delete"}, arg : Nat]
      \cup {[kind |-> "truncate"]}
Heaps == Seq(Seq(Rows))

Typed ==
    /\ log \in Seq(LogFrames)
    /\ nextLsn \in Nat /\ checkpoint \in Nat /\ csn \in Nat /\ pageLsn \in Nat
    /\ disk \in Heaps /\ mem \in Heaps
    /\ todo \in Seq(Operations) /\ steps \in Seq(RowSteps)
    /\ pc \in {"ready", "apply", "checkpoint", "truncate", "sealed",
               "down", "replay", "refused"}
    /\ crashes \in 0 .. MaxCrashes
    /\ strays \in {"none", "logged", "redone"}

\* No frame of a failed append is in the way of a recovery, or was.
Clean == strays = "none"

Ordered(records) == \A i, j \in DOMAIN records : i < j => records[i].lsn < records[j].lsn
Upto(n) == \A i \in DOMAIN log : log[i].lsn <= n
Pending == RecordsAfter(log, checkpoint)
Uncommitted == CommittedOps(Pending) = <<>>

\* Redoing what is committed after the checkpoint leaves no frame behind.
Redoable == Upto(ReplayLsn(Pending)) /\ checkpoint < ReplayLsn(Pending)

Settled == csn = checkpoint /\ published = Contents(disk)

\* The numbers in the log, the counter, the checkpoint and the versions.
Numbers ==
    /\ Ordered(log)
    /\ checkpoint <= csn
    /\ nextLsn # 0 =>
         /\ \A i \in DOMAIN log : log[i].lsn < nextLsn
         /\ checkpoint < nextLsn /\ csn < nextLsn
         /\ pc \in {"apply", "replay", "checkpoint", "truncate"} => pageLsn < nextLsn
    /\ pc = "ready" => csn = checkpoint
    /\ pc \in {"apply", "replay", "checkpoint"} => checkpoint < pageLsn
    /\ pc \in {"apply", "replay", "checkpoint", "truncate"} =>
         csn <= pageLsn /\ (strays # "redone" => Upto(pageLsn))
    /\ pc \in {"checkpoint", "truncate"} => csn = pageLsn
    /\ pc = "truncate" => checkpoint = pageLsn

\* The cached pages and the data file.
Pages ==
    /\ pc \notin {"down", "refused"} => Len(disk) <= Len(mem)
    /\ pc \in {"ready", "checkpoint", "truncate"} => disk = mem /\ published = Contents(mem)

\* What a crash would leave to recover_wal().
Recoverable ==
    /\ pc = "ready" /\ Clean => Upto(checkpoint)
    /\ pc \in {"apply", "replay", "checkpoint"} => ~ Uncommitted /\ (Clean => Redoable)
    /\ pc \in {"sealed", "down"} => IF Uncommitted THEN Settled ELSE Clean => Redoable
    /\ pc = "sealed" /\ Uncommitted => disk = mem

\* Behind frames of a failed append no version is above the last mark.
Shows(n) == n <= checkpoint \/ \E i \in Commits(log) : n <= log[i].lsn
Marked ==
    strays = "logged" =>
        /\ pc # "replay"
        /\ pc \in {"apply", "checkpoint"} => Shows(pageLsn)
        /\ pc \in {"sealed", "down"} => Shows(csn)

Inv == Typed /\ Numbers /\ Pages /\ Recoverable /\ Marked

(***************************************************************************)
(* Numbers.                                                                *)
(***************************************************************************)

LEMMA LeastNumber ==
  ASSUME NEW S \in SUBSET Nat, S # {}
  PROVE  \E s \in S : \A o \in S : s <= o
<1> DEFINE R == OpToRel(<, Nat)
<1>1. IsWellFoundedOn(R, Nat)
  BY NatLessThanWellFounded
<1>2. PICK s \in S : \A o \in S : ~ (<<o, s>> \in R)
  BY <1>1, WFMin
<1>3. \A o \in S : o < s => <<o, s>> \in R
  BY DEF OpToRel
<1>4. \A o \in S : ~ (o < s)
  BY <1>2, <1>3
<1> HIDE DEF R
<1>5. \A o \in S : o \in Nat /\ s \in Nat
  OBVIOUS
<1> QED
  BY <1>4, <1>5

\* Induction over the natural numbers, for a set of them.
LEMMA SetInduction ==
  ASSUME NEW P \in SUBSET Nat, 0 \in P, \A n \in P : n + 1 \in P
  PROVE  P = Nat
<1> DEFINE Bad == Nat \ P
<1>1. SUFFICES ASSUME Bad # {} PROVE FALSE
  OBVIOUS
<1>2. PICK x \in Bad : \A y \in Bad : x <= y
  BY <1>1, LeastNumber
<1>3. x \in Nat /\ x # 0
  BY <1>2
<1>4. x - 1 \in Nat /\ ~ (x <= x - 1) /\ (x - 1) + 1 = x
  BY <1>3
<1> QED
  BY <1>2, <1>4

\* MaxOf is the maximum of a bounded set.
LEMMA MaxIs ==
  ASSUME NEW S \in SUBSET Nat, S # {}, NEW b \in Nat, \A n \in S : n <= b, NEW d
  PROVE  MaxOf(S, d) \in S /\ \A n \in S : n <= MaxOf(S, d)
<1> DEFINE B == {n \in Nat : \A m \in S : m <= n}
<1>1. PICK s \in B : \A o \in B : s <= o
  <2>1. b \in B
    OBVIOUS
  <2> HIDE DEF B
  <2>2. B \in SUBSET Nat /\ B # {}
    BY <2>1 DEF B
  <2> QED
    BY <2>2, LeastNumber
<1>2. s \in S
  <2> SUFFICES ASSUME s \notin S PROVE FALSE
    OBVIOUS
  <2>1. PICK m \in S : TRUE
    OBVIOUS
  <2>2. m \in Nat /\ s \in Nat /\ m <= s /\ m # s
    BY <2>1
  <2>3. s - 1 \in Nat /\ ~ (s <= s - 1)
    BY <2>2
  <2>4. \A n \in S : n <= s - 1
    BY <2>2
  <2> QED
    BY <1>1, <2>3, <2>4
<1>3. \A n \in S : n <= s
  OBVIOUS
<1> QED
  BY <1>2, <1>3 DEF MaxOf

(***************************************************************************)
(* Records selected from the log.                                          *)
(***************************************************************************)

TakeOne(f, records, indexes, n) ==
    IF n = 0 THEN <<>>
    ELSE IF n \in indexes THEN Append(f[n - 1], records[n]) ELSE f[n - 1]
Takes(f, records, indexes, n) == f = [m \in 0 .. n |-> TakeOne(f, records, indexes, m)]

LEMMA SelectIs ==
  ASSUME NEW records, NEW indexes
  PROVE  Select(records, indexes) =
            (CHOOSE f : Takes(f, records, indexes, Len(records)))[Len(records)]
BY DEF Select, Takes, TakeOne

\* The recursive function of Select exists.
LEMMA TakesExist ==
  ASSUME NEW records, NEW indexes, NEW n \in Nat
  PROVE  \E f : Takes(f, records, indexes, n)
<1> DEFINE P == {k \in Nat : \E f : Takes(f, records, indexes, k)}
<1>1. 0 \in P
  <2> DEFINE f == [m \in 0 .. 0 |-> <<>>]
  <2>1. Takes(f, records, indexes, 0)
    BY DEF Takes, TakeOne
  <2> QED
    BY <2>1
<1>2. ASSUME NEW k \in P PROVE k + 1 \in P
  <2>1. PICK f : Takes(f, records, indexes, k)
    BY <1>2
  <2> DEFINE g == [m \in 0 .. k + 1 |->
                     IF m = k + 1
                     THEN IF m \in indexes THEN Append(f[k], records[m]) ELSE f[k]
                     ELSE f[m]]
  <2>2. ASSUME NEW m \in 0 .. k + 1 PROVE g[m] = TakeOne(g, records, indexes, m)
    <3>1. CASE m = k + 1
      <4>1. g[m - 1] = f[k] /\ m # 0
        BY <3>1
      <4> QED
        BY <3>1, <4>1 DEF TakeOne
    <3>2. CASE m # k + 1
      <4>1. m \in 0 .. k
        BY <3>2
      <4>2. f[m] = TakeOne(f, records, indexes, m)
        BY <2>1, <4>1 DEF Takes
      <4>3. m # 0 => g[m - 1] = f[m - 1]
        BY <4>1
      <4> QED
        BY <3>2, <4>2, <4>3 DEF TakeOne
    <3> QED
      BY <3>1, <3>2
  <2>3. Takes(g, records, indexes, k + 1)
    <3>1. g = [m \in 0 .. k + 1 |-> g[m]]
      OBVIOUS
    <3> HIDE DEF g
    <3> QED
      BY <2>2, <3>1 DEF Takes
  <2> HIDE DEF g
  <2> QED
    BY <2>3
<1>3. P = Nat
  <2> HIDE DEF P
  <2>1. P \in SUBSET Nat
    BY DEF P
  <2> QED
    BY <1>1, <1>2, <2>1, SetInduction
<1> QED
  BY <1>3

\* What Select takes up to the n-th record.
LEMMA SelectSteps ==
  ASSUME NEW T, NEW records \in Seq(T), NEW indexes
  PROVE  \E f : /\ Select(records, indexes) = f[Len(records)]
                /\ f[0] = <<>>
                /\ \A n \in 1 .. Len(records) :
                      f[n] = IF n \in indexes THEN Append(f[n - 1], records[n]) ELSE f[n - 1]
<1> DEFINE N == Len(records)
<1>1. N \in Nat
  OBVIOUS
<1>2. PICK f : Takes(f, records, indexes, N) /\ Select(records, indexes) = f[N]
  BY <1>1, TakesExist, SelectIs
<1> HIDE DEF N
<1>3. \A m \in 0 .. N : f[m] = TakeOne(f, records, indexes, m)
  BY <1>2 DEF Takes
<1>4. f[0] = <<>>
  BY <1>1, <1>3 DEF TakeOne
<1>5. \A n \in 1 .. N : f[n] = IF n \in indexes THEN Append(f[n - 1], records[n]) ELSE f[n - 1]
  BY <1>1, <1>3 DEF TakeOne
<1> QED
  BY <1>2, <1>4, <1>5 DEF N

\* Selected records are records, and there are not more of them.
LEMMA SelectTyped ==
  ASSUME NEW T, NEW records \in Seq(T), NEW indexes
  PROVE  /\ Select(records, indexes) \in Seq({records[i] : i \in DOMAIN records \cap indexes})
         /\ Len(Select(records, indexes)) <= Len(records)
<1> DEFINE N == Len(records)
           U == {records[i] : i \in DOMAIN records \cap indexes}
<1>1. PICK f : /\ Select(records, indexes) = f[N] /\ f[0] = <<>>
               /\ \A n \in 1 .. N :
                     f[n] = IF n \in indexes THEN Append(f[n - 1], records[n]) ELSE f[n - 1]
  BY SelectSteps
<1>2. N \in Nat /\ DOMAIN records = 1 .. N
  OBVIOUS
<1>3. \A n \in 1 .. N : n \in indexes => records[n] \in U
  BY <1>2
<1> HIDE DEF N, U
<1> DEFINE P == {k \in Nat : k <= N => f[k] \in Seq(U) /\ Len(f[k]) <= k}
<1>4. 0 \in P
  <2>1. <<>> \in Seq(U) /\ Len(<<>>) <= 0
    OBVIOUS
  <2> QED
    BY <1>1, <2>1
<1>5. ASSUME NEW k \in P PROVE k + 1 \in P
  <2> SUFFICES ASSUME k + 1 <= N PROVE f[k + 1] \in Seq(U) /\ Len(f[k + 1]) <= k + 1
    OBVIOUS
  <2>1. k \in Nat /\ k + 1 \in 1 .. N /\ (k + 1) - 1 = k /\ f[k] \in Seq(U) /\ Len(f[k]) <= k
    BY <1>2
  <2>2. f[k + 1] = IF k + 1 \in indexes THEN Append(f[k], records[k + 1]) ELSE f[k]
    BY <1>1, <2>1
  <2>3. k + 1 \in indexes => records[k + 1] \in U
    BY <1>3, <2>1
  <2> QED
    BY <2>1, <2>2, <2>3
<1>6. P = Nat
  <2>1. P \in SUBSET Nat
    OBVIOUS
  <2> HIDE DEF P
  <2> QED
    BY <1>4, <1>5, <2>1, SetInduction
<1>7. f[N] \in Seq(U) /\ Len(f[N]) <= N
  BY <1>2, <1>6
<1> QED
  BY <1>1, <1>7 DEF N, U

\* A record that is wanted is taken.
LEMMA SelectTaken ==
  ASSUME NEW T, NEW records \in Seq(T), NEW indexes, NEW i \in DOMAIN records, i \in indexes
  PROVE  \E m \in DOMAIN Select(records, indexes) : Select(records, indexes)[m] = records[i]
<1> DEFINE N == Len(records)
           U == {records[j] : j \in DOMAIN records \cap indexes}
           Has(s) == \E m \in DOMAIN s : s[m] = records[i]
<1>1. PICK f : /\ Select(records, indexes) = f[N] /\ f[0] = <<>>
               /\ \A n \in 1 .. N :
                     f[n] = IF n \in indexes THEN Append(f[n - 1], records[n]) ELSE f[n - 1]
  BY SelectSteps
<1>2. N \in Nat /\ i \in 1 .. N /\ DOMAIN records = 1 .. N
  OBVIOUS
<1>3. \A n \in 1 .. N : n \in indexes => records[n] \in U
  BY <1>2
<1>7. \A s \in Seq(U), u \in U : /\ Append(s, u) \in Seq(U) /\ (Has(s) => Has(Append(s, u)))
                                 /\ u = records[i] => Has(Append(s, u))
  <2> SUFFICES ASSUME NEW s \in Seq(U), NEW u \in U
               PROVE  /\ Append(s, u) \in Seq(U) /\ (Has(s) => Has(Append(s, u)))
                      /\ u = records[i] => Has(Append(s, u))
    OBVIOUS
  <2> HIDE DEF U
  <2>1. /\ Append(s, u) \in Seq(U) /\ Len(s) + 1 \in DOMAIN Append(s, u)
        /\ Append(s, u)[Len(s) + 1] = u
        /\ \A m \in DOMAIN s : m \in DOMAIN Append(s, u) /\ Append(s, u)[m] = s[m]
    OBVIOUS
  <2> QED
    BY <2>1
<1> HIDE DEF N, U, Has
<1> DEFINE P == {k \in Nat : k <= N => f[k] \in Seq(U) /\ (i <= k => Has(f[k]))}
<1>4. 0 \in P
  <2>1. <<>> \in Seq(U) /\ ~ (i <= 0)
    BY <1>2
  <2> QED
    BY <1>1, <2>1
<1>5. ASSUME NEW k \in P PROVE k + 1 \in P
  <2> SUFFICES ASSUME k + 1 <= N
               PROVE  f[k + 1] \in Seq(U) /\ (i <= k + 1 => Has(f[k + 1]))
    OBVIOUS
  <2>1. k \in Nat /\ k + 1 \in 1 .. N /\ (k + 1) - 1 = k /\ f[k] \in Seq(U) /\ (i <= k => Has(f[k]))
    BY <1>2
  <2>2. f[k + 1] = IF k + 1 \in indexes THEN Append(f[k], records[k + 1]) ELSE f[k]
    BY <1>1, <2>1
  <2>3. k + 1 \in indexes => records[k + 1] \in U
    BY <1>3, <2>1
  <2>4. i <= k + 1 => i <= k \/ i = k + 1
    BY <1>2, <2>1
  <2> QED
    BY <1>7, <2>1, <2>2, <2>3, <2>4
<1>6. P = Nat
  <2>1. P \in SUBSET Nat
    OBVIOUS
  <2> HIDE DEF P
  <2> QED
    BY <1>4, <1>5, <2>1, SetInduction
<1>8. Has(f[N])
  BY <1>2, <1>6
<1> QED
  BY <1>1, <1>8 DEF Has

LEMMA SelectSome ==
  ASSUME NEW T, NEW records \in Seq(T), NEW indexes, NEW i \in DOMAIN records, i \in indexes
  PROVE  Select(records, indexes) # <<>>
<1>1. \E m \in DOMAIN Select(records, indexes) : Select(records, indexes)[m] = records[i]
  BY SelectTaken
<1>2. DOMAIN <<>> = {}
  OBVIOUS
<1> QED
  BY <1>1, <1>2

\* Selected records stay in order.
LEMMA SelectOrdered ==
  ASSUME NEW records \in Seq(LogFrames), NEW indexes, Ordered(records)
  PROVE  Ordered(Select(records, indexes))
<1> DEFINE N == Len(records)
           Below(s, n) == \A m \in DOMAIN s : s[m].lsn < n
<1>1. PICK f : /\ Select(records, indexes) = f[N] /\ f[0] = <<>>
               /\ \A n \in 1 .. N :
                     f[n] = IF n \in indexes THEN Append(f[n - 1], records[n]) ELSE f[n - 1]
  <2> DEFINE T == LogFrames
  <2>1. records \in Seq(T)
    OBVIOUS
  <2> HIDE DEF T
  <2> QED
    BY <2>1, SelectSteps
<1>2. /\ N \in Nat
      /\ \A n \in 1 .. N : records[n] \in LogFrames /\ records[n].lsn \in Nat
      /\ \A m, n \in 1 .. N : m < n => records[m].lsn < records[n].lsn
  <2>1. N \in Nat /\ DOMAIN records = 1 .. N
    OBVIOUS
  <2>2. \A n \in 1 .. N : records[n] \in LogFrames
    OBVIOUS
  <2>3. \A n \in 1 .. N : records[n].lsn \in Nat
    <3> HIDE DEF N
    <3> QED
      BY <2>2 DEF LogFrames
  <2> QED
    BY <2>1, <2>2, <2>3 DEF Ordered
<1>3. ASSUME NEW s \in Seq(LogFrames), NEW u \in LogFrames, Ordered(s), Below(s, u.lsn)
      PROVE  /\ Append(s, u) \in Seq(LogFrames) /\ Ordered(Append(s, u))
             /\ \A n \in Nat : u.lsn < n => Below(Append(s, u), n)
  <2>1. /\ Append(s, u) \in Seq(LogFrames) /\ DOMAIN Append(s, u) = 1 .. Len(s) + 1
        /\ DOMAIN s = 1 .. Len(s) /\ Len(s) \in Nat
        /\ \A m \in 1 .. Len(s) + 1 : Append(s, u)[m] = IF m = Len(s) + 1 THEN u ELSE s[m]
    OBVIOUS
  <2>2. u.lsn \in Nat /\ \A m \in DOMAIN s : s[m].lsn \in Nat
    <3>1. \A m \in DOMAIN s : s[m] \in LogFrames
      OBVIOUS
    <3> QED
      BY <3>1 DEF LogFrames
  <2> DEFINE a == Append(s, u)
             L == Len(s)
  <2>3. ASSUME NEW l \in 1 .. L + 1, NEW m \in 1 .. L + 1, l < m
        PROVE  a[l].lsn < a[m].lsn
    <3>1. l \in 1 .. L /\ a[l] = s[l]
      BY <2>1, <2>3
    <3>2. CASE m = L + 1
      BY <1>3, <2>1, <3>1, <3>2
    <3>3. CASE m # L + 1
      <4>1. m \in 1 .. L /\ a[m] = s[m]
        BY <2>1, <3>3
      <4> QED
        BY <1>3, <2>1, <2>3, <3>1, <4>1 DEF Ordered
    <3> QED
      BY <3>2, <3>3
  <2>4. ASSUME NEW n \in Nat, u.lsn < n, NEW m \in 1 .. L + 1 PROVE a[m].lsn < n
    <3>1. CASE m = L + 1
      BY <2>1, <2>4, <3>1
    <3>2. CASE m # L + 1
      <4>1. m \in DOMAIN s /\ a[m] = s[m]
        BY <2>1, <3>2
      <4>2. s[m].lsn < u.lsn /\ s[m].lsn \in Nat
        BY <1>3, <2>2, <4>1
      <4> QED
        BY <2>2, <2>4, <4>1, <4>2
    <3> QED
      BY <3>1, <3>2
  <2> QED
    BY <2>1, <2>3, <2>4 DEF Ordered
<1> HIDE DEF N, Below
<1> DEFINE Fits(s, k) ==
             s \in Seq(LogFrames) /\ Ordered(s) /\ (k # N => Below(s, records[k + 1].lsn))
           P == {k \in Nat : k <= N => Fits(f[k], k)}
<1>4. 0 \in P
  <2>1. <<>> \in Seq(LogFrames) /\ DOMAIN <<>> = {}
    OBVIOUS
  <2>2. Ordered(<<>>) /\ \A n : Below(<<>>, n)
    BY <2>1 DEF Ordered, Below
  <2> QED
    BY <1>1, <2>1, <2>2
<1>5. ASSUME NEW k \in P PROVE k + 1 \in P
  <2> SUFFICES ASSUME k + 1 <= N PROVE Fits(f[k + 1], k + 1)
    OBVIOUS
  <2>1. k \in Nat /\ k + 1 \in 1 .. N /\ (k + 1) - 1 = k /\ k # N /\ Fits(f[k], k)
    BY <1>2
  <2>2. f[k + 1] = IF k + 1 \in indexes THEN Append(f[k], records[k + 1]) ELSE f[k]
    BY <1>1, <2>1
  <2>3. k + 1 # N => k + 2 \in 1 .. N /\ k + 1 < k + 2 /\ (k + 1) + 1 = k + 2
    BY <1>2, <2>1
  <2>4. /\ records[k + 1] \in LogFrames /\ records[k + 1].lsn \in Nat
        /\ k + 1 # N => records[k + 1].lsn < records[k + 2].lsn /\ records[k + 2].lsn \in Nat
    BY <1>2, <2>1, <2>3
  <2> DEFINE s == f[k]
             u == records[k + 1]
  <2>5. s \in Seq(LogFrames) /\ Ordered(s) /\ Below(s, u.lsn)
    BY <2>1
  <2>6. CASE k + 1 \in indexes
    <3>1. f[k + 1] = Append(s, u)
      BY <2>2, <2>6
    <3> HIDE DEF s, u
    <3>2. /\ Append(s, u) \in Seq(LogFrames) /\ Ordered(Append(s, u))
          /\ \A n \in Nat : u.lsn < n => Below(Append(s, u), n)
      BY <1>3, <2>4, <2>5 DEF u
    <3> QED
      BY <2>3, <2>4, <3>1, <3>2 DEF u
  <2>7. CASE k + 1 \notin indexes
    <3>1. f[k + 1] = s
      BY <2>2, <2>7
    <3>2. \A m \in DOMAIN s : s[m].lsn \in Nat
      <4> HIDE DEF s
      <4>1. \A m \in DOMAIN s : s[m] \in LogFrames
        BY <2>5
      <4> QED
        BY <4>1 DEF LogFrames
    <3> HIDE DEF s
    <3>3. k + 1 # N => Below(s, records[k + 2].lsn)
      BY <2>4, <2>5, <3>2 DEF Below
    <3> QED
      BY <2>3, <2>5, <3>1, <3>3
  <2> QED
    BY <2>6, <2>7
<1>6. P = Nat
  <2>1. P \in SUBSET Nat
    OBVIOUS
  <2> HIDE DEF P
  <2> QED
    BY <1>4, <1>5, <2>1, SetInduction
<1>7. N <= N
  BY <1>2
<1>8. Ordered(f[N])
  BY <1>2, <1>6, <1>7
<1> QED
  BY <1>1, <1>8

\* No record is wanted.
LEMMA SelectNone ==
  ASSUME NEW T, NEW records \in Seq(T), NEW indexes, DOMAIN records \cap indexes = {}
  PROVE  Select(records, indexes) = <<>>
<1>1. Select(records, indexes) \in Seq({records[i] : i \in DOMAIN records \cap indexes})
  BY SelectTyped
<1>2. Select(records, indexes) \in Seq({})
  BY <1>1
<1> QED
  BY <1>2

\* The last records are wanted, and no other.
LEMMA SelectTail ==
  ASSUME NEW T, NEW a \in Seq(T), NEW b \in Seq(T), NEW indexes,
         \A i \in DOMAIN a : i \notin indexes,
         \A i \in DOMAIN b : Len(a) + i \in indexes
  PROVE  Select(a \o b, indexes) = b
<1> DEFINE N == Len(a)
           M == Len(b)
           c == a \o b
<1>1. /\ N \in Nat /\ M \in Nat /\ Len(c) = N + M /\ c \in Seq(T)
      /\ \A i \in 1 .. N : i \notin indexes
      /\ \A i \in 1 .. M : N + i \in indexes /\ c[N + i] = b[i]
  <2>1. N \in Nat /\ M \in Nat /\ Len(c) = N + M /\ c \in Seq(T)
    OBVIOUS
  <2>2. DOMAIN a = 1 .. N /\ DOMAIN b = 1 .. M
    OBVIOUS
  <2>3. \A i \in 1 .. M : c[N + i] = b[i]
    BY <2>1
  <2> HIDE DEF c, M
  <2> QED
    BY <2>1, <2>2, <2>3
<1>3. \A i \in 1 .. M : b[i] \in T
  OBVIOUS
<1>10. \A s \in Seq(T) : Len(s) = M /\ (\A i \in 1 .. M : s[i] = b[i]) => s = b
  OBVIOUS
<1> HIDE DEF N, M, c
<1>14. c \in Seq(T)
  BY <1>1
<1>2. PICK f : /\ Select(c, indexes) = f[Len(c)] /\ f[0] = <<>>
               /\ \A n \in 1 .. Len(c) :
                     f[n] = IF n \in indexes THEN Append(f[n - 1], c[n]) ELSE f[n - 1]
  BY <1>14, SelectSteps
<1> DEFINE P == {k \in Nat : k <= N => f[k] = <<>>}
<1>4. 0 \in P
  BY <1>2
<1>5. ASSUME NEW k \in P PROVE k + 1 \in P
  <2> SUFFICES ASSUME k + 1 <= N PROVE f[k + 1] = <<>>
    OBVIOUS
  <2>1. /\ k \in Nat /\ k + 1 \in 1 .. N /\ k + 1 \in 1 .. Len(c) /\ (k + 1) - 1 = k
        /\ f[k] = <<>>
    BY <1>1
  <2> QED
    BY <1>1, <1>2, <2>1
<1>6. P = Nat
  <2>1. P \in SUBSET Nat
    OBVIOUS
  <2> HIDE DEF P
  <2> QED
    BY <1>4, <1>5, <2>1, SetInduction
<1>7. f[N] = <<>>
  BY <1>1, <1>6
<1> HIDE DEF P
<1> DEFINE Q == {k \in Nat : k <= M => /\ f[N + k] \in Seq(T) /\ Len(f[N + k]) = k
                                       /\ \A i \in 1 .. k : f[N + k][i] = b[i]}
<1>8. 0 \in Q
  <2>1. N + 0 = N /\ <<>> \in Seq(T) /\ Len(<<>>) = 0 /\ 1 .. 0 = {}
    BY <1>1
  <2> QED
    BY <1>7, <2>1
<1>9. ASSUME NEW k \in Q PROVE k + 1 \in Q
  <2> SUFFICES ASSUME k + 1 <= M
               PROVE  /\ f[N + (k + 1)] \in Seq(T) /\ Len(f[N + (k + 1)]) = k + 1
                      /\ \A i \in 1 .. k + 1 : f[N + (k + 1)][i] = b[i]
    OBVIOUS
  <2>1. /\ k \in Nat /\ k + 1 \in 1 .. M /\ f[N + k] \in Seq(T) /\ Len(f[N + k]) = k
        /\ \A i \in 1 .. k : f[N + k][i] = b[i]
    BY <1>1
  <2> DEFINE n == N + (k + 1)
             s == f[N + k]
  <2>2. n \in 1 .. Len(c) /\ n - 1 = N + k
    BY <1>1, <2>1
  <2>3. n \in indexes /\ c[n] = b[k + 1] /\ b[k + 1] \in T
    BY <1>1, <1>3, <2>1
  <2>4. f[n] = Append(f[n - 1], c[n])
    <3> HIDE DEF n
    <3> QED
      BY <1>2, <2>2, <2>3
  <2>5. f[n] = Append(s, b[k + 1]) /\ s \in Seq(T) /\ Len(s) = k /\ \A i \in 1 .. k : s[i] = b[i]
    BY <2>1, <2>2, <2>3, <2>4
  <2> HIDE DEF n, s
  <2>6. f[n] \in Seq(T) /\ Len(f[n]) = k + 1 /\ \A i \in 1 .. k + 1 : f[n][i] = b[i]
    BY <2>1, <2>3, <2>5
  <2> QED
    BY <2>6 DEF n
<1>11. Q = Nat
  <2>1. Q \in SUBSET Nat
    OBVIOUS
  <2> HIDE DEF Q
  <2> QED
    BY <1>8, <1>9, <2>1, SetInduction
<1>12. /\ f[N + M] \in Seq(T) /\ Len(f[N + M]) = M
       /\ \A i \in 1 .. M : f[N + M][i] = b[i]
  <2>1. M \in Q
    <3> HIDE DEF Q
    <3> QED
      BY <1>1, <1>11
  <2>2. M <= M
    BY <1>1
  <2> QED
    BY <2>1, <2>2
<1>13. f[N + M] = b
  BY <1>10, <1>12
<1> QED
  BY <1>1, <1>2, <1>13 DEF c

\* A log that is not above the checkpoint has nothing pending.
LEMMA AfterNone ==
  ASSUME NEW T, NEW records \in Seq(T), NEW lsn, \A i \in DOMAIN records : ~ (records[i].lsn > lsn)
  PROVE  RecordsAfter(records, lsn) = <<>>
BY SelectNone DEF RecordsAfter

\* Of a group appended to such a log everything is pending.
LEMMA AfterTail ==
  ASSUME NEW T, NEW a \in Seq(T), NEW b \in Seq(T), NEW lsn,
         \A i \in DOMAIN a : ~ (a[i].lsn > lsn), \A i \in DOMAIN b : b[i].lsn > lsn
  PROVE  RecordsAfter(a \o b, lsn) = b
<1> DEFINE S == {i \in DOMAIN (a \o b) : (a \o b)[i].lsn > lsn}
<1>1. ASSUME NEW i \in DOMAIN a PROVE i \notin S
  <2>1. (a \o b)[i] = a[i]
    OBVIOUS
  <2> QED
    BY <2>1
<1>2. ASSUME NEW i \in DOMAIN b PROVE Len(a) + i \in S
  <2>1. (a \o b)[Len(a) + i] = b[i] /\ Len(a) + i \in DOMAIN (a \o b)
    OBVIOUS
  <2> QED
    BY <2>1
<1> HIDE DEF S
<1>3. Select(a \o b, S) = b
  BY <1>1, <1>2, SelectTail
<1> QED
  BY <1>3 DEF RecordsAfter, S

(***************************************************************************)
(* Groups in the log.                                                      *)
(***************************************************************************)

LEMMA TakeLsnIs ==
  ASSUME Typed
  PROVE  /\ TakeLsn \in Nat \ {0}
         /\ nextLsn # 0 => TakeLsn = nextLsn
         /\ nextLsn = 0 => checkpoint < TakeLsn
         /\ nextLsn = 0 /\ Ordered(log) => \A i \in DOMAIN log : log[i].lsn < TakeLsn
<1>1. nextLsn \in Nat /\ checkpoint \in Nat /\ log \in Seq(LogFrames)
  BY DEF Typed
<1>2. CASE nextLsn # 0
  BY <1>1, <1>2 DEF TakeLsn
<1>3. CASE nextLsn = 0
  <2> DEFINE S == {checkpoint} \cup {log[i].lsn : i \in {Len(log)} \ {0}}
             last == log[Len(log)].lsn
  <2>1. Len(log) # 0 => last \in Nat
    <3>1. Len(log) # 0 => log[Len(log)] \in LogFrames
      BY <1>1
    <3> QED
      BY <3>1 DEF LogFrames
  <2>2. S \in SUBSET Nat /\ checkpoint \in S /\ (Len(log) # 0 => last \in S)
    BY <1>1, <2>1
  <2>3. \E b \in Nat : \A n \in S : n <= b
    <3>1. CASE Len(log) = 0
      BY <1>1, <3>1
    <3>2. CASE Len(log) # 0
      <4>1. \A n \in S : n = checkpoint \/ n = last
        OBVIOUS
      <4> HIDE DEF S, last
      <4>2. \A n \in S : n <= checkpoint + last
        BY <1>1, <2>1, <3>2, <4>1
      <4> QED
        BY <1>1, <2>1, <3>2, <4>2
    <3> QED
      BY <3>1, <3>2
  <2> HIDE DEF S
  <2>4. MaxOf(S, 0) \in S /\ \A n \in S : n <= MaxOf(S, 0)
    BY <2>2, <2>3, MaxIs
  <2>5. MaxOf(S, 0) \in Nat /\ checkpoint <= MaxOf(S, 0) /\ (Len(log) # 0 => last <= MaxOf(S, 0))
    BY <2>2, <2>4
  <2>6. TakeLsn = MaxOf(S, 0) + 1
    BY <1>3 DEF TakeLsn, S
  <2>7. ASSUME Ordered(log), NEW i \in DOMAIN log PROVE log[i].lsn < TakeLsn
    <3>1. /\ i \in 1 .. Len(log) /\ Len(log) \in Nat /\ Len(log) # 0 /\ Len(log) \in DOMAIN log
          /\ log[i] \in LogFrames
      BY <1>1
    <3>2. log[i].lsn \in Nat
      BY <3>1 DEF LogFrames
    <3>3. i = Len(log) \/ log[i].lsn < last
      BY <2>7, <3>1 DEF Ordered
    <3> HIDE DEF last
    <3>4. log[i].lsn <= last
      BY <2>1, <3>1, <3>2, <3>3 DEF last
    <3> QED
      BY <2>1, <2>5, <2>6, <3>1, <3>2, <3>4
  <2> QED
    BY <1>1, <1>3, <2>5, <2>6, <2>7
<1> QED
  BY <1>2, <1>3

LEMMA GroupIs ==
  ASSUME NEW ops \in Groups
  PROVE  /\ ops \in Seq(Operations) /\ Len(ops) \in Nat \ {0}
         /\ \A i \in DOMAIN ops : ops[i] \in Operations /\ ops[i] # Commit
<1>1. ops \in Seq(Operations) /\ ops # <<>>
  BY WalAssumption
<1>2. \A o \in Operations : o.kind \in {"insert", "replace", "delete"}
  BY DEF Operations
<1>3. \A o \in Operations : o # Commit
  BY <1>2 DEF Commit
<1> QED
  BY <1>1, <1>3

LEMMA FramesAre ==
  ASSUME Typed, NEW ops \in Groups
  PROVE  /\ Frames(ops) \in Seq(LogFrames) /\ Len(Frames(ops)) = Len(ops) + 1
         /\ \A i \in 1 .. Len(ops) + 1 : Frames(ops)[i].lsn = TakeLsn + i - 1
         /\ \A i \in 1 .. Len(ops) : Frames(ops)[i].op # Commit
         /\ Frames(ops)[Len(ops) + 1].op = Commit
<1> DEFINE N == Len(ops) + 1
           t == TakeLsn
           frame(i) == [lsn |-> t + i - 1, op |-> IF i > Len(ops) THEN Commit ELSE ops[i]]
<1>1. /\ ops \in Seq(Operations) /\ Len(ops) \in Nat \ {0}
      /\ \A i \in 1 .. Len(ops) : ops[i] \in Operations /\ ops[i] # Commit
  BY GroupIs
<1>2. t \in Nat \ {0}
  BY TakeLsnIs
<1>3. Frames(ops) = [i \in 1 .. N |-> frame(i)]
  BY DEF Frames
<1> HIDE DEF t
<1>4. \A i \in 1 .. N : t + i - 1 \in Nat \ {0}
  BY <1>1, <1>2
<1>5. \A i \in 1 .. N : frame(i) \in LogFrames
  BY <1>1, <1>4 DEF LogFrames
<1>6. Frames(ops) \in Seq(LogFrames) /\ Len(Frames(ops)) = N
  <2> HIDE DEF frame
  <2>1. N \in Nat
    BY <1>1
  <2> HIDE DEF N
  <2> QED
    BY <1>3, <1>5, <2>1
<1>7. \A i \in 1 .. N : Frames(ops)[i] = frame(i)
  BY <1>3
<1> HIDE DEF N
<1>13. \A i : frame(i).lsn = t + i - 1 /\ frame(i).op = IF i > Len(ops) THEN Commit ELSE ops[i]
  OBVIOUS
<1> HIDE DEF frame
<1>8. \A i \in 1 .. N : Frames(ops)[i].lsn = t + i - 1
  BY <1>7, <1>13
<1>9. \A i \in 1 .. Len(ops) : i \in 1 .. N /\ ~ (i > Len(ops))
  BY <1>1 DEF N
<1>10. \A i \in 1 .. Len(ops) : Frames(ops)[i].op # Commit
  BY <1>1, <1>7, <1>9, <1>13
<1>11. N \in 1 .. N /\ N > Len(ops)
  BY <1>1 DEF N
<1>12. Frames(ops)[N].op = Commit
  BY <1>7, <1>11, <1>13
<1> QED
  BY <1>6, <1>8, <1>10, <1>12 DEF N, t

\* What recover_wal() makes of a group of which k frames are whole.
LEMMA CutGroup ==
  ASSUME Typed, NEW ops \in Groups, NEW k \in 0 .. Len(ops) + 1
  PROVE  LET f == SubSeq(Frames(ops), 1, k)
         IN  /\ f \in Seq(LogFrames) /\ Len(f) = k
             /\ \A i \in 1 .. k : f[i] = Frames(ops)[i]
             /\ k = Len(ops) + 1 => f = Frames(ops) /\ CommittedOps(f) # <<>>
             /\ CommittedOps(f) # <<>> => k # 0 /\ ReplayLsn(f) = f[k].lsn
<1> DEFINE f == SubSeq(Frames(ops), 1, k)
           N == Len(ops)
           C == Commits(f)
           tail == SubSeq(f, MaxOf(C, 0) + 1, Len(f))
<1>1. /\ Frames(ops) \in Seq(LogFrames) /\ Len(Frames(ops)) = N + 1
      /\ \A i \in 1 .. N : Frames(ops)[i].op # Commit
      /\ Frames(ops)[N + 1].op = Commit
  BY FramesAre
<1>2. N \in Nat \ {0} /\ k \in Nat /\ k <= N + 1
  BY GroupIs
<1>3. /\ f \in Seq(LogFrames) /\ Len(f) = k
      /\ \A i \in 1 .. k : f[i] = Frames(ops)[i]
      /\ k = N + 1 => f = Frames(ops)
  <2> DEFINE g == Frames(ops)
  <2>1. g \in Seq(LogFrames) /\ Len(g) = N + 1 /\ k \in 0 .. N + 1
    BY <1>1
  <2> HIDE DEF g, N
  <2> QED
    BY <1>2, <2>1 DEF g
<1>4. DOMAIN f = 1 .. k
  BY <1>3
<1>5. CommittedOps(f) = Select(f, 1 .. MaxOf(C, 0) \ C) \o (IF Len(tail) = 1 THEN tail ELSE <<>>)
  BY DEF CommittedOps
<1> HIDE DEF f, N
<1>6. CASE k = N + 1
  <2>1. C = {k}
    <3>1. \A i \in 1 .. k : i \in C <=> f[i].op = Commit
      BY <1>4 DEF Commits
    <3>2. \A i \in 1 .. k : f[i].op = Commit <=> i = k
      BY <1>1, <1>2, <1>3, <1>6
    <3>3. C \subseteq 1 .. k /\ k \in 1 .. k
      BY <1>2, <1>4, <1>6 DEF Commits
    <3> HIDE DEF C
    <3> QED
      BY <3>1, <3>2, <3>3
  <2> HIDE DEF C
  <2>2. MaxOf(C, 0) = k
    BY <2>1 DEF MaxOf
  <2>3. 1 \in 1 .. k \ C /\ 1 \in DOMAIN f
    BY <1>2, <1>4, <1>6, <2>1
  <2>4. Select(f, 1 .. k \ C) # <<>>
    BY <1>3, <2>3, SelectSome
  <2>5. Select(f, 1 .. k \ C) \in Seq(LogFrames)
    <3>1. Select(f, 1 .. k \ C) \in Seq({f[i] : i \in DOMAIN f \cap (1 .. k \ C)})
      BY <1>3, SelectTyped
    <3>2. {f[i] : i \in DOMAIN f \cap (1 .. k \ C)} \subseteq LogFrames
      BY <1>3
    <3> QED
      BY <3>1, <3>2
  <2>6. tail \in Seq(LogFrames)
    BY <1>2, <1>3, <2>2
  <2>7. CommittedOps(f) # <<>>
    <3> HIDE DEF tail
    <3> DEFINE a == Select(f, 1 .. k \ C)
               b == IF Len(tail) = 1 THEN tail ELSE <<>>
    <3>1. CommittedOps(f) = a \o b
      BY <1>5, <2>2
    <3>2. a \in Seq(LogFrames) /\ a # <<>>
      BY <2>4, <2>5
    <3>3. b \in Seq(LogFrames)
      BY <2>6
    <3> HIDE DEF a, b
    <3> QED
      BY <3>1, <3>2, <3>3
  <2>8. ReplayLsn(f) = f[k].lsn
    BY <2>1, <2>2 DEF ReplayLsn, C
  <2> QED
    BY <1>2, <1>3, <1>6, <2>7, <2>8 DEF f, N
<1>7. CASE k # N + 1
  <2>1. C = {}
    <3>1. \A i \in 1 .. k : f[i].op # Commit
      BY <1>1, <1>2, <1>3, <1>7
    <3> QED
      BY <1>4, <3>1 DEF Commits
  <2>2. MaxOf(C, 0) = 0 /\ 1 .. 0 \ C = {}
    BY <2>1 DEF MaxOf
  <2>3. tail = f
    BY <1>2, <1>3, <2>2
  <2>4. Select(f, 1 .. MaxOf(C, 0) \ C) = <<>>
    <3>1. DOMAIN f \cap (1 .. MaxOf(C, 0) \ C) = {}
      BY <2>2
    <3> QED
      BY <1>3, <3>1, SelectNone
  <2>5. CommittedOps(f) = IF k = 1 THEN f ELSE <<>>
    <3>1. CommittedOps(f) = <<>> \o (IF k = 1 THEN f ELSE <<>>)
      BY <1>3, <1>5, <2>3, <2>4
    <3>2. (IF k = 1 THEN f ELSE <<>>) \in Seq(LogFrames)
      BY <1>3
    <3> QED
      BY <3>1, <3>2
  <2>6. k = 1 => ReplayLsn(f) = f[k].lsn
    BY <1>3, <2>1, <2>5 DEF ReplayLsn, Last
  <2> QED
    BY <1>2, <1>3, <1>7, <2>5, <2>6 DEF f, N
<1> QED
  BY <1>6, <1>7

\* The frames of a group are above everything before them, up to the commit's.
LEMMA FramesAbove ==
  ASSUME Typed, Numbers, pc = "ready", NEW ops \in Groups, NEW k \in 0 .. Len(ops) + 1
  PROVE  LET f == SubSeq(Frames(ops), 1, k)
             lsn == TakeLsn + Len(ops)
         IN  /\ lsn \in Nat \ {0} /\ Frames(ops)[Len(ops) + 1].lsn = lsn
             /\ checkpoint < lsn /\ csn < lsn
             /\ \A i \in DOMAIN f : csn < f[i].lsn /\ checkpoint < f[i].lsn /\ f[i].lsn <= lsn
             /\ \A i \in DOMAIN f : f[i].lsn <= f[k].lsn
             /\ \A i \in DOMAIN log : log[i].lsn < TakeLsn
             /\ \A i \in DOMAIN (log \o f) : (log \o f)[i].lsn <= lsn
             /\ k # 0 => \A i \in DOMAIN (log \o f) : (log \o f)[i].lsn <= f[k].lsn
             /\ Ordered(log \o f)
<1> DEFINE f == SubSeq(Frames(ops), 1, k)
           N == Len(ops)
           t == TakeLsn
<1>1. N \in Nat \ {0} /\ t \in Nat \ {0} /\ k \in Nat /\ k <= N + 1
  BY GroupIs, TakeLsnIs
<1>2. /\ f \in Seq(LogFrames) /\ Len(f) = k
      /\ \A i \in 1 .. k : f[i] = Frames(ops)[i]
  BY CutGroup
<1>3. \A i \in 1 .. N + 1 : Frames(ops)[i].lsn = t + i - 1
  BY FramesAre
<1>4. log \in Seq(LogFrames) /\ checkpoint \in Nat /\ csn \in Nat /\ csn = checkpoint
  BY DEF Typed, Numbers
<1>5. checkpoint < t
  BY <1>4, TakeLsnIs DEF Numbers
<1>6. \A i \in DOMAIN log : log[i].lsn < t /\ log[i].lsn \in Nat
  <2> SUFFICES ASSUME NEW i \in DOMAIN log PROVE log[i].lsn < t /\ log[i].lsn \in Nat
    OBVIOUS
  <2>1. log[i].lsn \in Nat
    <3>1. log[i] \in LogFrames
      BY <1>4
    <3> QED
      BY <3>1 DEF LogFrames
  <2>2. CASE nextLsn # 0
    BY <2>1, <2>2, TakeLsnIs DEF Numbers
  <2>3. CASE nextLsn = 0
    BY <2>1, <2>3, TakeLsnIs DEF Numbers
  <2> QED
    BY <2>2, <2>3
<1> HIDE DEF f, N, t
<1>7. \A i \in 1 .. k : f[i].lsn = t + i - 1
  BY <1>1, <1>2, <1>3
<1>8. DOMAIN f = 1 .. k
  BY <1>2
<1>9. \A i \in DOMAIN f : csn < f[i].lsn /\ checkpoint < f[i].lsn /\ f[i].lsn <= t + N
  BY <1>1, <1>4, <1>5, <1>7, <1>8
<1>10. \A i \in DOMAIN f : f[i].lsn <= f[k].lsn
  BY <1>1, <1>7, <1>8
<1>11. Frames(ops)[N + 1].lsn = t + N /\ t + N \in Nat \ {0} /\ checkpoint < t + N
  BY <1>1, <1>3, <1>4, <1>5
<1>12. ASSUME NEW i \in DOMAIN (log \o f)
       PROVE  /\ (log \o f)[i].lsn <= t + N
              /\ k # 0 => (log \o f)[i].lsn <= f[k].lsn
  <2>1. CASE i \in DOMAIN log
    <3>1. (log \o f)[i] = log[i]
      BY <1>2, <1>4, <2>1
    <3>2. log[i].lsn < t /\ log[i].lsn \in Nat
      BY <1>6, <2>1
    <3>3. k # 0 => f[k].lsn = t + k - 1
      BY <1>1, <1>7
    <3> QED
      BY <1>1, <3>1, <3>2, <3>3
  <2>2. CASE i \notin DOMAIN log
    <3>1. PICK j \in DOMAIN f : (log \o f)[i] = f[j]
      <4>1. i - Len(log) \in DOMAIN f /\ (log \o f)[i] = f[i - Len(log)]
        BY <1>2, <1>4, <2>2
      <4> QED
        BY <4>1
    <3> QED
      BY <1>9, <1>10, <3>1
  <2> QED
    BY <2>1, <2>2
<1>13. Ordered(log \o f)
  <2> SUFFICES ASSUME NEW i \in DOMAIN (log \o f), NEW j \in DOMAIN (log \o f), i < j
               PROVE  (log \o f)[i].lsn < (log \o f)[j].lsn
    BY DEF Ordered
  <2> DEFINE L == Len(log)
  <2>1. /\ L \in Nat /\ DOMAIN log = 1 .. L /\ DOMAIN (log \o f) = 1 .. L + k /\ i \in Nat /\ j \in Nat
        /\ \A n \in 1 .. L : (log \o f)[n] = log[n]
        /\ \A n \in 1 .. L + k : n > L => n - L \in 1 .. k /\ (log \o f)[n] = f[n - L]
    BY <1>1, <1>2, <1>4, <1>8
  <2> DEFINE a == log \o f
  <2> HIDE DEF L, a
  <2>2. CASE j <= L
    <3>1. i \in 1 .. L /\ j \in 1 .. L
      BY <2>1, <2>2
    <3>2. log[i].lsn < log[j].lsn
      BY <2>1, <3>1 DEF Ordered, Numbers
    <3> QED
      BY <2>1, <3>1, <3>2
  <2>3. CASE i <= L /\ j > L
    <3>1. i \in 1 .. L /\ j - L \in 1 .. k
      BY <2>1, <2>3
    <3>2. (log \o f)[i] = log[i] /\ (log \o f)[j] = f[j - L]
      BY <2>1, <2>3, <3>1
    <3>3. f[j - L].lsn = t + (j - L) - 1
      BY <1>7, <3>1
    <3>4. log[i].lsn < t /\ log[i].lsn \in Nat
      BY <1>6, <2>1, <3>1
    <3> QED
      BY <1>1, <2>1, <3>1, <3>2, <3>3, <3>4
  <2>4. CASE i > L
    <3>1. i - L \in 1 .. k /\ j - L \in 1 .. k
      BY <2>1, <2>4
    <3>2. (log \o f)[i] = f[i - L] /\ (log \o f)[j] = f[j - L]
      BY <2>1, <2>4
    <3>3. f[i - L].lsn = t + (i - L) - 1 /\ f[j - L].lsn = t + (j - L) - 1
      BY <1>7, <3>1
    <3> QED
      BY <1>1, <2>1, <3>1, <3>2, <3>3
  <2> QED
    BY <2>1, <2>2, <2>3, <2>4
<1> QED
  BY <1>4, <1>6, <1>9, <1>10, <1>11, <1>12, <1>13 DEF f, N, t

\* What recovery would find in the log after k frames of a group were appended.
LEMMA GroupPending ==
  ASSUME Typed, Numbers, pc = "ready", Upto(checkpoint),
         NEW ops \in Groups, NEW k \in 0 .. Len(ops) + 1,
         log' = log \o SubSeq(Frames(ops), 1, k), checkpoint' = checkpoint
  PROVE  /\ k = Len(ops) + 1 => ~ Uncommitted'
         /\ ~ Uncommitted' => Redoable'
<1> DEFINE f == SubSeq(Frames(ops), 1, k)
<1>1. /\ f \in Seq(LogFrames) /\ Len(f) = k
      /\ k = Len(ops) + 1 => CommittedOps(f) # <<>>
      /\ CommittedOps(f) # <<>> => k # 0 /\ ReplayLsn(f) = f[k].lsn
  BY CutGroup
<1>2. /\ \A i \in DOMAIN f : checkpoint < f[i].lsn
      /\ k # 0 => \A i \in DOMAIN (log \o f) : (log \o f)[i].lsn <= f[k].lsn
  BY FramesAbove
<1>3. log \in Seq(LogFrames) /\ checkpoint \in Nat
  BY DEF Typed
<1>4. \A i \in DOMAIN log : log[i].lsn \in Nat
  <2>1. \A i \in DOMAIN log : log[i] \in LogFrames
    BY <1>3
  <2> QED
    BY <2>1 DEF LogFrames
<1>5. \A i \in DOMAIN f : f[i].lsn \in Nat
  <2> HIDE DEF f
  <2>1. \A i \in DOMAIN f : f[i] \in LogFrames
    BY <1>1
  <2> QED
    BY <2>1 DEF LogFrames
<1>6. \A i \in DOMAIN log : ~ (log[i].lsn > checkpoint)
  BY <1>3, <1>4 DEF Upto
<1> HIDE DEF f
<1>7. \A i \in DOMAIN f : f[i].lsn > checkpoint
  BY <1>2, <1>3, <1>5
<1>8. RecordsAfter(log \o f, checkpoint) = f
  BY <1>1, <1>3, <1>6, <1>7, AfterTail
<1>9. log' = log \o f
  BY DEF f
<1>10. Pending' = f
  BY <1>8, <1>9 DEF Pending
<1>11. Uncommitted' <=> CommittedOps(f) = <<>>
  BY <1>10 DEF Uncommitted
<1>12. CommittedOps(f) # <<>> => Redoable'
  <2> SUFFICES ASSUME CommittedOps(f) # <<>> PROVE Redoable'
    OBVIOUS
  <2>1. k # 0 /\ ReplayLsn(Pending') = f[k].lsn
    BY <1>1, <1>10
  <2>2. k \in DOMAIN f
    BY <1>1, <2>1
  <2>3. checkpoint < f[k].lsn
    BY <1>2, <2>2
  <2>4. \A i \in DOMAIN log' : log'[i].lsn <= f[k].lsn
    BY <1>2, <1>9, <2>1
  <2> QED
    BY <2>1, <2>3, <2>4 DEF Redoable, Upto
<1> QED
  BY <1>1, <1>11, <1>12

LEMMA LogSame ==
  ASSUME log' = log, checkpoint' = checkpoint
  PROVE  /\ (Uncommitted' <=> Uncommitted) /\ (Redoable' <=> Redoable)
         /\ Ordered(log') <=> Ordered(log)
         /\ \A n : Shows(n)' <=> Shows(n)
BY DEF Uncommitted, Redoable, Pending, Upto, Shows

(***************************************************************************)
(* Pages.                                                                  *)
(***************************************************************************)

LEMMA InsertIs ==
  ASSUME NEW h \in Heaps, NEW row \in Rows
  PROVE  InsertRow(h, row) \in Heaps /\ Len(h) <= Len(InsertRow(h, row))
<1>1. h \in Seq(Seq(Rows)) /\ Len(h) \in Nat
  BY DEF Heaps
<1>2. CASE h # <<>> /\ Len(Last(h)) < RowsPerPage
  <2>1. Len(h) \in DOMAIN h /\ h[Len(h)] \in Seq(Rows)
    BY <1>1, <1>2
  <2>2. Append(h[Len(h)], row) \in Seq(Rows)
    BY <2>1
  <2>3. InsertRow(h, row) = [h EXCEPT ![Len(h)] = Append(h[Len(h)], row)]
    BY <1>2 DEF InsertRow
  <2> DEFINE page == Append(h[Len(h)], row)
  <2> HIDE DEF page
  <2>4. [h EXCEPT ![Len(h)] = page] \in Seq(Seq(Rows)) /\ Len([h EXCEPT ![Len(h)] = page]) = Len(h)
    BY <1>1, <2>1, <2>2 DEF page
  <2> QED
    BY <1>1, <2>3, <2>4 DEF page, Heaps
<1>3. CASE ~ (h # <<>> /\ Len(Last(h)) < RowsPerPage)
  <2>1. InsertRow(h, row) = Append(h, <<row>>)
    BY <1>3 DEF InsertRow
  <2>2. <<row>> \in Seq(Rows)
    OBVIOUS
  <2> QED
    BY <1>1, <2>1, <2>2 DEF Heaps
<1> QED
  BY <1>2, <1>3

LEMMA PositionIs ==
  ASSUME NEW h \in Heaps, NEW pos \in Positions(h)
  PROVE  /\ pos = <<pos[1], pos[2]>> /\ pos[1] \in DOMAIN h /\ pos[2] \in DOMAIN h[pos[1]]
         /\ pos[1] \in Nat /\ pos[2] \in Nat
<1>1. PICK p \in DOMAIN h : pos \in {p} \X DOMAIN h[p]
  BY DEF Positions
<1>2. pos[1] = p /\ pos[2] \in DOMAIN h[p] /\ pos = <<pos[1], pos[2]>>
  BY <1>1
<1>3. h \in Seq(Seq(Rows))
  BY DEF Heaps
<1>4. p \in Nat /\ h[p] \in Seq(Rows)
  BY <1>1, <1>3
<1>5. pos[2] \in Nat
  BY <1>2, <1>4
<1> QED
  BY <1>1, <1>2, <1>4, <1>5

\* There is a lowest position.
LEMMA LowestPosition ==
  ASSUME NEW h \in Heaps, NEW S \in SUBSET Positions(h), S # {}
  PROVE  \E a \in S : \A b \in S : a[1] < b[1] \/ (a[1] = b[1] /\ a[2] <= b[2])
<1>1. \A a \in S : a[1] \in Nat /\ a[2] \in Nat
  BY PositionIs
<1> DEFINE P == {a[1] : a \in S}
<1>2. PICK p \in P : \A q \in P : p <= q
  <2>1. P \in SUBSET Nat /\ P # {}
    BY <1>1
  <2> HIDE DEF P
  <2> QED
    BY <2>1, LeastNumber
<1> DEFINE Q == {a[2] : a \in {c \in S : c[1] = p}}
<1>3. PICK q \in Q : \A r \in Q : q <= r
  <2>1. Q \in SUBSET Nat /\ Q # {}
    BY <1>1
  <2> HIDE DEF Q
  <2> QED
    BY <2>1, LeastNumber
<1>4. PICK a \in S : a[1] = p /\ a[2] = q
  BY <1>3
<1>5. ASSUME NEW b \in S PROVE a[1] < b[1] \/ (a[1] = b[1] /\ a[2] <= b[2])
  <2>1. a[1] <= b[1] /\ a[1] \in Nat /\ b[1] \in Nat
    BY <1>1, <1>2, <1>4
  <2>2. a[1] = b[1] => a[2] <= b[2]
    BY <1>3, <1>4
  <2> QED
    BY <2>1, <2>2
<1> QED
  BY <1>5

LEMMA DeleteIs ==
  ASSUME NEW h \in Heaps, NEW id
  PROVE  DeleteId(h, id) \in Heaps /\ Len(DeleteId(h, id)) = Len(h)
<1>1. h \in Seq(Seq(Rows)) /\ Len(h) \in Nat
  BY DEF Heaps
<1>2. CASE WithId(h, id) = {}
  BY <1>2 DEF DeleteId
<1>3. CASE WithId(h, id) # {}
  <2> DEFINE Lower(a, b) == a[1] < b[1] \/ (a[1] = b[1] /\ a[2] <= b[2])
             S == WithId(h, id)
             pos == CHOOSE a \in S : \A b \in S : Lower(a, b)
  <2>1. DeleteId(h, id) = [h EXCEPT ![pos[1]] = RemoveAt(h[pos[1]], pos[2])]
    BY <1>3 DEF DeleteId
  <2>2. S \in SUBSET Positions(h)
    BY DEF WithId
  <2>3. \E a \in S : \A b \in S : Lower(a, b)
    <3> HIDE DEF S
    <3> QED
      BY <1>3, <2>2, LowestPosition DEF S
  <2>4. pos \in S
    <3> HIDE DEF S, Lower
    <3> QED
      BY <2>3
  <2>5. pos \in Positions(h)
    BY <2>2, <2>4
  <2> HIDE DEF pos, S
  <2> DEFINE p == pos[1]
             q == pos[2]
             page == SubSeq(h[p], 1, q - 1) \o SubSeq(h[p], q + 1, Len(h[p]))
  <2>6. p \in DOMAIN h /\ q \in DOMAIN h[p]
    BY <2>5, PositionIs
  <2>7. DeleteId(h, id) = [h EXCEPT ![p] = page]
    BY <2>1 DEF RemoveAt
  <2> HIDE DEF p, q
  <2>8. h[p] \in Seq(Rows)
    BY <1>1, <2>6
  <2>9. page \in Seq(Rows)
    <3> DEFINE r == h[p]
    <3>1. r \in Seq(Rows) /\ q \in 1 .. Len(r)
      BY <2>6, <2>8
    <3> HIDE DEF r
    <3>2. SubSeq(r, 1, q - 1) \in Seq(Rows) /\ SubSeq(r, q + 1, Len(r)) \in Seq(Rows)
      BY <3>1
    <3> QED
      BY <3>2 DEF r
  <2> HIDE DEF page
  <2> QED
    BY <1>1, <2>6, <2>7, <2>9 DEF Heaps
<1> QED
  BY <1>2, <1>3

\* A page is written to the data file.
LEMMA WritePage ==
  ASSUME NEW h \in Heaps, NEW d \in Heaps, Len(d) <= Len(h), NEW p \in DOMAIN h
  PROVE  LET e == [PadTo(d, p) EXCEPT ![p] = h[p]]
         IN  e \in Heaps /\ Len(e) <= Len(h)
<1>1. /\ h \in Seq(Seq(Rows)) /\ d \in Seq(Seq(Rows)) /\ Len(h) \in Nat /\ Len(d) \in Nat
      /\ p \in 1 .. Len(h)
  BY DEF Heaps
<1> DEFINE n == IF p > Len(d) THEN p ELSE Len(d)
           e == [PadTo(d, p) EXCEPT ![p] = h[p]]
<1>2. n \in Nat /\ n <= Len(h) /\ p \in 1 .. n
  BY <1>1
<1>3. PadTo(d, p) = [q \in 1 .. n |-> PageOf(d, q)]
  BY DEF PadTo
<1>4. \A q : PageOf(d, q) \in Seq(Rows)
  <2> SUFFICES ASSUME NEW q PROVE PageOf(d, q) \in Seq(Rows)
    OBVIOUS
  <2>1. q \in DOMAIN d => d[q] \in Seq(Rows)
    BY <1>1
  <2>2. <<>> \in Seq(Rows)
    OBVIOUS
  <2> QED
    BY <2>1, <2>2 DEF PageOf
<1>5. h[p] \in Seq(Rows)
  BY <1>1
<1> HIDE DEF n
<1>6. e \in [1 .. n -> Seq(Rows)]
  BY <1>2, <1>3, <1>4, <1>5
<1> HIDE DEF e
<1>7. e \in Seq(Seq(Rows)) /\ Len(e) = n
  BY <1>2, <1>6
<1> QED
  BY <1>2, <1>7 DEF e, Heaps

\* A data file that has every page is the same as the cache.
LEMMA FlushedIs ==
  ASSUME Typed, Len(disk) <= Len(mem)
  PROVE  Flushed <=> disk = mem
<1>1. disk \in Seq(Seq(Rows)) /\ mem \in Seq(Seq(Rows))
  BY DEF Typed, Heaps
<1>2. ASSUME Flushed PROVE disk = mem
  <2>1. \A p \in DOMAIN mem : p \in DOMAIN disk /\ disk[p] = mem[p]
    BY <1>2 DEF Flushed, Unwritten
  <2>2. Len(disk) = Len(mem)
    <3>1. CASE Len(mem) = 0
      BY <1>1, <3>1
    <3>2. CASE Len(mem) # 0
      <4>1. Len(mem) \in DOMAIN mem
        BY <1>1, <3>2
      <4>2. Len(mem) \in DOMAIN disk
        BY <2>1, <4>1
      <4> QED
        BY <1>1, <4>2
    <3> QED
      BY <3>1, <3>2
  <2>3. /\ disk = [p \in 1 .. Len(disk) |-> disk[p]] /\ mem = [p \in 1 .. Len(mem) |-> mem[p]]
        /\ DOMAIN mem = 1 .. Len(mem)
    BY <1>1
  <2> QED
    BY <2>1, <2>2, <2>3
<1>3. ASSUME disk = mem PROVE Flushed
  BY <1>3 DEF Flushed, Unwritten
<1> QED
  BY <1>2, <1>3

(***************************************************************************)
(* Operations and their row changes.                                       *)
(***************************************************************************)

LEMMA StepsAre ==
  ASSUME NEW op \in Operations
  PROVE  Steps(op) \in Seq(RowSteps)
<1> DEFINE Each(kind, args) == [i \in DOMAIN args |-> [kind |-> kind, arg |-> args[i]]]
<1>1. ASSUME NEW kind \in {"insert", "add"}, NEW args \in Seq(Rows)
      PROVE  Each(kind, args) \in Seq(RowSteps)
  <2>1. DOMAIN args = 1 .. Len(args) /\ Len(args) \in Nat /\ \A i \in DOMAIN args : args[i] \in Rows
    OBVIOUS
  <2>2. \A i \in DOMAIN args : [kind |-> kind, arg |-> args[i]] \in RowSteps
    BY <2>1 DEF RowSteps
  <2> QED
    BY <2>1, <2>2
<1>2. ASSUME NEW args \in Seq(Nat)
      PROVE  Each("delete", args) \in Seq(RowSteps)
  <2>1. DOMAIN args = 1 .. Len(args) /\ Len(args) \in Nat /\ \A i \in DOMAIN args : args[i] \in Nat
    OBVIOUS
  <2>2. \A i \in DOMAIN args : [kind |-> "delete", arg |-> args[i]] \in RowSteps
    BY <2>1 DEF RowSteps
  <2> QED
    BY <2>1, <2>2
<1>3. Steps(op) = CASE op.kind = "insert" -> Each("insert", op.rows)
                    [] op.kind = "delete" -> Each("delete", op.ids)
                    [] op.kind = "replace" -> <<[kind |-> "truncate"]>> \o Each("add", op.rows)
  BY DEF Steps
<1> HIDE DEF Each
<1>4. CASE op.kind = "insert"
  <2>1. op.rows \in Seq(Rows)
    BY <1>4 DEF Operations
  <2>2. Each("insert", op.rows) \in Seq(RowSteps)
    BY <1>1, <2>1
  <2> QED
    BY <1>3, <1>4, <2>2
<1>5. CASE op.kind = "delete"
  <2>1. op.ids \in Seq(Nat)
    BY <1>5 DEF Operations
  <2>2. Each("delete", op.ids) \in Seq(RowSteps)
    BY <1>2, <2>1
  <2> QED
    BY <1>3, <1>5, <2>2
<1>6. CASE op.kind = "replace"
  <2>1. op.rows \in Seq(Rows)
    BY <1>6 DEF Operations
  <2>2. Each("add", op.rows) \in Seq(RowSteps)
    BY <1>1, <2>1
  <2>3. <<[kind |-> "truncate"]>> \in Seq(RowSteps)
    BY DEF RowSteps
  <2> QED
    BY <1>3, <1>6, <2>2, <2>3
<1>7. op.kind \in {"insert", "delete", "replace"}
  BY DEF Operations
<1> QED
  BY <1>4, <1>5, <1>6, <1>7

\* The operations recovery replays are operations of groups.
LEMMA CommittedAre ==
  ASSUME NEW records \in Seq(LogFrames)
  PROVE  /\ CommittedOps(records) \in Seq(LogFrames)
         /\ \A i \in DOMAIN CommittedOps(records) : CommittedOps(records)[i].op # Commit
<1> DEFINE C == Commits(records)
           mark == MaxOf(C, 0)
           tail == SubSeq(records, mark + 1, Len(records))
           Ops == {f \in LogFrames : f.op # Commit}
           a == Select(records, 1 .. mark \ C)
           b == IF Len(tail) = 1 THEN tail ELSE <<>>
<1>1. CommittedOps(records) = a \o b
  BY DEF CommittedOps
<1>2. DOMAIN records = 1 .. Len(records) /\ Len(records) \in Nat
  OBVIOUS
<1>3. C \subseteq 1 .. Len(records) /\ \A i \in 1 .. Len(records) : i \in C <=> records[i].op = Commit
  BY <1>2 DEF Commits
<1>4. mark \in 0 .. Len(records) /\ \A i \in C : i <= mark
  <2> HIDE DEF C
  <2>1. CASE C = {}
    BY <1>2, <2>1 DEF MaxOf
  <2>2. CASE C # {}
    <3>1. C \in SUBSET Nat /\ \A n \in C : n <= Len(records)
      BY <1>3
    <3>2. mark \in C /\ \A n \in C : n <= mark
      BY <1>2, <2>2, <3>1, MaxIs
    <3> HIDE DEF mark
    <3> QED
      BY <1>2, <1>3, <3>2
  <2> QED
    BY <2>1, <2>2
<1> HIDE DEF C, mark
<1>5. a \in Seq(Ops)
  <2> DEFINE U == {records[i] : i \in DOMAIN records \cap (1 .. mark \ C)}
  <2>1. a \in Seq(U)
    BY SelectTyped
  <2>2. U \subseteq Ops
    <3> SUFFICES ASSUME NEW i \in DOMAIN records \cap (1 .. mark \ C) PROVE records[i] \in Ops
      OBVIOUS
    <3>1. records[i] \in LogFrames /\ records[i].op # Commit
      BY <1>2, <1>3
    <3> QED
      BY <3>1
  <2> HIDE DEF U, a, Ops
  <2> QED
    BY <2>1, <2>2
<1>6. b \in Seq(Ops)
  <2>1. tail \in Seq(LogFrames)
    BY <1>2, <1>4
  <2>2. CASE Len(tail) = 1
    <3>9. mark \in Nat /\ mark <= Len(records)
      BY <1>2, <1>4
    <3>10. mark = Len(records) => Len(tail) = 0
      BY <1>2, <3>9
    <3>6. mark \in Nat /\ mark + 1 <= Len(records)
      <4>1. mark # Len(records)
        <5> HIDE DEF tail
        <5> QED
          BY <2>2, <3>10
      <4> DEFINE L == Len(records)
      <4>2. L \in Nat /\ mark \in Nat /\ mark <= L /\ mark # L
        BY <1>2, <3>9, <4>1
      <4> HIDE DEF L
      <4>3. mark + 1 <= L
        BY <4>2
      <4> QED
        BY <4>2, <4>3 DEF L
    <3>7. tail[1] = records[mark + 1]
      BY <1>2, <2>2, <3>6
    <3>8. DOMAIN tail = {1}
      <4> HIDE DEF tail
      <4>1. DOMAIN tail = 1 .. 1
        BY <2>1, <2>2
      <4> QED
        BY <4>1
    <3>1. mark + 1 <= Len(records) /\ tail[1] = records[mark + 1] /\ DOMAIN tail = {1}
      BY <3>6, <3>7, <3>8
    <3>2. mark + 1 \in 1 .. Len(records) /\ mark + 1 \notin C
      BY <1>2, <1>4, <3>1
    <3>3. records[mark + 1].op # Commit /\ tail[1] \in LogFrames
      BY <1>3, <2>1, <3>1, <3>2
    <3>4. \A i \in DOMAIN tail : tail[i] \in Ops
      BY <3>1, <3>3
    <3> HIDE DEF tail, Ops
    <3>5. tail \in Seq(Ops)
      BY <2>1, <3>4
    <3> QED
      BY <2>2, <3>5
  <2>3. CASE Len(tail) # 1
    <3>1. b = <<>>
      BY <2>3
    <3> HIDE DEF b, Ops
    <3>2. <<>> \in Seq(Ops)
      OBVIOUS
    <3> QED
      BY <3>1, <3>2
  <2> QED
    BY <2>2, <2>3
<1> HIDE DEF a, b
<1>7. CommittedOps(records) \in Seq(Ops)
  <2> HIDE DEF Ops
  <2> QED
    BY <1>1, <1>5, <1>6
<1>8. \A i \in DOMAIN CommittedOps(records) : CommittedOps(records)[i] \in Ops
  <2> HIDE DEF Ops
  <2> QED
    BY <1>7
<1>9. CommittedOps(records) \in Seq(LogFrames)
  <2>1. Ops \subseteq LogFrames
    OBVIOUS
  <2> HIDE DEF Ops
  <2> QED
    BY <1>7, <2>1
<1> QED
  BY <1>8, <1>9

\* Records of the log after a checkpoint are frames.
LEMMA RecordsAre ==
  ASSUME NEW records \in Seq(LogFrames), NEW lsn \in Nat
  PROVE  /\ RecordsAfter(records, lsn) \in Seq(LogFrames)
         /\ RecordsUpTo(records, lsn) \in Seq(LogFrames)
         /\ Len(RecordsAfter(records, lsn)) <= Len(records)
         /\ Len(RecordsUpTo(records, lsn)) <= Len(records)
         /\ \A i \in DOMAIN RecordsUpTo(records, lsn) : RecordsUpTo(records, lsn)[i].lsn <= lsn
         /\ \A i \in DOMAIN RecordsAfter(records, lsn) :
              /\ RecordsAfter(records, lsn)[i].lsn > lsn
              /\ \E j \in DOMAIN records : RecordsAfter(records, lsn)[i] = records[j]
         /\ \A i \in DOMAIN RecordsUpTo(records, lsn) :
              \E j \in DOMAIN records : RecordsUpTo(records, lsn)[i] = records[j]
         /\ Ordered(records) => Ordered(RecordsAfter(records, lsn)) /\ Ordered(RecordsUpTo(records, lsn))
<1> DEFINE A == {i \in DOMAIN records : records[i].lsn > lsn}
           B == {i \in DOMAIN records : records[i].lsn <= lsn}
           U == {records[i] : i \in DOMAIN records \cap A}
           V == {records[i] : i \in DOMAIN records \cap B}
<1>1. Select(records, A) \in Seq(U) /\ Len(Select(records, A)) <= Len(records)
  BY SelectTyped
<1>2. Select(records, B) \in Seq(V) /\ Len(Select(records, B)) <= Len(records)
  BY SelectTyped
<1>3. /\ U \subseteq LogFrames /\ V \subseteq LogFrames /\ (\A r \in V : r.lsn <= lsn)
      /\ \A r \in U : r.lsn > lsn /\ \E j \in DOMAIN records : r = records[j]
      /\ \A r \in V : \E j \in DOMAIN records : r = records[j]
  OBVIOUS
<1>7. Ordered(records) => Ordered(Select(records, A)) /\ Ordered(Select(records, B))
  <2> HIDE DEF A, B
  <2> QED
    BY SelectOrdered
<1>4. RecordsAfter(records, lsn) = Select(records, A) /\ RecordsUpTo(records, lsn) = Select(records, B)
  BY DEF RecordsAfter, RecordsUpTo
<1> HIDE DEF A, B, U, V
<1>5. /\ \A i \in DOMAIN Select(records, B) : Select(records, B)[i] \in V
      /\ \A i \in DOMAIN Select(records, A) : Select(records, A)[i] \in U
  BY <1>1, <1>2
<1>8. Select(records, A) \in Seq(LogFrames) /\ Select(records, B) \in Seq(LogFrames)
  BY <1>1, <1>2, <1>3
<1> QED
  BY <1>1, <1>2, <1>3, <1>4, <1>5, <1>7, <1>8

\* Every record above a checkpoint is among those after it.
LEMMA RecordFound ==
  ASSUME NEW records \in Seq(LogFrames), NEW lsn \in Nat,
         NEW i \in DOMAIN records, records[i].lsn > lsn
  PROVE  \E j \in DOMAIN RecordsAfter(records, lsn) : RecordsAfter(records, lsn)[j] = records[i]
<1> DEFINE A == {k \in DOMAIN records : records[k].lsn > lsn}
<1>1. i \in A
  OBVIOUS
<1>2. RecordsAfter(records, lsn) = Select(records, A)
  BY DEF RecordsAfter
<1> HIDE DEF A
<1> QED
  BY <1>1, <1>2, SelectTaken

\* Without a mark recovery completes a lone record or nothing; with marks, the last.
LEMMA ReplayRecord ==
  ASSUME NEW records \in Seq(LogFrames), CommittedOps(records) # <<>>
  PROVE  \/ Commits(records) = {} /\ Len(records) = 1 /\ ReplayLsn(records) = records[1].lsn
         \/ \E i \in Commits(records) :
              ReplayLsn(records) = records[i].lsn /\ \A j \in Commits(records) : j <= i
<1> DEFINE C == Commits(records)
           tail == SubSeq(records, MaxOf(C, 0) + 1, Len(records))
<1>1. CommittedOps(records) = Select(records, 1 .. MaxOf(C, 0) \ C) \o (IF Len(tail) = 1 THEN tail ELSE <<>>)
  BY DEF CommittedOps
<1>2. DOMAIN records = 1 .. Len(records) /\ Len(records) \in Nat
  OBVIOUS
<1>3. CASE C = {}
  <2>1. MaxOf(C, 0) = 0 /\ 1 .. 0 \ C = {}
    BY <1>3 DEF MaxOf
  <2>2. tail = records
    BY <1>2, <2>1
  <2>3. Select(records, 1 .. MaxOf(C, 0) \ C) = <<>>
    <3>1. DOMAIN records \cap (1 .. MaxOf(C, 0) \ C) = {}
      BY <2>1
    <3> QED
      BY <3>1, SelectNone
  <2>4. CommittedOps(records) = IF Len(records) = 1 THEN records ELSE <<>>
    <3>1. CommittedOps(records) = <<>> \o (IF Len(records) = 1 THEN records ELSE <<>>)
      BY <1>1, <2>2, <2>3
    <3>2. (IF Len(records) = 1 THEN records ELSE <<>>) \in Seq(LogFrames)
      OBVIOUS
    <3> QED
      BY <3>1, <3>2
  <2>5. Len(records) = 1 /\ CommittedOps(records) = records
    BY <2>4
  <2>6. ReplayLsn(records) = records[1].lsn
    BY <1>3, <2>5 DEF ReplayLsn, Last
  <2> QED
    BY <1>3, <2>5, <2>6
<1>4. CASE C # {}
  <2>1. C \in SUBSET Nat /\ \A i \in C : i <= Len(records)
    BY <1>2 DEF Commits
  <2>2. ReplayLsn(records) = records[MaxOf(C, 0)].lsn
    BY <1>4 DEF ReplayLsn
  <2> HIDE DEF C
  <2>3. MaxOf(C, 0) \in C /\ \A j \in C : j <= MaxOf(C, 0)
    BY <1>2, <1>4, <2>1, MaxIs
  <2> QED
    BY <2>2, <2>3 DEF C
<1> QED
  BY <1>3, <1>4

\* A record before a mark is one that recovery takes.
LEMMA CommittedSome ==
  ASSUME NEW records \in Seq(LogFrames), NEW i \in DOMAIN records, NEW j \in DOMAIN records,
         i < j, records[i].op # Commit, records[j].op = Commit
  PROVE  CommittedOps(records) # <<>>
<1> DEFINE C == Commits(records)
           mark == MaxOf(C, 0)
           tail == SubSeq(records, mark + 1, Len(records))
           a == Select(records, 1 .. mark \ C)
           b == IF Len(tail) = 1 THEN tail ELSE <<>>
<1>1. CommittedOps(records) = a \o b
  BY DEF CommittedOps
<1>2. DOMAIN records = 1 .. Len(records) /\ Len(records) \in Nat
  OBVIOUS
<1>3. j \in C /\ i \notin C /\ C \in SUBSET Nat /\ \A n \in C : n <= Len(records)
  BY <1>2 DEF Commits
<1>4. mark \in Nat /\ j <= mark
  <2> HIDE DEF C
  <2> QED
    BY <1>2, <1>3, MaxIs
<1>5. i \in 1 .. mark \ C
  BY <1>2, <1>3, <1>4
<1> HIDE DEF C, mark
<1>6. a # <<>>
  BY <1>5, SelectSome
<1>7. a \in Seq(LogFrames)
  <2>1. a \in Seq({records[n] : n \in DOMAIN records \cap (1 .. mark \ C)})
    BY SelectTyped
  <2>2. {records[n] : n \in DOMAIN records \cap (1 .. mark \ C)} \subseteq LogFrames
    OBVIOUS
  <2> HIDE DEF a
  <2> QED
    BY <2>1, <2>2
<1>8. b \in Seq(LogFrames)
  <2>1. tail \in Seq(LogFrames)
    BY <1>2, <1>4
  <2> HIDE DEF tail
  <2> QED
    BY <2>1
<1> HIDE DEF a, b
<1> QED
  BY <1>1, <1>6, <1>7, <1>8

\* Whatever the log held, a group that is whole in it is committed.
LEMMA GroupCommitted ==
  ASSUME Typed, Numbers, pc = "ready", NEW ops \in Groups,
         log' = log \o Frames(ops), checkpoint' = checkpoint
  PROVE  ~ Uncommitted'
<1> DEFINE f == Frames(ops)
           N == Len(ops)
           g == RecordsAfter(log', checkpoint)
<1>1. N \in Nat \ {0}
  BY GroupIs
<1>2. /\ f \in Seq(LogFrames) /\ Len(f) = N + 1 /\ f[1].op # Commit /\ f[N + 1].op = Commit
      /\ f[1].lsn = TakeLsn /\ f[N + 1].lsn = TakeLsn + N
  <2>1. /\ Frames(ops) \in Seq(LogFrames) /\ Len(Frames(ops)) = N + 1
        /\ \A i \in 1 .. N + 1 : Frames(ops)[i].lsn = TakeLsn + i - 1
        /\ \A i \in 1 .. N : Frames(ops)[i].op # Commit
        /\ Frames(ops)[N + 1].op = Commit
    BY FramesAre
  <2>2. 1 \in 1 .. N /\ 1 \in 1 .. N + 1 /\ N + 1 \in 1 .. N + 1
    BY <1>1
  <2>3. TakeLsn \in Nat
    BY TakeLsnIs
  <2> HIDE DEF N
  <2>4. TakeLsn + 1 - 1 = TakeLsn /\ TakeLsn + (N + 1) - 1 = TakeLsn + N
    BY <1>1, <2>3 DEF N
  <2> QED
    BY <2>1, <2>2, <2>4
<1>3. /\ TakeLsn \in Nat /\ log \in Seq(LogFrames) /\ checkpoint \in Nat
      /\ log' \in Seq(LogFrames) /\ Ordered(log')
      /\ \A i \in DOMAIN f : checkpoint < f[i].lsn
  <2> DEFINE k == N + 1
  <2>1. k \in 0 .. Len(ops) + 1 /\ k = Len(ops) + 1
    BY <1>1
  <2> HIDE DEF k
  <2>2. SubSeq(f, 1, k) = f
    BY <2>1, CutGroup
  <2>3. \A i \in DOMAIN SubSeq(f, 1, k) : checkpoint < SubSeq(f, 1, k)[i].lsn
    BY <2>1, FramesAbove
  <2>4. Ordered(log \o SubSeq(f, 1, k))
    BY <2>1, FramesAbove
  <2>5. TakeLsn \in Nat /\ log \in Seq(LogFrames) /\ checkpoint \in Nat
    BY TakeLsnIs DEF Typed
  <2> HIDE DEF f
  <2>6. log' \in Seq(LogFrames)
    BY <1>2, <2>5 DEF f
  <2> QED
    BY <2>2, <2>3, <2>4, <2>5, <2>6 DEF f
<1>4. /\ Len(log) + 1 \in DOMAIN log' /\ log'[Len(log) + 1] = f[1] /\ 1 \in DOMAIN f
      /\ Len(log) + (N + 1) \in DOMAIN log' /\ log'[Len(log) + (N + 1)] = f[N + 1] /\ N + 1 \in DOMAIN f
  <2> HIDE DEF f, N
  <2>1. log' = log \o f /\ 1 \in DOMAIN f /\ N + 1 \in DOMAIN f
    BY <1>1, <1>2 DEF f
  <2> QED
    BY <1>1, <1>2, <1>3, <2>1
<1>5. /\ g \in Seq(LogFrames) /\ Ordered(g)
      /\ \A i \in DOMAIN log' : log'[i].lsn > checkpoint => \E j \in DOMAIN g : g[j] = log'[i]
  <2> DEFINE l == log'
  <2>1. l \in Seq(LogFrames) /\ Ordered(l) /\ checkpoint \in Nat
    BY <1>3
  <2> HIDE DEF l
  <2> DEFINE r == RecordsAfter(l, checkpoint)
  <2>2. r \in Seq(LogFrames) /\ (Ordered(l) => Ordered(r))
    BY <2>1, RecordsAre
  <2>3. \A i \in DOMAIN l : l[i].lsn > checkpoint => \E j \in DOMAIN r : r[j] = l[i]
    <3> SUFFICES ASSUME NEW i \in DOMAIN l, l[i].lsn > checkpoint
                 PROVE  \E j \in DOMAIN r : r[j] = l[i]
      OBVIOUS
    <3> QED
      BY <2>1, RecordFound
  <2> QED
    BY <2>1, <2>2, <2>3 DEF l
<1>6. f[1].lsn > checkpoint /\ f[N + 1].lsn > checkpoint
  BY <1>1, <1>2, <1>3, <1>4
<1> HIDE DEF f, N, g
<1>7. PICK i \in DOMAIN g : g[i] = f[1]
  BY <1>4, <1>5, <1>6
<1>8. PICK j \in DOMAIN g : g[j] = f[N + 1]
  BY <1>4, <1>5, <1>6
<1>9. i < j
  <2>1. i \in Nat /\ j \in Nat
    BY <1>5
  <2>2. g[i].lsn < g[j].lsn /\ g[i].lsn \in Nat /\ g[j].lsn \in Nat
    BY <1>1, <1>2, <1>3, <1>7, <1>8
  <2>3. ~ (j < i)
    BY <1>5, <2>2 DEF Ordered
  <2>4. i # j
    BY <2>2
  <2> QED
    BY <2>1, <2>3, <2>4
<1>10. CommittedOps(g) # <<>>
  BY <1>2, <1>5, <1>7, <1>8, <1>9, CommittedSome
<1> QED
  BY <1>10 DEF Uncommitted, Pending, g

(***************************************************************************)
(* Each action keeps the invariant.                                        *)
(***************************************************************************)

\* A group, or a part of it, reaches the log.
LEMMA Submitted ==
  ASSUME Inv, NEW ops \in Groups, NEW k \in 0 .. Len(ops) + 1, Submit(ops),
         log' = log \o SubSeq(Frames(ops), 1, k)
  PROVE  LET lsn == TakeLsn + Len(ops)
         IN  /\ pc = "ready" /\ csn = checkpoint
             /\ UNCHANGED <<checkpoint, csn, published, disk>>
             /\ log' \in Seq(LogFrames) /\ lsn \in Nat \ {0} /\ nextLsn' = lsn + 1
             /\ \A i \in DOMAIN log' : log'[i].lsn <= lsn
             /\ checkpoint < lsn /\ csn < lsn
             /\ Frames(ops)[Len(ops) + 1].lsn = lsn
             /\ Ordered(log')
             /\ k = Len(ops) + 1 => ~ Uncommitted'
             /\ Clean => (~ Uncommitted' => Redoable')
<1> DEFINE f == SubSeq(Frames(ops), 1, k)
           lsn == TakeLsn + Len(ops)
<1>1. Typed /\ Numbers /\ pc = "ready" /\ csn = checkpoint
  BY DEF Inv, Submit, Numbers
<1>2. UNCHANGED <<checkpoint, csn, published, disk>> /\ nextLsn' = TakeLsn + Len(ops) + 1
  BY DEF Submit, versionVars
<1>3. f \in Seq(LogFrames)
  BY <1>1, CutGroup
<1>4. log' \in Seq(LogFrames)
  BY <1>1, <1>3 DEF Typed
<1>5. /\ lsn \in Nat \ {0} /\ Frames(ops)[Len(ops) + 1].lsn = lsn
      /\ checkpoint < lsn /\ csn < lsn
      /\ \A i \in DOMAIN (log \o f) : (log \o f)[i].lsn <= lsn
      /\ Ordered(log \o f)
  BY <1>1, FramesAbove
<1>6. (\A i \in DOMAIN log' : log'[i].lsn <= lsn) /\ Ordered(log')
  BY <1>5
<1>7. Clean => Upto(checkpoint)
  BY <1>1 DEF Inv, Recoverable
<1>8. Clean => (~ Uncommitted' => Redoable')
  BY <1>1, <1>2, <1>7, GroupPending
<1>10. k = Len(ops) + 1 => ~ Uncommitted'
  <2>1. k = Len(ops) + 1 => f = Frames(ops)
    BY <1>1, CutGroup
  <2> QED
    BY <1>1, <1>2, <2>1, GroupCommitted
<1>9. nextLsn' = lsn + 1
  BY <1>2
<1> QED
  BY <1>1, <1>2, <1>4, <1>5, <1>6, <1>8, <1>9, <1>10

LEMMA AppendGroupInv ==
  ASSUME Inv, NEW ops \in Groups, AppendGroup(ops)
  PROVE  Inv'
<1> DEFINE N == Len(ops)
           lsn == TakeLsn + N
<1>1. N \in Nat \ {0} /\ N + 1 \in 0 .. N + 1 /\ ops \in Seq(Operations)
  BY GroupIs
<1>2. /\ Submit(ops) /\ log' = log \o Frames(ops) /\ pageLsn' = Last(Frames(ops)).lsn
      /\ todo' = ops /\ steps' = <<>> /\ pc' = "apply"
      /\ UNCHANGED <<mem, opening, strays, crashes>>
  BY DEF AppendGroup
<1>3. /\ Typed /\ Frames(ops) \in Seq(LogFrames) /\ Len(Frames(ops)) = N + 1
      /\ Frames(ops) = SubSeq(Frames(ops), 1, N + 1)
  <2>1. Typed /\ Frames(ops) \in Seq(LogFrames) /\ Len(Frames(ops)) = N + 1
    BY FramesAre DEF Inv
  <2>2. LET f == SubSeq(Frames(ops), 1, N + 1) IN N + 1 = Len(ops) + 1 => f = Frames(ops)
    BY <1>1, <2>1, CutGroup
  <2> QED
    BY <2>1, <2>2
<1>4. log' = log \o SubSeq(Frames(ops), 1, N + 1)
  BY <1>2, <1>3
<1>5. /\ pc = "ready" /\ csn = checkpoint /\ UNCHANGED <<checkpoint, csn, published, disk>>
      /\ log' \in Seq(LogFrames) /\ lsn \in Nat \ {0} /\ nextLsn' = lsn + 1
      /\ \A i \in DOMAIN log' : log'[i].lsn <= lsn
      /\ checkpoint < lsn /\ csn < lsn /\ Frames(ops)[N + 1].lsn = lsn
      /\ Ordered(log') /\ (N + 1 = Len(ops) + 1 => ~ Uncommitted')
      /\ Clean => (~ Uncommitted' => Redoable')
  <2> DEFINE k == N + 1
  <2>1. k \in 0 .. Len(ops) + 1 /\ log' = log \o SubSeq(Frames(ops), 1, k)
    BY <1>1, <1>4
  <2> HIDE DEF k
  <2>2. LET l == TakeLsn + Len(ops)
        IN  /\ pc = "ready" /\ csn = checkpoint
            /\ UNCHANGED <<checkpoint, csn, published, disk>>
            /\ log' \in Seq(LogFrames) /\ l \in Nat \ {0} /\ nextLsn' = l + 1
            /\ \A i \in DOMAIN log' : log'[i].lsn <= l
            /\ checkpoint < l /\ csn < l
            /\ Frames(ops)[Len(ops) + 1].lsn = l
            /\ Ordered(log') /\ (k = Len(ops) + 1 => ~ Uncommitted')
            /\ Clean => (~ Uncommitted' => Redoable')
    BY <1>2, <2>1, Submitted
  <2> QED
    BY <2>2 DEF k
<1>6. pageLsn' = lsn
  BY <1>2, <1>3, <1>5 DEF Last
<1> HIDE DEF N, lsn
<1>7. /\ checkpoint \in Nat /\ csn \in Nat /\ disk \in Heaps /\ mem \in Heaps
      /\ crashes \in 0 .. MaxCrashes /\ strays \in {"none", "logged", "redone"}
  BY <1>3 DEF Typed
<1>8. Typed'
  <2>1. nextLsn' \in Nat /\ pageLsn' \in Nat /\ steps' \in Seq(RowSteps)
    BY <1>2, <1>5, <1>6
  <2> QED
    BY <1>1, <1>2, <1>5, <1>7, <2>1 DEF Typed
<1>14. \A i \in DOMAIN log' : log'[i].lsn \in Nat
  <2>1. \A i \in DOMAIN log' : log'[i] \in LogFrames
    BY <1>5
  <2> QED
    BY <2>1 DEF LogFrames
<1>9. Numbers'
  <2>1. \A i \in DOMAIN log' : log'[i].lsn < nextLsn'
    BY <1>5, <1>14
  <2>2. checkpoint < nextLsn' /\ csn < nextLsn' /\ pageLsn' < nextLsn' /\ csn <= pageLsn'
    BY <1>5, <1>6, <1>7
  <2>3. Upto(pageLsn)'
    BY <1>5, <1>6 DEF Upto
  <2> QED
    BY <1>2, <1>5, <1>6, <1>7, <2>1, <2>2, <2>3 DEF Numbers
<1>10. Pages'
  BY <1>2, <1>5 DEF Pages, Inv
<1>11. Recoverable'
  <2>1. ~ Uncommitted' /\ (Clean' => Redoable')
    BY <1>2, <1>5 DEF N, Clean
  <2> QED
    BY <1>2, <2>1 DEF Recoverable
<1>12. Marked'
  <2> DEFINE i == Len(log) + (N + 1)
  <2>1. i \in DOMAIN log' /\ log'[i] = Frames(ops)[N + 1]
    <3> DEFINE f == Frames(ops)
    <3>1. log' = log \o f /\ Len(f) = N + 1 /\ f \in Seq(LogFrames) /\ log \in Seq(LogFrames) /\ N \in Nat
      BY <1>1, <1>2, <1>3 DEF Typed, N
    <3> HIDE DEF f
    <3> QED
      BY <3>1 DEF f
  <2>2. Frames(ops)[N + 1].op = Commit
    BY <1>3, FramesAre DEF N
  <2>3. i \in Commits(log') /\ log'[i].lsn = lsn
    BY <1>5, <2>1, <2>2 DEF Commits
  <2>4. pageLsn' <= log'[i].lsn
    BY <1>5, <1>6, <2>3
  <2> HIDE DEF i
  <2>5. Shows(pageLsn)'
    BY <2>3, <2>4 DEF Shows
  <2> QED
    BY <1>2, <2>5 DEF Marked
<1> QED
  BY <1>8, <1>9, <1>10, <1>11, <1>12 DEF Inv

LEMMA AppendCrashInv ==
  ASSUME Inv, NEW ops \in Groups, AppendCrash(ops)
  PROVE  Inv'
<1>1. /\ Submit(ops) /\ crashes < MaxCrashes /\ mem' = <<>> /\ pc' = "down"
      /\ crashes' = crashes + 1 /\ UNCHANGED <<pageLsn, todo, steps>>
  BY DEF AppendCrash, work
<1>2. PICK k \in 0 .. Len(ops) + 1 :
        /\ log' = log \o SubSeq(Frames(ops), 1, k)
        /\ strays' = IF k = 1 /\ Len(ops) > 1 THEN Stray ELSE strays
  BY DEF AppendCrash
<1>3. strays' \in {"none", "logged", "redone"} /\ (Clean' => Clean)
  BY <1>2 DEF Inv, Typed, Clean, Stray
<1> DEFINE lsn == TakeLsn + Len(ops)
<1>4. /\ pc = "ready" /\ csn = checkpoint /\ UNCHANGED <<checkpoint, csn, published, disk>>
      /\ log' \in Seq(LogFrames) /\ lsn \in Nat \ {0} /\ nextLsn' = lsn + 1
      /\ \A i \in DOMAIN log' : log'[i].lsn <= lsn
      /\ checkpoint < lsn /\ csn < lsn /\ Ordered(log')
      /\ Clean => (~ Uncommitted' => Redoable')
  BY <1>1, <1>2, Submitted
<1> HIDE DEF lsn
<1>5. Typed /\ checkpoint \in Nat /\ csn \in Nat /\ disk \in Heaps /\ crashes \in 0 .. MaxCrashes
  BY DEF Inv, Typed
<1>6. Typed'
  <2>1. nextLsn' \in Nat /\ mem' \in Heaps /\ crashes' \in 0 .. MaxCrashes
    BY <1>1, <1>4, <1>5, WalAssumption DEF Heaps
  <2> QED
    BY <1>1, <1>3, <1>4, <1>5, <2>1 DEF Typed
<1>7. \A i \in DOMAIN log' : log'[i].lsn \in Nat
  <2>1. \A i \in DOMAIN log' : log'[i] \in LogFrames
    BY <1>4
  <2> QED
    BY <2>1 DEF LogFrames
<1>8. Numbers'
  <2>1. \A i \in DOMAIN log' : log'[i].lsn < nextLsn'
    BY <1>4, <1>7
  <2>2. checkpoint < nextLsn' /\ csn < nextLsn'
    BY <1>4, <1>5
  <2> QED
    BY <1>1, <1>4, <1>5, <2>1, <2>2 DEF Numbers
<1>9. Pages'
  BY <1>1 DEF Pages
<1>10. Recoverable'
  <2>1. published = Contents(disk)
    BY <1>4 DEF Inv, Pages
  <2>2. Settled'
    BY <1>4, <2>1 DEF Settled
  <2> QED
    BY <1>1, <1>3, <1>4, <2>2 DEF Recoverable
<1>11. Marked'
  <2>1. Shows(csn)'
    BY <1>4, <1>5 DEF Shows
  <2> QED
    BY <1>1, <2>1 DEF Marked
<1> QED
  BY <1>6, <1>8, <1>9, <1>10, <1>11 DEF Inv

LEMMA AppendErrorInv ==
  ASSUME Inv, NEW ops \in Groups, AppendError(ops)
  PROVE  Inv'
<1>1. /\ Submit(ops)
      /\ UNCHANGED <<mem, pageLsn, todo, steps, pc, crashes>>
  BY DEF AppendError, work
<1>2. PICK k \in 0 .. Len(ops) + 1 :
        /\ log' = log \o SubSeq(Frames(ops), 1, k)
        /\ strays' = IF k > 0 THEN Stray ELSE strays
  BY DEF AppendError
<1>3. strays' \in {"none", "logged", "redone"} /\ (Clean' => Clean /\ k = 0)
  BY <1>2 DEF Inv, Typed, Clean, Stray
<1> DEFINE lsn == TakeLsn + Len(ops)
<1>4. /\ pc = "ready" /\ csn = checkpoint /\ UNCHANGED <<checkpoint, csn, published, disk>>
      /\ log' \in Seq(LogFrames) /\ lsn \in Nat \ {0} /\ nextLsn' = lsn + 1
      /\ \A i \in DOMAIN log' : log'[i].lsn <= lsn
      /\ checkpoint < lsn /\ csn < lsn /\ Ordered(log')
  BY <1>1, <1>2, Submitted
<1> HIDE DEF lsn
<1>5. Typed /\ checkpoint \in Nat /\ csn \in Nat /\ MaxCrashes \in Nat
  BY WalAssumption DEF Inv, Typed
<1>6. Typed'
  <2>1. nextLsn' \in Nat
    BY <1>4
  <2> QED
    BY <1>1, <1>3, <1>4, <1>5, <2>1 DEF Typed
<1>7. \A i \in DOMAIN log' : log'[i].lsn \in Nat
  <2>1. \A i \in DOMAIN log' : log'[i] \in LogFrames
    BY <1>4
  <2> QED
    BY <2>1 DEF LogFrames
<1>8. Numbers'
  <2>1. \A i \in DOMAIN log' : log'[i].lsn < nextLsn'
    BY <1>4, <1>7
  <2>2. checkpoint < nextLsn' /\ csn < nextLsn' /\ nextLsn' # 0
    BY <1>4, <1>5
  <2> QED
    BY <1>1, <1>4, <1>5, <2>1, <2>2 DEF Numbers
<1>9. Pages'
  BY <1>1, <1>4 DEF Pages, Inv
<1>10. Recoverable'
  <2> SUFFICES ASSUME Clean' PROVE Upto(checkpoint)'
    BY <1>1, <1>4 DEF Recoverable
  <2>1. Clean /\ k = 0
    BY <1>3
  <2>2. Upto(checkpoint)
    BY <1>4, <2>1 DEF Inv, Recoverable
  <2>3. log' = log
    <3>1. SubSeq(Frames(ops), 1, 0) = <<>> /\ log \in Seq(LogFrames)
      BY <1>5, FramesAre DEF Typed
    <3> QED
      BY <1>2, <2>1, <3>1
  <2> QED
    BY <1>4, <2>2, <2>3 DEF Upto
<1>11. Marked'
  BY <1>1, <1>4 DEF Marked
<1> QED
  BY <1>6, <1>8, <1>9, <1>10, <1>11 DEF Inv

\* An operation is taken up; nothing is written yet.
LEMMA TakeUpInv ==
  ASSUME Inv, ApplyOp \/ ReplayOp
  PROVE  Inv'
<1>1. /\ todo # <<>> /\ todo' = Tail(todo) /\ steps' \in {<<>>, Steps(Head(todo))}
      /\ UNCHANGED <<log, nextLsn, checkpoint, csn, published, disk, mem, pageLsn, pc, strays, crashes>>
  BY DEF ApplyOp, ReplayOp, logVars, versionVars, counts, history
<1>2. todo \in Seq(Operations)
  BY DEF Inv, Typed
<1>3. Head(todo) \in Operations /\ Tail(todo) \in Seq(Operations)
  BY <1>1, <1>2
<1>4. steps' \in Seq(RowSteps)
  <2>1. <<>> \in Seq(RowSteps)
    OBVIOUS
  <2> QED
    BY <1>1, <1>3, <2>1, StepsAre
<1>5. Typed'
  BY <1>1, <1>3, <1>4 DEF Inv, Typed
<1>6. Numbers'
  BY <1>1 DEF Inv, Numbers, Upto
<1>7. Pages'
  BY <1>1 DEF Inv, Pages
<1>8. Recoverable' /\ Marked'
  BY <1>1, LogSame DEF Inv, Recoverable, Settled, Upto, Clean, Marked
<1> QED
  BY <1>5, <1>6, <1>7, <1>8 DEF Inv

LEMMA RefuseReplayInv ==
  ASSUME Inv, RefuseReplay
  PROVE  Inv'
<1>1. /\ pc' = "refused"
      /\ UNCHANGED <<log, nextLsn, checkpoint, csn, published, disk, mem, pageLsn, todo, steps, strays, crashes>>
  BY DEF RefuseReplay, logVars, versionVars, work, counts, history
<1>2. Typed'
  BY <1>1 DEF Inv, Typed
<1>3. Numbers'
  BY <1>1 DEF Inv, Numbers, Upto
<1>4. Pages' /\ Recoverable' /\ Marked'
  BY <1>1 DEF Pages, Recoverable, Marked
<1> QED
  BY <1>2, <1>3, <1>4 DEF Inv

\* A row change.
LEMMA RowStepInv ==
  ASSUME Inv, RowStep
  PROVE  Inv'
<1> DEFINE step == Head(steps)
<1>1. /\ pc \in {"apply", "replay"} /\ steps # <<>>
      /\ mem' = CASE step.kind \in {"insert", "add"} -> InsertRow(mem, step.arg)
                  [] step.kind = "delete" -> DeleteId(mem, step.arg)
                  [] step.kind = "truncate" -> <<>>
      /\ disk' = IF step.kind = "truncate" THEN <<>> ELSE disk
      /\ steps' = Tail(steps)
      /\ UNCHANGED <<log, nextLsn, checkpoint, csn, published, pageLsn, todo, pc, strays, crashes>>
  BY DEF RowStep, logVars, versionVars, counts, history
<1>2. /\ steps \in Seq(RowSteps) /\ mem \in Heaps /\ disk \in Heaps
      /\ Len(disk) <= Len(mem) /\ Len(disk) \in Nat /\ Len(mem) \in Nat
  <2>1. steps \in Seq(RowSteps) /\ mem \in Heaps /\ disk \in Heaps
    BY DEF Inv, Typed
  <2>2. Len(disk) \in Nat /\ Len(mem) \in Nat
    BY <2>1 DEF Heaps
  <2> QED
    BY <1>1, <2>1, <2>2 DEF Inv, Pages
<1>3. step \in RowSteps /\ Tail(steps) \in Seq(RowSteps)
  BY <1>1, <1>2
<1> HIDE DEF step
<1>4. mem' \in Heaps /\ disk' \in Heaps /\ Len(disk') <= Len(mem')
  <2>1. CASE step.kind \in {"insert", "add"}
    <3>1. step.arg \in Rows
      BY <1>3, <2>1 DEF RowSteps
    <3>2. mem' = InsertRow(mem, step.arg) /\ disk' = disk
      BY <1>1, <2>1
    <3>3. mem' \in Heaps /\ Len(mem) <= Len(mem')
      BY <1>2, <3>1, <3>2, InsertIs
    <3>4. Len(mem') \in Nat
      BY <3>3 DEF Heaps
    <3> QED
      BY <1>2, <3>2, <3>3, <3>4
  <2>2. CASE step.kind = "delete"
    <3>1. mem' = DeleteId(mem, step.arg) /\ disk' = disk
      BY <1>1, <2>2
    <3> QED
      BY <1>2, <3>1, DeleteIs
  <2>3. CASE step.kind = "truncate"
    <3>1. mem' = <<>> /\ disk' = <<>>
      BY <1>1, <2>3
    <3> QED
      BY <3>1 DEF Heaps
  <2>4. step.kind \in {"insert", "add", "delete", "truncate"}
    BY <1>3 DEF RowSteps
  <2> QED
    BY <2>1, <2>2, <2>3, <2>4
<1>5. Typed'
  BY <1>1, <1>3, <1>4 DEF Inv, Typed
<1>6. Numbers'
  BY <1>1 DEF Inv, Numbers, Upto
<1>7. Pages'
  BY <1>1, <1>4 DEF Pages
<1>8. Recoverable' /\ Marked'
  BY <1>1, LogSame DEF Inv, Recoverable, Clean, Marked
<1> QED
  BY <1>5, <1>6, <1>7, <1>8 DEF Inv

LEMMA FlushPageInv ==
  ASSUME Inv, NEW p \in DOMAIN mem, FlushPage(p)
  PROVE  Inv'
<1>1. /\ pc \in {"apply", "replay", "sealed"} /\ Unwritten(p)
      /\ disk' = [PadTo(disk, p) EXCEPT ![p] = mem[p]]
      /\ UNCHANGED <<log, nextLsn, checkpoint, csn, published, mem, pageLsn, todo, steps, pc, strays, crashes>>
  BY DEF FlushPage, logVars, versionVars, work, counts, history
<1>2. mem \in Heaps /\ disk \in Heaps /\ Len(disk) <= Len(mem)
  BY <1>1 DEF Inv, Typed, Pages
<1>3. disk' \in Heaps /\ Len(disk') <= Len(mem)
  BY <1>1, <1>2, WritePage
<1>4. Typed'
  BY <1>1, <1>3 DEF Inv, Typed
<1>5. Numbers'
  BY <1>1 DEF Inv, Numbers, Upto
<1>6. Pages'
  BY <1>1, <1>3 DEF Pages
<1>7. Recoverable'
  <2>1. disk # mem
    BY <1>1 DEF Unwritten
  <2>2. pc = "sealed" => ~ Uncommitted
    BY <2>1 DEF Inv, Recoverable
  <2> QED
    BY <1>1, <2>2, LogSame DEF Inv, Recoverable, Clean
<1>8. Marked'
  BY <1>1, LogSame DEF Inv, Marked
<1> QED
  BY <1>4, <1>5, <1>6, <1>7, <1>8 DEF Inv

LEMMA PublishInv ==
  ASSUME Inv, PublishMvcc
  PROVE  Inv'
<1>1. /\ pc \in {"apply", "replay"} /\ Flushed
      /\ csn' = pageLsn /\ published' = Contents(mem) /\ pc' = "checkpoint"
      /\ UNCHANGED <<log, nextLsn, checkpoint, disk, mem, pageLsn, todo, steps, strays, crashes>>
  BY DEF PublishMvcc, Applied, logVars, work, counts, history
<1>2. Len(disk) <= Len(mem) /\ Typed /\ Numbers
  BY <1>1 DEF Inv, Pages
<1>3. disk = mem
  BY <1>1, <1>2, FlushedIs
<1>4. Typed'
  BY <1>1, <1>2 DEF Typed
<1>5. Numbers'
  <2>1. checkpoint \in Nat /\ pageLsn \in Nat /\ nextLsn \in Nat
    BY <1>2 DEF Typed
  <2>2. /\ checkpoint < pageLsn /\ (nextLsn # 0 => pageLsn < nextLsn) /\ Ordered(log)
        /\ strays # "redone" => Upto(pageLsn)
    BY <1>1, <1>2 DEF Numbers
  <2>3. checkpoint <= pageLsn /\ pageLsn <= pageLsn
    BY <2>1, <2>2
  <2> QED
    BY <1>1, <1>2, <2>2, <2>3 DEF Numbers, Upto
<1>6. Pages'
  BY <1>1, <1>2, <1>3 DEF Pages
<1>7. Recoverable'
  BY <1>1, LogSame DEF Inv, Recoverable, Clean
<1>8. Marked'
  BY <1>1, LogSame DEF Inv, Marked
<1> QED
  BY <1>4, <1>5, <1>6, <1>7, <1>8 DEF Inv

LEMMA CheckpointInv ==
  ASSUME Inv, WriteCheckpoint
  PROVE  Inv'
<1>1. /\ pc = "checkpoint" /\ checkpoint' = pageLsn /\ pc' = "truncate"
      /\ UNCHANGED <<log, nextLsn, csn, published, disk, mem, pageLsn, todo, steps, strays, crashes>>
  BY DEF WriteCheckpoint, versionVars, work, counts, history
<1>2. Typed'
  BY <1>1 DEF Inv, Typed
<1>3. Numbers'
  <2>1. /\ csn = pageLsn /\ (strays # "redone" => Upto(pageLsn)) /\ csn \in Nat /\ Ordered(log)
        /\ nextLsn # 0 => csn < nextLsn /\ \A i \in DOMAIN log : log[i].lsn < nextLsn
    BY <1>1 DEF Inv, Numbers, Typed
  <2>2. csn <= csn
    BY <2>1
  <2> QED
    BY <1>1, <2>1, <2>2 DEF Numbers, Upto
<1>4. Pages'
  BY <1>1 DEF Inv, Pages
<1>5. Recoverable' /\ Marked'
  BY <1>1 DEF Recoverable, Marked
<1> QED
  BY <1>2, <1>3, <1>4, <1>5 DEF Inv

LEMMA TruncateInv ==
  ASSUME Inv, TruncateBefore
  PROVE  Inv' /\ Len(log') <= Len(log)
<1>1. /\ pc = "truncate" /\ log' = RecordsAfter(log, pageLsn) /\ pc' = "ready" /\ strays' = NoStray
      /\ UNCHANGED <<nextLsn, checkpoint, csn, published, disk, mem, pageLsn, todo, steps, crashes>>
  BY DEF TruncateBefore, Serve, versionVars, work, counts
<1>2. /\ log \in Seq(LogFrames) /\ pageLsn \in Nat /\ nextLsn \in Nat /\ Ordered(log)
      /\ strays # "redone" => Upto(pageLsn)
      /\ nextLsn # 0 => \A i \in DOMAIN log : log[i].lsn < nextLsn
  BY <1>1 DEF Inv, Typed, Numbers
<1>3. /\ log' \in Seq(LogFrames) /\ Ordered(log') /\ Len(log') <= Len(log)
      /\ \A i \in DOMAIN log' : \E j \in DOMAIN log : log'[i] = log[j]
  BY <1>1, <1>2, RecordsAre
<1>4. strays # "redone" => log' = <<>>
  <2> SUFFICES ASSUME Upto(pageLsn) PROVE log' = <<>>
    BY <1>2
  <2>1. \A i \in DOMAIN log : log[i].lsn \in Nat
    <3>1. \A i \in DOMAIN log : log[i] \in LogFrames
      BY <1>2
    <3> QED
      BY <3>1 DEF LogFrames
  <2>2. \A i \in DOMAIN log : ~ (log[i].lsn > pageLsn)
    BY <1>2, <2>1 DEF Upto
  <2> QED
    BY <1>1, <1>2, <2>2, AfterNone
<1>5. Typed'
  BY <1>1, <1>3 DEF Inv, Typed, NoStray
<1>6. Numbers'
  <2>1. nextLsn # 0 => \A i \in DOMAIN log' : log'[i].lsn < nextLsn
    BY <1>2, <1>3
  <2> QED
    BY <1>1, <1>3, <2>1 DEF Inv, Numbers
<1>7. Pages'
  BY <1>1 DEF Inv, Pages
<1>8. Recoverable' /\ Marked'
  <2>1. Clean' => strays # "redone"
    BY <1>1 DEF Clean, NoStray
  <2>2. DOMAIN <<>> = {}
    OBVIOUS
  <2> QED
    BY <1>1, <1>4, <2>1, <2>2 DEF Recoverable, Marked, Upto
<1> QED
  BY <1>3, <1>5, <1>6, <1>7, <1>8 DEF Inv

\* With no frame after the checkpoint there is nothing to redo.
LEMMA NothingPending ==
  ASSUME Typed, Upto(checkpoint)
  PROVE  Pending = <<>> /\ Uncommitted
<1>1. log \in Seq(LogFrames) /\ checkpoint \in Nat
  BY DEF Typed
<1>2. \A i \in DOMAIN log : ~ (log[i].lsn > checkpoint)
  <2>1. \A i \in DOMAIN log : log[i] \in LogFrames
    BY <1>1
  <2>2. \A i \in DOMAIN log : log[i].lsn \in Nat
    BY <2>1 DEF LogFrames
  <2> QED
    BY <1>1, <2>2 DEF Upto
<1>3. Pending = <<>>
  BY <1>1, <1>2, AfterNone DEF Pending
<1>4. CommittedOps(<<>>) = <<>>
  <2>1. <<>> \in Seq(LogFrames) /\ DOMAIN <<>> = {} /\ Len(<<>>) = 0
    OBVIOUS
  <2>2. Commits(<<>>) = {}
    BY <2>1 DEF Commits
  <2>3. MaxOf({}, 0) = 0
    BY DEF MaxOf
  <2>4. Select(<<>>, 1 .. 0 \ {}) = <<>>
    BY <2>1, SelectNone
  <2>5. SubSeq(<<>>, 0 + 1, 0) = <<>>
    OBVIOUS
  <2>6. <<>> \o <<>> = <<>>
    OBVIOUS
  <2> QED
    BY <2>1, <2>2, <2>3, <2>4, <2>5, <2>6 DEF CommittedOps
<1> QED
  BY <1>3, <1>4 DEF Uncommitted

\* What a crash leaves behind the frames of a failed append.
LEMMA StopShows ==
  ASSUME Inv, pc \notin {"down", "refused"}, UNCHANGED <<log, checkpoint, csn>>
  PROVE  strays = "logged" => Shows(csn)'
<1> SUFFICES ASSUME strays = "logged" PROVE Shows(csn)
  BY DEF Shows
<1>1. csn \in Nat /\ checkpoint \in Nat /\ pageLsn \in Nat /\ log \in Seq(LogFrames)
  BY DEF Inv, Typed
<1>2. CASE pc \in {"ready", "truncate"}
  <2>1. csn = checkpoint
    BY <1>2 DEF Inv, Numbers
  <2> QED
    BY <1>1, <2>1 DEF Shows
<1>3. CASE pc \in {"apply", "checkpoint"}
  <2>1. csn <= pageLsn /\ Shows(pageLsn)
    BY <1>3 DEF Inv, Numbers, Marked
  <2>2. \A i \in Commits(log) : log[i].lsn \in Nat
    <3>1. \A i \in DOMAIN log : log[i] \in LogFrames
      BY <1>1
    <3> QED
      BY <3>1 DEF LogFrames, Commits
  <2>3. CASE pageLsn <= checkpoint
    BY <1>1, <2>1, <2>3 DEF Shows
  <2>4. ASSUME NEW i \in Commits(log), pageLsn <= log[i].lsn PROVE Shows(csn)
    <3>1. csn <= log[i].lsn
      BY <1>1, <2>1, <2>2, <2>4
    <3> QED
      BY <3>1 DEF Shows
  <2> QED
    BY <2>1, <2>3, <2>4 DEF Shows
<1>4. CASE pc = "sealed"
  BY <1>4 DEF Inv, Marked
<1>5. pc \in {"ready", "truncate", "apply", "checkpoint", "sealed"}
  BY DEF Inv, Typed, Marked
<1> QED
  BY <1>2, <1>3, <1>4, <1>5

LEMMA IoErrorInv ==
  ASSUME Inv, IoError
  PROVE  Inv'
<1>1. /\ pc \in {"apply", "replay", "checkpoint", "truncate"} /\ crashes < MaxCrashes
      /\ pc' \in {"down", "sealed"} /\ crashes' = crashes + 1
      /\ UNCHANGED <<log, nextLsn, checkpoint, csn, published, disk, mem, pageLsn, todo, steps, strays>>
  BY DEF IoError, logVars, versionVars, work, history
<1>2. Typed'
  <2>1. crashes' \in 0 .. MaxCrashes
    BY <1>1, WalAssumption DEF Inv, Typed
  <2> QED
    BY <1>1, <2>1 DEF Inv, Typed
<1>3. Numbers'
  BY <1>1 DEF Inv, Numbers, Upto
<1>4. Pages'
  BY <1>1 DEF Inv, Pages
<1>5. Recoverable'
  <2>1. CASE pc = "truncate"
    <3>1. csn = checkpoint /\ (Clean => Upto(checkpoint))
      BY <2>1 DEF Inv, Numbers, Clean
    <3>2. Clean => Uncommitted
      BY <3>1, NothingPending DEF Inv
    <3>3. disk = mem /\ published = Contents(mem)
      BY <2>1 DEF Inv, Pages
    <3>4. (Clean' => Uncommitted') /\ Settled' /\ disk' = mem'
      BY <1>1, <3>1, <3>2, <3>3, LogSame DEF Settled, Clean
    <3> QED
      BY <1>1, <3>4 DEF Recoverable
  <2>2. CASE pc # "truncate"
    <3>1. ~ Uncommitted /\ (Clean => Redoable)
      BY <1>1, <2>2 DEF Inv, Recoverable
    <3>2. ~ Uncommitted' /\ (Clean' => Redoable')
      BY <1>1, <3>1, LogSame DEF Clean
    <3> QED
      BY <1>1, <3>2 DEF Recoverable
  <2> QED
    BY <2>1, <2>2
<1>6. Marked'
  BY <1>1, StopShows DEF Marked
<1> QED
  BY <1>2, <1>3, <1>4, <1>5, <1>6 DEF Inv

LEMMA CrashInv ==
  ASSUME Inv, Crash
  PROVE  Inv'
<1>1. /\ pc \notin {"down", "refused"}
      /\ crashes < MaxCrashes \/ pc = "sealed"
      /\ crashes' = IF pc = "sealed" THEN crashes ELSE crashes + 1
      /\ mem' = <<>> /\ pc' = "down"
      /\ UNCHANGED <<log, nextLsn, checkpoint, csn, published, disk, pageLsn, todo, steps, strays>>
  BY DEF Crash, logVars, versionVars, work, history
<1>2. Typed'
  <2>1. crashes' \in 0 .. MaxCrashes
    BY <1>1, WalAssumption DEF Inv, Typed
  <2>2. mem' \in Heaps
    BY <1>1 DEF Heaps
  <2> QED
    BY <1>1, <2>1, <2>2 DEF Inv, Typed
<1>3. Numbers'
  BY <1>1 DEF Inv, Numbers, Upto
<1>4. Pages'
  BY <1>1 DEF Pages
<1>5. IF Uncommitted THEN Settled ELSE Clean => Redoable
  <2>1. CASE pc \in {"ready", "truncate"}
    <3>1. csn = checkpoint /\ (Clean => Upto(checkpoint))
      BY <1>1, <2>1 DEF Inv, Numbers, Recoverable, Clean
    <3>2. Clean => Uncommitted
      BY <3>1, NothingPending DEF Inv
    <3>3. disk = mem /\ published = Contents(mem)
      BY <2>1 DEF Inv, Pages
    <3> QED
      BY <3>1, <3>2, <3>3 DEF Settled
  <2>2. CASE pc \in {"apply", "replay", "checkpoint"}
    BY <1>1, <2>2 DEF Inv, Recoverable
  <2>3. CASE pc = "sealed"
    BY <2>3 DEF Inv, Recoverable
  <2>4. pc \in {"ready", "truncate", "apply", "replay", "checkpoint", "sealed"}
    BY <1>1 DEF Inv, Typed
  <2> QED
    BY <2>1, <2>2, <2>3, <2>4
<1>6. Recoverable'
  <2>1. IF Uncommitted' THEN Settled' ELSE Clean' => Redoable'
    BY <1>1, <1>5, LogSame DEF Settled, Clean
  <2> QED
    BY <1>1, <2>1 DEF Recoverable
<1>7. Marked'
  BY <1>1, StopShows DEF Marked
<1> QED
  BY <1>2, <1>3, <1>4, <1>6, <1>7 DEF Inv

LEMMA RefuseOpenInv ==
  ASSUME Inv, RefuseOpen
  PROVE  Inv'
<1>1. /\ mem' = disk /\ nextLsn' = 0 /\ pc' = "refused"
      /\ UNCHANGED <<log, checkpoint, csn, published, disk, pageLsn, todo, steps, strays, crashes>>
  BY DEF RefuseOpen, Reopen, versionVars, work, counts, history
<1>2. Typed'
  BY <1>1 DEF Inv, Typed
<1>3. Numbers'
  BY <1>1 DEF Inv, Numbers
<1>4. Pages' /\ Recoverable' /\ Marked'
  BY <1>1 DEF Pages, Recoverable, Marked
<1> QED
  BY <1>2, <1>3, <1>4 DEF Inv

LEMMA DiscardInv ==
  ASSUME Inv, Discard
  PROVE  Inv'
<1>1. /\ pc = "down" /\ mem' = disk /\ nextLsn' = 0 /\ pc' = "ready"
      /\ log' = RecordsUpTo(log, checkpoint) /\ strays' = NoStray
      /\ UNCHANGED <<checkpoint, csn, published, disk, pageLsn, todo, steps, crashes>>
  BY DEF Discard, Reopen, Serve, versionVars, work, counts, history
<1>2. Settled
  <2>1. Uncommitted
    BY DEF Discard, Uncommitted, Pending
  <2> QED
    BY <1>1, <2>1 DEF Inv, Recoverable
<1>3. log' \in Seq(LogFrames) /\ Upto(checkpoint)' /\ Ordered(log')
  <2>1. log \in Seq(LogFrames) /\ checkpoint \in Nat /\ Ordered(log)
    BY DEF Inv, Typed, Numbers
  <2>2. /\ RecordsUpTo(log, checkpoint) \in Seq(LogFrames) /\ Ordered(RecordsUpTo(log, checkpoint))
        /\ \A i \in DOMAIN RecordsUpTo(log, checkpoint) :
             RecordsUpTo(log, checkpoint)[i].lsn <= checkpoint
    BY <2>1, RecordsAre
  <2> QED
    BY <1>1, <2>2 DEF Upto
<1>4. Typed'
  BY <1>1, <1>3 DEF Inv, Typed, NoStray
<1>5. Numbers'
  BY <1>1, <1>2, <1>3 DEF Inv, Numbers, Settled
<1>6. Pages'
  <2>1. Len(disk) <= Len(disk)
    <3>1. Len(disk) \in Nat
      BY DEF Inv, Typed, Heaps
    <3> QED
      BY <3>1
  <2> QED
    BY <1>1, <1>2, <2>1 DEF Pages, Settled
<1>7. Recoverable' /\ Marked'
  BY <1>1, <1>3 DEF Recoverable, Marked
<1> QED
  BY <1>4, <1>5, <1>6, <1>7 DEF Inv

\* What recovery completes is above the checkpoint, and no published version is above it.
LEMMA ReplayLsnIs ==
  ASSUME Typed, Ordered(log), ~ Uncommitted
  PROVE  /\ ReplayLsn(Pending) \in Nat /\ checkpoint < ReplayLsn(Pending)
         /\ ~ Ahead => csn <= ReplayLsn(Pending)
<1> DEFINE n == ReplayLsn(Pending)
           S == {checkpoint} \cup {log[i].lsn : i \in Commits(log)}
<1>1. log \in Seq(LogFrames) /\ checkpoint \in Nat /\ csn \in Nat
  BY DEF Typed
<1>2. /\ Pending \in Seq(LogFrames) /\ Ordered(Pending)
      /\ \A i \in DOMAIN Pending : Pending[i].lsn > checkpoint
      /\ \A i \in DOMAIN log : log[i].lsn > checkpoint => \E j \in DOMAIN Pending : Pending[j] = log[i]
  <2> DEFINE r == RecordsAfter(log, checkpoint)
  <2>1. r \in Seq(LogFrames) /\ (Ordered(log) => Ordered(r))
    BY <1>1, RecordsAre
  <2>2. \A i \in DOMAIN r : r[i].lsn > checkpoint
    BY <1>1, RecordsAre
  <2>3. \A i \in DOMAIN log : log[i].lsn > checkpoint => \E j \in DOMAIN r : r[j] = log[i]
    <3> SUFFICES ASSUME NEW i \in DOMAIN log, log[i].lsn > checkpoint
                 PROVE  \E j \in DOMAIN r : r[j] = log[i]
      OBVIOUS
    <3> QED
      BY <1>1, RecordFound
  <2> QED
    BY <2>1, <2>2, <2>3 DEF Pending
<1>3. \A i \in DOMAIN Pending : Pending[i].lsn \in Nat
  <2>1. \A i \in DOMAIN Pending : Pending[i] \in LogFrames
    BY <1>2
  <2> QED
    BY <2>1 DEF LogFrames
<1>4. \A i \in DOMAIN log : log[i].lsn \in Nat
  <2>1. \A i \in DOMAIN log : log[i] \in LogFrames
    BY <1>1
  <2> QED
    BY <2>1 DEF LogFrames
<1>5. /\ \E i \in DOMAIN Pending : n = Pending[i].lsn
      /\ \A j \in Commits(Pending) : Pending[j].lsn <= n
  <2>1. CommittedOps(Pending) # <<>>
    BY DEF Uncommitted
  <2>2. CASE Commits(Pending) = {} /\ Len(Pending) = 1 /\ n = Pending[1].lsn
    <3>1. 1 \in DOMAIN Pending
      BY <1>2, <2>2
    <3> QED
      BY <2>2, <3>1
  <2>3. ASSUME NEW i \in Commits(Pending), n = Pending[i].lsn, \A j \in Commits(Pending) : j <= i
        PROVE  /\ i \in DOMAIN Pending
               /\ \A j \in Commits(Pending) : Pending[j].lsn <= n
    <3>1. i \in DOMAIN Pending /\ i \in Nat
      BY <1>2 DEF Commits
    <3>2. ASSUME NEW j \in Commits(Pending) PROVE Pending[j].lsn <= n
      <4>1. j \in DOMAIN Pending /\ j \in Nat /\ j <= i
        BY <1>2, <2>3 DEF Commits
      <4>2. j = i \/ j < i
        BY <3>1, <4>1
      <4>3. j = i \/ Pending[j].lsn < Pending[i].lsn
        BY <1>2, <3>1, <4>1, <4>2 DEF Ordered
      <4> HIDE DEF n
      <4> QED
        BY <1>3, <2>3, <3>1, <4>1, <4>3
    <3> QED
      BY <3>1, <3>2
  <2> HIDE DEF n
  <2>4. \/ Commits(Pending) = {} /\ Len(Pending) = 1 /\ n = Pending[1].lsn
        \/ \E i \in Commits(Pending) :
             n = Pending[i].lsn /\ \A j \in Commits(Pending) : j <= i
    BY <1>2, <2>1, ReplayRecord DEF n
  <2> QED
    BY <2>2, <2>3, <2>4
<1> HIDE DEF n
<1>6. n \in Nat /\ checkpoint < n
  BY <1>1, <1>2, <1>3, <1>5
<1>7. S \in SUBSET Nat /\ checkpoint \in S /\ \A s \in S : s <= n
  <2>1. ASSUME NEW i \in Commits(log) PROVE log[i].lsn <= n /\ log[i].lsn \in Nat
    <3>1. i \in DOMAIN log /\ log[i].op = Commit /\ log[i].lsn \in Nat
      BY <1>4 DEF Commits
    <3>2. CASE log[i].lsn > checkpoint
      <4>1. PICK j \in DOMAIN Pending : Pending[j] = log[i]
        BY <1>2, <3>1, <3>2
      <4>2. j \in Commits(Pending)
        BY <3>1, <4>1 DEF Commits
      <4> QED
        BY <1>5, <3>1, <4>1, <4>2
    <3>3. CASE ~ (log[i].lsn > checkpoint)
      BY <1>1, <1>6, <3>1, <3>3
    <3> QED
      BY <3>2, <3>3
  <2>2. checkpoint <= n
    BY <1>1, <1>6
  <2> QED
    BY <1>1, <2>1, <2>2
<1>8. Ahead <=> csn > MaxOf(S, 0)
  BY DEF Ahead
<1> HIDE DEF S
<1>9. MaxOf(S, 0) \in S
  BY <1>6, <1>7, MaxIs
<1>10. ~ Ahead => csn <= n
  <2>1. MaxOf(S, 0) \in Nat /\ MaxOf(S, 0) <= n
    BY <1>7, <1>9
  <2> QED
    BY <1>1, <1>6, <1>8, <2>1
<1> QED
  BY <1>6, <1>10 DEF n

LEMMA StartReplayInv ==
  ASSUME Inv, StartReplay
  PROVE  Inv'
<1> DEFINE records == CommittedOps(Pending)
<1>1. /\ pc = "down" /\ ~ Ahead /\ mem' = disk /\ nextLsn' = 0 /\ pc' = "replay"
      /\ pageLsn' = ReplayLsn(Pending) /\ steps' = <<>>
      /\ todo' = [i \in DOMAIN records |-> records[i].op]
      /\ strays' = IF strays = "logged" THEN "redone" ELSE strays
      /\ UNCHANGED <<log, checkpoint, csn, published, disk, crashes>>
  BY DEF StartReplay, Reopen, Pending, versionVars, counts
<1>2. ~ Uncommitted
  BY DEF StartReplay, Uncommitted, Pending
<1>3. Clean => Redoable
  BY <1>1, <1>2 DEF Inv, Recoverable
<1>4. /\ ReplayLsn(Pending) \in Nat /\ checkpoint < ReplayLsn(Pending) /\ csn <= ReplayLsn(Pending)
      /\ Ordered(log)
  BY <1>1, <1>2, ReplayLsnIs DEF Inv, Numbers
<1>10. strays' # "logged" /\ (strays' # "redone" => Clean) /\ (Clean' => Clean)
  BY <1>1 DEF Inv, Typed, Clean
<1>5. todo' \in Seq(Operations)
  <2>1. log \in Seq(LogFrames) /\ checkpoint \in Nat
    BY DEF Inv, Typed
  <2>2. Pending \in Seq(LogFrames)
    BY <2>1, RecordsAre DEF Pending
  <2>3. records \in Seq(LogFrames) /\ \A i \in DOMAIN records : records[i].op # Commit
    BY <2>2, CommittedAre
  <2> HIDE DEF records
  <2>4. \A i \in DOMAIN records : records[i] \in LogFrames
    BY <2>3
  <2>5. \A i \in DOMAIN records : records[i].op \in Operations
    BY <2>3, <2>4 DEF LogFrames
  <2>6. DOMAIN records = 1 .. Len(records) /\ Len(records) \in Nat
    BY <2>3
  <2> QED
    BY <1>1, <2>5, <2>6
<1>6. Typed'
  <2>1. steps' \in Seq(RowSteps)
    BY <1>1
  <2> QED
    BY <1>1, <1>4, <1>5, <2>1 DEF Inv, Typed
<1>7. Numbers'
  <2>1. (strays' # "redone" => Upto(pageLsn)') /\ checkpoint' < pageLsn'
    BY <1>1, <1>3, <1>4, <1>10 DEF Redoable, Upto
  <2> QED
    BY <1>1, <1>4, <2>1 DEF Inv, Numbers
<1>8. Pages'
  <2>1. Len(disk) <= Len(disk)
    <3>1. Len(disk) \in Nat
      BY DEF Inv, Typed, Heaps
    <3> QED
      BY <3>1
  <2> QED
    BY <1>1, <2>1 DEF Pages
<1>9. Recoverable' /\ Marked'
  BY <1>1, <1>2, <1>3, <1>10, LogSame DEF Recoverable, Marked
<1> QED
  BY <1>6, <1>7, <1>8, <1>9 DEF Inv

LEMMA InitInv == Init => Inv
<1> SUFFICES ASSUME Init PROVE Inv
  OBVIOUS
<1>1. /\ log = <<>> /\ nextLsn = 0 /\ checkpoint = 0 /\ csn = 0 /\ pageLsn = 0
      /\ disk = InitPages /\ mem = InitPages /\ published = Contents(InitPages)
      /\ todo = <<>> /\ steps = <<>> /\ pc = "ready" /\ strays = "none" /\ crashes = 0
  BY DEF Init
<1>2. InitPages \in Heaps /\ MaxCrashes \in Nat
  BY WalAssumption DEF Heaps
<1>3. Typed
  <2>1. log \in Seq(LogFrames) /\ todo \in Seq(Operations) /\ steps \in Seq(RowSteps)
    BY <1>1
  <2>2. crashes \in 0 .. MaxCrashes
    BY <1>1, <1>2
  <2> QED
    BY <1>1, <1>2, <2>1, <2>2 DEF Typed
<1>4. Upto(checkpoint)
  BY <1>1 DEF Upto
<1>5. Numbers
  BY <1>1, <1>4 DEF Numbers, Ordered
<1>6. Pages
  <2>1. Len(InitPages) \in Nat
    BY <1>2 DEF Heaps
  <2>2. Len(InitPages) <= Len(InitPages)
    BY <2>1
  <2> QED
    BY <1>1, <2>2 DEF Pages
<1>7. Recoverable /\ Marked
  BY <1>1, <1>4 DEF Recoverable, Marked
<1> QED
  BY <1>3, <1>5, <1>6, <1>7 DEF Inv

LEMMA StutterInv ==
  ASSUME Inv, UNCHANGED vars
  PROVE  Inv'
<1>1. UNCHANGED <<log, nextLsn, checkpoint, csn, published, disk, mem, pageLsn, todo, steps, pc, strays, crashes>>
  BY DEF vars, logVars, versionVars, work, counts, history
<1>2. Typed'
  BY <1>1 DEF Inv, Typed
<1>3. Numbers'
  BY <1>1 DEF Inv, Numbers, Upto
<1>4. Pages'
  BY <1>1 DEF Inv, Pages
<1>5. Recoverable' /\ Marked'
  BY <1>1, LogSame DEF Inv, Recoverable, Settled, Upto, Clean, Marked
<1> QED
  BY <1>2, <1>3, <1>4, <1>5 DEF Inv

LEMMA NextInv ==
  ASSUME Inv, [Next]_vars
  PROVE  Inv'
<1>1. ASSUME NEW ops \in Groups, AppendGroup(ops) \/ AppendCrash(ops) \/ AppendError(ops)
      PROVE  Inv'
  BY <1>1, AppendGroupInv, AppendCrashInv, AppendErrorInv
<1>2. CASE ApplyOp \/ ReplayOp
  BY <1>2, TakeUpInv
<1>3. CASE RowStep \/ RefuseReplay
  BY <1>3, RowStepInv, RefuseReplayInv
<1>4. ASSUME NEW p \in DOMAIN mem, FlushPage(p) PROVE Inv'
  BY <1>4, FlushPageInv
<1>5. CASE PublishMvcc \/ WriteCheckpoint \/ TruncateBefore
  BY <1>5, PublishInv, CheckpointInv, TruncateInv
<1>6. CASE IoError \/ Crash
  BY <1>6, IoErrorInv, CrashInv
<1>7. CASE RefuseOpen \/ Discard \/ StartReplay
  BY <1>7, RefuseOpenInv, DiscardInv, StartReplayInv
<1>8. CASE Done \/ UNCHANGED vars
  BY <1>8, StutterInv DEF Done
<1> QED
  BY <1>1, <1>2, <1>3, <1>4, <1>5, <1>6, <1>7, <1>8 DEF Next

LEMMA Inductive == Spec => []Inv
<1>1. Inv /\ [Next]_vars => Inv'
  BY NextInv
<1> QED
  BY <1>1, InitInv, PTL DEF Spec

(***************************************************************************)
(* In step, and numbers that grow: the theorems.                           *)
(***************************************************************************)

\* Whatever crashes, write errors and recoveries came before, a database that
\* group_via_wal() or recover_wal() lets serve has its newest version at the
\* checkpoint, the version, the cached pages and the data file hold the same
\* rows, and there is nothing left to redo, unless an append failed before.
THEOREM InStepHolds == Spec => []InStep
<1>1. Inv => InStep
  <2> SUFFICES ASSUME Inv, pc = "ready" PROVE
        /\ strays = "none" => RecordsAfter(log, checkpoint) = <<>>
        /\ csn = checkpoint /\ published = Contents(mem) /\ Flushed
    BY DEF InStep
  <2>1. strays = "none" => RecordsAfter(log, checkpoint) = <<>>
    <3>1. strays = "none" => Upto(checkpoint)
      BY DEF Inv, Recoverable, Clean
    <3> QED
      BY <3>1, NothingPending DEF Inv, Pending
  <2>2. csn = checkpoint /\ published = Contents(mem) /\ disk = mem
    BY DEF Inv, Numbers, Pages
  <2>3. Flushed
    BY <2>2 DEF Flushed, Unwritten
  <2> QED
    BY <2>1, <2>2, <2>3
<1> QED
  BY <1>1, Inductive, PTL

\* A frame that take_lsn() numbers is above every published version.
LEMMA AppendAbove ==
  ASSUME Inv, NEW ops \in Groups, AppendGroup(ops) \/ AppendCrash(ops) \/ AppendError(ops)
  PROVE  /\ UNCHANGED <<csn, checkpoint>>
         /\ \A i \in (Len(log) + 1) .. Len(log') : log'[i].lsn > csn
<1>1. Submit(ops)
  BY DEF AppendGroup, AppendCrash, AppendError
<1>2. UNCHANGED <<csn, checkpoint>> /\ pc = "ready"
  BY <1>1 DEF Submit, versionVars
<1>3. PICK k \in 0 .. Len(ops) + 1 : log' = log \o SubSeq(Frames(ops), 1, k)
  <2>1. CASE AppendGroup(ops)
    <3>1. Len(ops) \in Nat
      BY GroupIs
    <3>2. Len(ops) + 1 \in 0 .. Len(ops) + 1
      BY <3>1
    <3>3. SubSeq(Frames(ops), 1, Len(ops) + 1) = Frames(ops)
      BY <3>2, CutGroup DEF Inv
    <3> QED
      BY <2>1, <3>2, <3>3 DEF AppendGroup
  <2>2. CASE AppendCrash(ops) \/ AppendError(ops)
    BY <2>2 DEF AppendCrash, AppendError
  <2> QED
    BY <2>1, <2>2
<1> DEFINE f == SubSeq(Frames(ops), 1, k)
<1>4. f \in Seq(LogFrames)
  BY CutGroup DEF Inv
<1>5. \A i \in DOMAIN f : csn < f[i].lsn
  BY <1>2, FramesAbove DEF Inv
<1>6. log \in Seq(LogFrames) /\ csn \in Nat
  BY DEF Inv, Typed
<1>7. log' = log \o f
  BY <1>3
<1> HIDE DEF f
<1>8. ASSUME NEW i \in (Len(log) + 1) .. Len(log') PROVE log'[i].lsn > csn
  <2>1. /\ Len(log') = Len(log) + Len(f) /\ Len(log) \in Nat /\ Len(f) \in Nat
        /\ DOMAIN f = 1 .. Len(f)
    BY <1>4, <1>6, <1>7
  <2>2. i - Len(log) \in DOMAIN f
    BY <2>1
  <2>3. log'[i] = f[i - Len(log)]
    BY <1>4, <1>6, <1>7, <2>1, <2>2
  <2>4. f[i - Len(log)] \in LogFrames
    BY <1>4, <2>2
  <2>5. f[i - Len(log)].lsn \in Nat
    BY <2>4 DEF LogFrames
  <2> QED
    BY <1>5, <1>6, <2>2, <2>3, <2>5
<1> QED
  BY <1>2, <1>8

\* A step of the other actions adds no frame, and turns no number back.
LEMMA StepGrows ==
  ASSUME Inv, [Next]_vars
  PROVE  /\ csn' >= csn /\ checkpoint' >= checkpoint
         /\ Len(log') > Len(log) => \A i \in (Len(log) + 1) .. Len(log') : log'[i].lsn > csn
<1>1. /\ csn \in Nat /\ checkpoint \in Nat /\ pageLsn \in Nat
      /\ log \in Seq(LogFrames)
  BY DEF Inv, Typed
<1>2. Len(log) \in Nat
  BY <1>1
<1>3. ASSUME NEW ops \in Groups, AppendGroup(ops) \/ AppendCrash(ops) \/ AppendError(ops)
      PROVE  /\ csn' >= csn /\ checkpoint' >= checkpoint
             /\ \A i \in (Len(log) + 1) .. Len(log') : log'[i].lsn > csn
  <2>1. /\ csn' = csn /\ checkpoint' = checkpoint
        /\ \A i \in (Len(log) + 1) .. Len(log') : log'[i].lsn > csn
    BY <1>3, AppendAbove
  <2> QED
    BY <1>1, <2>1
<1>4. ASSUME UNCHANGED <<log, csn, checkpoint>>
      PROVE  csn' >= csn /\ checkpoint' >= checkpoint /\ ~ (Len(log') > Len(log))
  BY <1>1, <1>2, <1>4
<1>5. CASE PublishMvcc
  <2>1. csn <= pageLsn
    BY <1>5 DEF PublishMvcc, Applied, Inv, Numbers
  <2>2. csn' = pageLsn /\ checkpoint' = checkpoint /\ log' = log
    BY <1>5 DEF PublishMvcc, logVars
  <2> QED
    BY <1>1, <1>2, <2>1, <2>2
<1>6. CASE WriteCheckpoint
  <2>1. checkpoint < pageLsn
    BY <1>6 DEF WriteCheckpoint, Inv, Numbers
  <2>2. checkpoint' = pageLsn /\ csn' = csn /\ log' = log
    BY <1>6 DEF WriteCheckpoint, versionVars
  <2> QED
    BY <1>1, <1>2, <2>1, <2>2
<1>7. CASE TruncateBefore
  <2>1. Len(log') <= Len(log) /\ log' \in Seq(LogFrames)
    BY <1>7, TruncateInv DEF Inv, Typed
  <2>2. Len(log') \in Nat /\ Len(log') <= Len(log)
    BY <2>1
  <2>3. csn' = csn /\ checkpoint' = checkpoint
    BY <1>7 DEF TruncateBefore, versionVars
  <2> QED
    BY <1>1, <1>2, <2>2, <2>3
<1>8. CASE Discard
  <2>1. log' = RecordsUpTo(log, checkpoint) /\ csn' = csn /\ checkpoint' = checkpoint
    BY <1>8 DEF Discard, Reopen, versionVars
  <2>2. RecordsUpTo(log, checkpoint) \in Seq(LogFrames) /\ Len(RecordsUpTo(log, checkpoint)) <= Len(log)
    BY <1>1, RecordsAre
  <2>3. Len(log') \in Nat /\ Len(log') <= Len(log)
    BY <2>1, <2>2
  <2> QED
    BY <1>1, <1>2, <2>1, <2>3
<1>9. CASE \/ ApplyOp \/ RowStep \/ RefuseReplay \/ IoError \/ Crash \/ RefuseOpen
           \/ StartReplay \/ ReplayOp \/ Done \/ UNCHANGED vars
           \/ \E p \in DOMAIN mem : FlushPage(p)
  <2>1. UNCHANGED <<log, csn, checkpoint>>
    BY <1>9 DEF ApplyOp, RowStep, RefuseReplay, IoError, Crash, RefuseOpen, StartReplay,
                ReplayOp, Done, FlushPage, Reopen, vars, logVars, versionVars
  <2> QED
    BY <1>4, <2>1
<1> QED
  BY <1>3, <1>5, <1>6, <1>7, <1>8, <1>9 DEF Next

\* The log's numbers survive crashes, truncations and recoveries: versions and
\* checkpoint only grow, and no frame is ever written with a number a published
\* version has or had, so take_lsn() never lets a commit hide behind an old one.
THEOREM NumbersGrow == Spec => LsnNeverBack
<1>1. Inv /\ [Next]_vars =>
        [/\ csn' >= csn /\ checkpoint' >= checkpoint
         /\ Len(log') > Len(log) => \A i \in (Len(log) + 1)..Len(log') : log'[i].lsn > csn]_vars
  BY StepGrows
<1> QED
  BY <1>1, Inductive, PTL DEF Spec, LsnNeverBack

(***************************************************************************)
(* The second part: groups whole or not at all.  What the pages hold.      *)
(***************************************************************************)

\* No id is on a page twice.
OnceOn(page) == \A i, j \in DOMAIN page : page[i].id = page[j].id => i = j

\* The rows on page p, and the rows of a heap.
On(h, p) == ToSet(PageOf(h, p))
Held(h) == UNION {On(h, p) : p \in Nat}
HasId(h, id) == \E r \in Held(h) : r.id = id

\* Pages without an id twice, and no id on two pages.
Unique(h) ==
    /\ \A p \in Nat : OnceOn(PageOf(h, p))
    /\ \A p, q \in Nat : p < q => \A r \in On(h, p), s \in On(h, q) : r.id # s.id

Distinct(S) == \A r, s \in S : r.id = s.id => r = s
BagOf(S) == [r \in Rows |-> IF r \in S THEN 1 ELSE 0]
Keyed == \A r \in Rows : r.id # NoId

LEMMA PageIs ==
  ASSUME NEW h \in Heaps, NEW p
  PROVE  /\ PageOf(h, p) \in Seq(Rows) /\ On(h, p) \subseteq Rows
         /\ p \notin 1 .. Len(h) => On(h, p) = {} /\ PageOf(h, p) = <<>>
         /\ p \in 1 .. Len(h) => PageOf(h, p) = h[p]
<1>1. h \in Seq(Seq(Rows)) /\ DOMAIN h = 1 .. Len(h)
  BY DEF Heaps
<1>2. p \in DOMAIN h => h[p] \in Seq(Rows)
  BY <1>1
<1>3. <<>> \in Seq(Rows) /\ ToSet(<<>>) = {}
  BY DEF ToSet
<1>4. PageOf(h, p) \in Seq(Rows)
  BY <1>2, <1>3 DEF PageOf
<1>5. \A page \in Seq(Rows) : ToSet(page) \subseteq Rows
  BY DEF ToSet
<1> QED
  BY <1>1, <1>3, <1>4, <1>5 DEF PageOf, On

LEMMA HeldIs ==
  ASSUME NEW h \in Heaps
  PROVE  /\ Held(h) \subseteq Rows
         /\ \A p \in Nat : On(h, p) \subseteq Held(h)
         /\ \A r \in Held(h) : \E p \in 1 .. Len(h) : r \in On(h, p)
<1>1. \A p \in Nat : On(h, p) \subseteq Rows /\ (p \notin 1 .. Len(h) => On(h, p) = {})
  BY PageIs
<1> QED
  BY <1>1 DEF Held

\* An insertion puts the row on the last page or on a new one behind it.
LEMMA InsertOn ==
  ASSUME NEW h \in Heaps, NEW row \in Rows
  PROVE  LET k == InsertRow(h, row)
         IN  /\ k \in Heaps /\ Len(h) <= Len(k)
             /\ \E p \in Nat :
                  /\ p >= Len(h)
                  /\ On(k, p) = On(h, p) \cup {row}
                  /\ \A q \in Nat : q # p => PageOf(k, q) = PageOf(h, q)
                  /\ OnceOn(PageOf(h, p)) /\ (\A s \in On(h, p) : s.id # row.id)
                       => OnceOn(PageOf(k, p))
<1>1. h \in Seq(Seq(Rows)) /\ Len(h) \in Nat /\ DOMAIN h = 1 .. Len(h)
  BY DEF Heaps
<1> DEFINE k == InsertRow(h, row)
<1>2. k \in Heaps /\ Len(h) <= Len(k)
  BY InsertIs
<1>3. ASSUME NEW page \in Seq(Rows)
      PROVE  LET more == Append(page, row)
             IN  /\ ToSet(more) = ToSet(page) \cup {row}
                 /\ OnceOn(page) /\ (\A s \in ToSet(page) : s.id # row.id) => OnceOn(more)
  <2> DEFINE more == Append(page, row)
  <2>1. /\ DOMAIN page = 1 .. Len(page) /\ Len(page) \in Nat
        /\ DOMAIN more = 1 .. Len(page) + 1
        /\ \A i \in 1 .. Len(page) : more[i] = page[i]
        /\ more[Len(page) + 1] = row
    OBVIOUS
  <2> HIDE DEF more
  <2>2. \A i \in DOMAIN more : i \in DOMAIN page \/ i = Len(page) + 1
    BY <2>1
  <2>3. ToSet(more) = ToSet(page) \cup {row}
    <3>1. \A i \in DOMAIN more : more[i] \in ToSet(page) \cup {row}
      BY <2>1, <2>2 DEF ToSet
    <3>2. \A i \in DOMAIN page : page[i] \in ToSet(more)
      <4>1. \A i \in DOMAIN page : i \in DOMAIN more /\ more[i] = page[i]
        BY <2>1
      <4> QED
        BY <4>1 DEF ToSet
    <3>3. row \in ToSet(more)
      <4>1. Len(page) + 1 \in DOMAIN more
        BY <2>1
      <4> QED
        BY <2>1, <4>1 DEF ToSet
    <3> QED
      BY <3>1, <3>2, <3>3 DEF ToSet
  <2>4. ASSUME OnceOn(page), \A s \in ToSet(page) : s.id # row.id PROVE OnceOn(more)
    <3> SUFFICES ASSUME NEW i \in DOMAIN more, NEW j \in DOMAIN more, more[i].id = more[j].id
                 PROVE  i = j
      BY DEF OnceOn
    <3>1. \A n \in DOMAIN page : page[n].id # row.id
      BY <2>4 DEF ToSet
    <3> QED
      BY <2>1, <2>2, <2>4, <3>1 DEF OnceOn
  <2> QED
    BY <2>3, <2>4 DEF more
<1>4. CASE h # <<>> /\ Len(Last(h)) < RowsPerPage
  <2> DEFINE p == Len(h)
  <2>1. p \in DOMAIN h /\ p \in Nat
    BY <1>1, <1>4
  <2>2. k = [h EXCEPT ![p] = Append(h[p], row)]
    BY <1>4 DEF InsertRow
  <2> HIDE DEF k
  <2>3. PageOf(k, p) = Append(h[p], row) /\ PageOf(h, p) = h[p]
    BY <2>1, <2>2 DEF PageOf
  <2>4. \A q \in Nat : q # p => PageOf(k, q) = PageOf(h, q)
    BY <2>1, <2>2 DEF PageOf
  <2>5. PageOf(h, p) \in Seq(Rows)
    BY PageIs
  <2>6. p >= Len(h)
    BY <1>1
  <2> QED
    BY <1>2, <1>3, <2>1, <2>3, <2>4, <2>5, <2>6 DEF On, k
<1>5. CASE ~ (h # <<>> /\ Len(Last(h)) < RowsPerPage)
  <2> DEFINE p == Len(h) + 1
  <2>1. k = Append(h, <<row>>)
    BY <1>5 DEF InsertRow
  <2> HIDE DEF k
  <2>2. /\ p \in Nat /\ p >= Len(h) /\ p \notin DOMAIN h
        /\ DOMAIN k = 1 .. p /\ k[p] = <<row>>
        /\ \A q \in DOMAIN h : q \in DOMAIN k /\ k[q] = h[q]
    BY <1>1, <2>1
  <2>3. PageOf(k, p) = <<row>> /\ PageOf(h, p) = <<>>
    BY <2>2 DEF PageOf
  <2>4. \A q \in Nat : q # p => PageOf(k, q) = PageOf(h, q)
    BY <1>1, <2>2 DEF PageOf
  <2>5. <<>> \in Seq(Rows) /\ <<row>> = Append(<<>>, row)
    OBVIOUS
  <2> QED
    BY <1>2, <1>3, <2>2, <2>3, <2>4, <2>5 DEF On, k
<1> QED
  BY <1>4, <1>5

\* Whether a heap has a row with this id.
LEMMA WithIdIs ==
  ASSUME NEW h \in Heaps, NEW id
  PROVE  /\ id # NoId => (WithId(h, id) # {} <=> HasId(h, id))
         /\ \A pos \in Positions(h) : pos[1] \in Nat /\ At(h, pos) \in On(h, pos[1])
<1>1. h \in Seq(Seq(Rows)) /\ Len(h) \in Nat /\ DOMAIN h = 1 .. Len(h)
  BY DEF Heaps
<1>2. ASSUME NEW pos \in Positions(h)
      PROVE  pos[1] \in Nat /\ At(h, pos) \in On(h, pos[1])
  <2>1. pos[1] \in DOMAIN h /\ pos[2] \in DOMAIN h[pos[1]]
    BY PositionIs
  <2>2. PageOf(h, pos[1]) = h[pos[1]] /\ pos[1] \in Nat
    BY <1>1, <2>1 DEF PageOf
  <2> QED
    BY <2>1, <2>2 DEF At, On, ToSet
<1>3. ASSUME NEW p \in Nat, NEW r \in On(h, p)
      PROVE  \E pos \in Positions(h) : At(h, pos) = r
  <2>1. p \in DOMAIN h
    BY <1>1, <1>3, PageIs
  <2>2. PageOf(h, p) = h[p]
    BY <2>1 DEF PageOf
  <2>3. PICK i \in DOMAIN h[p] : r = h[p][i]
    BY <2>2 DEF On, ToSet
  <2>4. <<p, i>> \in Positions(h)
    BY <2>1 DEF Positions
  <2>5. At(h, <<p, i>>) = r
    BY <2>3 DEF At
  <2> QED
    BY <2>4, <2>5
<1>4. ASSUME id # NoId PROVE WithId(h, id) # {} <=> HasId(h, id)
  <2>1. WithId(h, id) # {} <=> \E pos \in Positions(h) : At(h, pos).id = id
    BY <1>4 DEF WithId
  <2>2. (\E pos \in Positions(h) : At(h, pos).id = id) => HasId(h, id)
    BY <1>2 DEF HasId, Held
  <2>3. HasId(h, id) => \E pos \in Positions(h) : At(h, pos).id = id
    BY <1>3 DEF HasId, Held
  <2> QED
    BY <2>1, <2>2, <2>3
<1> QED
  BY <1>2, <1>4

\* A page without one of its rows.
LEMMA DropRow ==
  ASSUME NEW page \in Seq(Rows), OnceOn(page), NEW i \in DOMAIN page
  PROVE  /\ RemoveAt(page, i) \in Seq(Rows)
         /\ ToSet(RemoveAt(page, i)) = ToSet(page) \ {page[i]}
         /\ OnceOn(RemoveAt(page, i))
<1> DEFINE n == Len(page)
           a == SubSeq(page, 1, i - 1)
           b == SubSeq(page, i + 1, n)
           less == a \o b
           src(j) == IF j < i THEN j ELSE j + 1
<1>1. n \in Nat /\ DOMAIN page = 1 .. n /\ i \in 1 .. n /\ RemoveAt(page, i) = less
  BY DEF RemoveAt
<1>2. /\ a \in Seq(Rows) /\ Len(a) = i - 1
      /\ \A j \in 1 .. i - 1 : a[j] = page[j]
  BY <1>1
<1>3. /\ b \in Seq(Rows) /\ Len(b) = n - i
      /\ \A j \in 1 .. n - i : b[j] = page[i + j]
  <2>1. i + 1 \in 1 .. n + 1 /\ n - (i + 1) + 1 = n - i /\ \A j \in 1 .. n - i : i + 1 + j - 1 = i + j
    BY <1>1
  <2>2. b \in Seq(Rows) /\ Len(b) = n - i
    BY <1>1, <2>1
  <2>3. \A j \in 1 .. n - i : b[j] = page[i + 1 + j - 1]
    BY <1>1, <2>1
  <2> QED
    BY <2>1, <2>2, <2>3
<1> HIDE DEF a, b
<1>4. /\ less \in Seq(Rows) /\ Len(less) = n - 1
      /\ \A j \in 1 .. n - 1 : less[j] = IF j < i THEN a[j] ELSE b[j - (i - 1)]
  <2>1. /\ less \in Seq(Rows) /\ Len(less) = Len(a) + Len(b)
        /\ \A j \in 1 .. Len(a) + Len(b) :
              less[j] = IF j <= Len(a) THEN a[j] ELSE b[j - Len(a)]
    BY <1>2, <1>3
  <2>2. Len(a) + Len(b) = n - 1 /\ \A j \in Nat : j <= Len(a) <=> j < i
    BY <1>1, <1>2, <1>3
  <2> HIDE DEF less
  <2>3. ASSUME NEW j \in 1 .. n - 1
        PROVE  less[j] = IF j < i THEN a[j] ELSE b[j - (i - 1)]
    <3>1. j \in 1 .. Len(a) + Len(b) /\ j \in Nat
      BY <1>1, <2>2
    <3> QED
      BY <1>2, <2>1, <2>2, <3>1
  <2> QED
    BY <2>1, <2>2, <2>3
<1> HIDE DEF less
<1>5. DOMAIN less = 1 .. n - 1
  BY <1>1, <1>4
<1> HIDE DEF n
<1>6. ASSUME NEW j \in 1 .. n - 1 PROVE src(j) \in DOMAIN page /\ src(j) # i /\ less[j] = page[src(j)]
  <2>1. CASE j < i
    BY <1>1, <1>2, <1>4, <2>1
  <2>2. CASE ~ (j < i)
    <3>1. j - (i - 1) \in 1 .. n - i /\ i + (j - (i - 1)) = j + 1 /\ j + 1 \in 1 .. n
      BY <1>1, <2>2
    <3>2. src(j) = j + 1 /\ src(j) \in DOMAIN page /\ src(j) # i
      BY <1>1, <2>2, <3>1
    <3>3. less[j] = b[j - (i - 1)]
      BY <1>4, <2>2
    <3>4. b[j - (i - 1)] = page[i + (j - (i - 1))]
      BY <1>3, <3>1
    <3> QED
      BY <3>1, <3>2, <3>3, <3>4
  <2> QED
    BY <2>1, <2>2
<1>7. ASSUME NEW j \in DOMAIN page, j # i PROVE \E m \in 1 .. n - 1 : less[m] = page[j]
  <2>1. CASE j < i
    <3>1. j \in 1 .. n - 1 /\ src(j) = j
      BY <1>1, <2>1
    <3> QED
      BY <1>6, <3>1
  <2>2. CASE ~ (j < i)
    <3>1. j - 1 \in 1 .. n - 1 /\ src(j - 1) = j
      BY <1>1, <1>7, <2>2
    <3> QED
      BY <1>6, <3>1
  <2> QED
    BY <2>1, <2>2
<1>8. \A j \in DOMAIN page : j # i => page[j] # page[i]
  BY DEF OnceOn
<1>9. ToSet(less) = ToSet(page) \ {page[i]}
  <2>1. \A j \in DOMAIN less : less[j] \in ToSet(page) \ {page[i]}
    BY <1>5, <1>6, <1>8 DEF ToSet
  <2>2. \A j \in DOMAIN page : page[j] # page[i] => page[j] \in ToSet(less)
    BY <1>5, <1>7 DEF ToSet
  <2> QED
    BY <2>1, <2>2 DEF ToSet
<1>10. OnceOn(less)
  <2> SUFFICES ASSUME NEW j \in 1 .. n - 1, NEW k \in 1 .. n - 1, less[j].id = less[k].id
               PROVE  j = k
    BY <1>5 DEF OnceOn
  <2>1. src(j) = src(k)
    BY <1>6 DEF OnceOn
  <2> QED
    BY <1>1, <2>1
<1> QED
  BY <1>1, <1>4, <1>9, <1>10

\* A deletion takes the row with the id off the first page that has one.
LEMMA DeleteOn ==
  ASSUME Keyed, NEW h \in Heaps, NEW id, \A p \in Nat : OnceOn(PageOf(h, p))
  PROVE  LET k == DeleteId(h, id)
         IN  /\ k \in Heaps /\ Len(k) = Len(h)
             /\ \/ k = h /\ ~ HasId(h, id)
                \/ \E p \in Nat : \E r \in On(h, p) :
                     /\ r.id = id
                     /\ \A q \in Nat : q < p => \A s \in On(h, q) : s.id # id
                     /\ On(k, p) = On(h, p) \ {r} /\ OnceOn(PageOf(k, p))
                     /\ \A q \in Nat : q # p => PageOf(k, q) = PageOf(h, q)
<1>1. h \in Seq(Seq(Rows)) /\ Len(h) \in Nat /\ DOMAIN h = 1 .. Len(h)
  BY DEF Heaps
<1> DEFINE k == DeleteId(h, id)
<1>2. k \in Heaps /\ Len(k) = Len(h)
  BY DeleteIs
<1>3. id = NoId => WithId(h, id) = {} /\ ~ HasId(h, id)
  BY HeldIs DEF WithId, HasId, Keyed
<1>4. CASE WithId(h, id) = {}
  <2>1. k = h
    BY <1>4 DEF DeleteId
  <2>2. ~ HasId(h, id)
    BY <1>3, <1>4, WithIdIs
  <2> QED
    BY <1>2, <2>1, <2>2
<1>5. CASE WithId(h, id) # {}
  <2> DEFINE Lower(a, b) == a[1] < b[1] \/ (a[1] = b[1] /\ a[2] <= b[2])
             S == WithId(h, id)
             pos == CHOOSE a \in S : \A b \in S : Lower(a, b)
  <2>1. k = [h EXCEPT ![pos[1]] = RemoveAt(h[pos[1]], pos[2])]
    BY <1>5 DEF DeleteId
  <2>2. S \in SUBSET Positions(h)
    BY DEF WithId
  <2>3. \E a \in S : \A b \in S : Lower(a, b)
    <3> HIDE DEF S
    <3> QED
      BY <1>5, <2>2, LowestPosition DEF S
  <2>4. pos \in S /\ \A b \in S : Lower(pos, b)
    <3> HIDE DEF S, Lower
    <3> QED
      BY <2>3
  <2> HIDE DEF pos, S, k
  <2> DEFINE p == pos[1]
             i == pos[2]
             r == At(h, pos)
  <2>5. pos \in Positions(h)
    BY <2>2, <2>4
  <2>6. p \in DOMAIN h /\ i \in DOMAIN h[p] /\ p \in Nat
    BY <2>5, PositionIs
  <2>7. r.id = id
    BY <2>4 DEF S, WithId
  <2>8. PageOf(h, p) = h[p] /\ h[p] \in Seq(Rows) /\ r = h[p][i]
    BY <2>6, PageIs DEF PageOf, At
  <2>9. r \in On(h, p)
    BY <2>6, <2>8 DEF On, ToSet
  <2>10. OnceOn(h[p])
    BY <2>6, <2>8
  <2>11. PageOf(k, p) = RemoveAt(h[p], i)
    BY <2>1, <2>6 DEF PageOf
  <2>12. \A q \in Nat : q # p => PageOf(k, q) = PageOf(h, q)
    BY <2>1, <2>6 DEF PageOf
  <2>13. On(k, p) = On(h, p) \ {r} /\ OnceOn(PageOf(k, p))
    BY <2>6, <2>8, <2>10, <2>11, DropRow DEF On
  <2>14. ASSUME NEW q \in Nat, q < p, NEW s \in On(h, q), s.id = id PROVE FALSE
    <3>1. id # NoId
      BY <1>3, <1>5
    <3>2. q \in DOMAIN h
      BY <1>1, <2>14, PageIs
    <3>3. PICK j \in DOMAIN h[q] : s = h[q][j]
      BY <2>14, <3>2 DEF On, PageOf, ToSet
    <3>4. <<q, j>> \in Positions(h) /\ At(h, <<q, j>>) = s
      BY <3>2, <3>3 DEF Positions, At
    <3>5. <<q, j>> \in S
      BY <2>14, <3>1, <3>4 DEF S, WithId
    <3>6. Lower(pos, <<q, j>>)
      BY <2>4, <3>5
    <3> QED
      BY <2>6, <2>14, <3>6
  <2> HIDE DEF p, i, r
  <2> QED
    BY <1>2, <2>6, <2>7, <2>9, <2>12, <2>13, <2>14 DEF k
<1> QED
  BY <1>4, <1>5

\* A write takes over one page.
LEMMA WriteOn ==
  ASSUME NEW h \in Heaps, NEW d \in Heaps, Len(d) <= Len(h), NEW p \in DOMAIN h
  PROVE  LET e == [PadTo(d, p) EXCEPT ![p] = h[p]]
         IN  /\ PageOf(e, p) = PageOf(h, p) /\ p \in Nat
             /\ \A q \in Nat : q # p => PageOf(e, q) = PageOf(d, q)
<1>1. /\ h \in Seq(Seq(Rows)) /\ d \in Seq(Seq(Rows)) /\ Len(h) \in Nat /\ Len(d) \in Nat
      /\ p \in 1 .. Len(h) /\ DOMAIN d = 1 .. Len(d)
  BY DEF Heaps
<1> DEFINE n == IF p > Len(d) THEN p ELSE Len(d)
           e == [PadTo(d, p) EXCEPT ![p] = h[p]]
<1>2. n \in Nat /\ p \in 1 .. n /\ Len(d) <= n
  BY <1>1
<1>3. PadTo(d, p) = [q \in 1 .. n |-> PageOf(d, q)]
  BY DEF PadTo
<1> HIDE DEF n
<1>4. DOMAIN e = 1 .. n /\ e[p] = h[p] /\ \A q \in 1 .. n : q # p => e[q] = PageOf(d, q)
  BY <1>2, <1>3
<1> HIDE DEF e
<1>5. PageOf(e, p) = PageOf(h, p)
  BY <1>1, <1>2, <1>4 DEF PageOf
<1>6. ASSUME NEW q \in Nat, q # p PROVE PageOf(e, q) = PageOf(d, q)
  <2>1. CASE q \in 1 .. n
    BY <1>4, <1>6, <2>1 DEF PageOf
  <2>2. CASE q \notin 1 .. n
    <3>1. q \notin DOMAIN d
      BY <1>1, <1>2, <2>2
    <3> QED
      BY <1>4, <2>2, <3>1 DEF PageOf
  <2> QED
    BY <2>1, <2>2
<1>7. p \in Nat
  BY <1>1
<1> QED
  BY <1>5, <1>6, <1>7 DEF e

LEMMA EmptyOn == <<>> \in Heaps /\ \A p \in Nat : PageOf(<<>>, p) = <<>> /\ On(<<>>, p) = {}
<1>1. <<>> \in Heaps
  BY DEF Heaps
<1> QED
  BY <1>1 DEF PageOf, On, ToSet

LEMMA PositionsFinite ==
  ASSUME NEW h \in Heaps
  PROVE  IsFiniteSet(Positions(h))
<1>1. h \in Seq(Seq(Rows)) /\ Len(h) \in Nat /\ DOMAIN h = 1 .. Len(h)
  BY DEF Heaps
<1> DEFINE f == [p \in DOMAIN h |-> {p} \X DOMAIN h[p]]
           T == {f[p] : p \in DOMAIN h}
<1>2. IsFiniteSet(DOMAIN h)
  BY <1>1, FS_Interval
<1>3. f \in Surjection(DOMAIN h, T)
  BY DEF Surjection
<1>4. IsFiniteSet(T)
  <2> HIDE DEF f, T
  <2> QED
    BY <1>2, <1>3, FS_Surjection
<1>5. ASSUME NEW X \in T PROVE IsFiniteSet(X)
  <2>1. PICK p \in DOMAIN h : X = {p} \X DOMAIN h[p]
    OBVIOUS
  <2>2. h[p] \in Seq(Rows)
    BY <1>1
  <2>3. Len(h[p]) \in Nat /\ DOMAIN h[p] = 1 .. Len(h[p])
    BY <2>2
  <2>4. IsFiniteSet(DOMAIN h[p])
    BY <2>3, FS_Interval
  <2> QED
    BY <2>1, <2>4, FS_Singleton, FS_Product
<1>6. Positions(h) = UNION T
  BY DEF Positions
<1> HIDE DEF T
<1> QED
  BY <1>4, <1>5, <1>6, FS_UNION

\* A row is counted when a page holds it.
LEMMA Counted ==
  ASSUME NEW h \in Heaps, NEW r \in Rows
  PROVE  /\ Contents(h)[r] \in Nat
         /\ Contents(h)[r] > 0 <=> r \in Held(h)
<1>1. h \in Seq(Seq(Rows)) /\ Len(h) \in Nat /\ DOMAIN h = 1 .. Len(h)
  BY DEF Heaps
<1> DEFINE S == {pos \in Positions(h) : At(h, pos) = r}
<1>2. Contents(h)[r] = Cardinality(S)
  BY DEF Contents
<1>3. IsFiniteSet(S)
  BY PositionsFinite, FS_Subset
<1>4. Cardinality(S) \in Nat /\ (Cardinality(S) = 0 <=> S = {})
  BY <1>3, FS_CardinalityType, FS_EmptySet
<1>5. ASSUME S # {} PROVE r \in Held(h)
  BY <1>5, WithIdIs DEF Held
<1>6. ASSUME r \in Held(h) PROVE S # {}
  <2>1. PICK p \in 1 .. Len(h) : r \in On(h, p)
    BY <1>6, HeldIs
  <2>2. PICK i \in DOMAIN h[p] : r = h[p][i]
    BY <1>1, <2>1 DEF On, PageOf, ToSet
  <2>3. <<p, i>> \in Positions(h) /\ At(h, <<p, i>>) = r
    BY <1>1, <2>2 DEF Positions, At
  <2> QED
    BY <2>3
<1> HIDE DEF S
<1> QED
  BY <1>2, <1>4, <1>5, <1>6

\* A heap in which no id is twice, page by page.
LEMMA UniqueIs ==
  ASSUME Keyed, NEW h \in Heaps
  PROVE  IdsUnique(h) <=> Unique(h)
<1>1. h \in Seq(Seq(Rows)) /\ Len(h) \in Nat /\ DOMAIN h = 1 .. Len(h)
  BY DEF Heaps
<1>2. \A pos \in Positions(h) :
         /\ pos = <<pos[1], pos[2]>> /\ pos[1] \in DOMAIN h /\ pos[2] \in DOMAIN h[pos[1]]
         /\ pos[1] \in Nat /\ At(h, pos) \in On(h, pos[1])
  BY PositionIs, WithIdIs
<1>3. \A p \in DOMAIN h : p \in Nat /\ PageOf(h, p) = h[p] /\ On(h, p) = ToSet(h[p])
  BY <1>1 DEF PageOf, On
<1>4. \A p \in DOMAIN h : \A i \in DOMAIN h[p] : <<p, i>> \in Positions(h) /\ At(h, <<p, i>>) = h[p][i]
  BY DEF Positions, At
<1>5. \A pos \in Positions(h) : At(h, pos).id # NoId
  <2>1. \A p : On(h, p) \subseteq Rows
    BY PageIs
  <2> QED
    BY <1>2, <2>1 DEF Keyed
<1>6. ASSUME IdsUnique(h) PROVE Unique(h)
  <2>1. \A a, b \in Positions(h) : At(h, a).id = At(h, b).id => a = b
    BY <1>5, <1>6 DEF IdsUnique
  <2>2. ASSUME NEW p \in Nat PROVE OnceOn(PageOf(h, p))
    <3>1. CASE p \in DOMAIN h
      <4> SUFFICES ASSUME NEW i \in DOMAIN h[p], NEW j \in DOMAIN h[p], h[p][i].id = h[p][j].id
                   PROVE  i = j
        BY <1>3, <3>1 DEF OnceOn
      <4>1. <<p, i>> = <<p, j>>
        BY <1>4, <2>1, <3>1
      <4> QED
        BY <4>1
    <3>2. CASE p \notin DOMAIN h
      BY <3>2 DEF PageOf, OnceOn
    <3> QED
      BY <3>1, <3>2
  <2>3. ASSUME NEW p \in Nat, NEW q \in Nat, p < q, NEW r \in On(h, p), NEW s \in On(h, q),
               r.id = s.id
        PROVE  FALSE
    <3>1. p \in DOMAIN h /\ q \in DOMAIN h
      BY <1>1, PageIs
    <3>2. PICK i \in DOMAIN h[p] : r = h[p][i]
      BY <1>3, <3>1 DEF ToSet
    <3>3. PICK j \in DOMAIN h[q] : s = h[q][j]
      BY <1>3, <3>1 DEF ToSet
    <3>4. <<p, i>> = <<q, j>>
      BY <1>4, <2>1, <2>3, <3>1, <3>2, <3>3
    <3> QED
      BY <2>3, <3>4
  <2> QED
    BY <2>2, <2>3 DEF Unique
<1>7. ASSUME Unique(h) PROVE IdsUnique(h)
  <2> SUFFICES ASSUME NEW a \in Positions(h), NEW b \in Positions(h), At(h, a).id = At(h, b).id
               PROVE  a = b
    BY DEF IdsUnique
  <2>1. a[1] = b[1]
    <3>1. a[1] \in Nat /\ b[1] \in Nat /\ At(h, a) \in On(h, a[1]) /\ At(h, b) \in On(h, b[1])
      BY <1>2
    <3>2. ~ (a[1] < b[1]) /\ ~ (b[1] < a[1])
      BY <1>7, <3>1 DEF Unique
    <3> QED
      BY <3>1, <3>2
  <2>2. OnceOn(h[a[1]])
    BY <1>2, <1>3, <1>7 DEF Unique
  <2>3. a[2] = b[2]
    BY <1>2, <2>1, <2>2 DEF OnceOn, At
  <2> QED
    BY <1>2, <2>1, <2>3
<1> QED
  BY <1>6, <1>7

\* Its contents are a set.
LEMMA UniqueBag ==
  ASSUME Keyed, NEW h \in Heaps, Unique(h)
  PROVE  Contents(h) = BagOf(Held(h)) /\ Distinct(Held(h))
<1>1. IdsUnique(h)
  BY UniqueIs
<1>2. \A pos \in Positions(h) : At(h, pos).id # NoId
  <2>1. \A p : On(h, p) \subseteq Rows
    BY PageIs
  <2> QED
    BY <2>1, WithIdIs DEF Keyed
<1>3. ASSUME NEW r \in Rows PROVE Contents(h)[r] = IF r \in Held(h) THEN 1 ELSE 0
  <2> DEFINE S == {pos \in Positions(h) : At(h, pos) = r}
  <2>1. Contents(h)[r] = Cardinality(S)
    BY DEF Contents
  <2>2. \A a, b \in S : a = b
    BY <1>1, <1>2 DEF IdsUnique
  <2>3. CASE r \in Held(h)
    <3>1. S # {}
      <4>1. S = {} => Cardinality(S) = 0
        BY FS_EmptySet
      <4> HIDE DEF S
      <4> QED
        BY <2>1, <2>3, <4>1, Counted
    <3>2. PICK a \in S : TRUE
      BY <3>1
    <3>3. S = {a}
      BY <2>2, <3>2
    <3> HIDE DEF S
    <3> QED
      BY <2>1, <2>3, <3>3, FS_Singleton
  <2>4. CASE r \notin Held(h)
    <3>1. Contents(h)[r] \in Nat /\ ~ (Contents(h)[r] > 0)
      BY <2>4, Counted
    <3> QED
      BY <2>4, <3>1
  <2> QED
    BY <2>3, <2>4
<1>4. Contents(h) = BagOf(Held(h))
  BY <1>3 DEF Contents, BagOf
<1>5. Distinct(Held(h))
  <2> SUFFICES ASSUME NEW r \in Held(h), NEW s \in Held(h), r.id = s.id
               PROVE  r = s
    BY DEF Distinct
  <2>1. PICK p \in 1 .. Len(h) : r \in On(h, p)
    BY HeldIs
  <2>2. PICK q \in 1 .. Len(h) : s \in On(h, q)
    BY HeldIs
  <2>3. p \in Nat /\ q \in Nat
    BY DEF Heaps
  <2>4. ~ (p < q) /\ ~ (q < p)
    BY <2>1, <2>2, <2>3 DEF Unique
  <2>5. p = q
    BY <2>3, <2>4
  <2>6. OnceOn(PageOf(h, p))
    BY <2>3 DEF Unique
  <2> QED
    BY <2>1, <2>2, <2>5, <2>6 DEF OnceOn, On, ToSet
<1> QED
  BY <1>4, <1>5

(***************************************************************************)
(* What is left to do.                                                     *)
(***************************************************************************)

\* The rows and the ids that operations and row changes add and delete.
AddsOf(op) == IF op.kind \in {"insert", "replace"} THEN ToSet(op.rows) ELSE {}
DelsOf(op) == IF op.kind = "delete" THEN ToSet(op.ids) ELSE {}
StepAdds(step) == IF step.kind \in {"insert", "add"} THEN {step.arg} ELSE {}
StepDels(step) == IF step.kind = "delete" THEN {step.arg} ELSE {}

LaterAdds(t) == UNION {AddsOf(t[j]) : j \in DOMAIN t}
NowAdds(s) == UNION {StepAdds(s[j]) : j \in DOMAIN s}
LaterDels(t) == UNION {DelsOf(t[j]) : j \in DOMAIN t}
NowDels(s) == UNION {StepDels(s[j]) : j \in DOMAIN s}

\* The same for operations t after row changes s.
Adds(t, s) == LaterAdds(t) \cup NowAdds(s)
Dels(t, s) == LaterDels(t) \cup NowDels(s)
Clears(t, s) ==
    (\E j \in DOMAIN t : t[j].kind = "replace") \/ (\E j \in DOMAIN s : s[j].kind = "truncate")

\* Only the first operation deletes or replaces, and no id is added twice.
Orderly(t, s) ==
    /\ \A j \in DOMAIN t : j > 1 \/ s # <<>> => t[j].kind = "insert"
    /\ \A j \in DOMAIN t : t[j].kind # "delete" => OnceOn(t[j].rows)
    /\ \A j, k \in DOMAIN t : j < k => \A r \in AddsOf(t[j]), q \in AddsOf(t[k]) : r.id # q.id
    /\ \A j, k \in DOMAIN s : j < k => \A r \in StepAdds(s[j]), q \in StepAdds(s[k]) : r.id # q.id
    /\ \A r \in NowAdds(s), q \in LaterAdds(t) : r.id # q.id
    /\ \A i, j \in DOMAIN s : s[i].kind = "delete" => s[j].kind = "delete"
    /\ \A i \in DOMAIN s : s[i].kind = "truncate" => i = 1

LEMMA TailIs ==
  ASSUME NEW T, NEW s \in Seq(T), s # <<>>
  PROVE  /\ Tail(s) \in Seq(T) /\ Head(s) = s[1] /\ s[1] \in T /\ 1 \in DOMAIN s
         /\ \A i \in DOMAIN Tail(s) : i \in Nat /\ i >= 1 /\ i + 1 \in DOMAIN s /\ Tail(s)[i] = s[i + 1]
         /\ \A i \in DOMAIN s : i = 1 \/ (i - 1 \in DOMAIN Tail(s) /\ Tail(s)[i - 1] = s[i])
<1>1. /\ Len(s) \in Nat \ {0} /\ DOMAIN s = 1 .. Len(s)
      /\ Tail(s) \in Seq(T) /\ Len(Tail(s)) = Len(s) - 1 /\ Head(s) = s[1]
      /\ \A i \in 1 .. Len(s) - 1 : Tail(s)[i] = s[i + 1]
  OBVIOUS
<1>2. DOMAIN Tail(s) = 1 .. Len(s) - 1
  BY <1>1
<1>3. ASSUME NEW i \in DOMAIN s, i # 1 PROVE i - 1 \in DOMAIN Tail(s) /\ Tail(s)[i - 1] = s[i]
  <2>1. i - 1 \in 1 .. Len(s) - 1 /\ (i - 1) + 1 = i
    BY <1>1, <1>3
  <2> QED
    BY <1>1, <1>2, <2>1
<1>4. s[1] \in T /\ 1 \in DOMAIN s
  BY <1>1
<1> QED
  BY <1>1, <1>2, <1>3, <1>4

\* The row changes of an operation.
LEMMA StepsOf ==
  ASSUME NEW op \in Operations
  PROVE  /\ Steps(op) \in Seq(RowSteps)
         /\ NowAdds(Steps(op)) = AddsOf(op) /\ NowDels(Steps(op)) = DelsOf(op)
         /\ \A i \in DOMAIN Steps(op) :
              /\ Steps(op)[i].kind = "truncate" => op.kind = "replace" /\ i = 1
              /\ Steps(op)[i].kind = "delete" <=> op.kind = "delete"
              /\ Steps(op)[i].kind = "insert" <=> op.kind = "insert"
         /\ op.kind = "replace" => \E i \in DOMAIN Steps(op) : Steps(op)[i].kind = "truncate"
         /\ op.kind # "delete" /\ OnceOn(op.rows) =>
              \A i, j \in DOMAIN Steps(op) : i < j =>
                 \A r \in StepAdds(Steps(op)[i]), q \in StepAdds(Steps(op)[j]) : r.id # q.id
<1> DEFINE Each(kind, args) == [i \in DOMAIN args |-> [kind |-> kind, arg |-> args[i]]]
           s == Steps(op)
<1>1. s \in Seq(RowSteps)
  BY StepsAre
<1>2. CASE op.kind = "insert"
  <2>1. op.rows \in Seq(Rows)
    BY <1>2 DEF Operations
  <2>2. s = Each("insert", op.rows)
    BY <1>2 DEF Steps
  <2>3. /\ DOMAIN s = DOMAIN op.rows
        /\ \A i \in DOMAIN s : s[i].kind = "insert" /\ s[i].arg = op.rows[i]
    BY <2>2
  <2> HIDE DEF s
  <2>4. NowAdds(s) = AddsOf(op)
    <3>1. \A i \in DOMAIN s : StepAdds(s[i]) = {op.rows[i]}
      BY <2>3 DEF StepAdds
    <3> QED
      BY <1>2, <2>3, <3>1 DEF NowAdds, AddsOf, ToSet
  <2>5. NowDels(s) = DelsOf(op)
    BY <1>2, <2>3 DEF NowDels, StepDels, DelsOf
  <2>6. ASSUME OnceOn(op.rows), NEW i \in DOMAIN s, NEW j \in DOMAIN s, i < j,
               NEW r \in StepAdds(s[i]), NEW q \in StepAdds(s[j])
        PROVE  r.id # q.id
    <3>1. r = op.rows[i] /\ q = op.rows[j]
      BY <2>3 DEF StepAdds
    <3>2. i # j
      BY <2>1, <2>3, <2>6
    <3> QED
      BY <2>3, <2>6, <3>1, <3>2 DEF OnceOn
  <2> QED
    BY <1>1, <1>2, <2>3, <2>4, <2>5, <2>6 DEF s
<1>3. CASE op.kind = "delete"
  <2>1. op.ids \in Seq(Nat)
    BY <1>3 DEF Operations
  <2>2. s = Each("delete", op.ids)
    BY <1>3 DEF Steps
  <2>3. /\ DOMAIN s = DOMAIN op.ids
        /\ \A i \in DOMAIN s : s[i].kind = "delete" /\ s[i].arg = op.ids[i]
    BY <2>2
  <2> HIDE DEF s
  <2>4. NowDels(s) = DelsOf(op)
    <3>1. \A i \in DOMAIN s : StepDels(s[i]) = {op.ids[i]}
      BY <2>3 DEF StepDels
    <3>2. NowDels(s) = {op.ids[i] : i \in DOMAIN op.ids}
      BY <2>3, <3>1 DEF NowDels
    <3> QED
      BY <1>3, <3>2 DEF DelsOf, ToSet
  <2>5. NowAdds(s) = AddsOf(op)
    BY <1>3, <2>3 DEF NowAdds, StepAdds, AddsOf
  <2> QED
    BY <1>1, <1>3, <2>3, <2>4, <2>5 DEF s
<1>4. CASE op.kind = "replace"
  <2>1. op.rows \in Seq(Rows)
    BY <1>4 DEF Operations
  <2> DEFINE n == Len(op.rows)
             e == Each("add", op.rows)
  <2>2. s = <<[kind |-> "truncate"]>> \o e
    BY <1>4 DEF Steps
  <2>3. n \in Nat /\ DOMAIN op.rows = 1 .. n
    BY <2>1
  <2>4. /\ DOMAIN e = 1 .. n /\ \A i \in 1 .. n : e[i].kind = "add" /\ e[i].arg = op.rows[i]
    BY <2>3
  <2>5. e \in Seq(RowSteps) /\ Len(e) = n
    <3>1. \A i \in 1 .. n : op.rows[i] \in Rows
      BY <2>1, <2>3
    <3>2. \A i \in 1 .. n : e[i] \in RowSteps
      BY <2>3, <3>1 DEF RowSteps
    <3>3. e = [i \in 1 .. n |-> e[i]]
      BY <2>4
    <3> HIDE DEF e, n
    <3>4. e \in [1 .. n -> RowSteps]
      BY <3>2, <3>3
    <3> QED
      BY <2>3, <3>4
  <2> HIDE DEF e
  <2>6. /\ Len(s) = n + 1 /\ DOMAIN s = 1 .. n + 1 /\ s[1] = [kind |-> "truncate"]
        /\ \A i \in 2 .. n + 1 : s[i] = e[i - 1]
    BY <2>2, <2>3, <2>5
  <2> HIDE DEF s, n
  <2>7. ASSUME NEW i \in DOMAIN s
        PROVE  \/ i = 1 /\ s[i].kind = "truncate"
               \/ i - 1 \in DOMAIN op.rows /\ s[i].kind = "add" /\ s[i].arg = op.rows[i - 1]
    <3>1. CASE i = 1
      BY <2>6, <3>1
    <3>2. CASE i # 1
      <4>1. i \in 2 .. n + 1 /\ i - 1 \in 1 .. n
        BY <2>3, <2>6, <3>2
      <4> QED
        BY <2>3, <2>4, <2>6, <4>1
    <3> QED
      BY <3>1, <3>2
  <2>8. ASSUME NEW i \in DOMAIN op.rows
        PROVE  i + 1 \in DOMAIN s /\ s[i + 1].kind = "add" /\ s[i + 1].arg = op.rows[i]
    <3>1. i + 1 \in 2 .. n + 1 /\ i + 1 \in 1 .. n + 1 /\ (i + 1) - 1 = i /\ i \in 1 .. n
      BY <2>3
    <3> QED
      BY <2>4, <2>6, <3>1
  <2>9. NowAdds(s) = AddsOf(op)
    <3>1. \A i \in DOMAIN s : StepAdds(s[i]) \subseteq ToSet(op.rows)
      BY <2>7 DEF StepAdds, ToSet
    <3>2. \A i \in DOMAIN op.rows : op.rows[i] \in NowAdds(s)
      <4>1. \A i \in DOMAIN op.rows : op.rows[i] \in StepAdds(s[i + 1])
        BY <2>8 DEF StepAdds
      <4> QED
        BY <2>8, <4>1 DEF NowAdds
    <3> QED
      BY <1>4, <3>1, <3>2 DEF NowAdds, AddsOf, ToSet
  <2>10. NowDels(s) = DelsOf(op)
    <3>1. \A i \in DOMAIN s : StepDels(s[i]) = {}
      BY <2>7 DEF StepDels
    <3> QED
      BY <1>4, <3>1 DEF NowDels, DelsOf
  <2>11. 1 \in DOMAIN s /\ s[1].kind = "truncate"
    BY <2>3, <2>6
  <2>12. ASSUME OnceOn(op.rows), NEW i \in DOMAIN s, NEW j \in DOMAIN s, i < j,
                NEW r \in StepAdds(s[i]), NEW q \in StepAdds(s[j])
         PROVE  r.id # q.id
    <3>1. i - 1 \in DOMAIN op.rows /\ r = op.rows[i - 1] /\ j - 1 \in DOMAIN op.rows /\ q = op.rows[j - 1]
      BY <2>7 DEF StepAdds
    <3>2. i - 1 # j - 1
      BY <2>3, <2>6, <2>12
    <3> QED
      BY <2>12, <3>1, <3>2 DEF OnceOn
  <2> QED
    BY <1>1, <1>4, <2>7, <2>9, <2>10, <2>11, <2>12 DEF s
<1>5. op.kind \in {"insert", "delete", "replace"}
  BY DEF Operations
<1> QED
  BY <1>2, <1>3, <1>4, <1>5

\* The next row change is done.
LEMMA StepDone ==
  ASSUME NEW t \in Seq(Operations), NEW s \in Seq(RowSteps), s # <<>>, Orderly(t, s)
  PROVE  LET step == Head(s)
             rest == Tail(s)
         IN  /\ step \in RowSteps /\ rest \in Seq(RowSteps) /\ 1 \in DOMAIN s /\ s[1] = step
             /\ Orderly(t, rest)
             /\ Adds(t, s) = StepAdds(step) \cup Adds(t, rest)
             /\ Dels(t, s) = StepDels(step) \cup Dels(t, rest)
             /\ ~ Clears(t, rest)
             /\ Clears(t, s) <=> step.kind = "truncate"
             /\ \A r \in StepAdds(step), q \in Adds(t, rest) : r.id # q.id
             /\ step.kind # "delete" => Dels(t, s) = {}
             /\ step.kind = "delete" => NowAdds(s) = {} /\ Clears(t, s) = FALSE
             /\ \A i \in DOMAIN rest : \E j \in DOMAIN s : rest[i] = s[j]
<1> DEFINE step == Head(s)
           rest == Tail(s)
<1>1. /\ rest \in Seq(RowSteps) /\ step = s[1] /\ step \in RowSteps /\ 1 \in DOMAIN s
      /\ \A i \in DOMAIN rest : i \in Nat /\ i >= 1 /\ i + 1 \in DOMAIN s /\ rest[i] = s[i + 1]
      /\ \A i \in DOMAIN s : i = 1 \/ (i - 1 \in DOMAIN rest /\ rest[i - 1] = s[i])
  BY TailIs
<1> HIDE DEF step, rest
<1>2. NowAdds(s) = StepAdds(step) \cup NowAdds(rest)
  <2>1. ASSUME NEW i \in DOMAIN s PROVE StepAdds(s[i]) \subseteq StepAdds(step) \cup NowAdds(rest)
    <3>1. CASE i = 1
      BY <1>1, <3>1
    <3>2. CASE i - 1 \in DOMAIN rest /\ rest[i - 1] = s[i]
      BY <3>2 DEF NowAdds
    <3> QED
      BY <1>1, <3>1, <3>2
  <2>2. \A i \in DOMAIN rest : StepAdds(rest[i]) \subseteq NowAdds(s)
    BY <1>1 DEF NowAdds
  <2>3. StepAdds(step) \subseteq NowAdds(s)
    BY <1>1 DEF NowAdds
  <2> QED
    BY <2>1, <2>2, <2>3 DEF NowAdds
<1>3. NowDels(s) = StepDels(step) \cup NowDels(rest)
  <2>1. ASSUME NEW i \in DOMAIN s PROVE StepDels(s[i]) \subseteq StepDels(step) \cup NowDels(rest)
    <3>1. CASE i = 1
      BY <1>1, <3>1
    <3>2. CASE i - 1 \in DOMAIN rest /\ rest[i - 1] = s[i]
      BY <3>2 DEF NowDels
    <3> QED
      BY <1>1, <3>1, <3>2
  <2>2. \A i \in DOMAIN rest : StepDels(rest[i]) \subseteq NowDels(s)
    BY <1>1 DEF NowDels
  <2>3. StepDels(step) \subseteq NowDels(s)
    BY <1>1 DEF NowDels
  <2> QED
    BY <2>1, <2>2, <2>3 DEF NowDels
<1>4. /\ (\E i \in DOMAIN s : s[i].kind = "truncate") <=> step.kind = "truncate"
      /\ \A i \in DOMAIN rest : rest[i].kind # "truncate"
  <2>1. \A i \in DOMAIN rest : i + 1 # 1
    BY <1>1
  <2> QED
    BY <1>1, <2>1 DEF Orderly
<1>5. ASSUME NEW r \in StepAdds(step), NEW q \in NowAdds(rest) PROVE r.id # q.id
  <2>1. PICK i \in DOMAIN rest : q \in StepAdds(rest[i])
    BY DEF NowAdds
  <2>2. i + 1 \in DOMAIN s /\ q \in StepAdds(s[i + 1]) /\ 1 < i + 1
    BY <1>1, <2>1
  <2> QED
    BY <1>1, <2>2 DEF Orderly
<1>6. \A j \in DOMAIN t : t[j].kind = "insert"
  BY DEF Orderly
<1>7. LaterDels(t) = {}
  BY <1>6 DEF LaterDels, DelsOf
<1>8. step.kind # "delete" => NowDels(s) = {}
  BY <1>1 DEF Orderly, NowDels, StepDels
<1>9. step.kind = "delete" => \A i \in DOMAIN s : s[i].kind = "delete"
  BY <1>1 DEF Orderly
<1>10. Orderly(t, rest)
  <2>1. ASSUME NEW j \in DOMAIN rest, NEW k \in DOMAIN rest, j < k,
               NEW r \in StepAdds(rest[j]), NEW q \in StepAdds(rest[k])
        PROVE  r.id # q.id
    <3>1. /\ j + 1 \in DOMAIN s /\ rest[j] = s[j + 1] /\ k + 1 \in DOMAIN s /\ rest[k] = s[k + 1]
          /\ j + 1 < k + 1
      BY <1>1, <2>1
    <3> QED
      BY <2>1, <3>1 DEF Orderly
  <2>2. \A i, j \in DOMAIN rest : rest[i].kind = "delete" => rest[j].kind = "delete"
    BY <1>1 DEF Orderly
  <2>3. NowAdds(rest) \subseteq NowAdds(s)
    BY <1>2
  <2> QED
    BY <1>4, <1>6, <2>1, <2>2, <2>3 DEF Orderly
<1>11. \A r \in StepAdds(step), q \in LaterAdds(t) : r.id # q.id
  BY <1>2 DEF Orderly
<1>12. step.kind = "delete" => NowAdds(s) = {}
  BY <1>9 DEF NowAdds, StepAdds
<1>13. step.kind = "delete" => ~ Clears(t, s)
  BY <1>6, <1>9 DEF Clears
<1> QED
  BY <1>1, <1>2, <1>3, <1>4, <1>5, <1>6, <1>7, <1>8, <1>10, <1>11, <1>12, <1>13
  DEF Adds, Dels, Clears, step, rest

\* The next operation is taken up, or found applied and left out.
LEMMA OpTaken ==
  ASSUME NEW t \in Seq(Operations), t # <<>>, Orderly(t, <<>>)
  PROVE  LET op == Head(t)
             rest == Tail(t)
         IN  /\ op \in Operations /\ rest \in Seq(Operations) /\ 1 \in DOMAIN t /\ t[1] = op
             /\ Orderly(rest, Steps(op)) /\ Orderly(rest, <<>>)
             /\ Adds(rest, Steps(op)) = Adds(t, <<>>)
             /\ Adds(t, <<>>) = AddsOf(op) \cup Adds(rest, <<>>)
             /\ Dels(rest, Steps(op)) = Dels(t, <<>>)
             /\ Dels(t, <<>>) = DelsOf(op) /\ Dels(rest, <<>>) = {}
             /\ Clears(rest, Steps(op)) <=> Clears(t, <<>>)
             /\ Clears(t, <<>>) <=> op.kind = "replace"
             /\ ~ Clears(rest, <<>>)
             /\ \A i \in DOMAIN rest : \E j \in DOMAIN t : rest[i] = t[j]
<1> DEFINE op == Head(t)
           rest == Tail(t)
           s == Steps(op)
<1>1. /\ rest \in Seq(Operations) /\ op = t[1] /\ op \in Operations /\ 1 \in DOMAIN t
      /\ \A i \in DOMAIN rest : i \in Nat /\ i >= 1 /\ i + 1 \in DOMAIN t /\ rest[i] = t[i + 1]
      /\ \A i \in DOMAIN t : i = 1 \/ (i - 1 \in DOMAIN rest /\ rest[i - 1] = t[i])
  BY TailIs
<1> HIDE DEF op, rest
<1>2. /\ NowAdds(s) = AddsOf(op) /\ NowDels(s) = DelsOf(op)
      /\ \A i \in DOMAIN s :
           /\ s[i].kind = "truncate" => op.kind = "replace" /\ i = 1
           /\ s[i].kind = "delete" <=> op.kind = "delete"
           /\ s[i].kind = "insert" <=> op.kind = "insert"
      /\ op.kind = "replace" => \E i \in DOMAIN s : s[i].kind = "truncate"
      /\ op.kind # "delete" /\ OnceOn(op.rows) =>
           \A i, j \in DOMAIN s : i < j => \A r \in StepAdds(s[i]), q \in StepAdds(s[j]) : r.id # q.id
  <2>1. op \in Operations
    BY <1>1
  <2> QED
    BY <2>1, StepsOf
<1> HIDE DEF s
<1>3. NowAdds(<<>>) = {} /\ NowDels(<<>>) = {}
  BY DEF NowAdds, NowDels
<1>4. \A j \in DOMAIN rest : rest[j].kind = "insert"
  <2>1. \A j \in DOMAIN rest : j + 1 > 1
    BY <1>1
  <2> QED
    BY <1>1, <2>1 DEF Orderly
<1>5. LaterAdds(t) = AddsOf(op) \cup LaterAdds(rest)
  <2>1. ASSUME NEW i \in DOMAIN t PROVE AddsOf(t[i]) \subseteq AddsOf(op) \cup LaterAdds(rest)
    <3>1. CASE i = 1
      BY <1>1, <3>1
    <3>2. CASE i - 1 \in DOMAIN rest /\ rest[i - 1] = t[i]
      BY <3>2 DEF LaterAdds
    <3> QED
      BY <1>1, <3>1, <3>2
  <2>2. \A i \in DOMAIN rest : AddsOf(rest[i]) \subseteq LaterAdds(t)
    BY <1>1 DEF LaterAdds
  <2>3. AddsOf(op) \subseteq LaterAdds(t)
    BY <1>1 DEF LaterAdds
  <2> QED
    BY <2>1, <2>2, <2>3 DEF LaterAdds
<1>6. LaterDels(rest) = {}
  BY <1>4 DEF LaterDels, DelsOf
<1>7. LaterDels(t) = DelsOf(op)
  <2>1. \A i \in DOMAIN t : DelsOf(t[i]) \subseteq DelsOf(op)
    BY <1>1, <1>4 DEF DelsOf
  <2>2. DelsOf(op) \subseteq LaterDels(t)
    BY <1>1 DEF LaterDels
  <2> QED
    BY <2>1, <2>2 DEF LaterDels
<1>8. \A j, k \in DOMAIN rest : j < k =>
        \A r \in AddsOf(rest[j]), q \in AddsOf(rest[k]) : r.id # q.id
  <2> SUFFICES ASSUME NEW j \in DOMAIN rest, NEW k \in DOMAIN rest, j < k,
                      NEW r \in AddsOf(rest[j]), NEW q \in AddsOf(rest[k])
               PROVE  r.id # q.id
    OBVIOUS
  <2>1. /\ j + 1 \in DOMAIN t /\ rest[j] = t[j + 1] /\ k + 1 \in DOMAIN t /\ rest[k] = t[k + 1]
        /\ j + 1 < k + 1
    BY <1>1
  <2> QED
    BY <2>1 DEF Orderly
<1>9. \A r \in AddsOf(op), q \in LaterAdds(rest) : r.id # q.id
  <2> SUFFICES ASSUME NEW r \in AddsOf(op), NEW q \in LaterAdds(rest) PROVE r.id # q.id
    OBVIOUS
  <2>1. PICK k \in DOMAIN rest : q \in AddsOf(rest[k])
    BY DEF LaterAdds
  <2>2. k + 1 \in DOMAIN t /\ rest[k] = t[k + 1] /\ 1 < k + 1
    BY <1>1
  <2> QED
    BY <1>1, <2>1, <2>2 DEF Orderly
<1>10. \A j \in DOMAIN rest : rest[j].kind # "delete" => OnceOn(rest[j].rows)
  BY <1>1 DEF Orderly
<1>11. op.kind # "delete" => OnceOn(op.rows)
  BY <1>1 DEF Orderly
<1>12. Orderly(rest, s)
  <2>1. ASSUME op.kind = "delete"
        PROVE  \A i, j \in DOMAIN s : i < j => \A r \in StepAdds(s[i]), q \in StepAdds(s[j]) : r.id # q.id
    <3>1. \A i \in DOMAIN s : StepAdds(s[i]) = {}
      BY <1>2, <2>1 DEF StepAdds
    <3> QED
      BY <3>1
  <2> QED
    BY <1>2, <1>4, <1>8, <1>9, <1>10, <1>11, <2>1 DEF Orderly
<1>13. Orderly(rest, <<>>)
  BY <1>3, <1>4, <1>8, <1>10 DEF Orderly
<1>14. Clears(rest, s) <=> op.kind = "replace"
  BY <1>2, <1>4 DEF Clears
<1>15. Clears(t, <<>>) <=> op.kind = "replace"
  BY <1>1, <1>4 DEF Clears
<1>16. ~ Clears(rest, <<>>)
  BY <1>4 DEF Clears
<1> QED
  BY <1>1, <1>2, <1>3, <1>5, <1>6, <1>7, <1>12, <1>13, <1>14, <1>15, <1>16
  DEF Adds, Dels, op, rest, s

(***************************************************************************)
(* The rows K stay, the rows N come.                                       *)
(***************************************************************************)

Final(K, N) == K \subseteq Rows /\ N \subseteq Rows /\ K \cap N = {} /\ Distinct(K \cup N)

\* The rows page p has in the data file or in the cache.
Either(d, m, p) == On(d, p) \cup On(m, p)

\* Data file and cache page by page, in whatever mixture a crash may leave.  A row
\* that stays is in both.  An id is on two pages at most, the new row behind.
Laid(K, N, d, m) ==
    /\ \A p \in Nat : OnceOn(PageOf(d, p)) /\ OnceOn(PageOf(m, p))
    /\ \A k \in K : \E p \in Nat : k \in On(d, p) /\ k \in On(m, p)
    /\ \A p, q \in Nat : p < q =>
         \A r \in Either(d, m, p), s \in Either(d, m, q) : r.id = s.id =>
            /\ s \in N
            /\ \A u \in Nat : q < u => \A w \in Either(d, m, u) : w.id # r.id

OnePage(d, m, id) ==
    \A p, q \in Nat : p < q =>
        \A r \in Either(d, m, p), s \in Either(d, m, q) : ~ (r.id = id /\ s.id = id)

\* What is left to do adds new rows only and deletes none that stays; while it may
\* delete a new row that an earlier attempt left, it adds all of them.
Plan(K, N, t, s) ==
    /\ Orderly(t, s)
    /\ Adds(t, s) \subseteq N
    /\ \A k \in K : k.id \notin Dels(t, s)
    /\ Clears(t, s) \/ Dels(t, s) # {} => N \subseteq Adds(t, s)
    /\ Clears(t, s) => K = {}

\* Operations t after row changes s turn the cache m into the rows K and N; `live`
\* is the first attempt, the others are replays.
Work(K, N, t, s, d, m, live) ==
    /\ Plan(K, N, t, s)
    /\ ~ Clears(t, s) =>
         /\ Laid(K, N, d, m)
         /\ \A r \in Held(m) : r \in K \cup N \/ r.id \in Dels(t, s)
         /\ N \subseteq Adds(t, s) \cup Held(m)
         /\ \A p, q \in Nat : p < q =>
              \A r \in On(m, p), w \in On(m, q) : r.id = w.id => r.id \in Dels(t, s)
         /\ \A i \in DOMAIN s :
              /\ s[i].kind = "add" => ~ HasId(d, s[i].arg.id) /\ ~ HasId(m, s[i].arg.id)
              /\ s[i].kind = "insert" /\ ~ live => (HasId(d, s[i].arg.id) => HasId(m, s[i].arg.id))
         /\ live => \A r \in Adds(t, s) :
              OnePage(d, m, r.id) /\ (HasId(m, r.id) => r.id \in Dels(t, s))

\* An id on two pages is one of these.
Apart(d, m, ids) ==
    \A p, q \in Nat : p < q =>
        \A r \in Either(d, m, p), s \in Either(d, m, q) : r.id = s.id => r.id \in ids

\* Replaying the operations g from the data file d, with pages of m written to it,
\* leads to the rows K and N.
Redo(K, N, g, d, m) ==
    /\ Plan(K, N, g, <<>>)
    /\ N \subseteq Adds(g, <<>>)
    /\ ~ Clears(g, <<>>) =>
         /\ Laid(K, N, d, m)
         /\ \A r \in Held(d) \cup Held(m) : r \in K \cup N \/ r.id \in Dels(g, <<>>)
         /\ Apart(d, m, Dels(g, <<>>))

\* What a replay of g needs and the work left of g does not.
Covers(K, N, g, t, s, d, m, live) ==
    /\ Plan(K, N, g, <<>>)
    /\ N \subseteq Adds(g, <<>>)
    /\ Clears(t, s) => Clears(g, <<>>)
    /\ Dels(t, s) \subseteq Dels(g, <<>>)
    /\ ~ Clears(g, <<>>) =>
         /\ \A r \in Held(d) : r \in K \cup N \/ r.id \in Dels(g, <<>>)
         /\ Apart(d, m, Dels(g, <<>>))
         /\ live => \A r \in Adds(t, s) : HasId(d, r.id) => r.id \in Dels(g, <<>>)

LEMMA WorkTaken ==
  ASSUME NEW K, NEW N, NEW t \in Seq(Operations), NEW d, NEW m, NEW live \in BOOLEAN,
         t # <<>>, Work(K, N, t, <<>>, d, m, live), ~ live => d = m
  PROVE  Work(K, N, Tail(t), Steps(Head(t)), d, m, live)
<1> DEFINE op == Head(t)
           rest == Tail(t)
           s == Steps(op)
<1>1. /\ op \in Operations /\ Orderly(rest, s)
      /\ Adds(rest, s) = Adds(t, <<>>) /\ Dels(rest, s) = Dels(t, <<>>)
      /\ Clears(rest, s) <=> Clears(t, <<>>)
      /\ Clears(t, <<>>) <=> op.kind = "replace"
  <2>1. Orderly(t, <<>>)
    BY DEF Work, Plan
  <2> QED
    BY <2>1, OpTaken
<1>2. Plan(K, N, rest, s)
  BY <1>1 DEF Work, Plan
<1>3. ASSUME op.kind # "replace", NEW i \in DOMAIN s
      PROVE  s[i].kind # "add"
  <2>1. /\ s \in Seq(RowSteps)
        /\ s[i].kind = "delete" <=> op.kind = "delete"
        /\ s[i].kind = "insert" <=> op.kind = "insert"
    BY <1>1, StepsOf
  <2>2. op.kind \in {"insert", "delete"}
    BY <1>1, <1>3 DEF Operations
  <2> QED
    BY <2>1, <2>2
<1> HIDE DEF s, op, rest
<1> QED
  BY <1>1, <1>2, <1>3 DEF Work, s, op, rest

LEMMA WorkSkipped ==
  ASSUME NEW K, NEW N, NEW t \in Seq(Operations), NEW d, NEW m,
         t # <<>>, Work(K, N, t, <<>>, d, m, FALSE),
         Head(t).kind \in {"insert", "delete"},
         AddsOf(Head(t)) \subseteq Held(m), \A id \in DelsOf(Head(t)) : ~ HasId(m, id)
  PROVE  Work(K, N, Tail(t), <<>>, d, m, FALSE)
<1> DEFINE op == Head(t)
           rest == Tail(t)
<1>1. /\ op \in Operations /\ Orderly(rest, <<>>)
      /\ Adds(t, <<>>) = AddsOf(op) \cup Adds(rest, <<>>)
      /\ Dels(t, <<>>) = DelsOf(op) /\ Dels(rest, <<>>) = {}
      /\ Clears(t, <<>>) <=> op.kind = "replace"
      /\ ~ Clears(rest, <<>>)
  <2>1. Orderly(t, <<>>)
    BY DEF Work, Plan
  <2> QED
    BY <2>1, OpTaken
<1> HIDE DEF op, rest
<1>2. op.kind \in {"insert", "delete"} /\ AddsOf(op) \subseteq Held(m) /\ \A id \in DelsOf(op) : ~ HasId(m, id)
  BY DEF op
<1>3. ~ Clears(t, <<>>)
  BY <1>1, <1>2
<1>4. Plan(K, N, rest, <<>>)
  BY <1>1 DEF Work, Plan
<1>5. \A r \in Held(m) : r.id \notin DelsOf(op)
  BY <1>2 DEF HasId
<1>6. /\ Laid(K, N, d, m)
      /\ \A r \in Held(m) : r \in K \cup N
      /\ N \subseteq Adds(rest, <<>>) \cup Held(m)
  BY <1>1, <1>2, <1>3, <1>5 DEF Work
<1>7. ASSUME NEW p \in Nat, NEW q \in Nat, p < q, NEW r \in On(m, p), NEW w \in On(m, q)
      PROVE  r.id # w.id
  <2>1. r \in Held(m)
    BY DEF Held
  <2> QED
    BY <1>1, <1>3, <1>5, <1>7, <2>1 DEF Work
<1> QED
  BY <1>4, <1>6, <1>7 DEF Work, op, rest

LEMMA WorkTruncated ==
  ASSUME NEW K, NEW N, NEW t \in Seq(Operations), NEW s \in Seq(RowSteps), NEW d, NEW m,
         NEW live \in BOOLEAN,
         s # <<>>, Head(s).kind = "truncate", Work(K, N, t, s, d, m, live)
  PROVE  Work(K, N, t, Tail(s), <<>>, <<>>, live)
<1> DEFINE rest == Tail(s)
           step == Head(s)
<1>1. /\ Orderly(t, rest)
      /\ Adds(t, s) = StepAdds(step) \cup Adds(t, rest)
      /\ Dels(t, s) = StepDels(step) \cup Dels(t, rest)
      /\ Clears(t, s) <=> step.kind = "truncate"
      /\ step.kind # "delete" => Dels(t, s) = {}
  <2>1. Orderly(t, s)
    BY DEF Work, Plan
  <2> QED
    BY <2>1, StepDone
<1>2. step.kind = "truncate"
  OBVIOUS
<1> HIDE DEF rest, step
<1>3. Adds(t, rest) = Adds(t, s) /\ Dels(t, rest) = {} /\ Clears(t, s)
  BY <1>1, <1>2 DEF StepAdds
<1>4. N \subseteq Adds(t, rest) /\ K = {} /\ Adds(t, rest) \subseteq N
  BY <1>3 DEF Work, Plan
<1>5. Plan(K, N, t, rest)
  BY <1>1, <1>3, <1>4 DEF Plan
<1>6. /\ \A p \in Nat : PageOf(<<>>, p) = <<>> /\ On(<<>>, p) = {}
      /\ Held(<<>>) = {} /\ OnceOn(<<>>)
  BY EmptyOn DEF Held, OnceOn
<1>7. Laid(K, N, <<>>, <<>>)
  BY <1>4, <1>6 DEF Laid, Either
<1>8. \A id : OnePage(<<>>, <<>>, id) /\ ~ HasId(<<>>, id)
  BY <1>6 DEF OnePage, Either, HasId
<1> QED
  BY <1>4, <1>5, <1>6, <1>7, <1>8 DEF Work, rest

LEMMA WorkDone ==
  ASSUME NEW K, NEW N, NEW d, NEW m \in Heaps, NEW live \in BOOLEAN,
         Final(K, N), Work(K, N, <<>>, <<>>, d, m, live)
  PROVE  Unique(m) /\ Held(m) = K \cup N
<1>1. Adds(<<>>, <<>>) = {} /\ Dels(<<>>, <<>>) = {} /\ ~ Clears(<<>>, <<>>)
  BY DEF Adds, Dels, Clears, LaterAdds, NowAdds, LaterDels, NowDels
<1>2. /\ Laid(K, N, d, m)
      /\ \A r \in Held(m) : r \in K \cup N
      /\ N \subseteq Held(m)
      /\ \A p, q \in Nat : p < q => \A r \in On(m, p), w \in On(m, q) : r.id # w.id
  BY <1>1 DEF Work
<1>3. K \subseteq Held(m)
  BY <1>2 DEF Laid, Held
<1>4. Unique(m)
  BY <1>2 DEF Unique, Laid
<1> QED
  BY <1>2, <1>3, <1>4

LEMMA WorkInserted ==
  ASSUME NEW K, NEW N, NEW t \in Seq(Operations), NEW s \in Seq(RowSteps),
         NEW d \in Heaps, NEW m \in Heaps, NEW live \in BOOLEAN,
         Final(K, N), Len(d) <= Len(m), s # <<>>, Head(s).kind \in {"insert", "add"},
         Work(K, N, t, s, d, m, live),
         Head(s).kind = "insert" /\ ~ live => ~ HasId(m, Head(s).arg.id)
  PROVE  Work(K, N, t, Tail(s), d, InsertRow(m, Head(s).arg), live)
<1> DEFINE step == Head(s)
           rest == Tail(s)
           row == step.arg
           k == InsertRow(m, row)
<1>1. /\ step \in RowSteps /\ rest \in Seq(RowSteps) /\ 1 \in DOMAIN s /\ s[1] = step
      /\ Orderly(t, rest)
      /\ Adds(t, s) = StepAdds(step) \cup Adds(t, rest)
      /\ Dels(t, s) = StepDels(step) \cup Dels(t, rest)
      /\ ~ Clears(t, rest)
      /\ Clears(t, s) <=> step.kind = "truncate"
      /\ \A r \in StepAdds(step), q \in Adds(t, rest) : r.id # q.id
      /\ step.kind # "delete" => Dels(t, s) = {}
      /\ \A i \in DOMAIN rest : \E j \in DOMAIN s : rest[i] = s[j]
  <2>1. Orderly(t, s)
    BY DEF Work, Plan
  <2> QED
    BY <2>1, StepDone
<1>2. /\ step.kind \in {"insert", "add"}
      /\ step.kind = "insert" /\ ~ live => ~ HasId(m, row.id)
  OBVIOUS
<1>3. row \in Rows
  BY <1>1, <1>2 DEF RowSteps
<1>4. k \in Heaps /\ Len(m) <= Len(k)
  BY <1>3, InsertIs
<1>5. PICK p \in Nat :
        /\ p >= Len(m)
        /\ On(k, p) = On(m, p) \cup {row}
        /\ \A q \in Nat : q # p => PageOf(k, q) = PageOf(m, q)
        /\ OnceOn(PageOf(m, p)) /\ (\A w \in On(m, p) : w.id # row.id) => OnceOn(PageOf(k, p))
  BY <1>3, InsertOn
<1> HIDE DEF k, row, rest, step
<1>6. /\ ~ Clears(t, s) /\ Dels(t, s) = {} /\ Dels(t, rest) = {}
      /\ StepAdds(step) = {row} /\ Adds(t, s) = {row} \cup Adds(t, rest)
      /\ \A q \in Adds(t, rest) : row.id # q.id
  BY <1>1, <1>2 DEF StepAdds, row
<1>7. Plan(K, N, t, rest) /\ row \in N
  BY <1>1, <1>6 DEF Work, Plan
<1>8. /\ Laid(K, N, d, m)
      /\ \A r \in Held(m) : r \in K \cup N
      /\ N \subseteq Adds(t, s) \cup Held(m)
      /\ \A a, b \in Nat : a < b => \A r \in On(m, a), w \in On(m, b) : r.id # w.id
      /\ step.kind = "add" => ~ HasId(d, row.id) /\ ~ HasId(m, row.id)
      /\ step.kind = "insert" /\ ~ live => (HasId(d, row.id) => HasId(m, row.id))
      /\ live => OnePage(d, m, row.id) /\ ~ HasId(m, row.id)
  BY <1>1, <1>6 DEF Work, row
<1>9. ~ HasId(m, row.id)
  BY <1>2, <1>8
<1>10. \A a \in Nat : \A w \in On(m, a) : w.id # row.id
  BY <1>9 DEF HasId, Held
<1>11. \A a, b \in Nat : a < b =>
         \A r \in Either(d, m, a), w \in Either(d, m, b) : ~ (r.id = row.id /\ w.id = row.id)
  <2>1. CASE ~ live
    <3>1. ~ HasId(d, row.id)
      BY <1>2, <1>8, <1>9, <2>1
    <3>2. \A a \in Nat : \A w \in On(d, a) : w.id # row.id
      BY <3>1 DEF HasId, Held
    <3> QED
      BY <1>10, <3>2 DEF Either
  <2>2. CASE live
    BY <1>8, <2>2 DEF OnePage
  <2> QED
    BY <2>1, <2>2
<1>12. /\ \A a \in Nat : a # p => Either(d, k, a) = Either(d, m, a) /\ On(k, a) = On(m, a)
       /\ Either(d, k, p) = Either(d, m, p) \cup {row}
  BY <1>5 DEF Either, On
<1>13. \A a \in Nat : a > p => Either(d, m, a) = {}
  <2> SUFFICES ASSUME NEW a \in Nat, a > p PROVE Either(d, m, a) = {}
    OBVIOUS
  <2>1. Len(d) \in Nat /\ Len(m) \in Nat
    BY DEF Heaps
  <2>2. a \notin 1 .. Len(d) /\ a \notin 1 .. Len(m)
    BY <1>5, <2>1
  <2> QED
    BY <2>2, PageIs DEF Either
<1>14. Laid(K, N, d, k)
  <2>1. ASSUME NEW a \in Nat PROVE OnceOn(PageOf(d, a)) /\ OnceOn(PageOf(k, a))
    BY <1>5, <1>8, <1>10 DEF Laid
  <2>2. \A x \in K : \E a \in Nat : x \in On(d, a) /\ x \in On(k, a)
    <3>1. \A a \in Nat : On(m, a) \subseteq On(k, a)
      BY <1>5, <1>12
    <3> QED
      BY <1>8, <3>1 DEF Laid
  <2>3. ASSUME NEW a \in Nat, NEW b \in Nat, a < b,
               NEW r \in Either(d, k, a), NEW w \in Either(d, k, b), r.id = w.id
        PROVE  w \in N /\ \A u \in Nat : b < u => \A x \in Either(d, k, u) : x.id # r.id
    <3>1. b <= p
      <4>1. b > p => Either(d, k, b) = {}
        BY <1>12, <1>13
      <4> QED
        BY <2>3, <4>1
    <3>2. a # p /\ r \in Either(d, m, a)
      BY <1>12, <2>3, <3>1
    <3>3. \A u \in Nat : b < u /\ u # p => Either(d, k, u) = Either(d, m, u)
      BY <1>12
    <3>4. CASE r.id = row.id
      <4>1. b = p
        BY <1>11, <1>12, <2>3, <3>1, <3>2, <3>4
      <4>2. w = row
        BY <1>11, <1>12, <2>3, <3>2, <3>4, <4>1
      <4>3. \A u \in Nat : b < u => Either(d, k, u) = {}
        BY <1>12, <1>13, <4>1
      <4> QED
        BY <1>7, <4>2, <4>3
    <3>5. CASE r.id # row.id
      <4>1. w # row /\ w \in Either(d, m, b)
        BY <1>12, <2>3, <3>5
      <4>2. w \in N /\ \A u \in Nat : b < u => \A x \in Either(d, m, u) : x.id # r.id
        BY <1>8, <2>3, <3>2, <4>1 DEF Laid
      <4>3. ASSUME NEW u \in Nat, b < u, NEW x \in Either(d, k, u) PROVE x.id # r.id
        BY <1>12, <3>5, <4>2, <4>3
      <4> QED
        BY <4>2, <4>3
    <3> QED
      BY <3>4, <3>5
  <2> QED
    BY <2>1, <2>2, <2>3 DEF Laid
<1>15. Held(k) = Held(m) \cup {row}
  <2>1. \A a \in Nat : On(k, a) \subseteq On(m, a) \cup {row} /\ On(m, a) \subseteq On(k, a)
    BY <1>5, <1>12
  <2>2. row \in On(k, p)
    BY <1>5
  <2> QED
    BY <2>1, <2>2 DEF Held
<1>16. ASSUME NEW a \in Nat, NEW b \in Nat, a < b, NEW r \in On(k, a), NEW w \in On(k, b)
       PROVE  r.id # w.id
  <2>1. CASE r \in On(m, a) /\ w \in On(m, b)
    BY <1>8, <1>16, <2>1
  <2>2. CASE ~ (r \in On(m, a) /\ w \in On(m, b))
    <3>1. (a = p /\ r = row /\ w \in On(m, b)) \/ (b = p /\ w = row /\ r \in On(m, a))
      BY <1>5, <1>12, <1>16, <2>2
    <3> QED
      BY <1>10, <3>1
  <2> QED
    BY <2>1, <2>2
<1>17. ASSUME NEW i \in DOMAIN rest
       PROVE  /\ rest[i].kind = "add" => ~ HasId(d, rest[i].arg.id) /\ ~ HasId(k, rest[i].arg.id)
              /\ rest[i].kind = "insert" /\ ~ live =>
                   (HasId(d, rest[i].arg.id) => HasId(k, rest[i].arg.id))
  <2>1. PICK j \in DOMAIN s : rest[i] = s[j]
    BY <1>1
  <2>2. rest[i].kind \in {"insert", "add"} => rest[i].arg \in Adds(t, rest)
    BY DEF Adds, NowAdds, StepAdds
  <2>3. rest[i].kind \in {"insert", "add"} => row.id # rest[i].arg.id
    BY <1>6, <2>2
  <2>4. \A id : id # row.id => (HasId(k, id) <=> HasId(m, id))
    BY <1>15 DEF HasId
  <2> QED
    BY <1>6, <2>1, <2>3, <2>4 DEF Work
<1>18. ASSUME live, NEW r \in Adds(t, rest)
       PROVE  OnePage(d, k, r.id) /\ ~ HasId(k, r.id)
  <2>1. r.id # row.id /\ r \in Adds(t, s)
    BY <1>6
  <2>2. OnePage(d, m, r.id) /\ ~ HasId(m, r.id)
    BY <1>6, <1>18, <2>1 DEF Work
  <2>3. ~ HasId(k, r.id)
    BY <1>15, <2>1, <2>2 DEF HasId
  <2>4. OnePage(d, k, r.id)
    <3> SUFFICES ASSUME NEW a \in Nat, NEW b \in Nat, a < b,
                        NEW x \in Either(d, k, a), NEW w \in Either(d, k, b),
                        x.id = r.id, w.id = r.id
                 PROVE  FALSE
      BY DEF OnePage
    <3>1. x \in Either(d, m, a) /\ w \in Either(d, m, b)
      BY <1>12, <2>1
    <3> QED
      BY <2>2, <3>1 DEF OnePage
  <2> QED
    BY <2>3, <2>4
<1>19. N \subseteq Adds(t, rest) \cup Held(k)
  BY <1>6, <1>8, <1>15
<1>20. \A r \in Held(k) : r \in K \cup N
  BY <1>7, <1>8, <1>15
<1> QED
  BY <1>7, <1>14, <1>16, <1>17, <1>18, <1>19, <1>20 DEF Work, k, row, rest, step

\* What a deletion leaves: a row with the id is behind the one that went.
LEMMA DeleteLeaves ==
  ASSUME Keyed, NEW m \in Heaps, NEW id, \A p \in Nat : OnceOn(PageOf(m, p))
  PROVE  LET k == DeleteId(m, id)
         IN  /\ \A p \in Nat : OnceOn(PageOf(k, p)) /\ On(k, p) \subseteq On(m, p)
             /\ \A p \in Nat : \A x \in On(m, p) : x.id # id => x \in On(k, p)
             /\ \A p \in Nat : \A x \in On(k, p) : x.id = id =>
                  \E q \in Nat : q < p /\ \E r \in On(m, q) : r.id = id
<1> DEFINE k == DeleteId(m, id)
<1>1. \/ k = m /\ ~ HasId(m, id)
      \/ \E p \in Nat : \E r \in On(m, p) :
           /\ r.id = id
           /\ \A q \in Nat : q < p => \A w \in On(m, q) : w.id # id
           /\ On(k, p) = On(m, p) \ {r} /\ OnceOn(PageOf(k, p))
           /\ \A q \in Nat : q # p => PageOf(k, q) = PageOf(m, q)
  BY DeleteOn
<1> HIDE DEF k
<1>2. CASE k = m /\ ~ HasId(m, id)
  <2>1. \A p \in Nat : \A x \in On(m, p) : x.id # id
    BY <1>2 DEF HasId, Held
  <2> QED
    BY <1>2, <2>1 DEF k
<1>3. CASE \E p \in Nat : \E r \in On(m, p) :
             /\ r.id = id
             /\ \A q \in Nat : q < p => \A w \in On(m, q) : w.id # id
             /\ On(k, p) = On(m, p) \ {r} /\ OnceOn(PageOf(k, p))
             /\ \A q \in Nat : q # p => PageOf(k, q) = PageOf(m, q)
  <2>0. PICK p \in Nat : \E r \in On(m, p) :
           /\ r.id = id
           /\ \A q \in Nat : q < p => \A w \in On(m, q) : w.id # id
           /\ On(k, p) = On(m, p) \ {r} /\ OnceOn(PageOf(k, p))
           /\ \A q \in Nat : q # p => PageOf(k, q) = PageOf(m, q)
    BY <1>3
  <2>1. PICK r \in On(m, p) :
           /\ r.id = id
           /\ \A q \in Nat : q < p => \A w \in On(m, q) : w.id # id
           /\ On(k, p) = On(m, p) \ {r} /\ OnceOn(PageOf(k, p))
           /\ \A q \in Nat : q # p => PageOf(k, q) = PageOf(m, q)
    BY <2>0
  <2>2. \A q \in Nat : q # p => On(k, q) = On(m, q)
    BY <2>1 DEF On
  <2>3. \A x \in On(m, p) : x.id = id => x = r
    BY <2>1 DEF OnceOn, On, ToSet
  <2>4. ASSUME NEW q \in Nat, NEW x \in On(k, q), x.id = id
        PROVE  p < q
    <3>1. q # p
      BY <2>1, <2>3, <2>4
    <3>2. ~ (q < p)
      BY <2>1, <2>2, <2>4, <3>1
    <3> QED
      BY <3>1, <3>2
  <2>5. \A q \in Nat : OnceOn(PageOf(k, q)) /\ On(k, q) \subseteq On(m, q)
    BY <2>1, <2>2
  <2>6. \A q \in Nat : \A x \in On(m, q) : x.id # id => x \in On(k, q)
    BY <2>1, <2>2
  <2> QED
    BY <2>1, <2>4, <2>5, <2>6 DEF k
<1> QED
  BY <1>1, <1>2, <1>3

LEMMA WorkDeleted ==
  ASSUME Keyed, NEW K, NEW N, NEW t \in Seq(Operations), NEW s \in Seq(RowSteps),
         NEW d \in Heaps, NEW m \in Heaps, NEW live \in BOOLEAN,
         s # <<>>, Head(s).kind = "delete", Work(K, N, t, s, d, m, live)
  PROVE  Work(K, N, t, Tail(s), d, DeleteId(m, Head(s).arg), live)
<1> DEFINE step == Head(s)
           rest == Tail(s)
           id == step.arg
           k == DeleteId(m, id)
<1>1. /\ step \in RowSteps /\ rest \in Seq(RowSteps) /\ 1 \in DOMAIN s /\ s[1] = step
      /\ Orderly(t, rest)
      /\ Adds(t, s) = StepAdds(step) \cup Adds(t, rest)
      /\ Dels(t, s) = StepDels(step) \cup Dels(t, rest)
      /\ ~ Clears(t, rest)
      /\ Clears(t, s) <=> step.kind = "truncate"
      /\ step.kind = "delete" => NowAdds(s) = {} /\ Clears(t, s) = FALSE
      /\ \A i \in DOMAIN rest : \E j \in DOMAIN s : rest[i] = s[j]
  <2>1. Orderly(t, s)
    BY DEF Work, Plan
  <2> QED
    BY <2>1, StepDone
<1>2. step.kind = "delete"
  OBVIOUS
<1>3. ~ Clears(t, s)
  BY <1>1, <1>2
<1>4. /\ Laid(K, N, d, m)
      /\ \A r \in Held(m) : r \in K \cup N \/ r.id \in Dels(t, s)
      /\ \A p, q \in Nat : p < q =>
           \A r \in On(m, p), w \in On(m, q) : r.id = w.id => r.id \in Dels(t, s)
      /\ live => \A r \in Adds(t, s) :
           OnePage(d, m, r.id) /\ (HasId(m, r.id) => r.id \in Dels(t, s))
  BY <1>3 DEF Work
<1>5. \A p \in Nat : OnceOn(PageOf(m, p))
  BY <1>4 DEF Laid
<1> HIDE DEF k, id, rest, step
<1>7. Adds(t, rest) = Adds(t, s) /\ Dels(t, s) = {id} \cup Dels(t, rest)
  BY <1>1, <1>2 DEF StepAdds, StepDels, id
<1>8. /\ Adds(t, s) \subseteq N /\ N \subseteq Adds(t, s)
      /\ \A x \in K : x.id \notin Dels(t, s)
  BY <1>7 DEF Work, Plan
<1>9. Plan(K, N, t, rest)
  BY <1>1, <1>7, <1>8 DEF Plan
<1>10. \A i \in DOMAIN rest : rest[i].kind \notin {"insert", "add"}
  <2>1. \A j \in DOMAIN s : StepAdds(s[j]) = {}
    BY <1>1, <1>2 DEF NowAdds
  <2>2. \A j \in DOMAIN s : s[j].kind \notin {"insert", "add"}
    BY <2>1 DEF StepAdds
  <2> QED
    BY <1>1, <2>2
<1>11. /\ \A p \in Nat : OnceOn(PageOf(k, p)) /\ On(k, p) \subseteq On(m, p)
       /\ \A p \in Nat : \A x \in On(m, p) : x.id # id => x \in On(k, p)
       /\ \A p \in Nat : \A x \in On(k, p) : x.id = id =>
            \E q \in Nat : q < p /\ \E r \in On(m, q) : r.id = id
  BY <1>5, DeleteLeaves DEF k
<1>12. \A p \in Nat : Either(d, k, p) \subseteq Either(d, m, p)
  BY <1>11 DEF Either
<1>13. Laid(K, N, d, k)
  <2>1. \A x \in K : \E p \in Nat : x \in On(d, p) /\ x \in On(k, p)
    <3>1. \A x \in K : x.id # id
      BY <1>7, <1>8
    <3> QED
      BY <1>4, <1>11, <3>1 DEF Laid
  <2>2. \A p \in Nat : OnceOn(PageOf(d, p)) /\ OnceOn(PageOf(k, p))
    BY <1>4, <1>11 DEF Laid
  <2>3. ASSUME NEW a \in Nat, NEW b \in Nat, a < b,
               NEW r \in Either(d, k, a), NEW w \in Either(d, k, b), r.id = w.id
        PROVE  w \in N /\ \A u \in Nat : b < u => \A x \in Either(d, k, u) : x.id # r.id
    <3>1. r \in Either(d, m, a) /\ w \in Either(d, m, b)
      BY <1>12
    <3>2. w \in N /\ \A u \in Nat : b < u => \A x \in Either(d, m, u) : x.id # r.id
      BY <1>4, <2>3, <3>1 DEF Laid
    <3> QED
      BY <1>12, <3>2
  <2> QED
    BY <2>1, <2>2, <2>3 DEF Laid
<1>14. ASSUME NEW r \in Held(k) PROVE r \in K \cup N \/ r.id \in Dels(t, rest)
  <2>1. PICK p \in Nat : r \in On(k, p)
    BY DEF Held
  <2>2. r \in Held(m) /\ r \in On(m, p)
    BY <1>11, <2>1 DEF Held
  <2>3. CASE r.id # id
    BY <1>4, <1>7, <2>2, <2>3
  <2>4. CASE r.id = id
    <3>1. PICK q \in Nat : q < p /\ \E x \in On(m, q) : x.id = id
      BY <1>11, <2>1, <2>4
    <3> QED
      BY <1>4, <2>2, <2>4, <3>1 DEF Laid, Either
  <2> QED
    BY <2>3, <2>4
<1>15. ASSUME NEW a \in Nat, NEW b \in Nat, a < b, NEW r \in On(k, a), NEW w \in On(k, b),
              r.id = w.id
       PROVE  r.id \in Dels(t, rest)
  <2>1. r \in On(m, a) /\ w \in On(m, b)
    BY <1>11
  <2>2. r.id \in Dels(t, s)
    BY <1>4, <1>15, <2>1
  <2>3. CASE r.id = id
    <3>1. PICK q \in Nat : q < a /\ \E x \in On(m, q) : x.id = id
      BY <1>11, <2>3
    <3>2. PICK x \in On(m, q) : x.id = id
      BY <3>1
    <3>3. x \in Either(d, m, q) /\ r \in Either(d, m, a) /\ w \in Either(d, m, b)
      BY <2>1 DEF Either
    <3>4. \A u \in Nat : a < u => \A y \in Either(d, m, u) : y.id # x.id
      BY <1>4, <2>3, <3>1, <3>2, <3>3 DEF Laid
    <3> QED
      BY <1>15, <2>3, <3>2, <3>3, <3>4
  <2> QED
    BY <1>7, <2>2, <2>3
<1>16. ASSUME live, NEW r \in Adds(t, rest)
       PROVE  OnePage(d, k, r.id) /\ (HasId(k, r.id) => r.id \in Dels(t, rest))
  <2>1. OnePage(d, m, r.id) /\ (HasId(m, r.id) => r.id \in Dels(t, s))
    BY <1>4, <1>7, <1>16
  <2>2. OnePage(d, k, r.id)
    BY <1>12, <2>1 DEF OnePage
  <2>3. ASSUME HasId(k, r.id) PROVE r.id \in Dels(t, rest)
    <3>1. PICK x \in Held(k) : x.id = r.id
      BY <2>3 DEF HasId
    <3>2. PICK p \in Nat : x \in On(k, p)
      BY DEF Held
    <3>3. x \in On(m, p) /\ HasId(m, r.id)
      BY <1>11, <3>1, <3>2 DEF HasId, Held
    <3>4. CASE r.id = id
      <4>1. PICK q \in Nat : q < p /\ \E y \in On(m, q) : y.id = id
        BY <1>11, <3>1, <3>2, <3>4
      <4> QED
        BY <2>1, <3>1, <3>3, <3>4, <4>1 DEF OnePage, Either
    <3> QED
      BY <1>7, <2>1, <3>3, <3>4
  <2> QED
    BY <2>2, <2>3
<1> QED
  BY <1>7, <1>8, <1>9, <1>10, <1>13, <1>14, <1>15, <1>16 DEF Work, k, id, rest, step

(***************************************************************************)
(* A page is written; a crash; a replay.                                   *)
(***************************************************************************)

\* e is the data file d after a page of m was written to it.
Written(d, m, e) ==
    \E p \in Nat : /\ PageOf(e, p) = PageOf(m, p)
                   /\ \A q \in Nat : q # p => PageOf(e, q) = PageOf(d, q)

LEMMA WrittenIs ==
  ASSUME NEW d, NEW m, NEW e, Written(d, m, e)
  PROVE  /\ \A p \in Nat : Either(e, m, p) \subseteq Either(d, m, p)
         /\ Held(e) \subseteq Held(d) \cup Held(m)
         /\ \A ids : Apart(d, m, ids) => Apart(e, m, ids)
         /\ \A K, N : Laid(K, N, d, m) => Laid(K, N, e, m)
<1>1. PICK p \in Nat : /\ PageOf(e, p) = PageOf(m, p)
                       /\ \A q \in Nat : q # p => PageOf(e, q) = PageOf(d, q)
  BY DEF Written
<1>2. On(e, p) = On(m, p) /\ \A q \in Nat : q # p => On(e, q) = On(d, q)
  BY <1>1 DEF On
<1>3. \A q \in Nat : Either(e, m, q) \subseteq Either(d, m, q)
  BY <1>2 DEF Either
<1>4. Held(e) \subseteq Held(d) \cup Held(m)
  <2>1. \A q \in Nat : On(e, q) \subseteq On(d, q) \cup On(m, q)
    BY <1>2
  <2> QED
    BY <2>1 DEF Held
<1>5. ASSUME NEW K, NEW N, Laid(K, N, d, m) PROVE Laid(K, N, e, m)
  <2>1. \A q \in Nat : OnceOn(PageOf(e, q)) /\ OnceOn(PageOf(m, q))
    BY <1>1, <1>5 DEF Laid
  <2>2. \A x \in K : \E q \in Nat : x \in On(e, q) /\ x \in On(m, q)
    BY <1>2, <1>5 DEF Laid
  <2>3. ASSUME NEW a \in Nat, NEW b \in Nat, a < b,
               NEW r \in Either(e, m, a), NEW w \in Either(e, m, b), r.id = w.id
        PROVE  w \in N /\ \A u \in Nat : b < u => \A x \in Either(e, m, u) : x.id # r.id
    <3>1. r \in Either(d, m, a) /\ w \in Either(d, m, b)
      BY <1>3
    <3>2. w \in N /\ \A u \in Nat : b < u => \A x \in Either(d, m, u) : x.id # r.id
      BY <1>5, <2>3, <3>1 DEF Laid
    <3> QED
      BY <1>3, <3>2
  <2> QED
    BY <2>1, <2>2, <2>3 DEF Laid
<1>6. \A ids : Apart(d, m, ids) => Apart(e, m, ids)
  BY <1>3 DEF Apart
<1> QED
  BY <1>3, <1>4, <1>5, <1>6

LEMMA WorkWritten ==
  ASSUME NEW K, NEW N, NEW t, NEW s, NEW d, NEW m, NEW e, NEW live \in BOOLEAN,
         Work(K, N, t, s, d, m, live), Written(d, m, e)
  PROVE  Work(K, N, t, s, e, m, live)
<1>1. /\ \A p \in Nat : Either(e, m, p) \subseteq Either(d, m, p)
      /\ Held(e) \subseteq Held(d) \cup Held(m)
      /\ Laid(K, N, d, m) => Laid(K, N, e, m)
  BY WrittenIs
<1>2. \A id : OnePage(d, m, id) => OnePage(e, m, id)
  BY <1>1 DEF OnePage
<1>3. \A id : HasId(e, id) => HasId(d, id) \/ HasId(m, id)
  BY <1>1 DEF HasId
<1> QED
  BY <1>1, <1>2, <1>3 DEF Work

LEMMA RedoWritten ==
  ASSUME NEW K, NEW N, NEW g, NEW d, NEW m, NEW e, Redo(K, N, g, d, m), Written(d, m, e)
  PROVE  Redo(K, N, g, e, m)
<1>1. /\ Held(e) \subseteq Held(d) \cup Held(m)
      /\ Laid(K, N, d, m) => Laid(K, N, e, m)
      /\ \A ids : Apart(d, m, ids) => Apart(e, m, ids)
  BY WrittenIs
<1> QED
  BY <1>1 DEF Redo

\* Of the cache nothing is left.
LEMMA RedoCrashed ==
  ASSUME NEW K, NEW N, NEW g, NEW d, NEW m, Redo(K, N, g, d, m)
  PROVE  Redo(K, N, g, d, d)
<1>1. \A p \in Nat : Either(d, d, p) \subseteq Either(d, m, p)
  BY DEF Either
<1>2. ASSUME Laid(K, N, d, m) PROVE Laid(K, N, d, d)
  <2>1. \A q \in Nat : OnceOn(PageOf(d, q))
    BY <1>2 DEF Laid
  <2>2. \A x \in K : \E q \in Nat : x \in On(d, q)
    BY <1>2 DEF Laid
  <2>3. ASSUME NEW a \in Nat, NEW b \in Nat, a < b,
               NEW r \in Either(d, d, a), NEW w \in Either(d, d, b), r.id = w.id
        PROVE  w \in N /\ \A u \in Nat : b < u => \A x \in Either(d, d, u) : x.id # r.id
    <3>1. r \in Either(d, m, a) /\ w \in Either(d, m, b)
      BY <1>1
    <3>2. w \in N /\ \A u \in Nat : b < u => \A x \in Either(d, m, u) : x.id # r.id
      BY <1>2, <2>3, <3>1 DEF Laid
    <3> QED
      BY <1>1, <3>2
  <2> QED
    BY <2>1, <2>2, <2>3 DEF Laid
<1>3. \A ids : Apart(d, m, ids) => Apart(d, d, ids)
  BY <1>1 DEF Apart
<1> QED
  BY <1>2, <1>3 DEF Redo

LEMMA RedoStarts ==
  ASSUME NEW K, NEW N, NEW g, NEW d, Redo(K, N, g, d, d)
  PROVE  Work(K, N, g, <<>>, d, d, FALSE) /\ Covers(K, N, g, g, <<>>, d, d, FALSE)
<1>1. ASSUME ~ Clears(g, <<>>), NEW p \in Nat, NEW q \in Nat, p < q,
             NEW r \in On(d, p), NEW w \in On(d, q), r.id = w.id
      PROVE  r.id \in Dels(g, <<>>)
  BY <1>1 DEF Redo, Apart, Either
<1>2. Plan(K, N, g, <<>>) /\ N \subseteq Adds(g, <<>>)
  BY DEF Redo
<1> QED
  BY <1>1, <1>2 DEF Work, Redo, Covers

LEMMA RedoOf ==
  ASSUME NEW K, NEW N, NEW g, NEW t, NEW s, NEW d, NEW m, NEW live \in BOOLEAN,
         Work(K, N, t, s, d, m, live), Covers(K, N, g, t, s, d, m, live)
  PROVE  Redo(K, N, g, d, m)
BY DEF Work, Covers, Redo

LEMMA CoversTaken ==
  ASSUME NEW K, NEW N, NEW g, NEW t \in Seq(Operations), NEW d, NEW m, NEW live \in BOOLEAN,
         t # <<>>, Orderly(t, <<>>), Covers(K, N, g, t, <<>>, d, m, live)
  PROVE  Covers(K, N, g, Tail(t), Steps(Head(t)), d, m, live)
<1>1. /\ Adds(Tail(t), Steps(Head(t))) = Adds(t, <<>>)
      /\ Dels(Tail(t), Steps(Head(t))) = Dels(t, <<>>)
      /\ Clears(Tail(t), Steps(Head(t))) <=> Clears(t, <<>>)
  BY OpTaken
<1> QED
  BY <1>1 DEF Covers

LEMMA CoversSkipped ==
  ASSUME NEW K, NEW N, NEW g, NEW t \in Seq(Operations), NEW d, NEW m,
         t # <<>>, Orderly(t, <<>>), Covers(K, N, g, t, <<>>, d, m, FALSE)
  PROVE  Covers(K, N, g, Tail(t), <<>>, d, m, FALSE)
<1>1. Dels(Tail(t), <<>>) = {} /\ ~ Clears(Tail(t), <<>>)
  BY OpTaken
<1> QED
  BY <1>1 DEF Covers

LEMMA CoversTruncated ==
  ASSUME NEW K, NEW N, NEW g, NEW t \in Seq(Operations), NEW s \in Seq(RowSteps), NEW d, NEW m,
         NEW e, NEW k, NEW live \in BOOLEAN,
         s # <<>>, Orderly(t, s), Head(s).kind = "truncate", Covers(K, N, g, t, s, d, m, live)
  PROVE  Covers(K, N, g, t, Tail(s), e, k, live)
<1>1. /\ Dels(t, s) = StepDels(Head(s)) \cup Dels(t, Tail(s))
      /\ Clears(t, s) <=> Head(s).kind = "truncate"
  BY StepDone
<1> QED
  BY <1>1 DEF Covers

LEMMA CoversInserted ==
  ASSUME NEW K, NEW N, NEW g, NEW t \in Seq(Operations), NEW s \in Seq(RowSteps),
         NEW d \in Heaps, NEW m \in Heaps, NEW live \in BOOLEAN,
         Len(d) <= Len(m), s # <<>>, Head(s).kind \in {"insert", "add"},
         Work(K, N, t, s, d, m, live), Covers(K, N, g, t, s, d, m, live),
         Head(s).kind = "insert" /\ ~ live => ~ HasId(m, Head(s).arg.id)
  PROVE  Covers(K, N, g, t, Tail(s), d, InsertRow(m, Head(s).arg), live)
<1> DEFINE step == Head(s)
           rest == Tail(s)
           row == step.arg
           k == InsertRow(m, row)
           ids == Dels(g, <<>>)
<1>1. /\ step \in RowSteps /\ 1 \in DOMAIN s /\ s[1] = step
      /\ Adds(t, s) = StepAdds(step) \cup Adds(t, rest)
      /\ Dels(t, s) = StepDels(step) \cup Dels(t, rest)
      /\ ~ Clears(t, rest)
      /\ Clears(t, s) <=> step.kind = "truncate"
      /\ step.kind # "delete" => Dels(t, s) = {}
  <2>1. Orderly(t, s)
    BY DEF Work, Plan
  <2> QED
    BY <2>1, StepDone
<1>2. /\ step.kind \in {"insert", "add"}
      /\ step.kind = "insert" /\ ~ live => ~ HasId(m, row.id)
  OBVIOUS
<1>3. row \in Rows
  BY <1>1, <1>2 DEF RowSteps
<1>4. PICK p \in Nat :
        /\ p >= Len(m)
        /\ On(k, p) = On(m, p) \cup {row}
        /\ \A q \in Nat : q # p => PageOf(k, q) = PageOf(m, q)
  BY <1>3, InsertOn
<1> HIDE DEF k, row, rest, step, ids
<1>5. row \in Adds(t, s) /\ Dels(t, rest) = {} /\ Dels(t, s) = {} /\ ~ Clears(t, s)
      /\ Adds(t, rest) \subseteq Adds(t, s)
  BY <1>1, <1>2 DEF StepAdds, row
<1>6. ASSUME ~ Clears(g, <<>>) PROVE Apart(d, k, ids)
  <2>1. /\ step.kind = "add" => ~ HasId(d, row.id) /\ ~ HasId(m, row.id)
        /\ step.kind = "insert" /\ ~ live => (HasId(d, row.id) => HasId(m, row.id))
        /\ live => ~ HasId(m, row.id)
    BY <1>1, <1>5 DEF Work, row
  <2>2. ~ HasId(m, row.id) /\ (HasId(d, row.id) => row.id \in ids)
    BY <1>2, <1>5, <1>6, <2>1 DEF Covers, ids
  <2>3. /\ \A a \in Nat : a # p => Either(d, k, a) = Either(d, m, a)
        /\ Either(d, k, p) = Either(d, m, p) \cup {row}
    BY <1>4 DEF Either, On
  <2>4. \A a \in Nat : a > p => Either(d, k, a) = {}
    <3> SUFFICES ASSUME NEW a \in Nat, a > p PROVE Either(d, k, a) = {}
      OBVIOUS
    <3>1. Len(d) \in Nat /\ Len(m) \in Nat
      BY DEF Heaps
    <3>2. a \notin 1 .. Len(d) /\ a \notin 1 .. Len(m) /\ a # p
      BY <1>4, <3>1
    <3> QED
      BY <2>3, <3>2, PageIs DEF Either
  <2> SUFFICES ASSUME NEW a \in Nat, NEW b \in Nat, a < b,
                      NEW r \in Either(d, k, a), NEW w \in Either(d, k, b), r.id = w.id
               PROVE  r.id \in ids
    BY DEF Apart
  <2>5. a # p /\ r \in Either(d, m, a)
    <3>1. a = p => Either(d, k, b) = {}
      BY <2>4
    <3> QED
      BY <2>3, <3>1
  <2>6. CASE r.id = row.id
    <3>1. HasId(d, row.id)
      BY <2>2, <2>5, <2>6 DEF Either, HasId, Held
    <3> QED
      BY <2>2, <2>6, <3>1
  <2>7. CASE r.id # row.id
    <3>1. w \in Either(d, m, b)
      BY <2>3, <2>7
    <3> QED
      BY <1>6, <2>5, <3>1 DEF Covers, Apart, ids
  <2> QED
    BY <2>6, <2>7
<1> QED
  BY <1>1, <1>5, <1>6 DEF Covers, k, row, rest, step, ids

LEMMA CoversDeleted ==
  ASSUME Keyed, NEW K, NEW N, NEW g, NEW t \in Seq(Operations), NEW s \in Seq(RowSteps),
         NEW d \in Heaps, NEW m \in Heaps, NEW live \in BOOLEAN,
         s # <<>>, Head(s).kind = "delete",
         Work(K, N, t, s, d, m, live), Covers(K, N, g, t, s, d, m, live)
  PROVE  Covers(K, N, g, t, Tail(s), d, DeleteId(m, Head(s).arg), live)
<1> DEFINE step == Head(s)
           rest == Tail(s)
           k == DeleteId(m, step.arg)
<1>1. /\ Adds(t, s) = StepAdds(step) \cup Adds(t, rest)
      /\ Dels(t, s) = StepDels(step) \cup Dels(t, rest)
      /\ ~ Clears(t, rest)
      /\ Clears(t, s) <=> step.kind = "truncate"
  <2>1. Orderly(t, s)
    BY DEF Work, Plan
  <2> QED
    BY <2>1, StepDone
<1>2. \A p \in Nat : OnceOn(PageOf(m, p))
  BY <1>1 DEF Work, Laid
<1> HIDE DEF rest, step
<1>3. \A p \in Nat : On(k, p) \subseteq On(m, p)
  BY <1>2, DeleteLeaves
<1> HIDE DEF k
<1>4. \A p \in Nat : Either(d, k, p) \subseteq Either(d, m, p)
  BY <1>3 DEF Either
<1>5. \A ids : Apart(d, m, ids) => Apart(d, k, ids)
  BY <1>4 DEF Apart
<1> QED
  BY <1>1, <1>5 DEF Covers, k, rest, step

LEMMA CoversWritten ==
  ASSUME NEW K, NEW N, NEW g, NEW t, NEW s, NEW d, NEW m, NEW e, NEW live \in BOOLEAN,
         Work(K, N, t, s, d, m, live), Covers(K, N, g, t, s, d, m, live), Written(d, m, e)
  PROVE  Covers(K, N, g, t, s, e, m, live)
<1>1. /\ Held(e) \subseteq Held(d) \cup Held(m)
      /\ \A ids : Apart(d, m, ids) => Apart(e, m, ids)
  BY WrittenIs
<1>2. \A id : HasId(e, id) => HasId(d, id) \/ HasId(m, id)
  BY <1>1 DEF HasId
<1>3. ASSUME ~ Clears(g, <<>>)
      PROVE  /\ \A r \in Held(m) : r \in K \cup N \/ r.id \in Dels(g, <<>>)
             /\ live => \A r \in Adds(t, s) : HasId(m, r.id) => r.id \in Dels(g, <<>>)
  BY <1>3 DEF Covers, Work
<1> QED
  BY <1>1, <1>2, <1>3 DEF Covers

(***************************************************************************)
(* What a group means.                                                     *)
(***************************************************************************)

AfterOne(f, bag, ops, n) == IF n = 0 THEN bag ELSE Effect(f[n - 1], ops[n])
AftersTo(f, bag, ops, n) == f = [m \in 0 .. n |-> AfterOne(f, bag, ops, m)]

LEMMA AftersIs ==
  ASSUME NEW bag, NEW ops
  PROVE  Afters(bag, ops) = CHOOSE f : AftersTo(f, bag, ops, Len(ops))
BY DEF Afters, AftersTo, AfterOne

\* The recursive function of Afters exists.
LEMMA AftersExist ==
  ASSUME NEW bag, NEW ops, NEW n \in Nat
  PROVE  \E f : AftersTo(f, bag, ops, n)
<1> DEFINE P == {k \in Nat : \E f : AftersTo(f, bag, ops, k)}
<1>1. 0 \in P
  <2> DEFINE f == [m \in 0 .. 0 |-> bag]
  <2>1. AftersTo(f, bag, ops, 0)
    BY DEF AftersTo, AfterOne
  <2> QED
    BY <2>1
<1>2. ASSUME NEW k \in P PROVE k + 1 \in P
  <2>1. PICK f : AftersTo(f, bag, ops, k)
    BY <1>2
  <2> DEFINE g == [m \in 0 .. k + 1 |-> IF m = k + 1 THEN Effect(f[k], ops[m]) ELSE f[m]]
  <2>2. ASSUME NEW m \in 0 .. k + 1 PROVE g[m] = AfterOne(g, bag, ops, m)
    <3>1. CASE m = k + 1
      <4>1. g[m - 1] = f[k] /\ m # 0
        BY <3>1
      <4> QED
        BY <3>1, <4>1 DEF AfterOne
    <3>2. CASE m # k + 1
      <4>1. m \in 0 .. k
        BY <3>2
      <4>2. f[m] = AfterOne(f, bag, ops, m)
        BY <2>1, <4>1 DEF AftersTo
      <4>3. m # 0 => g[m - 1] = f[m - 1]
        BY <4>1
      <4> QED
        BY <3>2, <4>2, <4>3 DEF AfterOne
    <3> QED
      BY <3>1, <3>2
  <2>3. AftersTo(g, bag, ops, k + 1)
    <3>1. g = [m \in 0 .. k + 1 |-> g[m]]
      OBVIOUS
    <3> HIDE DEF g
    <3> QED
      BY <2>2, <3>1 DEF AftersTo
  <2> HIDE DEF g
  <2> QED
    BY <2>3
<1>3. P = Nat
  <2> HIDE DEF P
  <2>1. P \in SUBSET Nat
    BY DEF P
  <2> QED
    BY <1>1, <1>2, <2>1, SetInduction
<1> QED
  BY <1>3

LEMMA AftersSteps ==
  ASSUME NEW bag, NEW ops, Len(ops) \in Nat
  PROVE  LET f == Afters(bag, ops)
         IN  f[0] = bag /\ \A n \in 1 .. Len(ops) : f[n] = Effect(f[n - 1], ops[n])
<1> DEFINE f == Afters(bag, ops)
           N == Len(ops)
<1>1. AftersTo(f, bag, ops, N)
  <2>1. \E g : AftersTo(g, bag, ops, N)
    BY AftersExist
  <2>2. f = CHOOSE g : AftersTo(g, bag, ops, N)
    BY AftersIs
  <2> HIDE DEF f, N
  <2> QED
    BY <2>1, <2>2
<1> HIDE DEF f
<1>2. \A m \in 0 .. N : f[m] = AfterOne(f, bag, ops, m)
  BY <1>1 DEF AftersTo
<1>3. f[0] = bag
  BY <1>2 DEF AfterOne
<1>4. \A n \in 1 .. N : f[n] = Effect(f[n - 1], ops[n])
  BY <1>2 DEF AfterOne
<1> QED
  BY <1>3, <1>4 DEF f

\* How often a row is in a batch without an id twice.
LEMMA OccursIs ==
  ASSUME NEW rows \in Seq(Rows), OnceOn(rows), NEW r
  PROVE  Occurs(rows, r) = IF r \in ToSet(rows) THEN 1 ELSE 0
<1> DEFINE D == {i \in DOMAIN rows : rows[i] = r}
<1>1. CASE r \in ToSet(rows)
  <2>1. PICK i \in DOMAIN rows : rows[i] = r
    BY <1>1 DEF ToSet
  <2>2. \A j \in D : j = i
    BY <2>1 DEF OnceOn
  <2>3. D = {i}
    BY <2>1, <2>2
  <2>4. Cardinality({i}) = 1
    BY FS_Singleton
  <2> QED
    BY <1>1, <2>3, <2>4 DEF Occurs
<1>2. CASE r \notin ToSet(rows)
  <2>1. D = {}
    BY <1>2 DEF ToSet
  <2>2. Cardinality({}) = 0
    BY FS_EmptySet
  <2> QED
    BY <1>2, <2>1, <2>2 DEF Occurs
<1> QED
  BY <1>1, <1>2

\* No row of a batch has an id that is there, or that another of its rows has.
Fresh(bag, rows) ==
    \A j \in DOMAIN rows : rows[j].id # NoId =>
       /\ \A r \in Rows : r.id = rows[j].id => bag[r] = 0
       /\ \A k \in 1 .. (j - 1) : rows[k].id # rows[j].id

LEMMA FreshRows ==
  ASSUME NEW bag, NEW ops, ValidateInsertIds(bag, ops), NEW i \in DOMAIN ops, ops[i].kind = "insert"
  PROVE  Fresh(Afters(bag, ops)[i - 1], ops[i].rows)
BY DEF ValidateInsertIds, Fresh

\* A validated insertion adds its rows to a set.
LEMMA EffectInserted ==
  ASSUME Keyed, NEW S \in SUBSET Rows, Distinct(S), NEW op \in Operations, op.kind = "insert",
         Fresh(BagOf(S), op.rows)
  PROVE  /\ Effect(BagOf(S), op) = BagOf(S \cup AddsOf(op))
         /\ Distinct(S \cup AddsOf(op)) /\ OnceOn(op.rows)
         /\ \A q \in S, r \in AddsOf(op) : q.id # r.id
<1> DEFINE rows == op.rows
<1>1. rows \in Seq(Rows) /\ AddsOf(op) = ToSet(rows)
  BY DEF Operations, AddsOf
<1> HIDE DEF rows
<1>2. \A j \in DOMAIN rows : rows[j] \in Rows /\ j \in Nat /\ j >= 1 /\ rows[j].id # NoId
  BY <1>1 DEF Keyed
<1>3. OnceOn(rows)
  <2> SUFFICES ASSUME NEW i \in DOMAIN rows, NEW j \in DOMAIN rows, rows[i].id = rows[j].id PROVE i = j
    BY DEF OnceOn
  <2>1. CASE i < j
    <3>1. i \in 1 .. (j - 1)
      BY <1>2, <2>1
    <3> QED
      BY <1>2, <3>1 DEF Fresh, rows
  <2>2. CASE j < i
    <3>1. j \in 1 .. (i - 1)
      BY <1>2, <2>2
    <3> QED
      BY <1>2, <3>1 DEF Fresh, rows
  <2> QED
    BY <1>2, <2>1, <2>2
<1>4. \A q \in S, r \in ToSet(rows) : q.id # r.id
  <2> SUFFICES ASSUME NEW q \in S, NEW j \in DOMAIN rows, q.id = rows[j].id PROVE FALSE
    BY DEF ToSet
  <2>1. q \in Rows /\ BagOf(S)[q] = 1
    BY DEF BagOf
  <2>2. BagOf(S)[q] = 0
    BY <1>2, <2>1 DEF Fresh, rows
  <2> QED
    BY <2>1, <2>2
<1>5. \A r, q \in ToSet(rows) : r.id = q.id => r = q
  BY <1>3 DEF OnceOn, ToSet
<1>6. Distinct(S \cup ToSet(rows))
  BY <1>4, <1>5 DEF Distinct
<1>7. Effect(BagOf(S), op) = BagOf(S \cup ToSet(rows))
  <2>1. Effect(BagOf(S), op) = [r \in Rows |-> BagOf(S)[r] + Occurs(rows, r)]
    BY DEF Effect, rows
  <2>2. ASSUME NEW r \in Rows PROVE BagOf(S)[r] + Occurs(rows, r) = BagOf(S \cup ToSet(rows))[r]
    <3>1. Occurs(rows, r) = IF r \in ToSet(rows) THEN 1 ELSE 0
      BY <1>1, <1>3, OccursIs
    <3>2. ~ (r \in S /\ r \in ToSet(rows))
      BY <1>4
    <3>3. BagOf(S)[r] = IF r \in S THEN 1 ELSE 0
      BY DEF BagOf
    <3>4. BagOf(S \cup ToSet(rows))[r] = IF r \in S \cup ToSet(rows) THEN 1 ELSE 0
      BY DEF BagOf
    <3> QED
      BY <3>1, <3>2, <3>3, <3>4
  <2>3. BagOf(S \cup ToSet(rows)) = [r \in Rows |-> BagOf(S \cup ToSet(rows))[r]]
    BY DEF BagOf
  <2> QED
    BY <2>1, <2>2, <2>3
<1> QED
  BY <1>1, <1>3, <1>4, <1>6, <1>7 DEF rows

LEMMA EffectDeleted ==
  ASSUME NEW S \in SUBSET Rows, NEW op \in Operations, op.kind = "delete"
  PROVE  Effect(BagOf(S), op) = BagOf({r \in S : r.id \notin DelsOf(op)})
<1>1. Effect(BagOf(S), op) = [r \in Rows |-> IF r.id \in ToSet(op.ids) THEN 0 ELSE BagOf(S)[r]]
  BY DEF Effect
<1>2. DelsOf(op) = ToSet(op.ids)
  BY DEF DelsOf
<1> QED
  BY <1>1, <1>2 DEF BagOf

LEMMA EffectReplaced ==
  ASSUME NEW bag, NEW op \in Operations, op.kind = "replace", OnceOn(op.rows)
  PROVE  Effect(bag, op) = BagOf(AddsOf(op)) /\ AddsOf(op) \subseteq Rows /\ Distinct(AddsOf(op))
<1>1. op.rows \in Seq(Rows) /\ AddsOf(op) = ToSet(op.rows)
  BY DEF Operations, AddsOf
<1>2. Effect(bag, op) = [r \in Rows |-> Occurs(op.rows, r)]
  BY DEF Effect
<1>3. \A r \in Rows : Occurs(op.rows, r) = IF r \in ToSet(op.rows) THEN 1 ELSE 0
  BY <1>1, OccursIs
<1>4. ToSet(op.rows) \subseteq Rows
  BY <1>1 DEF ToSet
<1>5. Distinct(ToSet(op.rows))
  BY DEF Distinct, OnceOn, ToSet
<1> QED
  BY <1>1, <1>2, <1>3, <1>4, <1>5 DEF BagOf

(***************************************************************************)
(* A group starts.                                                         *)
(***************************************************************************)

\* Groups as clients make them: one table gets a deletion and then insertions, or a
\* replacement without an id twice.
Merged ==
    \A ops \in Groups :
       /\ \A i \in DOMAIN ops : i = 1 \/ ops[i].kind = "insert"
       /\ ops[1].kind = "replace" => OnceOn(ops[1].rows)

\* What the rows of a heap come to under the first operation of a group: the rows
\* that stay.
Stay(h, op) ==
    CASE op.kind = "insert" -> Held(h)
      [] op.kind = "delete" -> {r \in Held(h) : r.id \notin DelsOf(op)}
      [] op.kind = "replace" -> {}

\* The rows that the first n operations bring.
First(ops, n) == UNION {AddsOf(ops[j]) : j \in 1 .. n}

LEMMA FirstNext ==
  ASSUME NEW ops, NEW n \in Nat
  PROVE  First(ops, n + 1) = First(ops, n) \cup AddsOf(ops[n + 1])
<1>1. 1 .. n + 1 = (1 .. n) \cup {n + 1}
  OBVIOUS
<1> QED
  BY <1>1 DEF First

\* After n operations the heap has what stays and what came, and no id twice.
Reached(h, ops, n) ==
    LET S == Stay(h, ops[1]) \cup First(ops, n)
    IN  /\ S \subseteq Rows /\ Distinct(S) /\ Stay(h, ops[1]) \cap First(ops, n) = {}
        /\ Afters(Contents(h), ops)[n] = BagOf(S)

LEMMA FirstReached ==
  ASSUME Keyed, Merged, NEW ops \in Groups, NEW h \in Heaps, Unique(h),
         ValidateInsertIds(Contents(h), ops)
  PROVE  /\ Reached(h, ops, 1)
         /\ ops[1].kind # "delete" => OnceOn(ops[1].rows)
<1> DEFINE f == Afters(Contents(h), ops)
           op == ops[1]
           S == Held(h)
           K == Stay(h, op)
<1>1. ops \in Seq(Operations) /\ Len(ops) \in Nat \ {0} /\ 1 \in DOMAIN ops /\ op \in Operations
  <2>1. ops \in Seq(Operations) /\ Len(ops) \in Nat \ {0}
    BY GroupIs
  <2> QED
    BY <2>1
<1>2. Contents(h) = BagOf(S) /\ Distinct(S) /\ S \subseteq Rows
  BY UniqueBag, HeldIs
<1>3. f[0] = BagOf(S) /\ f[1] = Effect(f[0], op)
  <2>1. Len(ops) \in Nat /\ 1 \in 1 .. Len(ops) /\ 1 - 1 = 0
    BY <1>1
  <2>2. f[0] = Contents(h) /\ \A n \in 1 .. Len(ops) : f[n] = Effect(f[n - 1], ops[n])
    BY <2>1, AftersSteps
  <2> HIDE DEF f
  <2> QED
    BY <1>2, <2>1, <2>2
<1>4. First(ops, 1) = AddsOf(op)
  <2>1. 1 .. 1 = {1}
    OBVIOUS
  <2> QED
    BY <2>1 DEF First
<1>5. CASE op.kind = "insert"
  <2>1. Fresh(f[0], op.rows)
    <3>1. Fresh(Afters(Contents(h), ops)[1 - 1], ops[1].rows)
      BY <1>1, <1>5, FreshRows
    <3> QED
      BY <3>1
  <2>2. /\ Effect(BagOf(S), op) = BagOf(S \cup AddsOf(op))
        /\ Distinct(S \cup AddsOf(op)) /\ OnceOn(op.rows)
        /\ \A q \in S, r \in AddsOf(op) : q.id # r.id
    BY <1>1, <1>2, <1>3, <1>5, <2>1, EffectInserted
  <2>3. K = S
    BY <1>5 DEF Stay
  <2>4. AddsOf(op) \subseteq Rows
    BY <1>1, <1>5 DEF AddsOf, ToSet, Operations
  <2> HIDE DEF f, K
  <2> QED
    BY <1>2, <1>3, <1>4, <2>2, <2>3, <2>4 DEF Reached, K, f
<1>6. CASE op.kind = "delete"
  <2>1. Effect(BagOf(S), op) = BagOf(K)
    BY <1>1, <1>2, <1>6, EffectDeleted DEF Stay
  <2>2. AddsOf(op) = {}
    BY <1>6 DEF AddsOf
  <2>3. K \subseteq S
    BY <1>6 DEF Stay
  <2>4. Distinct(K)
    BY <1>2, <2>3 DEF Distinct
  <2> HIDE DEF f, K
  <2>5. K \cup {} = K /\ K \cap {} = {}
    OBVIOUS
  <2> QED
    BY <1>2, <1>3, <1>4, <1>6, <2>1, <2>2, <2>3, <2>4, <2>5 DEF Reached, K, f
<1>7. CASE op.kind = "replace"
  <2>1. OnceOn(op.rows)
    BY <1>7 DEF Merged
  <2>2. Effect(BagOf(S), op) = BagOf(AddsOf(op)) /\ AddsOf(op) \subseteq Rows /\ Distinct(AddsOf(op))
    BY <1>1, <1>7, <2>1, EffectReplaced
  <2>3. K = {}
    BY <1>7 DEF Stay
  <2> HIDE DEF f, K
  <2> QED
    BY <1>3, <1>4, <2>1, <2>2, <2>3 DEF Reached, K, f
<1>8. op.kind \in {"insert", "delete", "replace"}
  BY <1>1 DEF Operations
<1> QED
  BY <1>5, <1>6, <1>7, <1>8

LEMMA NextReached ==
  ASSUME Keyed, Merged, NEW ops \in Groups, NEW h \in Heaps,
         ValidateInsertIds(Contents(h), ops), NEW n \in 1 .. Len(ops), n + 1 \in 1 .. Len(ops),
         Reached(h, ops, n)
  PROVE  /\ Reached(h, ops, n + 1) /\ OnceOn(ops[n + 1].rows)
         /\ \A q \in Stay(h, ops[1]) \cup First(ops, n), r \in AddsOf(ops[n + 1]) : q.id # r.id
<1> DEFINE f == Afters(Contents(h), ops)
           K == Stay(h, ops[1])
           S == K \cup First(ops, n)
           op == ops[n + 1]
           A == AddsOf(op)
<1>1. /\ ops \in Seq(Operations) /\ Len(ops) \in Nat /\ n \in Nat /\ n + 1 \in DOMAIN ops
      /\ n + 1 # 1 /\ (n + 1) - 1 = n
  <2>1. ops \in Seq(Operations) /\ Len(ops) \in Nat \ {0}
    BY GroupIs
  <2> QED
    BY <2>1
<1>2. op \in Operations /\ op.kind = "insert"
  BY <1>1 DEF Merged
<1>3. S \subseteq Rows /\ Distinct(S) /\ K \cap First(ops, n) = {} /\ f[n] = BagOf(S)
  BY DEF Reached
<1>4. f[n + 1] = Effect(f[n], op)
  <2>1. \A i \in 1 .. Len(ops) : f[i] = Effect(f[i - 1], ops[i])
    BY <1>1, AftersSteps
  <2> HIDE DEF f
  <2> QED
    BY <1>1, <2>1
<1>5. Fresh(f[n], op.rows)
  <2>1. Fresh(Afters(Contents(h), ops)[(n + 1) - 1], ops[n + 1].rows)
    BY <1>1, <1>2, FreshRows
  <2> QED
    BY <1>1, <2>1
<1>6. First(ops, n + 1) = First(ops, n) \cup A
  BY <1>1, FirstNext
<1>7. A \subseteq Rows
  BY <1>2 DEF AddsOf, ToSet, Operations
<1> HIDE DEF f, S, op, A
<1>8. /\ Effect(BagOf(S), op) = BagOf(S \cup A) /\ Distinct(S \cup A) /\ OnceOn(op.rows)
      /\ \A q \in S, r \in A : q.id # r.id
  <2>1. S \in SUBSET Rows /\ Fresh(BagOf(S), op.rows)
    BY <1>3, <1>5
  <2> QED
    BY <1>2, <1>3, <2>1, EffectInserted DEF A
<1>9. K \cup First(ops, n + 1) = S \cup A /\ K \cap First(ops, n + 1) = {}
  BY <1>3, <1>6, <1>8 DEF S
<1>10. S \cup A \subseteq Rows /\ f[n + 1] = BagOf(S \cup A)
  BY <1>3, <1>4, <1>7, <1>8
<1>11. Reached(h, ops, n + 1)
  BY <1>8, <1>9, <1>10 DEF Reached, f
<1> QED
  BY <1>8, <1>11 DEF S, A, op

LEMMA AllReached ==
  ASSUME Keyed, Merged, NEW ops \in Groups, NEW h \in Heaps, Unique(h),
         ValidateInsertIds(Contents(h), ops)
  PROVE  \A n \in 1 .. Len(ops) : Reached(h, ops, n)
<1> DEFINE P == {n \in Nat : n \in 1 .. Len(ops) => Reached(h, ops, n)}
<1>1. Len(ops) \in Nat
  BY GroupIs
<1>2. 0 \in P
  OBVIOUS
<1>3. ASSUME NEW n \in P PROVE n + 1 \in P
  <2> SUFFICES ASSUME n + 1 \in 1 .. Len(ops) PROVE Reached(h, ops, n + 1)
    OBVIOUS
  <2>1. CASE n = 0
    BY <2>1, FirstReached
  <2>2. CASE n # 0
    <3>1. n \in 1 .. Len(ops) /\ Reached(h, ops, n)
      BY <1>1, <2>2
    <3> QED
      BY <3>1, NextReached
  <2> QED
    BY <2>1, <2>2
<1>4. P = Nat
  <2>1. P \in SUBSET Nat
    OBVIOUS
  <2> HIDE DEF P
  <2> QED
    BY <1>2, <1>3, <2>1, SetInduction
<1> QED
  BY <1>1, <1>4

\* A validated group can be applied, and be replayed from the pages it finds.
LEMMA GroupStarts ==
  ASSUME Keyed, Merged, NEW ops \in Groups, NEW h \in Heaps, Unique(h),
         ValidateInsertIds(Contents(h), ops)
  PROVE  LET K == Stay(h, ops[1])
             N == LaterAdds(ops)
         IN  /\ Final(K, N) /\ After(Contents(h), ops) = BagOf(K \cup N)
             /\ Work(K, N, ops, <<>>, h, h, TRUE)
             /\ Covers(K, N, ops, ops, <<>>, h, h, TRUE) /\ Redo(K, N, ops, h, h)
<1> DEFINE K == Stay(h, ops[1])
           N == LaterAdds(ops)
           L == Len(ops)
<1>1. /\ ops \in Seq(Operations) /\ L \in Nat \ {0} /\ L \in 1 .. L /\ DOMAIN ops = 1 .. L /\ 1 \in 1 .. L
      /\ ops[1] \in Operations
  <2>1. ops \in Seq(Operations) /\ Len(ops) \in Nat \ {0}
    BY GroupIs
  <2> QED
    BY <2>1
<1>2. \A n \in 1 .. L : Reached(h, ops, n)
  BY AllReached
<1>3. First(ops, L) = N
  BY <1>1 DEF First, LaterAdds
<1>4. /\ K \subseteq Rows /\ N \subseteq Rows /\ Distinct(K \cup N) /\ K \cap N = {}
      /\ After(Contents(h), ops) = BagOf(K \cup N)
  <2>1. Reached(h, ops, L)
    BY <1>1, <1>2
  <2> QED
    BY <1>3, <2>1 DEF Reached, After
<1>5. Final(K, N)
  BY <1>4 DEF Final
<1>6. ops[1].kind # "delete" => OnceOn(ops[1].rows)
  BY FirstReached
<1>7. ASSUME NEW k \in 1 .. L, k # 1
      PROVE  /\ ops[k].kind = "insert" /\ OnceOn(ops[k].rows)
             /\ \A q \in First(ops, k - 1), r \in AddsOf(ops[k]) : q.id # r.id
  <2>1. k - 1 \in 1 .. L /\ (k - 1) + 1 = k
    BY <1>1, <1>7
  <2>2. Reached(h, ops, k - 1)
    BY <1>2, <2>1
  <2>3. /\ OnceOn(ops[(k - 1) + 1].rows)
        /\ \A q \in Stay(h, ops[1]) \cup First(ops, k - 1), r \in AddsOf(ops[(k - 1) + 1]) : q.id # r.id
    <3> DEFINE n == k - 1
    <3>1. n \in 1 .. Len(ops) /\ n + 1 \in 1 .. Len(ops) /\ Reached(h, ops, n)
      BY <2>1, <2>2
    <3> HIDE DEF n
    <3>2. /\ OnceOn(ops[n + 1].rows)
          /\ \A q \in Stay(h, ops[1]) \cup First(ops, n), r \in AddsOf(ops[n + 1]) : q.id # r.id
      BY <3>1, NextReached
    <3> QED
      BY <3>2 DEF n
  <2>4. ops[k].kind = "insert"
    BY <1>1, <1>7 DEF Merged
  <2> QED
    BY <2>1, <2>3, <2>4
<1>8. Orderly(ops, <<>>)
  <2>1. \A j \in DOMAIN ops : j > 1 => ops[j].kind = "insert"
    BY <1>1, <1>7
  <2>2. \A j \in DOMAIN ops : ops[j].kind # "delete" => OnceOn(ops[j].rows)
    BY <1>1, <1>6, <1>7
  <2>3. ASSUME NEW j \in DOMAIN ops, NEW k \in DOMAIN ops, j < k,
               NEW r \in AddsOf(ops[j]), NEW q \in AddsOf(ops[k])
        PROVE  r.id # q.id
    <3>1. k \in 1 .. L /\ k # 1 /\ j \in 1 .. (k - 1)
      BY <1>1, <2>3
    <3>2. r \in First(ops, k - 1)
      BY <3>1 DEF First
    <3> QED
      BY <1>7, <3>1, <3>2
  <2>4. NowAdds(<<>>) = {} /\ DOMAIN <<>> = {}
    BY DEF NowAdds
  <2> HIDE DEF K, N, L
  <2> QED
    BY <2>1, <2>2, <2>3, <2>4 DEF Orderly
<1>9. /\ Adds(ops, <<>>) = N /\ Dels(ops, <<>>) = DelsOf(ops[1])
      /\ Clears(ops, <<>>) <=> ops[1].kind = "replace"
  <2>1. ops # <<>> /\ Head(ops) = ops[1]
    BY <1>1
  <2>2. /\ Dels(ops, <<>>) = DelsOf(Head(ops))
        /\ Clears(ops, <<>>) <=> Head(ops).kind = "replace"
    BY <1>1, <1>8, <2>1, OpTaken
  <2>3. NowAdds(<<>>) = {}
    BY DEF NowAdds
  <2>4. Adds(ops, <<>>) = N
    BY <2>3 DEF Adds
  <2> QED
    BY <2>1, <2>2, <2>4
<1>10. /\ ops[1].kind = "insert" => K = Held(h) /\ DelsOf(ops[1]) = {}
       /\ ops[1].kind = "delete" => K = {r \in Held(h) : r.id \notin DelsOf(ops[1])}
       /\ ops[1].kind = "replace" => K = {} /\ DelsOf(ops[1]) = {}
       /\ ops[1].kind \in {"insert", "delete", "replace"}
  BY <1>1 DEF Stay, DelsOf, Operations
<1> HIDE DEF K, N, L
<1>11. \A k \in K : k.id \notin Dels(ops, <<>>)
  BY <1>9, <1>10
<1>12. Plan(K, N, ops, <<>>)
  BY <1>8, <1>9, <1>10, <1>11 DEF Plan
<1>13. ASSUME ~ Clears(ops, <<>>)
       PROVE  /\ Laid(K, N, h, h) /\ Apart(h, h, Dels(ops, <<>>))
              /\ \A r \in Held(h) : r \in K \cup N \/ r.id \in Dels(ops, <<>>)
              /\ \A p, q \in Nat : p < q => \A r \in On(h, p), s \in On(h, q) : r.id # s.id
              /\ \A r \in N : OnePage(h, h, r.id) /\ (HasId(h, r.id) => r.id \in Dels(ops, <<>>))
              /\ K \subseteq Held(h)
  <2>1. K \subseteq Held(h) /\ \A r \in Held(h) : r \in K \/ r.id \in Dels(ops, <<>>)
    BY <1>9, <1>10, <1>13
  <2>2. \A p \in Nat : Either(h, h, p) = On(h, p)
    BY DEF Either
  <2>3. \A p, q \in Nat : p < q => \A r \in On(h, p), s \in On(h, q) : r.id # s.id
    BY DEF Unique
  <2>4. Laid(K, N, h, h)
    <3>1. \A k \in K : \E p \in Nat : k \in On(h, p)
      BY <2>1 DEF Held
    <3>2. \A p \in Nat : OnceOn(PageOf(h, p))
      BY DEF Unique
    <3> QED
      BY <2>2, <2>3, <3>1, <3>2 DEF Laid
  <2>5. Apart(h, h, Dels(ops, <<>>)) /\ \A r \in N : OnePage(h, h, r.id)
    BY <2>2, <2>3 DEF Apart, OnePage
  <2>6. ASSUME NEW r \in N, HasId(h, r.id) PROVE r.id \in Dels(ops, <<>>)
    <3>1. PICK x \in Held(h) : x.id = r.id
      BY <2>6 DEF HasId
    <3>2. CASE x \in K
      <4>1. x = r
        BY <1>4, <3>1, <3>2 DEF Distinct
      <4> QED
        BY <1>4, <3>2, <4>1
    <3>3. CASE x.id \in Dels(ops, <<>>)
      BY <3>1, <3>3
    <3> QED
      BY <2>1, <3>1, <3>2, <3>3
  <2> QED
    BY <2>1, <2>3, <2>4, <2>5, <2>6
<1>14. Work(K, N, ops, <<>>, h, h, TRUE)
  <2>1. DOMAIN <<>> = {}
    OBVIOUS
  <2> QED
    BY <1>9, <1>12, <1>13, <2>1 DEF Work
<1>15. Covers(K, N, ops, ops, <<>>, h, h, TRUE) /\ Redo(K, N, ops, h, h)
  BY <1>9, <1>12, <1>13 DEF Covers, Redo
<1> QED
  BY <1>4, <1>5, <1>14, <1>15 DEF K, N

(***************************************************************************)
(* What recovery finds of a group.                                         *)
(***************************************************************************)

\* All records but the last are wanted.
LEMMA SelectFront ==
  ASSUME NEW T, NEW records \in Seq(T), NEW indexes, NEW n \in Nat
  PROVE  Len(records) = n + 1 /\ (\A i \in 1 .. n : i \in indexes) /\ n + 1 \notin indexes
           => Select(records, indexes) = SubSeq(records, 1, n)
<1> DEFINE N == Len(records)
<1>1. PICK f : /\ Select(records, indexes) = f[N] /\ f[0] = <<>>
               /\ \A k \in 1 .. N :
                     f[k] = IF k \in indexes THEN Append(f[k - 1], records[k]) ELSE f[k - 1]
  BY SelectSteps
<1> SUFFICES ASSUME N = n + 1, \A i \in 1 .. n : i \in indexes, n + 1 \notin indexes
             PROVE  Select(records, indexes) = SubSeq(records, 1, n)
  OBVIOUS
<1>2. \A i \in 1 .. n + 1 : records[i] \in T
  OBVIOUS
<1> DEFINE P == {k \in Nat : k <= n => /\ f[k] \in Seq(T) /\ Len(f[k]) = k
                                       /\ \A i \in 1 .. k : f[k][i] = records[i]}
<1>3. 0 \in P
  <2>1. <<>> \in Seq(T) /\ Len(<<>>) = 0 /\ 1 .. 0 = {}
    OBVIOUS
  <2> QED
    BY <1>1, <2>1
<1>4. ASSUME NEW k \in P PROVE k + 1 \in P
  <2> SUFFICES ASSUME k + 1 <= n
               PROVE  /\ f[k + 1] \in Seq(T) /\ Len(f[k + 1]) = k + 1
                      /\ \A i \in 1 .. k + 1 : f[k + 1][i] = records[i]
    OBVIOUS
  <2>1. /\ k \in Nat /\ k + 1 \in 1 .. n /\ k + 1 \in 1 .. n + 1 /\ (k + 1) - 1 = k
        /\ f[k] \in Seq(T) /\ Len(f[k]) = k /\ \A i \in 1 .. k : f[k][i] = records[i]
    OBVIOUS
  <2>2. f[k + 1] = Append(f[k], records[k + 1]) /\ records[k + 1] \in T
    BY <1>1, <1>2, <2>1
  <2> DEFINE s == f[k]
             x == records[k + 1]
  <2>3. s \in Seq(T) /\ Len(s) = k /\ x \in T /\ f[k + 1] = Append(s, x)
    BY <2>1, <2>2
  <2> HIDE DEF s, x
  <2>4. /\ f[k + 1] \in Seq(T) /\ Len(f[k + 1]) = k + 1
        /\ \A i \in 1 .. k + 1 : f[k + 1][i] = IF i = k + 1 THEN x ELSE s[i]
    BY <2>1, <2>3
  <2>5. \A i \in 1 .. k + 1 : i = k + 1 \/ i \in 1 .. k
    BY <2>1
  <2> QED
    BY <2>1, <2>4, <2>5 DEF s, x
<1>5. P = Nat
  <2>1. P \in SUBSET Nat
    OBVIOUS
  <2> HIDE DEF P
  <2> QED
    BY <1>3, <1>4, <2>1, SetInduction
<1>6. n <= n
  OBVIOUS
<1>7. f[n] \in Seq(T) /\ Len(f[n]) = n /\ \A i \in 1 .. n : f[n][i] = records[i]
  BY <1>5, <1>6
<1>8. f[n + 1] = f[n]
  <2>1. n + 1 \in 1 .. Len(records) /\ (n + 1) - 1 = n
    OBVIOUS
  <2> QED
    BY <1>1, <2>1
<1>9. /\ SubSeq(records, 1, n) \in Seq(T) /\ Len(SubSeq(records, 1, n)) = n
      /\ \A i \in 1 .. n : SubSeq(records, 1, n)[i] = records[i]
  OBVIOUS
<1>10. \A s, t \in Seq(T) : Len(s) = n /\ Len(t) = n /\ (\A i \in 1 .. n : s[i] = t[i]) => s = t
  OBVIOUS
<1>11. f[n] = SubSeq(records, 1, n)
  BY <1>7, <1>9, <1>10
<1> QED
  BY <1>1, <1>8, <1>11

\* The operations of records, and those recovery is to complete.
OpsOf(records) == [i \in DOMAIN records |-> records[i].op]
Committed == OpsOf(CommittedOps(Pending))

\* Recovery completes the whole group or nothing of it, but for a lone first frame.
LEMMA CutCommitted ==
  ASSUME Typed, NEW ops \in Groups, NEW k \in 0 .. Len(ops) + 1, k = 1 => Len(ops) = 1
  PROVE  LET f == SubSeq(Frames(ops), 1, k)
         IN  CommittedOps(f) # <<>> => OpsOf(CommittedOps(f)) = ops
<1> DEFINE f == SubSeq(Frames(ops), 1, k)
           N == Len(ops)
           C == Commits(f)
           tail == SubSeq(f, MaxOf(C, 0) + 1, Len(f))
<1>1. /\ Len(Frames(ops)) = N + 1 /\ N \in Nat \ {0} /\ ops \in Seq(Operations)
      /\ \A i \in 1 .. N : Frames(ops)[i].op # Commit /\ Frames(ops)[i].op = ops[i]
      /\ Frames(ops)[N + 1].op = Commit
  <2>1. /\ Len(Frames(ops)) = N + 1 /\ \A i \in 1 .. N : Frames(ops)[i].op # Commit
        /\ Frames(ops)[N + 1].op = Commit
    BY FramesAre
  <2>2. N \in Nat \ {0} /\ ops \in Seq(Operations)
    BY GroupIs
  <2>3. \A i \in 1 .. N : i \in 1 .. N + 1 /\ ~ (i > N)
    BY <2>2
  <2>4. \A i \in 1 .. N : Frames(ops)[i].op = ops[i]
    BY <2>3 DEF Frames
  <2> QED
    BY <2>1, <2>2, <2>4
<1>2. k \in Nat /\ k <= N + 1 /\ k \in 0 .. Len(ops) + 1 /\ (k = 1 => N = 1)
  BY <1>1
<1>3. /\ f \in Seq(LogFrames) /\ Len(f) = k
      /\ \A i \in 1 .. k : f[i] = Frames(ops)[i]
  BY <1>2, CutGroup
<1>4. DOMAIN f = 1 .. k
  BY <1>3
<1>5. CommittedOps(f) = Select(f, 1 .. MaxOf(C, 0) \ C) \o (IF Len(tail) = 1 THEN tail ELSE <<>>)
  BY DEF CommittedOps
<1>6. \A s : Len(s) = N /\ DOMAIN s = 1 .. N /\ (\A i \in 1 .. N : s[i] = f[i]) /\ N <= k => OpsOf(s) = ops
  <2> SUFFICES ASSUME NEW s, DOMAIN s = 1 .. N, \A i \in 1 .. N : s[i] = f[i], N <= k
               PROVE  OpsOf(s) = ops
    OBVIOUS
  <2>1. \A i \in 1 .. N : i \in 1 .. k
    BY <1>1, <1>2
  <2>2. \A i \in 1 .. N : s[i].op = ops[i]
    BY <1>1, <1>3, <2>1
  <2>3. ops = [i \in 1 .. N |-> ops[i]]
    BY <1>1
  <2> HIDE DEF f, N
  <2> QED
    BY <2>2, <2>3 DEF OpsOf
<1> HIDE DEF f, N
<1>7. CASE k = N + 1
  <2>1. C = {k}
    <3>1. \A i \in 1 .. k : i \in C <=> f[i].op = Commit
      BY <1>4 DEF Commits
    <3>2. \A i \in 1 .. k : f[i].op = Commit <=> i = k
      BY <1>1, <1>2, <1>3, <1>7
    <3>3. C \subseteq 1 .. k /\ k \in 1 .. k
      BY <1>1, <1>2, <1>4, <1>7 DEF Commits
    <3> HIDE DEF C
    <3> QED
      BY <3>1, <3>2, <3>3
  <2> HIDE DEF C
  <2>2. MaxOf(C, 0) = k
    BY <2>1 DEF MaxOf
  <2>3. Len(tail) # 1
    BY <1>2, <1>3, <2>2
  <2> DEFINE a == Select(f, 1 .. k \ C)
  <2>4. a \in Seq(LogFrames) /\ Len(a) = N /\ \A i \in 1 .. N : a[i] = f[i]
    <3>1. /\ \A i \in 1 .. N : i \in 1 .. k \ C
          /\ N + 1 \notin 1 .. k \ C /\ N \in Nat /\ Len(f) = N + 1
      BY <1>1, <1>3, <1>7, <2>1
    <3> DEFINE S == 1 .. k \ C
    <3> HIDE DEF S
    <3>2. Select(f, S) = SubSeq(f, 1, N)
      <4>1. /\ f \in Seq(LogFrames) /\ N \in Nat /\ Len(f) = N + 1
            /\ \A i \in 1 .. N : i \in S
            /\ N + 1 \notin S
        BY <1>1, <1>3, <1>7, <3>1 DEF S
      <4> QED
        BY <4>1, SelectFront
    <3>3. a = SubSeq(f, 1, N)
      BY <3>2 DEF S
    <3> HIDE DEF a
    <3> QED
      BY <1>1, <1>3, <1>7, <3>3
  <2>5. CommittedOps(f) = a
    <3>1. CommittedOps(f) = a \o <<>>
      BY <1>5, <2>2, <2>3
    <3> HIDE DEF a
    <3> QED
      BY <2>4, <3>1
  <2> HIDE DEF a
  <2>6. DOMAIN a = 1 .. N /\ N <= k
    BY <1>1, <1>7, <2>4
  <2> QED
    BY <1>6, <2>4, <2>5, <2>6 DEF f
<1>8. CASE k # N + 1
  <2>1. C = {}
    <3>1. \A i \in 1 .. k : f[i].op # Commit
      BY <1>1, <1>2, <1>3, <1>8
    <3> QED
      BY <1>4, <3>1 DEF Commits
  <2>2. MaxOf(C, 0) = 0 /\ 1 .. 0 \ C = {}
    BY <2>1 DEF MaxOf
  <2>3. tail = f
    BY <1>2, <1>3, <2>2
  <2>4. Select(f, 1 .. MaxOf(C, 0) \ C) = <<>>
    <3>1. DOMAIN f \cap (1 .. MaxOf(C, 0) \ C) = {}
      BY <2>2
    <3> QED
      BY <1>3, <3>1, SelectNone
  <2>5. CommittedOps(f) = IF k = 1 THEN f ELSE <<>>
    <3>1. CommittedOps(f) = <<>> \o (IF k = 1 THEN f ELSE <<>>)
      BY <1>3, <1>5, <2>3, <2>4
    <3>2. (IF k = 1 THEN f ELSE <<>>) \in Seq(LogFrames)
      BY <1>3
    <3> QED
      BY <3>1, <3>2
  <2>6. CASE k = 1
    <3>1. CommittedOps(f) = f /\ N = 1 /\ Len(f) = N /\ DOMAIN f = 1 .. N /\ N <= k
      BY <1>2, <1>3, <1>4, <2>5, <2>6
    <3> QED
      BY <1>6, <3>1 DEF f
  <2>7. CASE k # 1
    BY <2>5, <2>7 DEF f
  <2> QED
    BY <2>6, <2>7
<1> QED
  BY <1>7, <1>8

\* What is pending after k frames of a group were appended, and what recovery makes of it.
LEMMA AppendedPending ==
  ASSUME Typed, Numbers, pc = "ready", Upto(checkpoint),
         NEW ops \in Groups, NEW k \in 0 .. Len(ops) + 1, k = 1 => Len(ops) = 1,
         log' = log \o SubSeq(Frames(ops), 1, k), checkpoint' = checkpoint
  PROVE  ~ Uncommitted' => Committed' = ops /\ ReplayLsn(Pending') = Frames(ops)[k].lsn
<1> DEFINE f == SubSeq(Frames(ops), 1, k)
<1>1. k \in 0 .. Len(ops) + 1
  OBVIOUS
<1>2. /\ f \in Seq(LogFrames) /\ Len(f) = k /\ \A i \in 1 .. k : f[i] = Frames(ops)[i]
      /\ CommittedOps(f) # <<>> => k # 0 /\ ReplayLsn(f) = f[k].lsn
  BY <1>1, CutGroup
<1>3. \A i \in DOMAIN f : checkpoint < f[i].lsn
  BY <1>1, FramesAbove
<1>4. log \in Seq(LogFrames) /\ checkpoint \in Nat
  BY DEF Typed
<1>5. \A i \in DOMAIN log : log[i].lsn \in Nat
  <2>1. \A i \in DOMAIN log : log[i] \in LogFrames
    BY <1>4
  <2> QED
    BY <2>1 DEF LogFrames
<1>6. \A i \in DOMAIN f : f[i].lsn \in Nat
  <2> HIDE DEF f
  <2>1. \A i \in DOMAIN f : f[i] \in LogFrames
    BY <1>2
  <2> QED
    BY <2>1 DEF LogFrames
<1>7. CommittedOps(f) # <<>> => OpsOf(CommittedOps(f)) = ops
  BY CutCommitted
<1>8. \A i \in DOMAIN log : ~ (log[i].lsn > checkpoint)
  BY <1>4, <1>5 DEF Upto
<1> HIDE DEF f
<1>9. \A i \in DOMAIN f : f[i].lsn > checkpoint
  BY <1>3, <1>4, <1>6
<1>10. RecordsAfter(log \o f, checkpoint) = f
  BY <1>2, <1>4, <1>8, <1>9, AfterTail
<1>11. Pending' = f
  BY <1>10 DEF Pending, f
<1>12. (Uncommitted' <=> CommittedOps(f) = <<>>) /\ Committed' = OpsOf(CommittedOps(f))
  BY <1>11 DEF Uncommitted, Committed
<1>13. k # 0 => k \in 1 .. k
  BY <1>2
<1> QED
  BY <1>2, <1>7, <1>11, <1>12, <1>13

(***************************************************************************)
(* The invariant.                                                          *)
(***************************************************************************)

\* The contents clients may see, as a heap and as rows that stay and rows that come.
Good(h) == Unique(h) /\ Contents(h) \in acceptable
Due(K, N) == Final(K, N) /\ BagOf(K \cup N) \in acceptable

Serving == pc \in {"ready", "checkpoint", "truncate"} => Good(mem)
Dropping == pc \in {"sealed", "down"} /\ Uncommitted => Good(disk)

\* A group is applied or replayed: it can be finished, and without frames of a
\* failed append what is committed in the log can be replayed from the data file.
InWork(K, N) ==
    /\ Work(K, N, todo, steps, disk, mem, pc = "apply")
    /\ Clean => Covers(K, N, Committed, todo, steps, disk, mem, pc = "apply")
Working ==
    pc \in {"apply", "replay"} =>
        \E K \in SUBSET Rows : \E N \in SUBSET Rows : Due(K, N) /\ InWork(K, N)

\* The same when no operation is under way.
Unfinished == Clean /\ (pc = "checkpoint" \/ (pc \in {"sealed", "down"} /\ ~ Uncommitted))
Cached == IF pc = "down" THEN disk ELSE mem
Redoing ==
    Unfinished =>
        \E K \in SUBSET Rows : \E N \in SUBSET Rows : Due(K, N) /\ Redo(K, N, Committed, disk, Cached)

\* A replay inserts rows of batches and rows that are not there.
Batched(r) ==
    \E i \in DOMAIN Pending :
        /\ Pending[i].op.kind = "insert" /\ Len(Pending[i].op.rows) > 1
        /\ r \in ToSet(Pending[i].op.rows)
Replaying ==
    pc = "replay" =>
        /\ \A j \in DOMAIN todo : \E i \in DOMAIN Pending : todo[j] = Pending[i].op
        /\ \A j \in DOMAIN steps : steps[j].kind = "insert" =>
             Batched(steps[j].arg) \/ steps[j].arg \notin Held(mem)

\* The newest version is the checkpoint's or that of the commit under way.
Versions ==
    /\ pc \in {"apply", "replay", "checkpoint"} => csn \in {checkpoint, pageLsn}
    /\ pc \in {"apply", "replay", "checkpoint"} /\ Clean => pageLsn = ReplayLsn(Pending)
    /\ pc \in {"sealed", "down"} /\ ~ Uncommitted /\ Clean => csn \in {checkpoint, ReplayLsn(Pending)}

Story == Serving /\ Dropping /\ Working /\ Redoing /\ Replaying /\ Versions /\ RefusedOnlyInPart

\* It is told until a recovery redoes frames of a failed append.
Told == strays # "redone" => Story

LEMMA LogKept ==
  ASSUME log' = log, checkpoint' = checkpoint
  PROVE  /\ Pending' = Pending /\ Committed' = Committed /\ (Uncommitted' <=> Uncommitted)
         /\ \A r : Batched(r)' <=> Batched(r)
BY DEF Pending, Committed, Uncommitted, Batched

(***************************************************************************)
(* Each action keeps it: a group is appended.                              *)
(***************************************************************************)

LEMMA SubmittedStarts ==
  ASSUME Inv, Story, Keyed, Merged, NEW ops \in Groups, Submit(ops)
  PROVE  /\ pc = "ready" /\ disk = mem /\ csn = checkpoint
         /\ UNCHANGED <<checkpoint, csn, disk>> /\ Good(mem)
         /\ \E K \in SUBSET Rows : \E N \in SUBSET Rows :
              /\ Final(K, N) /\ After(Contents(mem), ops) = BagOf(K \cup N)
              /\ Work(K, N, ops, <<>>, mem, mem, TRUE)
              /\ Covers(K, N, ops, ops, <<>>, mem, mem, TRUE) /\ Redo(K, N, ops, mem, mem)
<1>1. pc = "ready" /\ UNCHANGED <<checkpoint, csn, disk>> /\ ValidateInsertIds(Contents(mem), ops)
  BY DEF Submit, versionVars
<1>2. disk = mem /\ csn = checkpoint /\ mem \in Heaps
  BY <1>1 DEF Inv, Pages, Numbers, Typed
<1>3. Good(mem) /\ Unique(mem)
  BY <1>1 DEF Story, Serving, Good
<1> DEFINE K == Stay(mem, ops[1])
           N == LaterAdds(ops)
<1>4. /\ Final(K, N) /\ After(Contents(mem), ops) = BagOf(K \cup N)
      /\ Work(K, N, ops, <<>>, mem, mem, TRUE)
      /\ Covers(K, N, ops, ops, <<>>, mem, mem, TRUE) /\ Redo(K, N, ops, mem, mem)
  BY <1>1, <1>2, <1>3, GroupStarts
<1>5. K \in SUBSET Rows /\ N \in SUBSET Rows
  BY <1>4 DEF Final
<1> HIDE DEF K, N
<1> QED
  BY <1>1, <1>2, <1>3, <1>4, <1>5

LEMMA AppendGroupStory ==
  ASSUME Inv, Story, Keyed, Merged, NEW ops \in Groups, AppendGroup(ops)
  PROVE  Story'
<1> DEFINE L == Len(ops) + 1
<1>1. /\ Submit(ops) /\ log' = log \o Frames(ops) /\ pageLsn' = Last(Frames(ops)).lsn
      /\ todo' = ops /\ steps' = <<>> /\ acceptable' = {After(Contents(mem), ops)}
      /\ pc' = "apply" /\ UNCHANGED <<mem, strays>>
  BY DEF AppendGroup
<1>2. pc = "ready" /\ disk = mem /\ csn = checkpoint /\ UNCHANGED <<checkpoint, csn, disk>>
  BY <1>1, SubmittedStarts
<1>8. PICK K \in SUBSET Rows : \E N \in SUBSET Rows :
         /\ Final(K, N) /\ After(Contents(mem), ops) = BagOf(K \cup N)
         /\ Work(K, N, ops, <<>>, mem, mem, TRUE)
         /\ Covers(K, N, ops, ops, <<>>, mem, mem, TRUE)
  BY <1>1, SubmittedStarts
<1>9. PICK N \in SUBSET Rows :
         /\ Final(K, N) /\ After(Contents(mem), ops) = BagOf(K \cup N)
         /\ Work(K, N, ops, <<>>, mem, mem, TRUE)
         /\ Covers(K, N, ops, ops, <<>>, mem, mem, TRUE)
  BY <1>8
<1>3. L \in 0 .. Len(ops) + 1 /\ L # 1
  <2>1. Len(ops) \in Nat \ {0}
    BY GroupIs
  <2> QED
    BY <2>1
<1>4. /\ Frames(ops) = SubSeq(Frames(ops), 1, L)
      /\ pageLsn' = Frames(ops)[L].lsn
  <2>1. Typed
    BY DEF Inv
  <2>2. LET f == SubSeq(Frames(ops), 1, L) IN L = Len(ops) + 1 => f = Frames(ops)
    BY <1>3, <2>1, CutGroup
  <2>3. Len(Frames(ops)) = L
    BY <2>1, FramesAre
  <2> QED
    BY <1>1, <2>2, <2>3 DEF Last
<1>5. Clean => Committed' = ops /\ pageLsn' = ReplayLsn(Pending')
  <2> SUFFICES ASSUME Clean PROVE Committed' = ops /\ pageLsn' = ReplayLsn(Pending')
    OBVIOUS
  <2>1. Typed /\ Numbers /\ Upto(checkpoint)
    BY <1>2 DEF Inv, Recoverable
  <2>2. log' = log \o SubSeq(Frames(ops), 1, L) /\ checkpoint' = checkpoint
    BY <1>1, <1>2, <1>4
  <2>3. ~ Uncommitted'
    BY <1>2, <1>3, <2>1, <2>2, GroupPending
  <2>4. ~ Uncommitted' => Committed' = ops /\ ReplayLsn(Pending') = Frames(ops)[L].lsn
    <3> DEFINE k == L
    <3>1. k \in 0 .. Len(ops) + 1 /\ k # 1 /\ log' = log \o SubSeq(Frames(ops), 1, k)
      BY <1>3, <2>2
    <3> HIDE DEF k
    <3>2. ~ Uncommitted' => Committed' = ops /\ ReplayLsn(Pending') = Frames(ops)[k].lsn
      BY <1>2, <2>1, <2>2, <3>1, AppendedPending
    <3> QED
      BY <3>2 DEF k
  <2> QED
    BY <1>4, <2>3, <2>4
<1> HIDE DEF L
<1>6. Working'
  <2>1. Due(K, N)'
    BY <1>1, <1>9 DEF Due
  <2>2. InWork(K, N)'
    BY <1>1, <1>2, <1>5, <1>9 DEF InWork, Clean
  <2> QED
    BY <1>2, <2>1, <2>2 DEF Working
<1>7. Versions'
  BY <1>1, <1>2, <1>5 DEF Versions, Clean
<1> QED
  BY <1>1, <1>6, <1>7 DEF Story, Serving, Dropping, Redoing, Unfinished, Replaying, RefusedOnlyInPart

LEMMA AppendCrashStory ==
  ASSUME Inv, Story, Keyed, Merged, NEW ops \in Groups, AppendCrash(ops)
  PROVE  Story'
<1>1. /\ Submit(ops) /\ pc' = "down"
      /\ acceptable' = {Contents(mem), After(Contents(mem), ops)}
  BY DEF AppendCrash
<1>2. /\ pc = "ready" /\ disk = mem /\ csn = checkpoint
      /\ UNCHANGED <<checkpoint, csn, disk>> /\ Good(mem)
  BY <1>1, SubmittedStarts
<1>8. PICK K \in SUBSET Rows : \E N \in SUBSET Rows :
         /\ Final(K, N) /\ After(Contents(mem), ops) = BagOf(K \cup N)
         /\ Redo(K, N, ops, mem, mem)
  BY <1>1, SubmittedStarts
<1>9. PICK N \in SUBSET Rows :
         /\ Final(K, N) /\ After(Contents(mem), ops) = BagOf(K \cup N)
         /\ Redo(K, N, ops, mem, mem)
  BY <1>8
<1>3. PICK k \in 0 .. Len(ops) + 1 :
        /\ log' = log \o SubSeq(Frames(ops), 1, k)
        /\ strays' = IF k = 1 /\ Len(ops) > 1 THEN Stray ELSE strays
  BY DEF AppendCrash
<1>4. Clean' => (~ Uncommitted' => Committed' = ops)
  <2> SUFFICES ASSUME Clean', ~ Uncommitted' PROVE Committed' = ops
    OBVIOUS
  <2>1. Clean /\ (k = 1 => ~ (Len(ops) > 1))
    BY <1>3 DEF Clean, Stray
  <2>2. k = 1 => Len(ops) = 1
    <3> DEFINE n == Len(ops)
    <3>1. n \in Nat \ {0}
      BY GroupIs
    <3> HIDE DEF n
    <3>2. ~ (n > 1) => n = 1
      BY <3>1
    <3> QED
      BY <2>1, <3>2 DEF n
  <2>3. Typed /\ Numbers /\ Upto(checkpoint)
    BY <1>1, <1>2, <2>1 DEF Inv, Recoverable
  <2> QED
    BY <1>2, <1>3, <2>2, <2>3, AppendedPending
<1>5. Dropping'
  BY <1>1, <1>2 DEF Dropping, Good
<1>6. Redoing'
  <2>1. Due(K, N)'
    BY <1>1, <1>9 DEF Due
  <2>2. Cached' = mem /\ disk' = mem
    BY <1>1, <1>2 DEF Cached
  <2>3. Unfinished' => Redo(K, N, Committed, disk, Cached)'
    BY <1>1, <1>2, <1>4, <1>9, <2>2 DEF Unfinished
  <2> QED
    BY <1>2, <2>1, <2>3 DEF Redoing
<1>7. Versions'
  BY <1>1, <1>2 DEF Versions
<1> QED
  BY <1>1, <1>5, <1>6, <1>7 DEF Story, Serving, Working, Replaying, RefusedOnlyInPart

LEMMA AppendErrorStory ==
  ASSUME Inv, Story, NEW ops \in Groups, AppendError(ops)
  PROVE  Story'
<1>1. pc = "ready" /\ UNCHANGED <<mem, pc, acceptable>>
  BY DEF AppendError, Submit
<1>2. Serving'
  BY <1>1 DEF Story, Serving, Good
<1> QED
  BY <1>1, <1>2
  DEF Story, Dropping, Working, Redoing, Unfinished, Replaying, Versions, RefusedOnlyInPart

(***************************************************************************)
(* It is applied, published and checkpointed.                              *)
(***************************************************************************)

\* The next operation is taken up as it is.
LEMMA TakenWork ==
  ASSUME Inv, NEW K, NEW N, InWork(K, N), pc \in {"apply", "replay"}, steps = <<>>, todo # <<>>,
         pc = "replay" => disk = mem,
         todo' = Tail(todo), steps' = Steps(Head(todo)),
         UNCHANGED <<log, checkpoint, disk, mem, pc, strays>>
  PROVE  InWork(K, N)'
<1> DEFINE live == pc = "apply"
<1>1. todo \in Seq(Operations) /\ live \in BOOLEAN /\ (~ live => disk = mem) /\ Committed' = Committed
  BY LogKept DEF Inv, Typed
<1>2. Work(K, N, todo, <<>>, disk, mem, live)
  BY DEF InWork
<1>3. Orderly(todo, <<>>)
  BY <1>2 DEF Work, Plan
<1>4. Work(K, N, Tail(todo), Steps(Head(todo)), disk, mem, live)
  <2> HIDE DEF live
  <2> QED
    BY <1>1, <1>2, WorkTaken
<1>5. Clean =>
        Covers(K, N, Committed, Tail(todo), Steps(Head(todo)), disk, mem, live)
  <2>1. Clean => Covers(K, N, Committed, todo, <<>>, disk, mem, live)
    BY DEF InWork
  <2> HIDE DEF live
  <2> QED
    BY <1>1, <1>3, <2>1, CoversTaken
<1> QED
  BY <1>1, <1>4, <1>5 DEF InWork, Clean

LEMMA ApplyOpStory ==
  ASSUME Inv, Story, ApplyOp
  PROVE  Story'
<1>1. /\ pc = "apply" /\ steps = <<>> /\ todo # <<>>
      /\ todo' = Tail(todo) /\ steps' = Steps(Head(todo))
      /\ UNCHANGED <<log, checkpoint, csn, disk, mem, pageLsn, pc, acceptable, strays>>
  BY DEF ApplyOp, logVars, versionVars, history
<1>2. PICK K \in SUBSET Rows : \E N \in SUBSET Rows : Due(K, N) /\ InWork(K, N)
  BY <1>1 DEF Story, Working
<1>3. PICK N \in SUBSET Rows : Due(K, N) /\ InWork(K, N)
  BY <1>2
<1>4. InWork(K, N)'
  BY <1>1, <1>3, TakenWork
<1>5. Due(K, N)'
  BY <1>1, <1>3 DEF Due
<1>6. Working'
  BY <1>4, <1>5 DEF Working
<1>7. Versions'
  BY <1>1, LogKept DEF Story, Versions, Clean
<1> QED
  BY <1>1, <1>6, <1>7
  DEF Story, Serving, Dropping, Redoing, Unfinished, Replaying, RefusedOnlyInPart

LEMMA InsertHeld ==
  ASSUME NEW h \in Heaps, NEW row \in Rows, NEW r \in Held(InsertRow(h, row))
  PROVE  r \in Held(h) \/ r = row
<1> DEFINE k == InsertRow(h, row)
<1>1. PICK p \in Nat : /\ On(k, p) = On(h, p) \cup {row}
                       /\ \A q \in Nat : q # p => PageOf(k, q) = PageOf(h, q)
  BY InsertOn
<1>2. PICK q \in Nat : r \in On(k, q)
  BY DEF Held
<1> HIDE DEF k
<1>3. r \in On(h, q) \/ r = row
  BY <1>1, <1>2 DEF On
<1> QED
  BY <1>3 DEF Held

\* A row change, and what a replay still inserts.
LEMMA RowStepStory ==
  ASSUME Inv, Story, Keyed, RowStep
  PROVE  Story'
<1> DEFINE step == Head(steps)
           live == pc = "apply"
<1>1. /\ pc \in {"apply", "replay"} /\ steps # <<>> /\ ~ DuplicateId
      /\ mem' = CASE step.kind \in {"insert", "add"} -> InsertRow(mem, step.arg)
                  [] step.kind = "delete" -> DeleteId(mem, step.arg)
                  [] step.kind = "truncate" -> <<>>
      /\ disk' = IF step.kind = "truncate" THEN <<>> ELSE disk
      /\ steps' = Tail(steps)
      /\ UNCHANGED <<log, checkpoint, csn, pageLsn, todo, pc, acceptable, strays>>
  BY DEF RowStep, logVars, versionVars, history
<1>2. /\ todo \in Seq(Operations) /\ steps \in Seq(RowSteps) /\ mem \in Heaps /\ disk \in Heaps
      /\ Len(disk) <= Len(mem) /\ live \in BOOLEAN
  BY <1>1 DEF Inv, Typed, Pages
<1>3. PICK K \in SUBSET Rows : \E N \in SUBSET Rows : Due(K, N) /\ InWork(K, N)
  BY <1>1 DEF Story, Working
<1>4. PICK N \in SUBSET Rows : Due(K, N) /\ InWork(K, N)
  BY <1>3
<1>5. /\ Final(K, N) /\ Work(K, N, todo, steps, disk, mem, live) /\ Orderly(todo, steps)
      /\ Clean => Covers(K, N, Committed, todo, steps, disk, mem, live)
  BY <1>4 DEF Due, InWork, Work, Plan
<1>6. /\ steps[1] = step /\ step \in RowSteps /\ Tail(steps) \in Seq(RowSteps) /\ 1 \in DOMAIN steps
      /\ \A i \in DOMAIN Tail(steps) : i \in Nat /\ i >= 1 /\ i + 1 \in DOMAIN steps /\ Tail(steps)[i] = steps[i + 1]
  BY <1>1, <1>2, TailIs
<1>7. step.kind = "insert" /\ ~ live => ~ HasId(mem, step.arg.id)
  <2> SUFFICES ASSUME step.kind = "insert", pc = "replay" PROVE ~ HasId(mem, step.arg.id)
    BY <1>1
  <2>1. WithId(mem, step.arg.id) = {}
    BY <1>1 DEF DuplicateId, Duplicate
  <2>2. step.arg \in Rows
    BY <1>6 DEF RowSteps
  <2>3. step.arg.id # NoId
    BY <2>2 DEF Keyed
  <2> QED
    BY <1>2, <2>1, <2>3, WithIdIs
<1>8. /\ Pending' = Pending /\ Committed' = Committed /\ (Uncommitted' <=> Uncommitted)
      /\ \A r : Batched(r)' <=> Batched(r)
  BY <1>1, LogKept
<1> HIDE DEF step, live
<1>9. /\ Work(K, N, todo, Tail(steps), disk', mem', live)
      /\ Clean => Covers(K, N, Committed, todo, Tail(steps), disk', mem', live)
  <2>1. CASE step.kind \in {"insert", "add"}
    <3>1. mem' = InsertRow(mem, step.arg) /\ disk' = disk
      BY <1>1, <2>1
    <3>2. Work(K, N, todo, Tail(steps), disk, InsertRow(mem, step.arg), live)
      BY <1>1, <1>2, <1>5, <1>7, <2>1, WorkInserted DEF step
    <3>3. ASSUME Clean
          PROVE  Covers(K, N, Committed, todo, Tail(steps), disk, InsertRow(mem, step.arg), live)
      <4> DEFINE g == Committed
      <4>1. Covers(K, N, g, todo, steps, disk, mem, live)
        BY <1>5, <3>3
      <4> HIDE DEF g
      <4>2. Covers(K, N, g, todo, Tail(steps), disk, InsertRow(mem, Head(steps).arg), live)
        BY <1>1, <1>2, <1>5, <1>7, <2>1, <4>1, CoversInserted DEF step
      <4> QED
        BY <4>2 DEF g, step
    <3> QED
      BY <3>1, <3>2, <3>3
  <2>2. CASE step.kind = "delete"
    <3>1. mem' = DeleteId(mem, step.arg) /\ disk' = disk
      BY <1>1, <2>2
    <3>2. Work(K, N, todo, Tail(steps), disk, DeleteId(mem, step.arg), live)
      BY <1>1, <1>2, <1>5, <2>2, WorkDeleted DEF step
    <3>3. ASSUME Clean
          PROVE  Covers(K, N, Committed, todo, Tail(steps), disk, DeleteId(mem, step.arg), live)
      <4> DEFINE g == Committed
      <4>1. Covers(K, N, g, todo, steps, disk, mem, live)
        BY <1>5, <3>3
      <4> HIDE DEF g
      <4>2. Covers(K, N, g, todo, Tail(steps), disk, DeleteId(mem, Head(steps).arg), live)
        BY <1>1, <1>2, <1>5, <2>2, <4>1, CoversDeleted DEF step
      <4> QED
        BY <4>2 DEF g, step
    <3> QED
      BY <3>1, <3>2, <3>3
  <2>3. CASE step.kind = "truncate"
    <3>1. mem' = <<>> /\ disk' = <<>>
      BY <1>1, <2>3
    <3>2. Work(K, N, todo, Tail(steps), <<>>, <<>>, live)
      BY <1>1, <1>2, <1>5, <2>3, WorkTruncated DEF step
    <3>3. ASSUME Clean
          PROVE  Covers(K, N, Committed, todo, Tail(steps), <<>>, <<>>, live)
      <4> DEFINE g == Committed
      <4>1. Covers(K, N, g, todo, steps, disk, mem, live)
        BY <1>5, <3>3
      <4> HIDE DEF g
      <4>2. Covers(K, N, g, todo, Tail(steps), <<>>, <<>>, live)
        BY <1>1, <1>2, <1>5, <2>3, <4>1, CoversTruncated DEF step
      <4> QED
        BY <4>2 DEF g
    <3> QED
      BY <3>1, <3>2, <3>3
  <2>4. step.kind \in {"insert", "add", "delete", "truncate"}
    BY <1>6 DEF RowSteps
  <2> QED
    BY <2>1, <2>2, <2>3, <2>4
<1>10. Working'
  <2>1. InWork(K, N)'
    BY <1>1, <1>8, <1>9 DEF InWork, Clean, live
  <2>2. Due(K, N)'
    BY <1>1, <1>4 DEF Due
  <2> QED
    BY <2>1, <2>2 DEF Working
<1>11. Replaying'
  <2> SUFFICES ASSUME pc = "replay",
                      NEW j \in DOMAIN Tail(steps), Tail(steps)[j].kind = "insert",
                      ~ Batched(Tail(steps)[j].arg), Tail(steps)[j].arg \in Held(mem')
               PROVE  FALSE
    BY <1>1, <1>8 DEF Story, Replaying
  <2> DEFINE r == Tail(steps)[j].arg
  <2>1. j + 1 \in DOMAIN steps /\ 1 < j + 1 /\ steps[j + 1].kind = "insert" /\ steps[j + 1].arg = r
    BY <1>6
  <2>2. r \notin Held(mem)
    BY <1>8, <2>1 DEF Story, Replaying
  <2>3. r \in Held(mem')
    OBVIOUS
  <2> HIDE DEF r
  <2>4. CASE step.kind \in {"insert", "add"}
    <3>1. step.arg \in Rows /\ mem' = InsertRow(mem, step.arg)
      BY <1>1, <1>6, <2>4 DEF RowSteps
    <3>2. r = step.arg
      BY <1>2, <2>2, <2>3, <3>1, InsertHeld
    <3>3. step.arg \in StepAdds(steps[1]) /\ r \in StepAdds(steps[j + 1])
      BY <1>6, <2>1, <2>4 DEF StepAdds
    <3> QED
      BY <1>5, <1>6, <2>1, <3>2, <3>3 DEF Orderly
  <2>5. CASE step.kind = "delete"
    BY <1>5, <1>6, <2>1, <2>5 DEF Orderly
  <2>6. CASE step.kind = "truncate"
    <3>1. mem' = <<>>
      BY <1>1, <2>6
    <3> QED
      BY <2>3, <3>1, EmptyOn DEF Held
  <2>7. step.kind \in {"insert", "add", "delete", "truncate"}
    BY <1>6 DEF RowSteps
  <2> QED
    BY <2>4, <2>5, <2>6, <2>7
<1>12. Versions'
  BY <1>1, <1>8 DEF Story, Versions, Clean
<1> QED
  BY <1>1, <1>10, <1>11, <1>12
  DEF Story, Serving, Dropping, Redoing, Unfinished, RefusedOnlyInPart

\* A page of the cache is written: nothing is lost and nothing else changes.
LEMMA FlushPageStory ==
  ASSUME Inv, Story, NEW p \in DOMAIN mem, FlushPage(p)
  PROVE  Story'
<1>1. /\ pc \in {"apply", "replay", "sealed"} /\ Unwritten(p)
      /\ disk' = [PadTo(disk, p) EXCEPT ![p] = mem[p]]
      /\ UNCHANGED <<log, checkpoint, csn, mem, pageLsn, todo, steps, pc, acceptable, strays>>
  BY DEF FlushPage, logVars, versionVars, work, history
<1>2. Written(disk, mem, disk')
  <2>1. mem \in Heaps /\ disk \in Heaps /\ Len(disk) <= Len(mem)
    BY <1>1 DEF Inv, Typed, Pages
  <2>2. /\ PageOf(disk', p) = PageOf(mem, p) /\ p \in Nat
        /\ \A q \in Nat : q # p => PageOf(disk', q) = PageOf(disk, q)
    <3> DEFINE e == [PadTo(disk, p) EXCEPT ![p] = mem[p]]
    <3>1. /\ PageOf(e, p) = PageOf(mem, p) /\ p \in Nat
          /\ \A q \in Nat : q # p => PageOf(e, q) = PageOf(disk, q)
      BY <2>1, WriteOn
    <3> HIDE DEF e
    <3>2. disk' = e
      BY <1>1 DEF e
    <3> QED
      BY <3>1, <3>2
  <2> QED
    BY <2>2 DEF Written
<1>3. /\ Pending' = Pending /\ Committed' = Committed /\ (Uncommitted' <=> Uncommitted)
      /\ \A r : Batched(r)' <=> Batched(r)
  BY <1>1, LogKept
<1>4. Working'
  <2> SUFFICES ASSUME pc \in {"apply", "replay"} PROVE Working'
    BY <1>1 DEF Working
  <2>1. PICK K \in SUBSET Rows : \E N \in SUBSET Rows : Due(K, N) /\ InWork(K, N)
    BY DEF Story, Working
  <2>2. PICK N \in SUBSET Rows : Due(K, N) /\ InWork(K, N)
    BY <2>1
  <2> DEFINE live == pc = "apply"
             g == Committed
             e == disk'
  <2>3. live \in BOOLEAN /\ Work(K, N, todo, steps, disk, mem, live) /\ Written(disk, mem, e)
    BY <1>2, <2>2 DEF InWork
  <2>4. Clean => Covers(K, N, g, todo, steps, disk, mem, live)
    BY <2>2 DEF InWork
  <2> HIDE DEF live, g, e
  <2>5. Work(K, N, todo, steps, e, mem, live)
    BY <2>3, WorkWritten
  <2>6. Clean => Covers(K, N, g, todo, steps, e, mem, live)
    BY <2>3, <2>4, CoversWritten
  <2>7. InWork(K, N)'
    BY <1>1, <1>3, <2>5, <2>6 DEF InWork, Clean, live, g, e
  <2>8. Due(K, N)'
    BY <1>1, <2>2 DEF Due
  <2> QED
    BY <2>7, <2>8 DEF Working
<1>5. ASSUME pc = "sealed" PROVE ~ Uncommitted
  <2>1. disk # mem
    BY <1>1 DEF Unwritten
  <2> QED
    BY <1>5, <2>1 DEF Inv, Recoverable
<1>6. Dropping'
  BY <1>1, <1>3, <1>5 DEF Dropping
<1>7. Redoing'
  <2> SUFFICES ASSUME pc = "sealed", Clean PROVE Redoing'
    BY <1>1 DEF Redoing, Unfinished, Clean
  <2>1. Unfinished /\ Cached = mem
    BY <1>5 DEF Unfinished, Cached
  <2>2. PICK K \in SUBSET Rows : \E N \in SUBSET Rows : Due(K, N) /\ Redo(K, N, Committed, disk, mem)
    BY <2>1 DEF Story, Redoing
  <2>3. PICK N \in SUBSET Rows : Due(K, N) /\ Redo(K, N, Committed, disk, mem)
    BY <2>2
  <2>4. Redo(K, N, Committed, disk', mem)
    BY <1>2, <2>3, RedoWritten
  <2>5. Redo(K, N, Committed, disk, Cached)'
    BY <1>1, <1>3, <2>4 DEF Cached
  <2>6. Due(K, N)'
    BY <1>1, <2>3 DEF Due
  <2> QED
    BY <2>5, <2>6 DEF Redoing
<1>8. Versions' /\ Replaying'
  BY <1>1, <1>3 DEF Story, Versions, Replaying, Clean
<1> QED
  BY <1>1, <1>4, <1>6, <1>7, <1>8 DEF Story, Serving, RefusedOnlyInPart

\* The group is done: the cache has the rows that stay and those that came.
LEMMA PublishStory ==
  ASSUME Inv, Story, Keyed, PublishMvcc
  PROVE  Story'
<1>1. /\ pc \in {"apply", "replay"} /\ todo = <<>> /\ steps = <<>>
      /\ csn' = pageLsn /\ pc' = "checkpoint"
      /\ UNCHANGED <<log, checkpoint, disk, mem, pageLsn, todo, steps, acceptable, strays>>
  BY DEF PublishMvcc, Applied, logVars, work, history
<1>2. PICK K \in SUBSET Rows : \E N \in SUBSET Rows : Due(K, N) /\ InWork(K, N)
  BY <1>1 DEF Story, Working
<1>3. PICK N \in SUBSET Rows : Due(K, N) /\ InWork(K, N)
  BY <1>2
<1>4. mem \in Heaps
  BY DEF Inv, Typed
<1> DEFINE live == pc = "apply"
<1>5. live \in BOOLEAN /\ Work(K, N, <<>>, <<>>, disk, mem, live) /\ Final(K, N)
  BY <1>1, <1>3 DEF InWork, Due
<1>6. Unique(mem) /\ Held(mem) = K \cup N
  <2> HIDE DEF live
  <2> QED
    BY <1>4, <1>5, WorkDone
<1>7. Good(mem)
  <2>1. Contents(mem) = BagOf(K \cup N)
    BY <1>4, <1>6, UniqueBag
  <2> QED
    BY <1>3, <1>6, <2>1 DEF Good, Due
<1>8. Serving'
  BY <1>1, <1>7 DEF Serving, Good
<1>9. /\ Pending' = Pending /\ Committed' = Committed
  BY <1>1, LogKept
<1>10. Redoing'
  <2> SUFFICES ASSUME Clean PROVE Redoing'
    BY <1>1 DEF Redoing, Unfinished, Clean
  <2> DEFINE g == Committed
  <2>1. Work(K, N, todo, steps, disk, mem, live) /\ Covers(K, N, g, todo, steps, disk, mem, live)
    BY <1>3 DEF InWork
  <2> HIDE DEF g, live
  <2>2. Redo(K, N, g, disk, mem)
    BY <1>5, <2>1, RedoOf
  <2>3. Redo(K, N, Committed, disk, Cached)'
    BY <1>1, <1>9, <2>2 DEF Cached, g
  <2>4. Due(K, N)'
    BY <1>1, <1>3 DEF Due
  <2> QED
    BY <2>3, <2>4 DEF Redoing
<1>11. Versions'
  BY <1>1, <1>9 DEF Story, Versions, Clean
<1> QED
  BY <1>1, <1>8, <1>10, <1>11 DEF Story, Dropping, Working, Replaying, RefusedOnlyInPart

LEMMA CheckpointStory ==
  ASSUME Inv, Story, WriteCheckpoint
  PROVE  Story'
<1>1. pc = "checkpoint" /\ pc' = "truncate" /\ UNCHANGED <<mem, acceptable>>
  BY DEF WriteCheckpoint, history
<1>2. Serving'
  BY <1>1 DEF Story, Serving, Good
<1> QED
  BY <1>1, <1>2
  DEF Story, Dropping, Working, Redoing, Unfinished, Replaying, Versions, RefusedOnlyInPart

LEMMA TruncateStory ==
  ASSUME Inv, Story, TruncateBefore
  PROVE  Story'
<1>1. /\ pc = "truncate" /\ pc' = "ready" /\ mem' = mem
      /\ acceptable' = acceptable \cap {Contents(mem)}
  BY DEF TruncateBefore, Serve
<1>2. Serving'
  BY <1>1 DEF Story, Serving, Good
<1> QED
  BY <1>1, <1>2
  DEF Story, Dropping, Working, Redoing, Unfinished, Replaying, Versions, RefusedOnlyInPart

(***************************************************************************)
(* It is interrupted.                                                      *)
(***************************************************************************)

\* What a crash finds: either nothing is committed, and the data file is good, or
\* what is committed can be redone.
LEMMA Interrupted ==
  ASSUME Inv, Story, strays # "redone", pc \notin {"down", "refused"}
  PROVE  /\ Uncommitted => Good(disk)
         /\ ~ Uncommitted /\ Clean =>
              /\ csn \in {checkpoint, ReplayLsn(Pending)}
              /\ \E K \in SUBSET Rows : \E N \in SUBSET Rows :
                   Due(K, N) /\ Redo(K, N, Committed, disk, mem)
<1>1. CASE pc \in {"ready", "truncate"}
  <2>1. Clean => Upto(checkpoint)
    BY <1>1 DEF Inv, Numbers, Recoverable
  <2>2. Clean => Uncommitted
    BY <2>1, NothingPending DEF Inv
  <2>3. disk = mem /\ Good(mem)
    BY <1>1 DEF Inv, Pages, Story, Serving
  <2> QED
    BY <2>2, <2>3
<1>2. CASE pc \in {"apply", "replay"}
  <2> SUFFICES ASSUME Clean
               PROVE  /\ csn \in {checkpoint, ReplayLsn(Pending)}
                      /\ \E K \in SUBSET Rows : \E N \in SUBSET Rows :
                           Due(K, N) /\ Redo(K, N, Committed, disk, mem)
    BY <1>2 DEF Inv, Recoverable
  <2>1. ~ Uncommitted
    BY <1>2 DEF Inv, Recoverable
  <2>2. csn \in {checkpoint, ReplayLsn(Pending)}
    BY <1>2, <2>1 DEF Story, Versions
  <2>3. PICK K \in SUBSET Rows : \E N \in SUBSET Rows : Due(K, N) /\ InWork(K, N)
    BY <1>2 DEF Story, Working
  <2>4. PICK N \in SUBSET Rows : Due(K, N) /\ InWork(K, N)
    BY <2>3
  <2> DEFINE live == pc = "apply"
             g == Committed
  <2>5. /\ Work(K, N, todo, steps, disk, mem, live) /\ Covers(K, N, g, todo, steps, disk, mem, live)
        /\ live \in BOOLEAN
    BY <2>1, <2>4 DEF InWork
  <2> HIDE DEF g, live
  <2>6. Redo(K, N, g, disk, mem)
    BY <2>5, RedoOf
  <2> QED
    BY <2>1, <2>2, <2>4, <2>6 DEF g
<1>3. CASE pc = "checkpoint"
  <2> SUFFICES ASSUME Clean
               PROVE  /\ csn \in {checkpoint, ReplayLsn(Pending)}
                      /\ \E K \in SUBSET Rows : \E N \in SUBSET Rows :
                           Due(K, N) /\ Redo(K, N, Committed, disk, mem)
    BY <1>3 DEF Inv, Recoverable
  <2>1. ~ Uncommitted
    BY <1>3 DEF Inv, Recoverable
  <2>2. csn \in {checkpoint, ReplayLsn(Pending)}
    BY <1>3, <2>1 DEF Story, Versions
  <2>3. Unfinished /\ Cached = mem
    BY <1>3, <2>1 DEF Unfinished, Cached
  <2> QED
    BY <2>1, <2>2, <2>3 DEF Story, Redoing
<1>4. CASE pc = "sealed"
  <2>1. Uncommitted => Good(disk)
    BY <1>4 DEF Story, Dropping
  <2>2. ~ Uncommitted /\ Clean => csn \in {checkpoint, ReplayLsn(Pending)}
    BY <1>4 DEF Story, Versions
  <2>3. ~ Uncommitted /\ Clean => Unfinished /\ Cached = mem
    BY <1>4 DEF Unfinished, Cached
  <2> QED
    BY <2>1, <2>2, <2>3 DEF Story, Redoing
<1>5. pc \in {"ready", "truncate", "apply", "replay", "checkpoint", "sealed"}
  BY DEF Inv, Typed
<1> QED
  BY <1>1, <1>2, <1>3, <1>4, <1>5

LEMMA StopStory ==
  ASSUME Inv, Story, strays # "redone", IoError \/ Crash
  PROVE  Story'
<1>1. /\ pc \notin {"down", "refused"} /\ pc' \in {"down", "sealed"}
      /\ pc' = "sealed" => mem' = mem
      /\ UNCHANGED <<log, checkpoint, csn, disk, pageLsn, todo, steps, acceptable, strays>>
  BY DEF IoError, Crash, logVars, versionVars, work, history
<1>2. /\ Pending' = Pending /\ Committed' = Committed /\ (Uncommitted' <=> Uncommitted)
  BY <1>1, LogKept
<1>3. /\ Uncommitted => Good(disk)
      /\ ~ Uncommitted /\ Clean =>
           /\ csn \in {checkpoint, ReplayLsn(Pending)}
           /\ \E K \in SUBSET Rows : \E N \in SUBSET Rows :
                Due(K, N) /\ Redo(K, N, Committed, disk, mem)
  BY <1>1, Interrupted
<1>4. Dropping'
  BY <1>1, <1>2, <1>3 DEF Dropping, Good
<1>5. Redoing'
  <2> SUFFICES ASSUME ~ Uncommitted, Clean PROVE Redoing'
    BY <1>1, <1>2 DEF Redoing, Unfinished, Clean
  <2>1. PICK K \in SUBSET Rows : \E N \in SUBSET Rows : Due(K, N) /\ Redo(K, N, Committed, disk, mem)
    BY <1>3
  <2>2. PICK N \in SUBSET Rows : Due(K, N) /\ Redo(K, N, Committed, disk, mem)
    BY <2>1
  <2>3. Redo(K, N, Committed, disk, disk)
    BY <2>2, RedoCrashed
  <2>4. Redo(K, N, Committed, disk, Cached)'
    BY <1>1, <1>2, <2>2, <2>3 DEF Cached
  <2>5. Due(K, N)'
    BY <1>1, <2>2 DEF Due
  <2> QED
    BY <2>4, <2>5 DEF Redoing
<1>6. Versions'
  BY <1>1, <1>2, <1>3 DEF Versions, Clean
<1> QED
  BY <1>1, <1>4, <1>5, <1>6 DEF Story, Serving, Working, Replaying, RefusedOnlyInPart

(***************************************************************************)
(* The database is opened.                                                 *)
(***************************************************************************)

LEMMA DiscardStory ==
  ASSUME Inv, Story, Discard
  PROVE  Story'
<1>1. /\ pc = "down" /\ pc' = "ready" /\ mem' = disk
      /\ acceptable' = acceptable \cap {Contents(disk)}
  BY DEF Discard, Reopen, Serve
<1>2. Uncommitted
  BY DEF Discard, Uncommitted, Pending
<1>3. Serving'
  BY <1>1, <1>2 DEF Story, Dropping, Serving, Good
<1> QED
  BY <1>1, <1>3
  DEF Story, Dropping, Working, Redoing, Unfinished, Replaying, Versions, RefusedOnlyInPart

\* Records selected from others are among them.
LEMMA SelectedFrom ==
  ASSUME NEW T, NEW records \in Seq(T), NEW indexes, NEW i \in DOMAIN Select(records, indexes)
  PROVE  \E j \in DOMAIN records : Select(records, indexes)[i] = records[j]
<1> DEFINE U == {records[j] : j \in DOMAIN records \cap indexes}
           s == Select(records, indexes)
<1>1. s \in Seq(U)
  BY SelectTyped
<1> HIDE DEF s
<1>2. s[i] \in U
  <2> HIDE DEF U
  <2> QED
    BY <1>1 DEF s
<1> QED
  BY <1>2 DEF s

LEMMA CommittedFrom ==
  ASSUME NEW records \in Seq(LogFrames), NEW i \in DOMAIN CommittedOps(records)
  PROVE  \E j \in DOMAIN records : CommittedOps(records)[i] = records[j]
<1> DEFINE C == Commits(records)
           mark == MaxOf(C, 0)
           a == Select(records, 1 .. mark \ C)
           tail == SubSeq(records, mark + 1, Len(records))
           b == IF Len(tail) = 1 THEN tail ELSE <<>>
<1>1. CommittedOps(records) = a \o b
  BY DEF CommittedOps
<1>2. DOMAIN records = 1 .. Len(records) /\ Len(records) \in Nat
  OBVIOUS
<1>3. mark \in Nat
  <2>1. CASE C = {}
    BY <2>1 DEF MaxOf
  <2>2. CASE C # {}
    <3>1. C \in SUBSET Nat /\ \A k \in C : k <= Len(records)
      BY <1>2 DEF Commits
    <3> HIDE DEF C
    <3> QED
      BY <1>2, <2>2, <3>1, MaxIs
  <2> QED
    BY <2>1, <2>2
<1> HIDE DEF mark
<1>4. \A k \in DOMAIN a : \E j \in DOMAIN records : a[k] = records[j]
  BY SelectedFrom
<1>5. a \in Seq(LogFrames)
  <2>1. a \in Seq({records[k] : k \in DOMAIN records \cap (1 .. mark \ C)})
    BY SelectTyped
  <2>2. {records[k] : k \in DOMAIN records \cap (1 .. mark \ C)} \subseteq LogFrames
    OBVIOUS
  <2> HIDE DEF a
  <2> QED
    BY <2>1, <2>2
<1>6. b \in Seq(LogFrames) /\ \A k \in DOMAIN b : \E j \in DOMAIN records : b[k] = records[j]
  <2>1. tail \in Seq(LogFrames) /\ \A k \in DOMAIN tail : \E j \in DOMAIN records : tail[k] = records[j]
    <3>1. tail \in Seq(LogFrames)
      BY <1>2, <1>3
    <3>2. ASSUME NEW k \in DOMAIN tail PROVE \E j \in DOMAIN records : tail[k] = records[j]
      <4>1. mark + k \in DOMAIN records /\ tail[k] = records[mark + k]
        BY <1>2, <1>3
      <4> QED
        BY <4>1
    <3> QED
      BY <3>1, <3>2
  <2> HIDE DEF tail
  <2>2. <<>> \in Seq(LogFrames) /\ DOMAIN <<>> = {}
    OBVIOUS
  <2> QED
    BY <2>1, <2>2
<1> HIDE DEF a, b
<1>7. i \in DOMAIN (a \o b)
  BY <1>1
<1>8. \/ i \in DOMAIN a /\ (a \o b)[i] = a[i]
      \/ i - Len(a) \in DOMAIN b /\ (a \o b)[i] = b[i - Len(a)]
  BY <1>5, <1>6, <1>7
<1> QED
  BY <1>1, <1>4, <1>6, <1>8

LEMMA StartReplayStory ==
  ASSUME Inv, Story, StartReplay, strays' # "redone"
  PROVE  Story'
<1>1. /\ pc = "down" /\ mem' = disk /\ pc' = "replay" /\ steps' = <<>>
      /\ pageLsn' = ReplayLsn(Pending) /\ todo' = Committed
      /\ UNCHANGED <<log, checkpoint, csn, disk, acceptable>>
  BY DEF StartReplay, Reopen, Pending, Committed, OpsOf, versionVars, counts
<1>2. ~ Uncommitted
  BY DEF StartReplay, Uncommitted, Pending
<1>3. /\ Pending' = Pending /\ Committed' = Committed
  BY <1>1, LogKept
<1>10. Clean
  BY DEF StartReplay, Inv, Typed, Clean
<1>4. Unfinished /\ Cached = disk
  BY <1>1, <1>2, <1>10 DEF Unfinished, Cached
<1>5. PICK K \in SUBSET Rows : \E N \in SUBSET Rows : Due(K, N) /\ Redo(K, N, Committed, disk, disk)
  BY <1>4 DEF Story, Redoing
<1>6. PICK N \in SUBSET Rows : Due(K, N) /\ Redo(K, N, Committed, disk, disk)
  BY <1>5
<1>7. Working'
  <2> DEFINE g == Committed
  <2>1. Redo(K, N, g, disk, disk)
    BY <1>6
  <2> HIDE DEF g
  <2>2. Work(K, N, g, <<>>, disk, disk, FALSE) /\ Covers(K, N, g, g, <<>>, disk, disk, FALSE)
    BY <2>1, RedoStarts
  <2>3. InWork(K, N)'
    BY <1>1, <1>3, <2>2 DEF InWork, g
  <2>4. Due(K, N)'
    BY <1>1, <1>6 DEF Due
  <2> QED
    BY <2>3, <2>4 DEF Working
<1>8. Replaying'
  <2>1. ASSUME NEW j \in DOMAIN Committed PROVE \E i \in DOMAIN Pending : Committed[j] = Pending[i].op
    <3>1. Pending \in Seq(LogFrames)
      <4>1. log \in Seq(LogFrames) /\ checkpoint \in Nat
        BY DEF Inv, Typed
      <4> QED
        BY <4>1, RecordsAre DEF Pending
    <3>2. j \in DOMAIN CommittedOps(Pending) /\ Committed[j] = CommittedOps(Pending)[j].op
      BY <2>1 DEF Committed, OpsOf
    <3>3. PICK i \in DOMAIN Pending : CommittedOps(Pending)[j] = Pending[i]
      BY <3>1, <3>2, CommittedFrom
    <3> QED
      BY <3>2, <3>3
  <2>2. DOMAIN <<>> = {}
    OBVIOUS
  <2> QED
    BY <1>1, <1>3, <2>1, <2>2 DEF Replaying
<1>9. Versions'
  BY <1>1, <1>2, <1>3, <1>10 DEF Story, Versions
<1> QED
  BY <1>1, <1>7, <1>8, <1>9
  DEF Story, Serving, Dropping, Redoing, Unfinished, RefusedOnlyInPart

\* What replay_op() finds applied is there: such an operation can be left out.
LEMMA AppliedIs ==
  ASSUME Keyed, mem \in Heaps, NEW op \in Operations, OpAlreadyApplied(op)
  PROVE  /\ op.kind \in {"insert", "delete"} /\ AddsOf(op) \subseteq Held(mem)
         /\ \A id \in DelsOf(op) : ~ HasId(mem, id)
<1>1. CASE op.kind = "insert"
  <2>1. op.rows \in Seq(Rows)
    BY <1>1 DEF Operations
  <2>2. \A i \in DOMAIN op.rows : op.rows[i] \in Held(mem)
    <3> SUFFICES ASSUME NEW i \in DOMAIN op.rows PROVE op.rows[i] \in Held(mem)
      OBVIOUS
    <3>1. op.rows[i] \in Rows
      BY <2>1
    <3>2. Contents(mem)[op.rows[i]] > 0
      BY <1>1 DEF OpAlreadyApplied
    <3> QED
      BY <3>1, <3>2, Counted
  <2> QED
    BY <1>1, <2>2 DEF AddsOf, DelsOf, ToSet
<1>2. CASE op.kind = "delete"
  <2> SUFFICES ASSUME NEW id \in DelsOf(op) PROVE ~ HasId(mem, id)
    BY <1>2 DEF AddsOf
  <2>1. PICK i \in DOMAIN op.ids : id = op.ids[i]
    BY <1>2 DEF DelsOf, ToSet
  <2>2. WithId(mem, id) = {}
    BY <1>2, <2>1 DEF OpAlreadyApplied
  <2>3. CASE id # NoId
    BY <2>2, <2>3, WithIdIs
  <2>4. CASE id = NoId
    BY <2>4, HeldIs DEF HasId, Keyed
  <2> QED
    BY <2>3, <2>4
<1>3. CASE op.kind = "replace"
  BY <1>3 DEF OpAlreadyApplied
<1>4. op.kind \in {"insert", "delete", "replace"}
  BY DEF Operations
<1> QED
  BY <1>1, <1>2, <1>3, <1>4

\* An insertion that is not applied and is no batch has its row still to come.
LEMMA NotApplied ==
  ASSUME mem \in Heaps, NEW op \in Operations, ~ OpAlreadyApplied(op),
         NEW j \in DOMAIN Steps(op), Steps(op)[j].kind = "insert"
  PROVE  /\ op.kind = "insert" /\ Steps(op)[j].arg \in ToSet(op.rows)
         /\ Len(op.rows) > 1 \/ Steps(op)[j].arg \notin Held(mem)
<1>1. op.kind = "insert"
  BY StepsOf
<1>2. op.rows \in Seq(Rows)
  BY <1>1 DEF Operations
<1>3. j \in DOMAIN op.rows /\ Steps(op)[j].arg = op.rows[j]
  BY <1>1 DEF Steps
<1>4. Len(op.rows) > 1 \/ DOMAIN op.rows = {j}
  <2>1. Len(op.rows) \in Nat /\ DOMAIN op.rows = 1 .. Len(op.rows)
    BY <1>2
  <2> QED
    BY <1>3, <2>1
<1>5. PICK i \in DOMAIN op.rows : ~ (Contents(mem)[op.rows[i]] > 0)
  BY <1>1 DEF OpAlreadyApplied
<1>6. op.rows[i] \in Rows
  BY <1>2
<1>7. op.rows[i] \notin Held(mem)
  BY <1>5, <1>6, Counted
<1> QED
  BY <1>1, <1>3, <1>4, <1>7 DEF ToSet

LEMMA ReplayOpStory ==
  ASSUME Inv, Story, Keyed, ReplayOp
  PROVE  Story'
<1> DEFINE op == Head(todo)
<1>1. /\ pc = "replay" /\ steps = <<>> /\ todo # <<>> /\ Flushed
      /\ steps' = IF OpAlreadyApplied(op) THEN <<>> ELSE Steps(op)
      /\ todo' = Tail(todo)
      /\ UNCHANGED <<log, checkpoint, csn, disk, mem, pageLsn, pc, acceptable, strays>>
  BY DEF ReplayOp, logVars, versionVars, history
<1>2. todo \in Seq(Operations) /\ mem \in Heaps
  BY DEF Inv, Typed
<1>3. disk = mem
  BY <1>1, FlushedIs DEF Inv, Pages
<1>4. /\ op = todo[1] /\ 1 \in DOMAIN todo /\ op \in Operations
      /\ \A i \in DOMAIN Tail(todo) : i + 1 \in DOMAIN todo /\ Tail(todo)[i] = todo[i + 1]
  BY <1>1, <1>2, TailIs
<1>5. /\ Pending' = Pending /\ Committed' = Committed
      /\ \A r : Batched(r)' <=> Batched(r)
  BY <1>1, LogKept
<1>6. PICK K \in SUBSET Rows : \E N \in SUBSET Rows : Due(K, N) /\ InWork(K, N)
  BY <1>1 DEF Story, Working
<1>7. PICK N \in SUBSET Rows : Due(K, N) /\ InWork(K, N)
  BY <1>6
<1>8. InWork(K, N)'
  <2>1. CASE OpAlreadyApplied(op)
    <3>1. /\ op.kind \in {"insert", "delete"} /\ AddsOf(op) \subseteq Held(mem)
          /\ \A id \in DelsOf(op) : ~ HasId(mem, id)
      BY <1>2, <1>4, <2>1, AppliedIs
    <3> DEFINE g == Committed
    <3>2. /\ Work(K, N, todo, <<>>, disk, mem, FALSE)
          /\ Clean => Covers(K, N, g, todo, <<>>, disk, mem, FALSE)
      BY <1>1, <1>7 DEF InWork
    <3>3. Orderly(todo, <<>>)
      BY <3>2 DEF Work, Plan
    <3> HIDE DEF g
    <3>4. Work(K, N, Tail(todo), <<>>, disk, mem, FALSE)
      BY <1>1, <1>2, <3>1, <3>2, WorkSkipped
    <3>5. Clean => Covers(K, N, g, Tail(todo), <<>>, disk, mem, FALSE)
      BY <1>1, <1>2, <3>2, <3>3, CoversSkipped
    <3> QED
      BY <1>1, <1>5, <2>1, <3>4, <3>5 DEF InWork, Clean, g
  <2>2. CASE ~ OpAlreadyApplied(op)
    BY <1>1, <1>3, <1>7, <2>2, TakenWork
  <2> QED
    BY <2>1, <2>2
<1>9. Working'
  <2>1. Due(K, N)'
    BY <1>1, <1>7 DEF Due
  <2> QED
    BY <1>8, <2>1 DEF Working
<1>10. Replaying'
  <2>1. \A j \in DOMAIN todo : \E i \in DOMAIN Pending : todo[j] = Pending[i].op
    BY <1>1 DEF Story, Replaying
  <2>2. \A j \in DOMAIN Tail(todo) : \E i \in DOMAIN Pending : Tail(todo)[j] = Pending[i].op
    BY <1>4, <2>1
  <2>3. ASSUME NEW j \in DOMAIN steps', steps'[j].kind = "insert"
        PROVE  Batched(steps'[j].arg) \/ steps'[j].arg \notin Held(mem)
    <3>1. ~ OpAlreadyApplied(op) /\ steps' = Steps(op)
      BY <1>1, <2>3
    <3> HIDE DEF op
    <3>2. /\ op.kind = "insert" /\ steps'[j].arg \in ToSet(op.rows)
          /\ Len(op.rows) > 1 \/ steps'[j].arg \notin Held(mem)
      BY <1>2, <1>4, <2>3, <3>1, NotApplied
    <3>3. PICK i \in DOMAIN Pending : op = Pending[i].op
      BY <1>4, <2>1
    <3> QED
      BY <3>2, <3>3 DEF Batched
  <2> QED
    BY <1>1, <1>5, <2>2, <2>3 DEF Replaying
<1>11. Versions'
  BY <1>1, <1>5 DEF Story, Versions, Clean
<1> QED
  BY <1>1, <1>9, <1>10, <1>11
  DEF Story, Serving, Dropping, Redoing, Unfinished, RefusedOnlyInPart

(***************************************************************************)
(* It is refused.                                                          *)
(***************************************************************************)

\* An id that is there already belongs to the row to insert, and that is one of a batch.
LEMMA RefuseReplayStory ==
  ASSUME Inv, Story, Keyed, RefuseReplay
  PROVE  Story'
<1> DEFINE step == Head(steps)
<1>1. /\ pc = "replay" /\ steps # <<>> /\ step.kind = "insert" /\ WithId(mem, step.arg.id) # {}
      /\ pc' = "refused" /\ UNCHANGED <<log, checkpoint, csn, steps>>
  BY DEF RefuseReplay, DuplicateId, Duplicate, logVars, versionVars, work
<1>2. mem \in Heaps /\ steps \in Seq(RowSteps) /\ todo \in Seq(Operations)
  BY DEF Inv, Typed
<1>3. steps[1] = step /\ 1 \in DOMAIN steps /\ step \in RowSteps
  BY <1>1, <1>2, TailIs
<1>4. step.arg \in Rows /\ step.arg.id # NoId
  BY <1>1, <1>3 DEF RowSteps, Keyed
<1>5. PICK x \in Held(mem) : x.id = step.arg.id
  BY <1>1, <1>2, <1>4, WithIdIs DEF HasId
<1>6. PICK K \in SUBSET Rows : \E N \in SUBSET Rows : Due(K, N) /\ InWork(K, N)
  BY <1>1 DEF Story, Working
<1>7. PICK N \in SUBSET Rows : Due(K, N) /\ InWork(K, N)
  BY <1>6
<1>8. Work(K, N, todo, steps, disk, mem, FALSE) /\ Distinct(K \cup N)
  BY <1>1, <1>7 DEF InWork, Due, Final
<1>9. Orderly(todo, steps) /\ Adds(todo, steps) \subseteq N
  BY <1>8 DEF Work, Plan
<1>10. /\ Dels(todo, steps) = {} /\ ~ Clears(todo, steps)
       /\ Adds(todo, steps) = StepAdds(step) \cup Adds(todo, Tail(steps))
  <2> HIDE DEF step
  <2>1. todo \in Seq(Operations) /\ steps \in Seq(RowSteps) /\ steps # <<>> /\ Orderly(todo, steps)
    BY <1>1, <1>2, <1>9
  <2>2. Head(steps).kind # "delete" => Dels(todo, steps) = {}
    BY <2>1, StepDone
  <2>3. Clears(todo, steps) <=> Head(steps).kind = "truncate"
    BY <2>1, StepDone
  <2>4. Adds(todo, steps) = StepAdds(Head(steps)) \cup Adds(todo, Tail(steps))
    BY <2>1, StepDone
  <2> QED
    BY <1>1, <2>2, <2>3, <2>4 DEF step
<1> HIDE DEF step
<1>11. x \in K \cup N
  BY <1>5, <1>8, <1>10 DEF Work
<1>12. step.arg \in N
  BY <1>1, <1>9, <1>10 DEF StepAdds
<1>13. x = step.arg
  BY <1>5, <1>8, <1>11, <1>12 DEF Distinct
<1>14. Batched(step.arg)
  BY <1>1, <1>3, <1>5, <1>13 DEF Story, Replaying
<1>15. /\ Pending' = Pending /\ steps' = steps
  BY <1>1, LogKept
<1>16. RefusedOnlyInPart'
  BY <1>1, <1>14, <1>15 DEF RefusedOnlyInPart, Batched, Pending, step
<1> QED
  BY <1>1, <1>16
  DEF Story, Serving, Dropping, Working, Redoing, Unfinished, Replaying, Versions

\* The numbers in a log are bounded.
LEMMA LogBounded ==
  ASSUME NEW records \in Seq(LogFrames)
  PROVE  \E b \in Nat : \A i \in DOMAIN records : records[i].lsn <= b
<1>1. DOMAIN records = 1 .. Len(records) /\ Len(records) \in Nat
  OBVIOUS
<1>2. \A i \in DOMAIN records : records[i].lsn \in Nat
  <2>1. \A i \in DOMAIN records : records[i] \in LogFrames
    OBVIOUS
  <2> QED
    BY <2>1 DEF LogFrames
<1> DEFINE Below(b, n) == \A i \in 1 .. n : i <= Len(records) => records[i].lsn <= b
           P == {n \in Nat : \E b \in Nat : Below(b, n)}
<1>3. 0 \in P
  <2>1. Below(0, 0)
    OBVIOUS
  <2> QED
    BY <2>1
<1>4. ASSUME NEW n \in P PROVE n + 1 \in P
  <2>1. PICK b \in Nat : Below(b, n)
    OBVIOUS
  <2>2. CASE n + 1 > Len(records)
    <3>1. Below(b, n + 1)
      BY <1>1, <2>1, <2>2
    <3> HIDE DEF Below
    <3> QED
      BY <3>1
  <2>3. CASE n + 1 <= Len(records)
    <3> DEFINE x == records[n + 1].lsn
    <3>1. x \in Nat
      BY <1>1, <1>2, <2>3
    <3>2. \A i \in 1 .. n + 1 : i = n + 1 \/ i \in 1 .. n
      OBVIOUS
    <3>3. \A i \in 1 .. n : i <= Len(records) => records[i].lsn \in Nat
      BY <1>1, <1>2
    <3>4. Below(b + x, n + 1)
      <4> SUFFICES ASSUME NEW i \in 1 .. n + 1, i <= Len(records) PROVE records[i].lsn <= b + x
        OBVIOUS
      <4>1. CASE i = n + 1
        BY <3>1, <4>1
      <4>2. CASE i \in 1 .. n
        BY <2>1, <3>1, <3>3, <4>2
      <4> QED
        BY <3>2, <4>1, <4>2
    <3>5. b + x \in Nat
      BY <3>1
    <3> HIDE DEF Below, x
    <3> QED
      BY <3>4, <3>5
  <2>4. Len(records) \in Nat /\ n \in Nat
    BY <1>1
  <2>5. n + 1 > Len(records) \/ n + 1 <= Len(records)
    BY <2>4
  <2> HIDE DEF P
  <2> QED
    BY <2>2, <2>3, <2>5
<1>5. P = Nat
  <2>1. P \in SUBSET Nat
    OBVIOUS
  <2> HIDE DEF P
  <2> QED
    BY <1>3, <1>4, <2>1, SetInduction
<1>6. PICK b \in Nat : Below(b, Len(records))
  <2>1. Len(records) \in P
    BY <1>1, <1>5
  <2> HIDE DEF Below
  <2> QED
    BY <2>1
<1>7. ASSUME NEW i \in DOMAIN records PROVE records[i].lsn <= b
  <2>1. i \in 1 .. Len(records) /\ i <= Len(records)
    BY <1>1
  <2> QED
    BY <1>6, <2>1
<1> QED
  BY <1>7

LEMMA RefuseOpenStory ==
  ASSUME Inv, Story, strays # "redone", RefuseOpen
  PROVE  Story'
<1>1. pc = "down" /\ Ahead /\ pc' = "refused" /\ UNCHANGED <<log, checkpoint, csn>>
  BY DEF RefuseOpen, Reopen, versionVars
<1>2. log \in Seq(LogFrames) /\ checkpoint \in Nat /\ csn \in Nat /\ Pending \in Seq(LogFrames)
  <2>1. log \in Seq(LogFrames) /\ checkpoint \in Nat /\ csn \in Nat
    BY DEF Inv, Typed
  <2> QED
    BY <2>1, RecordsAre DEF Pending
<1> DEFINE S == {checkpoint} \cup {log[i].lsn : i \in Commits(log)}
<1>3. \A n \in S : n \in Nat /\ n < csn
  <2>1. \A i \in DOMAIN log : log[i].lsn \in Nat
    <3>1. \A i \in DOMAIN log : log[i] \in LogFrames
      BY <1>2
    <3> QED
      BY <3>1 DEF LogFrames
  <2>2. S \in SUBSET Nat /\ checkpoint \in S
    BY <1>2, <2>1 DEF Commits
  <2>3. PICK b \in Nat : \A i \in DOMAIN log : log[i].lsn <= b
    BY <1>2, LogBounded
  <2>4. PICK c \in Nat : \A n \in S : n <= c
    <3>1. checkpoint + b \in Nat /\ checkpoint <= checkpoint + b
      BY <1>2
    <3>2. \A i \in DOMAIN log : log[i].lsn <= checkpoint + b
      BY <1>2, <2>1, <2>3
    <3> QED
      BY <3>1, <3>2 DEF Commits
  <2>5. csn > MaxOf(S, 0)
    BY <1>1 DEF Ahead
  <2> HIDE DEF S
  <2>6. MaxOf(S, 0) \in S /\ \A n \in S : n <= MaxOf(S, 0)
    BY <2>2, <2>4, MaxIs
  <2>7. MaxOf(S, 0) \in Nat
    BY <2>2, <2>6
  <2> QED
    BY <1>2, <2>2, <2>5, <2>6, <2>7
<1>4. csn # checkpoint
  BY <1>2, <1>3
<1>5. ~ Uncommitted
  BY <1>1, <1>4 DEF Inv, Recoverable, Settled
<1>11. Clean
  <2> SUFFICES ASSUME strays = "logged" PROVE FALSE
    BY DEF Inv, Typed, Clean
  <2>1. csn <= checkpoint \/ \E i \in Commits(log) : csn <= log[i].lsn
    BY <1>1 DEF Inv, Marked, Shows
  <2>2. PICK n \in S : csn <= n
    BY <2>1
  <2> HIDE DEF S
  <2> QED
    BY <1>2, <1>3, <2>2
<1>6. csn = ReplayLsn(Pending)
  BY <1>1, <1>4, <1>5, <1>11 DEF Story, Versions
<1>7. \A i \in Commits(Pending) : csn # Pending[i].lsn
  <2> SUFFICES ASSUME NEW i \in Commits(Pending), csn = Pending[i].lsn PROVE FALSE
    OBVIOUS
  <2>1. i \in DOMAIN Pending /\ Pending[i].op = Commit
    BY DEF Commits
  <2>2. PICK j \in DOMAIN log : Pending[i] = log[j]
    <3> DEFINE indexes == {k \in DOMAIN log : log[k].lsn > checkpoint}
    <3>1. Pending = Select(log, indexes)
      BY DEF Pending, RecordsAfter
    <3> HIDE DEF indexes
    <3> QED
      BY <1>2, <2>1, <3>1, SelectedFrom
  <2>3. csn \in S
    BY <2>1, <2>2 DEF Commits
  <2> QED
    BY <1>2, <1>3, <2>3
<1>8. Commits(Pending) = {} /\ Len(Pending) = 1 /\ csn = Pending[1].lsn
  BY <1>2, <1>5, <1>6, <1>7, ReplayRecord DEF Uncommitted
<1>9. Pending' = Pending
  BY <1>1, LogKept
<1>10. RefusedOnlyInPart'
  BY <1>1, <1>8, <1>9 DEF RefusedOnlyInPart, Pending
<1> QED
  BY <1>1, <1>10
  DEF Story, Serving, Dropping, Working, Redoing, Unfinished, Replaying, Versions

LEMMA InitStory ==
  ASSUME Keyed, IdsUnique(InitPages), Init
  PROVE  Story
<1>1. mem = InitPages /\ pc = "ready" /\ acceptable = {Contents(mem)}
  BY DEF Init
<1>2. InitPages \in Heaps
  BY WalAssumption DEF Heaps
<1>3. Unique(mem)
  BY <1>1, <1>2, UniqueIs
<1> QED
  BY <1>1, <1>3
  DEF Story, Serving, Good, Dropping, Working, Redoing, Unfinished, Replaying, Versions, RefusedOnlyInPart

LEMMA StutterStory ==
  ASSUME Story, UNCHANGED vars
  PROVE  Story'
<1>1. UNCHANGED <<log, checkpoint, csn, disk, mem, pageLsn, todo, steps, pc, acceptable, strays>>
  BY DEF vars, logVars, versionVars, work, history
<1>2. /\ Pending' = Pending /\ Committed' = Committed /\ (Uncommitted' <=> Uncommitted)
      /\ \A r : Batched(r)' <=> Batched(r)
  BY <1>1, LogKept
<1>3. Serving' /\ Dropping'
  BY <1>1, <1>2 DEF Story, Serving, Dropping, Good
<1>4. Working'
  BY <1>1, <1>2 DEF Story, Working, Due, InWork, Clean
<1>5. Redoing'
  BY <1>1, <1>2 DEF Story, Redoing, Unfinished, Due, Cached, Clean
<1>6. Replaying' /\ Versions'
  BY <1>1, <1>2 DEF Story, Replaying, Versions, Clean
<1>7. RefusedOnlyInPart'
  BY <1>1 DEF Story, RefusedOnlyInPart
<1> QED
  BY <1>3, <1>4, <1>5, <1>6, <1>7 DEF Story

\* A recovery that redid such frames is not forgotten.
LEMMA StaysRedone ==
  ASSUME [Next]_vars, strays = "redone"
  PROVE  strays' = "redone"
<1>1. ASSUME NEW ops \in Groups, AppendGroup(ops) \/ AppendCrash(ops) \/ AppendError(ops)
      PROVE  strays' = "redone"
  BY <1>1 DEF AppendGroup, AppendCrash, AppendError, Stray
<1>2. CASE ApplyOp \/ RowStep \/ ReplayOp \/ RefuseReplay
  BY <1>2 DEF ApplyOp, RowStep, ReplayOp, RefuseReplay, history
<1>3. ASSUME NEW p \in DOMAIN mem, FlushPage(p) PROVE strays' = "redone"
  BY <1>3 DEF FlushPage, history
<1>4. CASE PublishMvcc \/ WriteCheckpoint \/ TruncateBefore
  BY <1>4 DEF PublishMvcc, WriteCheckpoint, TruncateBefore, Serve, NoStray, history
<1>5. CASE IoError \/ Crash
  BY <1>5 DEF IoError, Crash, history
<1>6. CASE Discard \/ StartReplay \/ RefuseOpen
  BY <1>6 DEF Discard, StartReplay, RefuseOpen, Serve, NoStray, history
<1>7. CASE Done \/ UNCHANGED vars
  BY <1>7 DEF Done, vars, history
<1> QED
  BY <1>1, <1>2, <1>3, <1>4, <1>5, <1>6, <1>7 DEF Next

LEMMA NextTold ==
  ASSUME Inv, Told, [Next]_vars, Keyed, Merged
  PROVE  Told'
<1> SUFFICES ASSUME strays' # "redone" PROVE Story'
  BY DEF Told
<1>9. strays # "redone" /\ Story
  BY StaysRedone DEF Told
<1>1. ASSUME NEW ops \in Groups, AppendGroup(ops) \/ AppendCrash(ops) \/ AppendError(ops)
      PROVE  Story'
  BY <1>1, <1>9, AppendGroupStory, AppendCrashStory, AppendErrorStory
<1>2. CASE ApplyOp \/ RowStep \/ ReplayOp
  BY <1>2, <1>9, ApplyOpStory, RowStepStory, ReplayOpStory
<1>3. ASSUME NEW p \in DOMAIN mem, FlushPage(p) PROVE Story'
  BY <1>3, <1>9, FlushPageStory
<1>4. CASE PublishMvcc \/ WriteCheckpoint \/ TruncateBefore
  BY <1>4, <1>9, PublishStory, CheckpointStory, TruncateStory
<1>5. CASE IoError \/ Crash
  BY <1>5, <1>9, StopStory
<1>6. CASE Discard \/ StartReplay
  BY <1>6, <1>9, DiscardStory, StartReplayStory
<1>7. CASE RefuseReplay \/ RefuseOpen
  BY <1>7, <1>9, RefuseReplayStory, RefuseOpenStory
<1>8. CASE Done \/ UNCHANGED vars
  BY <1>8, <1>9, StutterStory DEF Done
<1> QED
  BY <1>1, <1>2, <1>3, <1>4, <1>5, <1>6, <1>7, <1>8 DEF Next

LEMMA ToldInductive ==
  ASSUME Keyed, Merged, IdsUnique(InitPages)
  PROVE  Spec => [](Inv /\ Told)
<1>1. Init => Inv /\ Told
  BY InitInv, InitStory DEF Told
<1>2. Inv /\ Told /\ [Next]_vars => (Inv /\ Told)'
  BY NextInv, NextTold
<1> QED
  BY <1>1, <1>2, PTL DEF Spec

\* A database that group_via_wal() or recover_wal() lets serve shows every committed
\* group as a whole and in order, nothing of a group that was refused or whose
\* commit a crash lost, and no id twice: through any number of crashes, also while
\* it recovers, with any mixture of old and new pages in the data file, and through
\* failed appends of any length - until a recovery takes frames of a failed append
\* or a lone first frame for committed (Atomic says when).
THEOREM AtomicHolds ==
  ASSUME Keyed, Merged, IdsUnique(InitPages)
  PROVE  Spec => []Atomic
<1>1. Inv /\ Told => Atomic
  <2> SUFFICES ASSUME Inv, Story, pc = "ready" PROVE Contents(mem) \in acceptable /\ IdsUnique(mem)
    BY DEF Atomic, Told
  <2>1. Unique(mem) /\ Contents(mem) \in acceptable
    BY DEF Story, Serving, Good
  <2>2. mem \in Heaps
    BY DEF Inv, Typed
  <2> QED
    BY <2>1, <2>2, UniqueIs
<1> QED
  BY <1>1, ToldInductive, PTL

\* recover_wal() gives up only on a row of a batch insert that had reached the data
\* file while its batch had not, or on a lone record that an earlier recovery
\* published without reaching its checkpoint - until a recovery takes frames of a
\* failed append or a lone first frame for committed.
THEOREM RefusalsInPart ==
  ASSUME Keyed, Merged, IdsUnique(InitPages)
  PROVE  Spec => []RefusedOnlyInPart
<1>1. Told => RefusedOnlyInPart
  BY DEF Told, Story, RefusedOnlyInPart
<1> QED
  BY <1>1, ToldInductive, PTL
=============================================================================
