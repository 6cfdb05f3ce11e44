------------------------- MODULE PageJournalProofs -------------------------
(***************************************************************************)
(* PageJournal is correct for every set of pages and images, every pool    *)
(* size and every number of failures.                                      *)
(*                                                                         *)
(* The four properties are invariant together with the six parts of Inv    *)
(* that say what each stage knows.  Redo needs Writing (an image is in the *)
(* journal before its page is overwritten), Batch (the frames that one     *)
(* sync makes durable) and HeadersGrow (new frames are above the published *)
(* sequence); DropsNothing needs Clean and Writing for flush() and         *)
(* Replaying for open().                                                   *)
(*                                                                         *)
(* One lemma per action, one step per part of Inv.                         *)
(***************************************************************************)
EXTENDS PageJournal, TLAPS

\* The journal decides which frames decide.
LEMMA DecidingKept ==
  ASSUME UNCHANGED journalVars, NEW p
  PROVE  Deciding(p)' = Deciding(p)
BY DEF journalVars, Deciding

\* Redo survives writes to pages that a frame decides.
LEMMA RedoKept ==
  ASSUME Redo, UNCHANGED <<journalVars, durable>>,
         \A p \in Pages : Deciding(p) = {} => file'[p] = file[p] /\ (p \in unsynced' => p \in unsynced)
  PROVE  Redo'
<1> SUFFICES ASSUME NEW p \in Pages
    PROVE  \/ \E i \in Deciding(p) : journal[i].image = durable[p] /\ \A j \in Deciding(p) : j <= i
           \/ Deciding(p) = {} /\ p \notin unsynced' /\ file'[p] = durable[p]
  BY DecidingKept DEF Redo, journalVars
<1> QED
  BY DEF Redo

\* What TypeOK says of the frames, as facts about indices.
LEMMA FrameTypes ==
  ASSUME TypeOK
  PROVE  /\ Len(journal) \in Nat /\ DOMAIN journal = 1..Len(journal)
         /\ synced \in Nat /\ synced <= Len(journal)
         /\ \A i \in 1..Len(journal) : /\ journal[i].seq \in Nat
                                       /\ journal[i].page \in Pages \cup {Reset}
                                       /\ journal[i].image \in Images
<1>1. Len(journal) \in Nat /\ DOMAIN journal = 1..Len(journal) /\ synced \in Nat /\ synced <= Len(journal)
  BY DEF TypeOK
<1> DEFINE Frame == [seq : Nat, page : Pages \cup {Reset}, image : Images]
<1>2. journal \in Seq(Frame)
  BY DEF TypeOK
<1> HIDE DEF Frame
<1>3. \A i \in 1..Len(journal) : journal[i] \in Frame
  BY <1>2
<1> QED
  BY <1>1, <1>3 DEF Frame


\* A page is written into the pool.
LEMMA WritePageStep ==
  ASSUME Inv, NEW p \in Pages, NEW image \in Images, WritePage(p, image)
  PROVE  Inv'
<1> USE PageAssumption
<1>1. TypeOK'
  BY DEF Inv, Stages, TypeOK, Cached, WritePage, fileVars, journalVars,
         stateVars, control
<1>2. Redo'
  BY DEF Inv, Stages, Redo, Deciding, WritePage, fileVars, journalVars
<1>3. DropsNothing'
  BY DEF Inv, DropsNothing, WritePage, fileVars, journalVars, control
<1>4. ReadsBack'
  BY DEF Inv, TypeOK, ReadsBack, Serving, View, Cached, WritePage, fileVars,
         control
<1>5. HeadersGrow'
  BY DEF Inv, Stages, HeadersGrow, WritePage, journalVars, stateVars, control
<1>6. Stages'
  BY DEF Inv, TypeOK, Stages, WritePage, stateVars, control
<1>7. Closed'
  BY DEF Inv, Stages, Closed, WritePage, journalVars, stateVars, control
<1>8. Clean'
  BY DEF Inv, Stages, Clean, Cached, WritePage, fileVars, control
<1>9. Writing'
  BY DEF Writing, Deciding, WritePage, fileVars, journalVars, control
<1>10. Batch'
  BY DEF Inv, Stages, Batch, WritePage, journalVars, control
<1>11. Replaying'
  BY DEF Inv, Stages, Replaying, WritePage, control
<1> QED
  BY <1>1, <1>2, <1>3, <1>4, <1>5, <1>6, <1>7, <1>8, <1>9, <1>10, <1>11 DEF Inv

\* A page is read into the pool.
LEMMA LoadPageStep ==
  ASSUME Inv, NEW p \in Pages, LoadPage(p)
  PROVE  Inv'
<1> USE PageAssumption
<1>1. TypeOK'
  BY DEF Inv, TypeOK, Redo, DropsNothing, Stages, Clean, Cached, LoadPage,
         fileVars, journalVars, stateVars, control
<1>2. Redo'
  BY DEF Inv, Stages, Redo, Deciding, LoadPage, fileVars, journalVars
<1>3. DropsNothing'
  BY DEF Inv, DropsNothing, LoadPage, fileVars, journalVars, control
<1>4. ReadsBack'
  BY DEF Inv, Stages, ReadsBack, Serving, View, Cached, LoadPage, fileVars,
         control
<1>5. HeadersGrow'
  BY DEF Inv, Stages, HeadersGrow, LoadPage, journalVars, stateVars, control
<1>6. Stages'
  BY DEF Inv, TypeOK, Stages, LoadPage, stateVars, control
<1>7. Closed'
  BY DEF Inv, Stages, Closed, LoadPage, journalVars, stateVars, control
<1>8. Clean'
  BY DEF Inv, Stages, Clean, Cached, LoadPage, fileVars, control
<1>9. Writing'
  BY DEF Writing, Deciding, LoadPage, fileVars, journalVars, control
<1>10. Batch'
  BY DEF Inv, Stages, Batch, LoadPage, journalVars, control
<1>11. Replaying'
  BY DEF Inv, Stages, Replaying, LoadPage, control
<1> QED
  BY <1>1, <1>2, <1>3, <1>4, <1>5, <1>6, <1>7, <1>8, <1>9, <1>10, <1>11 DEF Inv

\* A clean page leaves the pool.
LEMMA EvictCleanStep ==
  ASSUME Inv, NEW p \in Pages, EvictClean(p)
  PROVE  Inv'
<1> USE PageAssumption
<1>1. TypeOK'
  BY DEF Inv, Stages, TypeOK, Cached, EvictClean, fileVars, journalVars,
         stateVars, control
<1>2. Redo'
  <2>1. UNCHANGED <<journalVars, durable>>
    BY DEF EvictClean, journalVars
  <2>2. \A q \in Pages : Deciding(q) = {} => file'[q] = file[q] /\ (q \in unsynced' => q \in unsynced)
    BY DEF EvictClean, fileVars
  <2> QED
    BY <2>1, <2>2, RedoKept DEF Inv
<1>3. DropsNothing'
  BY DEF Inv, DropsNothing, EvictClean, fileVars, journalVars, control
<1>4. ReadsBack'
  BY DEF Inv, TypeOK, ReadsBack, Stages, Clean, Writing, DropsNothing, Serving,
         View, Cached, EvictClean, fileVars, control
<1>5. HeadersGrow'
  BY DEF Inv, Stages, HeadersGrow, EvictClean, journalVars, stateVars, control
<1>6. Stages'
  BY DEF Inv, TypeOK, Stages, EvictClean, stateVars, control
<1>7. Closed'
  BY DEF Inv, Stages, Closed, EvictClean, journalVars, stateVars, control
<1>8. Clean'
  BY DEF Inv, Stages, Clean, Cached, EvictClean, fileVars, control
<1>9. Writing'
  BY DEF Writing, Deciding, EvictClean, fileVars, journalVars, control
<1>10. Batch'
  BY DEF Inv, Stages, Batch, EvictClean, journalVars, control
<1>11. Replaying'
  BY DEF Inv, Stages, Replaying, EvictClean, control
<1> QED
  BY <1>1, <1>2, <1>3, <1>4, <1>5, <1>6, <1>7, <1>8, <1>9, <1>10, <1>11 DEF Inv

\* The eviction of a dirty page begins.
LEMMA EvictDirtyStep ==
  ASSUME Inv, NEW p \in Pages, EvictDirty(p)
  PROVE  Inv'
<1> USE PageAssumption
<1>1. TypeOK'
  BY DEF Inv, Stages, TypeOK, Cached, EvictDirty, Prepare, fileVars,
         journalVars, stateVars, poolVars
<1>2. Redo'
  BY DEF Inv, Stages, Redo, Deciding, EvictDirty, Prepare, fileVars, journalVars
<1>3. DropsNothing'
  BY DEF Inv, DropsNothing, EvictDirty, Prepare, fileVars, journalVars
<1>4. ReadsBack'
  BY DEF Inv, Stages, ReadsBack, Serving, View, Cached, EvictDirty, Prepare,
         fileVars, poolVars
<1>5. HeadersGrow'
  BY DEF Inv, Stages, HeadersGrow, EvictDirty, Prepare, journalVars, stateVars
<1>6. Stages'
  BY DEF Inv, Stages, EvictDirty, Prepare, stateVars, poolVars
<1>7. Closed'
  BY DEF Inv, TypeOK, Stages, Closed, EvictDirty, Prepare, journalVars,
         stateVars
<1>8. Clean'
  BY DEF Inv, Stages, Clean, Cached, EvictDirty, Prepare, fileVars, poolVars
<1>9. Writing'
  BY DEF Writing, Deciding, EvictDirty, Prepare, fileVars, journalVars, poolVars
<1>10. Batch'
  BY DEF Inv, TypeOK, Stages, Closed, Batch, HeadersGrow, EvictDirty, Prepare,
         journalVars, poolVars
<1>11. Replaying'
  BY DEF Inv, Stages, Replaying, EvictDirty, Prepare, control
<1> QED
  BY <1>1, <1>2, <1>3, <1>4, <1>5, <1>6, <1>7, <1>8, <1>9, <1>10, <1>11 DEF Inv

\* flush() begins.
LEMMA FlushStep ==
  ASSUME Inv, Flush
  PROVE  Inv'
<1> USE PageAssumption
<1>1. TypeOK'
  BY DEF Inv, Stages, TypeOK, Cached, Flush, Prepare, fileVars, journalVars,
         stateVars, poolVars
<1>2. Redo'
  BY DEF Inv, Stages, Redo, Deciding, Flush, Prepare, fileVars, journalVars
<1>3. DropsNothing'
  BY DEF Inv, DropsNothing, Flush, Prepare, fileVars, journalVars
<1>4. ReadsBack'
  BY DEF Inv, Stages, ReadsBack, Serving, View, Cached, Flush, Prepare,
         fileVars, poolVars
<1>5. HeadersGrow'
  BY DEF Inv, Stages, HeadersGrow, Flush, Prepare, journalVars, stateVars
<1>6. Stages'
  BY DEF Inv, Stages, Flush, Prepare, stateVars, poolVars
<1>7. Closed'
  BY DEF Inv, TypeOK, Stages, Closed, Flush, Prepare, journalVars, stateVars
<1>8. Clean'
  BY DEF Inv, Stages, Clean, Cached, Flush, Prepare, fileVars, poolVars
<1>9. Writing'
  BY DEF Writing, Deciding, Flush, Prepare, fileVars, journalVars, poolVars
<1>10. Batch'
  BY DEF Inv, TypeOK, Stages, Closed, Batch, HeadersGrow, Flush, Prepare,
         journalVars, poolVars
<1>11. Replaying'
  BY DEF Inv, Stages, Replaying, Flush, Prepare, control
<1> QED
  BY <1>1, <1>2, <1>3, <1>4, <1>5, <1>6, <1>7, <1>8, <1>9, <1>10, <1>11 DEF Inv

\* truncate() begins.
LEMMA TruncateStep ==
  ASSUME Inv, Truncate
  PROVE  Inv'
<1> USE PageAssumption
<1>1. TypeOK'
  BY DEF Inv, Stages, TypeOK, Cached, Truncate, Prepare, fileVars, journalVars,
         stateVars, poolVars
<1>2. Redo'
  BY DEF Inv, Stages, Redo, Deciding, Truncate, Prepare, fileVars, journalVars
<1>3. DropsNothing'
  BY DEF Inv, DropsNothing, Truncate, Prepare, fileVars, journalVars
<1>4. ReadsBack'
  BY DEF Inv, Stages, ReadsBack, Serving, View, Cached, Truncate, Prepare,
         fileVars, poolVars
<1>5. HeadersGrow'
  BY DEF Inv, Stages, HeadersGrow, Truncate, Prepare, journalVars, stateVars
<1>6. Stages'
  BY DEF Inv, Stages, Truncate, Prepare, stateVars, poolVars
<1>7. Closed'
  BY DEF Inv, TypeOK, Stages, Closed, Truncate, Prepare, journalVars, stateVars
<1>8. Clean'
  BY DEF Inv, Stages, Clean, Cached, Truncate, Prepare, fileVars, poolVars
<1>9. Writing'
  BY DEF Writing, Deciding, Truncate, Prepare, fileVars, journalVars, poolVars
<1>10. Batch'
  BY DEF Inv, TypeOK, Stages, Closed, Batch, HeadersGrow, Truncate, Prepare,
         journalVars, poolVars
<1>11. Replaying'
  BY DEF Inv, Stages, Replaying, Truncate, Prepare, control
<1> QED
  BY <1>1, <1>2, <1>3, <1>4, <1>5, <1>6, <1>7, <1>8, <1>9, <1>10, <1>11 DEF Inv

\* One frame is appended.
LEMMA LogFrameStep ==
  ASSUME Inv, NEW p \in Pages \cup {Reset}, LogFrame(p)
  PROVE  Inv'
<1> USE PageAssumption
<1> DEFINE frame == [seq |-> sequence + 1, page |-> p, image |-> IF p = Reset THEN Zero ELSE cache[p]]
<1>a. ~ tail
  BY DEF Inv, Stages, Closed, LogFrame
<1>b. frame \in [seq : Nat, page : Pages \cup {Reset}, image : Images]
  <2>1. p # Reset => p \in Pages /\ cache[p] \in Images
    BY DEF Inv, TypeOK, Stages, LogFrame, Cached
  <2> QED
    BY <2>1 DEF Inv, TypeOK
<1>c. journal' = Append(journal, frame)
  BY <1>a DEF LogFrame, NextSequence
<1>d. /\ journal' \in Seq([seq : Nat, page : Pages \cup {Reset}, image : Images])
      /\ Len(journal') = Len(journal) + 1 /\ Len(journal) \in Nat
      /\ \A i \in 1..Len(journal) : journal'[i] = journal[i]
      /\ journal'[Len(journal) + 1] = frame
  BY <1>b, <1>c DEF Inv, TypeOK
<1> HIDE DEF frame
<1>e. frame.seq = sequence + 1 /\ frame.page = p /\ frame.image = IF p = Reset THEN Zero ELSE cache[p]
  BY DEF frame
<1>1. TypeOK'
  BY <1>d DEF Inv, TypeOK, LogFrame, NextSequence, Cached, fileVars, poolVars
<1>2. Redo'
  <2>1. \A q \in Pages : Deciding(q)' = Deciding(q)
    BY <1>d DEF Inv, TypeOK, Deciding, LogFrame
  <2>2. \A q \in Pages : \A i \in Deciding(q) : journal'[i] = journal[i]
    BY <1>d DEF Inv, TypeOK, Deciding
  <2> QED
    BY <2>1, <2>2 DEF Inv, Redo, LogFrame, fileVars
<1>3. DropsNothing'
  BY DEF Inv, DropsNothing, LogFrame, NextSequence, fileVars
<1>4. ReadsBack'
  BY DEF Inv, Stages, ReadsBack, Serving, View, Cached, LogFrame, NextSequence,
         fileVars, poolVars
<1>5. HeadersGrow'
  <2>1. \A i \in DOMAIN journal : journal[i].seq <= sequence /\ journal[i].seq \in Nat
    BY FrameTypes DEF Inv, HeadersGrow, LogFrame
  <2>2. DOMAIN journal = 1..Len(journal) /\ DOMAIN journal' = 1..(Len(journal) + 1)
    BY <1>d DEF Inv, TypeOK
  <2>3. \A i \in DOMAIN journal' : i \in DOMAIN journal \/ i = Len(journal) + 1
    BY <1>d, <2>2
  <2>4. sequence \in Nat /\ sequence' = sequence + 1
    BY DEF Inv, TypeOK, LogFrame, NextSequence
  <2>5. ASSUME NEW i \in DOMAIN journal', NEW j \in DOMAIN journal', i < j
        PROVE  journal'[i].seq < journal'[j].seq
    <3>1. i \in DOMAIN journal
      BY <1>d, <2>2, <2>5
    <3>2. CASE j \in DOMAIN journal
      BY <1>d, <2>2, <2>5, <3>1, <3>2 DEF Inv, HeadersGrow
    <3>3. CASE j = Len(journal) + 1
      BY <1>d, <1>e, <2>1, <2>2, <2>4, <3>1, <3>3
    <3> QED
      BY <2>3, <3>2, <3>3
  <2>6. \A i \in DOMAIN journal' : journal'[i].seq <= sequence'
    BY <1>d, <1>e, <2>1, <2>2, <2>3, <2>4
  <2> QED
    BY <2>5, <2>6 DEF HeadersGrow
<1>6. Stages'
  BY DEF Inv, TypeOK, Stages, LogFrame, NextSequence, poolVars
<1>7. Closed'
  BY DEF Inv, TypeOK, Stages, Closed, LogFrame, NextSequence
<1>8. Clean'
  BY DEF Inv, Stages, Clean, Cached, LogFrame, NextSequence, fileVars, poolVars
<1>9. Writing'
  BY DEF Writing, Deciding, LogFrame, NextSequence, fileVars, poolVars
<1>10. Batch'
  <2>1. synced' = synced /\ published' = published /\ sequence + 1 > published /\ synced \in 0..Len(journal)
    BY DEF Inv, TypeOK, Closed, LogFrame
  <2>2. \A i \in (synced + 1)..(Len(journal) + 1) : i \in (synced + 1)..Len(journal) \/ i = Len(journal) + 1
    BY <1>d, <2>1
  <2>3. \A i \in (synced + 1)..Len(journal) : i \in 1..Len(journal)
    BY <1>d, <2>1
  <2>4. \A i \in (synced + 1)..Len(journal) :
           /\ journal[i].seq > published /\ journal[i].page \notin left
           /\ journal[i].page \in IF task = "reset" THEN {Reset} ELSE dirty
    BY DEF Inv, Batch, LogFrame
  <2>5. p \in IF task = "reset" THEN {Reset} ELSE dirty
    BY DEF Inv, Stages, LogFrame
  <2>6. \A i \in (synced + 1)..Len(journal') : journal'[i].seq > published'
    BY <1>d, <1>e, <2>1, <2>2, <2>3, <2>4
  <2>7. ASSUME NEW q \in Pages, NEW i \in (synced + 1)..Len(journal'), NEW j \in (synced + 1)..Len(journal'),
               journal'[i].page \in {q, Reset}, journal'[j].page \in {q, Reset}
        PROVE  i = j
    <3>1. \A k \in (synced + 1)..Len(journal) : journal[k].page \notin {q, Reset} \/ p \notin {q, Reset}
      BY <2>4, <2>5 DEF Inv, TypeOK, LogFrame
    <3> QED
      BY <1>d, <1>e, <2>2, <2>3, <2>7, <3>1 DEF Inv, Batch
  <2>8. \A i \in (synced + 1)..Len(journal') :
           /\ journal'[i].page \notin left'
           /\ journal'[i].page \in IF task = "reset" THEN {Reset} ELSE dirty
    BY <1>d, <1>e, <2>2, <2>3, <2>4, <2>5 DEF LogFrame
  <2>9. ASSUME NEW q \in (IF task = "reset" THEN {Reset} ELSE dirty) \ left'
        PROVE  \E i \in (synced + 1)..Len(journal') :
                  journal'[i].page = q /\ journal'[i].image = IF q = Reset THEN Zero ELSE cache[q]
    <3>1. CASE q = p
      BY <1>d, <1>e, <2>1, <3>1
    <3>2. CASE q # p
      <4>1. PICK i \in (synced + 1)..Len(journal) :
                journal[i].page = q /\ journal[i].image = IF q = Reset THEN Zero ELSE cache[q]
        BY <3>2 DEF Inv, Batch, LogFrame
      <4> QED
        BY <1>d, <2>1, <2>3, <4>1
    <3> QED
      BY <3>1, <3>2
  <2> QED
    BY <2>1, <2>6, <2>7, <2>8, <2>9 DEF Batch, LogFrame, poolVars
<1>11. Replaying'
  BY DEF Inv, Stages, Replaying, LogFrame, NextSequence, control
<1> QED
  BY <1>1, <1>2, <1>3, <1>4, <1>5, <1>6, <1>7, <1>8, <1>9, <1>10, <1>11 DEF Inv

\* The journal is synced: the batch becomes durable.
LEMMA SyncJournalStep ==
  ASSUME Inv, SyncJournal
  PROVE  Inv'
<1> USE PageAssumption
<1>a. /\ synced \in Nat /\ Len(journal) \in Nat /\ synced <= Len(journal) /\ synced' = Len(journal)
      /\ UNCHANGED <<file, unsynced, journal, tail, published, sequence, pending, failed, cache, dirty,
                     task, victim, at, latest, failures>>
      /\ pc = "prepare" /\ left = {} /\ dirty \subseteq Pages
  BY DEF Inv, TypeOK, SyncJournal, fileVars, stateVars, poolVars
<1>b. \A q \in Pages :
          /\ Deciding(q) \subseteq Deciding(q)'
          /\ \A i \in Deciding(q) : i \in 1..synced
          /\ \A i \in Deciding(q)' : i \in Deciding(q) \/ i \in (synced + 1)..Len(journal)
  BY <1>a DEF Deciding
<1>c. ASSUME NEW q \in Pages, task = "reset" \/ q \in dirty
      PROVE  \E i \in Deciding(q)' : /\ \A j \in Deciding(q)' : j <= i
                                     /\ journal[i].image = durable'[q]
  <2>1. PICK i \in (synced + 1)..Len(journal) :
            journal[i].page \in {q, Reset} /\ journal[i].image = durable'[q]
    <3>1. CASE task = "reset"
      BY <1>a, <3>1 DEF Inv, Batch, SyncJournal
    <3>2. CASE task # "reset"
      BY <1>a, <1>c, <3>2 DEF Inv, Batch, SyncJournal
    <3> QED
      BY <3>1, <3>2
  <2>2. i \in Deciding(q)'
    BY <1>a, <2>1 DEF Inv, Batch, Deciding
  <2>3. \A j \in (synced + 1)..Len(journal) : j \in Deciding(q)' => j = i
    BY <1>a, <2>1 DEF Inv, Batch, Deciding
  <2>4. \A j \in Deciding(q)' : j <= i
    <3> TAKE j \in Deciding(q)'
    <3>1. CASE j \in Deciding(q)
      <4>1. j \in 1..synced
        BY <1>b, <3>1
      <4> QED
        BY <1>a, <2>1, <4>1
    <3>2. CASE j \in (synced + 1)..Len(journal)
      BY <1>a, <2>1, <2>3, <3>2
    <3> QED
      BY <1>b, <3>1, <3>2
  <2> QED
    BY <2>1, <2>2, <2>4
<1>d. ASSUME NEW q \in Pages, task # "reset", q \notin dirty
      PROVE  Deciding(q)' = Deciding(q) /\ durable'[q] = durable[q]
  <2>1. \A i \in (synced + 1)..Len(journal) : journal[i].page \notin {q, Reset}
    BY <1>a, <1>d DEF Inv, Batch
  <2>2. \A i \in (synced + 1)..Len(journal) : i \notin Deciding(q)'
    BY <1>a, <2>1 DEF Deciding
  <2>3. Deciding(q)' \subseteq Deciding(q) /\ Deciding(q) \subseteq Deciding(q)'
    BY <1>b, <2>2
  <2>4. durable'[q] = durable[q]
    BY <1>d DEF SyncJournal
  <2> QED
    BY <2>3, <2>4
<1>1. TypeOK'
  BY DEF Inv, Stages, TypeOK, Cached, SyncJournal, fileVars, stateVars, poolVars
<1>2. Redo'
  <2> SUFFICES ASSUME NEW q \in Pages
      PROVE  \/ \E i \in Deciding(q)' : journal[i].image = durable'[q] /\ \A j \in Deciding(q)' : j <= i
             \/ Deciding(q)' = {} /\ q \notin unsynced /\ file[q] = durable'[q]
    BY <1>a DEF Redo
  <2>1. CASE task = "reset" \/ q \in dirty
    BY <1>c, <2>1
  <2>2. CASE task # "reset" /\ q \notin dirty
    BY <1>d, <2>2 DEF Inv, Redo
  <2> QED
    BY <2>1, <2>2
<1>3. DropsNothing'
  BY DEF Inv, DropsNothing, SyncJournal, fileVars
<1>4. ReadsBack'
  BY DEF Inv, Stages, ReadsBack, Serving, View, Cached, SyncJournal, fileVars,
         poolVars
<1>5. HeadersGrow'
  BY DEF Inv, Stages, HeadersGrow, SyncJournal, stateVars
<1>6. Stages'
  BY DEF Inv, TypeOK, Stages, SyncJournal, stateVars, poolVars
<1>7. Closed'
  BY DEF Inv, Stages, Closed, SyncJournal, stateVars
<1>8. Clean'
  BY DEF Inv, Stages, Clean, Cached, SyncJournal, fileVars, poolVars
<1>9. Writing'
  <2>1. \A q \in Pages : task = "reset" \/ q \in dirty => Deciding(q)' # {}
    BY <1>c
  <2> QED
    BY <1>a, <2>1 DEF Writing, SyncJournal
<1>10. Batch'
  BY DEF Inv, Batch, SyncJournal, poolVars
<1>11. Replaying'
  BY DEF Inv, Stages, Replaying, SyncJournal, control
<1> QED
  BY <1>1, <1>2, <1>3, <1>4, <1>5, <1>6, <1>7, <1>8, <1>9, <1>10, <1>11 DEF Inv

\* A logged page is overwritten in the data file.
LEMMA WriteImageStep ==
  ASSUME Inv, NEW p \in Pages, WriteImage(p)
  PROVE  Inv'
<1> USE PageAssumption
<1>1. TypeOK'
  BY DEF Inv, Stages, TypeOK, Cached, WriteImage, journalVars, stateVars,
         poolVars
<1>2. Redo'
  <2>1. UNCHANGED <<journalVars, durable>>
    BY DEF WriteImage, journalVars
  <2>2. \A q \in Pages : Deciding(q) = {} => file'[q] = file[q] /\ (q \in unsynced' => q \in unsynced)
    BY DEF Inv, Stages, Writing, WriteImage
  <2> QED
    BY <2>1, <2>2, RedoKept DEF Inv
<1>3. DropsNothing'
  BY DEF Inv, DropsNothing, WriteImage, journalVars
<1>4. ReadsBack'
  BY DEF Inv, TypeOK, Stages, ReadsBack, Serving, View, Cached, WriteImage,
         poolVars
<1>5. HeadersGrow'
  BY DEF Inv, Stages, HeadersGrow, WriteImage, journalVars, stateVars
<1>6. Stages'
  BY DEF Inv, TypeOK, Stages, WriteImage, stateVars, poolVars
<1>7. Closed'
  BY DEF Inv, Stages, Closed, WriteImage, journalVars, stateVars
<1>8. Clean'
  BY DEF Inv, Stages, Clean, Cached, WriteImage, poolVars
<1>9. Writing'
  BY DEF Inv, TypeOK, Writing, Deciding, WriteImage, journalVars, poolVars
<1>10. Batch'
  BY DEF Inv, Stages, Batch, WriteImage, journalVars, poolVars
<1>11. Replaying'
  BY DEF Inv, Stages, Replaying, WriteImage, control
<1> QED
  BY <1>1, <1>2, <1>3, <1>4, <1>5, <1>6, <1>7, <1>8, <1>9, <1>10, <1>11 DEF Inv

\* The eviction ends.
LEMMA FinishEvictStep ==
  ASSUME Inv, FinishEvict
  PROVE  Inv'
<1> USE PageAssumption
<1>1. TypeOK'
  BY DEF Inv, Stages, TypeOK, FinishEvict, Return, fileVars, journalVars,
         stateVars
<1>2. Redo'
  BY DEF Inv, Stages, Redo, Deciding, FinishEvict, Return, fileVars, journalVars
<1>3. DropsNothing'
  BY DEF Inv, DropsNothing, FinishEvict, Return, fileVars, journalVars
<1>4. ReadsBack'
  BY DEF Inv, TypeOK, ReadsBack, Stages, Clean, Writing, DropsNothing, Serving,
         View, Cached, FinishEvict, Return, fileVars
<1>5. HeadersGrow'
  BY DEF Inv, Stages, HeadersGrow, FinishEvict, Return, journalVars, stateVars
<1>6. Stages'
  BY DEF Inv, Stages, FinishEvict, Return, stateVars
<1>7. Closed'
  BY DEF Inv, Stages, Closed, FinishEvict, Return, journalVars, stateVars
<1>8. Clean'
  BY DEF Inv, TypeOK, Redo, Stages, Clean, Writing, DropsNothing, Cached,
         FinishEvict, Return, fileVars
<1>9. Writing'
  BY DEF Writing, Deciding, FinishEvict, Return, fileVars, journalVars
<1>10. Batch'
  BY DEF Inv, Stages, Batch, FinishEvict, Return, journalVars
<1>11. Replaying'
  BY DEF Inv, Stages, Replaying, FinishEvict, Return, control
<1> QED
  BY <1>1, <1>2, <1>3, <1>4, <1>5, <1>6, <1>7, <1>8, <1>9, <1>10, <1>11 DEF Inv

\* truncate() cuts the file.
LEMMA CutFileStep ==
  ASSUME Inv, CutFile
  PROVE  Inv'
<1> USE PageAssumption
<1>1. TypeOK'
  BY DEF Inv, TypeOK, Cached, CutFile, Return, journalVars, stateVars
<1>2. Redo'
  BY DEF Inv, TypeOK, Redo, DropsNothing, Stages, Closed, Writing, HeadersGrow,
         Deciding, CutFile, Return, fileVars, journalVars, stateVars, poolVars,
         control
<1>3. DropsNothing'
  BY DEF Inv, DropsNothing, CutFile, Return, journalVars
<1>4. ReadsBack'
  BY DEF Inv, ReadsBack, Serving, View, Cached, CutFile, Return
<1>5. HeadersGrow'
  BY DEF Inv, Stages, HeadersGrow, CutFile, Return, journalVars, stateVars
<1>6. Stages'
  BY DEF Inv, Stages, CutFile, Return, stateVars
<1>7. Closed'
  BY DEF Inv, TypeOK, Stages, Closed, CutFile, Return, journalVars, stateVars
<1>8. Clean'
  BY DEF Inv, TypeOK, Redo, Stages, Clean, Writing, DropsNothing, Cached,
         CutFile, Return
<1>9. Writing'
  BY DEF Writing, Deciding, CutFile, Return, journalVars
<1>10. Batch'
  BY DEF Inv, Stages, Batch, CutFile, Return, journalVars
<1>11. Replaying'
  BY DEF Inv, Stages, Replaying, CutFile, Return, control
<1> QED
  BY <1>1, <1>2, <1>3, <1>4, <1>5, <1>6, <1>7, <1>8, <1>9, <1>10, <1>11 DEF Inv

\* The data file is synced.
LEMMA SyncDataStep ==
  ASSUME Inv, SyncData
  PROVE  Inv'
<1> USE PageAssumption
<1>1. TypeOK'
  BY DEF Inv, Stages, TypeOK, Cached, SyncData, journalVars, stateVars, poolVars
<1>2. Redo'
  <2>1. UNCHANGED <<journalVars, durable>>
    BY DEF SyncData, journalVars
  <2>2. \A q \in Pages : Deciding(q) = {} => file'[q] = file[q] /\ (q \in unsynced' => q \in unsynced)
    BY DEF SyncData
  <2> QED
    BY <2>1, <2>2, RedoKept DEF Inv
<1>3. DropsNothing'
  BY DEF Inv, TypeOK, Redo, DropsNothing, Stages, Clean, Writing, Closed,
         Replaying, Deciding, SyncData, journalVars
<1>4. ReadsBack'
  BY DEF Inv, Stages, ReadsBack, Serving, View, Cached, SyncData, poolVars
<1>5. HeadersGrow'
  BY DEF Inv, Stages, HeadersGrow, SyncData, journalVars, stateVars
<1>6. Stages'
  BY DEF Inv, Stages, SyncData, stateVars, poolVars
<1>7. Closed'
  BY DEF Inv, Stages, Closed, SyncData, journalVars, stateVars
<1>8. Clean'
  BY DEF Inv, Stages, Clean, Cached, SyncData, poolVars
<1>9. Writing'
  BY DEF Inv, Writing, Deciding, SyncData, journalVars, poolVars
<1>10. Batch'
  BY DEF Inv, Stages, Batch, SyncData, journalVars, poolVars
<1>11. Replaying'
  BY DEF Inv, Stages, Replaying, SyncData, control
<1> QED
  BY <1>1, <1>2, <1>3, <1>4, <1>5, <1>6, <1>7, <1>8, <1>9, <1>10, <1>11 DEF Inv

\* The sequence is published: every frame becomes stale at once.
LEMMA PublishStateStep ==
  ASSUME Inv, PublishState
  PROVE  Inv'
<1> USE PageAssumption
<1>1. TypeOK'
  BY DEF Inv, Stages, TypeOK, Cached, PublishState, fileVars, stateVars,
         poolVars
<1>2. Redo'
  <2>1. /\ published' = sequence /\ UNCHANGED <<journal, synced, file, unsynced, durable>>
        /\ pc = "checkpoint"
    BY DEF PublishState, fileVars
  <2>2. \A i \in 1..synced : journal[i].seq <= sequence /\ journal[i].seq \in Nat
    BY <2>1, FrameTypes DEF Inv, HeadersGrow
  <2>3. \A q \in Pages : Deciding(q)' = {}
    BY <2>1, <2>2 DEF Inv, TypeOK, Deciding
  <2> QED
    BY <2>1, <2>3 DEF Inv, DropsNothing, Redo
<1>3. DropsNothing'
  BY DEF Inv, Stages, DropsNothing, PublishState, fileVars
<1>4. ReadsBack'
  BY DEF Inv, Stages, ReadsBack, Serving, View, Cached, PublishState, fileVars,
         poolVars
<1>5. HeadersGrow'
  BY DEF Inv, Stages, HeadersGrow, PublishState, stateVars
<1>6. Stages'
  BY DEF Inv, TypeOK, Stages, PublishState, stateVars, poolVars
<1>7. Closed'
  BY DEF Inv, TypeOK, Stages, Closed, PublishState, stateVars
<1>8. Clean'
  BY DEF Inv, Stages, Clean, Cached, PublishState, fileVars, poolVars
<1>9. Writing'
  BY DEF Inv, Writing, Deciding, PublishState, fileVars, poolVars
<1>10. Batch'
  BY DEF Inv, TypeOK, Stages, Closed, Batch, HeadersGrow, PublishState, poolVars
<1>11. Replaying'
  BY DEF Inv, Stages, Replaying, PublishState, control
<1> QED
  BY <1>1, <1>2, <1>3, <1>4, <1>5, <1>6, <1>7, <1>8, <1>9, <1>10, <1>11 DEF Inv

\* There was nothing to checkpoint.
LEMMA SkipCheckpointStep ==
  ASSUME Inv, SkipCheckpoint
  PROVE  Inv'
<1> USE PageAssumption
<1>1. TypeOK'
  BY DEF Inv, Stages, TypeOK, SkipCheckpoint, Finish, Return, fileVars,
         journalVars, stateVars
<1>2. Redo'
  <2>1. UNCHANGED <<journalVars, durable>>
    BY DEF SkipCheckpoint, journalVars
  <2>2. \A q \in Pages : Deciding(q) = {} => file'[q] = file[q] /\ (q \in unsynced' => q \in unsynced)
    BY DEF SkipCheckpoint, fileVars
  <2> QED
    BY <2>1, <2>2, RedoKept DEF Inv
<1>3. DropsNothing'
  BY DEF Inv, DropsNothing, SkipCheckpoint, Finish, Return, fileVars,
         journalVars
<1>4. ReadsBack'
  BY DEF Inv, Stages, ReadsBack, Serving, View, Cached, SkipCheckpoint, Finish,
         Return, fileVars
<1>5. HeadersGrow'
  BY DEF Inv, Stages, HeadersGrow, SkipCheckpoint, Finish, Return, journalVars,
         stateVars
<1>6. Stages'
  BY DEF Inv, Stages, SkipCheckpoint, Finish, Return, stateVars
<1>7. Closed'
  BY DEF Inv, TypeOK, Stages, Closed, SkipCheckpoint, Finish, Return,
         journalVars, stateVars
<1>8. Clean'
  BY DEF Inv, TypeOK, Redo, Stages, Clean, Writing, DropsNothing, Cached,
         SkipCheckpoint, Finish, Return, fileVars
<1>9. Writing'
  BY DEF Writing, Deciding, SkipCheckpoint, Finish, Return, fileVars,
         journalVars
<1>10. Batch'
  BY DEF Inv, Stages, Batch, SkipCheckpoint, Finish, Return, journalVars
<1>11. Replaying'
  BY DEF Inv, Stages, Replaying, SkipCheckpoint, Finish, Return, control
<1> QED
  BY <1>1, <1>2, <1>3, <1>4, <1>5, <1>6, <1>7, <1>8, <1>9, <1>10, <1>11 DEF Inv

\* The journal is emptied.
LEMMA TrimJournalStep ==
  ASSUME Inv, TrimJournal
  PROVE  Inv'
<1> USE PageAssumption
<1>1. TypeOK'
  <2>1. file \in [Pages -> Images]
    BY DEF Inv, TypeOK, DropsNothing, TrimJournal
  <2>2. journal' \in Seq([seq : Nat, page : Pages \cup {Reset}, image : Images]) /\ Len(journal') = 0
    BY DEF TrimJournal
  <2>3. latest' \in [Pages -> Images]
    BY <2>1 DEF Inv, TypeOK, TrimJournal, Finish
  <2>4. synced' = 0 /\ 0 \in 0..Len(journal')
    BY <2>2 DEF TrimJournal
  <2>5. tail' \in BOOLEAN /\ pending' \in BOOLEAN
    <3>1. tail' = FALSE /\ pending' = FALSE
      BY DEF TrimJournal
    <3> QED
      BY <3>1
  <2>6. pc' = "idle" /\ task' = "none" /\ left' = {} /\ victim' = Reset /\ at' = 1 /\ dirty' = {}
    BY DEF TrimJournal, Finish, Return
  <2>7. UNCHANGED <<file, unsynced, published, sequence, failed, cache, durable, failures>>
    BY DEF TrimJournal, fileVars
  <2> QED
    BY <2>2, <2>3, <2>4, <2>5, <2>6, <2>7 DEF Inv, TypeOK, Cached
<1>2. Redo'
  BY DEF Inv, TypeOK, Redo, DropsNothing, Stages, Closed, Writing, HeadersGrow,
         Deciding, TrimJournal, Finish, Return, fileVars
<1>3. DropsNothing'
  BY DEF Inv, DropsNothing, TrimJournal, Finish, Return, fileVars
<1>4. ReadsBack'
  BY DEF Inv, Stages, ReadsBack, Serving, View, Cached, TrimJournal, Finish,
         Return, fileVars
<1>5. HeadersGrow'
  BY DEF Inv, HeadersGrow, TrimJournal, Finish, Return
<1>6. Stages'
  BY DEF Inv, Stages, TrimJournal, Finish, Return
<1>7. Closed'
  BY DEF Inv, Stages, Closed, TrimJournal, Finish, Return
<1>8. Clean'
  BY DEF Inv, TypeOK, Redo, Stages, Clean, Writing, DropsNothing, Cached,
         TrimJournal, Finish, Return, fileVars
<1>9. Writing'
  BY DEF Writing, Deciding, TrimJournal, Finish, Return, fileVars
<1>10. Batch'
  BY DEF Inv, Batch, TrimJournal, Finish, Return
<1>11. Replaying'
  BY DEF Inv, Stages, Replaying, TrimJournal, Finish, Return, control
<1> QED
  BY <1>1, <1>2, <1>3, <1>4, <1>5, <1>6, <1>7, <1>8, <1>9, <1>10, <1>11 DEF Inv

\* The journal cannot be written.
LEMMA JournalErrorStep ==
  ASSUME Inv, JournalError
  PROVE  Inv'
<1> USE PageAssumption
<1>1. TypeOK'
  BY DEF Inv, Stages, TypeOK, Cached, JournalError, FailJournal, Return,
         fileVars, poolVars
<1>2. Redo'
  BY DEF Inv, Stages, Redo, Deciding, JournalError, FailJournal, Return,
         fileVars
<1>3. DropsNothing'
  BY DEF Inv, DropsNothing, JournalError, FailJournal, Return, fileVars
<1>4. ReadsBack'
  BY DEF Inv, Stages, ReadsBack, Serving, View, Cached, JournalError,
         FailJournal, Return, fileVars, poolVars
<1>5. HeadersGrow'
  BY DEF Inv, Stages, HeadersGrow, JournalError, FailJournal, Return
<1>6. Stages'
  BY DEF Inv, Stages, JournalError, FailJournal, Return, poolVars
<1>7. Closed'
  BY DEF Inv, Stages, Closed, JournalError, FailJournal, Return
<1>8. Clean'
  BY DEF Inv, Stages, Clean, Cached, JournalError, FailJournal, Return,
         fileVars, poolVars
<1>9. Writing'
  BY DEF Writing, Deciding, JournalError, FailJournal, Return, fileVars,
         poolVars
<1>10. Batch'
  BY DEF Inv, Stages, Batch, JournalError, FailJournal, Return, poolVars
<1>11. Replaying'
  BY DEF Inv, Stages, Replaying, JournalError, FailJournal, Return, control
<1> QED
  BY <1>1, <1>2, <1>3, <1>4, <1>5, <1>6, <1>7, <1>8, <1>9, <1>10, <1>11 DEF Inv

\* A page cannot be written.
LEMMA WriteErrorStep ==
  ASSUME Inv, WriteError
  PROVE  Inv'
<1> USE PageAssumption
<1>1. TypeOK'
  BY DEF Inv, Stages, TypeOK, Cached, WriteError, Return, fileVars, journalVars,
         stateVars, poolVars
<1>2. Redo'
  BY DEF Inv, TypeOK, Redo, DropsNothing, Stages, Closed, Writing, HeadersGrow,
         Deciding, WriteError, Return, fileVars, journalVars, stateVars,
         poolVars, control
<1>3. DropsNothing'
  BY DEF Inv, DropsNothing, WriteError, Return, fileVars, journalVars
<1>4. ReadsBack'
  BY DEF Inv, TypeOK, Stages, ReadsBack, Serving, View, Cached, WriteError,
         Return, fileVars, poolVars
<1>5. HeadersGrow'
  BY DEF Inv, Stages, HeadersGrow, WriteError, Return, journalVars, stateVars
<1>6. Stages'
  BY DEF Inv, Stages, WriteError, Return, stateVars, poolVars
<1>7. Closed'
  BY DEF Inv, TypeOK, Stages, Closed, WriteError, Return, journalVars, stateVars
<1>8. Clean'
  BY DEF Inv, TypeOK, Stages, Clean, Cached, WriteError, Return, fileVars,
         poolVars
<1>9. Writing'
  BY DEF Writing, Deciding, WriteError, Return, fileVars, journalVars, poolVars
<1>10. Batch'
  BY DEF Inv, Stages, Batch, WriteError, Return, journalVars, poolVars
<1>11. Replaying'
  BY DEF Inv, Stages, Replaying, WriteError, Return, control
<1> QED
  BY <1>1, <1>2, <1>3, <1>4, <1>5, <1>6, <1>7, <1>8, <1>9, <1>10, <1>11 DEF Inv

\* The process stops: unsynced pages are anything, unsynced frames are cut.
LEMMA CrashStep ==
  ASSUME Inv, Crash
  PROVE  Inv'
<1> USE PageAssumption
<1> DEFINE Frame == [seq : Nat, page : Pages \cup {Reset}, image : Images]
           Mine(q, i) == journal[i].page \in {q, Reset}
<1>a. PICK n \in synced..Len(journal) :
          journal' = SubSeq(journal, 1, n) /\ synced' = n /\ durable' = WithFrames(synced + 1, n)
  BY DEF Crash
<1>b. journal \in Seq(Frame) /\ synced \in Nat /\ Len(journal) \in Nat /\ n \in Nat /\ n <= Len(journal) /\ synced <= n
  BY <1>a, FrameTypes DEF Inv, TypeOK
<1> HIDE DEF Frame
<1>c. journal' \in Seq(Frame) /\ Len(journal') = n /\ \A i \in 1..n : journal'[i] = journal[i]
  BY <1>a, <1>b
<1>d. \A q \in Pages : \A i \in (synced + 1)..n : Mine(q, i) =>
          /\ journal[i].seq > published
          /\ \A j \in (synced + 1)..n : Mine(q, j) => i = j
  BY <1>b DEF Inv, Batch
<1>e. /\ published' = published /\ unsynced' = unsynced
      /\ file' \in [Pages -> Images \cup {Torn}] /\ \A q \in Pages \ unsynced : file'[q] = file[q]
  BY DEF Inv, TypeOK, Crash
<1>f. ASSUME NEW q \in Pages, NEW i \in (synced + 1)..n, Mine(q, i)
      PROVE  durable'[q] = journal[i].image /\ journal[i].image \in Images
  <2>1. i \in 1..Len(journal)
    BY <1>b
  <2>2. journal[i].image \in Images
    BY <2>1, FrameTypes DEF Inv
  <2>3. (CHOOSE j \in (synced + 1)..n : Mine(q, j)) = i
    BY <1>d, <1>f
  <2>4. durable'[q] = journal[CHOOSE j \in (synced + 1)..n : Mine(q, j)].image
    BY <1>a, <1>f DEF WithFrames
  <2> QED
    BY <2>2, <2>3, <2>4
<1>g. ASSUME NEW q \in Pages, \A i \in (synced + 1)..n : ~ Mine(q, i)
      PROVE  durable'[q] = durable[q]
  BY <1>a, <1>g DEF WithFrames
<1>h. durable' \in [Pages -> Images]
  <2>1. \A q \in Pages : durable'[q] \in Images
    BY <1>f, <1>g DEF Inv, TypeOK
  <2>2. durable' = [q \in Pages |-> durable'[q]]
    BY <1>a DEF WithFrames
  <2> QED
    BY <2>1, <2>2
<1>i. /\ sequence' = published /\ pending' = FALSE /\ failed' = FALSE /\ latest' = durable'
      /\ cache' = [q \in Pages |-> None] /\ dirty' = {} /\ pc' = "down" /\ task' = "recover"
      /\ left' = {} /\ victim' = Reset /\ at' = 1 /\ failures' = failures + 1 /\ tail' \in BOOLEAN
  BY DEF Inv, TypeOK, Crash
<1>1. TypeOK'
  <2>1. synced' \in 0..Len(journal') /\ journal' \in Seq([seq : Nat, page : Pages \cup {Reset}, image : Images])
    BY <1>a, <1>b, <1>c DEF Frame
  <2>2. cache' \in [Pages -> Images \cup {None}] /\ dirty' \subseteq {q \in Pages : Cached(q)}'
    BY <1>i DEF Cached
  <2>3. latest' \in [Pages -> Images] /\ published' \in Nat /\ sequence' \in Nat /\ unsynced' \subseteq Pages
        /\ failures' \in Nat
    BY <1>e, <1>h, <1>i DEF Inv, TypeOK
  <2>4. pending' \in BOOLEAN /\ failed' \in BOOLEAN /\ tail' \in BOOLEAN
    <3>1. pending' = FALSE /\ failed' = FALSE /\ tail' \in BOOLEAN
      BY <1>i
    <3> QED
      BY <3>1
  <2>5. /\ pc' \in {"idle", "prepare", "write", "cut", "checkpoint", "trim", "down", "replay"}
        /\ task' \in {"none", "flush", "evict", "reset", "recover"}
        /\ left' \subseteq Pages \cup {Reset} /\ victim' \in Pages \cup {Reset} /\ at' \in Nat \ {0}
    BY <1>i
  <2> QED
    BY <1>e, <1>h, <2>1, <2>2, <2>3, <2>4, <2>5 DEF TypeOK
<1>2. Redo'
  <2> SUFFICES ASSUME NEW q \in Pages
      PROVE  \/ \E i \in Deciding(q)' : journal'[i].image = durable'[q] /\ \A j \in Deciding(q)' : j <= i
             \/ Deciding(q)' = {} /\ q \notin unsynced /\ file'[q] = durable'[q]
    BY <1>e DEF Redo
  <2>1. /\ \A i : i \in Deciding(q)' <=> i \in 1..n /\ Mine(q, i) /\ journal[i].seq > published
        /\ \A i : i \in Deciding(q) <=> i \in 1..synced /\ Mine(q, i) /\ journal[i].seq > published
    BY <1>a, <1>c, <1>e DEF Deciding
  <2>2. ASSUME NEW i \in (synced + 1)..n, Mine(q, i)
        PROVE  \E k \in Deciding(q)' : journal'[k].image = durable'[q] /\ \A j \in Deciding(q)' : j <= k
    <3>1. i \in 1..n /\ i \in Deciding(q)'
      BY <1>b, <1>d, <2>1, <2>2
    <3>2. \A j \in Deciding(q)' : j <= i
      BY <1>b, <1>d, <2>1, <2>2
    <3>3. journal'[i].image = durable'[q]
      BY <1>c, <1>f, <2>2, <3>1
    <3> QED
      BY <3>1, <3>2, <3>3
  <2>3. ASSUME \A i \in (synced + 1)..n : ~ Mine(q, i)
        PROVE  \/ \E i \in Deciding(q)' : journal'[i].image = durable'[q] /\ \A j \in Deciding(q)' : j <= i
               \/ Deciding(q)' = {} /\ q \notin unsynced /\ file'[q] = durable'[q]
    <3>1. \A i : i \in Deciding(q)' <=> i \in Deciding(q)
      BY <1>b, <2>1, <2>3
    <3>2. \A i \in Deciding(q) : journal'[i] = journal[i]
      BY <1>b, <1>c, <2>1
    <3>3. durable'[q] = durable[q]
      BY <1>g, <2>3
    <3> QED
      BY <1>e, <3>1, <3>2, <3>3 DEF Inv, Redo
  <2> QED
    BY <2>2, <2>3
<1>3. DropsNothing'
  BY <1>i DEF DropsNothing
<1>4. ReadsBack'
  BY <1>i DEF ReadsBack, Serving
<1>5. HeadersGrow'
  BY <1>b, <1>c, <1>i, FrameTypes DEF Inv, HeadersGrow
<1>6. Stages'
  BY <1>i DEF Stages
<1>7. Closed'
  BY <1>a, <1>c, <1>e, <1>i DEF Inv, TypeOK, Closed
<1>8. Clean'
  BY <1>i DEF Clean
<1>9. Writing'
  BY <1>i DEF Writing
<1>10. Batch'
  BY <1>a, <1>b, <1>c, <1>i DEF Batch
<1>11. Replaying'
  BY <1>i DEF Replaying
<1> QED
  BY <1>1, <1>2, <1>3, <1>4, <1>5, <1>6, <1>7, <1>8, <1>9, <1>10, <1>11 DEF Inv

\* open() finds no journal.
LEMMA OpenCleanStep ==
  ASSUME Inv, OpenClean
  PROVE  Inv'
<1> USE PageAssumption
<1>a. \A q \in Pages : Deciding(q) = {}
  BY FrameTypes DEF Inv, OpenClean, Deciding
<1>b. \A q \in Pages : file[q] = durable[q]
  BY <1>a DEF Inv, Redo
<1>c. file \in [Pages -> Images]
  BY <1>b DEF Inv, TypeOK
<1>1. TypeOK'
  <2>1. latest' \in [Pages -> Images]
    BY <1>c DEF OpenClean
  <2>2. pc' = "idle" /\ task' = "none" /\ left' = {} /\ victim' = Reset /\ at' = 1
    BY DEF OpenClean, Return
  <2>3. UNCHANGED <<file, unsynced, journal, synced, tail, published, sequence, pending, failed,
                    cache, dirty, durable, failures>>
    BY DEF OpenClean, fileVars, journalVars, stateVars, poolVars
  <2> QED
    BY <2>1, <2>2, <2>3 DEF Inv, TypeOK, Cached
<1>2. Redo'
  BY DEF Inv, Stages, Redo, Deciding, OpenClean, Return, fileVars, journalVars
<1>3. DropsNothing'
  BY DEF Inv, DropsNothing, OpenClean, Return, fileVars, journalVars
<1>4. ReadsBack'
  BY DEF Inv, Stages, ReadsBack, Serving, View, Cached, OpenClean, Return,
         fileVars, poolVars
<1>5. HeadersGrow'
  BY DEF Inv, HeadersGrow, OpenClean, Return, journalVars, stateVars
<1>6. Stages'
  BY DEF Inv, Stages, OpenClean, Return, stateVars, poolVars
<1>7. Closed'
  BY DEF Inv, Stages, Closed, OpenClean, Return, journalVars, stateVars
<1>8. Clean'
  <2>1. \A q \in Pages : ~ Cached(q)
    BY DEF Inv, Stages, OpenClean, Cached
  <2> QED
    BY <1>b, <2>1 DEF OpenClean, Clean, Cached, fileVars, poolVars
<1>9. Writing'
  BY DEF Writing, Deciding, OpenClean, Return, fileVars, journalVars, poolVars
<1>10. Batch'
  BY DEF Inv, Stages, Batch, OpenClean, Return, journalVars, poolVars
<1>11. Replaying'
  BY DEF Inv, Stages, Replaying, OpenClean, Return, control
<1> QED
  BY <1>1, <1>2, <1>3, <1>4, <1>5, <1>6, <1>7, <1>8, <1>9, <1>10, <1>11 DEF Inv

\* open() finds a journal.
LEMMA OpenReplayStep ==
  ASSUME Inv, OpenReplay
  PROVE  Inv'
<1> USE PageAssumption
<1>1. TypeOK'
  BY DEF Inv, Stages, TypeOK, OpenReplay, fileVars, journalVars, stateVars,
         poolVars
<1>2. Redo'
  BY DEF Inv, Stages, Redo, Deciding, OpenReplay, fileVars, journalVars
<1>3. DropsNothing'
  BY DEF Inv, DropsNothing, OpenReplay, fileVars, journalVars
<1>4. ReadsBack'
  BY DEF Inv, Stages, ReadsBack, Serving, View, Cached, OpenReplay, fileVars,
         poolVars
<1>5. HeadersGrow'
  BY DEF Inv, Stages, HeadersGrow, OpenReplay, journalVars, stateVars
<1>6. Stages'
  BY DEF Inv, TypeOK, Stages, OpenReplay, stateVars, poolVars
<1>7. Closed'
  BY DEF Inv, Stages, Closed, OpenReplay, journalVars, stateVars
<1>8. Clean'
  BY DEF Clean, Cached, OpenReplay, fileVars, poolVars
<1>9. Writing'
  BY DEF Writing, Deciding, OpenReplay, fileVars, journalVars, poolVars
<1>10. Batch'
  BY DEF Inv, Stages, Batch, OpenReplay, journalVars, poolVars
<1>11. Replaying'
  BY DEF Inv, TypeOK, Stages, Closed, Replaying, HeadersGrow, Deciding,
         OpenReplay, fileVars, journalVars, stateVars, poolVars, control
<1> QED
  BY <1>1, <1>2, <1>3, <1>4, <1>5, <1>6, <1>7, <1>8, <1>9, <1>10, <1>11 DEF Inv

\* One frame is replayed.
LEMMA ReplayFrameStep ==
  ASSUME Inv, ReplayFrame
  PROVE  Inv'
<1> USE PageAssumption
<1> DEFINE frame == journal[at]
           fresh == frame.seq > published
<1>a. /\ at \in 1..Len(journal) /\ synced = Len(journal) /\ Len(journal) \in Nat
      /\ DOMAIN journal = 1..Len(journal)
  <2>1. Len(journal) \in Nat /\ at \in Nat \ {0} /\ at <= Len(journal)
    BY FrameTypes DEF Inv, TypeOK, ReplayFrame
  <2>2. synced = Len(journal)
    BY DEF Inv, Closed, ReplayFrame
  <2> QED
    BY <2>1, <2>2, FrameTypes DEF Inv
<1>b. /\ frame.seq \in Nat /\ frame.page \in Pages \cup {Reset} /\ frame.image \in Images
      /\ published \in Nat /\ sequence \in Nat /\ published <= sequence
      /\ file \in [Pages -> Images \cup {Torn}] /\ unsynced \subseteq Pages
  BY <1>a, FrameTypes DEF Inv, TypeOK, Closed
<1>c. /\ UNCHANGED <<journal, synced, tail, published, pending, failed, cache, dirty,
                     pc, task, left, victim, latest, durable, failures>>
      /\ at' = at + 1 /\ pc = "replay"
  BY DEF ReplayFrame, journalVars, poolVars
<1>d. /\ file' \in [Pages -> Images \cup {Torn}]
      /\ \A q \in Pages : file'[q] = IF fresh /\ frame.page \in {q, Reset} THEN frame.image ELSE file[q]
      /\ unsynced' \subseteq Pages
      /\ \A q \in unsynced' : q \in unsynced \/ (fresh /\ frame.page \in {q, Reset})
      /\ sequence' = IF fresh THEN frame.seq ELSE sequence
  BY <1>b DEF ReplayFrame, Stale, Replayed, fileVars
<1>e. \A q \in Pages : fresh /\ frame.page \in {q, Reset} => at \in Deciding(q)
  BY <1>a DEF Deciding
<1>f. \A q \in Pages : Deciding(q)' = Deciding(q)
  BY <1>c DEF Deciding
<1> HIDE DEF frame, fresh
<1>1. TypeOK'
  <2>1. sequence' \in Nat /\ at' \in Nat \ {0}
    BY <1>a, <1>b, <1>c, <1>d
  <2> QED
    BY <1>c, <1>d, <2>1 DEF Inv, TypeOK, Cached
<1>2. Redo'
  BY <1>c, <1>d, <1>e, RedoKept DEF Inv, journalVars
<1>3. DropsNothing'
  BY <1>c DEF DropsNothing
<1>4. ReadsBack'
  BY <1>c DEF Inv, Stages, ReadsBack, Serving
<1>5. HeadersGrow'
  BY <1>c DEF Inv, HeadersGrow
<1>6. Stages'
  BY <1>c DEF Inv, Stages
<1>7. Closed'
  BY <1>b, <1>c, <1>d DEF Inv, Closed, fresh
<1>8. Clean'
  BY <1>c DEF Clean
<1>9. Writing'
  BY <1>c DEF Writing
<1>10. Batch'
  BY <1>c DEF Inv, Batch
<1>11. Replaying'
  <2>1. ASSUME NEW i \in DOMAIN journal, i < at + 1 PROVE journal[i].seq <= sequence'
    <3>1. i < at \/ i = at
      BY <1>a, <2>1
    <3>2. journal[i].seq \in Nat /\ (i < at => journal[i].seq < frame.seq /\ journal[i].seq <= sequence)
      BY <1>a, <1>c, FrameTypes DEF Inv, HeadersGrow, Replaying, frame
    <3>3. frame.seq <= sequence'
      BY <1>b, <1>d DEF fresh
    <3> QED
      BY <1>b, <1>d, <3>1, <3>2, <3>3 DEF frame
  <2>2. ASSUME NEW q \in Pages, NEW i \in Deciding(q), i < at + 1,
               \A j \in Deciding(q) : j < at + 1 => j <= i
        PROVE  file'[q] = journal[i].image
    <3>1. i \in 1..Len(journal)
      BY <1>a DEF Deciding
    <3>2. CASE fresh /\ frame.page \in {q, Reset}
      <4>1. i = at
        BY <1>a, <1>e, <2>2, <3>1, <3>2
      <4> QED
        BY <1>d, <3>2, <4>1 DEF frame
    <3>3. CASE ~ (fresh /\ frame.page \in {q, Reset})
      <4>1. i # at
        BY <3>3 DEF Deciding, fresh, frame
      <4>2. i < at /\ \A j \in Deciding(q) : j < at => j <= i
        BY <1>a, <2>2, <3>1, <4>1 DEF Deciding
      <4> QED
        BY <1>c, <1>d, <3>3, <4>2 DEF Inv, Replaying
    <3> QED
      BY <3>2, <3>3
  <2> QED
    BY <1>c, <1>f, <2>1, <2>2 DEF Replaying
<1> QED
  BY <1>1, <1>2, <1>3, <1>4, <1>5, <1>6, <1>7, <1>8, <1>9, <1>10, <1>11 DEF Inv

\* The replayed pages are synced.
LEMMA FinishReplayStep ==
  ASSUME Inv, FinishReplay
  PROVE  Inv'
<1> USE PageAssumption
<1>1. TypeOK'
  BY DEF Inv, Stages, TypeOK, FinishReplay, journalVars, poolVars
<1>2. Redo'
  BY DEF Inv, Stages, Redo, Deciding, FinishReplay, journalVars
<1>3. DropsNothing'
  BY DEF Inv, TypeOK, Redo, DropsNothing, Stages, Clean, Writing, Closed,
         Replaying, Deciding, FinishReplay, journalVars
<1>4. ReadsBack'
  BY DEF Inv, Stages, ReadsBack, Serving, View, Cached, FinishReplay, poolVars
<1>5. HeadersGrow'
  BY DEF Inv, TypeOK, HeadersGrow, Stages, Closed, Replaying, FinishReplay,
         journalVars
<1>6. Stages'
  BY DEF Inv, TypeOK, Stages, FinishReplay, poolVars
<1>7. Closed'
  BY DEF Inv, Stages, Closed, FinishReplay, journalVars
<1>8. Clean'
  <2>1. \A q \in Pages : ~ Cached(q)
    BY DEF Inv, Stages, FinishReplay, Cached
  <2> QED
    BY <1>2, <1>3, <2>1 DEF FinishReplay, DropsNothing, Clean, Cached, poolVars
<1>9. Writing'
  BY DEF Inv, Stages, Writing, FinishReplay, journalVars, poolVars
<1>10. Batch'
  BY DEF Inv, Stages, Batch, FinishReplay, journalVars, poolVars
<1>11. Replaying'
  BY DEF Inv, Stages, Replaying, FinishReplay, control
<1> QED
  BY <1>1, <1>2, <1>3, <1>4, <1>5, <1>6, <1>7, <1>8, <1>9, <1>10, <1>11 DEF Inv

\* The invariant holds initially.
LEMMA InitInv == Init => Inv
<1> SUFFICES ASSUME Init PROVE Inv
  OBVIOUS
<1> USE PageAssumption
<1>1. TypeOK
  <2>1. journal \in Seq([seq : Nat, page : Pages \cup {Reset}, image : Images])
    <3> DEFINE Frame == [seq : Nat, page : Pages \cup {Reset}, image : Images]
    <3> HIDE DEF Frame
    <3>1. journal \in Seq(Frame)
      BY DEF Init
    <3> QED
      BY <3>1 DEF Frame
  <2>2. synced \in 0..Len(journal)
    BY DEF Init
  <2>3. dirty \subseteq {p \in Pages : Cached(p)}
    BY DEF Init
  <2>4. /\ file \in [Pages -> Images \cup {Torn}] /\ cache \in [Pages -> Images \cup {None}]
        /\ latest \in [Pages -> Images] /\ durable \in [Pages -> Images]
    BY DEF Init
  <2>5. tail \in BOOLEAN /\ pending \in BOOLEAN /\ failed \in BOOLEAN
    BY DEF Init
  <2>6. /\ published \in Nat /\ sequence \in Nat /\ at \in Nat \ {0} /\ failures \in Nat
        /\ unsynced \subseteq Pages
        /\ left \subseteq Pages \cup {Reset} /\ victim \in Pages \cup {Reset}
    BY DEF Init
  <2>7. pc = "idle" /\ task = "none"
    BY DEF Init
  <2> QED
    BY <2>1, <2>2, <2>3, <2>4, <2>5, <2>6, <2>7 DEF TypeOK
<1>2. Redo
  BY DEF Init, Redo, Deciding
<1>3. ReadsBack /\ Clean
  BY DEF Init, ReadsBack, View, Cached, Clean
<1>4. DropsNothing /\ HeadersGrow /\ Stages /\ Closed /\ Writing /\ Replaying
  BY DEF Init, DropsNothing, HeadersGrow, Stages, Closed, Writing, Replaying
<1>5. Batch
  BY DEF Init, Batch
<1> QED
  BY <1>1, <1>2, <1>3, <1>4, <1>5 DEF Inv

\* A step that changes nothing keeps the invariant.
LEMMA StutterStep ==
  ASSUME Inv, UNCHANGED vars
  PROVE  Inv'
<1> USE DEF vars, fileVars, journalVars, stateVars, poolVars, control
<1>1. TypeOK'
  BY DEF Inv, TypeOK, Cached
<1>2. (Redo /\ DropsNothing /\ HeadersGrow)'
  BY DEF Inv, Redo, Deciding, DropsNothing, HeadersGrow
<1>3. (ReadsBack /\ Clean)'
  BY DEF Inv, ReadsBack, Serving, View, Cached, Clean
<1>4. (Stages /\ Closed /\ Writing)'
  BY DEF Inv, Stages, Closed, Writing, Deciding
<1>5. Batch'
  BY DEF Inv, Batch
<1>6. Replaying'
  BY DEF Inv, Replaying, Deciding
<1> QED
  BY <1>1, <1>2, <1>3, <1>4, <1>5, <1>6 DEF Inv

\* Every step keeps the invariant.
LEMMA NextInv == Inv /\ [Next]_vars => Inv'
<1> SUFFICES ASSUME Inv, [Next]_vars PROVE Inv'
  OBVIOUS
<1>1. ASSUME NEW p \in Pages, NEW image \in Images, WritePage(p, image) PROVE Inv'
  BY <1>1, WritePageStep
<1>2. ASSUME NEW p \in Pages,
             LoadPage(p) \/ EvictClean(p) \/ EvictDirty(p) \/ WriteImage(p)
      PROVE  Inv'
  BY <1>2, LoadPageStep, EvictCleanStep, EvictDirtyStep, WriteImageStep
<1>3. ASSUME NEW p \in Pages \cup {Reset}, LogFrame(p) PROVE Inv'
  BY <1>3, LogFrameStep
<1>4. CASE Flush \/ Truncate \/ SyncJournal \/ FinishEvict \/ CutFile
  BY <1>4, FlushStep, TruncateStep, SyncJournalStep, FinishEvictStep, CutFileStep
<1>5. CASE SyncData \/ PublishState \/ SkipCheckpoint \/ TrimJournal
  BY <1>5, SyncDataStep, PublishStateStep, SkipCheckpointStep, TrimJournalStep
<1>6. CASE JournalError \/ WriteError \/ Crash
  BY <1>6, JournalErrorStep, WriteErrorStep, CrashStep
<1>7. CASE OpenClean \/ OpenReplay \/ ReplayFrame \/ FinishReplay
  BY <1>7, OpenCleanStep, OpenReplayStep, ReplayFrameStep, FinishReplayStep
<1>8. CASE Done \/ UNCHANGED vars
  BY <1>8, StutterStep DEF Done
<1> QED
  BY <1>1, <1>2, <1>3, <1>4, <1>5, <1>6, <1>7, <1>8 DEF Next

\* The variables of the page file, its journal and its pool keep their types.
THEOREM PagesTyped == Spec => []TypeOK
<1>1. Inv => TypeOK
  BY DEF Inv
<1> QED
  BY <1>1, InitInv, NextInv, PTL DEF Spec

\* Wherever the process stops, the frames that open() replays and the pages that
\* no frame decides give back every image that was logged and synced.
THEOREM JournalRedoes == Spec => []Redo
<1>1. Inv => Redo
  BY DEF Inv
<1> QED
  BY <1>1, InitInv, NextInv, PTL DEF Spec

\* checkpoint() empties the journal only when the synced data file has every
\* image it held.
THEOREM NothingDropped == Spec => []DropsNothing
<1>1. Inv => DropsNothing
  BY DEF Inv
<1> QED
  BY <1>1, InitInv, NextInv, PTL DEF Spec

\* with_page() shows what was written last, across evictions, flushes, failed
\* writes and truncations.
THEOREM PagesReadBack == Spec => []ReadsBack
<1>1. Inv => ReadsBack
  BY DEF Inv
<1> QED
  BY <1>1, InitInv, NextInv, PTL DEF Spec

\* The sequence numbers of the journal always pass the check of recover().
THEOREM HeadersAccepted == Spec => []HeadersGrow
<1>1. Inv => HeadersGrow
  BY DEF Inv
<1> QED
  BY <1>1, InitInv, NextInv, PTL DEF Spec
=============================================================================
