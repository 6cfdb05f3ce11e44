---------------------------- MODULE PageJournal ----------------------------
(***************************************************************************)
(* One page file with its buffer pool (chusql-core/storage/src/page.rs)    *)
(* and its journal of page images (page_wal.rs).                           *)
(*                                                                         *)
(* flush() and the eviction of a dirty page log the image of every dirty   *)
(* page, sync the journal, and only then overwrite the data file; flush()  *)
(* syncs the data file, publishes the journal's sequence in the .pages     *)
(* file and empties the journal.  truncate() logs a RESET frame first.     *)
(* Opening the file replays the frames above the published sequence.       *)
(*                                                                         *)
(* Page content is a model value.  A crash leaves anything in a page       *)
(* written since the last sync, and any prefix of the frames written       *)
(* since the journal was synced, perhaps with a torn frame behind them.    *)
(* Which clean page is evicted is left open, and so are the page LSNs that *)
(* the frames carry along.                                                 *)
(***************************************************************************)
EXTENDS Integers, Sequences, FiniteSets

CONSTANTS
    Pages,       \* page numbers
    Images,      \* what a page can hold
    Zero,        \* a page past the end of the file, or a fresh one
    Torn,        \* what a page write cut short leaves
    None,        \* not cached
    Reset,       \* the page number of a RESET frame
    Capacity,    \* pages the pool holds
    MaxSequence, \* bound on the sequence
    MaxFailures  \* bound on crashes and write errors

ASSUME PageAssumption ==
    /\ Zero \in Images
    /\ Torn \notin Images
    /\ None \notin Images \cup {Torn}
    /\ Reset \notin Pages
    /\ Capacity \in Nat \ {0} /\ MaxSequence \in Nat /\ MaxFailures \in Nat

VARIABLES
    file,       \* the data file as the running process reads it
    unsynced,   \* pages written since the data file was synced
    journal,    \* whole frames of the journal: [seq, page, image]
    synced,     \* how many of them are surely on disk
    tail,       \* does a torn frame follow them?
    published,  \* State::sequence in the .pages file
    sequence,   \* State::sequence in memory
    pending,    \* PageWal::pending
    failed,     \* PageWal::failed
    cache,      \* the buffer pool
    dirty,      \* cached pages the file does not have yet
    pc,         \* see TypeOK
    task,       \* what the journal is written for
    left,       \* pages left to log or to write
    victim,     \* the page an eviction removes
    at,         \* next frame to replay
    latest,     \* history: what the process wrote last into each page
    durable,    \* history: what each page holds if the process stops now
    failures    \* crashes and write errors so far

fileVars == <<file, unsynced>>
journalVars == <<journal, synced, tail, published>>
stateVars == <<sequence, pending, failed>>
poolVars == <<cache, dirty>>
control == <<pc, task, left, victim, at>>
vars == <<fileVars, journalVars, stateVars, poolVars, control, latest, durable, failures>>

Cached(p) == cache[p] # None
Full == Cardinality({p \in Pages : Cached(p)}) >= Capacity

\* What with_page() shows.
View(p) == IF Cached(p) THEN cache[p] ELSE file[p]

(***************************************************************************)
(* The buffer pool.                                                        *)
(***************************************************************************)

\* write_page(), and update_page() once the page is loaded.
WritePage(p, image) ==
    /\ pc = "idle" /\ (Full => Cached(p))
    /\ cache' = [cache EXCEPT ![p] = image]
    /\ dirty' = dirty \cup {p}
    /\ latest' = [latest EXCEPT ![p] = image]
    /\ UNCHANGED <<fileVars, journalVars, stateVars, control, durable, failures>>

\* note_access(): a miss.
LoadPage(p) ==
    /\ pc = "idle" /\ ~ Cached(p) /\ ~ Full
    /\ cache' = [cache EXCEPT ![p] = file[p]]
    /\ UNCHANGED <<fileVars, journalVars, stateVars, dirty, control, latest, durable, failures>>

\* evict_one() of a clean page.
EvictClean(p) ==
    /\ pc = "idle" /\ Full /\ Cached(p) /\ p \notin dirty
    /\ cache' = [cache EXCEPT ![p] = None]
    /\ UNCHANGED <<fileVars, journalVars, stateVars, dirty, control, latest, durable, failures>>

\* A call returns.
Return ==
    pc' = "idle" /\ task' = "none" /\ left' = {} /\ victim' = Reset /\ at' = 1

(***************************************************************************)
(* prepare(), the page writes behind it, and checkpoint().                 *)
(***************************************************************************)

Prepare(why, pages) ==
    /\ pc = "idle" /\ ~ failed
    /\ pc' = "prepare" /\ task' = why /\ left' = pages
    /\ UNCHANGED <<fileVars, journalVars, stateVars, poolVars, at, latest, durable, failures>>

Flush == Prepare("flush", dirty) /\ UNCHANGED victim

\* evict_one() of a dirty page logs and writes all the dirty pages.
EvictDirty(p) ==
    /\ Full /\ p \in dirty
    /\ Prepare("evict", dirty)
    /\ victim' = p

Truncate == Prepare("reset", {Reset}) /\ UNCHANGED victim

\* As NextSequence, but pages logged together share a number.
SharedSequence == IF left = dirty THEN sequence + 1 ELSE sequence

\* Every frame has a number of its own.
NextSequence == sequence + 1

\* A frame goes to the end of the journal; behind a torn one nobody reads it.
LogFrame(p) ==
    /\ pc = "prepare" /\ p \in left /\ sequence < MaxSequence
    /\ LET image == IF p = Reset THEN Zero ELSE cache[p]
           frame == [seq |-> NextSequence, page |-> p, image |-> image]
       IN  journal' = IF tail THEN journal ELSE Append(journal, frame)
    /\ sequence' = NextSequence
    /\ pending' = TRUE
    /\ left' = left \ {p}
    /\ UNCHANGED <<fileVars, synced, tail, published, failed, poolVars,
                   pc, task, victim, at, latest, durable, failures>>

\* The journal is synced: the images can be relied on.
SyncJournal ==
    /\ pc = "prepare" /\ left = {}
    /\ synced' = Len(journal)
    /\ pc' = IF task = "reset" THEN "cut" ELSE "write"
    /\ left' = IF task = "reset" THEN {} ELSE dirty
    /\ durable' = [p \in Pages |-> IF task = "reset" THEN Zero
                                   ELSE IF p \in dirty THEN cache[p] ELSE durable[p]]
    /\ UNCHANGED <<fileVars, journal, tail, published, stateVars, poolVars,
                   task, victim, at, latest, failures>>

WriteImage(p) ==
    /\ pc = "write" /\ p \in left
    /\ file' = [file EXCEPT ![p] = cache[p]]
    /\ unsynced' = unsynced \cup {p}
    /\ left' = left \ {p}
    /\ UNCHANGED <<journalVars, stateVars, poolVars, pc, task, victim, at,
                   latest, durable, failures>>

\* As FinishEvict, but the pages stay marked dirty.
FinishEvictDirty ==
    /\ pc = "write" /\ left = {} /\ task = "evict"
    /\ cache' = [cache EXCEPT ![victim] = None]
    /\ Return
    /\ UNCHANGED <<fileVars, journalVars, stateVars, dirty, latest, durable, failures>>

\* The eviction is over; the data file stays unsynced and the journal full.
FinishEvict ==
    /\ pc = "write" /\ left = {} /\ task = "evict"
    /\ dirty' = {}
    /\ cache' = [cache EXCEPT ![victim] = None]
    /\ Return
    /\ UNCHANGED <<fileVars, journalVars, stateVars, latest, durable, failures>>

\* As CutFile, but the cached pages stay.
CutFileOnly ==
    /\ pc = "cut"
    /\ file' = [p \in Pages |-> Zero] /\ unsynced' = Pages
    /\ latest' = [p \in Pages |-> Zero]
    /\ Return
    /\ UNCHANGED <<journalVars, stateVars, poolVars, durable, failures>>

\* truncate() after its RESET frame: drop the cache, cut the file.
CutFile ==
    /\ pc = "cut"
    /\ cache' = [p \in Pages |-> None] /\ dirty' = {}
    /\ file' = [p \in Pages |-> Zero] /\ unsynced' = Pages
    /\ latest' = [p \in Pages |-> Zero]
    /\ Return
    /\ UNCHANGED <<journalVars, stateVars, durable, failures>>

\* As SyncData, but the data file is not synced.
SyncDataLater ==
    /\ pc = "write" /\ left = {} /\ task = "flush"
    /\ pc' = "checkpoint"
    /\ UNCHANGED <<fileVars, journalVars, stateVars, poolVars, task, left, victim, at,
                   latest, durable, failures>>

\* flush() syncs the data file.
SyncData ==
    /\ pc = "write" /\ left = {} /\ task = "flush"
    /\ unsynced' = {}
    /\ pc' = "checkpoint"
    /\ UNCHANGED <<file, journalVars, stateVars, poolVars, task, left, victim, at,
                   latest, durable, failures>>

\* The end of flush() and of open().
Finish ==
    /\ Return /\ dirty' = {}
    /\ latest' = IF task = "recover" THEN file ELSE latest

\* checkpoint() publishes the sequence; with nothing pending there is no need.
PublishState ==
    /\ pc = "checkpoint" /\ pending
    /\ published' = sequence
    /\ pc' = "trim"
    /\ UNCHANGED <<fileVars, journal, synced, tail, stateVars, poolVars,
                   task, left, victim, at, latest, durable, failures>>

SkipCheckpoint ==
    /\ pc = "checkpoint" /\ ~ pending
    /\ Finish
    /\ UNCHANGED <<fileVars, journalVars, stateVars, cache, durable, failures>>

\* ... and empties the journal.
TrimJournal ==
    /\ pc = "trim"
    /\ journal' = <<>> /\ synced' = 0 /\ tail' = FALSE
    /\ pending' = FALSE
    /\ Finish
    /\ UNCHANGED <<fileVars, published, sequence, failed, cache, durable, failures>>

(***************************************************************************)
(* Failures.                                                               *)
(***************************************************************************)

\* As FailJournal, but the handle stays usable.
FailJournalOpen ==
    /\ failed' = FALSE
    /\ tail' \in (IF pc = "prepare" THEN BOOLEAN ELSE {tail})

\* An error while the journal is written closes it for this process; the frame
\* being written may be torn.
FailJournal ==
    /\ failed' = TRUE
    /\ tail' \in (IF pc = "prepare" THEN BOOLEAN ELSE {tail})

JournalError ==
    /\ pc \in {"prepare", "checkpoint", "trim"} /\ task # "recover"
    /\ failures < MaxFailures
    /\ FailJournal
    /\ Return
    /\ failures' = failures + 1
    /\ UNCHANGED <<fileVars, journal, synced, published, sequence, pending, poolVars,
                   latest, durable>>

\* A page write fails half-way, or the sync behind the writes: the pages stay
\* dirty and can be tried again.
WriteError ==
    /\ pc = "write" /\ failures < MaxFailures
    /\ \/ \E p \in left :
             /\ file' = [file EXCEPT ![p] = Torn]
             /\ unsynced' = unsynced \cup {p}
       \/ left = {} /\ task = "flush" /\ UNCHANGED fileVars
    /\ Return
    /\ failures' = failures + 1
    /\ UNCHANGED <<journalVars, stateVars, poolVars, latest, durable>>

\* Frames from..to reached the disk without a sync; a batch has at most one frame
\* for a page.
WithFrames(from, to) ==
    [p \in Pages |->
        IF \E i \in from..to : journal[i].page \in {p, Reset}
        THEN journal[CHOOSE i \in from..to : journal[i].page \in {p, Reset}].image
        ELSE durable[p]]

\* The process stops; what is read back is what open() starts from.
Crash ==
    /\ pc # "down" /\ failures < MaxFailures
    /\ \E found \in [unsynced -> Images \cup {Torn}] :
          file' = [p \in Pages |-> IF p \in unsynced THEN found[p] ELSE file[p]]
    /\ \E n \in synced..Len(journal) :
          /\ journal' = SubSeq(journal, 1, n)
          /\ synced' = n
          /\ durable' = WithFrames(synced + 1, n)
    /\ tail' \in (IF pc = "prepare" \/ synced < Len(journal) THEN BOOLEAN ELSE {tail})
    /\ cache' = [p \in Pages |-> None] /\ dirty' = {}
    /\ sequence' = published /\ pending' = FALSE /\ failed' = FALSE
    /\ latest' = durable'
    /\ pc' = "down" /\ task' = "recover" /\ left' = {} /\ victim' = Reset /\ at' = 1
    /\ failures' = failures + 1
    /\ UNCHANGED <<unsynced, published>>

(***************************************************************************)
(* PageWal::open() and recover().                                          *)
(***************************************************************************)

\* An empty journal: nothing to recover.
OpenClean ==
    /\ pc = "down" /\ journal = <<>> /\ ~ tail
    /\ latest' = file
    /\ Return
    /\ UNCHANGED <<fileVars, journalVars, stateVars, poolVars, durable, failures>>

OpenReplay ==
    /\ pc = "down" /\ (journal # <<>> \/ tail)
    /\ pc' = "replay"
    /\ UNCHANGED <<fileVars, journalVars, stateVars, poolVars, task, left, victim, at,
                   latest, durable, failures>>

\* The frame's image is in the data file since the last checkpoint.
Stale(frame) == frame.seq <= published

\* The data file once a frame is replayed; a RESET frame cuts it.
Replayed(frame, p) == IF frame.page \in {p, Reset} THEN frame.image ELSE file[p]

ReplayFrame ==
    /\ pc = "replay" /\ at <= Len(journal)
    /\ LET frame == journal[at]
       IN  IF Stale(frame) THEN UNCHANGED <<fileVars, sequence>>
           ELSE /\ file' = [p \in Pages |-> Replayed(frame, p)]
                /\ unsynced' = unsynced \cup {p \in Pages : frame.page \in {p, Reset}}
                /\ sequence' = frame.seq
    /\ at' = at + 1
    /\ UNCHANGED <<journalVars, pending, failed, poolVars, pc, task, left, victim,
                   latest, durable, failures>>

FinishReplay ==
    /\ pc = "replay" /\ at > Len(journal)
    /\ unsynced' = {}
    /\ pending' = TRUE
    /\ pc' = "checkpoint"
    /\ UNCHANGED <<file, journalVars, sequence, failed, poolVars, task, left, victim, at,
                   latest, durable, failures>>

(***************************************************************************)

Init ==
    /\ file = [p \in Pages |-> Zero] /\ unsynced = {}
    /\ journal = <<>> /\ synced = 0 /\ tail = FALSE /\ published = 0
    /\ sequence = 0 /\ pending = FALSE /\ failed = FALSE
    /\ cache = [p \in Pages |-> None] /\ dirty = {}
    /\ pc = "idle" /\ task = "none" /\ left = {} /\ victim = Reset /\ at = 1
    /\ latest = [p \in Pages |-> Zero] /\ durable = [p \in Pages |-> Zero]
    /\ failures = 0

\* Within the bounds nothing may be left to do.
Done ==
    /\ sequence = MaxSequence /\ pc = "prepare"
    /\ UNCHANGED vars

Next ==
    \/ \E p \in Pages :
          \/ \E image \in Images : WritePage(p, image)
          \/ LoadPage(p) \/ EvictClean(p) \/ EvictDirty(p) \/ WriteImage(p)
    \/ \E p \in Pages \cup {Reset} : LogFrame(p)
    \/ Flush \/ Truncate
    \/ SyncJournal \/ FinishEvict \/ CutFile
    \/ SyncData \/ PublishState \/ SkipCheckpoint \/ TrimJournal
    \/ JournalError \/ WriteError \/ Crash
    \/ OpenClean \/ OpenReplay \/ ReplayFrame \/ FinishReplay
    \/ Done

Spec == Init /\ [][Next]_vars

(***************************************************************************)
(* Properties.                                                             *)
(***************************************************************************)

\* Types, and what belongs to which stage.
TypeOK ==
    /\ file \in [Pages -> Images \cup {Torn}] /\ unsynced \subseteq Pages
    /\ journal \in Seq([seq : Nat, page : Pages \cup {Reset}, image : Images])
    /\ synced \in 0..Len(journal) /\ tail \in BOOLEAN
    /\ published \in Nat /\ sequence \in Nat /\ pending \in BOOLEAN /\ failed \in BOOLEAN
    /\ cache \in [Pages -> Images \cup {None}]
    /\ dirty \subseteq {p \in Pages : Cached(p)}
    /\ pc \in {"idle", "prepare", "write", "cut", "checkpoint", "trim", "down", "replay"}
    /\ task \in {"none", "flush", "evict", "reset", "recover"}
    /\ left \subseteq Pages \cup {Reset} /\ victim \in Pages \cup {Reset}
    /\ at \in Nat \ {0}
    /\ latest \in [Pages -> Images] /\ durable \in [Pages -> Images]
    /\ failures \in Nat

\* The frames that decide page p when the file is opened.
Deciding(p) ==
    {i \in 1..synced : journal[i].page \in {p, Reset} /\ journal[i].seq > published}

\* Stopping the process at any moment loses nothing that was logged and synced:
\* the last frame of a page has the image it must come back with; a page with
\* no frame holds it already, and no write to it can be lost or torn.
Redo ==
    \A p \in Pages :
        \/ \E i \in Deciding(p) :
              journal[i].image = durable[p] /\ \A j \in Deciding(p) : j <= i
        \/ Deciding(p) = {} /\ p \notin unsynced /\ file[p] = durable[p]

\* Before the journal is emptied the synced data file has every image it held.
DropsNothing == pc \in {"checkpoint", "trim"} => file = durable /\ unsynced = {}

\* The file is open.
Serving == pc \in {"idle", "prepare", "write", "cut"} \/ (pc # "down" /\ task = "flush")

\* Reading a page gives what was written last, whether the page stayed cached,
\* was evicted, flushed, or survived a failed write.
ReadsBack == Serving => \A p \in Pages : View(p) = latest[p]

\* The headers of the journal always pass the check of recover(): sequence
\* numbers grow from frame to frame and are never given twice.
HeadersGrow ==
    /\ \A i, j \in DOMAIN journal : i < j => journal[i].seq < journal[j].seq
    /\ pc \notin {"down", "replay"} => \A i \in DOMAIN journal : journal[i].seq <= sequence

(***************************************************************************)
(* The inductive invariant behind them.                                    *)
(***************************************************************************)

\* Which stage belongs to which call.
Stages ==
    /\ pc = "idle" => task = "none"
    /\ pc = "prepare" => task \in {"flush", "evict", "reset"}
    /\ pc = "write" => task \in {"flush", "evict"} /\ left \subseteq dirty
    /\ pc = "cut" => task = "reset"
    /\ pc \in {"checkpoint", "trim"} => task \in {"flush", "recover"}
    /\ pc \in {"down", "replay"} => task = "recover"
    /\ pc = "down" => at = 1
    /\ pc = "checkpoint" /\ task = "recover" => pending
    /\ task = "recover" => dirty = {} /\ cache = [p \in Pages |-> None]
    /\ task = "evict" => victim \in dirty
    /\ pc = "prepare" /\ task # "reset" => left \subseteq dirty
    /\ task = "reset" => left \subseteq {Reset}

\* A torn frame or unsynced frames mean that the journal is being written, is
\* closed, or is about to be read.
Closed ==
    /\ failed => pc = "idle"
    /\ pc # "prepare" /\ ~ failed => synced = Len(journal)
    /\ tail => failed \/ task = "recover"
    /\ published <= sequence

\* Clean pages are in the data file, and what is there would come back.
Clean ==
    pc \notin {"down", "replay", "cut"} => \A p \in Pages \ dirty :
        file[p] = durable[p] /\ (Cached(p) => cache[p] = file[p])

\* While pages are written their images are in the journal and are what must
\* come back.
Writing ==
    /\ pc = "write" => \A p \in dirty :
          /\ Deciding(p) # {} /\ durable[p] = cache[p]
          /\ p \notin left => file[p] = cache[p]
    /\ pc = "cut" => \A p \in Pages : Deciding(p) # {} /\ durable[p] = Zero
    /\ pc \in {"checkpoint", "trim"} => \A p \in dirty : cache[p] = durable[p]

\* The frames of the batch being logged: at most one decides a page, none is
\* published, and every page that is not left has its frame.
Batch ==
    /\ \A i \in (synced + 1)..Len(journal) : journal[i].seq > published
    /\ \A p \in Pages : \A i, j \in (synced + 1)..Len(journal) :
          journal[i].page \in {p, Reset} /\ journal[j].page \in {p, Reset} => i = j
    /\ pc = "prepare" =>
          /\ \A i \in (synced + 1)..Len(journal) :
                /\ journal[i].page \notin left
                /\ journal[i].page \in IF task = "reset" THEN {Reset} ELSE dirty
          /\ \A p \in (IF task = "reset" THEN {Reset} ELSE dirty) \ left :
                \E i \in (synced + 1)..Len(journal) :
                    journal[i].page = p /\ journal[i].image = IF p = Reset THEN Zero ELSE cache[p]

\* Replay has put the last frame it passed of every page into the data file.
Replaying ==
    pc = "replay" =>
        /\ \A i \in DOMAIN journal : i < at => journal[i].seq <= sequence
        /\ \A p \in Pages : \A i \in Deciding(p) :
              i < at /\ (\A j \in Deciding(p) : j < at => j <= i) => file[p] = journal[i].image

Inv ==
    /\ TypeOK /\ Redo /\ DropsNothing /\ ReadsBack /\ HeadersGrow
    /\ Stages /\ Closed /\ Clean /\ Writing /\ Batch /\ Replaying
=============================================================================
