----------------------------- MODULE Databases ------------------------------
(***************************************************************************)
(* The directory of databases: struct Databases of                         *)
(* chusql-core/storage/src/runtime.rs.  Each database has a directory of   *)
(* its own; the map of the open ones is behind a mutex, each database      *)
(* behind a gate (a read-write lock).  create_database and drop_database   *)
(* hold the mutex to their end.  Other requests hold it while they take    *)
(* references to the databases they need, then take the gates in the order *)
(* of the names.  A guarded request names the databases it was planned     *)
(* against by the ids an earlier resolve_object returned.                  *)
(*                                                                         *)
(* What a database holds is left out: a directory is a new one (birth)     *)
(* each time it is made.  The system database, which cannot be dropped, is *)
(* its counter of object ids here.  Of the I/O errors the failing rename   *)
(* of drop_database is in, the one it has a way back from.                 *)
(***************************************************************************)
EXTENDS Integers, Sequences, SequencesExt, FiniteSets

CONSTANTS
    Names,         \* database names, as numbers in their order
    Clients,       \* connections that send requests
    MaxRequests,   \* bound on the requests
    MaxBirths,     \* bound on the directories made
    MaxFaults      \* bound on the crashes and failing renames

Nobody == "nobody"

ASSUME DatabasesAssumption ==
    /\ Names \subseteq Nat /\ IsFiniteSet(Names)
    /\ Nobody \notin Clients
    /\ MaxRequests \in Nat /\ MaxBirths \in Nat /\ MaxFaults \in Nat

VARIABLES
    dirs,       \* the directories: [catalog, id, birth], or NoDir
    high,       \* object_high_water of the system catalog, in memory
    saved,      \* and on disk
    named,      \* the open databases
    mutex,      \* the client that holds the lock of the map, or Nobody
    clients,    \* the requests under way
    gates,      \* for each database [readers, writer, parked]
    bound,      \* what each client knows of each name: [id, birth]
    acked,      \* birth of the database the clients were told of, or 0
    given,      \* the ids that databases got, in this order
    births, requests, faults,
    mode        \* "up", "down", or "assign": databases without id get theirs

disk == <<dirs, saved>>
counters == <<births, requests, faults>>
vars == <<disk, high, named, mutex, clients, gates, bound, acked, given, counters, mode>>

NoDir == [catalog |-> FALSE, id |-> 0, birth |-> 0]
NoRequest == [pc |-> "idle", kind |-> "none", name |-> 0, need |-> <<>>, id |-> 0]
FreeGate == [readers |-> {}, writer |-> {}, parked |-> {}]

Guarded == {"guarded_read", "guarded_write"}
Reading == {"read", "guarded_read"}
Working == {"read", "write"} \cup Guarded

Requests ==
    [kind : {"create", "drop", "resolve", "read", "write"}, name : Names, others : {{}}]
        \cup [kind : Guarded, name : Names, others : {{}, Names}]

\* As GateOrder, but the target comes first.
TargetFirst(name, others) == <<name>> \o SetToSortSeq(others \ {name}, LAMBDA a, b : a < b)

\* Gates are taken by name: servers is a BTreeMap.
GateOrder(name, others) == SetToSortSeq(others \cup {name}, LAMBDA a, b : a < b)

Submit(c) ==
    /\ mode = "up" /\ clients[c].pc = "idle" /\ requests < MaxRequests
    /\ \E r \in Requests :
         /\ clients' = [clients EXCEPT ![c] =
                          [pc |-> "queue", kind |-> r.kind, name |-> r.name, id |-> 0,
                           need |-> GateOrder(r.name, r.others)]]
    /\ requests' = requests + 1
    /\ UNCHANGED <<disk, high, named, mutex, gates, bound, acked, given, births, faults, mode>>

\* The references requests hold (Arc::clone), which keep a database open.
Uses(c) == IF clients[c].pc \in {"gates", "run"} THEN Range(clients[c].need) ELSE {}
InUse(n) == \E c \in Clients : n \in Uses(c)

At(c, pc, kinds) == mode = "up" /\ clients[c].pc = pc /\ clients[c].kind \in kinds
Goto(c, pc) == clients' = [clients EXCEPT ![c].pc = pc]
Reply(c) == clients' = [clients EXCEPT ![c] = NoRequest]
Holding(c, pc) == mode = "up" /\ mutex = c /\ clients[c].pc = pc

\* Requests that fail under the map's lock.
Rejected(c) ==
    LET r == clients[c] IN
    \/ r.kind = "create" /\ (r.name \in named \/ dirs[r.name] # NoDir)
    \/ r.kind = "drop" /\ (r.name \notin named \/ InUse(r.name))
    \/ r.kind = "resolve" /\ r.name \notin named
    \/ r.kind \in Working /\ ~ Range(r.need) \subseteq named

Reject(c) ==
    /\ At(c, "queue", {"create", "drop", "resolve"} \cup Working)
    /\ mutex = Nobody /\ Rejected(c)
    /\ Reply(c)
    /\ UNCHANGED <<disk, high, named, mutex, gates, bound, acked, given, counters, mode>>

(***************************************************************************)
(* create_database.                                                        *)
(***************************************************************************)

CreateDir(c) ==
    /\ At(c, "queue", {"create"}) /\ mutex = Nobody /\ ~ Rejected(c)
    /\ births < MaxBirths /\ births' = births + 1
    /\ dirs' = [dirs EXCEPT ![clients[c].name] = [catalog |-> FALSE, id |-> 0,
                                                       birth |-> births + 1]]
    /\ mutex' = c /\ Goto(c, "new")
    /\ UNCHANGED <<saved, high, named, gates, bound, acked, given, requests, faults, mode>>

\* Server::new() writes the catalog.
NewServer(c) ==
    /\ Holding(c, "new")
    /\ dirs' = [dirs EXCEPT ![clients[c].name].catalog = TRUE]
    /\ Goto(c, "reserve")
    /\ UNCHANGED <<saved, high, named, mutex, gates, bound, acked, given, counters, mode>>

\* As ReserveId, but the system catalog is not saved.
ReserveInMemory(c) ==
    /\ Holding(c, "reserve")
    /\ high' = high + 1
    /\ clients' = [clients EXCEPT ![c].pc = "assign", ![c].id = high + 1]
    /\ UNCHANGED <<disk, named, mutex, gates, bound, acked, given, counters, mode>>

\* assign_database_id(): the number is taken from the system catalog and saved
\* there ...
ReserveId(c) ==
    /\ Holding(c, "reserve")
    /\ high' = high + 1 /\ saved' = high + 1
    /\ clients' = [clients EXCEPT ![c].pc = "assign", ![c].id = high + 1]
    /\ UNCHANGED <<dirs, named, mutex, gates, bound, acked, given, counters, mode>>

\* ... before the database has it.
AssignId(c) ==
    /\ Holding(c, "assign")
    /\ dirs' = [dirs EXCEPT ![clients[c].name].id = clients[c].id]
    /\ given' = Append(given, clients[c].id)
    /\ Goto(c, "insert")
    /\ UNCHANGED <<saved, high, named, mutex, gates, bound, acked, counters, mode>>

Insert(c) ==
    /\ Holding(c, "insert")
    /\ named' = named \cup {clients[c].name}
    /\ acked' = [acked EXCEPT ![clients[c].name] = dirs[clients[c].name].birth]
    /\ mutex' = Nobody /\ Reply(c)
    /\ UNCHANGED <<disk, high, gates, bound, given, counters, mode>>

(***************************************************************************)
(* drop_database.                                                          *)
(***************************************************************************)

\* As TakeOut, but the database stays in the map.
TakeOutListed(c) ==
    /\ At(c, "queue", {"drop"}) /\ mutex = Nobody /\ ~ Rejected(c)
    /\ mutex' = c /\ Goto(c, "rename")
    /\ UNCHANGED <<disk, high, named, gates, bound, acked, given, counters, mode>>

\* The database leaves the map when nobody else has a reference.
TakeOut(c) ==
    /\ At(c, "queue", {"drop"}) /\ mutex = Nobody /\ ~ Rejected(c)
    /\ named' = named \ {clients[c].name}
    /\ mutex' = c /\ Goto(c, "rename")
    /\ UNCHANGED <<disk, high, gates, bound, acked, given, counters, mode>>

\* The directory is renamed to a tombstone: from here it is dropped.
RenameAway(c) ==
    /\ Holding(c, "rename")
    /\ dirs' = [dirs EXCEPT ![clients[c].name] = NoDir]
    /\ acked' = [acked EXCEPT ![clients[c].name] = 0]
    /\ Goto(c, "sweep")
    /\ UNCHANGED <<saved, high, named, mutex, gates, bound, given, counters, mode>>

\* As RenameFails, but the database is not opened again.
RenameFailsClosed(c) ==
    /\ Holding(c, "rename") /\ faults < MaxFaults
    /\ faults' = faults + 1
    /\ mutex' = Nobody /\ Reply(c)
    /\ UNCHANGED <<disk, high, named, gates, bound, acked, given, births, requests, mode>>

RenameFails(c) ==
    /\ Holding(c, "rename") /\ faults < MaxFaults
    /\ faults' = faults + 1
    /\ named' = named \cup {clients[c].name}
    /\ mutex' = Nobody /\ Reply(c)
    /\ UNCHANGED <<disk, high, gates, bound, acked, given, births, requests, mode>>

\* remove_dir_all(); a tombstone that stays is not the name of a database.
Sweep(c) ==
    /\ Holding(c, "sweep")
    /\ mutex' = Nobody /\ Reply(c)
    /\ UNCHANGED <<disk, high, named, gates, bound, acked, given, counters, mode>>

(***************************************************************************)
(* Requests to a database.                                                 *)
(***************************************************************************)

Readable(n) == gates[n].writer = {} /\ gates[n].parked = {}
Writable(n) == gates[n].writer = {} /\ gates[n].readers = {}

\* resolve_object keeps the map locked while it waits for the gate.
ResolveLock(c) ==
    /\ At(c, "queue", {"resolve"}) /\ mutex = Nobody /\ ~ Rejected(c)
    /\ mutex' = c /\ Goto(c, "peek")
    /\ UNCHANGED <<disk, high, named, gates, bound, acked, given, counters, mode>>

Resolve(c) ==
    /\ Holding(c, "peek") /\ Readable(clients[c].name)
    /\ bound' = [bound EXCEPT ![c][clients[c].name] =
                   [id |-> dirs[clients[c].name].id, birth |-> dirs[clients[c].name].birth]]
    /\ mutex' = Nobody /\ Reply(c)
    /\ UNCHANGED <<disk, high, named, gates, acked, given, counters, mode>>

\* References are taken, and the map is free again.
Select(c) ==
    /\ At(c, "queue", Working) /\ mutex = Nobody /\ ~ Rejected(c)
    /\ Goto(c, "gates")
    /\ UNCHANGED <<disk, high, named, mutex, gates, bound, acked, given, counters, mode>>

Wants(c, n) == IF clients[c].kind \notin Reading /\ n = clients[c].name THEN "write" ELSE "read"
HasGate(c, n) == c \in gates[n].readers \cup gates[n].writer
Missing(c) == SelectSeq(clients[c].need, LAMBDA n : ~ HasGate(c, n))

\* The next gate is free.
Acquire(c) ==
    /\ At(c, "gates", Working) /\ Missing(c) # <<>>
    /\ LET n == Head(Missing(c))
       IN  IF Wants(c, n) = "write"
           THEN Writable(n) /\ gates' = [gates EXCEPT ![n].writer = {c}, ![n].parked = @ \ {c}]
           ELSE Readable(n) /\ gates' = [gates EXCEPT ![n].readers = @ \cup {c}]
    /\ UNCHANGED <<disk, high, named, mutex, clients, bound, acked, given, counters, mode>>

\* A writer that has to wait keeps new readers out.
Park(c) ==
    /\ At(c, "gates", Working) /\ Missing(c) # <<>>
    /\ LET n == Head(Missing(c))
       IN  /\ Wants(c, n) = "write" /\ ~ Writable(n) /\ c \notin gates[n].parked
           /\ gates' = [gates EXCEPT ![n].parked = @ \cup {c}]
    /\ UNCHANGED <<disk, high, named, mutex, clients, bound, acked, given, counters, mode>>

\* As Fits, but the databases only have to be there.
FitsByName(c) == TRUE

\* validate_bound_schema(): each database is the one the guard names.
Fits(c) ==
    clients[c].kind \in Guarded =>
        \A n \in Range(clients[c].need) : dirs[n].id = bound[c][n].id

OpenGates(c) ==
    gates' = [n \in Names |-> [gates[n] EXCEPT !.readers = @ \ {c}, !.writer = @ \ {c}]]

\* With all gates: the guard is checked, then the operation runs.
Validate(c) ==
    /\ At(c, "gates", Working) /\ Missing(c) = <<>> /\ Fits(c)
    /\ Goto(c, "run")
    /\ UNCHANGED <<disk, high, named, mutex, gates, bound, acked, given, counters, mode>>

GuardFails(c) ==
    /\ At(c, "gates", Guarded) /\ Missing(c) = <<>> /\ ~ Fits(c)
    /\ OpenGates(c) /\ Reply(c)
    /\ UNCHANGED <<disk, high, named, mutex, bound, acked, given, counters, mode>>

Run(c) ==
    /\ At(c, "run", Working)
    /\ OpenGates(c) /\ Reply(c)
    /\ UNCHANGED <<disk, high, named, mutex, bound, acked, given, counters, mode>>

(***************************************************************************)
(* Crash and restart.                                                      *)
(***************************************************************************)

\* The clients keep what they were told.
Crash ==
    /\ mode # "down" /\ faults < MaxFaults
    /\ faults' = faults + 1
    /\ mode' = "down" /\ named' = {} /\ mutex' = Nobody /\ high' = 0
    /\ clients' = [c \in Clients |-> NoRequest]
    /\ gates' = [n \in Names |-> FreeGate]
    /\ UNCHANGED <<disk, bound, acked, given, births, requests>>

Loadable == {n \in Names : dirs[n].catalog}

\* Databases::new(): directories with a catalog are opened, ids that occur twice
\* are an error, the counter is at least the largest of them.
Restart ==
    /\ mode = "down"
    /\ \A m, n \in Loadable : m # n /\ dirs[m].id = dirs[n].id => dirs[m].id = 0
    /\ named' = Loadable
    /\ high' = CHOOSE h \in {saved} \cup {dirs[n].id : n \in Loadable} :
                   h >= saved /\ \A n \in Loadable : h >= dirs[n].id
    /\ saved' = high'
    /\ mode' = "assign"
    /\ UNCHANGED <<dirs, mutex, clients, gates, bound, acked, given, counters>>

AssignMissing(n) ==
    /\ mode = "assign" /\ n \in named /\ dirs[n].id = 0
    /\ high' = high + 1 /\ saved' = high + 1
    /\ dirs' = [dirs EXCEPT ![n].id = high + 1]
    /\ given' = Append(given, high + 1)
    /\ UNCHANGED <<named, mutex, clients, gates, bound, acked, counters, mode>>

\* A database whose create_database was not answered is there or is not.
Serve ==
    /\ mode = "assign" /\ \A n \in named : dirs[n].id # 0
    /\ acked' = [n \in Names |-> IF n \in named THEN dirs[n].birth ELSE acked[n]]
    /\ mode' = "up"
    /\ UNCHANGED <<disk, high, named, mutex, clients, gates, bound, given, counters>>

\* All databases were created, and the clients know them; the system catalog has
\* the first id.
Init ==
    /\ births = Cardinality(Names) /\ high = births + 1 /\ saved = high
    /\ \E Nth \in [Names -> 1 .. births] :
         /\ IsInjective(Nth)
         /\ dirs = [n \in Names |-> [catalog |-> TRUE, id |-> Nth[n] + 1, birth |-> Nth[n]]]
         /\ acked = Nth
    /\ given = [i \in 1 .. high |-> i]
    /\ bound = [c \in Clients |->
                  [n \in Names |-> [id |-> dirs[n].id, birth |-> dirs[n].birth]]]
    /\ named = Names /\ mutex = Nobody
    /\ clients = [c \in Clients |-> NoRequest]
    /\ gates = [n \in Names |-> FreeGate]
    /\ requests = 0 /\ faults = 0
    /\ mode = "up"

Step(c) ==
    \/ Reject(c)
    \/ CreateDir(c) \/ NewServer(c) \/ ReserveId(c) \/ AssignId(c) \/ Insert(c)
    \/ TakeOut(c) \/ RenameAway(c) \/ Sweep(c)
    \/ ResolveLock(c) \/ Resolve(c)
    \/ Select(c) \/ Acquire(c) \/ Park(c) \/ Validate(c) \/ GuardFails(c) \/ Run(c)

Next ==
    \/ \E c \in Clients : Submit(c) \/ Step(c) \/ RenameFails(c)
    \/ Crash \/ Restart \/ Serve
    \/ \E n \in Names : AssignMissing(n)

Spec == Init /\ [][Next]_vars

\* Threads run on; the process is started again and comes up.
Fairness ==
    /\ \A c \in Clients : WF_vars(Step(c))
    /\ WF_vars(Restart \/ Serve \/ \E n \in Names : AssignMissing(n))
FairSpec == Spec /\ Fairness

(***************************************************************************)
(* Properties.                                                             *)
(***************************************************************************)

Locked == {"new", "reserve", "assign", "insert", "rename", "sweep", "peek"}
Directories == [catalog : BOOLEAN, id : Nat, birth : Nat]
ClientStates == [pc : Locked \cup {"idle", "queue", "gates", "run"},
                 kind : {"none", "create", "drop", "resolve"} \cup Working,
                 name : Names \cup {0}, id : Nat,
                 need : {<<>>} \cup {GateOrder(r.name, r.others) : r \in Requests}]
Gates == [readers : SUBSET Clients, writer : SUBSET Clients, parked : SUBSET Clients]

DirsOK ==
    /\ dirs \in [Names -> Directories] /\ births \in Nat
    /\ \A n \in Names : dirs[n].birth <= births /\ (dirs[n].id # 0 => dirs[n].catalog)
    /\ named \subseteq Loadable

\* A write lock is alone.
GatesOK ==
    /\ gates \in [Names -> Gates]
    /\ \A n \in Names : gates[n].writer # {} => gates[n].readers = {}

\* The map's lock is held by the one request that is between its steps under
\* it, and by nobody while the process is down or starts.
MutexOK ==
    /\ mutex \in Clients \cup {Nobody}
    /\ \A c \in Clients : mutex = c <=> clients[c].pc \in Locked
    /\ mode # "up" => \A c \in Clients : clients[c].pc = "idle"

\* Types, and the shape of the locks.
TypeOK ==
    /\ DirsOK /\ GatesOK /\ MutexOK
    /\ clients \in [Clients -> ClientStates]
    /\ bound \in [Clients -> [Names -> [id : Nat, birth : Nat]]]
    /\ acked \in [Names -> Nat] /\ given \in Seq(Nat)
    /\ saved \in Nat /\ high \in Nat /\ requests \in Nat /\ faults \in Nat
    /\ mode \in {"up", "down", "assign"}

\* No database gets an id that another one had, dropped ones, restarts and
\* half-done creations included: an id a client or a plan kept stays good.
IdsNeverReused == IsInjective(given)

\* A database that was created stays until it is dropped, under its name and as
\* it was: not while a drop waits or fails, not across a crash.  What was
\* dropped does not come back.
AckedStay ==
    /\ \A n \in Names : acked[n] # 0 => dirs[n].birth = acked[n] /\ dirs[n].id # 0
    /\ mode = "up" /\ mutex = Nobody => named = {n \in Names : acked[n] # 0}

\* A request that selected its databases keeps them: none is dropped while it
\* waits or runs.  A guarded request runs on the databases its client resolved,
\* never on others created later under the same names.
RunsOnBound ==
    \A c \in Clients :
        /\ Uses(c) \subseteq named
        /\ clients[c].pc = "run" /\ clients[c].kind \in Guarded =>
               \A n \in Range(clients[c].need) : dirs[n].birth = bound[c][n].birth

\* Everybody who sends a request gets an answer or sees the process end: gates
\* taken in name order, and the map's lock held during a wait for a gate, never
\* close a cycle.
RequestsEnd == \A c \in Clients : clients[c].pc # "idle" ~> clients[c].pc = "idle"
=============================================================================
