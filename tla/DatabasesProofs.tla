--------------------------- MODULE DatabasesProofs --------------------------
(***************************************************************************)
(* Databases is correct for every set of names and clients and every       *)
(* number of requests, directories and faults.                             *)
(*                                                                         *)
(* The invariants of the runs are not inductive one by one.  That no id is *)
(* given twice needs the counter (Counter): no id was given above what the *)
(* disk has, and the id a creation has reserved is above all given ones.   *)
(* That a guarded request runs on the database its client resolved needs   *)
(* that an id belongs to one birth (Bindings).  That a database stays needs *)
(* what a request that holds the map's lock may do next (Phases).          *)
(***************************************************************************)
EXTENDS Databases, TLAPS, FiniteSetTheorems

Creating == {"new", "reserve", "assign", "insert"}

\* What a request between its steps knows.
Phases ==
    \A c \in Clients :
        LET r == clients[c] IN
        /\ r.pc # "idle" => r.name \in Names
        /\ r.pc \in Creating =>
               r.name \notin named /\ acked[r.name] = 0 /\ dirs[r.name].birth # 0
        /\ r.pc \in {"reserve", "assign", "insert"} => dirs[r.name].catalog
        /\ r.pc = "assign" => r.id = high /\ r.id # 0 /\ \A i \in DOMAIN given : given[i] < r.id
        /\ r.pc = "insert" => dirs[r.name].id # 0
        /\ r.pc = "rename" => r.name \notin named /\ acked[r.name] # 0
        /\ r.pc = "sweep" => r.name \notin named
        /\ r.pc = "peek" => r.name \in named

\* The counter is above every id given, on the disk too.
Counter ==
    /\ mode # "down" => high = saved
    /\ \A i \in DOMAIN given : given[i] \in 1 .. saved

\* The ids on the disk were given, each to one database.
DirIds ==
    /\ \A n \in Names : dirs[n].id # 0 => \E i \in DOMAIN given : given[i] = dirs[n].id
    /\ \A m, n \in Names : dirs[m].id = dirs[n].id => m = n \/ dirs[m].id = 0

\* What clients know was given, and an id is that of one birth.
Bindings ==
    \A c \in Clients, n \in Names :
        /\ \E i \in DOMAIN given : given[i] = bound[c][n].id
        /\ bound[c][n].id = dirs[n].id => bound[c][n].birth = dirs[n].birth

\* The databases the clients were told of are the open ones, and the one a drop
\* has taken out of the map.
Told ==
    /\ \A n \in Names : /\ acked[n] # 0 => dirs[n].birth = acked[n] /\ dirs[n].id # 0
                        /\ dirs[n].catalog => dirs[n].birth # 0
    /\ mode = "up" =>
           \A n \in Names :
               /\ n \in named => dirs[n].id # 0 /\ acked[n] # 0
               /\ acked[n] # 0 =>
                      n \in named \/ \E c \in Clients : /\ clients[c].pc = "rename"
                                                        /\ clients[c].name = n
    /\ mode = "assign" => named = Loadable

Inv ==
    /\ TypeOK /\ Phases /\ Counter /\ DirIds /\ Bindings /\ Told
    /\ IdsNeverReused /\ RunsOnBound

-----------------------------------------------------------------------------
(***************************************************************************)
(* How a step changes the requests.                                        *)
(***************************************************************************)

Others(c) == \A d \in Clients \ {c} : clients'[d] = clients[d]

\* Request c goes on to pc.
Moved(c, pc) ==
    /\ clients' \in [Clients -> ClientStates] /\ Others(c)
    /\ clients'[c].pc = pc /\ clients'[c].kind = clients[c].kind
    /\ clients'[c].name = clients[c].name /\ clients'[c].need = clients[c].need

\* Request c is answered.
Answered(c) ==
    /\ clients' \in [Clients -> ClientStates] /\ Others(c)
    /\ clients'[c].pc = "idle"

LEMMA Moving ==
  ASSUME TypeOK, NEW c \in Clients,
         NEW pc \in Locked \cup {"idle", "queue", "gates", "run"}, Goto(c, pc)
  PROVE  Moved(c, pc)
<1>1. clients \in [Clients -> ClientStates] /\ clients[c] \in ClientStates
  BY DEF TypeOK
<1>2. [clients[c] EXCEPT !.pc = pc] \in ClientStates
  BY <1>1 DEF ClientStates
<1>3. clients' = [clients EXCEPT ![c] = [clients[c] EXCEPT !.pc = pc]]
  BY DEF Goto
<1>4. clients' \in [Clients -> ClientStates] /\ Others(c)
  BY <1>1, <1>2, <1>3 DEF Others
<1>5. clients'[c] = [clients[c] EXCEPT !.pc = pc]
  BY <1>1, <1>3
<1> QED
  BY <1>1, <1>4, <1>5 DEF Moved, ClientStates

LEMMA Answering ==
  ASSUME TypeOK, NEW c \in Clients, Reply(c)
  PROVE  Answered(c)
<1>1. NoRequest \in ClientStates
  BY DEF NoRequest, ClientStates
<1> QED
  BY <1>1 DEF TypeOK, Reply, Answered, Others, NoRequest

(***************************************************************************)
(* How a step changes the directories.                                     *)
(***************************************************************************)

\* Only the directory n changes ...
OnlyDir(n) ==
    /\ n \in Names /\ dirs' \in [Names -> Directories]
    /\ \A m \in Names \ {n} : dirs'[m] = dirs[m]

\* ... to this.
DirIs(n, catalog, id, birth) ==
    /\ OnlyDir(n)
    /\ dirs'[n].catalog <=> catalog
    /\ dirs'[n].id = id /\ dirs'[n].birth = birth

LEMMA DirSet ==
  ASSUME TypeOK, NEW n \in Names, NEW catalog \in BOOLEAN, NEW id \in Nat, NEW birth \in Nat,
         dirs' = [dirs EXCEPT ![n] = [catalog |-> catalog, id |-> id, birth |-> birth]]
  PROVE  DirIs(n, catalog, id, birth)
<1>1. [catalog |-> catalog, id |-> id, birth |-> birth] \in Directories
  BY DEF Directories
<1> QED
  BY <1>1 DEF TypeOK, DirsOK, DirIs, OnlyDir

LEMMA CreateDirSets ==
  ASSUME Inv, NEW c \in Clients, CreateDir(c)
  PROVE  DirIs(clients[c].name, FALSE, 0, births + 1)
<1>1. clients[c].name \in Names /\ births + 1 \in Nat
  BY DEF Inv, TypeOK, DirsOK, Phases, CreateDir, At
<1> QED
  BY <1>1, DirSet DEF CreateDir, Inv

LEMMA NewServerSets ==
  ASSUME Inv, NEW c \in Clients, NewServer(c)
  PROVE  LET n == clients[c].name IN DirIs(n, TRUE, dirs[n].id, dirs[n].birth)
<1> DEFINE n == clients[c].name
<1>1. n \in Names /\ dirs \in [Names -> Directories]
  BY DEF Inv, TypeOK, DirsOK, Phases, NewServer, Holding
<1>2. dirs[n] \in Directories
  BY <1>1
<1>3. [dirs[n] EXCEPT !.catalog = TRUE] \in Directories
  BY <1>2 DEF Directories
<1>4. dirs' = [dirs EXCEPT ![n] = [dirs[n] EXCEPT !.catalog = TRUE]]
  BY DEF NewServer
<1>5. dirs' \in [Names -> Directories] /\ \A m \in Names \ {n} : dirs'[m] = dirs[m]
  BY <1>1, <1>3, <1>4
<1>6. dirs'[n] = [dirs[n] EXCEPT !.catalog = TRUE]
  BY <1>1, <1>4
<1>7. dirs'[n].catalog /\ dirs'[n].id = dirs[n].id /\ dirs'[n].birth = dirs[n].birth
  BY <1>2, <1>6 DEF Directories
<1> QED
  BY <1>1, <1>5, <1>7 DEF DirIs, OnlyDir

\* Giving a database an id.
LEMMA IdSets ==
  ASSUME Inv, NEW n \in Names, NEW id \in Nat, dirs' = [dirs EXCEPT ![n].id = id]
  PROVE  DirIs(n, dirs[n].catalog, id, dirs[n].birth)
<1>1. dirs \in [Names -> Directories] /\ dirs[n] \in Directories
  BY DEF Inv, TypeOK, DirsOK
<1>2. [dirs[n] EXCEPT !.id = id] = [catalog |-> dirs[n].catalog, id |-> id, birth |-> dirs[n].birth]
  BY <1>1 DEF Directories
<1>3. dirs' = [dirs EXCEPT ![n] = [dirs[n] EXCEPT !.id = id]]
  OBVIOUS
<1>4. dirs[n].catalog \in BOOLEAN /\ dirs[n].birth \in Nat
  BY <1>1 DEF Directories
<1> QED
  BY <1>2, <1>3, <1>4, DirSet DEF Inv

LEMMA AssignIdSets ==
  ASSUME Inv, NEW c \in Clients, AssignId(c)
  PROVE  LET n == clients[c].name
         IN  DirIs(n, dirs[n].catalog, clients[c].id, dirs[n].birth)
<1>1. clients[c].name \in Names /\ clients[c].id \in Nat
  BY DEF Inv, TypeOK, ClientStates, Phases, AssignId, Holding
<1> QED
  BY <1>1, IdSets DEF AssignId

LEMMA AssignMissingSets ==
  ASSUME Inv, NEW n \in Names, AssignMissing(n)
  PROVE  DirIs(n, dirs[n].catalog, high + 1, dirs[n].birth)
<1>1. high + 1 \in Nat
  BY DEF Inv, TypeOK
<1> QED
  BY <1>1, IdSets DEF AssignMissing

LEMMA RenameAwaySets ==
  ASSUME Inv, NEW c \in Clients, RenameAway(c)
  PROVE  DirIs(clients[c].name, FALSE, 0, 0)
<1>1. clients[c].name \in Names
  BY DEF Inv, TypeOK, Phases, RenameAway, Holding
<1> QED
  BY <1>1, DirSet DEF RenameAway, Inv, NoDir

\* Steps that change requests and gates only.
Quiet(c) ==
    \/ Submit(c) \/ Reject(c) \/ Sweep(c) \/ ResolveLock(c)
    \/ Select(c) \/ Acquire(c) \/ Park(c) \/ Validate(c) \/ GuardFails(c) \/ Run(c)

LEMMA QuietSteps ==
  ASSUME NEW c \in Clients, Quiet(c)
  PROVE  UNCHANGED <<dirs, saved, high, named, bound, acked, given, births, mode>>
  BY DEF Quiet, Submit, Reject, Sweep, ResolveLock, Select, Acquire, Park, Validate,
         GuardFails, Run, disk, counters


-----------------------------------------------------------------------------
(***************************************************************************)
(* Types.                                                                  *)
(***************************************************************************)

\* A step of request c, while the process is up: the map's lock is taken, kept,
\* given back, or not touched.
LEMMA MutexStep ==
  ASSUME TypeOK, NEW c \in Clients, Others(c), mode = "up", mode' = "up",
         \/ /\ mutex' = mutex
            /\ clients[c].pc \in Locked <=> clients'[c].pc \in Locked
         \/ mutex = Nobody /\ mutex' = c /\ clients'[c].pc \in Locked
         \/ mutex = c /\ mutex' = Nobody /\ clients'[c].pc \notin Locked
  PROVE  MutexOK'
  BY DatabasesAssumption DEF TypeOK, MutexOK, Others

LEMMA ClientsType ==
  ASSUME Inv, [Next]_vars
  PROVE  clients' \in [Clients -> ClientStates] /\ MutexOK'
<1> USE DatabasesAssumption DEF Inv
<1>1. ASSUME NEW c \in Clients, Submit(c)
      PROVE  clients' \in [Clients -> ClientStates] /\ MutexOK'
  <2>1. PICK r \in Requests :
          clients' = [clients EXCEPT ![c] =
                          [pc |-> "queue", kind |-> r.kind, name |-> r.name, id |-> 0,
                           need |-> GateOrder(r.name, r.others)]]
    BY <1>1 DEF Submit
  <2>2. [pc |-> "queue", kind |-> r.kind, name |-> r.name, id |-> 0,
         need |-> GateOrder(r.name, r.others)] \in ClientStates
    BY DEF Requests, ClientStates, Working, Guarded
  <2>3. clients' \in [Clients -> ClientStates] /\ Others(c) /\ clients'[c].pc = "queue"
    BY <2>1, <2>2 DEF TypeOK, Others
  <2> QED
    BY <1>1, <2>3, MutexStep DEF Submit, Locked
<1>2. ASSUME NEW c \in Clients, Reject(c) \/ GuardFails(c) \/ Run(c)
      PROVE  clients' \in [Clients -> ClientStates] /\ MutexOK'
  <2>1. Answered(c)
    BY <1>2, Answering DEF Reject, GuardFails, Run
  <2> QED
    BY <1>2, <2>1, MutexStep DEF Answered, Reject, GuardFails, Run, At, Locked
<1>3. ASSUME NEW c \in Clients, Insert(c) \/ RenameFails(c) \/ Sweep(c) \/ Resolve(c)
      PROVE  clients' \in [Clients -> ClientStates] /\ MutexOK'
  <2>1. Answered(c)
    BY <1>3, Answering DEF Insert, RenameFails, Sweep, Resolve
  <2> QED
    BY <1>3, <2>1, MutexStep
       DEF Answered, Insert, RenameFails, Sweep, Resolve, Holding, Locked
<1>4. ASSUME NEW c \in Clients, CreateDir(c) \/ TakeOut(c) \/ ResolveLock(c)
      PROVE  clients' \in [Clients -> ClientStates] /\ MutexOK'
  <2>1. \E pc \in Locked : Goto(c, pc)
    BY <1>4 DEF CreateDir, TakeOut, ResolveLock, Locked
  <2>2. PICK pc \in Locked : Moved(c, pc)
    BY <2>1, Moving
  <2> QED
    BY <1>4, <2>1, <2>2, MutexStep DEF Moved, CreateDir, TakeOut, ResolveLock, At
<1>5. ASSUME NEW c \in Clients, NewServer(c) \/ AssignId(c) \/ RenameAway(c)
      PROVE  clients' \in [Clients -> ClientStates] /\ MutexOK'
  <2>1. \E pc \in Locked : Goto(c, pc)
    BY <1>5 DEF NewServer, AssignId, RenameAway, Locked
  <2>2. PICK pc \in Locked : Moved(c, pc)
    BY <2>1, Moving
  <2> QED
    BY <1>5, <2>1, <2>2, MutexStep DEF Moved, NewServer, AssignId, RenameAway, Holding, Locked
<1>6. ASSUME NEW c \in Clients, ReserveId(c)
      PROVE  clients' \in [Clients -> ClientStates] /\ MutexOK'
  <2>1. clients[c] \in ClientStates /\ high + 1 \in Nat
    BY DEF TypeOK
  <2>2. [clients[c] EXCEPT !.pc = "assign", !.id = high + 1] \in ClientStates
    BY <2>1 DEF ClientStates, Locked
  <2>3. clients' = [clients EXCEPT ![c] = [clients[c] EXCEPT !.pc = "assign", !.id = high + 1]]
    BY <1>6 DEF ReserveId, TypeOK
  <2>4. clients' \in [Clients -> ClientStates] /\ Others(c) /\ clients'[c].pc = "assign"
    BY <2>1, <2>2, <2>3 DEF TypeOK, Others, ClientStates
  <2> QED
    BY <1>6, <2>4, MutexStep DEF ReserveId, Holding, Locked
<1>7. ASSUME NEW c \in Clients, Select(c) \/ Validate(c)
      PROVE  clients' \in [Clients -> ClientStates] /\ MutexOK'
  <2>1. \E pc \in {"gates", "run"} : Goto(c, pc)
    BY <1>7 DEF Select, Validate
  <2>2. PICK pc \in {"gates", "run"} : Moved(c, pc)
    BY <2>1, Moving
  <2> QED
    BY <1>7, <2>1, <2>2, MutexStep DEF Moved, Select, Validate, At, Locked
<1>8. CASE UNCHANGED <<clients, mutex>> /\ mode' = mode
  BY <1>8 DEF TypeOK, MutexOK
<1>9. CASE UNCHANGED <<clients, mutex>> /\ mode # "up"
  BY <1>9 DEF TypeOK, MutexOK
<1>10. CASE Crash
  <2>1. NoRequest \in ClientStates
    BY DEF NoRequest, ClientStates
  <2> QED
    BY <1>10, <2>1 DEF Crash, MutexOK, NoRequest, Locked
<1>11. ASSUME NEW c \in Clients, Acquire(c) \/ Park(c)
       PROVE  clients' \in [Clients -> ClientStates] /\ MutexOK'
  BY <1>11, <1>8 DEF Acquire, Park
<1>12. CASE Restart \/ Serve \/ (\E n \in Names : AssignMissing(n)) \/ UNCHANGED vars
  BY <1>12, <1>8, <1>9 DEF Restart, Serve, AssignMissing, vars
<1> QED
  BY <1>1, <1>2, <1>3, <1>4, <1>5, <1>6, <1>7, <1>10, <1>11, <1>12 DEF Next, Step

LEMMA DirChange ==
  ASSUME DirsOK, NEW n, OnlyDir(n),
         births' \in Nat, births <= births', named' = named, dirs'[n].birth <= births',
         dirs'[n].id # 0 => dirs'[n].catalog, n \in named => dirs'[n].catalog
  PROVE  DirsOK'
<1>1. \A m \in Names : dirs'[m].birth <= births' /\ (dirs'[m].id # 0 => dirs'[m].catalog)
  <2> TAKE m \in Names
  <2>1. CASE m = n
    BY <2>1
  <2>2. CASE m # n
    <3>1. dirs'[m] = dirs[m] /\ dirs[m] \in Directories
      BY <2>2 DEF OnlyDir, DirsOK
    <3> QED
      BY <3>1 DEF DirsOK, Directories
  <2> QED
    BY <2>1, <2>2
<1>2. \A m \in named : m \in Names /\ dirs'[m].catalog
  BY DEF OnlyDir, DirsOK, Loadable
<1> QED
  BY <1>1, <1>2 DEF OnlyDir, DirsOK, Loadable

LEMMA DirsType ==
  ASSUME Inv, [Next]_vars
  PROVE  DirsOK'
<1> USE DEF Inv
<1>0. DirsOK /\ births \in Nat
  BY DEF TypeOK, DirsOK
<1>1. ASSUME NEW c \in Clients, CreateDir(c)
      PROVE  DirsOK'
  <2>1. clients[c].name \notin named /\ births' = births + 1 /\ named' = named
    BY <1>1 DEF CreateDir, Rejected, At
  <2>2. DirIs(clients[c].name, FALSE, 0, births + 1)
    BY <1>1, CreateDirSets
  <2> QED
    BY <1>0, <2>1, <2>2, DirChange DEF DirIs
<1>2. ASSUME NEW c \in Clients, NewServer(c)
      PROVE  DirsOK'
  <2> DEFINE n == clients[c].name
  <2>1. births' = births /\ named' = named
    BY <1>2 DEF NewServer, counters
  <2>2. DirIs(n, TRUE, dirs[n].id, dirs[n].birth)
    BY <1>2, NewServerSets
  <2>3. dirs[n].id \in Nat /\ dirs[n].birth \in Nat /\ dirs[n].birth <= births
    BY <1>0, <2>2 DEF DirIs, OnlyDir, DirsOK, Directories
  <2> HIDE DEF n
  <2> QED
    BY <1>0, <2>1, <2>2, <2>3, DirChange DEF DirIs
<1>3. ASSUME NEW n \in Names, NEW id \in Nat, DirIs(n, dirs[n].catalog, id, dirs[n].birth),
             births' = births, named' = named, dirs[n].catalog
      PROVE  DirsOK'
  <2>1. dirs[n].birth \in Nat /\ dirs[n].birth <= births /\ dirs[n].catalog \in BOOLEAN
    BY <1>0 DEF DirsOK, Directories
  <2> QED
    BY <1>0, <1>3, <2>1, DirChange DEF DirIs
<1>4. ASSUME NEW c \in Clients, AssignId(c)
      PROVE  DirsOK'
  <2>1. /\ clients[c].name \in Names /\ dirs[clients[c].name].catalog
        /\ clients[c].id \in Nat
    BY <1>4 DEF AssignId, Holding, Phases, TypeOK, ClientStates
  <2>2. births' = births /\ named' = named
    BY <1>4 DEF AssignId, counters
  <2> QED
    BY <1>3, <1>4, <2>1, <2>2, AssignIdSets
<1>5. ASSUME NEW c \in Clients, Insert(c) \/ RenameFails(c)
      PROVE  DirsOK'
  <2>1. clients[c].name \in Names /\ dirs[clients[c].name].catalog
    BY <1>5 DEF Insert, RenameFails, Holding, Phases, Told, TypeOK, DirsOK
  <2> QED
    BY <1>5, <2>1 DEF Insert, RenameFails, disk, counters, TypeOK, DirsOK, Loadable
<1>6. ASSUME NEW c \in Clients, TakeOut(c)
      PROVE  DirsOK'
  BY <1>6 DEF TakeOut, disk, counters, TypeOK, DirsOK, Loadable
<1>7. ASSUME NEW c \in Clients, RenameAway(c)
      PROVE  DirsOK'
  <2>1. clients[c].name \notin named /\ births' = births /\ named' = named
    BY <1>7 DEF RenameAway, Holding, Phases, counters
  <2>2. DirIs(clients[c].name, FALSE, 0, 0)
    BY <1>7, RenameAwaySets
  <2> QED
    BY <1>0, <2>1, <2>2, DirChange DEF DirIs
<1>8. ASSUME NEW n \in Names, AssignMissing(n)
      PROVE  DirsOK'
  <2>1. dirs[n].catalog /\ births' = births /\ named' = named /\ high + 1 \in Nat
    BY <1>0, <1>8 DEF AssignMissing, counters, DirsOK, Loadable, TypeOK
  <2> QED
    BY <1>3, <1>8, <2>1, AssignMissingSets
<1>9. CASE Crash \/ Restart
  BY <1>9 DEF Crash, Restart, disk, counters, TypeOK, DirsOK, Loadable
<1>10. CASE UNCHANGED <<dirs, births, named>>
  BY <1>10 DEF TypeOK, DirsOK, Loadable
<1>11. ASSUME NEW c \in Clients, ReserveId(c) \/ Resolve(c)
       PROVE  DirsOK'
  BY <1>10, <1>11 DEF ReserveId, Resolve, disk, counters
<1>12. CASE Serve \/ UNCHANGED vars
  BY <1>10, <1>12 DEF Serve, vars, disk, counters
<1> QED
  BY <1>1, <1>2, <1>4, <1>5, <1>6, <1>7, <1>8, <1>9, <1>10, <1>11, <1>12, QuietSteps
     DEF Next, Step, Quiet

\* A gate changes in one field.
LEMMA GatesType ==
  ASSUME Inv, [Next]_vars
  PROVE  GatesOK'
<1> USE DEF Inv
<1>0. GatesOK
  BY DEF TypeOK
<1>1. ASSUME NEW c \in Clients, Acquire(c)
      PROVE  GatesOK'
  <2> DEFINE n == Head(Missing(c))
  <2>1. CASE n \notin Names
    <3>1. gates' = gates
      BY <1>0, <1>1, <2>1 DEF Acquire, GatesOK
    <3> QED
      BY <1>0, <3>1 DEF GatesOK
  <2>2. CASE n \in Names
    <3>0. gates[n] \in Gates /\ gates \in [Names -> Gates]
      BY <1>0, <2>2 DEF GatesOK
    <3>1. CASE Wants(c, n) = "write"
      <4>1. /\ Writable(n)
            /\ gates' = [gates EXCEPT ![n] = [gates[n] EXCEPT !.writer = {c},
                                                             !.parked = @ \ {c}]]
        BY <1>1, <3>1, <3>0 DEF Acquire, Gates
      <4>2. [gates[n] EXCEPT !.writer = {c}, !.parked = @ \ {c}] \in Gates
        BY <3>0 DEF Gates
      <4>3. gates'[n].readers = {}
        BY <4>1, <3>0 DEF Writable, Gates
      <4> QED
        BY <1>0, <4>1, <4>2, <4>3, <3>0 DEF GatesOK
    <3>2. CASE Wants(c, n) # "write"
      <4>1. /\ Readable(n)
            /\ gates' = [gates EXCEPT ![n] = [gates[n] EXCEPT !.readers = @ \cup {c}]]
        BY <1>1, <3>2 DEF Acquire
      <4>2. [gates[n] EXCEPT !.readers = @ \cup {c}] \in Gates
        BY <3>0 DEF Gates
      <4>3. gates'[n].writer = {}
        BY <4>1, <3>0 DEF Readable, Gates
      <4> QED
        BY <1>0, <4>1, <4>2, <4>3, <3>0 DEF GatesOK
    <3> QED
      BY <3>1, <3>2
  <2> QED
    BY <2>1, <2>2
<1>2. ASSUME NEW c \in Clients, Park(c)
      PROVE  GatesOK'
  <2> DEFINE n == Head(Missing(c))
  <2>1. gates' = [gates EXCEPT ![n] = [gates[n] EXCEPT !.parked = @ \cup {c}]]
    BY <1>2 DEF Park
  <2>2. CASE n \in Names
    <3>1. gates[n] \in Gates /\ gates \in [Names -> Gates]
      BY <1>0, <2>2 DEF GatesOK
    <3>2. [gates[n] EXCEPT !.parked = @ \cup {c}] \in Gates
      BY <3>1 DEF Gates
    <3>3. gates'[n].writer = gates[n].writer /\ gates'[n].readers = gates[n].readers
      BY <2>1, <3>1 DEF Gates
    <3> QED
      BY <1>0, <2>1, <3>1, <3>2, <3>3 DEF GatesOK
  <2>3. CASE n \notin Names
    BY <1>0, <2>1, <2>3 DEF GatesOK
  <2> QED
    BY <2>2, <2>3
<1>3. ASSUME NEW c \in Clients, GuardFails(c) \/ Run(c)
      PROVE  GatesOK'
  <2>1. OpenGates(c)
    BY <1>3 DEF GuardFails, Run
  <2>2. \A n \in Names : /\ gates'[n] \in Gates
                         /\ gates'[n].readers = gates[n].readers \ {c}
                         /\ gates'[n].writer = gates[n].writer \ {c}
    <3> TAKE n \in Names
    <3>1. gates[n] \in Gates
      BY <1>0 DEF GatesOK
    <3>2. gates'[n] = [gates[n] EXCEPT !.readers = @ \ {c}, !.writer = @ \ {c}]
      BY <2>1 DEF OpenGates
    <3> QED
      BY <3>1, <3>2 DEF Gates
  <2>3. gates' \in [Names -> Gates]
    BY <2>1, <2>2 DEF OpenGates
  <2> QED
    BY <1>0, <2>2, <2>3 DEF GatesOK
<1>4. CASE Crash
  <2>1. FreeGate \in Gates
    BY DEF FreeGate, Gates
  <2> QED
    BY <1>4, <2>1 DEF Crash, GatesOK, FreeGate
<1>5. CASE gates' = gates
  BY <1>0, <1>5 DEF GatesOK
<1>6. ASSUME NEW c \in Clients,
             \/ Submit(c) \/ Reject(c) \/ CreateDir(c) \/ NewServer(c) \/ ReserveId(c)
             \/ AssignId(c) \/ Insert(c) \/ TakeOut(c) \/ RenameAway(c) \/ RenameFails(c)
             \/ Sweep(c) \/ ResolveLock(c) \/ Resolve(c) \/ Select(c) \/ Validate(c)
      PROVE  gates' = gates
  BY <1>6 DEF Submit, Reject, CreateDir, NewServer, ReserveId, AssignId, Insert, TakeOut,
              RenameAway, RenameFails, Sweep, ResolveLock, Resolve, Select, Validate
<1>7. CASE Restart \/ Serve \/ (\E n \in Names : AssignMissing(n)) \/ UNCHANGED vars
  BY <1>5, <1>7 DEF Restart, Serve, AssignMissing, vars
<1> QED
  BY <1>1, <1>2, <1>3, <1>4, <1>5, <1>6, <1>7 DEF Next, Step

\* Every id on the disk was given, so the counter does not move.
LEMMA RestartCounter ==
  ASSUME Inv, Restart
  PROVE  high' = saved /\ saved' = saved
<1> DEFINE S == {saved} \cup {dirs[n].id : n \in Loadable}
           P(h) == h >= saved /\ \A n \in Loadable : h >= dirs[n].id
<1>1. \A n \in Loadable : dirs[n].id \in Nat /\ dirs[n].id <= saved
  <2> TAKE n \in Loadable
  <2>1. n \in Names /\ dirs[n].id \in Nat /\ saved \in Nat
    BY DEF Inv, TypeOK, DirsOK, Directories, Loadable
  <2>2. dirs[n].id # 0 => dirs[n].id \in 1 .. saved
    BY <2>1 DEF Inv, DirIds, Counter
  <2> QED
    BY <2>1, <2>2
<1>2. saved \in S /\ P(saved)
  BY <1>1 DEF Inv, TypeOK
<1>3. high' = CHOOSE h \in S : P(h)
  BY DEF Restart
<1>4. high' \in S /\ P(high')
  BY <1>2, <1>3
<1>5. high' = saved
  BY <1>1, <1>4 DEF Inv, TypeOK
<1> QED
  BY <1>5 DEF Restart

LEMMA NextTypeOK ==
  ASSUME Inv, [Next]_vars
  PROVE  TypeOK'
<1> USE DEF Inv
<1>1. ASSUME NEW c \in Clients, Quiet(c)
      PROVE  requests' \in Nat /\ faults' = faults
  BY <1>1 DEF TypeOK, Quiet, Submit, Reject, Sweep, ResolveLock, Select, Acquire, Park,
         Validate, GuardFails, Run, disk, counters
<1> DEFINE Rest == /\ bound \in [Clients -> [Names -> [id : Nat, birth : Nat]]]
                   /\ acked \in [Names -> Nat] /\ given \in Seq(Nat)
                   /\ saved \in Nat /\ high \in Nat /\ requests \in Nat /\ faults \in Nat
                   /\ mode \in {"up", "down", "assign"}
<1>0. SUFFICES Rest'
  BY ClientsType, DirsType, GatesType DEF TypeOK
<1>2. ASSUME NEW c \in Clients, Quiet(c)
      PROVE  Rest'
  BY <1>1, <1>2, QuietSteps DEF TypeOK
<1>3. ASSUME NEW c \in Clients, CreateDir(c) \/ NewServer(c) \/ TakeOut(c)
      PROVE  Rest'
  BY <1>3 DEF TypeOK, CreateDir, NewServer, TakeOut, disk, counters
<1>4. ASSUME NEW c \in Clients, ReserveId(c)
      PROVE  Rest'
  BY <1>4 DEF TypeOK, ReserveId, counters
<1>5. ASSUME NEW c \in Clients, AssignId(c)
      PROVE  Rest'
  <2>1. clients[c].id \in Nat
    BY DEF TypeOK, ClientStates
  <2> QED
    BY <1>5, <2>1 DEF TypeOK, AssignId, counters
<1>6. ASSUME NEW c \in Clients, Insert(c)
      PROVE  Rest'
  <2>1. clients[c].name \in Names /\ dirs[clients[c].name].birth \in Nat
    BY <1>6 DEF TypeOK, DirsOK, Directories, Phases, Insert, Holding
  <2> QED
    BY <1>6, <2>1 DEF TypeOK, Insert, disk, counters
<1>7. ASSUME NEW c \in Clients, RenameAway(c) \/ RenameFails(c)
      PROVE  Rest'
  BY <1>7 DEF TypeOK, RenameAway, RenameFails, disk, counters
<1>8. ASSUME NEW c \in Clients, Resolve(c)
      PROVE  Rest'
  <2> DEFINE n == clients[c].name
  <2>1. n \in Names /\ dirs[n] \in Directories
    BY <1>8 DEF TypeOK, DirsOK, Phases, Resolve, Holding
  <2>2. [id |-> dirs[n].id, birth |-> dirs[n].birth] \in [id : Nat, birth : Nat]
    BY <2>1 DEF Directories
  <2>3. bound' \in [Clients -> [Names -> [id : Nat, birth : Nat]]]
    BY <1>8, <2>1, <2>2 DEF TypeOK, Resolve
  <2> QED
    BY <1>8, <2>3 DEF TypeOK, Resolve, disk, counters
<1>9. CASE Crash
  BY <1>9 DEF TypeOK, Crash, disk
<1>10. CASE Restart
  BY <1>10, RestartCounter DEF TypeOK, Restart, counters
<1>11. CASE Serve
  <2>1. \A n \in Names : dirs[n].birth \in Nat
    BY DEF TypeOK, DirsOK, Directories
  <2> QED
    BY <1>11, <2>1 DEF TypeOK, Serve, disk, counters
<1>12. ASSUME NEW n \in Names, AssignMissing(n)
       PROVE  Rest'
  BY <1>12 DEF TypeOK, AssignMissing, counters
<1>13. CASE UNCHANGED vars
  BY <1>13 DEF TypeOK, vars, disk, counters
<1> QED
  BY <1>2, <1>3, <1>4, <1>5, <1>6, <1>7, <1>8, <1>9, <1>10, <1>11, <1>12, <1>13
     DEF Next, Step, Quiet

-----------------------------------------------------------------------------
(***************************************************************************)
(* The ids.                                                                *)
(***************************************************************************)

\* An id is given that is above all others, and that the disk counts already.
Gives(id) ==
    /\ id \in Nat \ {0} /\ id <= saved' /\ \A i \in DOMAIN given : given[i] < id
    /\ DOMAIN given' = DOMAIN given \cup {Len(given) + 1}
    /\ Len(given) + 1 \notin DOMAIN given
    /\ given'[Len(given) + 1] = id
    /\ \A i \in DOMAIN given : given'[i] = given[i]

LEMMA Giving ==
  ASSUME Inv, NEW id \in Nat \ {0}, id <= saved', \A i \in DOMAIN given : given[i] < id,
         given' = Append(given, id)
  PROVE  Gives(id)
<1>1. given \in Seq(Nat)
  BY DEF Inv, TypeOK
<1> QED
  BY <1>1 DEF Gives

LEMMA AssignIdGives ==
  ASSUME Inv, NEW c \in Clients, AssignId(c)
  PROVE  Gives(clients[c].id) /\ saved' = saved /\ high' = high /\ mode' = mode
<1>1. clients[c].id \in Nat \ {0} /\ clients[c].id = saved /\ saved' = saved
  BY DEF Inv, TypeOK, ClientStates, Phases, Counter, AssignId, Holding
<1>2. \A i \in DOMAIN given : given[i] < clients[c].id
  BY DEF Inv, Phases, AssignId, Holding
<1> QED
  BY <1>1, <1>2, Giving DEF AssignId, Inv, TypeOK

LEMMA AssignMissingGives ==
  ASSUME Inv, NEW n \in Names, AssignMissing(n)
  PROVE  Gives(high + 1) /\ saved' = high' /\ high' = high + 1 /\ high = saved
<1>1. high + 1 \in Nat \ {0} /\ saved' = high + 1 /\ high = saved /\ high \in Nat
  BY DEF Inv, TypeOK, Counter, AssignMissing
<1>2. \A i \in DOMAIN given : given[i] < high + 1
  BY <1>1 DEF Inv, Counter
<1> QED
  BY <1>1, <1>2, Giving DEF AssignMissing, Inv, TypeOK

\* Steps that give no id and make or change no directory.
LEMMA KeepsDirs ==
  ASSUME NEW c \in Clients,
         Quiet(c) \/ ReserveId(c) \/ Insert(c) \/ TakeOut(c) \/ RenameFails(c) \/ Resolve(c)
  PROVE  dirs' = dirs /\ given' = given /\ mode' = mode
<1>1. CASE Quiet(c)
  BY <1>1, QuietSteps
<1> QED
  BY <1>1 DEF ReserveId, Insert, TakeOut, RenameFails, Resolve, disk

LEMMA NextCounter ==
  ASSUME Inv, [Next]_vars
  PROVE  Counter'
<1> USE DEF Inv
<1>1. CASE UNCHANGED <<saved, high, given, mode>>
  BY <1>1 DEF Counter
<1>2. ASSUME NEW c \in Clients,
             \/ Quiet(c) \/ CreateDir(c) \/ NewServer(c) \/ Insert(c) \/ TakeOut(c)
             \/ RenameAway(c) \/ RenameFails(c) \/ Resolve(c)
      PROVE  Counter'
  BY <1>1, <1>2, QuietSteps
     DEF CreateDir, NewServer, Insert, TakeOut, RenameAway, RenameFails, Resolve, disk
<1>3. ASSUME NEW c \in Clients, ReserveId(c)
      PROVE  Counter'
  <2>1. high = saved /\ saved \in Nat /\ saved' = saved + 1 /\ high' = saved' /\ given' = given
    BY <1>3 DEF ReserveId, Holding, Counter, TypeOK
  <2> QED
    BY <2>1 DEF Counter
<1>4. ASSUME NEW c \in Clients, AssignId(c)
      PROVE  Counter'
  <2>1. Gives(clients[c].id) /\ saved' = saved /\ high' = high /\ mode' = mode
    BY <1>4, AssignIdGives
  <2> QED
    BY <2>1 DEF Gives, Counter, TypeOK
<1>5. ASSUME NEW n \in Names, AssignMissing(n)
      PROVE  Counter'
  <2>1. Gives(high + 1) /\ saved' = high' /\ high' = high + 1 /\ high = saved
    BY <1>5, AssignMissingGives
  <2> QED
    BY <2>1 DEF Gives, Counter, TypeOK
<1>6. CASE Crash \/ Serve
  BY <1>6 DEF Crash, Serve, disk, Counter
<1>7. CASE Restart
  BY <1>7, RestartCounter DEF Restart, Counter
<1>8. CASE UNCHANGED vars
  BY <1>1, <1>8 DEF vars, disk
<1> QED
  BY <1>2, <1>3, <1>4, <1>5, <1>6, <1>7, <1>8 DEF Next, Step, Quiet

LEMMA NextIdsNeverReused ==
  ASSUME Inv, [Next]_vars
  PROVE  IdsNeverReused'
<1> USE DEF Inv
<1>1. CASE given' = given
  BY <1>1 DEF IdsNeverReused
<1>2. ASSUME NEW id, Gives(id)
      PROVE  IdsNeverReused'
  <2>1. \A i \in DOMAIN given : given[i] \in Nat
    BY DEF TypeOK
  <2> QED
    BY <1>2, <2>1 DEF Gives, IdsNeverReused, IsInjective
<1>3. ASSUME NEW c \in Clients, CreateDir(c) \/ NewServer(c) \/ RenameAway(c)
      PROVE  given' = given
  BY <1>3 DEF CreateDir, NewServer, RenameAway
<1>4. CASE Crash \/ Restart \/ Serve \/ UNCHANGED vars
  BY <1>1, <1>4 DEF Crash, Restart, Serve, vars
<1> QED
  BY <1>1, <1>2, <1>3, <1>4, KeepsDirs, AssignIdGives, AssignMissingGives DEF Next, Step, Quiet

\* A directory that changes gets no id, keeps its id, or gets one that is above
\* all given ones.
LEMMA NextDirIds ==
  ASSUME Inv, [Next]_vars
  PROVE  DirIds'
<1> USE DEF Inv
<1>1. CASE dirs' = dirs /\ given' = given
  BY <1>1 DEF DirIds
<1>2. ASSUME NEW n, OnlyDir(n), dirs'[n].id \in {0, dirs[n].id}, given' = given
      PROVE  DirIds'
  BY <1>2 DEF OnlyDir, DirIds
<1>3. ASSUME NEW n, OnlyDir(n), Gives(dirs'[n].id)
      PROVE  DirIds'
  <2>1. \A m \in Names \ {n} : dirs'[m] = dirs[m] /\ dirs[m].id # dirs'[n].id
    <3> TAKE m \in Names \ {n}
    <3>1. dirs'[m] = dirs[m]
      BY <1>3 DEF OnlyDir
    <3>2. CASE dirs[m].id = 0
      BY <1>3, <3>1, <3>2 DEF Gives
    <3>3. CASE dirs[m].id # 0
      <4>1. PICK i \in DOMAIN given : given[i] = dirs[m].id
        BY <3>3 DEF DirIds
      <4>2. given[i] < dirs'[n].id /\ given[i] \in Nat /\ dirs'[n].id \in Nat
        BY <1>3 DEF Gives, TypeOK
      <4> QED
        BY <3>1, <4>1, <4>2
    <3> QED
      BY <3>2, <3>3
  <2> QED
    BY <1>3, <2>1 DEF OnlyDir, Gives, DirIds
<1>4. ASSUME NEW c \in Clients, CreateDir(c) \/ NewServer(c) \/ RenameAway(c)
      PROVE  DirIds'
  <2>1. given' = given
    BY <1>4 DEF CreateDir, NewServer, RenameAway
  <2> QED
    BY <1>2, <1>4, <2>1, CreateDirSets, NewServerSets, RenameAwaySets DEF DirIs
<1>5. ASSUME NEW c \in Clients, AssignId(c)
      PROVE  DirIds'
  BY <1>3, <1>5, AssignIdSets, AssignIdGives DEF DirIs
<1>6. ASSUME NEW n \in Names, AssignMissing(n)
      PROVE  DirIds'
  BY <1>3, <1>6, AssignMissingSets, AssignMissingGives DEF DirIs
<1>7. CASE Crash \/ Restart \/ Serve \/ UNCHANGED vars
  BY <1>1, <1>7 DEF Crash, Restart, Serve, vars, disk
<1> QED
  BY <1>1, <1>4, <1>5, <1>6, <1>7, KeepsDirs DEF Next, Step, Quiet

LEMMA NextBindings ==
  ASSUME Inv, [Next]_vars
  PROVE  Bindings'
<1> USE DEF Inv
<1>1. CASE UNCHANGED <<dirs, given, bound>>
  BY <1>1 DEF Bindings
<1>2. \A d \in Clients, m \in Names : bound[d][m].id # 0
  <2> TAKE d \in Clients, m \in Names
  <2>1. PICK i \in DOMAIN given : given[i] = bound[d][m].id
    BY DEF Bindings
  <2>2. given[i] \in 1 .. saved
    BY DEF Counter
  <2> QED
    BY <2>1, <2>2
<1>3. ASSUME NEW n, OnlyDir(n), given' = given, bound' = bound,
             dirs'[n].id = 0 \/ (dirs'[n].id = dirs[n].id /\ dirs'[n].birth = dirs[n].birth)
      PROVE  Bindings'
  BY <1>2, <1>3 DEF OnlyDir, Bindings
<1>4. ASSUME NEW n, OnlyDir(n), Gives(dirs'[n].id), bound' = bound
      PROVE  Bindings'
  <2> SUFFICES ASSUME NEW d \in Clients, NEW m \in Names
               PROVE  /\ \E i \in DOMAIN given' : given'[i] = bound[d][m].id
                      /\ bound[d][m].id = dirs'[m].id => bound[d][m].birth = dirs'[m].birth
    BY <1>4 DEF Bindings
  <2>1. PICK i \in DOMAIN given : given[i] = bound[d][m].id
    BY DEF Bindings
  <2>2. i \in DOMAIN given' /\ given'[i] = bound[d][m].id
    BY <1>4, <2>1 DEF Gives
  <2>3. bound[d][m].id < dirs'[n].id /\ bound[d][m].id \in Nat /\ dirs'[n].id \in Nat
    BY <1>4, <2>1 DEF Gives, TypeOK
  <2>4. CASE m = n
    BY <2>2, <2>3, <2>4
  <2>5. CASE m # n
    BY <1>4, <2>2, <2>5 DEF OnlyDir, Bindings
  <2> QED
    BY <2>4, <2>5
<1>5. ASSUME NEW c \in Clients, CreateDir(c) \/ NewServer(c) \/ RenameAway(c)
      PROVE  Bindings'
  <2>1. given' = given /\ bound' = bound
    BY <1>5 DEF CreateDir, NewServer, RenameAway
  <2> QED
    BY <1>3, <1>5, <2>1, CreateDirSets, NewServerSets, RenameAwaySets DEF DirIs
<1>6. ASSUME NEW c \in Clients, AssignId(c)
      PROVE  Bindings'
  <2>1. bound' = bound
    BY <1>6 DEF AssignId
  <2> QED
    BY <1>4, <1>6, <2>1, AssignIdSets, AssignIdGives DEF DirIs
<1>7. ASSUME NEW n \in Names, AssignMissing(n)
      PROVE  Bindings'
  <2>1. bound' = bound
    BY <1>7 DEF AssignMissing
  <2> QED
    BY <1>4, <1>7, <2>1, AssignMissingSets, AssignMissingGives DEF DirIs
<1>8. ASSUME NEW c \in Clients, Resolve(c)
      PROVE  Bindings'
  <2> DEFINE n == clients[c].name
  <2>1. n \in Names /\ dirs[n].id # 0
    BY <1>8 DEF Resolve, Holding, Phases, Told
  <2>2. \E i \in DOMAIN given : given[i] = dirs[n].id
    BY <2>1 DEF DirIds
  <2>3. /\ bound'[c][n] = [id |-> dirs[n].id, birth |-> dirs[n].birth]
        /\ \A d \in Clients, m \in Names : d # c \/ m # n => bound'[d][m] = bound[d][m]
    BY <1>8, <2>1 DEF Resolve, TypeOK
  <2>4. dirs' = dirs /\ given' = given
    BY <1>8 DEF Resolve, disk
  <2> HIDE DEF n
  <2> QED
    BY <2>2, <2>3, <2>4 DEF Bindings
<1>9. ASSUME NEW c \in Clients,
             Quiet(c) \/ ReserveId(c) \/ Insert(c) \/ TakeOut(c) \/ RenameFails(c)
      PROVE  Bindings'
  BY <1>1, <1>9, KeepsDirs, QuietSteps DEF ReserveId, Insert, TakeOut, RenameFails
<1>10. CASE Crash \/ Restart \/ Serve \/ UNCHANGED vars
  BY <1>1, <1>10 DEF Crash, Restart, Serve, vars, disk
<1> QED
  BY <1>5, <1>6, <1>7, <1>8, <1>9, <1>10 DEF Next, Step, Quiet

-----------------------------------------------------------------------------
(***************************************************************************)
(* The requests.                                                           *)
(***************************************************************************)

\* A request that holds the map's lock is the only one that does.
LEMMA OneHolder ==
  ASSUME Inv, NEW c \in Clients
  PROVE  /\ mutex = Nobody => clients[c].pc \notin Locked
         /\ \A d \in Clients : mutex = c /\ d # c => clients[d].pc \notin Locked
  BY DatabasesAssumption DEF Inv, TypeOK, MutexOK

LEMMA NextRunsOnBound ==
  ASSUME Inv, [Next]_vars
  PROVE  RunsOnBound'
<1> USE DEF Inv
<1> DEFINE Good(d) == /\ Uses(d) \subseteq named
                      /\ clients[d].pc = "run" /\ clients[d].kind \in Guarded =>
                           \A n \in Range(clients[d].need) : dirs[n].birth = bound[d][n].birth
<1>0. SUFFICES ASSUME NEW d \in Clients PROVE Good(d)'
  BY DEF RunsOnBound
<1>1. Good(d)
  BY DEF RunsOnBound
<1>2. ASSUME clients'[d] = clients[d], named \subseteq named', bound'[d] = bound[d],
             \A n \in named : dirs'[n].birth = dirs[n].birth
      PROVE  Good(d)'
  BY <1>1, <1>2 DEF Uses
<1>3. ASSUME clients'[d].pc \notin {"gates", "run"}
      PROVE  Good(d)'
  BY <1>3 DEF Uses
<1>4. ASSUME NEW c \in Clients, Quiet(c)
      PROVE  Good(d)'
  <2>1. UNCHANGED <<dirs, named, bound>>
    BY <1>4, QuietSteps
  <2>2. CASE clients'[d] = clients[d]
    BY <1>2, <2>1, <2>2
  <2>3. CASE Submit(c)
    <3>1. c = d => clients'[d].pc = "queue"
      BY <2>3 DEF Submit, TypeOK
    <3>2. c # d => clients'[d] = clients[d]
      BY <2>3 DEF Submit, TypeOK
    <3> QED
      BY <1>3, <2>2, <3>1, <3>2
  <2>4. CASE Reject(c) \/ Sweep(c) \/ GuardFails(c) \/ Run(c)
    <3>1. Answered(c)
      BY <2>4, Answering DEF Reject, Sweep, GuardFails, Run
    <3> QED
      BY <1>3, <2>2, <3>1 DEF Answered, Others
  <2>5. CASE ResolveLock(c)
    <3>1. Moved(c, "peek")
      BY <2>5, Moving DEF ResolveLock, Locked
    <3> QED
      BY <1>3, <2>2, <3>1 DEF Moved, Others
  <2>6. CASE Select(c)
    <3>1. Moved(c, "gates")
      BY <2>6, Moving DEF Select
    <3>2. Range(clients[c].need) \subseteq named
      BY <2>6 DEF Select, At, Working, Guarded, Rejected
    <3>3. CASE d = c
      BY <2>1, <3>1, <3>2, <3>3 DEF Moved, Uses
    <3> QED
      BY <2>2, <3>1, <3>3 DEF Moved, Others
  <2>7. CASE Validate(c)
    <3>1. Moved(c, "run")
      BY <2>7, Moving DEF Validate
    <3>2. CASE d = c
      <4>1. Range(clients[c].need) \subseteq named
        BY <1>1, <2>7, <3>2 DEF Validate, At, Uses
      <4>2. clients[c].kind \in Guarded =>
              \A n \in Range(clients[c].need) : dirs[n].birth = bound[c][n].birth
        <5> SUFFICES ASSUME clients[c].kind \in Guarded, NEW n \in Range(clients[c].need)
                     PROVE  dirs[n].birth = bound[c][n].birth
          OBVIOUS
        <5>1. dirs[n].id = bound[c][n].id /\ n \in Names
          BY <2>7, <4>1 DEF Validate, Fits, TypeOK, DirsOK, Loadable
        <5> QED
          BY <5>1 DEF Bindings
      <4> QED
        BY <2>1, <3>1, <3>2, <4>1, <4>2 DEF Moved, Uses
    <3> QED
      BY <2>2, <3>1, <3>2 DEF Moved, Others
  <2>8. CASE Acquire(c) \/ Park(c)
    BY <2>2, <2>8 DEF Acquire, Park
  <2> QED
    BY <1>4, <2>3, <2>4, <2>5, <2>6, <2>7, <2>8 DEF Quiet
<1>5. ASSUME NEW c \in Clients, CreateDir(c) \/ NewServer(c) \/ AssignId(c) \/ RenameAway(c)
      PROVE  Good(d)'
  <2>1. named' = named /\ bound' = bound
    BY <1>5 DEF CreateDir, NewServer, AssignId, RenameAway
  <2>2. clients[c].name \notin named
    BY <1>5 DEF CreateDir, NewServer, AssignId, RenameAway, At, Rejected, Holding, Phases, Creating
  <2>3. OnlyDir(clients[c].name)
    BY <1>5, CreateDirSets, NewServerSets, AssignIdSets, RenameAwaySets DEF DirIs
  <2>4. \A n \in named : dirs'[n].birth = dirs[n].birth
    BY <2>2, <2>3 DEF OnlyDir, TypeOK, DirsOK, Loadable
  <2>5. \E pc \in Locked : Goto(c, pc)
    BY <1>5 DEF CreateDir, NewServer, AssignId, RenameAway, Locked
  <2>6. PICK pc \in Locked : Moved(c, pc)
    BY <2>5, Moving
  <2> QED
    BY <1>2, <1>3, <2>1, <2>4, <2>6 DEF Moved, Others, Locked
<1>6. ASSUME NEW c \in Clients, Insert(c) \/ RenameFails(c)
      PROVE  Good(d)'
  <2>1. Answered(c) /\ bound' = bound /\ dirs' = dirs /\ named \subseteq named'
    BY <1>6, Answering DEF Insert, RenameFails, disk
  <2> QED
    BY <1>2, <1>3, <2>1 DEF Answered, Others
<1>7. ASSUME NEW c \in Clients, Resolve(c)
      PROVE  Good(d)'
  <2>1. Answered(c) /\ dirs' = dirs /\ named' = named
    BY <1>7, Answering DEF Resolve, disk
  <2>2. d # c => bound'[d] = bound[d]
    BY <1>7 DEF Resolve, TypeOK
  <2> QED
    BY <1>2, <1>3, <2>1, <2>2 DEF Answered, Others
<1>8. ASSUME NEW c \in Clients, TakeOut(c)
      PROVE  Good(d)'
  <2>1. Moved(c, "rename") /\ dirs' = dirs /\ bound' = bound
    BY <1>8, Moving DEF TakeOut, disk, Locked
  <2>2. named' = named \ {clients[c].name} /\ ~ InUse(clients[c].name)
    BY <1>8 DEF TakeOut, At, Rejected
  <2>3. clients[c].name \notin Uses(d)
    BY <2>2 DEF InUse
  <2>4. CASE d # c
    <3>1. clients'[d] = clients[d]
      BY <2>1, <2>4 DEF Moved, Others
    <3> QED
      BY <1>1, <2>1, <2>2, <2>3, <3>1 DEF Uses
  <2> QED
    BY <1>3, <2>1, <2>4 DEF Moved
<1>9. ASSUME NEW c \in Clients, ReserveId(c)
      PROVE  Good(d)'
  <2>1. d # c => clients'[d] = clients[d]
    BY <1>9 DEF ReserveId, TypeOK
  <2>2. d = c => clients'[d].pc = "assign"
    <3>1. clients[c] \in ClientStates
      BY DEF TypeOK
    <3> QED
      BY <1>9, <3>1 DEF ReserveId, TypeOK, ClientStates
  <2>3. UNCHANGED <<dirs, named, bound>>
    BY <1>9 DEF ReserveId
  <2> QED
    BY <1>2, <1>3, <2>1, <2>2, <2>3
<1>10. CASE Crash
  BY <1>3, <1>10 DEF Crash, NoRequest
<1>11. CASE Restart \/ \E n \in Names : AssignMissing(n)
  <2>1. clients' = clients /\ clients[d].pc = "idle"
    BY <1>11 DEF Restart, AssignMissing, TypeOK, MutexOK
  <2> QED
    BY <1>3, <2>1
<1>12. CASE Serve \/ UNCHANGED vars
  BY <1>2, <1>12 DEF Serve, vars, disk
<1> QED
  BY <1>4, <1>5, <1>6, <1>7, <1>8, <1>9, <1>10, <1>11, <1>12 DEF Next, Step, Quiet

LEMMA NextPhases ==
  ASSUME Inv, [Next]_vars
  PROVE  Phases'
<1> USE DEF Inv
<1> DEFINE
      Knows(d) ==
        LET r == clients[d] IN
        /\ r.pc # "idle" => r.name \in Names
        /\ r.pc \in Creating =>
               r.name \notin named /\ acked[r.name] = 0 /\ dirs[r.name].birth # 0
        /\ r.pc \in {"reserve", "assign", "insert"} => dirs[r.name].catalog
        /\ r.pc = "assign" => r.id = high /\ r.id # 0 /\ \A i \in DOMAIN given : given[i] < r.id
        /\ r.pc = "insert" => dirs[r.name].id # 0
        /\ r.pc = "rename" => r.name \notin named /\ acked[r.name] # 0
        /\ r.pc = "sweep" => r.name \notin named
        /\ r.pc = "peek" => r.name \in named
<1>0. SUFFICES ASSUME NEW d \in Clients PROVE Knows(d)'
  BY DEF Phases
<1>1. Knows(d)
  BY DEF Phases
<1>2. ASSUME clients'[d] = clients[d], UNCHANGED <<named, acked, dirs, high, given>>
      PROVE  Knows(d)'
  BY <1>1, <1>2
<1>3. ASSUME clients'[d] = clients[d], clients[d].pc \notin Locked
      PROVE  Knows(d)'
  BY <1>1, <1>3 DEF Locked, Creating
<1>4. ASSUME clients'[d].pc = "idle"
      PROVE  Knows(d)'
  BY <1>4 DEF Creating
<1>5. ASSUME clients'[d].pc \in {"queue", "gates", "run"}, clients'[d].name \in Names
      PROVE  Knows(d)'
  BY <1>5 DEF Creating
<1>6. ASSUME NEW c \in Clients, Quiet(c)
      PROVE  Knows(d)'
  <2>1. UNCHANGED <<named, acked, dirs, high, given>>
    BY <1>6, QuietSteps
  <2>2. CASE clients'[d] = clients[d]
    BY <1>2, <2>1, <2>2
  <2>3. CASE Submit(c)
    <3>1. c = d => clients'[d].pc = "queue" /\ clients'[d].name \in Names
      BY <2>3 DEF Submit, TypeOK, Requests
    <3>2. c # d => clients'[d] = clients[d]
      BY <2>3 DEF Submit, TypeOK
    <3> QED
      BY <1>5, <2>2, <3>1, <3>2
  <2>4. CASE Reject(c) \/ Sweep(c) \/ GuardFails(c) \/ Run(c)
    <3>1. Answered(c)
      BY <2>4, Answering DEF Reject, Sweep, GuardFails, Run
    <3> QED
      BY <1>4, <2>2, <3>1 DEF Answered, Others
  <2>5. CASE ResolveLock(c)
    <3>1. Moved(c, "peek")
      BY <2>5, Moving DEF ResolveLock, Locked
    <3>2. clients[c].name \in Names /\ clients[c].name \in named
      BY <2>5 DEF ResolveLock, At, Phases, Rejected
    <3>3. CASE d = c
      BY <2>1, <3>1, <3>2, <3>3 DEF Moved, Creating
    <3> QED
      BY <2>2, <3>1, <3>3 DEF Moved, Others
  <2>6. CASE Select(c) \/ Validate(c)
    <3>1. \E pc \in {"gates", "run"} : Goto(c, pc)
      BY <2>6 DEF Select, Validate
    <3>2. PICK pc \in {"gates", "run"} : Moved(c, pc)
      BY <3>1, Moving
    <3>3. clients[c].name \in Names
      BY <2>6 DEF Select, Validate, At, Phases
    <3> QED
      BY <1>5, <2>2, <3>2, <3>3 DEF Moved, Others
  <2>7. CASE Acquire(c) \/ Park(c)
    BY <2>2, <2>7 DEF Acquire, Park
  <2> QED
    BY <1>6, <2>3, <2>4, <2>5, <2>6, <2>7 DEF Quiet
<1>7. ASSUME NEW c \in Clients, mutex = c \/ mutex = Nobody, Others(c), d # c
      PROVE  Knows(d)'
  BY <1>3, <1>7, OneHolder DEF Others
<1>8. ASSUME NEW c \in Clients, CreateDir(c)
      PROVE  Knows(d)'
  <2>1. Moved(c, "new") /\ mutex = Nobody
    BY <1>8, Moving DEF CreateDir, Locked
  <2>2. CASE d = c
    <3> DEFINE n == clients[c].name
    <3>1. n \in Names /\ n \notin named /\ dirs[n] = NoDir
      BY <1>8 DEF CreateDir, At, Rejected, Phases
    <3>2. acked[n] = 0
      BY <3>1 DEF Told, NoDir
    <3>3. dirs'[n].birth = births + 1 /\ births \in Nat
      BY <1>8, CreateDirSets DEF DirIs, TypeOK, DirsOK
    <3>4. named' = named /\ acked' = acked
      BY <1>8 DEF CreateDir
    <3> QED
      BY <2>1, <2>2, <3>1, <3>2, <3>3, <3>4 DEF Moved
  <2> QED
    BY <1>7, <2>1, <2>2 DEF Moved
<1>9. ASSUME NEW c \in Clients, NewServer(c)
      PROVE  Knows(d)'
  <2>1. Moved(c, "reserve") /\ mutex = c
    BY <1>9, Moving DEF NewServer, Holding, Locked
  <2>2. CASE d = c
    <3>1. named' = named /\ acked' = acked
      BY <1>9 DEF NewServer
    <3>2. clients[c].pc = "new"
      BY <1>9 DEF NewServer, Holding
    <3> QED
      BY <1>1, <1>9, <2>1, <2>2, <3>1, <3>2, NewServerSets DEF Moved, DirIs, Creating
  <2> QED
    BY <1>7, <2>1, <2>2 DEF Moved
<1>10. ASSUME NEW c \in Clients, ReserveId(c)
       PROVE  Knows(d)'
  <2>1. clients[c] \in ClientStates /\ high \in Nat
    BY DEF TypeOK
  <2>2. Others(c) /\ clients'[c] = [clients[c] EXCEPT !.pc = "assign", !.id = high + 1]
    BY <1>10, <2>1 DEF ReserveId, TypeOK, Others, ClientStates
  <2>3. mutex = c /\ clients[c].pc = "reserve" /\ mode = "up"
    BY <1>10 DEF ReserveId, Holding
  <2>4. CASE d = c
    <3>1. /\ clients'[c].pc = "assign" /\ clients'[c].name = clients[c].name
          /\ clients'[c].id = high + 1
      BY <2>1, <2>2 DEF ClientStates
    <3>2. UNCHANGED <<named, acked, dirs, given>> /\ high' = high + 1
      BY <1>10 DEF ReserveId
    <3>3. \A i \in DOMAIN given : given[i] < high + 1
      BY <2>1, <2>3 DEF Counter
    <3> QED
      BY <1>1, <2>1, <2>3, <2>4, <3>1, <3>2, <3>3 DEF Creating
  <2> QED
    BY <1>7, <2>2, <2>3, <2>4
<1>11. ASSUME NEW c \in Clients, AssignId(c)
       PROVE  Knows(d)'
  <2>1. Moved(c, "insert") /\ mutex = c /\ clients[c].pc = "assign"
    BY <1>11, Moving DEF AssignId, Holding, Locked
  <2>2. CASE d = c
    <3>1. named' = named /\ acked' = acked
      BY <1>11 DEF AssignId
    <3> QED
      BY <1>1, <1>11, <2>1, <2>2, <3>1, AssignIdSets DEF Moved, DirIs, Creating
  <2> QED
    BY <1>7, <2>1, <2>2 DEF Moved
<1>12. ASSUME NEW c \in Clients, Insert(c) \/ RenameFails(c) \/ Resolve(c)
       PROVE  Knows(d)'
  <2>1. Answered(c) /\ mutex = c
    BY <1>12, Answering DEF Insert, RenameFails, Resolve, Holding
  <2> QED
    BY <1>4, <1>7, <2>1 DEF Answered
<1>13. ASSUME NEW c \in Clients, TakeOut(c)
       PROVE  Knows(d)'
  <2>1. Moved(c, "rename") /\ mutex = Nobody
    BY <1>13, Moving DEF TakeOut, Locked
  <2>2. CASE d = c
    <3>1. /\ clients[c].name \in Names /\ acked[clients[c].name] # 0
          /\ named' = named \ {clients[c].name} /\ acked' = acked
      BY <1>13 DEF TakeOut, At, Rejected, Phases, Told
    <3> QED
      BY <2>1, <2>2, <3>1 DEF Moved, Creating
  <2> QED
    BY <1>7, <2>1, <2>2 DEF Moved
<1>14. ASSUME NEW c \in Clients, RenameAway(c)
       PROVE  Knows(d)'
  <2>1. Moved(c, "sweep") /\ mutex = c /\ clients[c].pc = "rename" /\ named' = named
    BY <1>14, Moving DEF RenameAway, Holding, Locked
  <2>2. CASE d = c
    BY <1>1, <2>1, <2>2 DEF Moved, Creating
  <2> QED
    BY <1>7, <2>1, <2>2 DEF Moved
<1>15. CASE Crash
  BY <1>4, <1>15 DEF Crash, NoRequest
<1>16. CASE Restart \/ Serve \/ \E n \in Names : AssignMissing(n)
  <2>1. clients' = clients /\ clients[d].pc = "idle"
    BY <1>16 DEF Restart, Serve, AssignMissing, TypeOK, MutexOK
  <2> QED
    BY <1>4, <2>1
<1>17. CASE UNCHANGED vars
  BY <1>2, <1>17 DEF vars, disk
<1> QED
  BY <1>6, <1>8, <1>9, <1>10, <1>11, <1>12, <1>13, <1>14, <1>15, <1>16, <1>17
     DEF Next, Step, Quiet

\* The directories of the databases the clients were told of.
LEMMA NextTold ==
  ASSUME Inv, [Next]_vars
  PROVE  Told'
<1> USE DEF Inv
<1>1. CASE UNCHANGED <<acked, dirs, named, mode>> /\
           \A d \in Clients : /\ clients[d].pc = "rename" => clients'[d] = clients[d]
                              /\ clients'[d].pc = "rename" => clients[d].pc = "rename"
  BY <1>1 DEF Told, Loadable
<1>2. ASSUME NEW c \in Clients, Others(c), clients[c].pc # "rename"
      PROVE  \A d \in Clients : clients[d].pc = "rename" => clients'[d] = clients[d]
  BY <1>2 DEF Others
<1>3. ASSUME NEW c \in Clients, mutex \in {c, Nobody}, clients[c].pc # "rename"
      PROVE  \A d \in Clients : clients[d].pc # "rename"
  BY <1>3, OneHolder DEF Locked
<1>4. ASSUME NEW c \in Clients, Quiet(c)
      PROVE  Told'
  <2>1. UNCHANGED <<acked, dirs, named, mode>> /\ mode = "up"
    BY <1>4, QuietSteps DEF Quiet, Submit, Reject, Sweep, ResolveLock, Select, Acquire, Park,
       Validate, GuardFails, Run, At, Holding
  <2>2. Others(c) /\ clients[c].pc # "rename"
    <3>1. CASE Submit(c)
      BY <3>1 DEF Submit, Others, TypeOK
    <3>2. CASE Reject(c) \/ Sweep(c) \/ GuardFails(c) \/ Run(c)
      BY <3>2, Answering DEF Answered, Reject, Sweep, GuardFails, Run, At, Holding
    <3>3. CASE ResolveLock(c) \/ Select(c) \/ Validate(c)
      BY <3>3, Moving DEF Moved, ResolveLock, Select, Validate, At, Locked
    <3>4. CASE Acquire(c) \/ Park(c)
      BY <3>4 DEF Acquire, Park, At, Others
    <3> QED
      BY <1>4, <3>1, <3>2, <3>3, <3>4 DEF Quiet
  <2> QED
    BY <1>2, <2>1, <2>2 DEF Told
<1>5. ASSUME NEW c \in Clients, CreateDir(c) \/ NewServer(c) \/ AssignId(c)
      PROVE  Told'
  <2> DEFINE n == clients[c].name
  <2>1. UNCHANGED <<acked, named, mode>> /\ mode = "up" /\ mutex \in {c, Nobody}
                /\ clients[c].pc # "rename"
    BY <1>5 DEF CreateDir, NewServer, AssignId, At, Holding
  <2>2. OnlyDir(n) /\ dirs'[n].birth # 0
    <3>1. CASE CreateDir(c)
      BY <3>1, CreateDirSets DEF DirIs, TypeOK, DirsOK
    <3>2. CASE NewServer(c) \/ AssignId(c)
      BY <3>2, NewServerSets, AssignIdSets DEF DirIs, NewServer, AssignId, Holding, Phases, Creating
    <3> QED
      BY <1>5, <3>1, <3>2
  <2>3. n \notin named /\ acked[n] = 0
    <3>1. CASE CreateDir(c)
      BY <3>1 DEF CreateDir, At, Rejected, Phases, Told, NoDir
    <3> QED
      BY <1>5, <3>1 DEF NewServer, AssignId, Holding, Phases, Creating
  <2>4. \A m \in Names : acked[m] # 0 <=> m \in named
    BY <1>3, <2>1 DEF Told
  <2> HIDE DEF n
  <2> QED
    BY <2>1, <2>2, <2>3, <2>4 DEF Told, OnlyDir
<1>6. ASSUME NEW c \in Clients, Insert(c)
      PROVE  Told'
  <2> DEFINE n == clients[c].name
  <2>1. mode' = "up" /\ mode = "up" /\ mutex = c /\ clients[c].pc = "insert" /\ dirs' = dirs
    BY <1>6 DEF Insert, Holding, disk
  <2>2. n \in Names /\ dirs[n].birth # 0 /\ dirs[n].id # 0
    BY <2>1 DEF Phases, Creating
  <2>3. acked'[n] = dirs[n].birth /\ \A m \in Names \ {n} : acked'[m] = acked[m]
    BY <1>6, <2>2 DEF Insert, TypeOK
  <2>4. named' = named \cup {n}
    BY <1>6 DEF Insert
  <2>5. \A m \in Names : acked[m] # 0 <=> m \in named
    BY <1>3, <2>1 DEF Told
  <2> HIDE DEF n
  <2> QED
    BY <2>1, <2>2, <2>3, <2>4, <2>5 DEF Told
<1>7. ASSUME NEW c \in Clients, TakeOut(c)
      PROVE  Told'
  <2> DEFINE n == clients[c].name
  <2>1. /\ mode = "up" /\ mutex = Nobody /\ clients[c].pc # "rename"
        /\ UNCHANGED <<acked, dirs, mode>> /\ named' = named \ {n}
    BY <1>7 DEF TakeOut, At, disk
  <2>2. clients'[c].pc = "rename" /\ clients'[c].name = n
    BY <1>7, Moving DEF TakeOut, Moved, Locked
  <2>3. \A m \in Names : acked[m] # 0 <=> m \in named
    BY <1>3, <2>1 DEF Told
  <2> HIDE DEF n
  <2> QED
    BY <2>1, <2>2, <2>3 DEF Told
<1>8. ASSUME NEW c \in Clients, RenameAway(c) \/ RenameFails(c)
      PROVE  \A m \in Names : acked[m] # 0 => m \in named \/ m = clients[c].name
  <2>1. mode = "up" /\ mutex = c
    BY <1>8 DEF RenameAway, RenameFails, Holding
  <2> QED
    BY <2>1, OneHolder DEF Told, Locked
<1>9. ASSUME NEW c \in Clients, RenameAway(c)
      PROVE  Told'
  <2> DEFINE n == clients[c].name
  <2>1. mode' = "up" /\ mode = "up" /\ named' = named /\ n \notin named
    BY <1>9 DEF RenameAway, Holding, Phases
  <2>2. OnlyDir(n) /\ ~ dirs'[n].catalog
    BY <1>9, RenameAwaySets DEF DirIs
  <2>3. acked'[n] = 0 /\ \A m \in Names \ {n} : acked'[m] = acked[m]
    BY <1>9, <2>2 DEF RenameAway, TypeOK, OnlyDir
  <2>4. \A m \in Names : acked[m] # 0 => m \in named \/ m = n
    BY <1>8, <1>9
  <2> HIDE DEF n
  <2> QED
    BY <2>1, <2>2, <2>3, <2>4 DEF Told, OnlyDir
<1>10. ASSUME NEW c \in Clients, RenameFails(c)
       PROVE  Told'
  <2>1. /\ mode' = "up" /\ mode = "up" /\ named' = named \cup {clients[c].name}
        /\ clients[c].name \in Names /\ acked[clients[c].name] # 0
        /\ dirs' = dirs /\ acked' = acked
    BY <1>10 DEF RenameFails, Holding, Phases, disk
  <2> QED
    BY <1>8, <1>10, <2>1 DEF Told
<1>11. ASSUME NEW c \in Clients, ReserveId(c)
       PROVE  Told'
  <2>1. /\ UNCHANGED <<acked, dirs, named, mode>> /\ mode = "up" /\ mutex = c
        /\ clients[c].pc # "rename"
    BY <1>11 DEF ReserveId, Holding
  <2>2. \A m \in Names : acked[m] # 0 <=> m \in named
    BY <1>3, <2>1 DEF Told
  <2> QED
    BY <2>1, <2>2 DEF Told
<1>12. ASSUME NEW c \in Clients, Resolve(c)
       PROVE  Told'
  <2>1. /\ UNCHANGED <<acked, dirs, named, mode>> /\ mode = "up" /\ mutex = c
        /\ clients[c].pc # "rename"
    BY <1>12 DEF Resolve, Holding, disk
  <2>2. \A m \in Names : acked[m] # 0 <=> m \in named
    BY <1>3, <2>1 DEF Told
  <2> QED
    BY <2>1, <2>2 DEF Told
<1>13. CASE Crash
  BY <1>13 DEF Crash, disk, Told
<1>14. CASE Restart
  BY <1>14 DEF Restart, Told, Loadable
<1>15. ASSUME NEW n \in Names, AssignMissing(n)
       PROVE  Told'
  <2>1. mode = "assign" /\ mode' = mode /\ named' = named /\ acked' = acked /\ dirs[n].id = 0
    BY <1>15 DEF AssignMissing
  <2>2. OnlyDir(n) /\ dirs'[n].birth = dirs[n].birth /\ (dirs'[n].catalog <=> dirs[n].catalog)
    BY <1>15, AssignMissingSets DEF DirIs
  <2>3. Loadable' = Loadable
    BY <2>2 DEF Loadable, OnlyDir
  <2>4. acked[n] = 0
    BY <2>1 DEF Told
  <2> QED
    BY <2>1, <2>2, <2>3, <2>4 DEF Told, OnlyDir
<1>16. CASE Serve
  <2>1. /\ mode = "assign" /\ mode' = "up" /\ UNCHANGED <<dirs, named>>
        /\ \A n \in named : dirs[n].id # 0
        /\ \A n \in Names : acked'[n] = IF n \in named THEN dirs[n].birth ELSE acked[n]
    BY <1>16 DEF Serve, disk
  <2>2. \A n \in Names : acked[n] # 0 => n \in named
    BY <2>1 DEF Told, TypeOK, DirsOK, Loadable
  <2>3. \A n \in named : n \in Names /\ dirs[n].catalog
    BY DEF TypeOK, DirsOK, Loadable
  <2> QED
    BY <2>1, <2>2, <2>3 DEF Told
<1>17. CASE UNCHANGED vars
  BY <1>1, <1>17 DEF vars, disk
<1> QED
  BY <1>4, <1>5, <1>6, <1>7, <1>9, <1>10, <1>11, <1>12, <1>13, <1>14, <1>15, <1>16, <1>17
     DEF Next, Step, Quiet

-----------------------------------------------------------------------------
(***************************************************************************)
(* The theorems.                                                           *)
(***************************************************************************)

LEMMA InitInv == Init => Inv
<1> SUFFICES ASSUME Init PROVE Inv
  OBVIOUS
<1>1. births \in Nat /\ high = births + 1 /\ saved = high
  BY DatabasesAssumption, FS_CardinalityType DEF Init
<1>2. PICK Nth \in [Names -> 1 .. births] :
        /\ IsInjective(Nth)
        /\ dirs = [n \in Names |-> [catalog |-> TRUE, id |-> Nth[n] + 1, birth |-> Nth[n]]]
        /\ acked = Nth
  BY DEF Init
<1>3. \A n \in Names : /\ Nth[n] \in 1 .. births /\ acked[n] = Nth[n]
                       /\ dirs[n].catalog /\ dirs[n].id = Nth[n] + 1 /\ dirs[n].birth = Nth[n]
                       /\ dirs[n].id \in Nat /\ dirs[n].birth \in Nat
  BY <1>1, <1>2
<1>4. dirs \in [Names -> Directories]
  BY <1>1, <1>2 DEF Directories
<1>5. /\ given \in Seq(Nat) /\ DOMAIN given = 1 .. high
      /\ \A i \in 1 .. high : given[i] = i
  BY <1>1 DEF Init
<1>6. \A c \in Clients : clients[c].pc = "idle"
  BY DEF Init, NoRequest
<1>7. \A c \in Clients, n \in Names :
        bound[c][n] = [id |-> dirs[n].id, birth |-> dirs[n].birth]
  BY DEF Init
<1>8. named = Names /\ mutex = Nobody /\ mode = "up"
  BY DEF Init
<1>9. TypeOK
  <2>1. DirsOK
    BY <1>1, <1>3, <1>4, <1>8 DEF DirsOK, Loadable
  <2>2. GatesOK
    <3>1. FreeGate \in Gates
      BY DEF FreeGate, Gates
    <3> QED
      BY <3>1 DEF Init, GatesOK, FreeGate
  <2>3. MutexOK
    BY <1>6, <1>8, DatabasesAssumption DEF MutexOK, Locked
  <2>4. clients \in [Clients -> ClientStates]
    <3>1. NoRequest \in ClientStates
      BY DEF NoRequest, ClientStates
    <3> QED
      BY <3>1 DEF Init
  <2>5. bound \in [Clients -> [Names -> [id : Nat, birth : Nat]]]
    <3>1. \A n \in Names : [id |-> dirs[n].id, birth |-> dirs[n].birth] \in [id : Nat, birth : Nat]
      BY <1>3
    <3> QED
      BY <3>1 DEF Init
  <2>6. acked \in [Names -> Nat] /\ requests = 0 /\ faults = 0
    BY <1>1, <1>2 DEF Init
  <2> QED
    BY <1>1, <1>5, <1>8, <2>1, <2>2, <2>3, <2>4, <2>5, <2>6 DEF TypeOK
<1>10. Phases
  BY <1>6 DEF Phases, Creating
<1>11. Counter
  BY <1>1, <1>5 DEF Counter
<1>12. \A n \in Names : dirs[n].id \in DOMAIN given /\ given[dirs[n].id] = dirs[n].id
  BY <1>1, <1>3, <1>5
<1>13. DirIds
  <2>1. \A m, n \in Names : dirs[m].id = dirs[n].id => m = n
    <3> SUFFICES ASSUME NEW m \in Names, NEW n \in Names, dirs[m].id = dirs[n].id
                 PROVE  m = n
      OBVIOUS
    <3>1. Nth[m] + 1 = Nth[n] + 1 /\ Nth[m] \in Nat /\ Nth[n] \in Nat
      BY <1>3, <1>1
    <3>2. Nth[m] = Nth[n]
      BY <3>1
    <3> QED
      BY <1>2, <3>2 DEF IsInjective
  <2> QED
    BY <1>12, <2>1 DEF DirIds
<1>14. Bindings
  <2>1. \A c \in Clients, n \in Names :
          bound[c][n].id = dirs[n].id /\ bound[c][n].birth = dirs[n].birth
    <3> TAKE c \in Clients, n \in Names
    <3> DEFINE known == [id |-> dirs[n].id, birth |-> dirs[n].birth]
    <3>1. bound[c][n] = known
      BY <1>7
    <3>2. known.id = dirs[n].id /\ known.birth = dirs[n].birth
      OBVIOUS
    <3> HIDE DEF known
    <3> QED
      BY <3>1, <3>2
  <2> QED
    BY <1>12, <2>1 DEF Bindings
<1>15. Told
  BY <1>1, <1>3, <1>8 DEF Told
<1>16. IdsNeverReused
  BY <1>5 DEF IdsNeverReused, IsInjective
<1>17. RunsOnBound
  BY <1>6 DEF RunsOnBound, Uses
<1> QED
  BY <1>9, <1>10, <1>11, <1>13, <1>14, <1>15, <1>16, <1>17 DEF Inv

LEMMA NextInv == Inv /\ [Next]_vars => Inv'
  BY NextTypeOK, NextPhases, NextCounter, NextDirIds, NextBindings, NextTold,
     NextIdsNeverReused, NextRunsOnBound DEF Inv

LEMMA Inductive == Spec => []Inv
  BY InitInv, NextInv, PTL DEF Spec

\* Type correctness: the map's lock has one holder, between its own steps, a
\* gate has one writer or readers, and only directories with a catalog are open.
THEOREM TypeCorrect == Spec => []TypeOK
<1>1. Inv => TypeOK
  BY DEF Inv
<1> QED
  BY <1>1, Inductive, PTL

\* No two databases ever get the same id, whatever was dropped, however often
\* the process crashed between the steps of assign_database_id.
THEOREM IdsStayUnique == Spec => []IdsNeverReused
<1>1. Inv => IdsNeverReused
  BY DEF Inv
<1> QED
  BY <1>1, Inductive, PTL

\* A database that was acknowledged stays under its name until it is dropped,
\* and the open databases are the acknowledged ones when nobody holds the map.
THEOREM Durable == Spec => []AckedStay
<1>1. Inv => AckedStay
  <2> SUFFICES ASSUME Inv PROVE AckedStay
    OBVIOUS
  <2>1. \A n \in Names : acked[n] # 0 => dirs[n].birth = acked[n] /\ dirs[n].id # 0
    BY DEF Inv, Told
  <2>2. ASSUME mode = "up", mutex = Nobody
        PROVE  named = {n \in Names : acked[n] # 0}
    <3>1. \A c \in Clients : clients[c].pc # "rename"
      BY <2>2, OneHolder DEF Locked
    <3>2. named \subseteq Names
      BY DEF Inv, TypeOK, DirsOK, Loadable
    <3> QED
      BY <2>2, <3>1, <3>2 DEF Inv, Told
  <2> QED
    BY <2>1, <2>2 DEF AckedStay
<1> QED
  BY <1>1, Inductive, PTL

\* A request keeps the databases it selected, and a guarded one runs on the
\* databases its client resolved.
THEOREM RunsAsPlanned == Spec => []RunsOnBound
<1>1. Inv => RunsOnBound
  BY DEF Inv
<1> QED
  BY <1>1, Inductive, PTL

\* The check of Databases::new() for ids that occur twice never refuses a start:
\* no crash leaves two directories with the same id.
THEOREM StartsAgain ==
  Spec => [](\A m, n \in Loadable : m # n /\ dirs[m].id = dirs[n].id => dirs[m].id = 0)
<1>1. Inv => \A m, n \in Loadable : m # n /\ dirs[m].id = dirs[n].id => dirs[m].id = 0
  BY DEF Inv, DirIds, Loadable
<1> QED
  BY <1>1, Inductive, PTL

=============================================================================
