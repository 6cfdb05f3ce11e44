---------------------------- MODULE LockManager ----------------------------
(***************************************************************************)
(* What the row-lock table of chusql-core/storage/src/mvcc.rs promises,    *)
(* for any set of transactions and any set of keys: Mvcc implements it.    *)
(*                                                                         *)
(* The module keeps the control of lock(), lock_inner(), abort(), cycle(), *)
(* finish() and fail_all() and forgets what the keys stand for.  A request *)
(* wants a set of keys.  validate() may fail at any turn of its loop, and  *)
(* the order in which it takes the keys is left open.                      *)
(***************************************************************************)
EXTENDS Naturals, FiniteSets

CONSTANTS
    Tx,        \* transaction tokens
    Keys,      \* lock keys
    Shared     \* the keys requested in shared mode (Key::Table)

ASSUME SharedAssumption == Shared \subseteq Keys

VARIABLES
    status,    \* "none", "active", "aborted" or "ended"
    held,      \* keys held
    waiting,   \* the transactions a blocked request waits for
    pc,        \* lock request: "idle", "asleep" or "failed"
    wanted,    \* keys of the sleeping request
    notified   \* did the condition variable fire since it went to sleep?

vars == <<status, held, waiting, pc, wanted, notified>>

\* As Blockers, but an owner that is itself blocked does not count.
BlockersAwake(t, k) ==
    {o \in Tx \ {t} : /\ status[o] = "active" /\ k \in held[o] /\ k \notin Shared
                     /\ waiting[o] = {}}

\* Others that hold k in a conflicting mode.
Blockers(t, k) ==
    {o \in Tx \ {t} : status[o] = "active" /\ k \in held[o] /\ k \notin Shared}

\* t can be reached from itself along the wait edges W: every set closed under
\* W that holds the transactions t waits for holds t.
ClosedUnder(W, S) == \A o \in S : W[o] \subseteq S
OnCycle(W, t) ==
    \A S \in SUBSET Tx : W[t] \subseteq S /\ ClosedUnder(W, S) => t \in S

\* As Cycle, but only two transactions that wait for each other are found.
CycleOfTwo(W, t) == \E o \in W[t] : t \in W[o]

\* The search of cycle() from t comes back to t.
Cycle(W, t) == OnCycle(W, t)

\* Condvar::notify_all.
NotifyAll(p) == notified' = [o \in Tx |-> p[o] = "asleep"]

DropEdges(t) == waiting' = [o \in Tx |-> IF o = t THEN {} ELSE waiting[o] \ {t}]

Init ==
    /\ status = [t \in Tx |-> "none"]
    /\ held = [t \in Tx |-> {}]
    /\ waiting = [t \in Tx |-> {}]
    /\ pc = [t \in Tx |-> "idle"]
    /\ wanted = [t \in Tx |-> {}]
    /\ notified = [t \in Tx |-> FALSE]

Begin(t) ==
    /\ status[t] = "none"
    /\ status' = [status EXCEPT ![t] = "active"]
    /\ UNCHANGED <<held, waiting, pc, wanted, notified>>

\* The request stops running and forgets its keys.
EndRequest(t, state) ==
    /\ pc' = [pc EXCEPT ![t] = state]
    /\ wanted' = [wanted EXCEPT ![t] = {}]
    /\ notified' = [notified EXCEPT ![t] = FALSE]

\* Every key is free: the request is granted.
Grant(t, W) ==
    /\ EndRequest(t, "idle")
    /\ held' = [held EXCEPT ![t] = @ \cup W]
    /\ \A k \in W : Blockers(t, k) = {}
    /\ waiting' = [waiting EXCEPT ![t] = {}]
    /\ UNCHANGED status

\* validate() failed after some of the keys were taken.
Refuse(t, W) ==
    /\ EndRequest(t, "failed")
    /\ \E got \in SUBSET W :
          /\ \A k \in got : Blockers(t, k) = {}
          /\ held' = [held EXCEPT ![t] = @ \cup got]
    /\ waiting' \in {waiting, [waiting EXCEPT ![t] = {}]}
    /\ UNCHANGED status

\* Some of the keys were taken, another one is held by somebody: sleep, unless
\* that would close a cycle.
Sleep(t, W) ==
    /\ wanted' = [wanted EXCEPT ![t] = W]
    /\ \E got \in SUBSET W, stop \in W :
          /\ \A k \in got : Blockers(t, k) = {}
          /\ Blockers(t, stop) # {}
          /\ held' = [held EXCEPT ![t] = @ \cup got]
          /\ waiting' = [waiting EXCEPT ![t] = Blockers(t, stop)]
    /\ ~ Cycle(waiting', t)
    /\ pc' = [pc EXCEPT ![t] = "asleep"]
    /\ notified' = [notified EXCEPT ![t] = FALSE]
    /\ UNCHANGED status

\* Blocked on a cycle or past the deadline: abort() and notify_all.
GiveUp(t, W) ==
    /\ status' = [status EXCEPT ![t] = "aborted"]
    /\ \E stop \in W : Blockers(t, stop) # {}
    /\ held' = [held EXCEPT ![t] = {}]
    /\ DropEdges(t)
    /\ pc' = [pc EXCEPT ![t] = "idle"]
    /\ wanted' = [wanted EXCEPT ![t] = {}]
    /\ NotifyAll(pc')

LockLoop(t, W) == Grant(t, W) \/ Refuse(t, W) \/ Sleep(t, W) \/ GiveUp(t, W)

Lock(t, W) == pc[t] = "idle" /\ status[t] = "active" /\ LockLoop(t, W)

\* A request runs again after a notification or at its deadline; one whose
\* transaction ended or was aborted meanwhile returns an error.
Resume(t) ==
    /\ pc[t] = "asleep"
    /\ \/ status[t] = "active" /\ LockLoop(t, wanted[t])
       \/ /\ status[t] # "active" /\ notified[t]
          /\ EndRequest(t, "idle")
          /\ UNCHANGED <<status, held, waiting>>

\* As FailLock, but only the status changes.
FailLockKeepsLocks(t) ==
    /\ pc[t] = "failed"
    /\ status' = [status EXCEPT ![t] = IF @ = "active" THEN "aborted" ELSE @]
    /\ pc' = [pc EXCEPT ![t] = "idle"]
    /\ wanted' = [wanted EXCEPT ![t] = {}]
    /\ NotifyAll(pc')
    /\ UNCHANGED <<held, waiting>>

\* lock() aborts the transaction after a serialization failure.
FailLock(t) ==
    /\ pc[t] = "failed"
    /\ status' = [status EXCEPT ![t] = IF @ = "active" THEN "aborted" ELSE @]
    /\ held' = [held EXCEPT ![t] = {}]
    /\ DropEdges(t)
    /\ pc' = [pc EXCEPT ![t] = "idle"]
    /\ wanted' = [wanted EXCEPT ![t] = {}]
    /\ NotifyAll(pc')

\* As Finish, but without the notify_all.
FinishSilently(t) ==
    /\ status[t] \in {"active", "aborted"}
    /\ status' = [status EXCEPT ![t] = "ended"]
    /\ held' = [held EXCEPT ![t] = {}]
    /\ DropEdges(t)
    /\ UNCHANGED <<pc, wanted, notified>>

\* finish(): commit or rollback; the sleeping request stays to be woken.
Finish(t) ==
    /\ status[t] \in {"active", "aborted"}
    /\ status' = [status EXCEPT ![t] = "ended"]
    /\ held' = [held EXCEPT ![t] = {}]
    /\ DropEdges(t)
    /\ NotifyAll(pc)
    /\ UNCHANGED <<pc, wanted>>

\* A commit was published: only the wake-up concerns the locks.
Publish == NotifyAll(pc) /\ UNCHANGED <<status, held, waiting, pc, wanted>>

\* fail_all(): storage enters recovery.
FailAll ==
    /\ status' = [t \in Tx |-> IF status[t] = "active" THEN "aborted" ELSE status[t]]
    /\ held' = [t \in Tx |-> {}]
    /\ waiting' = [t \in Tx |-> {}]
    /\ NotifyAll(pc)
    /\ UNCHANGED <<pc, wanted>>

Next ==
    \/ Publish
    \/ FailAll
    \/ \E t \in Tx : Begin(t) \/ Resume(t) \/ FailLock(t) \/ Finish(t)
    \/ \E t \in Tx, W \in SUBSET Keys : Lock(t, W)

Spec == Init /\ [][Next]_vars

(***************************************************************************)
(* Properties.                                                             *)
(***************************************************************************)

\* Types, and the shape of the lock table: locks and edges belong
\* to active transactions, edges to requests that did not return yet.
TypeOK ==
    /\ status \in [Tx -> {"none", "active", "aborted", "ended"}]
    /\ held \in [Tx -> SUBSET Keys]
    /\ waiting \in [Tx -> SUBSET Tx]
    /\ pc \in [Tx -> {"idle", "asleep", "failed"}]
    /\ wanted \in [Tx -> SUBSET Keys]
    /\ notified \in [Tx -> BOOLEAN]
    /\ \A t \in Tx :
          /\ held[t] # {} => status[t] = "active"
          /\ waiting[t] # {} => status[t] = "active" /\ pc[t] \in {"asleep", "failed"}

\* Two transactions never hold the same key unless it is a shared one.
LockExclusion ==
    \A t, u \in Tx : t # u => held[t] \cap held[u] \subseteq Shared

\* A request asleep with no notification pending is still blocked: its
\* transaction is active and a live transaction holds a key it wants.
NoLostWakeup ==
    \A t \in Tx : pc[t] = "asleep" /\ ~ notified[t] =>
        status[t] = "active" /\ \E k \in wanted[t] : Blockers(t, k) # {}

\* The wait graph never has a cycle: cycle() finds each one before the edge
\* that closes it outlives its request.
Acyclic == \A t \in Tx : ~ OnCycle(waiting, t)
=============================================================================
