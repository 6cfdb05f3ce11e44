------------------------- MODULE LockManagerProofs -------------------------
(***************************************************************************)
(* LockManager is correct for every set of transactions and keys.          *)
(*                                                                         *)
(* TypeOK is inductive by itself and carries the two shape facts that the  *)
(* other proofs rest on: a lock belongs to an active transaction, so a     *)
(* holder always blocks.  LockExclusion, NoLostWakeup and Acyclic are each *)
(* inductive together with TypeOK.                                         *)
(***************************************************************************)
EXTENDS LockManager, TLAPS

LEMMA InitTypeOK == Init => TypeOK
  BY DEF Init, TypeOK

\* One turn of the loop keeps the types.
LEMMA LoopTypeOK ==
  ASSUME TypeOK, NEW t \in Tx, NEW W \in SUBSET Keys, status[t] = "active",
         LockLoop(t, W)
  PROVE  TypeOK'
<1>1. CASE Grant(t, W)
  BY <1>1 DEF TypeOK, Grant, EndRequest
<1>2. CASE Refuse(t, W)
  <2>1. PICK got \in SUBSET W : held' = [held EXCEPT ![t] = @ \cup got]
    BY <1>2 DEF Refuse
  <2> QED
    BY <1>2, <2>1 DEF TypeOK, Refuse, EndRequest
<1>3. CASE Sleep(t, W)
  <2>1. PICK got \in SUBSET W, stop \in W :
           /\ held' = [held EXCEPT ![t] = @ \cup got]
           /\ waiting' = [waiting EXCEPT ![t] = Blockers(t, stop)]
    BY <1>3 DEF Sleep
  <2>2. Blockers(t, stop) \subseteq Tx
    BY DEF Blockers
  <2> QED
    BY <1>3, <2>1, <2>2 DEF TypeOK, Sleep
<1>4. CASE GiveUp(t, W)
  BY <1>4 DEF TypeOK, GiveUp, DropEdges, NotifyAll
<1> QED
  BY <1>1, <1>2, <1>3, <1>4 DEF LockLoop

LEMMA NextTypeOK == TypeOK /\ [Next]_vars => TypeOK'
<1> SUFFICES ASSUME TypeOK, [Next]_vars PROVE TypeOK'
  OBVIOUS
<1>1. ASSUME NEW t \in Tx, Begin(t) PROVE TypeOK'
  BY <1>1 DEF TypeOK, Begin
<1>2. ASSUME NEW t \in Tx, NEW W \in SUBSET Keys, Lock(t, W) PROVE TypeOK'
  BY <1>2, LoopTypeOK DEF Lock
<1>3. ASSUME NEW t \in Tx, Resume(t) PROVE TypeOK'
  <2>1. CASE status[t] = "active" /\ LockLoop(t, wanted[t])
    <3>1. wanted[t] \in SUBSET Keys
      BY DEF TypeOK
    <3> QED
      BY <2>1, <3>1, LoopTypeOK
  <2>2. CASE EndRequest(t, "idle") /\ UNCHANGED <<status, held, waiting>>
                                   /\ status[t] # "active"
    BY <2>2 DEF TypeOK, EndRequest
  <2> QED
    BY <1>3, <2>1, <2>2 DEF Resume
<1>4. ASSUME NEW t \in Tx, FailLock(t) PROVE TypeOK'
  BY <1>4 DEF TypeOK, FailLock, DropEdges, NotifyAll
<1>5. ASSUME NEW t \in Tx, Finish(t) PROVE TypeOK'
  BY <1>5 DEF TypeOK, Finish, DropEdges, NotifyAll
<1>6. CASE Publish
  BY <1>6 DEF TypeOK, Publish, NotifyAll
<1>7. CASE FailAll
  BY <1>7 DEF TypeOK, FailAll, NotifyAll
<1>8. CASE UNCHANGED vars
  BY <1>8 DEF TypeOK, vars
<1> QED
  BY <1>1, <1>2, <1>3, <1>4, <1>5, <1>6, <1>7, <1>8 DEF Next

\* Type correctness: in every reachable state only active transactions hold
\* locks and only unreturned requests have wait edges.
THEOREM TypeCorrect == Spec => []TypeOK
  BY InitTypeOK, NextTypeOK, PTL DEF Spec

-----------------------------------------------------------------------------
(***************************************************************************)
(* Mutual exclusion.                                                       *)
(***************************************************************************)

LEMMA InitExclusion == Init => LockExclusion
  BY DEF Init, LockExclusion

\* Taking keys that nobody blocks keeps the locks exclusive.
LEMMA TakeExclusion ==
  ASSUME TypeOK, LockExclusion, NEW t \in Tx, NEW got \in SUBSET Keys,
         \A k \in got : Blockers(t, k) = {},
         held' = [held EXCEPT ![t] = @ \cup got]
  PROVE  LockExclusion'
<1> SUFFICES ASSUME NEW u \in Tx, NEW v \in Tx, u # v,
                    NEW k \in held'[u] \cap held'[v]
             PROVE  k \in Shared
  BY DEF LockExclusion
<1>1. ASSUME NEW o \in Tx, o # t, k \in got, k \in held[o] PROVE k \in Shared
  <2>1. status[o] = "active"
    BY <1>1 DEF TypeOK
  <2> QED
    BY <1>1, <2>1 DEF Blockers
<1> QED
  BY <1>1 DEF TypeOK, LockExclusion

\* Releasing locks keeps them exclusive.
LEMMA ReleaseExclusion ==
  ASSUME LockExclusion, \A t \in Tx : held'[t] \subseteq held[t]
  PROVE  LockExclusion'
  BY DEF LockExclusion

LEMMA LoopExclusion ==
  ASSUME TypeOK, LockExclusion, NEW t \in Tx, NEW W \in SUBSET Keys, LockLoop(t, W)
  PROVE  LockExclusion'
<1>1. CASE Grant(t, W)
  BY <1>1, TakeExclusion DEF Grant
<1>2. CASE Refuse(t, W)
  BY <1>2, TakeExclusion DEF Refuse
<1>3. CASE Sleep(t, W)
  BY <1>3, TakeExclusion DEF Sleep
<1>4. CASE GiveUp(t, W)
  BY <1>4, ReleaseExclusion DEF GiveUp, TypeOK
<1> QED
  BY <1>1, <1>2, <1>3, <1>4 DEF LockLoop

LEMMA NextExclusion == TypeOK /\ LockExclusion /\ [Next]_vars => LockExclusion'
<1> SUFFICES ASSUME TypeOK, LockExclusion, [Next]_vars PROVE LockExclusion'
  OBVIOUS
<1>1. ASSUME NEW t \in Tx, NEW W \in SUBSET Keys, Lock(t, W) PROVE LockExclusion'
  BY <1>1, LoopExclusion DEF Lock
<1>2. ASSUME NEW t \in Tx, Resume(t) PROVE LockExclusion'
  <2>1. wanted[t] \in SUBSET Keys
    BY DEF TypeOK
  <2>2. CASE LockLoop(t, wanted[t])
    BY <2>1, <2>2, LoopExclusion
  <2>3. CASE UNCHANGED held
    BY <2>3, ReleaseExclusion
  <2> QED
    BY <1>2, <2>2, <2>3 DEF Resume
<1>3. ASSUME NEW t \in Tx, FailLock(t) \/ Finish(t) PROVE LockExclusion'
  BY <1>3, ReleaseExclusion DEF FailLock, Finish, TypeOK
<1>4. CASE FailAll
  BY <1>4, ReleaseExclusion DEF FailAll
<1>5. CASE UNCHANGED held
  BY <1>5, ReleaseExclusion
<1> QED
  BY <1>1, <1>2, <1>3, <1>4, <1>5 DEF Next, Begin, Publish, vars

\* No two transactions ever hold the same row or unique-value lock, however
\* lock requests, timeouts, commits and failures interleave.
THEOREM ExclusionHolds == Spec => []LockExclusion
<1>1. TypeOK /\ LockExclusion /\ [Next]_vars => (TypeOK /\ LockExclusion)'
  BY NextTypeOK, NextExclusion
<1> QED
  BY <1>1, InitTypeOK, InitExclusion, PTL DEF Spec

-----------------------------------------------------------------------------
(***************************************************************************)
(* No lost wake-up.                                                        *)
(***************************************************************************)

LEMMA InitWakeup == Init => NoLostWakeup
  BY DEF Init, NoLostWakeup

\* The sleepers other than t are as blocked as before when nobody else lets
\* go of anything.
LEMMA StillBlocked ==
  ASSUME TypeOK, NoLostWakeup, NEW t \in Tx,
         status' = status,
         \A o \in Tx : held[o] \subseteq held'[o],
         \A o \in Tx \ {t} : /\ pc'[o] = pc[o] /\ wanted'[o] = wanted[o]
                             /\ notified'[o] = notified[o],
         pc'[t] = "asleep" => /\ status[t] = "active"
                              /\ \E k \in wanted'[t] : Blockers(t, k) # {}
  PROVE  NoLostWakeup'
<1>1. ASSUME NEW u \in Tx, NEW k PROVE Blockers(u, k) \subseteq Blockers(u, k)'
  BY DEF Blockers
<1> SUFFICES ASSUME NEW u \in Tx, pc'[u] = "asleep", ~ notified'[u]
             PROVE  status'[u] = "active" /\ \E k \in wanted'[u] : Blockers(u, k)' # {}
  BY DEF NoLostWakeup
<1>2. CASE u = t
  BY <1>1, <1>2
<1>3. CASE u # t
  <2>1. status[u] = "active" /\ \E k \in wanted[u] : Blockers(u, k) # {}
    BY <1>3 DEF NoLostWakeup
  <2> QED
    BY <1>1, <1>3, <2>1
<1> QED
  BY <1>2, <1>3

\* After notify_all no sleeper is left without a notification.
LEMMA AllNotified ==
  ASSUME notified' = [o \in Tx |-> pc'[o] = "asleep"]
  PROVE  NoLostWakeup'
  BY DEF NoLostWakeup

LEMMA LoopWakeup ==
  ASSUME TypeOK, NoLostWakeup, NEW t \in Tx, NEW W \in SUBSET Keys,
         status[t] = "active", LockLoop(t, W)
  PROVE  NoLostWakeup'
<1>1. CASE Grant(t, W)
  BY <1>1, StillBlocked DEF Grant, EndRequest, TypeOK
<1>2. CASE Refuse(t, W)
  <2>1. PICK got \in SUBSET W : held' = [held EXCEPT ![t] = @ \cup got]
    BY <1>2 DEF Refuse
  <2> QED
    BY <1>2, <2>1, StillBlocked DEF Refuse, EndRequest, TypeOK
<1>3. CASE Sleep(t, W)
  <2>1. PICK got \in SUBSET W, stop \in W :
           Blockers(t, stop) # {} /\ held' = [held EXCEPT ![t] = @ \cup got]
    BY <1>3 DEF Sleep
  <2> QED
    BY <1>3, <2>1, StillBlocked DEF Sleep, TypeOK
<1>4. CASE GiveUp(t, W)
  BY <1>4, AllNotified DEF GiveUp, NotifyAll
<1> QED
  BY <1>1, <1>2, <1>3, <1>4 DEF LockLoop

LEMMA NextWakeup == TypeOK /\ NoLostWakeup /\ [Next]_vars => NoLostWakeup'
<1> SUFFICES ASSUME TypeOK, NoLostWakeup, [Next]_vars PROVE NoLostWakeup'
  OBVIOUS
<1>1. ASSUME NEW t \in Tx, Begin(t) PROVE NoLostWakeup'
  <2> SUFFICES ASSUME NEW u \in Tx, pc'[u] = "asleep", ~ notified'[u]
               PROVE  status'[u] = "active" /\ \E k \in wanted'[u] : Blockers(u, k)' # {}
    BY DEF NoLostWakeup
  <2>1. status[u] = "active" /\ \E k \in wanted[u] : Blockers(u, k) # {}
    BY <1>1 DEF NoLostWakeup, Begin
  <2>2. \A k : Blockers(u, k) \subseteq Blockers(u, k)'
    BY <1>1 DEF Blockers, Begin, TypeOK
  <2> QED
    BY <1>1, <2>1, <2>2 DEF Begin, TypeOK
<1>2. ASSUME NEW t \in Tx, NEW W \in SUBSET Keys, Lock(t, W) PROVE NoLostWakeup'
  BY <1>2, LoopWakeup DEF Lock
<1>3. ASSUME NEW t \in Tx, Resume(t) PROVE NoLostWakeup'
  <2>1. wanted[t] \in SUBSET Keys
    BY DEF TypeOK
  <2>2. CASE status[t] = "active" /\ LockLoop(t, wanted[t])
    BY <2>1, <2>2, LoopWakeup
  <2>3. CASE EndRequest(t, "idle") /\ UNCHANGED <<status, held, waiting>>
    BY <2>3, StillBlocked DEF EndRequest, TypeOK
  <2> QED
    BY <1>3, <2>2, <2>3 DEF Resume
<1>4. ASSUME NEW t \in Tx, FailLock(t) \/ Finish(t) PROVE NoLostWakeup'
  BY <1>4, AllNotified DEF FailLock, Finish, NotifyAll
<1>5. CASE Publish \/ FailAll
  BY <1>5, AllNotified DEF Publish, FailAll, NotifyAll
<1>6. CASE UNCHANGED vars
  BY <1>6 DEF NoLostWakeup, Blockers, vars
<1> QED
  BY <1>1, <1>2, <1>3, <1>4, <1>5, <1>6 DEF Next

\* A sleeping lock request that nobody has notified is still blocked by a live
\* transaction: no release, abort or commit is ever missed.
THEOREM NoWakeupLost == Spec => []NoLostWakeup
<1>1. TypeOK /\ NoLostWakeup /\ [Next]_vars => (TypeOK /\ NoLostWakeup)'
  BY NextTypeOK, NextWakeup
<1> QED
  BY <1>1, InitTypeOK, InitWakeup, PTL DEF Spec

-----------------------------------------------------------------------------
(***************************************************************************)
(* The wait graph has no cycle.                                            *)
(***************************************************************************)

\* Fewer edges, fewer cycles: a closed set stays closed.
LEMMA FewerEdges ==
  ASSUME NEW V \in [Tx -> SUBSET Tx], NEW W \in [Tx -> SUBSET Tx],
         \A o \in Tx : W[o] \subseteq V[o],
         NEW t \in Tx, ~ OnCycle(V, t)
  PROVE  ~ OnCycle(W, t)
  BY DEF OnCycle, ClosedUnder

\* New edges of t alone that put t on no cycle put nobody on one.  From a set
\* that witnesses it for t and one that witnessed it for o before, the first
\* one, their union or their intersection witnesses it for o now.
LEMMA EdgesOfOne ==
  ASSUME NEW V \in [Tx -> SUBSET Tx], NEW W \in [Tx -> SUBSET Tx],
         NEW t \in Tx, \A o \in Tx \ {t} : W[o] = V[o],
         ~ OnCycle(W, t),
         NEW o \in Tx, ~ OnCycle(V, o)
  PROVE  ~ OnCycle(W, o)
<1>1. PICK St \in SUBSET Tx : W[t] \subseteq St /\ ClosedUnder(W, St) /\ t \notin St
  BY DEF OnCycle
<1>2. PICK So \in SUBSET Tx : V[o] \subseteq So /\ ClosedUnder(V, So) /\ o \notin So
  BY DEF OnCycle
<1>3. CASE o = t
  BY <1>3
<1>4. CASE o # t /\ t \notin So
  <2>1. W[o] \subseteq So /\ ClosedUnder(W, So)
    BY <1>2, <1>4 DEF ClosedUnder
  <2> QED
    BY <1>2, <2>1 DEF OnCycle
<1>5. CASE o # t /\ t \in So /\ o \notin St
  <2>1. W[o] \subseteq So \cup St /\ ClosedUnder(W, So \cup St)
    BY <1>1, <1>2, <1>5 DEF ClosedUnder
  <2> QED
    BY <1>2, <1>5, <2>1 DEF OnCycle
<1>6. CASE o # t /\ o \in St
  <2>1. W[o] \subseteq So \cap St
    BY <1>1, <1>2, <1>6 DEF ClosedUnder
  <2>2. ClosedUnder(W, So \cap St)
    BY <1>1, <1>2 DEF ClosedUnder
  <2> QED
    BY <1>2, <2>1, <2>2 DEF OnCycle
<1> QED
  BY <1>3, <1>4, <1>5, <1>6

LEMMA InitAcyclic == Init => Acyclic
<1> SUFFICES ASSUME Init, NEW t \in Tx PROVE ~ OnCycle(waiting, t)
  BY DEF Acyclic
<1>1. waiting[t] \subseteq {} /\ ClosedUnder(waiting, {})
  BY DEF Init, ClosedUnder
<1> QED
  BY <1>1 DEF OnCycle

\* Dropping edges keeps the graph acyclic.
LEMMA DropAcyclic ==
  ASSUME TypeOK, TypeOK', Acyclic, \A o \in Tx : waiting'[o] \subseteq waiting[o]
  PROVE  Acyclic'
<1>1. waiting \in [Tx -> SUBSET Tx] /\ waiting' \in [Tx -> SUBSET Tx]
  BY DEF TypeOK
<1> QED
  BY <1>1, FewerEdges DEF Acyclic

LEMMA LoopAcyclic ==
  ASSUME TypeOK, TypeOK', Acyclic, NEW t \in Tx, NEW W, LockLoop(t, W)
  PROVE  Acyclic'
<1>1. CASE Grant(t, W) \/ Refuse(t, W)
  BY <1>1, DropAcyclic DEF Grant, Refuse, TypeOK
<1>2. CASE GiveUp(t, W)
  BY <1>2, DropAcyclic DEF GiveUp, DropEdges
<1>3. CASE Sleep(t, W)
  <2>1. waiting \in [Tx -> SUBSET Tx] /\ waiting' \in [Tx -> SUBSET Tx]
    BY DEF TypeOK
  <2>2. ~ OnCycle(waiting', t) /\ \A o \in Tx \ {t} : waiting'[o] = waiting[o]
    BY <1>3, <2>1 DEF Sleep, Cycle
  <2> QED
    BY <2>1, <2>2, EdgesOfOne DEF Acyclic
<1> QED
  BY <1>1, <1>2, <1>3 DEF LockLoop

LEMMA NextAcyclic == TypeOK /\ Acyclic /\ [Next]_vars => Acyclic'
<1> SUFFICES ASSUME TypeOK, Acyclic, [Next]_vars PROVE Acyclic'
  OBVIOUS
<1>1. TypeOK'
  BY NextTypeOK
<1>2. ASSUME NEW t \in Tx, NEW W \in SUBSET Keys, Lock(t, W) PROVE Acyclic'
  BY <1>1, <1>2, LoopAcyclic DEF Lock
<1>3. ASSUME NEW t \in Tx, Resume(t) PROVE Acyclic'
  BY <1>1, <1>3, LoopAcyclic, DropAcyclic DEF Resume
<1>4. ASSUME NEW t \in Tx, FailLock(t) \/ Finish(t) PROVE Acyclic'
  BY <1>1, <1>4, DropAcyclic DEF FailLock, Finish, DropEdges
<1>5. CASE FailAll
  BY <1>1, <1>5, DropAcyclic DEF FailAll
<1>6. CASE UNCHANGED waiting
  BY <1>1, <1>6, DropAcyclic
<1> QED
  BY <1>2, <1>3, <1>4, <1>5, <1>6 DEF Next, Begin, Publish, vars

\* The recorded wait edges never form a cycle, for any number of transactions:
\* a deadlock is broken by the request that would complete it.
THEOREM NeverDeadlocked == Spec => []Acyclic
<1>1. TypeOK /\ Acyclic /\ [Next]_vars => (TypeOK /\ Acyclic)'
  BY NextTypeOK, NextAcyclic
<1> QED
  BY <1>1, InitTypeOK, InitAcyclic, PTL DEF Spec
=============================================================================
