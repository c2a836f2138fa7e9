------------------------ MODULE RefreshThreadProofs ------------------------
(***************************************************************************)
(* Proofs about the shutdown of the refresh thread, for every number of    *)
(* HTTP threads.                                                           *)
(***************************************************************************)
EXTENDS RefreshThread, TLAPS

\* The mutex is held exactly inside the two critical sections, and cancelled_
\* is set before the lock of cancel() is given up.
MutexInv ==
  /\ mutex = "thread" <=> tpc \in {"predicate", "enter"}
  /\ mutex = "main" <=> main \in {"set", "notify"}
  /\ main \in {"notify", "join", "destroy", "terminate_enclave", "done"} => cancelled
  /\ main \in {"configure", "initialize"} => tpc = "none"

Inv ==
  /\ TypeOK
  /\ MutexInv
  /\ NoLostWakeup
  /\ NoRefreshDuringDestroy

\* One step per action of the two threads.
LEMMA NextInv == Inv /\ [Next]_vars => Inv'
<1> SUFFICES ASSUME Inv, [Next]_vars
             PROVE  Inv'
  OBVIOUS
<1> USE DEF Inv, TypeOK, MutexInv, NoLostWakeup, NoRefreshDuringDestroy, T, M, ProcessEnded
<1>1. CASE CheckCancelled
  BY <1>1 DEF CheckCancelled
<1>2. CASE Lock
  BY <1>2 DEF Lock
<1>3. CASE Predicate
  BY <1>3 DEF Predicate
<1>4. CASE Block
  BY <1>4 DEF Block
<1>5. CASE SpuriousWakeup \/ Timeout \/ Expire
  BY <1>5 DEF SpuriousWakeup, Timeout, Expire
<1>6. CASE TestCancelled
  BY <1>6 DEF TestCancelled
<1>7. CASE RefreshReturns
  BY <1>7 DEF RefreshReturns, Status
<1>8. CASE Initialize
  BY <1>8 DEF Initialize
<1>9. CASE Configure \/ MakeAddress \/ Listen \/ ServingThrows
  BY <1>9 DEF Configure, MakeAddress, Listen, ServingThrows
<1>10. CASE CancelLock
  BY <1>10 DEF CancelLock
<1>11. CASE CancelSet
  BY <1>11 DEF CancelSet
<1>12. CASE CancelNotify
  BY <1>12 DEF CancelNotify
<1>13. CASE Join
  BY <1>13 DEF Join
<1>14. CASE Destroy
  BY <1>14 DEF Destroy
<1>15. CASE UNCHANGED vars
  BY <1>15 DEF vars
<1> QED
  BY <1>1, <1>2, <1>3, <1>4, <1>5, <1>6, <1>7, <1>8, <1>9, <1>10, <1>11, <1>12, <1>13,
     <1>14, <1>15
  DEF Next, ThreadRuns, MainStarts, MainDestroys

\* The invariant, from which the two theorems below follow.
LEMMA Invariance == Spec => []Inv
<1>1. Init => Inv
  BY DEF Init, Inv, TypeOK, MutexInv, NoLostWakeup, NoRefreshDuringDestroy, Status
<1> QED BY <1>1, NextInv, PTL DEF Spec

\* ~Enclave never calls EnclaveDestroy or oe_terminate_enclave while the
\* refresh thread is running (host/enclave.cc:146-152).
THEOREM NoRefreshDuringDestroyTheorem == Spec => []NoRefreshDuringDestroy
<1>1. Inv => NoRefreshDuringDestroy
  BY DEF Inv
<1> QED BY <1>1, Invariance, PTL

\* cancel() never slips between the thread's test of cancelled_ and its
\* blocking (cancellable_timer.h:17-38).
THEOREM NoLostWakeupTheorem == Spec => []NoLostWakeup
<1>1. Inv => NoLostWakeup
  BY DEF Inv
<1> QED BY <1>1, Invariance, PTL

\* How many steps a thread that finds cancelled_ set can still take; it blocks
\* in none of them (NoLostWakeup).
StepsLeft ==
  CASE tpc \in {"lock", "woken", "call"} -> 3
    [] tpc \in {"predicate", "expired"} \/ (tpc = "check" /\ site = "try") -> 2
    [] tpc = "loop" \/ (tpc = "check" /\ site # "try") -> 1
    [] OTHER -> 0

\* Once cancel() has returned the refresh thread takes at most three more
\* steps, wherever cancel() found it: also in the exception handler that waits
\* on the cancelled timer (host/enclave.cc:117-140), and also before the test
\* of a loop that would call the enclave once more.
CancelledThreadEnds ==
  [][main = "join" /\ UNCHANGED main =>
       UNCHANGED vars \/ StepsLeft' < StepsLeft]_vars

\* The safety half of DestructorReturns: the join in ~Enclave waits for a
\* thread whose every step is one of the last three.
THEOREM CancelledThreadEndsTheorem == Spec => CancelledThreadEnds
<1>1. ASSUME Inv, [Next]_vars, main = "join", main' = main
      PROVE  UNCHANGED vars \/ StepsLeft' < StepsLeft
  <2> USE <1>1 DEF Inv, MutexInv, NoLostWakeup, T, M, ProcessEnded, StepsLeft
  <2>1. CASE CheckCancelled
    BY <2>1 DEF CheckCancelled
  <2>2. CASE Lock
    BY <2>2 DEF Lock
  <2>3. CASE Predicate
    BY <2>3 DEF Predicate
  <2>4. CASE Block \/ SpuriousWakeup \/ Timeout \/ Expire
    <3>1. tpc = "expired" /\ tpc' = "loop"
      BY <2>4 DEF Block, SpuriousWakeup, Timeout, Expire
    <3> QED BY <3>1
  <2>5. CASE TestCancelled
    BY <2>5 DEF TestCancelled
  <2>6. CASE RefreshReturns
    BY <2>6 DEF RefreshReturns
  <2>7. CASE MainStarts \/ MainDestroys
    BY <2>7 DEF MainStarts, Configure, Initialize, MakeAddress, Listen, ServingThrows,
       MainDestroys, CancelLock, CancelSet, CancelNotify, Join, Destroy
  <2> QED BY <2>1, <2>2, <2>3, <2>4, <2>5, <2>6, <2>7 DEF Next, ThreadRuns
<1>2. Inv /\ [Next]_vars =>
        [main = "join" /\ UNCHANGED main => UNCHANGED vars \/ StepsLeft' < StepsLeft]_vars
  BY <1>1
<1> QED BY <1>2, Invariance, PTL DEF Spec, CancelledThreadEnds

=============================================================================
