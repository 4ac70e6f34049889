------------------- MODULE PriorityQueueScheduler_proofs --------------------
(***************************************************************************)
(* Proofs about PriorityQueueScheduler, for any set of workers and any     *)
(* decision tree.  Every step of this scheduler is a step of the generic   *)
(* one of RFSCDriver_proofs, whose invariant therefore holds here; what is *)
(* this scheduler's own is that no wake-up is lost.                        *)
(***************************************************************************)
EXTENDS PriorityQueueScheduler, RFSCDriver_proofs

(* The provers that a leaf is tried with, unless it names its own.         *)
USE SMTT(10), Z3T(10), Zenon

(* Each step of dequeue() and enqueue() is one of the generic scheduler.   *)
LEMMA StepIsSchedulerStep ==
  ASSUME IInv(work_queue), NEW t \in Workers, Step(t) \/ SpuriousWakeup(t)
  PROVE  SchedulerStep(t, work_queue, work_queue')
<1>a. pc \in [Workers -> Labels] /\ cv_waiters \subseteq Workers /\ Shape
  BY DEF IInv, DriverTypeOK
<1>1. CASE DequeueHalting(t)
  <2>1. cv_waiters' = cv_waiters \ {t}
    BY <1>1, <1>a DEF DequeueHalting, Shape
  <2> QED
    BY <1>1, <2>1 DEF DequeueHalting, SchedulerStep, Roam, Idle
<1>2. CASE DequeueTop(t)
  BY <1>2, Zenon DEF DequeueTop, pop, SchedulerStep, Take
<1>3. CASE DequeueWait(t)
  BY <1>3 DEF DequeueWait, SchedulerStep, Roam, Idle
<1>4. CASE Push(t)
  <2>1. notify_one \subseteq SUBSET cv_waiters
    BY DEF notify_one
  <2> QED
    BY <1>4, <2>1 DEF Push, SchedulerStep, Put
<1>5. CASE SpuriousWakeup(t)
  <2>1. pc[t] \in Idle
    BY <1>5, <1>a DEF SpuriousWakeup, Shape, Idle
  <2> QED
    BY <1>5, <2>1 DEF SpuriousWakeup, SchedulerStep, Roam, Idle
<1>6. CASE (DriverStep(t) \/ Halt(t, "dequeue")) /\ UNCHANGED work_queue
  BY <1>6 DEF SchedulerStep
<1> QED
  BY <1>1, <1>2, <1>3, <1>4, <1>5, <1>6 DEF Step

-----------------------------------------------------------------------------
(* Wake-ups.                                                               *)

(* The workers on their way into dequeue().                                *)
Entering == {t \in Workers : pc[t] = "dequeue"}

(* There are finitely many queued work items and entering workers.         *)
LEMMA EnteringFinite ==
  ASSUME IInv(work_queue)
  PROVE  /\ IsFiniteSet(work_queue) /\ Cardinality(work_queue) \in Nat
         /\ IsFiniteSet(Entering) /\ Cardinality(Entering) \in Nat
<1>1. IsFiniteSet(Nodes) /\ IsFiniteSet(Workers)
  BY DriverAssumption DEF DriverAssumption
<1>2. work_queue \subseteq Nodes /\ Entering \subseteq Workers
  BY DEF IInv, Entering
<1>3. IsFiniteSet(work_queue) /\ IsFiniteSet(Entering)
  BY <1>1, <1>2, FS_Subset
<1> QED
  BY <1>3, FS_CardinalityType

(* A step after which no fewer workers enter, with the same queue, loses   *)
(* no wake-up.                                                             *)
LEMMA MoreEntering ==
  ASSUME IInv(work_queue), NoLostWakeup, work_queue' = work_queue,
         Entering \subseteq Entering', halting' => halting, halting => halting',
         cv_waiters' # {} => cv_waiters # {}
  PROVE  NoLostWakeup'
<1>1. /\ IsFiniteSet(work_queue) /\ Cardinality(work_queue) \in Nat
      /\ IsFiniteSet(Entering) /\ Cardinality(Entering) \in Nat
  BY EnteringFinite
<1>2. IsFiniteSet(Entering')
  <2>1. Entering' \subseteq Workers /\ IsFiniteSet(Workers)
    BY DriverAssumption DEF DriverAssumption, Entering
  <2> QED
    BY <2>1, FS_Subset
<1>3. Cardinality(Entering) <= Cardinality(Entering') /\ Cardinality(Entering') \in Nat
  BY <1>2, FS_Subset, FS_CardinalityType
<1>4. cv_waiters' # {} /\ ~halting' => Cardinality(work_queue) <= Cardinality(Entering)
  BY DEF NoLostWakeup, Entering
<1>5. cv_waiters' # {} /\ ~halting' => Cardinality(work_queue) <= Cardinality(Entering')
  BY <1>1, <1>3, <1>4
<1> QED
  BY <1>5 DEF NoLostWakeup, Entering

(* enqueue() adds one work item and, if a worker waits, one that enters.   *)
LEMMA PushWakes ==
  ASSUME IInv(work_queue), NoLostWakeup, NEW t \in Workers, Push(t)
  PROVE  NoLostWakeup'
<1>a. /\ pc \in [Workers -> Labels] /\ cv_waiters \subseteq Workers
      /\ Shape /\ halting \in BOOLEAN
  BY DEF IInv, DriverTypeOK
<1>b. /\ IsFiniteSet(work_queue) /\ Cardinality(work_queue) \in Nat
      /\ IsFiniteSet(Entering) /\ Cardinality(Entering) \in Nat
  BY EnteringFinite
<1>1. PICK woken \in notify_one :
        /\ cv_waiters' = cv_waiters \ woken
        /\ pc' = [u \in Workers |-> IF u = t THEN "prefixes"
                                    ELSE IF u \in woken THEN "dequeue" ELSE pc[u]]
  BY DEF Push
<1>2. work_queue' = work_queue \cup {sibling[t]} /\ halting' = halting /\ pc[t] = "push"
  BY DEF Push
<1>3. CASE cv_waiters = {}
  BY <1>1, <1>3 DEF NoLostWakeup
<1>4. CASE cv_waiters # {}
  <2>1. PICK u \in cv_waiters : woken = {u}
    BY <1>1, <1>4 DEF notify_one
  <2>2. u \in Workers /\ pc[u] = "wait"
    BY <1>a DEF Shape
  <2>3. Entering' = Entering \cup {u} /\ u \notin Entering
    BY <1>1, <1>2, <2>1, <2>2, <1>a DEF Entering
  <2>4. Cardinality(Entering') = Cardinality(Entering) + 1
    BY <1>b, <2>3, FS_AddElement, Zenon
  <2>5. Cardinality(work_queue') <= Cardinality(work_queue) + 1 /\ Cardinality(work_queue') \in Nat
    <3>1. IsFiniteSet(work_queue')
      BY <1>b, <1>2, FS_AddElement
    <3>2. Cardinality(work_queue') = Cardinality(work_queue)
            \/ Cardinality(work_queue') = Cardinality(work_queue) + 1
      BY <1>b, <1>2, FS_AddElement, Zenon
    <3> QED
      BY <1>b, <3>2
  <2>6. ~halting' => Cardinality(work_queue) <= Cardinality(Entering)
    BY <1>2, <1>4 DEF NoLostWakeup, Entering
  <2>7. ~halting' => Cardinality(work_queue') <= Cardinality(Entering')
    BY <1>b, <2>4, <2>5, <2>6
  <2> QED
    BY <2>7 DEF NoLostWakeup, Entering
<1> QED
  BY <1>3, <1>4

(* No step of a worker loses a wake-up.                                    *)
LEMMA StepNoLostWakeup ==
  ASSUME IInv(work_queue), NoLostWakeup, NEW t \in Workers,
         Step(t) \/ SpuriousWakeup(t)
  PROVE  NoLostWakeup'
<1>a. /\ pc \in [Workers -> Labels] /\ cv_waiters \subseteq Workers
      /\ Shape /\ halting \in BOOLEAN
  BY DEF IInv, DriverTypeOK
<1>1. CASE DequeueHalting(t)
  BY <1>1 DEF DequeueHalting, NoLostWakeup
<1>2. CASE DequeueTop(t)
  <2>1. PICK n \in work_queue : work_queue' = work_queue \ {n}
    BY <1>2 DEF DequeueTop, pop
  <2>2. Entering' = Entering \ {t} /\ t \in Entering
    BY <1>2, <1>a DEF DequeueTop, Goto, Entering
  <2>3. /\ IsFiniteSet(work_queue) /\ Cardinality(work_queue) \in Nat
        /\ IsFiniteSet(Entering) /\ Cardinality(Entering) \in Nat
    BY EnteringFinite
  <2>4. Cardinality(work_queue') = Cardinality(work_queue) - 1
    BY <2>1, <2>3, FS_RemoveElement, Zenon
  <2>5. Cardinality(Entering') = Cardinality(Entering) - 1
    BY <2>2, <2>3, FS_RemoveElement, Zenon
  <2>6. cv_waiters' # {} /\ ~halting' => Cardinality(work_queue) <= Cardinality(Entering)
    BY <1>2 DEF DequeueTop, NoLostWakeup, Entering
  <2>7. cv_waiters' # {} /\ ~halting' => Cardinality(work_queue') <= Cardinality(Entering')
    BY <2>3, <2>4, <2>5, <2>6
  <2> QED
    BY <2>7 DEF NoLostWakeup, Entering
<1>3. CASE DequeueWait(t)
  <2>1. Cardinality(work_queue') = 0
    BY <1>3, FS_EmptySet DEF DequeueWait
  <2>2. Cardinality(Entering') \in Nat
    <3>1. Entering' \subseteq Workers /\ IsFiniteSet(Workers)
      BY DriverAssumption DEF DriverAssumption, Entering
    <3> QED
      BY <3>1, FS_Subset, FS_CardinalityType
  <2>3. Cardinality(work_queue') <= Cardinality(Entering')
    BY <2>1, <2>2
  <2> QED
    BY <2>3 DEF NoLostWakeup, Entering
<1>4. CASE Push(t)
  BY <1>4, PushWakes
<1>5. CASE SpuriousWakeup(t)
  BY <1>5, <1>a, MoreEntering DEF SpuriousWakeup, Goto, Entering
<1>6. CASE DriverStep(t) /\ UNCHANGED work_queue
  <2>1. UNCHANGED <<cv_waiters, halting>> /\ pc[t] # "dequeue"
    BY <1>6 DEF DriverStep, SkipPruned, Accept, RunOnce, TryAlloc, FetchAdd,
                EndPrefixes, Finish
  <2>2. \A u \in Workers : u # t => pc'[u] = pc[u]
    BY <1>6, <1>a DEF DriverStep, SkipPruned, Accept, RunOnce, TryAlloc, FetchAdd,
                EndPrefixes, Finish, Goto
  <2>3. Entering \subseteq Entering'
    BY <2>1, <2>2 DEF Entering
  <2> QED
    BY <1>6, <2>1, <2>3, MoreEntering
<1>7. CASE Halt(t, "dequeue")
  BY <1>7 DEF Halt, NoLostWakeup
<1> QED
  BY <1>1, <1>2, <1>3, <1>4, <1>5, <1>6, <1>7 DEF Step

-----------------------------------------------------------------------------
(* The theorems.                                                           *)

Inv ==
  /\ IInv(work_queue) /\ Parked
  /\ NoLostWakeup
  /\ Execution[Root] \in KnownBy(work_queue)

(* dequeue() waits, and returns nothing, as halting says.                  *)
LEMMA StepKeepsParked ==
  ASSUME IInv(work_queue), Parked, NEW t \in Workers, Step(t) \/ SpuriousWakeup(t)
  PROVE  Parked'
<1>a. pc \in [Workers -> Labels] /\ SchedulerStep(t, work_queue, work_queue')
  BY StepIsSchedulerStep DEF IInv, DriverTypeOK
<1>1. pc'[t] = "wait" => ~halting
  BY <1>a, Zenon
     DEF Step, DequeueHalting, DequeueTop, DequeueWait, Push, SpuriousWakeup, DriverStep,
         SkipPruned, Accept, RunOnce, TryAlloc, FetchAdd, EndPrefixes, Finish, Halt, Goto
<1>2. pc'[t] = "done" => halting
  BY <1>a, Zenon
     DEF Step, DequeueHalting, DequeueTop, DequeueWait, Push, SpuriousWakeup, DriverStep,
         SkipPruned, Accept, RunOnce, TryAlloc, FetchAdd, EndPrefixes, Finish, Halt, Goto
<1> QED
  BY <1>a, <1>1, <1>2, StepParked

(* The invariant holds once the root is queued, and every step keeps it.   *)
LEMMA InvInductive == (Init => Inv) /\ (Inv /\ [Next]_vars => Inv')
<1>1. ASSUME Init PROVE Inv
  <2>1. IInv(work_queue) /\ Parked /\ Execution[Root] \in KnownBy(work_queue)
    BY <1>1, InitIInv, InitParked, RootIsKnown DEF Init
  <2> QED
    BY <1>1, <2>1 DEF Inv, Init, DriverInit, NoLostWakeup
<1>2. ASSUME Inv, [Next]_vars PROVE Inv'
  <2>1. ASSUME NEW t \in Workers, Step(t) \/ SpuriousWakeup(t) PROVE Inv'
    <3>1. SchedulerStep(t, work_queue, work_queue')
      BY <1>2, <2>1, StepIsSchedulerStep DEF Inv
    <3>2. IInv(work_queue)' /\ Parked'
      BY <1>2, <2>1, <3>1, StepIInv, StepKeepsParked DEF Inv
    <3>3. NoLostWakeup'
      BY <1>2, <2>1, StepNoLostWakeup DEF Inv
    <3>4. (Execution[Root] \in KnownBy(work_queue))'
      BY <1>2, <3>1, KnownStaysKnown DEF Inv
    <3> QED
      BY <3>2, <3>3, <3>4 DEF Inv
  <2>2. ASSUME UNCHANGED vars PROVE Inv'
    <3>1. UNCHANGED driverVars /\ work_queue' = work_queue
      BY <2>2 DEF vars
    <3>2. /\ IInv(work_queue)' /\ Parked'
          /\ KnownBy(work_queue)' = KnownBy(work_queue)
      BY <1>2, <3>1, StutterIInv, StutterParked DEF Inv
    <3>3. NoLostWakeup'
      BY <1>2, <3>1 DEF Inv, NoLostWakeup, driverVars
    <3> QED
      BY <1>2, <3>2, <3>3 DEF Inv
  <2> QED
    BY <1>2, <2>1, <2>2 DEF Next
<1> QED
  BY <1>1, <1>2

(* The inductive invariant holds throughout run_rfsc_parallel.             *)
THEOREM Invariance == Spec => []Inv
BY InvInductive, PTL DEF Spec

(* Whatever the number of workers and the decision tree, outstanding_jobs  *)
(* always equals the number of jobs that enqueue() has counted and         *)
(* run_rfsc_parallel has not finished.                                     *)
THEOREM JobAccountingHolds == Spec => []JobAccounting
<1>1. Inv => JobAccounting
  BY DEF Inv, IInv, Accounting, Jobs, JobAccounting
<1> QED
  BY <1>1, Invariance, PTL

(* run_rfsc_parallel never halts its workers too early: unless an error    *)
(* was found, nothing is queued, executing or about to be queued.          *)
THEOREM NeverHaltsEarly == Spec => []HaltOnlyWhenExhausted
<1>1. Inv => HaltOnlyWhenExhausted
  BY DEF Inv, IInv, Exhausted, Jobs, HaltOnlyWhenExhausted
<1> QED
  BY <1>1, Invariance, PTL

(* No work item is ever handed to two workers, or queued while a worker    *)
(* holds it.                                                               *)
THEOREM SingleOwnership == Spec => []OneOwner
<1>1. Inv => OneOwner
  BY BusyMembers DEF Inv, IInv, Placed, OneOwner, Held, Holds
<1> QED
  BY <1>1, Invariance, PTL

(* Whichever workers race to discover an execution, it is explored once.   *)
THEOREM ExploredOnce == Spec => []NoDuplicateExploration
<1>1. Inv => NoDuplicateExploration
  BY DEF Inv, IInv, Unexplored, NoDuplicateExploration
<1> QED
  BY <1>1, Invariance, PTL

(* While a worker sleeps in cv.wait, every queued work item has a worker   *)
(* of its own on the way into dequeue().                                   *)
THEOREM NoWakeupIsLost == Spec => []NoLostWakeup
<1>1. Inv => NoLostWakeup
  BY DEF Inv
<1> QED
  BY <1>1, Invariance, PTL

(* If an execution failed then, when all workers have returned, a failing  *)
(* execution is in res.error_trace.                                        *)
THEOREM ErrorsAreReported == Spec => []ErrorReported
<1>1. Inv => ErrorReported
  <2> SUFFICES ASSUME Inv, AllDone, Explored \cap Erroneous # {}
               PROVE  error_trace \in Explored \cap Erroneous
    BY DEF ErrorReported
  <2>1. \A t \in Workers : pc[t] \notin Ran
    BY DEF AllDone, Ran, Computing
  <2> QED
    BY <2>1 DEF Inv, IInv, Blame
<1> QED
  BY <1>1, Invariance, PTL

(* What worker t needs to take its next step: not to sleep in cv.wait, not *)
(* to have returned and, at the end of a job, to get state.mutex.          *)
Runnable(t) ==
  /\ pc[t] \notin {"wait", "done"}
  /\ pc[t] = "finish" => state_mutex = NoNode

(* Some worker can go on, without a spurious wake-up, until all have       *)
(* returned.  The exception is --keep-going after reset() has skipped a    *)
(* pruned work item, which outstanding_jobs counts for ever.               *)
Progress ==
  AllDone \/ (KeepGoing /\ dropped # {}) \/ \E t \in Workers : Runnable(t)

(* The workers never all wait for each other, on cv or for state.mutex.    *)
THEOREM NeverStuck == Spec => []Progress
<1>1. Inv => Progress
  <2> SUFFICES ASSUME Inv, ~AllDone, ~(KeepGoing /\ dropped # {}),
                      \A t \in Workers : ~Runnable(t)
               PROVE  FALSE
    BY DEF Progress
  <2>1. state_mutex = NoNode
    <3>1. state_mutex \in Workers \cup {NoNode} /\ \A t \in Workers : pc[t] # "halt"
      BY Zenon DEF Inv, IInv, DriverTypeOK, Runnable
    <3> QED
      BY <3>1 DEF Inv, Parked
  <2>2. \A t \in Workers : pc[t] \in {"wait", "done"}
    BY <2>1 DEF Runnable
  <2>3. /\ work_queue # {} /\ cv_waiters # {} /\ ~halting
        /\ \A t \in Workers : pc[t] = "wait"
    BY <2>2, AllAsleep, Zenon DEF Inv, AllDone
  <2>4. Cardinality(work_queue) <= Cardinality(Entering)
    BY <2>3 DEF Inv, NoLostWakeup, Entering
  <2>5. Entering = {}
    BY <2>3 DEF Entering
  <2>6. Cardinality(work_queue) \in Nat /\ Cardinality(work_queue) # 0
    BY <2>3, EnteringFinite, FS_EmptySet DEF Inv
  <2> QED
    BY <2>4, <2>5, <2>6, FS_EmptySet
<1> QED
  BY <1>1, Invariance, PTL

(* When all workers have returned and no error was found, the execution    *)
(* from the root was explored, and every feasible alternative of every     *)
(* explored execution is on the path of an explored execution.             *)
CompleteAtEnd ==
  AllDone /\ error_trace = NoNode =>
    /\ Execution[Root] \in Explored
    /\ \A p \in Explored : \A s \in Siblings(p) \cap Feasible :
         \E q \in Explored : s \in PathTo(q)

(* run_rfsc_parallel returns without an error only when there is nothing   *)
(* left to explore.                                                        *)
THEOREM Completeness == Spec => []CompleteAtEnd
<1>1. Inv => CompleteAtEnd
  <2> SUFFICES ASSUME Inv, AllDone, error_trace = NoNode
               PROVE  /\ Execution[Root] \in Explored
                      /\ \A p \in Explored : \A s \in Siblings(p) \cap Feasible :
                           \E q \in Explored : s \in PathTo(q)
    BY DEF CompleteAtEnd
  <2>1. halting
    BY DriverAssumption DEF DriverAssumption, Inv, Parked, AllDone
  <2> QED
    BY <2>1, ExhaustedIsComplete DEF Inv
<1> QED
  BY <1>1, Invariance, PTL

(* Every variable of the workers and the scheduler keeps its type; in      *)
(* particular outstanding_jobs never becomes negative.                     *)
THEOREM TypeCorrectness == Spec => []TypeOK
<1>1. Inv => TypeOK
  BY DEF Inv, IInv, TypeOK
<1> QED
  BY <1>1, Invariance, PTL

(* At first only the execution from the root is known.                     *)
LEMMA InitRefines == Init => Promise!Init
<1> SUFFICES ASSUME Init PROVE Promise!Init
  OBVIOUS
<1>1. Explored = {} /\ Verdict = "none" /\ Erroneous \in Failures
  BY DEF Init, DriverInit, Explored, Verdict
<1>2. Busy = {} /\ dropped = {} /\ work_queue = {<< >>}
  BY DEF Init, DriverInit, Busy, Held, Root
<1>3. \A u \in Workers : sibling[u] = NoNode
  BY DEF Init, DriverInit
<1>4. KnownBy(work_queue) = {Execution[<< >>]}
  BY <1>1, <1>2, <1>3 DEF KnownBy
<1> QED
  BY <1>1, <1>4 DEF Promise!Init

(* Every step is one that the promise allows, or leaves what it speaks of. *)
LEMMA NextRefines == Inv /\ [Next]_vars => [Promise!Next]_(Promise!vars)
<1> SUFFICES ASSUME Inv, [Next]_vars PROVE [Promise!Next]_(Promise!vars)
  OBVIOUS
<1>1. PICK K : K = KnownBy(work_queue)
  OBVIOUS
<1>2. PICK L : L = KnownBy(work_queue)'
  OBVIOUS
<1>3. ASSUME NEW t \in Workers, Step(t) \/ SpuriousWakeup(t)
      PROVE  [Promise!Next]_(Promise!vars)
  <2>1. SchedulerStep(t, work_queue, work_queue')
    BY <1>3, StepIsSchedulerStep DEF Inv
  <2>2. /\ Erroneous' = Erroneous
        /\ \/ Explores(K, L) \/ Discovers(K, L) \/ Exhausts(K, L)
           \/ Fails(K, L) \/ Stutters(K, L)
    BY <1>1, <1>2, <2>1, StepRefines DEF Inv
  <2>3. CASE Explores(K, L)
    BY <1>1, <1>2, <2>2, <2>3 DEF Explores, Promise!Next, Promise!Explore
  <2>4. CASE Discovers(K, L)
    BY <1>1, <1>2, <2>2, <2>4
       DEF Discovers, Reaches, PathTo, Promise!Next, Promise!Discover,
           Promise!Covered, Promise!PathTo
  <2>5. CASE Exhausts(K, L)
    BY <1>1, <1>2, <2>2, <2>5
       DEF Exhausts, Reaches, PathTo, Promise!Next, Promise!Exhaust,
           Promise!Covered, Promise!PathTo
  <2>6. CASE Fails(K, L)
    BY <1>1, <1>2, <2>2, <2>6 DEF Fails, Promise!Next, Promise!Fail
  <2>7. CASE Stutters(K, L)
    BY <1>1, <1>2, <2>2, <2>7 DEF Stutters, Promise!vars
  <2> QED
    BY <2>2, <2>3, <2>4, <2>5, <2>6, <2>7
<1>4. ASSUME UNCHANGED vars PROVE [Promise!Next]_(Promise!vars)
  <2>1. UNCHANGED driverVars /\ work_queue' = work_queue
    BY <1>4 DEF vars
  <2>2. /\ UNCHANGED Erroneous /\ Explored' = Explored /\ Verdict' = Verdict
        /\ KnownBy(work_queue)' = KnownBy(work_queue)
    BY <2>1, StutterIInv DEF Inv
  <2> QED
    BY <2>2 DEF Promise!vars
<1> QED
  BY <1>3, <1>4 DEF Next

(* For any set of workers and any decision tree, run_rfsc_parallel with    *)
(* this scheduler implements Exploration: what is known is explored once,  *)
(* only uncovered alternatives become work items, and "exhausted" is       *)
(* reached only when every known execution was explored and none of them   *)
(* has an uncovered alternative.                                           *)
THEOREM Refinement == Spec => ImplementsExploration
<1>1. Spec => Promise!Spec
  BY InitRefines, NextRefines, Invariance, PTL DEF Spec, Promise!Spec
<1> QED
  BY <1>1 DEF ImplementsExploration
=============================================================================
