----------------------- MODULE PriorityQueueScheduler -----------------------
(***************************************************************************)
(* run_rfsc_parallel with the PriorityQueueScheduler: one queue and one    *)
(* condition variable under one mutex.  A critical section of that mutex   *)
(* is one action; cv.wait ends one critical section and, once notified,    *)
(* starts another.                                                         *)
(***************************************************************************)
EXTENDS RFSCDriver

VARIABLE work_queue  \* the queued work items, ordered by depth only

vars == <<driverVars, work_queue>>

Init == DriverInit /\ work_queue = {Root}

(* dequeue(): a halting scheduler hands out nothing, queued work or not.   *)
DequeueHalting(t) ==
  /\ pc[t] = "dequeue"
  /\ halting
  /\ Goto(t, "done")
  /\ UNCHANGED <<Erroneous, work_item, todo, sibling, errors,
                 children_unf_set, pruned_subtree, outstanding_jobs, halting,
                 cv_waiters, state_mutex, error_trace, explored, dropped,
                 work_queue>>

M_pop(n) == work_queue
pop(n) == work_queue \ {n}

(* dequeue(): DecisionCompare puts a deepest node at the top of the queue. *)
DequeueTop(t) ==
  /\ pc[t] = "dequeue"
  /\ ~halting
  /\ \E n \in work_queue :
       /\ \A m \in work_queue : Len(m) <= Len(n)
       /\ work_queue' = pop(n)
       /\ work_item' = [work_item EXCEPT ![t] = n]
  /\ Goto(t, "check")
  /\ UNCHANGED <<Erroneous, todo, sibling, errors, children_unf_set,
                 pruned_subtree, outstanding_jobs, halting, cv_waiters,
                 state_mutex, error_trace, explored, dropped>>

(* dequeue(): nothing to do yet; cv.wait releases the mutex.               *)
DequeueWait(t) ==
  /\ pc[t] = "dequeue"
  /\ ~halting
  /\ work_queue = {}
  /\ cv_waiters' = cv_waiters \cup {t}
  /\ Goto(t, "wait")
  /\ UNCHANGED <<Erroneous, work_item, todo, sibling, errors,
                 children_unf_set, pruned_subtree, outstanding_jobs, halting,
                 state_mutex, error_trace, explored, dropped, work_queue>>

(* enqueue(): emplace the sibling and notify one waiter, if there is one.  *)
Push(t) ==
  /\ pc[t] = "push"
  /\ work_queue' = work_queue \cup {sibling[t]}
  /\ sibling' = [sibling EXCEPT ![t] = NoNode]
  /\ \E woken \in notify_one :
       /\ cv_waiters' = cv_waiters \ woken
       /\ pc' = [u \in Workers |-> IF u = t THEN "prefixes"
                                   ELSE IF u \in woken THEN "dequeue" ELSE pc[u]]
  /\ UNCHANGED <<Erroneous, work_item, todo, errors, children_unf_set,
                 pruned_subtree, outstanding_jobs, halting, state_mutex,
                 error_trace, explored, dropped>>

(* cv.wait may return although nobody called notify.                       *)
SpuriousWakeup(t) ==
  /\ t \in cv_waiters
  /\ cv_waiters' = cv_waiters \ {t}
  /\ Goto(t, "dequeue")
  /\ UNCHANGED <<Erroneous, work_item, todo, sibling, errors,
                 children_unf_set, pruned_subtree, outstanding_jobs, halting,
                 state_mutex, error_trace, explored, dropped, work_queue>>

Step(t) ==
  \/ DequeueHalting(t) \/ DequeueTop(t) \/ DequeueWait(t) \/ Push(t)
  \/ /\ DriverStep(t) \/ Halt(t, "dequeue")
     /\ UNCHANGED work_queue

AllDone == \A t \in Workers : pc[t] = "done"

Next == \/ \E t \in Workers : Step(t) \/ SpuriousWakeup(t)
        \/ AllDone /\ UNCHANGED vars

Spec == Init /\ [][Next]_vars

(* The operating system runs every worker that is not blocked; it owes     *)
(* nobody a spurious wake-up.                                              *)
FairSpec == Spec /\ \A t \in Workers : WF_vars(Step(t))
-----------------------------------------------------------------------------
TypeOK == DriverTypeOK /\ work_queue \subseteq Nodes

(* outstanding_jobs counts the queued jobs, the jobs being executed, and   *)
(* those between enqueue()'s fetch_add and its push; jobs that reset()     *)
(* skipped as pruned are never subtracted.                                 *)
JobAccounting ==
  outstanding_jobs = Cardinality(work_queue \cup Busy \cup dropped)

(* Unless an error stops the exploration, the workers are told to halt     *)
(* only when no work item is queued, executing or about to be queued: the  *)
(* remain == 0 test of run_rfsc_parallel is never true too early.          *)
HaltOnlyWhenExhausted ==
  \A t \in Workers : (pc[t] = "halt" \/ halting) /\ error_trace = NoNode =>
     work_queue = {} /\ Busy = {}

(* A work item is in one place: no two workers hold the same one, and none *)
(* is held while it is queued.                                             *)
OneOwner ==
  /\ work_queue \cap Busy = {}
  /\ \A t, u \in Workers : t # u => Held(t) \cap Held(u) = {}

(* No complete execution is explored twice, by whichever workers race to   *)
(* discover it: try_alloc_unf arbitrates.                                  *)
NoDuplicateExploration == \A n \in Nodes : explored[n] <= 1

(* No lost wake-up: while a worker sleeps in cv.wait there are at least as *)
(* many workers on their way into dequeue() as there are queued jobs.      *)
NoLostWakeup ==
  cv_waiters # {} /\ ~halting =>
    Cardinality(work_queue) <= Cardinality({t \in Workers : pc[t] = "dequeue"})

(* If an execution failed, then once the workers have returned a failing   *)
(* execution is reported as res.error_trace.                               *)
ErrorReported ==
  AllDone /\ Explored \cap Erroneous # {} =>
    error_trace \in Explored \cap Erroneous

Promise ==
  INSTANCE Exploration WITH
    known <- KnownBy(work_queue), explored <- Explored, verdict <- Verdict

(* The workers and this scheduler implement the exploration promised by    *)
(* module Exploration.                                                     *)
ImplementsExploration == Promise!Spec

(* run_rfsc_parallel returns: the workers are joined.                      *)
Termination == <>AllDone
=============================================================================
