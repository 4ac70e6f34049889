---------------------- MODULE WorkstealingPQScheduler -----------------------
(***************************************************************************)
(* run_rfsc_parallel with the WorkstealingPQScheduler.  Every worker has a *)
(* ThreadWorkQueue with its own mutex; a worker without work takes the big *)
(* mutex and steals.  A critical section of a queue mutex is one action.   *)
(* The big mutex is held over several actions: others may push to their    *)
(* own queues while a thief looks for a victim.                            *)
(***************************************************************************)
EXTENDS RFSCDriver, FiniteSetsExt, SequencesExt

CONSTANT MaxDepth  \* bound: the deepest decision node is at this depth

Depths == -1..MaxDepth

ASSUME DepthAssumption ==
  MaxDepth \in Nat /\ 0 \in Workers /\ \A n \in Nodes : Len(n) - 1 \in Depths

VARIABLES work_queue,  \* a ThreadWorkQueue per worker: depth -> deque
          mutex,       \* the worker that holds the big mutex, or NoNode
          others       \* the victims a thief has still to try

vars == <<driverVars, work_queue, mutex, others>>

depth(n) == Len(n) - 1

EmptyQueue == [d \in Depths |-> << >>]

(* The constructor of the decision tree runs in thread_id 0.               *)
Init ==
  /\ DriverInit
  /\ work_queue = [[t \in Workers |-> EmptyQueue] EXCEPT ![0][-1] = <<Root>>]
  /\ mutex = NoNode
  /\ others = [t \in Workers |-> {}]

-----------------------------------------------------------------------------
(* ThreadWorkQueue.  An absent map entry is an empty deque.                *)

Used(q) == {d \in Depths : q[d] # << >>}

empty(q) == Used(q) = {}

push(q, n) == [q EXCEPT ![depth(n)] = Append(@, n)]

(* pop() takes the front of the deepest deque.                             *)
popped(q) == Head(q[Max(Used(q))])
pop(q) == [q EXCEPT ![Max(Used(q))] = Tail(@)]

(* steal() moves the last (size + 1) / 2 elements of the victim's          *)
(* shallowest deque; moving them one by one to the front keeps their       *)
(* order.                                                                  *)
stolen(other) ==
  LET s == other[Min(Used(other))] IN
  SubSeq(s, Len(s) - (Len(s) + 1) \div 2 + 1, Len(s))
M_afterSteal(other) ==
  [other EXCEPT ![Min(Used(other))] = SubSeq(@, 1, Len(@) - Len(@) \div 2)]
afterSteal(other) ==
  [other EXCEPT ![Min(Used(other))] = SubSeq(@, 1, Len(@) - (Len(@) + 1) \div 2)]
steal(q, other) == [q EXCEPT ![Min(Used(other))] = stolen(other)]

-----------------------------------------------------------------------------
(* The test at the head of dequeue() that sends the worker stealing.       *)
NoOwnWork(t) == empty(work_queue[t])

(* dequeue(), under the worker's own mutex.                                *)
DequeueHalting(t) ==
  /\ pc[t] = "dequeue"
  /\ halting
  /\ Goto(t, "done")
  /\ UNCHANGED <<Erroneous, work_item, todo, sibling, errors,
                 children_unf_set, pruned_subtree, outstanding_jobs, halting,
                 cv_waiters, state_mutex, error_trace, explored, dropped,
                 work_queue, mutex, others>>

DequeueOwn(t) ==
  /\ pc[t] = "dequeue"
  /\ ~halting
  /\ ~empty(work_queue[t])
  /\ work_item' = [work_item EXCEPT ![t] = popped(work_queue[t])]
  /\ work_queue' = [work_queue EXCEPT ![t] = pop(@)]
  /\ Goto(t, "check")
  /\ UNCHANGED <<Erroneous, todo, sibling, errors, children_unf_set,
                 pruned_subtree, outstanding_jobs, halting, cv_waiters,
                 state_mutex, error_trace, explored, dropped, mutex, others>>

DequeueNothing(t) ==
  /\ pc[t] = "dequeue"
  /\ ~halting
  /\ NoOwnWork(t)
  /\ Goto(t, "steal")
  /\ UNCHANGED <<Erroneous, work_item, todo, sibling, errors,
                 children_unf_set, pruned_subtree, outstanding_jobs, halting,
                 cv_waiters, state_mutex, error_trace, explored, dropped,
                 work_queue, mutex, others>>

(* The loop of dequeue() under the big mutex: acquire it, look at halting, *)
(* then at the worker's own queue, without that queue's mutex.             *)
StealHalting(t) ==
  /\ pc[t] = "steal"
  /\ mutex = NoNode
  /\ halting
  /\ Goto(t, "done")
  /\ UNCHANGED <<Erroneous, work_item, todo, sibling, errors,
                 children_unf_set, pruned_subtree, outstanding_jobs, halting,
                 cv_waiters, state_mutex, error_trace, explored, dropped,
                 work_queue, mutex, others>>

StealBegin(t) ==
  /\ pc[t] = "steal"
  /\ mutex = NoNode
  /\ ~halting
  /\ IF empty(work_queue[t])
       THEN /\ mutex' = t
            /\ others' = [others EXCEPT ![t] = Workers \ {t}]
            /\ Goto(t, "scan")
            /\ UNCHANGED <<work_item, work_queue>>
       ELSE /\ work_item' = [work_item EXCEPT ![t] = popped(work_queue[t])]
            /\ work_queue' = [work_queue EXCEPT ![t] = pop(@)]
            /\ Goto(t, "check")
            /\ UNCHANGED <<mutex, others>>
  /\ UNCHANGED <<Erroneous, todo, sibling, errors, children_unf_set,
                 pruned_subtree, outstanding_jobs, halting, cv_waiters,
                 state_mutex, error_trace, explored, dropped>>

(* One victim of the shuffled others, under its queue's mutex; on success  *)
(* pop and release the big mutex.                                          *)
StealFrom(t) ==
  /\ pc[t] = "scan"
  /\ \E v \in others[t] :
       IF empty(work_queue[v])
         THEN /\ others' = [others EXCEPT ![t] = @ \ {v}]
              /\ UNCHANGED <<pc, work_item, work_queue, mutex>>
         ELSE LET q == steal(work_queue[t], work_queue[v]) IN
              /\ work_item' = [work_item EXCEPT ![t] = popped(q)]
              /\ work_queue' = [work_queue EXCEPT ![t] = pop(q),
                                                  ![v] = afterSteal(@)]
              /\ others' = [others EXCEPT ![t] = {}]
              /\ mutex' = NoNode
              /\ Goto(t, "check")
  /\ UNCHANGED <<Erroneous, todo, sibling, errors, children_unf_set,
                 pruned_subtree, outstanding_jobs, halting, cv_waiters,
                 state_mutex, error_trace, explored, dropped>>

(* Nobody had work: cv.wait releases the big mutex.                        *)
StealWait(t) ==
  /\ pc[t] = "scan"
  /\ others[t] = {}
  /\ mutex' = NoNode
  /\ cv_waiters' = cv_waiters \cup {t}
  /\ Goto(t, "wait")
  /\ UNCHANGED <<Erroneous, work_item, todo, sibling, errors,
                 children_unf_set, pruned_subtree, outstanding_jobs, halting,
                 state_mutex, error_trace, explored, dropped, work_queue,
                 others>>

(* The queue enqueue() selects: the one of the calling thread_id.          *)
own(t) == t

(* enqueue(): push to the worker's own queue and notify one waiter; the    *)
(* big mutex is not held.                                                  *)
Push(t) ==
  /\ pc[t] = "push"
  /\ work_queue' = [work_queue EXCEPT ![own(t)] = push(@, sibling[t])]
  /\ sibling' = [sibling EXCEPT ![t] = NoNode]
  /\ \E woken \in notify_one :
       /\ cv_waiters' = cv_waiters \ woken
       /\ pc' = [u \in Workers |-> IF u = t THEN "prefixes"
                                   ELSE IF u \in woken THEN "steal" ELSE pc[u]]
  /\ UNCHANGED <<Erroneous, work_item, todo, errors, children_unf_set,
                 pruned_subtree, outstanding_jobs, halting, state_mutex,
                 error_trace, explored, dropped, mutex, others>>

SpuriousWakeup(t) ==
  /\ t \in cv_waiters
  /\ cv_waiters' = cv_waiters \ {t}
  /\ Goto(t, "steal")
  /\ UNCHANGED <<Erroneous, work_item, todo, sibling, errors,
                 children_unf_set, pruned_subtree, outstanding_jobs, halting,
                 state_mutex, error_trace, explored, dropped, work_queue,
                 mutex, others>>

Step(t) ==
  \/ DequeueHalting(t) \/ DequeueOwn(t) \/ DequeueNothing(t)
  \/ StealHalting(t) \/ StealBegin(t) \/ StealFrom(t) \/ StealWait(t)
  \/ Push(t)
  \/ /\ DriverStep(t) \/ (mutex = NoNode /\ Halt(t, "steal"))
     /\ UNCHANGED <<work_queue, mutex, others>>

AllDone == \A t \in Workers : pc[t] = "done"

Next == \/ \E t \in Workers : Step(t) \/ SpuriousWakeup(t)
        \/ AllDone /\ UNCHANGED vars

Spec == Init /\ [][Next]_vars

(* The operating system runs every worker that is not blocked, and a       *)
(* worker that finds the big mutex free again and again gets it.           *)
FairSpec == Spec /\ \A t \in Workers : SF_vars(Step(t))
-----------------------------------------------------------------------------
Queued(t) == UNION {ToSet(work_queue[t][d]) : d \in Depths}

AllQueued == UNION {Queued(t) : t \in Workers}

(* outstanding_jobs counts the jobs in all queues, those being executed    *)
(* and those between enqueue()'s fetch_add and its push; a steal moves     *)
(* jobs between queues and loses or copies none, so that no job is queued  *)
(* in two places.                                                          *)
JobAccounting ==
  /\ outstanding_jobs = Cardinality(AllQueued \cup Busy \cup dropped)
  /\ \A t, u \in Workers, d, e \in Depths :
       \A i \in 1..Len(work_queue[t][d]), j \in 1..Len(work_queue[u][e]) :
         work_queue[t][d][i] = work_queue[u][e][j] => t = u /\ d = e /\ i = j

Promise ==
  INSTANCE Exploration WITH
    known <- KnownBy(AllQueued), explored <- Explored, verdict <- Verdict

(* The workers and this scheduler implement the exploration promised by    *)
(* module Exploration.                                                     *)
ImplementsExploration == Promise!Spec

(* run_rfsc_parallel returns, although a thief can miss the notification   *)
(* of work that is pushed while it is scanning.                            *)
Termination == <>AllDone
=============================================================================
