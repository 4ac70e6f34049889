------------------------- MODULE RFSCDriver_proofs --------------------------
(***************************************************************************)
(* What holds of the workers of run_rfsc_parallel under any scheduler, for *)
(* any set of workers and any decision tree.  A scheduler is seen here     *)
(* only through the set of work items it has queued: Q before a step and R *)
(* after it.  The proofs about the two schedulers show that each of their  *)
(* steps is a SchedulerStep, and take the rest from here.                  *)
(*                                                                         *)
(* The argument has three parts.  Every work item is in exactly one place, *)
(* and outstanding_jobs counts those that have been counted (Placed,       *)
(* Accounting, Exhausted).  The work items that have not been executed yet *)
(* lead to different executions, all of them new (Unexplored, Covered).    *)
(* An error is on its way to error_trace until it is there (Blame).        *)
(***************************************************************************)
EXTENDS RFSCDriver, FiniteSetTheorems, SequenceTheorems, TLAPS

(* The provers that a leaf is tried with, unless it names its own.         *)
USE SMTT(10), Z3T(10), Zenon

(* The jobs outstanding_jobs stands for.                                   *)
Jobs(Q) == Q \cup Busy \cup dropped

(* Where a worker is that has no work item and is not halting the others,  *)
(* and where it is once its work item has been executed.                   *)
Idle == {"dequeue", "steal", "scan", "wait", "done"}
Computing == {"prefixes", "fetch_add", "push"}
Ran == Computing \cup {"finish"}

(* What a worker holds is determined by where it is.                       *)
Shape ==
  \A t \in Workers :
    /\ work_item[t] # NoNode <=> pc[t] \in {"check", "run"} \cup Ran
    /\ sibling[t] # NoNode <=> pc[t] \in {"fetch_add", "push"}
    /\ t \in cv_waiters => pc[t] = "wait"

(* Every node in circulation was allocated, and a node that a worker has   *)
(* just allocated, but not yet counted, is nowhere else.                   *)
Placed(Q) ==
  /\ Q \cup dropped \subseteq children_unf_set \cup {Root}
  /\ Q \cap dropped = {}
  /\ \A t \in Workers :
       /\ work_item[t] \notin Q \cup dropped
       /\ sibling[t] \notin Q \cup dropped
       /\ work_item[t] \in children_unf_set \cup {Root, NoNode}
       /\ sibling[t] \in (children_unf_set \ {Root}) \cup {NoNode}
       /\ \A u \in Workers :
            /\ work_item[t] # NoNode => work_item[t] # sibling[u]
            /\ t # u /\ work_item[t] # NoNode => work_item[t] # work_item[u]
            /\ t # u /\ sibling[t] # NoNode => sibling[t] # sibling[u]

(* outstanding_jobs counts the jobs.                                       *)
Accounting(Q) == outstanding_jobs = Cardinality(Jobs(Q))

(* The workers are halted only when no job is left, or for an error.       *)
Exhausted(Q) ==
  \A t \in Workers :
    (pc[t] = "halt" \/ halting) /\ error_trace = NoNode => Jobs(Q) = {}

(* The work items that no worker has executed.                             *)
Pending(Q) ==
  Q \cup dropped
    \cup {work_item[t] : t \in {u \in Workers : pc[u] \in {"check", "run"}}}
    \cup {sibling[t] : t \in {u \in Workers : sibling[u] # NoNode}}

(* No execution was explored twice.  The path to a pending work item is    *)
(* allocated, but neither an explored execution nor the one another        *)
(* pending work item leads to passes through it.                           *)
Unexplored(Q) ==
  /\ \A n \in Nodes : explored[n] <= 1
  /\ \A q \in Explored : PathTo(q) \subseteq children_unf_set
  /\ \A w \in Pending(Q) :
       /\ PathTo(w) \subseteq children_unf_set
       /\ w = Root => Explored = {} /\ Pending(Q) = {Root}
       /\ \A q \in Explored : w \notin PathTo(q)
       /\ \A v \in Pending(Q) : v # w => w \notin PathTo(Execution[v])

(* A worker computes prefixes only of an execution that was explored, and  *)
(* considers only the alternatives of that execution.                      *)
RanExplored ==
  \A t \in Workers : pc[t] \in Ran => Execution[work_item[t]] \in Explored
TodoSiblings ==
  \A t \in Workers : pc[t] \in Computing =>
    \A i \in 1..Len(todo[t]) : todo[t][i] \in Siblings(Execution[work_item[t]])

(* Every alternative of an explored execution is allocated or still to be  *)
(* considered, and if it is allocated and feasible then it is covered.     *)
SiblingsSeen ==
  \A p \in Explored : \A s \in Siblings(p) :
    \/ s \in children_unf_set
    \/ \E t \in Workers : /\ pc[t] \in Computing
                          /\ Execution[work_item[t]] = p
                          /\ \E i \in 1..Len(todo[t]) : todo[t][i] = s
Covered(Q) ==
  \A s \in children_unf_set \cap Feasible : \E q \in KnownBy(Q) : s \in PathTo(q)

(* error_trace is a failing execution; as long as there is none, a worker  *)
(* that has seen an error is still computing the prefixes of the failing   *)
(* execution, and if there was a failing execution there is such a worker. *)
Blame ==
  /\ error_trace # NoNode => error_trace \in Explored \cap Erroneous
  /\ \A t \in Workers : errors[t] /\ error_trace = NoNode =>
       pc[t] \in Ran /\ Execution[work_item[t]] \in Erroneous
  /\ Explored \cap Erroneous # {} =>
       error_trace # NoNode \/ \E t \in Workers : errors[t]

IInv(Q) ==
  /\ DriverTypeOK /\ Q \subseteq Nodes
  /\ Shape
  /\ Placed(Q)
  /\ Accounting(Q)
  /\ Exhausted(Q)
  /\ Unexplored(Q)
  /\ RanExplored /\ TodoSiblings /\ SiblingsSeen
  /\ Covered(Q)
  /\ Blame

-----------------------------------------------------------------------------
(* The steps of a scheduler, seen from the set of queued work items.       *)

(* dequeue() returns a queued work item.                                   *)
Take(t, Q, R) ==
  /\ pc[t] \in {"dequeue", "steal", "scan"}
  /\ \E n \in Q : R = Q \ {n} /\ work_item' = [work_item EXCEPT ![t] = n]
  /\ Goto(t, "check")
  /\ UNCHANGED <<Erroneous, todo, sibling, errors, children_unf_set,
                 pruned_subtree, outstanding_jobs, halting, cv_waiters,
                 state_mutex, error_trace, explored, dropped>>

(* enqueue() queues the sibling and wakes some of the waiters.             *)
Put(t, Q, R) ==
  /\ pc[t] = "push"
  /\ R = Q \cup {sibling[t]}
  /\ sibling' = [sibling EXCEPT ![t] = NoNode]
  /\ \E woken \in SUBSET cv_waiters, l \in {"dequeue", "steal"} :
       /\ cv_waiters' = cv_waiters \ woken
       /\ pc' = [u \in Workers |-> IF u = t THEN "prefixes"
                                   ELSE IF u \in woken THEN l ELSE pc[u]]
  /\ UNCHANGED <<Erroneous, work_item, todo, errors, children_unf_set,
                 pruned_subtree, outstanding_jobs, halting, state_mutex,
                 error_trace, explored, dropped>>

(* A worker without work moves within dequeue(), or leaves it.             *)
Roam(t, Q, R) ==
  /\ R = Q
  /\ pc[t] \in Idle
  /\ \E l \in Idle :
       /\ Goto(t, l)
       /\ cv_waiters' = IF l = "wait" THEN cv_waiters \cup {t} ELSE cv_waiters \ {t}
  /\ UNCHANGED <<Erroneous, work_item, todo, sibling, errors,
                 children_unf_set, pruned_subtree, outstanding_jobs, halting,
                 state_mutex, error_trace, explored, dropped>>

SchedulerStep(t, Q, R) ==
  \/ Take(t, Q, R) \/ Put(t, Q, R) \/ Roam(t, Q, R)
  \/ /\ R = Q
     /\ DriverStep(t) \/ Halt(t, "dequeue") \/ Halt(t, "steal")

-----------------------------------------------------------------------------
(* Type correctness.                                                       *)

(* When run_rfsc_parallel starts its workers, every variable has its type. *)
LEMMA InitTypeOK == DriverInit => DriverTypeOK
<1> SUFFICES ASSUME DriverInit PROVE DriverTypeOK
  OBVIOUS
<1>1. todo \in [Workers -> Seq(Nodes \ {Root})]
  <2>1. << >> \in Seq(Nodes \ {Root})
    OBVIOUS
  <2> QED
    BY <2>1 DEF DriverInit
<1>2. /\ pc \in [Workers -> Labels]
      /\ errors \in [Workers -> BOOLEAN]
      /\ halting \in BOOLEAN
      /\ explored \in [Nodes -> Nat]
      /\ outstanding_jobs \in Nat
  BY Zenon DEF DriverInit, Labels
<1>3. /\ work_item \in [Workers -> Nodes \cup {NoNode}]
      /\ sibling \in [Workers -> Nodes \cup {NoNode}]
  BY DEF DriverInit
<1>4. /\ Erroneous \subseteq Nodes
      /\ children_unf_set \subseteq Nodes
      /\ pruned_subtree \subseteq Nodes
      /\ cv_waiters \subseteq Workers
      /\ state_mutex \in Workers \cup {NoNode}
      /\ error_trace \in Nodes \cup {NoNode}
      /\ dropped \subseteq Nodes
  BY DriverAssumption DEF DriverAssumption, DriverInit
<1> QED
  BY <1>1, <1>2, <1>3, <1>4 DEF DriverTypeOK

(* What TryAlloc does with the alternative s at the head of todo.          *)
LEMMA TryAllocEffect ==
  ASSUME DriverTypeOK, NEW t \in Workers, TryAlloc(t)
  PROVE  /\ pc[t] = "prefixes"
         /\ todo' \in [Workers -> Seq(Nodes \ {Root})]
         /\ todo[t] # << >> /\ todo' = [todo EXCEPT ![t] = Tail(todo[t])]
         /\ \E s \in Nodes \ {Root} :
              /\ s = todo[t][1] /\ 1 \in 1..Len(todo[t])
              /\ children_unf_set' = children_unf_set \cup {s}
              /\ \/ /\ s \notin children_unf_set
                    /\ s \in Feasible
                    /\ sibling' = [sibling EXCEPT ![t] = s]
                    /\ pc' = [pc EXCEPT ![t] = "fetch_add"]
                 \/ /\ s \in children_unf_set \/ s \notin Feasible
                    /\ sibling' = sibling /\ pc' = pc
<1>1. todo[t] \in Seq(Nodes \ {Root}) /\ todo[t] # << >>
  BY DEF TryAlloc, DriverTypeOK
<1>2. /\ Head(todo[t]) \in Nodes \ {Root}
      /\ Tail(todo[t]) \in Seq(Nodes \ {Root})
      /\ Head(todo[t]) = todo[t][1] /\ 1 \in 1..Len(todo[t])
  BY <1>1
<1>3. todo' \in [Workers -> Seq(Nodes \ {Root})]
  BY <1>2 DEF TryAlloc, DriverTypeOK
<1> QED
  BY <1>1, <1>2, <1>3 DEF TryAlloc, Goto, try_alloc_unf

(* Every step of a worker, in run_rfsc_parallel or in the scheduler, keeps *)
(* the types.                                                              *)
LEMMA StepTypeOK ==
  ASSUME NEW Q, NEW R, Q \subseteq Nodes, DriverTypeOK, Shape,
         NEW t \in Workers, SchedulerStep(t, Q, R),
         outstanding_jobs - 1 \in Nat \/ pc[t] # "finish"
  PROVE  DriverTypeOK' /\ R \subseteq Nodes
<1> USE DriverAssumption DEF DriverAssumption, DriverTypeOK, Labels, Goto
<1>1. CASE Take(t, Q, R)
  BY <1>1 DEF Take
<1>2. CASE Put(t, Q, R)
  <2>1. sibling[t] \in Nodes
    BY <1>2 DEF Put, Shape
  <2> QED
    BY <1>2, <2>1 DEF Put
<1>3. CASE Roam(t, Q, R)
  BY <1>3 DEF Roam, Idle
<1>4. CASE SkipPruned(t) /\ R = Q
  BY <1>4 DEF SkipPruned, Shape, Ran, Computing
<1>5. CASE Accept(t) /\ R = Q
  BY <1>5 DEF Accept
<1>6. CASE RunOnce(t) /\ R = Q
  <2>1. work_item[t] \in Nodes
    BY <1>6 DEF RunOnce, Shape
  <2>2. PathTo(Execution[work_item[t]]) \subseteq Nodes
    BY <2>1, TreeAssumption DEF TreeAssumption
  <2>3. explored' \in [Nodes -> Nat]
    BY <1>6, <2>1 DEF RunOnce
  <2> QED
    BY <1>6, <2>1, <2>2, <2>3, ZenonT(60) DEF RunOnce, PrunedBy, NewDecisions
<1>7. CASE TryAlloc(t) /\ R = Q
  <2> HIDE DEF DriverTypeOK, Labels
  <2>1. PICK s \in Nodes \ {Root} :
          /\ children_unf_set' = children_unf_set \cup {s}
          /\ \/ /\ sibling' = [sibling EXCEPT ![t] = s]
                /\ pc' = [pc EXCEPT ![t] = "fetch_add"]
             \/ sibling' = sibling /\ pc' = pc
    BY <1>7, TryAllocEffect, Zenon
  <2>2. sibling' \in [Workers -> Nodes \cup {NoNode}]
    <3>1. sibling \in [Workers -> Nodes \cup {NoNode}]
      BY DEF DriverTypeOK
    <3>2. sibling' = sibling \/ sibling' = [sibling EXCEPT ![t] = s]
      BY <2>1
    <3> HIDE DriverAssumption DEF DriverAssumption
    <3> QED
      BY <3>1, <3>2
  <2>3. pc' \in [Workers -> Labels]
    BY <2>1, ZenonT(60) DEF DriverTypeOK, Labels
  <2>4. todo' \in [Workers -> Seq(Nodes \ {Root})]
    BY <1>7, TryAllocEffect
  <2>5. UNCHANGED <<Erroneous, work_item, errors, pruned_subtree,
                    outstanding_jobs, halting, cv_waiters, state_mutex,
                    error_trace, explored, dropped>>
    BY <1>7 DEF TryAlloc
  <2> QED
    BY <1>7, <2>1, <2>2, <2>3, <2>4, <2>5 DEF DriverTypeOK
<1>8. CASE FetchAdd(t) /\ R = Q
  BY <1>8 DEF FetchAdd, fetch_add
<1>9. CASE EndPrefixes(t) /\ R = Q
  BY <1>9 DEF EndPrefixes
<1>10. CASE Finish(t) /\ R = Q
  <2> HIDE DEF DriverTypeOK, Labels
  <2>1. work_item[t] \in Nodes
    BY <1>10 DEF Finish, Shape, DriverTypeOK, Ran
  <2>2. Execution[work_item[t]] \in Nodes
    BY <2>1
  <2>3. error_trace' \in Nodes \cup {NoNode}
    BY <1>10, <2>2 DEF Finish, HandleTrace, DriverTypeOK
  <2>4. pc' \in [Workers -> Labels] /\ state_mutex' \in Workers \cup {NoNode}
    BY <1>10, ZenonT(60) DEF Finish, DriverTypeOK, Labels
  <2>5. /\ work_item' \in [Workers -> Nodes \cup {NoNode}]
        /\ outstanding_jobs' \in Nat
    BY <1>10 DEF Finish, DriverTypeOK
  <2>6. UNCHANGED <<Erroneous, todo, sibling, errors, children_unf_set,
                    pruned_subtree, halting, cv_waiters, explored, dropped>>
    BY <1>10 DEF Finish
  <2> QED
    BY <1>10, <2>3, <2>4, <2>5, <2>6 DEF DriverTypeOK
<1>11. CASE (Halt(t, "dequeue") \/ Halt(t, "steal")) /\ R = Q
  BY <1>11, ZenonT(60) DEF Halt, notify_all
<1> QED
  BY <1>1, <1>2, <1>3, <1>4, <1>5, <1>6, <1>7, <1>8, <1>9, <1>10, <1>11, Zenon
     DEF SchedulerStep, DriverStep

-----------------------------------------------------------------------------
(* Where work items are.                                                   *)

(* A worker that moves on picks up and lays down what Shape says.          *)
LEMMA StepShape ==
  ASSUME NEW Q, NEW R, IInv(Q), NEW t \in Workers, SchedulerStep(t, Q, R)
  PROVE  Shape'
<1>a. /\ pc \in [Workers -> Labels]
      /\ work_item \in [Workers -> Nodes \cup {NoNode}]
      /\ sibling \in [Workers -> Nodes \cup {NoNode}]
      /\ cv_waiters \subseteq Workers
      /\ Q \subseteq Nodes
      /\ NoNode \notin Nodes
  BY DriverAssumption DEF DriverAssumption, IInv, DriverTypeOK
<1>b. Shape
  BY DEF IInv
<1> USE <1>a, <1>b DEF Shape, Goto, Ran, Computing
<1>1. CASE Take(t, Q, R)
  BY <1>1 DEF Take
<1>2. CASE Put(t, Q, R)
  BY <1>2 DEF Put
<1>3. CASE Roam(t, Q, R)
  BY <1>3 DEF Roam, Idle
<1>4. CASE SkipPruned(t)
  BY <1>4 DEF SkipPruned
<1>5. CASE Accept(t)
  BY <1>5 DEF Accept
<1>6. CASE RunOnce(t)
  BY <1>6 DEF RunOnce
<1>7. CASE TryAlloc(t)
  <2>1. PICK s \in Nodes \ {Root} :
          \/ /\ sibling' = [sibling EXCEPT ![t] = s]
             /\ pc' = [pc EXCEPT ![t] = "fetch_add"]
          \/ sibling' = sibling /\ pc' = pc
    BY <1>7, TryAllocEffect DEF IInv
  <2> QED
    BY <1>7, <2>1 DEF TryAlloc
<1>8. CASE FetchAdd(t)
  BY <1>8 DEF FetchAdd
<1>9. CASE EndPrefixes(t)
  BY <1>9 DEF EndPrefixes
<1>10. CASE Finish(t)
  BY <1>10 DEF Finish
<1>11. CASE Halt(t, "dequeue") \/ Halt(t, "steal")
  BY <1>11 DEF Halt, notify_all
<1> QED
  BY <1>1, <1>2, <1>3, <1>4, <1>5, <1>6, <1>7, <1>8, <1>9, <1>10, <1>11
     DEF SchedulerStep, DriverStep

(* A work item moves from one place to another: try_alloc_unf gives a new  *)
(* node to one worker only, and every later step moves a node it holds.    *)
LEMMA StepPlaced ==
  ASSUME NEW Q, NEW R, IInv(Q), NEW t \in Workers, SchedulerStep(t, Q, R)
  PROVE  Placed(R)'
<1>a. /\ pc \in [Workers -> Labels]
      /\ work_item \in [Workers -> Nodes \cup {NoNode}]
      /\ sibling \in [Workers -> Nodes \cup {NoNode}]
      /\ children_unf_set \subseteq Nodes
      /\ Q \subseteq Nodes
      /\ dropped \subseteq Nodes
      /\ NoNode \notin Nodes
  BY DriverAssumption DEF DriverAssumption, IInv, DriverTypeOK
<1>b. Shape /\ Placed(Q)
  BY DEF IInv
<1> USE <1>a, <1>b DEF Shape, Placed, Goto, Ran, Computing
<1>1. CASE Take(t, Q, R)
  BY <1>1 DEF Take
<1>2. CASE Put(t, Q, R)
  BY <1>2 DEF Put
<1>3. CASE Roam(t, Q, R)
  BY <1>3 DEF Roam
<1>4. CASE SkipPruned(t) /\ R = Q
  BY <1>4 DEF SkipPruned
<1>5. CASE Accept(t) /\ R = Q
  BY <1>5 DEF Accept
<1>6. CASE RunOnce(t) /\ R = Q
  BY <1>6 DEF RunOnce
<1>7. CASE TryAlloc(t) /\ R = Q
  <2>1. PICK s \in Nodes \ {Root} :
          /\ children_unf_set' = children_unf_set \cup {s}
          /\ \/ /\ s \notin children_unf_set
                /\ sibling' = [sibling EXCEPT ![t] = s]
                /\ pc' = [pc EXCEPT ![t] = "fetch_add"]
             \/ sibling' = sibling /\ pc' = pc
    BY <1>7, TryAllocEffect, Zenon DEF IInv
  <2> QED
    BY <1>7, <2>1 DEF TryAlloc
<1>8. CASE FetchAdd(t) /\ R = Q
  BY <1>8 DEF FetchAdd
<1>9. CASE EndPrefixes(t) /\ R = Q
  BY <1>9 DEF EndPrefixes
<1>10. CASE Finish(t) /\ R = Q
  BY <1>10 DEF Finish
<1>11. CASE (Halt(t, "dequeue") \/ Halt(t, "steal")) /\ R = Q
  BY <1>11 DEF Halt, notify_all
<1> QED
  BY <1>1, <1>2, <1>3, <1>4, <1>5, <1>6, <1>7, <1>8, <1>9, <1>10, <1>11, Zenon
     DEF SchedulerStep, DriverStep

-----------------------------------------------------------------------------
(* Counting the jobs.                                                      *)

(* A worker holds x, as TB.work_item or on its way into the queue.         *)
Holds(x) == \E t \in Workers :
  x # NoNode /\ (x = work_item[t] \/ (pc[t] = "push" /\ x = sibling[t]))

(* The busy work items are those some worker holds.                        *)
LEMMA BusyMembers == \A x : x \in Busy <=> Holds(x)
BY DEF Busy, Held, Holds

(* The busy work items after a step of the workers.                        *)
LEMMA BusyMembersNext == \A x : x \in Busy' <=> Holds(x)'
BY DEF Busy, Held, Holds

(* The jobs that outstanding_jobs counts are finitely many.                *)
LEMMA JobsFinite ==
  ASSUME NEW Q, IInv(Q)
  PROVE  Jobs(Q) \subseteq Nodes /\ IsFiniteSet(Jobs(Q))
<1>1. Jobs(Q) \subseteq Nodes
  <2>1. /\ Q \subseteq Nodes
        /\ dropped \subseteq Nodes
        /\ work_item \in [Workers -> Nodes \cup {NoNode}]
        /\ sibling \in [Workers -> Nodes \cup {NoNode}]
    BY DEF IInv, DriverTypeOK
  <2>2. \A x : Holds(x) => x \in Nodes
    BY <2>1 DEF Holds
  <2> QED
    BY <2>1, <2>2, BusyMembers DEF Jobs
<1> QED
  BY <1>1, FS_Subset, DriverAssumption DEF DriverAssumption

(* A worker that finishes a job finishes a counted one.                    *)
LEMMA FinishCounts ==
  ASSUME NEW Q, IInv(Q), NEW t \in Workers, pc[t] = "finish"
  PROVE  /\ work_item[t] \in Jobs(Q)
         /\ outstanding_jobs = Cardinality(Jobs(Q))
         /\ outstanding_jobs - 1 \in Nat
<1>1. work_item[t] \in Jobs(Q)
  BY BusyMembers DEF IInv, Shape, Jobs, Holds, Ran
<1>2. IsFiniteSet(Jobs(Q))
  BY JobsFinite
<1>3. Cardinality(Jobs(Q)) \in Nat /\ Cardinality(Jobs(Q)) # 0
  BY <1>1, <1>2, FS_CardinalityType, FS_EmptySet
<1>4. outstanding_jobs = Cardinality(Jobs(Q))
  BY DEF IInv, Accounting
<1> QED
  BY <1>1, <1>3, <1>4

(* Only fetch_add and the end of a job change the set of jobs, by one      *)
(* element each; every other step leaves it as it is.                      *)
LEMMA StepJobs ==
  ASSUME NEW Q, NEW R, IInv(Q), NEW t \in Workers, SchedulerStep(t, Q, R)
  PROVE  \/ FetchAdd(t) /\ R = Q /\ sibling[t] \notin Jobs(Q)
                        /\ Jobs(R)' = Jobs(Q) \cup {sibling[t]}
         \/ Finish(t) /\ R = Q /\ Jobs(R)' = Jobs(Q) \ {work_item[t]}
         \/ ~FetchAdd(t) /\ ~Finish(t) /\ Jobs(R)' = Jobs(Q)
<1>a. /\ pc \in [Workers -> Labels]
      /\ work_item \in [Workers -> Nodes \cup {NoNode}]
      /\ sibling \in [Workers -> Nodes \cup {NoNode}]
      /\ cv_waiters \subseteq Workers
      /\ Q \subseteq Nodes
      /\ dropped \subseteq Nodes
      /\ NoNode \notin Nodes
  BY DriverAssumption DEF DriverAssumption, IInv, DriverTypeOK
<1>b. Shape /\ Placed(Q)
  BY DEF IInv
<1>c. FetchAdd(t) => pc[t] = "fetch_add"
  BY DEF FetchAdd
<1>d. Finish(t) => pc[t] = "finish"
  BY DEF Finish
<1> USE <1>a, <1>b DEF Shape, Placed, Goto, Ran, Computing
<1>1. CASE Take(t, Q, R)
  <2>1. Jobs(R)' = Jobs(Q)
    BY <1>1, BusyMembers, BusyMembersNext DEF Take, Jobs, Holds
  <2> QED
    BY <1>1, <2>1, <1>c, <1>d DEF Take
<1>2. CASE Put(t, Q, R)
  <2>1. Jobs(R)' = Jobs(Q)
    BY <1>2, BusyMembers, BusyMembersNext DEF Put, Jobs, Holds
  <2> QED
    BY <1>2, <2>1, <1>c, <1>d DEF Put
<1>3. CASE Roam(t, Q, R)
  <2>1. Jobs(R)' = Jobs(Q)
    BY <1>3, BusyMembers, BusyMembersNext DEF Roam, Idle, Jobs, Holds
  <2> QED
    BY <1>3, <2>1, <1>c, <1>d DEF Roam, Idle
<1>4. CASE SkipPruned(t) /\ R = Q
  <2>1. Jobs(R)' = Jobs(Q)
    BY <1>4, BusyMembers, BusyMembersNext DEF SkipPruned, Jobs, Holds
  <2> QED
    BY <1>4, <2>1, <1>c, <1>d DEF SkipPruned
<1>5. CASE Accept(t) /\ R = Q
  <2>1. Jobs(R)' = Jobs(Q)
    BY <1>5, BusyMembers, BusyMembersNext DEF Accept, Jobs, Holds
  <2> QED
    BY <1>5, <2>1, <1>c, <1>d DEF Accept
<1>6. CASE RunOnce(t) /\ R = Q
  <2>1. Jobs(R)' = Jobs(Q)
    BY <1>6, BusyMembers, BusyMembersNext DEF RunOnce, Jobs, Holds
  <2> QED
    BY <1>6, <2>1, <1>c, <1>d DEF RunOnce
<1>7. CASE TryAlloc(t) /\ R = Q
  <2>1. PICK s \in Nodes \ {Root} :
          /\ children_unf_set' = children_unf_set \cup {s}
          /\ \/ /\ s \notin children_unf_set
                /\ sibling' = [sibling EXCEPT ![t] = s]
                /\ pc' = [pc EXCEPT ![t] = "fetch_add"]
             \/ sibling' = sibling /\ pc' = pc
    BY <1>7, TryAllocEffect DEF IInv
  <2>2. Jobs(R)' = Jobs(Q)
    BY <1>7, <2>1, BusyMembers, BusyMembersNext DEF TryAlloc, Jobs, Holds
  <2> QED
    BY <1>7, <2>2, <1>c, <1>d DEF TryAlloc
<1>8. CASE FetchAdd(t) /\ R = Q
  <2>1. sibling[t] \notin Jobs(Q)
    BY <1>8, BusyMembers DEF FetchAdd, Jobs, Holds
  <2>2. Jobs(R)' = Jobs(Q) \cup {sibling[t]}
    BY <1>8, BusyMembers, BusyMembersNext DEF FetchAdd, Jobs, Holds
  <2> QED
    BY <1>8, <2>1, <2>2
<1>9. CASE EndPrefixes(t) /\ R = Q
  <2>1. Jobs(R)' = Jobs(Q)
    BY <1>9, BusyMembers, BusyMembersNext DEF EndPrefixes, Jobs, Holds
  <2> QED
    BY <1>9, <2>1, <1>c, <1>d DEF EndPrefixes
<1>10. CASE Finish(t) /\ R = Q
  <2>1. Jobs(R)' = Jobs(Q) \ {work_item[t]}
    BY <1>10, BusyMembers, BusyMembersNext DEF Finish, Jobs, Holds
  <2> QED
    BY <1>10, <2>1
<1>11. CASE (Halt(t, "dequeue") \/ Halt(t, "steal")) /\ R = Q
  <2>1. Jobs(R)' = Jobs(Q)
    BY <1>11, BusyMembers, BusyMembersNext DEF Halt, notify_all, Jobs, Holds
  <2> QED
    BY <1>11, <2>1, <1>c, <1>d DEF Halt
<1> QED
  BY <1>1, <1>2, <1>3, <1>4, <1>5, <1>6, <1>7, <1>8, <1>9, <1>10, <1>11
     DEF SchedulerStep, DriverStep

(* Only the end of a job records an error or decides to halt the workers,  *)
(* and only that and fetch_add change outstanding_jobs.                    *)
LEMMA StepFrame ==
  ASSUME NEW Q, NEW R, IInv(Q), NEW t \in Workers, SchedulerStep(t, Q, R),
         ~Finish(t)
  PROVE  /\ error_trace' = error_trace
         /\ \A u \in Workers : pc'[u] = "halt" => pc[u] = "halt"
         /\ halting' => halting \/ pc[t] = "halt"
         /\ FetchAdd(t) \/ outstanding_jobs' = outstanding_jobs
<1>a. pc \in [Workers -> Labels]
  BY DEF IInv, DriverTypeOK
<1> USE <1>a DEF Goto
<1>1. CASE Take(t, Q, R)
  BY <1>1 DEF Take
<1>2. CASE Put(t, Q, R)
  BY <1>2 DEF Put
<1>3. CASE Roam(t, Q, R)
  BY <1>3 DEF Roam, Idle
<1>4. CASE SkipPruned(t)
  BY <1>4 DEF SkipPruned
<1>5. CASE Accept(t)
  BY <1>5 DEF Accept
<1>6. CASE RunOnce(t)
  BY <1>6 DEF RunOnce
<1>7. CASE TryAlloc(t)
  <2>1. pc' = pc \/ pc' = [pc EXCEPT ![t] = "fetch_add"]
    BY <1>7 DEF TryAlloc
  <2> QED
    BY <1>7, <2>1 DEF TryAlloc
<1>8. CASE FetchAdd(t)
  BY <1>8 DEF FetchAdd
<1>9. CASE EndPrefixes(t)
  BY <1>9 DEF EndPrefixes
<1>10. CASE Halt(t, "dequeue") \/ Halt(t, "steal")
  BY <1>10 DEF Halt, notify_all
<1> QED
  BY <1>1, <1>2, <1>3, <1>4, <1>5, <1>6, <1>7, <1>8, <1>9, <1>10
     DEF SchedulerStep, DriverStep

(* outstanding_jobs follows the set of jobs.                               *)
LEMMA StepAccounting ==
  ASSUME NEW Q, NEW R, IInv(Q), NEW t \in Workers, SchedulerStep(t, Q, R)
  PROVE  Accounting(R)'
<1>a. outstanding_jobs = Cardinality(Jobs(Q)) /\ IsFiniteSet(Jobs(Q))
  BY JobsFinite DEF IInv, Accounting
<1>1. CASE FetchAdd(t) /\ sibling[t] \notin Jobs(Q)
                       /\ Jobs(R)' = Jobs(Q) \cup {sibling[t]}
  <2>1. Cardinality(Jobs(R)') = Cardinality(Jobs(Q)) + 1
    BY <1>1, <1>a, FS_AddElement, Zenon
  <2> QED
    BY <1>1, <1>a, <2>1 DEF FetchAdd, fetch_add, Accounting
<1>2. CASE Finish(t) /\ Jobs(R)' = Jobs(Q) \ {work_item[t]}
  <2>1. work_item[t] \in Jobs(Q)
    BY <1>2, FinishCounts DEF Finish
  <2>2. Cardinality(Jobs(R)') = Cardinality(Jobs(Q)) - 1
    BY <1>2, <2>1, <1>a, FS_RemoveElement, Zenon
  <2> QED
    BY <1>2, <1>a, <2>2 DEF Finish, Accounting
<1>3. CASE ~FetchAdd(t) /\ ~Finish(t) /\ Jobs(R)' = Jobs(Q)
  BY <1>3, <1>a, StepFrame DEF Accounting
<1> QED
  BY <1>1, <1>2, <1>3, StepJobs

(* The test remain == 0 succeeds only for the last job, and from then on   *)
(* there is no worker left that could create another.                      *)
LEMMA StepExhausted ==
  ASSUME NEW Q, NEW R, IInv(Q), NEW t \in Workers, SchedulerStep(t, Q, R)
  PROVE  Exhausted(R)'
<1> SUFFICES ASSUME NEW u \in Workers, (pc[u] = "halt" \/ halting)',
                    error_trace' = NoNode
             PROVE  Jobs(R)' = {}
  BY DEF Exhausted
<1>a. ASSUME NEW v \in Workers, pc[v] = "halt" \/ halting, error_trace = NoNode
      PROVE  Jobs(Q) = {}
  BY <1>a DEF IInv, Exhausted
<1>1. CASE FetchAdd(t)
  <2>1. work_item[t] \in Jobs(Q)
    BY <1>1, BusyMembers DEF FetchAdd, IInv, Shape, Ran, Computing, Jobs, Holds
  <2>2. pc[t] = "fetch_add" /\ ~Finish(t)
    BY <1>1 DEF FetchAdd, Finish
  <2>3. error_trace = NoNode /\ (pc[u] = "halt" \/ halting)
    BY <2>2, StepFrame
  <2> QED
    BY <2>1, <2>3, <1>a
<1>2. CASE Finish(t) /\ Jobs(R)' = Jobs(Q) \ {work_item[t]}
  <2>1. /\ work_item[t] \in Jobs(Q)
        /\ outstanding_jobs = Cardinality(Jobs(Q))
    BY <1>2, FinishCounts DEF Finish
  <2>2. error_trace = NoNode /\ ~errors[t]
    <3>1. work_item[t] \in Nodes
      BY <2>1, JobsFinite
    <3> QED
      BY <1>2, <3>1, DriverAssumption DEF Finish, HandleTrace, DriverAssumption
  <2>3. outstanding_jobs = 1
    <3>1. ~halting /\ pc[u] # "halt"
      BY <1>a, <2>1, <2>2
    <3>2. pc \in [Workers -> Labels]
      BY DEF IInv, DriverTypeOK
    <3> QED
      BY <1>2, <2>2, <3>1, <3>2 DEF Finish, Goto, StopOnError, LastJob
  <2>4. IsFiniteSet(Jobs(Q) \ {work_item[t]})
        /\ Cardinality(Jobs(Q) \ {work_item[t]}) = 0
    <3>1. IsFiniteSet(Jobs(Q)) /\ Cardinality(Jobs(Q)) = 1
      BY <2>1, <2>3, JobsFinite
    <3>2. Cardinality(Jobs(Q) \ {work_item[t]}) = Cardinality(Jobs(Q)) - 1
          /\ IsFiniteSet(Jobs(Q) \ {work_item[t]})
      BY <2>1, <3>1, FS_RemoveElement, Zenon
    <3> QED
      BY <3>1, <3>2
  <2> QED
    BY <1>2, <2>4, FS_EmptySet
<1>3. CASE ~Finish(t) /\ Jobs(R)' = Jobs(Q)
  <2>1. error_trace = NoNode
    BY <1>3, StepFrame
  <2>2. pc[u] = "halt" \/ halting \/ pc[t] = "halt"
    BY <1>3, StepFrame
  <2> QED
    BY <1>3, <2>1, <2>2, <1>a
<1> QED
  BY <1>1, <1>2, <1>3, StepJobs

-----------------------------------------------------------------------------
(* Paths in the decision tree.                                             *)

(* The nodes on the path to n are its non-empty prefixes.                  *)
LEMMA PathMembers ==
  ASSUME NEW n \in Seq(Unf), NEW x
  PROVE  x \in PathTo(n) <=>
           /\ x \in Seq(Unf)
           /\ Len(x) \in 1..Len(n)
           /\ \A i \in 1..Len(x) : x[i] = n[i]
<1>1. ASSUME NEW k \in 1..Len(n)
      PROVE  /\ SubSeq(n, 1, k) \in Seq(Unf)
             /\ Len(SubSeq(n, 1, k)) = k
             /\ \A i \in 1..k : SubSeq(n, 1, k)[i] = n[i]
  <2>1. \A i \in 1..k : n[i] \in Unf
    BY <1>1
  <2> QED
    BY <1>1, <2>1, SubSeqProperties
<1>2. ASSUME x \in PathTo(n)
      PROVE  /\ x \in Seq(Unf)
             /\ Len(x) \in 1..Len(n)
             /\ \A i \in 1..Len(x) : x[i] = n[i]
  BY <1>1, <1>2 DEF PathTo
<1>3. ASSUME x \in Seq(Unf), Len(x) \in 1..Len(n),
             \A i \in 1..Len(x) : x[i] = n[i]
      PROVE  x \in PathTo(n)
  <2>1. x = SubSeq(n, 1, Len(x))
    BY <1>1, <1>3, SeqEqual
  <2> QED
    BY <1>3, <2>1, Zenon DEF PathTo
<1> QED
  BY <1>2, <1>3

(* A decision node other than the root is on the path to itself, and all   *)
(* nodes on a path are decision nodes, none of them the root.              *)
LEMMA PathBasics ==
  ASSUME NEW n \in Nodes
  PROVE  /\ n \in Seq(Unf)
         /\ n # Root => n \in PathTo(n)
         /\ Root \notin PathTo(n)
         /\ PathTo(n) \subseteq Nodes
<1>1. n \in Seq(Unf) /\ PathTo(n) \subseteq Nodes
  BY TreeAssumption DEF TreeAssumption
<1>2. n # Root => Len(n) \in 1..Len(n)
  BY <1>1, EmptySeq DEF Root
<1>3. Len(Root) = 0
  BY DEF Root
<1> QED
  BY <1>1, <1>2, <1>3, PathMembers

(* Of two nodes on the same path, the shallower one is on the path to the  *)
(* deeper one.                                                             *)
LEMMA PathLinear ==
  ASSUME NEW n \in Nodes, NEW x \in PathTo(n), NEW y \in PathTo(n),
         Len(x) <= Len(y)
  PROVE  x \in PathTo(y)
<1>1. /\ n \in Seq(Unf)
      /\ x \in Seq(Unf) /\ Len(x) \in 1..Len(n)
      /\ y \in Seq(Unf) /\ Len(y) \in 1..Len(n)
      /\ \A i \in 1..Len(x) : x[i] = n[i]
      /\ \A i \in 1..Len(y) : y[i] = n[i]
  BY PathBasics, PathMembers
<1>2. Len(x) \in 1..Len(y) /\ \A i \in 1..Len(x) : x[i] = y[i]
  BY <1>1
<1> QED
  BY <1>1, <1>2, PathMembers

(* The path to a node on a path is part of it.                             *)
LEMMA PathTransitive ==
  ASSUME NEW n \in Nodes, NEW x \in PathTo(n)
  PROVE  PathTo(x) \subseteq PathTo(n)
<1> SUFFICES ASSUME NEW y \in PathTo(x) PROVE y \in PathTo(n)
  OBVIOUS
<1>1. /\ n \in Seq(Unf)
      /\ x \in Seq(Unf) /\ Len(x) \in 1..Len(n)
      /\ \A i \in 1..Len(x) : x[i] = n[i]
  BY PathBasics, PathMembers
<1>2. /\ y \in Seq(Unf) /\ Len(y) \in 1..Len(x)
      /\ \A i \in 1..Len(y) : y[i] = x[i]
  BY <1>1, PathMembers
<1>3. Len(y) \in 1..Len(n) /\ \A i \in 1..Len(y) : y[i] = n[i]
  BY <1>1, <1>2
<1> QED
  BY <1>1, <1>2, <1>3, PathMembers

(* The path to a sibling s of a node n on a path passes, before s, only    *)
(* through nodes on that path.                                             *)
LEMMA PathToSibling ==
  ASSUME NEW q \in Nodes, NEW n \in PathTo(q), NEW s \in Nodes,
         Len(n) = Len(s), Parent(n) = Parent(s), NEW x \in PathTo(s), x # s
  PROVE  x \in PathTo(q) /\ Len(x) < Len(s)
<1>1. /\ q \in Seq(Unf) /\ s \in Seq(Unf)
      /\ n \in Seq(Unf) /\ Len(n) \in 1..Len(q)
      /\ \A i \in 1..Len(n) : n[i] = q[i]
  BY PathBasics, PathMembers
<1>2. /\ x \in Seq(Unf) /\ Len(x) \in 1..Len(s)
      /\ \A i \in 1..Len(x) : x[i] = s[i]
  BY <1>1, PathMembers
<1>3. Len(x) # Len(s)
  BY <1>1, <1>2, SeqEqual
<1>4. ASSUME NEW i \in 1..(Len(s) - 1)
      PROVE  n[i] = s[i]
  <2>1. Parent(n)[i] = n[i]
    <3>1. \A j \in 1..(Len(n) - 1) : n[j] \in Unf
      BY <1>1
    <3> QED
      BY <1>1, <1>4, <3>1, SubSeqProperties DEF Parent
  <2>2. Parent(s)[i] = s[i]
    <3>1. \A j \in 1..(Len(s) - 1) : s[j] \in Unf
      BY <1>1
    <3> QED
      BY <1>1, <1>4, <3>1, SubSeqProperties DEF Parent
  <2> QED
    BY <2>1, <2>2
<1>5. Len(x) \in 1..Len(q) /\ \A i \in 1..Len(x) : x[i] = q[i]
  BY <1>1, <1>2, <1>3, <1>4
<1> QED
  BY <1>1, <1>2, <1>3, <1>5, PathMembers

-----------------------------------------------------------------------------
(* The work items that wait to be executed.                                *)

(* A worker holds x and has not executed it.                               *)
Defers(x) == \E t \in Workers :
  \/ pc[t] \in {"check", "run"} /\ x = work_item[t]
  \/ sibling[t] # NoNode /\ x = sibling[t]

(* A pending work item is queued, dropped, or held by a worker.            *)
LEMMA PendingMembers ==
  ASSUME NEW Q
  PROVE  \A x : x \in Pending(Q) <=> x \in Q \/ x \in dropped \/ Defers(x)
BY DEF Pending, Defers

(* The pending work items after a step of the workers.                     *)
LEMMA PendingMembersNext ==
  ASSUME NEW Q
  PROVE  \A x : x \in Pending(Q)' <=> x \in Q \/ x \in dropped' \/ Defers(x)'
BY DEF Pending, Defers

(* Pending work items and explored executions are decision nodes.          *)
LEMMA PendingNodes ==
  ASSUME NEW Q, IInv(Q)
  PROVE  Pending(Q) \subseteq Nodes /\ Explored \subseteq Nodes
<1>1. /\ Q \subseteq Nodes
      /\ dropped \subseteq Nodes
      /\ work_item \in [Workers -> Nodes \cup {NoNode}]
      /\ sibling \in [Workers -> Nodes \cup {NoNode}]
  BY DEF IInv, DriverTypeOK
<1>2. \A x : Defers(x) => x \in Nodes
  BY <1>1 DEF IInv, Shape, Ran, Computing, Defers
<1> QED
  BY <1>1, <1>2, PendingMembers DEF Explored

(* A run takes a work item from the pending ones, a sibling that is new    *)
(* and feasible becomes one; every other step leaves them as they are.     *)
LEMMA StepPending ==
  ASSUME NEW Q, NEW R, IInv(Q), NEW t \in Workers, SchedulerStep(t, Q, R)
  PROVE  \/ /\ RunOnce(t) /\ work_item[t] \in Pending(Q)
            /\ Pending(R)' = Pending(Q) \ {work_item[t]}
         \/ /\ TryAlloc(t) /\ todo[t][1] \in Feasible \ children_unf_set
            /\ Pending(R)' = Pending(Q) \cup {todo[t][1]}
         \/ /\ ~RunOnce(t) /\ Pending(R)' = Pending(Q)
<1>a. /\ pc \in [Workers -> Labels]
      /\ work_item \in [Workers -> Nodes \cup {NoNode}]
      /\ sibling \in [Workers -> Nodes \cup {NoNode}]
      /\ cv_waiters \subseteq Workers
      /\ Q \subseteq Nodes
      /\ dropped \subseteq Nodes
      /\ NoNode \notin Nodes
  BY DriverAssumption DEF DriverAssumption, IInv, DriverTypeOK
<1>b. Shape /\ Placed(Q)
  BY DEF IInv
<1>c. RunOnce(t) => pc[t] = "run"
  BY Zenon DEF RunOnce
<1> USE <1>a, <1>b DEF Shape, Placed, Goto, Ran, Computing
<1>1. CASE Take(t, Q, R)
  <2>1. Pending(R)' = Pending(Q)
    <3>1. \A x : x \in Pending(R)' <=> x \in Pending(Q)
      BY <1>1, PendingMembers, PendingMembersNext DEF Take, Defers
    <3> QED
      BY <3>1, Zenon
  <2> QED
    BY <1>1, <2>1, <1>c DEF Take
<1>2. CASE Put(t, Q, R)
  <2>1. Pending(R)' = Pending(Q)
    <3>1. \A x : x \in Pending(R)' <=> x \in Pending(Q)
      BY <1>2, PendingMembers, PendingMembersNext DEF Put, Defers
    <3> QED
      BY <3>1, Zenon
  <2> QED
    BY <1>2, <2>1, <1>c DEF Put
<1>3. CASE Roam(t, Q, R)
  <2>1. Pending(R)' = Pending(Q)
    <3>1. \A x : x \in Pending(R)' <=> x \in Pending(Q)
      BY <1>3, PendingMembers, PendingMembersNext DEF Roam, Idle, Defers
    <3> QED
      BY <3>1, Zenon
  <2> QED
    BY <1>3, <2>1, <1>c DEF Roam, Idle
<1>4. CASE SkipPruned(t) /\ R = Q
  <2>1. Pending(R)' = Pending(Q)
    <3>1. \A x : x \in Pending(R)' <=> x \in Pending(Q)
      BY <1>4, PendingMembers, PendingMembersNext DEF SkipPruned, Defers
    <3> QED
      BY <3>1, Zenon
  <2> QED
    BY <1>4, <2>1, <1>c, Zenon DEF SkipPruned
<1>5. CASE Accept(t) /\ R = Q
  <2>1. Pending(R)' = Pending(Q)
    <3>1. \A x : x \in Pending(R)' <=> x \in Pending(Q)
      BY <1>5, PendingMembers, PendingMembersNext DEF Accept, Defers
    <3> QED
      BY <3>1, Zenon
  <2> QED
    BY <1>5, <2>1, <1>c, Zenon DEF Accept
<1>6. CASE RunOnce(t) /\ R = Q
  <2>1. work_item[t] \in Pending(Q)
    BY <1>6, PendingMembers, Zenon DEF RunOnce, Defers
  <2>2. Pending(R)' = Pending(Q) \ {work_item[t]}
    <3>1. /\ pc[t] = "run" /\ pc' = [pc EXCEPT ![t] = "prefixes"]
          /\ work_item' = work_item /\ sibling' = sibling /\ dropped' = dropped
      BY <1>6, Zenon DEF RunOnce
    <3>2. \A x : x \in Pending(R)' <=> x \in Pending(Q) /\ x # work_item[t]
      BY <1>6, <3>1, PendingMembers, PendingMembersNext DEF Defers
    <3> QED
      BY <3>2, Zenon
  <2> QED
    BY <1>6, <2>1, <2>2
<1>7. CASE TryAlloc(t) /\ R = Q
  <2>1. PICK s \in Nodes \ {Root} :
          /\ s = todo[t][1]
          /\ \/ /\ s \in Feasible \ children_unf_set
                /\ sibling' = [sibling EXCEPT ![t] = s]
                /\ pc' = [pc EXCEPT ![t] = "fetch_add"]
             \/ sibling' = sibling /\ pc' = pc
    BY <1>7, TryAllocEffect DEF IInv
  <2>2. pc[t] = "prefixes" /\ UNCHANGED <<work_item, dropped>>
    BY <1>7 DEF TryAlloc
  <2>3. CASE sibling' = [sibling EXCEPT ![t] = s] /\ pc' = [pc EXCEPT ![t] = "fetch_add"]
    <3>1. Pending(R)' = Pending(Q) \cup {s}
      <4>1. \A x : x \in Pending(R)' <=> x \in Pending(Q) \/ x = s
        BY <1>7, <2>2, <2>3, PendingMembers, PendingMembersNext DEF Defers
      <4> QED
        BY <4>1, Zenon
    <3>2. s \in Feasible \ children_unf_set
      BY <2>1, <2>2, <2>3
    <3> QED
      BY <1>7, <2>1, <3>1, <3>2
  <2>4. CASE sibling' = sibling /\ pc' = pc
    <3>1. Pending(R)' = Pending(Q)
      <4>1. \A x : x \in Pending(R)' <=> x \in Pending(Q)
        BY <1>7, <2>2, <2>4, PendingMembers, PendingMembersNext DEF Defers
      <4> QED
        BY <4>1, ZenonT(60)
    <3> QED
      BY <1>7, <2>2, <3>1, <1>c
  <2> QED
    BY <2>1, <2>3, <2>4, Zenon
<1>8. CASE FetchAdd(t) /\ R = Q
  <2>1. Pending(R)' = Pending(Q)
    <3>1. \A x : x \in Pending(R)' <=> x \in Pending(Q)
      BY <1>8, PendingMembers, PendingMembersNext DEF FetchAdd, Defers
    <3> QED
      BY <3>1, Zenon
  <2> QED
    BY <1>8, <2>1, <1>c, Zenon DEF FetchAdd
<1>9. CASE EndPrefixes(t) /\ R = Q
  <2>1. Pending(R)' = Pending(Q)
    <3>1. \A x : x \in Pending(R)' <=> x \in Pending(Q)
      BY <1>9, PendingMembers, PendingMembersNext DEF EndPrefixes, Defers
    <3> QED
      BY <3>1, Zenon
  <2> QED
    BY <1>9, <2>1, <1>c, Zenon DEF EndPrefixes
<1>10. CASE Finish(t) /\ R = Q
  <2>1. Pending(R)' = Pending(Q)
    <3>1. \A x : x \in Pending(R)' <=> x \in Pending(Q)
      BY <1>10, PendingMembers, PendingMembersNext DEF Finish, Defers
    <3> QED
      BY <3>1, Zenon
  <2> QED
    BY <1>10, <2>1, <1>c DEF Finish
<1>11. CASE (Halt(t, "dequeue") \/ Halt(t, "steal")) /\ R = Q
  <2>1. Pending(R)' = Pending(Q)
    <3>1. \A x : x \in Pending(R)' <=> x \in Pending(Q)
      BY <1>11, PendingMembers, PendingMembersNext DEF Halt, notify_all, Defers
    <3> QED
      BY <3>1, Zenon
  <2> QED
    BY <1>11, <2>1, <1>c, Zenon DEF Halt
<1> QED
  BY <1>1, <1>2, <1>3, <1>4, <1>5, <1>6, <1>7, <1>8, <1>9, <1>10, <1>11, Zenon
     DEF SchedulerStep, DriverStep

(* What try_alloc_unf's answer means: the path to a node that was not      *)
(* allocated is new only in its last step, no explored execution passes    *)
(* through the node, and neither the executions that pending work items    *)
(* lead to nor the one that it leads to share it with one of the others.   *)
LEMMA NewSibling ==
  ASSUME NEW Q, IInv(Q), NEW t \in Workers, TryAlloc(t),
         todo[t][1] \notin children_unf_set
  PROVE  LET s == todo[t][1]
             p == Execution[work_item[t]]
         IN
         /\ s \in Nodes \ {Root} /\ p \in Explored /\ s \in Siblings(p)
         /\ PathTo(s) \subseteq children_unf_set \cup {s}
         /\ \A q \in Explored : s \notin PathTo(q)
         /\ \A v \in Pending(Q) :
              v # Root /\ s \notin PathTo(Execution[v]) /\ v \notin PathTo(Execution[s])
<1> DEFINE s == todo[t][1]
           w == work_item[t]
           p == Execution[w]
<1>1. s \in Nodes \ {Root} /\ 1 \in 1..Len(todo[t]) /\ pc[t] = "prefixes"
  BY TryAllocEffect DEF IInv
<1>2. w \in Nodes /\ p \in Explored /\ p \in Nodes /\ s \in Siblings(p)
  <2>1. w \in Nodes
    BY <1>1 DEF IInv, Shape, DriverTypeOK, Ran, Computing
  <2>2. p \in Explored /\ s \in Siblings(p)
    BY <1>1 DEF IInv, RanExplored, TodoSiblings, Ran, Computing
  <2> QED
    BY <2>1, <2>2, PendingNodes
<1>3. PICK n \in PathTo(p) : Len(n) = Len(s) /\ Parent(n) = Parent(s)
  BY <1>2, TreeAssumption DEF TreeAssumption
<1>4. Unexplored(Q)
  BY DEF IInv
<1>5. \A q \in Explored : PathTo(q) \subseteq children_unf_set
  BY <1>4 DEF Unexplored
<1>6. ASSUME NEW x \in PathTo(s), x # s
      PROVE  x \in PathTo(p) /\ Len(x) < Len(s)
  BY <1>1, <1>2, <1>3, <1>6, PathToSibling
<1>7. PathTo(s) \subseteq children_unf_set \cup {s}
  BY <1>2, <1>5, <1>6
<1>8. s \in PathTo(s) /\ s \in PathTo(Execution[s]) /\ Execution[s] \in Nodes
  <2>1. s \in PathTo(s)
    BY <1>1, PathBasics
  <2>2. PathTo(s) \subseteq PathTo(Execution[s]) /\ Execution[s] \in Nodes
    BY <1>1, TreeAssumption, DriverAssumption DEF TreeAssumption, DriverAssumption
  <2> QED
    BY <2>1, <2>2
<1>9. ASSUME NEW v \in Pending(Q)
      PROVE  /\ v # Root
             /\ s \notin PathTo(Execution[v])
             /\ v \notin PathTo(Execution[s])
  <2>1. /\ v \in Nodes /\ v # Root
        /\ PathTo(v) \subseteq children_unf_set
        /\ v \notin PathTo(p)
    BY <1>2, <1>4, <1>9, PendingNodes DEF Unexplored
  <2>2. v \in PathTo(v) /\ v \in PathTo(Execution[v]) /\ Execution[v] \in Nodes
    <3>1. v \in PathTo(v)
      BY <2>1, PathBasics
    <3>2. PathTo(v) \subseteq PathTo(Execution[v]) /\ Execution[v] \in Nodes
      BY <2>1, TreeAssumption, DriverAssumption DEF TreeAssumption, DriverAssumption
    <3> QED
      BY <3>1, <3>2
  <2>3. Len(v) \in Nat /\ Len(s) \in Nat
    BY <1>1, <2>1, PathBasics
  <2>4. s \notin PathTo(v)
    BY <2>1
  <2>5. v \notin PathTo(s)
    <3>1. v # s
      BY <2>2, <2>4
    <3> QED
      BY <1>6, <2>1, <3>1
  <2>6. ASSUME NEW q \in Nodes, s \in PathTo(q), v \in PathTo(q)
        PROVE  FALSE
    <3>1. CASE Len(s) <= Len(v)
      BY <2>4, <2>6, <3>1, PathLinear
    <3>2. CASE Len(v) <= Len(s)
      BY <2>5, <2>6, <3>2, PathLinear
    <3> QED
      BY <2>3, <3>1, <3>2
  <2> QED
    BY <1>8, <2>1, <2>2, <2>6
<1>10. \A q \in Explored : s \notin PathTo(q)
  BY <1>5
<1> QED
  BY <1>1, <1>2, <1>7, <1>9, <1>10

(* A run makes its execution explored, and no other step changes explored; *)
(* allocated nodes stay allocated.                                         *)
LEMMA StepExplored ==
  ASSUME NEW Q, NEW R, IInv(Q), NEW t \in Workers, SchedulerStep(t, Q, R)
  PROVE  /\ Erroneous' = Erroneous
         /\ children_unf_set \subseteq children_unf_set'
         /\ ~RunOnce(t) => explored' = explored /\ Explored' = Explored
         /\ RunOnce(t) => /\ work_item[t] \in Nodes /\ Execution[work_item[t]] \in Nodes
                          /\ Explored' = Explored \cup {Execution[work_item[t]]}
<1>1. Erroneous' = Erroneous /\ (~RunOnce(t) => explored' = explored)
  BY Zenon DEF SchedulerStep, DriverStep, Take, Put, Roam, SkipPruned, Accept,
         RunOnce, TryAlloc, FetchAdd, EndPrefixes, Finish, Halt
<1>2. children_unf_set \subseteq children_unf_set'
  BY Zenon DEF SchedulerStep, DriverStep, Take, Put, Roam, SkipPruned, Accept,
         RunOnce, TryAlloc, FetchAdd, EndPrefixes, Finish, Halt
<1>3. ASSUME RunOnce(t)
      PROVE  /\ work_item[t] \in Nodes /\ Execution[work_item[t]] \in Nodes
             /\ Explored' = Explored \cup {Execution[work_item[t]]}
  <2>1. work_item[t] \in Nodes
    BY <1>3, Zenon DEF RunOnce, IInv, Shape, DriverTypeOK
  <2>2. Execution[work_item[t]] \in Nodes
    BY <2>1, DriverAssumption, Zenon DEF DriverAssumption
  <2>3. explored \in [Nodes -> Nat]
    BY DEF IInv, DriverTypeOK
  <2> DEFINE e == Execution[work_item[t]]
  <2>4. e \in Nodes /\ explored' = [explored EXCEPT ![e] = @ + 1]
    BY <1>3, <2>2 DEF RunOnce
  <2> HIDE DEF e
  <2>5. \A x \in Nodes : explored'[x] > 0 <=> explored[x] > 0 \/ x = e
    BY <2>3, <2>4
  <2>6. Explored' = Explored \cup {e}
    BY <2>4, <2>5, Zenon DEF Explored
  <2> QED
    BY <2>1, <2>2, <2>6 DEF e
<1> QED
  BY <1>1, <1>2, <1>3 DEF Explored

(* The pending work items keep leading to new executions, each to one of   *)
(* its own, so that no execution is explored twice.                        *)
LEMMA StepUnexplored ==
  ASSUME NEW Q, NEW R, IInv(Q), NEW t \in Workers, SchedulerStep(t, Q, R)
  PROVE  Unexplored(R)'
<1>a. Unexplored(Q) /\ explored \in [Nodes -> Nat]
  BY DEF IInv, DriverTypeOK
<1>b. children_unf_set \subseteq children_unf_set'
  BY StepExplored, Zenon
<1>1. CASE /\ RunOnce(t) /\ work_item[t] \in Pending(Q)
           /\ Pending(R)' = Pending(Q) \ {work_item[t]}
  <2> DEFINE w == work_item[t]
             e == Execution[w]
  <2>1. w \in Nodes /\ e \in Nodes /\ Explored' = Explored \cup {e}
    BY <1>1, StepExplored
  <2>2. /\ PathTo(w) \subseteq children_unf_set
        /\ w = Root => Explored = {}
        /\ \A q \in Explored : w \notin PathTo(q)
        /\ \A v \in Pending(Q) : v # w => v \notin PathTo(e)
        /\ \A v \in Pending(Q) : v # w => v # Root
    BY <1>1, <1>a DEF Unexplored
  <2>3. e \notin Explored
    <3>1. w # Root => w \in PathTo(e)
      BY <2>1, PathBasics, TreeAssumption DEF TreeAssumption
    <3> QED
      BY <2>2, <3>1
  <2>4. \A n \in Nodes : explored'[n] <= 1
    <3>1. explored[e] = 0
      BY <1>a, <2>1, <2>3 DEF Explored
    <3>2. explored' = [explored EXCEPT ![e] = explored[e] + 1]
      BY <1>1 DEF RunOnce
    <3> QED
      BY <1>a, <2>1, <3>1, <3>2 DEF Unexplored
  <2>5. PathTo(e) \subseteq children_unf_set'
    BY <1>1, <2>2, Zenon DEF RunOnce, NewDecisions
  <2>6. \A q \in Explored' : PathTo(q) \subseteq children_unf_set'
    BY <1>a, <1>b, <2>1, <2>5 DEF Unexplored
  <2>7. ASSUME NEW v \in Pending(R)'
        PROVE  /\ PathTo(v) \subseteq children_unf_set'
               /\ v # Root
               /\ \A q \in Explored' : v \notin PathTo(q)
               /\ \A x \in Pending(R)' : x # v => v \notin PathTo(Execution[x])
    BY <1>1, <1>a, <1>b, <2>1, <2>2, <2>7 DEF Unexplored
  <2> QED
    BY <2>4, <2>6, <2>7 DEF Unexplored
<1>2. CASE /\ TryAlloc(t) /\ todo[t][1] \notin children_unf_set
           /\ Pending(R)' = Pending(Q) \cup {todo[t][1]}
  <2> DEFINE s == todo[t][1]
  <2>1. ~RunOnce(t)
    BY <1>2 DEF TryAlloc, RunOnce
  <2>2. explored' = explored /\ Explored' = Explored
    BY <2>1, StepExplored
  <2>3. /\ s # Root
        /\ PathTo(s) \subseteq children_unf_set \cup {s}
        /\ \A q \in Explored : s \notin PathTo(q)
        /\ \A v \in Pending(Q) : /\ v # Root
                                 /\ s \notin PathTo(Execution[v])
                                 /\ v \notin PathTo(Execution[s])
    BY <1>2, NewSibling, Zenon
  <2>4. s \in children_unf_set'
    BY <1>2, TryAllocEffect DEF IInv
  <2>5. \A q \in Explored' : PathTo(q) \subseteq children_unf_set'
    BY <1>a, <1>b, <2>2, Zenon DEF Unexplored
  <2>6. ASSUME NEW v \in Pending(R)'
        PROVE  /\ PathTo(v) \subseteq children_unf_set'
               /\ v # Root
               /\ \A q \in Explored' : v \notin PathTo(q)
               /\ \A x \in Pending(R)' : x # v => v \notin PathTo(Execution[x])
    BY <1>2, <1>a, <1>b, <2>2, <2>3, <2>4, <2>6, Zenon DEF Unexplored
  <2> QED
    BY <1>a, <2>2, <2>5, <2>6, Zenon DEF Unexplored
<1>3. CASE ~RunOnce(t) /\ Pending(R)' = Pending(Q)
  <2>1. explored' = explored /\ Explored' = Explored
    BY <1>3, StepExplored, Zenon
  <2> QED
    BY <1>3, <1>a, <1>b, <2>1, Zenon DEF Unexplored
<1> QED
  BY <1>1, <1>2, <1>3, StepPending

-----------------------------------------------------------------------------
(* The alternatives of the explored executions.                            *)

(* A worker gets to compute prefixes only by executing its work item.      *)
LEMMA StepRanExplored ==
  ASSUME NEW Q, NEW R, IInv(Q), NEW t \in Workers, SchedulerStep(t, Q, R)
  PROVE  RanExplored'
<1>a. /\ pc \in [Workers -> Labels]
      /\ work_item \in [Workers -> Nodes \cup {NoNode}]
      /\ RanExplored /\ Shape
  BY DEF IInv, DriverTypeOK
<1>b. Explored \subseteq Explored'
  BY StepExplored, Zenon
<1> USE <1>a, <1>b DEF RanExplored, Goto, Ran, Computing
<1>1. CASE Take(t, Q, R)
  BY <1>1 DEF Take
<1>2. CASE Put(t, Q, R)
  BY <1>2, Zenon DEF Put, Shape
<1>3. CASE Roam(t, Q, R)
  BY <1>3 DEF Roam, Idle
<1>4. CASE SkipPruned(t)
  BY <1>4 DEF SkipPruned
<1>5. CASE Accept(t)
  BY <1>5 DEF Accept
<1>6. CASE RunOnce(t)
  <2>1. Execution[work_item[t]] \in Explored'
    BY <1>6, StepExplored, Zenon
  <2> QED
    BY <1>6, <2>1, Zenon DEF RunOnce
<1>7. CASE TryAlloc(t)
  <2>1. pc' = pc \/ pc' = [pc EXCEPT ![t] = "fetch_add"]
    BY <1>7 DEF TryAlloc
  <2> QED
    BY <1>7, <2>1 DEF TryAlloc
<1>8. CASE FetchAdd(t)
  BY <1>8 DEF FetchAdd
<1>9. CASE EndPrefixes(t)
  BY <1>9 DEF EndPrefixes
<1>10. CASE Finish(t)
  BY <1>10 DEF Finish
<1>11. CASE Halt(t, "dequeue") \/ Halt(t, "steal")
  BY <1>11 DEF Halt, notify_all
<1> QED
  BY <1>1, <1>2, <1>3, <1>4, <1>5, <1>6, <1>7, <1>8, <1>9, <1>10, <1>11, Zenon
     DEF SchedulerStep, DriverStep

(* compute_prefixes goes through the alternatives of its own execution.    *)
LEMMA StepTodoSiblings ==
  ASSUME NEW Q, NEW R, IInv(Q), NEW t \in Workers, SchedulerStep(t, Q, R)
  PROVE  TodoSiblings'
<1>a. /\ pc \in [Workers -> Labels]
      /\ work_item \in [Workers -> Nodes \cup {NoNode}]
      /\ todo \in [Workers -> Seq(Nodes \ {Root})]
      /\ TodoSiblings /\ Shape
  BY DEF IInv, DriverTypeOK
<1> USE <1>a DEF TodoSiblings, Goto, Computing
<1>1. CASE Take(t, Q, R)
  BY <1>1 DEF Take
<1>2. CASE Put(t, Q, R)
  BY <1>2 DEF Put, Shape
<1>3. CASE Roam(t, Q, R)
  BY <1>3 DEF Roam, Idle
<1>4. CASE SkipPruned(t)
  BY <1>4 DEF SkipPruned
<1>5. CASE Accept(t)
  BY <1>5 DEF Accept
<1>6. CASE RunOnce(t)
  <2> DEFINE e == Execution[work_item[t]]
  <2>1. /\ pc' = [pc EXCEPT ![t] = "prefixes"]
        /\ todo' = [todo EXCEPT ![t] = Alternatives[e]]
        /\ work_item' = work_item
    BY <1>6, Zenon DEF RunOnce
  <2>2. \A i \in 1..Len(Alternatives[e]) : Alternatives[e][i] \in Siblings(e)
    BY Zenon DEF Siblings
  <2>3. todo'[t] = Alternatives[e] /\ \A u \in Workers : u # t => todo'[u] = todo[u]
    BY <2>1
  <2> QED
    BY <2>1, <2>2, <2>3, Zenon
<1>7. CASE TryAlloc(t)
  <2>1. pc[t] = "prefixes" /\ UNCHANGED work_item
    BY <1>7 DEF TryAlloc
  <2>2. pc' = pc \/ pc' = [pc EXCEPT ![t] = "fetch_add"]
    BY <1>7 DEF TryAlloc
  <2>3. todo[t] # << >> /\ todo' = [todo EXCEPT ![t] = Tail(todo[t])]
    BY <1>7 DEF TryAlloc
  <2>4. \A i \in 1..Len(Tail(todo[t])) :
          i + 1 \in 1..Len(todo[t]) /\ Tail(todo[t])[i] = todo[t][i + 1]
    BY <2>3
  <2> QED
    BY <2>1, <2>2, <2>3, <2>4
<1>8. CASE FetchAdd(t)
  BY <1>8 DEF FetchAdd
<1>9. CASE EndPrefixes(t)
  BY <1>9 DEF EndPrefixes
<1>10. CASE Finish(t)
  BY <1>10 DEF Finish
<1>11. CASE Halt(t, "dequeue") \/ Halt(t, "steal")
  BY <1>11, ZenonT(60) DEF Halt, notify_all
<1> QED
  BY <1>1, <1>2, <1>3, <1>4, <1>5, <1>6, <1>7, <1>8, <1>9, <1>10, <1>11, Zenon
     DEF SchedulerStep, DriverStep

(* The alternative s of the execution with path p is still to be           *)
(* considered.                                                             *)
ToConsider(p, s) ==
  \E t \in Workers : /\ pc[t] \in Computing
                     /\ Execution[work_item[t]] = p
                     /\ \E i \in 1..Len(todo[t]) : todo[t][i] = s

(* An alternative stops being considered only when it is allocated.        *)
LEMMA StepToConsider ==
  ASSUME NEW Q, NEW R, IInv(Q), NEW t \in Workers, SchedulerStep(t, Q, R),
         NEW p, NEW s, ToConsider(p, s)
  PROVE  s \in children_unf_set' \/ ToConsider(p, s)'
<1>a. /\ pc \in [Workers -> Labels]
      /\ work_item \in [Workers -> Nodes \cup {NoNode}]
      /\ todo \in [Workers -> Seq(Nodes \ {Root})]
      /\ Shape
  BY DEF IInv, DriverTypeOK
<1>b. PICK u \in Workers : /\ pc[u] \in Computing
                           /\ Execution[work_item[u]] = p
                           /\ \E i \in 1..Len(todo[u]) : todo[u][i] = s
  BY Zenon DEF ToConsider
<1>c. ASSUME pc'[u] \in Computing, work_item'[u] = work_item[u], todo'[u] = todo[u]
      PROVE  ToConsider(p, s)'
  BY <1>b, <1>c, Zenon DEF ToConsider
<1> USE <1>a, <1>b DEF Goto, Computing
<1>1. CASE Take(t, Q, R)
  BY <1>1, <1>c DEF Take
<1>2. CASE Put(t, Q, R)
  BY <1>2, <1>c, Zenon DEF Put, Shape
<1>3. CASE Roam(t, Q, R)
  BY <1>3, <1>c DEF Roam, Idle
<1>4. CASE SkipPruned(t)
  BY <1>4, <1>c, Zenon DEF SkipPruned
<1>5. CASE Accept(t)
  BY <1>5, <1>c DEF Accept
<1>6. CASE RunOnce(t)
  BY <1>6, <1>c, Zenon DEF RunOnce
<1>7. CASE TryAlloc(t)
  <2>1. /\ todo[t] # << >> /\ todo' = [todo EXCEPT ![t] = Tail(todo[t])]
        /\ todo[t][1] \in children_unf_set'
    BY <1>7, TryAllocEffect DEF IInv
  <2>2. work_item' = work_item /\ (pc' = pc \/ pc' = [pc EXCEPT ![t] = "fetch_add"])
    BY <1>7 DEF TryAlloc
  <2>3. CASE u # t
    BY <2>1, <2>2, <2>3, <1>c
  <2>4. CASE u = t
    <3>1. PICK i \in 1..Len(todo[t]) : todo[t][i] = s
      BY <2>4
    <3>2. CASE i = 1
      BY <2>1, <3>1, <3>2
    <3>3. CASE i # 1
      <4>1. i - 1 \in 1..Len(Tail(todo[t])) /\ Tail(todo[t])[i - 1] = s
        BY <2>1, <3>1, <3>3
      <4>2. todo'[t] = Tail(todo[t])
        BY <2>1
      <4>3. pc'[t] \in Computing /\ Execution[work_item'[t]] = p
        BY <2>2, <2>4
      <4> QED
        BY <4>1, <4>2, <4>3, ZenonT(60) DEF ToConsider
    <3> QED
      BY <3>2, <3>3
  <2> QED
    BY <2>3, <2>4
<1>8. CASE FetchAdd(t)
  BY <1>8, <1>c DEF FetchAdd
<1>9. CASE EndPrefixes(t)
  <2>1. u # t
    BY <1>9 DEF EndPrefixes, PrefixesDone
  <2> QED
    BY <1>9, <1>c, <2>1 DEF EndPrefixes
<1>10. CASE Finish(t)
  BY <1>10, <1>c, Zenon DEF Finish
<1>11. CASE Halt(t, "dequeue") \/ Halt(t, "steal")
  BY <1>11, <1>c, Zenon DEF Halt, notify_all, Shape
<1> QED
  BY <1>1, <1>2, <1>3, <1>4, <1>5, <1>6, <1>7, <1>8, <1>9, <1>10, <1>11
     DEF SchedulerStep, DriverStep

(* No alternative of an explored execution is forgotten.                   *)
LEMMA StepSiblingsSeen ==
  ASSUME NEW Q, NEW R, IInv(Q), NEW t \in Workers, SchedulerStep(t, Q, R)
  PROVE  SiblingsSeen'
<1>a. \A p \in Explored : \A s \in Siblings(p) :
        s \in children_unf_set \/ ToConsider(p, s)
  BY Zenon DEF IInv, SiblingsSeen, ToConsider
<1> SUFFICES ASSUME NEW p \in Explored', NEW s \in Siblings(p)
             PROVE  s \in children_unf_set' \/ ToConsider(p, s)'
  BY Zenon DEF SiblingsSeen, ToConsider
<1>1. CASE p \in Explored
  BY <1>1, <1>a, StepToConsider, StepExplored
<1>2. CASE p \notin Explored
  <2>1. RunOnce(t) /\ p = Execution[work_item[t]]
    BY <1>2, StepExplored
  <2>2. pc'[t] = "prefixes" /\ todo'[t] = Alternatives[p] /\ work_item' = work_item
    BY <2>1, Zenon DEF RunOnce, Goto, IInv, DriverTypeOK
  <2>3. \E i \in 1..Len(todo'[t]) : todo'[t][i] = s
    BY <2>2, Zenon DEF Siblings
  <2> QED
    BY <2>1, <2>2, <2>3 DEF ToConsider, Computing
<1> QED
  BY <1>1, <1>2

(* An execution is known when it was explored or a pending work item leads *)
(* to it: the work item of a worker that has run leads to an explored one. *)
LEMMA KnownMembers ==
  ASSUME NEW Q, Shape, RanExplored, NoNode \notin Q \cup dropped
  PROVE  \A q : q \in KnownBy(Q) <=>
                  q \in Explored \/ \E n \in Pending(Q) : q = Execution[n]
<1> SUFFICES ASSUME NEW q
             PROVE  q \in KnownBy(Q) <=>
                      q \in Explored \/ \E n \in Pending(Q) : q = Execution[n]
  OBVIOUS
<1>1. q \in KnownBy(Q) <=>
        \/ q \in Explored
        \/ \E n : (n \in Q \/ n \in dropped \/ Holds(n)) /\ q = Execution[n]
        \/ \E t \in Workers : sibling[t] # NoNode /\ q = Execution[sibling[t]]
  BY BusyMembers DEF KnownBy
<1>2. (\E n \in Pending(Q) : q = Execution[n]) <=>
        \E n : (n \in Q \/ n \in dropped \/ Defers(n)) /\ q = Execution[n]
  BY PendingMembers
<1>3. ASSUME NEW n, Holds(n)
      PROVE  Defers(n) \/ Execution[n] \in Explored
  BY <1>3 DEF Holds, Defers, Shape, RanExplored
<1>4. ASSUME NEW n, Defers(n)
      PROVE  Holds(n) \/ \E t \in Workers : sibling[t] # NoNode /\ n = sibling[t]
  BY <1>4 DEF Holds, Defers, Shape
<1>5. ASSUME NEW t \in Workers, sibling[t] # NoNode
      PROVE  Defers(sibling[t])
  BY <1>5 DEF Defers
<1> QED
  BY <1>1, <1>2, <1>3, <1>4, <1>5

(* The executions known after a step of the workers.                       *)
LEMMA KnownMembersNext ==
  ASSUME NEW Q, Shape', RanExplored', NoNode \notin Q \cup dropped'
  PROVE  \A q : q \in KnownBy(Q)' <=>
                  q \in Explored' \/ \E n \in Pending(Q)' : q = Execution[n]
<1> SUFFICES ASSUME NEW q
             PROVE  q \in KnownBy(Q)' <=>
                      q \in Explored' \/ \E n \in Pending(Q)' : q = Execution[n]
  OBVIOUS
<1>1. q \in KnownBy(Q)' <=>
        \/ q \in Explored'
        \/ \E n : (n \in Q \/ n \in dropped' \/ Holds(n)') /\ q = Execution[n]
        \/ \E t \in Workers : sibling'[t] # NoNode /\ q = Execution[sibling'[t]]
  BY BusyMembersNext DEF KnownBy
<1>2. (\E n \in Pending(Q)' : q = Execution[n]) <=>
        \E n : (n \in Q \/ n \in dropped' \/ Defers(n)') /\ q = Execution[n]
  BY PendingMembersNext
<1>3. ASSUME NEW n, Holds(n)'
      PROVE  Defers(n)' \/ Execution[n] \in Explored'
  BY <1>3 DEF Holds, Defers, Shape, RanExplored
<1>4. ASSUME NEW n, Defers(n)'
      PROVE  Holds(n)' \/ \E t \in Workers : sibling'[t] # NoNode /\ n = sibling'[t]
  BY <1>4 DEF Holds, Defers, Shape
<1>5. ASSUME NEW t \in Workers, sibling'[t] # NoNode
      PROVE  Defers(sibling[t])'
  BY <1>5 DEF Defers
<1> QED
  BY <1>1, <1>2, <1>3, <1>4, <1>5

(* A new execution becomes known only when try_alloc_unf finds a feasible  *)
(* sibling new, and no execution is ever forgotten.                        *)
LEMMA StepKnown ==
  ASSUME NEW Q, NEW R, IInv(Q), NEW t \in Workers, SchedulerStep(t, Q, R)
  PROVE  \/ /\ TryAlloc(t) /\ todo[t][1] \in Feasible \ children_unf_set
            /\ KnownBy(R)' = KnownBy(Q) \cup {Execution[todo[t][1]]}
         \/ KnownBy(R)' = KnownBy(Q)
<1>a. \A q : q \in KnownBy(Q) <=>
               q \in Explored \/ \E n \in Pending(Q) : q = Execution[n]
  BY DriverAssumption, KnownMembers DEF DriverAssumption, IInv, DriverTypeOK
<1>b. \A q : q \in KnownBy(R)' <=>
               q \in Explored' \/ \E n \in Pending(R)' : q = Execution[n]
  <2>1. Shape' /\ RanExplored'
    BY StepShape, StepRanExplored
  <2>2. outstanding_jobs - 1 \in Nat \/ pc[t] # "finish"
    BY FinishCounts
  <2>3. DriverTypeOK' /\ R \subseteq Nodes
    BY <2>2, StepTypeOK DEF IInv
  <2> QED
    BY <2>1, <2>3, DriverAssumption, KnownMembersNext DEF DriverAssumption, DriverTypeOK
<1>1. CASE /\ RunOnce(t) /\ work_item[t] \in Pending(Q)
           /\ Pending(R)' = Pending(Q) \ {work_item[t]}
  <2>1. Explored' = Explored \cup {Execution[work_item[t]]}
    BY <1>1, StepExplored, Zenon
  <2>2. \A q : q \in KnownBy(R)' <=> q \in KnownBy(Q)
    BY <1>a, <1>b, <1>1, <2>1
  <2> QED
    BY <2>2, Zenon
<1>2. CASE /\ TryAlloc(t) /\ todo[t][1] \in Feasible \ children_unf_set
           /\ Pending(R)' = Pending(Q) \cup {todo[t][1]}
  <2>1. Explored' = Explored
    BY <1>2, StepExplored, Zenon DEF TryAlloc, RunOnce
  <2>2. KnownBy(R)' = KnownBy(Q) \cup {Execution[todo[t][1]]}
    BY <1>a, <1>b, <1>2, <2>1, Zenon
  <2> QED
    BY <1>2, <2>2
<1>3. CASE ~RunOnce(t) /\ Pending(R)' = Pending(Q)
  <2>1. Explored' = Explored
    BY <1>3, StepExplored
  <2>2. \A q : q \in KnownBy(R)' <=> q \in KnownBy(Q)
    BY <1>a, <1>b, <1>3, <2>1
  <2> QED
    BY <2>2
<1> QED
  BY <1>1, <1>2, <1>3, StepPending, Zenon

(* A feasible node is allocated only together with an execution that is    *)
(* explored, or known, and passes through it.                              *)
LEMMA StepCovered ==
  ASSUME NEW Q, NEW R, IInv(Q), NEW t \in Workers, SchedulerStep(t, Q, R)
  PROVE  Covered(R)'
<1>a. Covered(Q) /\ DriverTypeOK
  BY DEF IInv
<1>b. KnownBy(Q) \subseteq KnownBy(R)'
  BY StepKnown
<1> SUFFICES ASSUME NEW s \in children_unf_set', s \in Feasible
             PROVE  \E q \in KnownBy(R)' : s \in PathTo(q)
  BY DEF Covered
<1>1. CASE s \in children_unf_set
  BY <1>a, <1>b, <1>1 DEF Covered
<1>2. CASE RunOnce(t) /\ s \notin children_unf_set
  <2>1. Execution[work_item[t]] \in Explored'
    BY <1>2, StepExplored
  <2>2. s \in PathTo(Execution[work_item[t]])
    BY <1>2, Zenon DEF RunOnce, NewDecisions
  <2> QED
    BY <2>1, <2>2 DEF KnownBy
<1>3. CASE TryAlloc(t) /\ s \notin children_unf_set
  <2>1. s \in Nodes \ {Root} /\ sibling' = [sibling EXCEPT ![t] = s]
    BY <1>a, <1>3, TryAllocEffect
  <2>2. sibling'[t] = s /\ s # NoNode
    BY <1>a, <2>1, DriverAssumption DEF DriverAssumption, DriverTypeOK
  <2>3. Execution[s] \in KnownBy(R)'
    BY <2>2 DEF KnownBy
  <2>4. s \in PathTo(s) /\ PathTo(s) \subseteq PathTo(Execution[s])
    BY <2>1, PathBasics, TreeAssumption DEF TreeAssumption
  <2> QED
    BY <2>3, <2>4
<1>4. RunOnce(t) \/ TryAlloc(t) \/ children_unf_set' = children_unf_set
  BY Zenon DEF SchedulerStep, DriverStep, Take, Put, Roam, SkipPruned, Accept,
         FetchAdd, EndPrefixes, Finish, Halt
<1> QED
  BY <1>1, <1>2, <1>3, <1>4

(* An error that run_once saw is kept in errors until handle_trace records *)
(* the execution, and only a failing execution is recorded.                *)
LEMMA StepBlame ==
  ASSUME NEW Q, NEW R, IInv(Q), NEW t \in Workers, SchedulerStep(t, Q, R)
  PROVE  Blame'
<1>a. /\ pc \in [Workers -> Labels]
      /\ work_item \in [Workers -> Nodes \cup {NoNode}]
      /\ errors \in [Workers -> BOOLEAN]
      /\ Execution \in [Nodes -> Nodes] /\ NoNode \notin Nodes
      /\ Shape /\ Blame
  BY DriverAssumption DEF DriverAssumption, IInv, DriverTypeOK
<1>b. Erroneous' = Erroneous /\ Explored \subseteq Explored'
  BY StepExplored
<1>1. CASE RunOnce(t)
  <2>1. Explored' = Explored \cup {Execution[work_item[t]]}
    BY <1>1, StepExplored
  <2>2. error_trace' = error_trace /\ work_item' = work_item
    BY <1>1, Zenon DEF RunOnce
  <2>3. errors'[t] <=> errors[t] \/ Execution[work_item[t]] \in Erroneous
    BY <1>1, <1>a, ZenonT(60) DEF RunOnce
  <2>4. \A u \in Workers : u # t => errors'[u] = errors[u] /\ pc'[u] = pc[u]
    BY <1>1, <1>a DEF RunOnce, Goto
  <2>5. pc[t] \notin Ran /\ pc'[t] \in Ran
    BY <1>1, <1>a DEF RunOnce, Goto, Ran, Computing
  <2>6. \A u \in Workers : errors'[u] /\ error_trace' = NoNode =>
          pc'[u] \in Ran /\ Execution[work_item'[u]] \in Erroneous
    BY <1>a, <2>2, <2>3, <2>4, <2>5, Zenon DEF Blame
  <2>7. ASSUME Explored' \cap Erroneous # {}
        PROVE  error_trace' # NoNode \/ \E u \in Workers : errors'[u]
    <3>1. CASE Execution[work_item[t]] \in Erroneous
      BY <2>3, <3>1
    <3>2. CASE Explored \cap Erroneous # {}
      <4>1. error_trace # NoNode \/ \E u \in Workers : errors[u]
        BY <1>a, <3>2 DEF Blame
      <4> QED
        BY <4>1, <2>2, <2>3, <2>4
    <3> QED
      BY <2>1, <2>7, <3>1, <3>2
  <2>8. error_trace' # NoNode => error_trace' \in Explored' \cap Erroneous
    BY <1>a, <1>b, <2>2 DEF Blame
  <2> QED
    BY <1>b, <2>6, <2>7, <2>8, Zenon DEF Blame
<1>2. CASE Finish(t)
  <2>1. /\ pc[t] \in Ran /\ errors' = errors /\ Explored' = Explored
        /\ error_trace' = IF errors[t] /\ error_trace = NoNode
                            THEN Execution[work_item[t]] ELSE error_trace
        /\ work_item[t] \in Nodes
    BY <1>2, <1>a, Zenon DEF Finish, HandleTrace, Explored, Ran, Shape
  <2>2. Execution[work_item[t]] \in Explored
    BY <2>1, Zenon DEF IInv, RanExplored
  <2>3. \A u \in Workers : u # t => pc'[u] = pc[u] /\ work_item'[u] = work_item[u]
    BY <1>2, <1>a DEF Finish, Goto
  <2>4. Execution[work_item[t]] # NoNode
    BY <1>a, <2>1
  <2>5. errors[t] => error_trace' # NoNode
    BY <2>1, <2>4
  <2> QED
    BY <1>a, <1>b, <2>1, <2>2, <2>3, <2>5, Zenon DEF Blame
<1>3. CASE ~RunOnce(t) /\ ~Finish(t)
  <2>1. errors' = errors /\ error_trace' = error_trace
    BY <1>3, Zenon DEF SchedulerStep, DriverStep, Take, Put, Roam, SkipPruned, Accept,
                TryAlloc, FetchAdd, EndPrefixes, Halt
  <2>2. Explored' = Explored
    BY <1>3, StepExplored
  <2>3. \A u \in Workers : pc[u] \in Ran => pc'[u] \in Ran /\ work_item'[u] = work_item[u]
    BY <1>3, <1>a, Zenon DEF SchedulerStep, DriverStep, Take, Put, Roam, SkipPruned, Accept,
                TryAlloc, FetchAdd, EndPrefixes, Halt, Goto, Ran, Computing, Idle,
                Shape, notify_all
  <2> QED
    BY <1>a, <1>b, <2>1, <2>2, <2>3 DEF Blame
<1> QED
  BY <1>1, <1>2, <1>3

-----------------------------------------------------------------------------
(* The invariant, and the promise kept.                                    *)

(* With the root enqueued and no worker started the invariant holds.       *)
LEMMA InitIInv ==
  ASSUME NEW Q, DriverInit, Q = {Root}
  PROVE  IInv(Q)
<1>1. DriverTypeOK /\ Q \subseteq Nodes
  BY InitTypeOK, DriverAssumption DEF DriverAssumption
<1>2. Shape
  BY DEF DriverInit, Shape, Ran, Computing
<1>3. Root # NoNode
  BY DriverAssumption DEF DriverAssumption
<1>4. Placed(Q)
  BY <1>3 DEF DriverInit, Placed
<1>5. Jobs(Q) = {Root}
  <2>1. Busy = {}
    BY DEF Busy, Held, DriverInit
  <2> QED
    BY <2>1 DEF Jobs, DriverInit
<1>6. Accounting(Q)
  BY <1>5, FS_Singleton, Zenon DEF Accounting, DriverInit
<1>7. Exhausted(Q)
  BY DEF Exhausted, DriverInit
<1>8. Explored = {}
  BY DEF Explored, DriverInit
<1>9. Pending(Q) = {Root}
  BY DEF Pending, DriverInit
<1>10. Unexplored(Q)
  <2>1. PathTo(Root) = {}
    BY DEF PathTo, Root
  <2>2. \A n \in Nodes : explored[n] <= 1
    BY DEF DriverInit
  <2> QED
    BY <1>8, <1>9, <2>1, <2>2 DEF Unexplored
<1>11. RanExplored /\ TodoSiblings /\ SiblingsSeen /\ Covered(Q)
  BY <1>8 DEF DriverInit, RanExplored, TodoSiblings, SiblingsSeen, Covered, Ran, Computing
<1>12. Blame
  BY <1>8 DEF DriverInit, Blame
<1> QED
  BY <1>1, <1>2, <1>4, <1>6, <1>7, <1>10, <1>11, <1>12 DEF IInv

(* Every step that a worker makes, whatever the scheduler, keeps the       *)
(* invariant.                                                              *)
LEMMA StepIInv ==
  ASSUME NEW Q, NEW R, IInv(Q), NEW t \in Workers, SchedulerStep(t, Q, R)
  PROVE  IInv(R)'
<1>1. outstanding_jobs - 1 \in Nat \/ pc[t] # "finish"
  BY FinishCounts
<1>2. DriverTypeOK' /\ R \subseteq Nodes
  BY <1>1, StepTypeOK DEF IInv
<1>3. Shape' /\ Placed(R)' /\ Accounting(R)' /\ Exhausted(R)'
  BY StepShape, StepPlaced, StepAccounting, StepExhausted
<1>4. Unexplored(R)' /\ RanExplored' /\ TodoSiblings' /\ SiblingsSeen'
  BY StepUnexplored, StepRanExplored, StepTodoSiblings, StepSiblingsSeen
<1>5. Covered(R)' /\ Blame'
  BY StepCovered, StepBlame
<1> QED
  BY <1>2, <1>3, <1>4, <1>5 DEF IInv

(* What no worker changes keeps the invariant.                             *)
LEMMA StutterIInv ==
  ASSUME NEW Q, IInv(Q), UNCHANGED driverVars
  PROVE  /\ IInv(Q)'
         /\ UNCHANGED Erroneous /\ Explored' = Explored /\ Verdict' = Verdict
         /\ KnownBy(Q)' = KnownBy(Q)
<1> USE DEF driverVars
<1>1. DriverTypeOK' /\ Shape' /\ Placed(Q)'
  BY DEF IInv, DriverTypeOK, Shape, Placed
<1>2. Explored' = Explored /\ Verdict' = Verdict
  BY DEF Explored, Verdict
<1>3. Busy' = Busy /\ Jobs(Q)' = Jobs(Q) /\ Pending(Q)' = Pending(Q)
  BY Zenon DEF Busy, Held, Jobs, Pending
<1>4. KnownBy(Q)' = KnownBy(Q)
  BY <1>2, <1>3, Zenon DEF KnownBy
<1>5. Accounting(Q)' /\ Exhausted(Q)'
  BY <1>3 DEF IInv, Accounting, Exhausted
<1>6. Unexplored(Q)' /\ RanExplored' /\ TodoSiblings' /\ SiblingsSeen'
  <2>1. Unexplored(Q)'
    BY <1>2, <1>3, Zenon DEF IInv, Unexplored
  <2>2. RanExplored'
    BY <1>2, Zenon DEF IInv, RanExplored
  <2>3. TodoSiblings'
    BY <1>2, Zenon DEF IInv, TodoSiblings
  <2>4. SiblingsSeen'
    BY <1>2 DEF IInv, SiblingsSeen
  <2> QED BY <2>1, <2>2, <2>3, <2>4
<1>7. Covered(Q)' /\ Blame'
  BY <1>2, <1>4 DEF IInv, Covered, Blame
<1> QED
  BY <1>1, <1>2, <1>4, <1>5, <1>6, <1>7 DEF IInv

(* The steps of Exploration, read on the state of the workers: K is the    *)
(* set of known executions before the step and L the one after it.         *)
Reaches(K, s) == \E q \in K : s \in PathTo(q)

Explores(K, L) ==
  /\ Verdict # "exhausted"
  /\ \E p \in K \ Explored : Explored' = Explored \cup {p}
  /\ L = K /\ Verdict' = Verdict

Discovers(K, L) ==
  /\ Verdict # "exhausted"
  /\ \E p \in Explored : \E s \in Siblings(p) \cap Feasible :
       ~Reaches(K, s) /\ L = K \cup {Execution[s]}
  /\ Explored' = Explored /\ Verdict' = Verdict

Exhausts(K, L) ==
  /\ Verdict = "none"
  /\ Explored = K
  /\ \A p \in Explored : \A s \in Siblings(p) \cap Feasible : Reaches(K, s)
  /\ Verdict' = "exhausted"
  /\ L = K /\ Explored' = Explored

Fails(K, L) ==
  /\ Verdict = "none"
  /\ Explored \cap Erroneous # {}
  /\ Verdict' = "error"
  /\ L = K /\ Explored' = Explored

Stutters(K, L) == L = K /\ Explored' = Explored /\ Verdict' = Verdict

(* A worker that has work keeps the exploration from being exhausted.      *)
LEMMA WorkingNotExhausted ==
  ASSUME NEW Q, IInv(Q), NEW t \in Workers, work_item[t] # NoNode
  PROVE  Verdict # "exhausted"
<1>1. work_item[t] \in Jobs(Q)
  BY BusyMembers DEF Jobs, Holds
<1> QED
  BY <1>1 DEF IInv, Exhausted, Verdict

(* run_once explores an execution that was known and not explored.         *)
LEMMA RunExplores ==
  ASSUME NEW Q, NEW R, IInv(Q), NEW t \in Workers, SchedulerStep(t, Q, R),
         NEW K, NEW L, K = KnownBy(Q), L = KnownBy(R)',
         RunOnce(t)
  PROVE  Explores(K, L)
<1> DEFINE w == work_item[t]
<1>1. /\ w \in Nodes /\ Execution[w] \in Nodes
      /\ Explored' = Explored \cup {Execution[w]}
  BY StepExplored
<1>2. w # NoNode
  BY <1>1, DriverAssumption DEF DriverAssumption
<1>3. L = K
  BY StepKnown, Zenon DEF RunOnce, TryAlloc
<1>4. Execution[w] \in K
  <2>1. w \in Busy
    BY <1>2, BusyMembers DEF Holds
  <2> QED
    BY <2>1 DEF KnownBy
<1>5. w \in Pending(Q)
  BY PendingMembers, Zenon DEF Defers, RunOnce
<1>6. Execution[w] \notin Explored
  <2>1. /\ w = Root => Explored = {}
        /\ \A q \in Explored : w \notin PathTo(q)
    BY <1>5, Zenon DEF IInv, Unexplored
  <2>2. w # Root => w \in PathTo(Execution[w])
    BY <1>1, PathBasics, TreeAssumption, Zenon DEF TreeAssumption
  <2> QED
    BY <2>1, <2>2
<1>7. Verdict # "exhausted"
  BY <1>2, WorkingNotExhausted
<1>8. Verdict' = Verdict
  BY Zenon DEF RunOnce, Verdict
<1> QED
  BY <1>1, <1>3, <1>4, <1>6, <1>7, <1>8, Zenon DEF Explores

(* A sibling that try_alloc_unf finds new, and that is feasible, was not   *)
(* covered by any known execution.                                         *)
LEMMA AllocDiscovers ==
  ASSUME NEW Q, NEW R, IInv(Q), NEW t \in Workers, SchedulerStep(t, Q, R),
         NEW K, NEW L, K = KnownBy(Q), L = KnownBy(R)',
         TryAlloc(t), todo[t][1] \in Feasible \ children_unf_set,
         L = K \cup {Execution[todo[t][1]]}
  PROVE  Discovers(K, L)
<1> DEFINE s == todo[t][1]
           p == Execution[work_item[t]]
<1>1. /\ p \in Explored /\ s \in Siblings(p)
      /\ \A q \in Explored : s \notin PathTo(q)
      /\ \A v \in Pending(Q) : s \notin PathTo(Execution[v])
  BY NewSibling, Zenon
<1>2. \A q : q \in K <=>
               q \in Explored \/ \E n \in Pending(Q) : q = Execution[n]
  BY DriverAssumption, KnownMembers, Zenon DEF DriverAssumption, IInv, DriverTypeOK
<1>3. ~Reaches(K, s)
  BY <1>1, <1>2, Zenon DEF Reaches
<1>4. Explored' = Explored /\ Verdict' = Verdict
  BY DEF TryAlloc, Explored, Verdict
<1>5. work_item[t] # NoNode
  BY Zenon DEF TryAlloc, IInv, Shape, Ran, Computing
<1>6. Verdict # "exhausted"
  BY <1>5, WorkingNotExhausted
<1> QED
  BY <1>1, <1>3, <1>4, <1>6, Zenon DEF Discovers

(* The verdict turns to "error" only when handle_trace is given an error.  *)
LEMMA FinishFails ==
  ASSUME NEW Q, NEW R, IInv(Q), NEW t \in Workers, SchedulerStep(t, Q, R),
         NEW K, NEW L, K = KnownBy(Q), L = KnownBy(R)',
         Finish(t)
  PROVE  Fails(K, L) \/ Stutters(K, L)
<1>1. L = K /\ Explored' = Explored
  BY StepKnown DEF Finish, TryAlloc, Explored
<1>2. /\ work_item[t] # NoNode /\ work_item[t] \in Nodes
      /\ Execution[work_item[t]] \in Explored
  BY Zenon DEF Finish, IInv, DriverTypeOK, Shape, RanExplored, Ran
<1>3. CASE errors[t] /\ error_trace = NoNode
  <2>1. Execution[work_item[t]] \in Erroneous
    BY <1>3 DEF IInv, Blame
  <2>2. Execution[work_item[t]] # NoNode
    BY <1>2, DriverAssumption, Zenon DEF DriverAssumption
  <2>3. Verdict = "none" /\ Verdict' = "error"
    BY <1>2, <1>3, <2>2, WorkingNotExhausted, Zenon DEF Finish, HandleTrace, Verdict
  <2> QED
    BY <1>1, <1>2, <2>1, <2>3, Zenon DEF Fails
<1>4. CASE ~(errors[t] /\ error_trace = NoNode)
  <2>1. Verdict' = Verdict
    BY <1>4 DEF Finish, HandleTrace, Verdict
  <2> QED
    BY <1>1, <2>1 DEF Stutters
<1> QED
  BY <1>3, <1>4

(* Without an error the workers are halted only when every known execution *)
(* was explored and no alternative is left.                                *)
LEMMA HaltExhausts ==
  ASSUME NEW Q, NEW R, IInv(Q), NEW t \in Workers, SchedulerStep(t, Q, R),
         NEW K, NEW L, K = KnownBy(Q), L = KnownBy(R)',
         Halt(t, "dequeue") \/ Halt(t, "steal")
  PROVE  Exhausts(K, L) \/ Stutters(K, L)
<1>1. L = K /\ Explored' = Explored
  BY StepKnown DEF Halt, TryAlloc, Explored
<1>2. CASE halting \/ error_trace # NoNode
  BY <1>1, <1>2 DEF Stutters, Verdict, Halt
<1>3. CASE ~halting /\ error_trace = NoNode
  <2>1. Verdict = "none" /\ Verdict' = "exhausted"
    BY <1>3 DEF Verdict, Halt
  <2>2. Q = {} /\ dropped = {} /\ Busy = {}
    BY <1>3 DEF Halt, IInv, Exhausted, Jobs
  <2>3. \A u \in Workers : work_item[u] = NoNode
    BY <2>2, BusyMembers, Zenon DEF Holds
  <2>4. \A u \in Workers : pc[u] \notin Ran \cup {"check", "run"} /\ sibling[u] = NoNode
    BY <2>3, Zenon DEF IInv, Shape, Ran, Computing
  <2>5. K = Explored
    BY <2>2, <2>4, Zenon DEF KnownBy
  <2>6. ASSUME NEW p \in Explored, NEW s \in Siblings(p), s \in Feasible
        PROVE  Reaches(K, s)
    <3>1. s \in children_unf_set
      BY <2>4, Zenon DEF IInv, SiblingsSeen, Ran
    <3> QED
      BY <2>6, <3>1 DEF IInv, Covered, Reaches
  <2> QED
    BY <1>1, <2>1, <2>5, <2>6 DEF Exhausts
<1> QED
  BY <1>2, <1>3

(* Every step of a worker is a step that Exploration allows, or changes    *)
(* nothing that Exploration speaks of.                                     *)
LEMMA StepRefines ==
  ASSUME NEW Q, NEW R, IInv(Q), NEW t \in Workers, SchedulerStep(t, Q, R),
         NEW K, NEW L, K = KnownBy(Q), L = KnownBy(R)'
  PROVE  /\ Erroneous' = Erroneous
         /\ \/ Explores(K, L)
            \/ Discovers(K, L)
            \/ Exhausts(K, L)
            \/ Fails(K, L)
            \/ Stutters(K, L)
<1>1. Erroneous' = Erroneous
  BY StepExplored, Zenon
<1>2. CASE RunOnce(t)
  BY <1>1, <1>2, RunExplores
<1>3. CASE Finish(t)
  BY <1>1, <1>3, FinishFails
<1>4. CASE Halt(t, "dequeue") \/ Halt(t, "steal")
  BY <1>1, <1>4, HaltExhausts
<1>5. CASE /\ TryAlloc(t) /\ todo[t][1] \in Feasible \ children_unf_set
           /\ L = K \cup {Execution[todo[t][1]]}
  BY <1>1, <1>5, AllocDiscovers, Zenon
<1>6. CASE /\ ~RunOnce(t) /\ ~Finish(t) /\ ~Halt(t, "dequeue") /\ ~Halt(t, "steal")
           /\ L = K
  <2>1. Explored' = Explored
    BY <1>6, StepExplored, Zenon
  <2>2. error_trace' = error_trace /\ halting' = halting
    BY <1>6, Zenon DEF SchedulerStep, DriverStep, Take, Put, Roam, SkipPruned, Accept,
                TryAlloc, FetchAdd, EndPrefixes
  <2> QED
    BY <1>1, <1>6, <2>1, <2>2 DEF Stutters, Verdict
<1> QED
  BY <1>2, <1>3, <1>4, <1>5, <1>6, StepKnown, Zenon

-----------------------------------------------------------------------------
(* Sleeping and halting.                                                   *)

(* A worker has decided that the workers shall halt.                       *)
Halted == halting \/ \E t \in Workers : pc[t] = "halt"

(* The workers that wait are those cv knows, the one that halts the others *)
(* is the one that keeps state.mutex, and a worker returns only when the   *)
(* scheduler is halting.  Nobody waits then, the last job and, without     *)
(* --keep-going, the first error make a worker halt the others, and only a *)
(* failed execution prunes.                                                *)
Parked ==
  /\ \A t \in Workers : /\ pc[t] = "wait" => t \in cv_waiters
                        /\ pc[t] = "halt" <=> state_mutex = t
                        /\ pc[t] = "done" => halting
  /\ halting => cv_waiters = {}
  /\ outstanding_jobs = 0 => Halted
  /\ error_trace # NoNode /\ ~KeepGoing => Halted
  /\ pruned_subtree \cup dropped # {} => Explored \cap Erroneous # {}

(* Nobody sleeps or has halted when run_rfsc_parallel starts its workers.  *)
LEMMA InitParked == DriverInit => Parked
BY MutexAssumption DEF MutexAssumption, DriverInit, Parked

(* Every step of a worker keeps this, provided that dequeue() waits only   *)
(* while the scheduler is not halting and returns nothing only when it is. *)
LEMMA StepParked ==
  ASSUME NEW Q, NEW R, IInv(Q), Parked, NEW t \in Workers, SchedulerStep(t, Q, R),
         pc'[t] = "wait" => ~halting, pc'[t] = "done" => halting
  PROVE  Parked'
<1>a. /\ pc \in [Workers -> Labels] /\ cv_waiters \subseteq Workers
      /\ outstanding_jobs \in Nat /\ halting \in BOOLEAN
      /\ \A u \in Workers : u \in cv_waiters => pc[u] = "wait"
  BY DEF IInv, DriverTypeOK, Shape
<1>b. /\ \A u \in Workers : /\ pc[u] = "wait" => u \in cv_waiters
                            /\ pc[u] = "halt" <=> state_mutex = u
                            /\ pc[u] = "done" => halting
      /\ halting => cv_waiters = {}
  BY Zenon DEF Parked
<1>1. CASE Finish(t)
  <2>1. /\ pc[t] = "finish" /\ state_mutex = NoNode
        /\ UNCHANGED <<halting, cv_waiters, pruned_subtree, dropped, explored, Erroneous>>
        /\ outstanding_jobs' = outstanding_jobs - 1
        /\ \/ pc' = [pc EXCEPT ![t] = "halt"] /\ state_mutex' = t
           \/ /\ pc' = [pc EXCEPT ![t] = "dequeue"] /\ state_mutex' = state_mutex
              /\ outstanding_jobs # 1 /\ ~(errors[t] /\ ~KeepGoing)
    BY <1>1 DEF Finish, Goto, StopOnError, LastJob
  <2>2. outstanding_jobs' = 0 => Halted'
    BY <2>1, <1>a DEF Halted
  <2>3. error_trace' # NoNode /\ ~KeepGoing => Halted'
    <3>1. CASE error_trace # NoNode
      BY <2>1, <3>1, <1>a DEF Parked, Halted
    <3>2. CASE error_trace = NoNode
      BY <1>1, <2>1, <3>2, <1>a, Zenon DEF Finish, HandleTrace, Halted
    <3> QED
      BY <3>1, <3>2
  <2>4. (pruned_subtree \cup dropped # {} => Explored \cap Erroneous # {})'
    BY <2>1 DEF Parked, Explored
  <2>5. \A u \in Workers : /\ pc'[u] = "wait" => u \in cv_waiters'
                           /\ pc'[u] = "halt" <=> state_mutex' = u
                           /\ pc'[u] = "done" => halting'
    BY <2>1, <1>a, <1>b, MutexAssumption DEF MutexAssumption
  <2> QED
    BY <2>1, <2>2, <2>3, <2>4, <2>5, <1>b, Zenon DEF Parked
<1>2. CASE Halt(t, "dequeue") \/ Halt(t, "steal")
  <2>1. PICK l \in {"dequeue", "steal"} :
          /\ pc[t] = "halt" /\ halting' /\ cv_waiters' = {} /\ state_mutex' = NoNode
          /\ pc' = [u \in Workers |-> IF u \in cv_waiters THEN l
                                      ELSE IF u = t THEN "dequeue" ELSE pc[u]]
          /\ UNCHANGED <<pruned_subtree, dropped, explored, Erroneous>>
    BY <1>2 DEF Halt, notify_all
  <2>2. (pruned_subtree \cup dropped # {} => Explored \cap Erroneous # {})'
    BY <2>1 DEF Parked, Explored
  <2>3. \A u \in Workers : /\ pc'[u] = "wait" => u \in cv_waiters'
                           /\ pc'[u] = "halt" <=> state_mutex' = u
                           /\ pc'[u] = "done" => halting'
    BY <2>1, <1>a, <1>b, MutexAssumption DEF MutexAssumption
  <2> QED
    BY <2>1, <2>2, <2>3 DEF Parked, Halted
<1>3. CASE ~Finish(t) /\ ~Halt(t, "dequeue") /\ ~Halt(t, "steal")
  <2>1. /\ state_mutex' = state_mutex /\ error_trace' = error_trace /\ halting' = halting
        /\ outstanding_jobs' = outstanding_jobs \/ outstanding_jobs' = outstanding_jobs + 1
    BY <1>3, <1>a, Zenon DEF SchedulerStep, DriverStep, Take, Put, Roam, SkipPruned, Accept,
           RunOnce, TryAlloc, FetchAdd, fetch_add, EndPrefixes
  <2>2. \A u \in Workers : pc'[u] = "halt" <=> pc[u] = "halt"
    <3>1. pc[t] # "halt" /\ pc'[t] # "halt"
      BY <1>3, <1>a, Zenon DEF SchedulerStep, DriverStep, Take, Put, Roam, Idle, SkipPruned, Accept,
             RunOnce, TryAlloc, FetchAdd, EndPrefixes, Goto
    <3>2. \A u \in Workers : u # t =>
            pc'[u] = pc[u] \/ (u \in cv_waiters /\ pc'[u] \in {"dequeue", "steal"})
      BY <1>3, <1>a, Zenon DEF SchedulerStep, DriverStep, Take, Put, Roam, SkipPruned, Accept,
             RunOnce, TryAlloc, FetchAdd, EndPrefixes, Goto
    <3> QED
      BY <3>1, <3>2, <1>a
  <2>3. \A u \in Workers : /\ pc'[u] = "wait" => u \in cv_waiters'
                           /\ pc'[u] = "done" => halting'
    <3>1. CASE Put(t, Q, R)
      BY <3>1, <1>a, <1>b, <2>1 DEF Put
    <3>2. CASE Roam(t, Q, R)
      BY <3>2, <1>a, <1>b, <2>1 DEF Roam, Goto
    <3>3. CASE ~Put(t, Q, R) /\ ~Roam(t, Q, R)
      <4>1. cv_waiters' = cv_waiters /\ pc'[t] \notin {"wait", "done"}
            /\ \A u \in Workers : u # t => pc'[u] = pc[u]
        BY <1>3, <3>3, <1>a, Zenon DEF SchedulerStep, DriverStep, Take, SkipPruned, Accept,
               RunOnce, TryAlloc, FetchAdd, EndPrefixes, Goto
      <4> QED
        BY <4>1, <1>b, <2>1
    <3> QED
      BY <3>1, <3>2, <3>3
  <2>4. halting' => cv_waiters' = {}
    <3>1. CASE Roam(t, Q, R)
      BY <3>1, <1>a, <1>b, <2>1 DEF Roam, Goto
    <3>2. CASE ~Roam(t, Q, R)
      <4>1. cv_waiters' \subseteq cv_waiters
        BY <1>3, <3>2, Zenon DEF SchedulerStep, DriverStep, Take, Put, SkipPruned, Accept,
               RunOnce, TryAlloc, FetchAdd, EndPrefixes
      <4> QED
        BY <4>1, <1>b, <2>1
    <3> QED
      BY <3>1, <3>2
  <2>5. (outstanding_jobs' = 0 => Halted') /\ (error_trace' # NoNode /\ ~KeepGoing => Halted')
    <3>1. Halted => Halted'
      BY <2>1, <2>2 DEF Halted
    <3> QED
      BY <2>1, <3>1, <1>a DEF Parked
  <2>6. (pruned_subtree \cup dropped # {} => Explored \cap Erroneous # {})'
    <3>1. CASE RunOnce(t)
      <4>1. Explored' = Explored \cup {Execution[work_item[t]]} /\ Erroneous' = Erroneous
        BY <3>1, StepExplored
      <4>2. /\ dropped' = dropped
            /\ \/ pruned_subtree' = pruned_subtree
               \/ Execution[work_item[t]] \in Erroneous
        BY <3>1 DEF RunOnce, PrunedBy
      <4> QED
        BY <4>1, <4>2 DEF Parked
    <3>2. CASE ~RunOnce(t)
      <4>1. Explored' = Explored /\ Erroneous' = Erroneous
        BY <3>2, StepExplored
      <4>2. pruned_subtree' = pruned_subtree
            /\ (dropped' # dropped => pruned_subtree # {})
        BY <1>3, <3>2, Zenon DEF SchedulerStep, DriverStep, Take, Put, Roam, SkipPruned, is_pruned,
               Accept, TryAlloc, FetchAdd, EndPrefixes
      <4> QED
        BY <4>1, <4>2, Zenon DEF Parked
    <3> QED
      BY <3>1, <3>2
  <2> QED
    BY <2>1, <2>2, <2>3, <2>4, <2>5, <2>6, <1>b DEF Parked
<1> QED
  BY <1>1, <1>2, <1>3

(* A step in which nothing of the workers changes keeps it too.            *)
LEMMA StutterParked == Parked /\ UNCHANGED driverVars => Parked'
BY DEF driverVars, Parked, Halted, Explored

(* If nobody is awake, and it is not because all have returned or, with    *)
(* --keep-going, because reset() has skipped a pruned work item, then all  *)
(* sleep in cv.wait beside a queued work item.                             *)
LEMMA AllAsleep ==
  ASSUME NEW Q, IInv(Q), Parked, \A t \in Workers : pc[t] \in {"wait", "done"},
         ~\A t \in Workers : pc[t] = "done", ~(KeepGoing /\ dropped # {})
  PROVE  Q # {} /\ cv_waiters # {} /\ ~halting /\ \A t \in Workers : pc[t] = "wait"
<1>1. PICK u \in Workers : pc[u] = "wait"
  OBVIOUS
<1>2. u \in cv_waiters /\ ~halting
  BY <1>1 DEF Parked
<1>3. \A t \in Workers : pc[t] = "wait"
  BY <1>2 DEF Parked
<1>4. ~Halted
  BY <1>2, <1>3 DEF Halted
<1>5. Jobs(Q) # {}
  <2>1. outstanding_jobs # 0
    BY <1>4 DEF Parked
  <2> QED
    BY <2>1, FS_EmptySet DEF IInv, Accounting
<1>6. Busy = {}
  <2>1. \A t \in Workers : work_item[t] = NoNode /\ pc[t] # "push"
    BY <1>3 DEF IInv, Shape, Ran, Computing
  <2>2. \A x : ~Holds(x)
    BY <2>1 DEF Holds
  <2> QED
    BY <2>2, BusyMembers
<1>7. dropped = {}
  <2> SUFFICES ASSUME dropped # {} PROVE FALSE
    OBVIOUS
  <2>1. ~KeepGoing
    BY DEF Parked
  <2>2. error_trace = NoNode
    BY <1>4, <2>1 DEF Parked
  <2>3. Explored \cap Erroneous # {}
    BY DEF Parked
  <2>4. PICK t \in Workers : errors[t]
    BY <2>2, <2>3 DEF IInv, Blame
  <2>5. pc[t] \in Ran
    BY <2>2, <2>4 DEF IInv, Blame
  <2> QED
    BY <1>3, <2>5 DEF Ran, Computing
<1> QED
  BY <1>2, <1>3, <1>5, <1>6, <1>7 DEF Jobs

-----------------------------------------------------------------------------
(* Completeness.                                                           *)

(* The execution from the root is known as soon as the tree exists, and    *)
(* no step makes a known execution unknown.                                *)
LEMMA RootIsKnown ==
  ASSUME NEW Q, DriverInit, Q = {Root}
  PROVE  Execution[Root] \in KnownBy(Q)
BY DEF KnownBy

(* A known execution stays known, whatever step a worker makes.            *)
LEMMA KnownStaysKnown ==
  ASSUME NEW Q, NEW R, IInv(Q), NEW t \in Workers, SchedulerStep(t, Q, R)
  PROVE  KnownBy(Q) \subseteq KnownBy(R)'
BY StepKnown, Zenon

(* When the scheduler halts without an error, what is known is what was    *)
(* explored, and every feasible alternative is on the path of an explored  *)
(* execution.                                                              *)
LEMMA ExhaustedIsComplete ==
  ASSUME NEW Q, IInv(Q), halting, error_trace = NoNode
  PROVE  /\ KnownBy(Q) = Explored
         /\ \A p \in Explored : \A s \in Siblings(p) \cap Feasible :
              \E q \in Explored : s \in PathTo(q)
<1>1. Q = {} /\ dropped = {} /\ Busy = {}
  BY DriverAssumption DEF DriverAssumption, IInv, Exhausted, Jobs
<1>2. \A u \in Workers : work_item[u] = NoNode
  BY <1>1, BusyMembers, Zenon DEF Holds
<1>3. \A u \in Workers : pc[u] \notin Ran \cup {"check", "run"} /\ sibling[u] = NoNode
  BY <1>2, Zenon DEF IInv, Shape, Ran, Computing
<1>4. KnownBy(Q) = Explored
  BY <1>1, <1>3, Zenon DEF KnownBy
<1>5. ASSUME NEW p \in Explored, NEW s \in Siblings(p), s \in Feasible
      PROVE  \E q \in Explored : s \in PathTo(q)
  <2>1. s \in children_unf_set
    BY <1>3, Zenon DEF IInv, SiblingsSeen, Ran
  <2> QED
    BY <1>4, <1>5, <2>1 DEF IInv, Covered
<1> QED
  BY <1>4, <1>5
=============================================================================
