----------------------------- MODULE RFSCDriver -----------------------------
(***************************************************************************)
(* The worker threads of DPORDriver::run_rfsc_parallel and the shared      *)
(* decision tree (RFSCDecisionTree) they explore.  The two schedulers,     *)
(* PriorityQueueScheduler and WorkstealingPQScheduler, extend this module  *)
(* with the queue of work items.                                           *)
(*                                                                         *)
(* A DecisionNode is the path of decisions that leads to it: the node at   *)
(* depth d is a sequence of d + 1 unfolding nodes, its parent is the       *)
(* sequence without the last one, and the root (depth -1) is << >>.  What  *)
(* the analysed program does is given by constants: the complete path of   *)
(* decisions that executing a work item yields, the alternatives that      *)
(* compute_prefixes considers on that path, those among them for which     *)
(* try_sat finds a prefix, and the executions that report an error.        *)
(***************************************************************************)
EXTENDS Integers, Sequences, FiniteSets

CONSTANTS
  Workers,       \* the worker threads 0 .. conf.n_threads - 1
  Unf,           \* the unfolding nodes
  Nodes,         \* the decision nodes, sequences of unfolding nodes
  Execution,     \* work item -> decision path of its complete execution
  Alternatives,  \* complete path -> the siblings considered, in loop order
  Feasible,      \* the nodes for which try_sat returns a prefix
  Failures,      \* the sets of executions that may fail, one per program
  KeepGoing,     \* conf.explore_all_traces, the option --keep-going
  NoNode         \* nullptr

Root == << >>

Parent(n) == SubSeq(n, 1, Len(n) - 1)

(* The nodes from n up to, and without, the root.                          *)
PathTo(n) == {SubSeq(n, 1, k) : k \in 1..Len(n)}

(* The alternatives considered after an execution with decision path p.    *)
Siblings(p) == {Alternatives[p][i] : i \in 1..Len(Alternatives[p])}

ASSUME DriverAssumption ==
  /\ IsFiniteSet(Workers) /\ Workers # {}
  /\ IsFiniteSet(Nodes)
  /\ Root \in Nodes
  /\ NoNode \notin Nodes
  /\ KeepGoing \in BOOLEAN
  /\ Failures \subseteq SUBSET Nodes
  /\ Feasible \subseteq Nodes
  /\ Execution \in [Nodes -> Nodes]
  /\ Alternatives \in [Nodes -> Seq(Nodes \ {Root})]

(* Runs extend their work item, and the alternatives of a run are siblings *)
(* of the nodes on its path.                                               *)
ASSUME TreeAssumption ==
  /\ Nodes \subseteq Seq(Unf)
  /\ \A n \in Nodes : PathTo(n) \subseteq Nodes
  /\ \A w \in Nodes : PathTo(w) \subseteq PathTo(Execution[w])
  /\ \A w \in Nodes : \A s \in Siblings(Execution[w]) :
       /\ s \notin PathTo(Execution[w])
       /\ \E n \in PathTo(Execution[w]) : Len(n) = Len(s) /\ Parent(n) = Parent(s)

(* A mutex that nobody holds is told from one that a worker holds.         *)
ASSUME MutexAssumption == NoNode \notin Workers

VARIABLES
  Erroneous,         \* the executions in which Interpreter::abort is called
  pc,                \* where each worker is
  work_item,         \* TB.work_item, the work item each worker holds
  todo,              \* alternatives its compute_prefixes has still to consider
  sibling,           \* the sibling it is handing to the scheduler
  errors,            \* whether its TraceBuilder's errors vector is non-empty
  children_unf_set,  \* the nodes allocated in their parent's children_unf_set
  pruned_subtree,    \* the nodes whose pruned_subtree flag is set
  outstanding_jobs,  \* RFSCScheduler::outstanding_jobs
  halting,           \* the scheduler's halting flag
  cv_waiters,        \* the workers blocked in cv.wait
  state_mutex,       \* the worker that holds state.mutex, or NoNode
  error_trace,       \* the execution that res.error_trace records, or NoNode
  explored,          \* history: how often each complete path was executed
  dropped            \* history: work items that reset() skipped as pruned

driverVars == <<Erroneous, pc, work_item, todo, sibling, errors,
                children_unf_set, pruned_subtree, outstanding_jobs, halting,
                cv_waiters, state_mutex, error_trace, explored, dropped>>

Goto(t, l) == pc' = [pc EXCEPT ![t] = l]

(* A worker's whole loop; "dequeue" and "wait" are steps of the scheduler, *)
(* "steal" and "scan" only of the work-stealing one.                       *)
Labels == {"dequeue", "steal", "scan", "wait", "check", "run", "prefixes",
           "fetch_add", "push", "finish", "halt", "done"}

DriverTypeOK ==
  /\ Erroneous \subseteq Nodes
  /\ pc \in [Workers -> Labels]
  /\ work_item \in [Workers -> Nodes \cup {NoNode}]
  /\ todo \in [Workers -> Seq(Nodes \ {Root})]
  /\ sibling \in [Workers -> Nodes \cup {NoNode}]
  /\ errors \in [Workers -> BOOLEAN]
  /\ children_unf_set \subseteq Nodes
  /\ pruned_subtree \subseteq Nodes
  /\ outstanding_jobs \in Nat
  /\ halting \in BOOLEAN
  /\ cv_waiters \subseteq Workers
  /\ state_mutex \in Workers \cup {NoNode}
  /\ error_trace \in Nodes \cup {NoNode}
  /\ explored \in [Nodes -> Nat]
  /\ dropped \subseteq Nodes

(* The RFSCDecisionTree constructor has enqueued the root node before the  *)
(* workers start.                                                          *)
DriverInit ==
  /\ Erroneous \in Failures
  /\ pc = [t \in Workers |-> "dequeue"]
  /\ work_item = [t \in Workers |-> NoNode]
  /\ todo = [t \in Workers |-> << >>]
  /\ sibling = [t \in Workers |-> NoNode]
  /\ errors = [t \in Workers |-> FALSE]
  /\ children_unf_set = {}
  /\ pruned_subtree = {}
  /\ outstanding_jobs = 1
  /\ halting = FALSE
  /\ cv_waiters = {}
  /\ state_mutex = NoNode
  /\ error_trace = NoNode
  /\ explored = [n \in Nodes |-> 0]
  /\ dropped = {}

-----------------------------------------------------------------------------
(* A definition M_X is a plausible mistake in X; no specification uses it. *)
(* Steps that do not touch the scheduler's queue.                          *)

is_pruned(n) == PathTo(n) \cap pruned_subtree # {}

(* reset(): a pruned work item is skipped and the next one is dequeued;    *)
(* outstanding_jobs is not told.                                           *)
SkipPruned(t) ==
  /\ pc[t] = "check"
  /\ is_pruned(work_item[t])
  /\ dropped' = dropped \cup {work_item[t]}
  /\ work_item' = [work_item EXCEPT ![t] = NoNode]
  /\ Goto(t, "dequeue")
  /\ UNCHANGED <<Erroneous, todo, sibling, errors, children_unf_set,
                 pruned_subtree, outstanding_jobs, halting, cv_waiters,
                 state_mutex, error_trace, explored>>

(* reset(): the work item is not pruned and becomes the prefix to replay.  *)
Accept(t) ==
  /\ pc[t] = "check"
  /\ ~is_pruned(work_item[t])
  /\ Goto(t, "run")
  /\ UNCHANGED <<Erroneous, work_item, todo, sibling, errors,
                 children_unf_set, pruned_subtree, outstanding_jobs, halting,
                 cv_waiters, state_mutex, error_trace, explored, dropped>>

(* cancel_replay() blames the deepest decision that was replayed, which is *)
(* the work item itself, and prunes it; the root has no decision to blame. *)
PrunedBy(w) == IF Execution[w] \in Erroneous /\ w # Root THEN {w} ELSE {}

(* The nodes compute_unfolding allocates for the loads after the prefix.   *)
NewDecisions(w) == PathTo(Execution[w]) \ PathTo(w)

(* run_once(), then compute_vclocks() and compute_unfolding().             *)
RunOnce(t) ==
  LET w == work_item[t] IN
  /\ pc[t] = "run"
  /\ pruned_subtree' = pruned_subtree \cup PrunedBy(w)
  /\ errors' = [errors EXCEPT ![t] = @ \/ Execution[w] \in Erroneous]
  /\ explored' = [explored EXCEPT ![Execution[w]] = @ + 1]
  /\ children_unf_set' = children_unf_set \cup NewDecisions(w)
  /\ todo' = [todo EXCEPT ![t] = Alternatives[Execution[w]]]
  /\ Goto(t, "prefixes")
  /\ UNCHANGED <<Erroneous, work_item, sibling, outstanding_jobs, halting,
                 cv_waiters, state_mutex, error_trace, dropped>>

(* try_alloc_unf() is an insertion in the parent's set that tells whether  *)
(* the node is new.                                                        *)
M_try_alloc_unf(s) == TRUE
try_alloc_unf(s) == s \notin children_unf_set

M_PrefixesDone(t) == TRUE
PrefixesDone(t) == todo[t] = << >>

(* compute_prefixes(): one alternative s.  try_alloc_unf() inserts it in   *)
(* the parent's set; if it was there already, or no prefix leads to it,    *)
(* nothing more is done, otherwise construct_sibling() enqueues it.        *)
TryAlloc(t) ==
  LET s == Head(todo[t]) IN
  /\ pc[t] = "prefixes"
  /\ todo[t] # << >>
  /\ todo' = [todo EXCEPT ![t] = Tail(@)]
  /\ children_unf_set' = children_unf_set \cup {s}
  /\ IF try_alloc_unf(s) /\ s \in Feasible
       THEN sibling' = [sibling EXCEPT ![t] = s] /\ Goto(t, "fetch_add")
       ELSE UNCHANGED <<sibling, pc>>
  /\ UNCHANGED <<Erroneous, work_item, errors, pruned_subtree,
                 outstanding_jobs, halting, cv_waiters, state_mutex,
                 error_trace, explored, dropped>>

M_fetch_add == outstanding_jobs
fetch_add == outstanding_jobs + 1

(* enqueue(): the job is counted before any mutex is taken.                *)
FetchAdd(t) ==
  /\ pc[t] = "fetch_add"
  /\ outstanding_jobs' = fetch_add
  /\ Goto(t, "push")
  /\ UNCHANGED <<Erroneous, work_item, todo, sibling, errors,
                 children_unf_set, pruned_subtree, halting, cv_waiters,
                 state_mutex, error_trace, explored, dropped>>

(* compute_prefixes() has no alternative left; TB.work_item.reset().       *)
EndPrefixes(t) ==
  /\ pc[t] = "prefixes"
  /\ PrefixesDone(t)
  /\ Goto(t, "finish")
  /\ UNCHANGED <<Erroneous, work_item, todo, sibling, errors,
                 children_unf_set, pruned_subtree, outstanding_jobs, halting,
                 cv_waiters, state_mutex, error_trace, explored, dropped>>

(* handle_trace(): keep the first trace with errors; stop on an error      *)
(* unless all traces are wanted.                                           *)
M_HandleTrace(t) ==
  error_trace' = IF error_trace = NoNode
                   THEN Execution[work_item[t]] ELSE error_trace
HandleTrace(t) ==
  error_trace' = IF errors[t] /\ error_trace = NoNode
                   THEN Execution[work_item[t]] ELSE error_trace
StopOnError(t) == errors[t] /\ ~KeepGoing

M_LastJob == outstanding_jobs <= 2
LastJob == outstanding_jobs = 1

(* Under state.mutex: count the job as done and handle its trace; the      *)
(* mutex stays held if halt() has to be called.                            *)
Finish(t) ==
  /\ pc[t] = "finish"
  /\ state_mutex = NoNode
  /\ outstanding_jobs' = outstanding_jobs - 1
  /\ HandleTrace(t)
  /\ IF StopOnError(t) \/ LastJob
       THEN Goto(t, "halt") /\ state_mutex' = t
       ELSE Goto(t, "dequeue") /\ UNCHANGED state_mutex
  /\ work_item' = [work_item EXCEPT ![t] = NoNode]
  /\ UNCHANGED <<Erroneous, todo, sibling, errors, children_unf_set,
                 pruned_subtree, halting, cv_waiters, explored, dropped>>

(* The sets of waiters that cv.notify_one and cv.notify_all may wake.      *)
M_notify_one == {{}}
notify_one == IF cv_waiters = {} THEN {{}} ELSE {{u} : u \in cv_waiters}
M_notify_all == {}
notify_all == cv_waiters

(* halt(): set the flag and wake every waiter, each of which continues at  *)
(* label l; then release state.mutex.                                      *)
Halt(t, l) ==
  /\ pc[t] = "halt"
  /\ halting' = TRUE
  /\ cv_waiters' = cv_waiters \ notify_all
  /\ pc' = [u \in Workers |-> IF u \in notify_all THEN l
                              ELSE IF u = t THEN "dequeue" ELSE pc[u]]
  /\ state_mutex' = NoNode
  /\ UNCHANGED <<Erroneous, work_item, todo, sibling, errors,
                 children_unf_set, pruned_subtree, outstanding_jobs,
                 error_trace, explored, dropped>>

DriverStep(t) ==
  \/ SkipPruned(t) \/ Accept(t) \/ RunOnce(t) \/ TryAlloc(t) \/ FetchAdd(t)
  \/ EndPrefixes(t) \/ Finish(t)

-----------------------------------------------------------------------------
(* What the properties of the schedulers speak of.                         *)

(* The work items that worker t has been given, or has counted, and that   *)
(* outstanding_jobs still has to account for.                              *)
Held(t) == ({work_item[t]} \cup IF pc[t] = "push" THEN {sibling[t]} ELSE {})
             \ {NoNode}

Busy == UNION {Held(t) : t \in Workers}

Explored == {n \in Nodes : explored[n] > 0}

(* The executions some work item leads to, when Q is the set of queued     *)
(* work items.                                                             *)
KnownBy(Q) ==
  Explored \cup {Execution[n] : n \in Q \cup Busy \cup dropped}
    \cup {Execution[sibling[t]] : t \in {u \in Workers : sibling[u] # NoNode}}

(* What run_rfsc_parallel has come to know about the program.              *)
Verdict == IF error_trace # NoNode THEN "error"
           ELSE IF halting THEN "exhausted" ELSE "none"
=============================================================================
