# Nidhugg in TLA+

Nidhugg is a stateless model checker for C and C++ programs: it runs a program again and again under
SC, TSO, PSO, POWER or ARM, and chooses the schedules so that every behaviour is covered once.
This directory holds TLA+ models of its parts, TLC configurations that check them on small instances,
and theorems that TLAPS proves for every instance. State variables, fields and operators keep the
names of the source (`src/src/`), and `PROJECT.json` maps each definition to its lines.

## The system and its parts

| Part | Source | Module | State |
|---|---|---|---|
| Parallel RFSC driver, decision tree, work queues | DPORDriver, RFSCDecisionTree | RFSCDriver, PriorityQueueScheduler, WorkstealingPQScheduler, Exploration | modelled, except the sequential RFSC driver |
| Interpreter: threads, scheduling, create, join, assume | Execution, Interpreter | Interpreter | life cycle of threads and availability |
| Interpreter: instructions, calls, intrinsics, dry runs | Execution | LocalExecution, Evaluation, Denotation | all but floating-point arithmetic, allocation, variadic arguments, native functions |
| TSO store buffers | TSOInterpreter | TSOInterpreter, TSOMemory | modelled |
| PSO store buffers | PSOInterpreter, PSOTraceBuilder | PSOInterpreter, PSOMemory | modelled |
| Mutexes, condition variables, awaits | Execution, TSOTraceBuilder | Pthreads | modelled, under SC |
| DPOR under SC | TSOTraceBuilder, SymEv, WakeupTrees, VClock | TSOTraceBuilder, SCProgram, SymEv | Source, Optimal and observers; see the limits below |
| DPOR under PSO | PSOTraceBuilder | PSOTraceBuilder, PSOProgram | all but `cancel_replay`, for locations of one size |
| RFSC TraceBuilder, unfolding tree | RFSCTraceBuilder, RFSCUnfoldingTree | RFSCTraceBuilder | all but errors and pruning, which RFSCDriver has |
| Saturation, prefix solving | SaturatedGraph, PrefixHeuristic, SatSolver | SaturatedGraph, RFSCTraceBuilder | the SMT solver is external |
| POWER and ARM, trace builder | POWERARMTraceBuilder | POWERARMTraceBuilder, POWERARMRelations, POWERARMAxioms | modelled |
| POWER and ARM, interpreter | POWERInterpreter, POWERExecution | POWERInterpreter, POWERLocalExecution | as the other interpreter |
| Sequential driver | DPORDriver::run | TSOTraceBuilder, PSOTraceBuilder, POWERInterpreter | the loop of executions |
| Race detection with store buffers under TSO, containers, clock layouts, passes, front end | see "Not modelled" | - | not modelled |

How they interact. A driver makes a TraceBuilder and repeats: an interpreter runs the program; before
each instruction it asks the TraceBuilder which thread to run (`schedule`), it may refuse to run it
(`checkRefuse`, `refuse_schedule`), and it reports what the instruction does (`load`, `atomic_store`,
`mutex_lock`, ...). After the execution the TraceBuilder finds its races and prepares the next
execution (`reset`). With RFSC, several workers do so at the same time, on work items of a shared tree.
Under POWER and ARM the interpreter fetches instructions ahead and the TraceBuilder says which of them to commit.

## Modules

**Parallel RFSC.** `RFSCDriver` has the loop of `run_rfsc_parallel` for one worker as a state machine with a
program counter, one action per critical section or atomic access: take a work item, skip it if
pruned (`reset`), run it, enumerate alternatives (`TryAlloc`, which arbitrates with `try_alloc_unf`), count the job
(`FetchAdd`), enqueue it, finish and perhaps halt everybody. `PriorityQueueScheduler` adds the queue with its lock and
condition variable, `WorkstealingPQScheduler` the queues per worker, the scan for a victim and the big mutex.
The analysed program is given by constants: the nodes of the decision tree, the execution
that each leads to, the alternatives that execution discovers, and which are feasible. `Exploration` is what
both promise: every known execution is explored once, and the verdict "exhausted" is given only when none is left.

**Interpreters.** `Interpreter` has stacks, program counters, `available` flags and joins. `TSOInterpreter` and
`PSOInterpreter` extend it with the store buffers, the refusals that wait for a flush, and the auxiliary
threads. Memory is byte-wise and accesses have two sizes. `TSOMemory` and `PSOMemory` are the memories they
promise, byte-wise and without refusals. Which available thread runs next is a free choice.

**Pthreads.** Both records of each mutex and condition variable (the interpreter's and the TraceBuilder's), the split
`pthread_cond_wait`, load and exchange awaits, and the error paths, which end the execution.

**DPOR.** `SymEv` describes events and conflicts. `SCProgram` is an interpreter of small programs as a record, and,
independently of the TraceBuilder, the reference: the set of all classes of complete executions, found by
enumerating every interleaving. `TSOTraceBuilder` has `schedule` as one action per branch of the code, the callbacks,
and `reset` with vector clocks, race filtering, race reversal, sleep sets and insertion into wakeup trees.
The wakeup tree is kept along the prefix: each event has the not yet explored siblings of its branch.
Two executions are in the same class if they have the same events and order all conflicting pairs alike; with
observers, pairs of stores are ordered only through the reads that see them.

**DPOR under PSO.** `PSOProgram` is the interpreter of small programs with a store buffer per thread and location, and
the reference classes. In `PSOTraceBuilder` each store buffer is an auxiliary thread with its own clock. Races are
found while the events happen; the sleep sets are kept up to date by dry runs, and `check_for_cycles` compares the
orders of the accesses with sequential consistency.

**RFSC exploration.** `RFSCTraceBuilder` replays a leaf of the decision tree, runs the program to its end, computes the
unfolding nodes, and tries every other store that a read could have read from (`compute_prefixes`). `SaturatedGraph` is
the saturation of a partial order with the coherence and from-read edges it implies, with the guess of PrefixHeuristic of a
coherence order. Where the code asks an SMT solver, the model searches for any order that satisfies the formula.

**POWER and ARM.** `POWERARMRelations` has the incremental relations of the Herding Cats framework and the four checks,
`POWERARMTraceBuilder` the life of an event (fetched, addresses and data known, committed with a parameter), the branches
and `reset`, and `POWERInterpreter` the loop around them with fences, branches, threads, mutexes, assume and assert.
`POWERARMAxioms` is the reference: candidate executions as a whole, and the axioms over whole relations.

**Computation.** `Evaluation` is what instructions compute, on integers of a given width, on vectors and aggregates.
`LocalExecution` has frames, blocks and PHI nodes, calls and returns, atomic functions, exit handlers, the rewriting of
intrinsics in code that the threads share, and dry runs. `POWERLocalExecution` is the same for the
interpreter of POWER and ARM, which collects operands and dependencies when it fetches and computes when it commits.
`Denotation` is the reference for both, written from the meaning of the instructions.

`Litmus` and the MC modules hold the programs that the runs explore.

## Runs

| Run | Question | Result |
|---|---|---|
| pq | Do three workers with the priority queue explore everything once, report failures and return? | holds |
| ws | The same for work stealing, where items change hands between queues | holds |
| tso | Do store buffers with refused loads implement byte-wise TSO, without lost wake-ups? | holds |
| pso | The same for PSO, with the auxiliary thread of each store | holds |
| pthreads | Mutual exclusion, agreement of both records, wake-ups, errors only on misuse | holds |
| dpor | Is every class explored, once, and every replay as predicted, for all three algorithms? | holds |
| pso_dpor | Is every class under PSO explored once, and reported exactly if SC does not have it? | holds |
| rfsc | Is every reads-from class executed once, by one worker or two? Are shared graphs and guessed orders right? | holds |
| rf_own_store | The same where a thread updates a location after it has stored to it | violated: a class is never run |
| power | Are the explored executions those that the axioms allow, each once, and the errors theirs? | holds |
| power_switch | Can every decided event be committed in its turn, after a switch or a return on a loaded value? | violated |
| local | Do both interpreters compute what the program means, with exact dependencies, and do dry runs foresee and change nothing? | holds |

The violated runs are the `findings` of `PROJECT.json`, each with the sentence of the source that it contradicts.

Each property compares two things that the code keeps apart. The explorations (Complete, NoTraceTwice, NoClassTwice,
ExploresAllowed, RobustnessExact, ErrorsExact) are compared with a reference that enumerates interleavings, or applies
the axioms, without any of the code's bookkeeping. The memories and schedulers are compared with an abstract specification by refinement
(ImplementsTSO, ImplementsPSO, ImplementsExploration). CacheIsCausalPast compares a graph that another worker left with
the execution at hand, OrdersAreSound the saturation with a search of all orders, and SequentialMeaning, DataflowMeaning
and DependenciesExact the interpreters with `Denotation`. DryRunForesees says that the accesses collected by a dry run
are those the thread makes when it next runs without interference.

**Bounds.** Three workers are needed for a sleeping, a running and a stealing one together; the deep tree has two
executions that race for the same alternative, the wide one a queue that a thief halves. The interpreters run
three threads with two buffered stores each over one two-byte word, in all combinations of sizes: an overlap
needs two sizes, and a missed wake-up a third thread. The pthreads programs combine 14 scripts
for two threads with four for main, with and without initialised mutexes. The programs of dpor, pso_dpor and rfsc hold every
litmus test of two threads with two accesses to two variables, and programs of up to four threads for
compare-exchange, additions, awaits, nested locks, condition variables, joins and nondeterminism, as far as each
builder accepts them. In rfsc one worker explores all programs and two workers share four of them; as an execution touches its worker's own
state only, executions are not interleaved with one another, while the analyses that follow are. The programs of
power are the classical shapes (message passing, store and load buffering, coherence, independent accesses, with fences
and dependencies), two bytes at once, locks, joins, assumptions and assertions, each under both models; a trace of the
builder is long, so each has few states and each state much work. In local every instruction
runs alone with all operands over integers of three bits (Word and Half of `MCLocalExecution.cfg` are the widths of pointers and of
indices), on both interpreters, besides programs with loops, calls and threads; MaxDryRuns bounds the dry runs of one
behaviour. No state constraint cuts a run off: each explores all of its states. Deadlock is checked throughout.

**Fairness.** Weak fairness of each worker stands for an operating system that runs every thread that is not
blocked; spurious wake-ups happen but are not owed. Work stealing needs strong fairness: a worker contends for a mutex that
others take and release over and over. In the interpreters weak fairness of each thread and its auxiliary thread says that an
execution goes on until no thread is available, which is the loop of `Interpreter::run()`.

## Proofs

TLC checks the runs above on small instances. The following is proved with TLAPS for every value of the constants that
satisfies the named assumptions, which TLC evaluates on every run that uses them.

### The parallel driver

For any finite set of workers, any finite decision tree, any set of failing executions, with and without `--keep-going`:

* with either scheduler, JobAccountingHolds, NeverHaltsEarly, SingleOwnership, ExploredOnce, ErrorsAreReported,
  and Refinement: the driver implements Exploration;
* with either scheduler, NeverStuck: until all workers have returned, one of them can take a step without a spurious wake-up.
  The exception is `--keep-going` after `reset` has skipped a pruned work item, and the model does reach the
  hang there (see "What the model also showed");
* with either scheduler, Completeness: if all workers have returned and no error was found, the first execution was explored, and so
  was every feasible alternative of every explored execution;
* with the priority queue, NoWakeupIsLost and TypeCorrectness;
* with work stealing, SleepersHaveNoWork, and as part of JobAccountingHolds that no steal loses or duplicates a work item.

NeverStuck and Completeness are the safety parts of Termination and of the exploration of everything: what remains for TLC is that
workers which can go on do get to the end.

Assumed are DriverAssumption (finite sets; the constants have their types), MutexAssumption (the value of a mutex that nobody holds is not a worker), TreeAssumption (nodes are closed under
parents, an execution extends its work item, its siblings branch off it) and, for the work-stealing queues, DepthAssumption (their
length suffices).

`RFSCDriver_proofs` does the common part once. There a scheduler is only a set of queued work items: `Q` before a step
and `R` after it, and SchedulerStep says what the driver needs of it: items are taken, put, or left alone. The
inductive invariant IInv(Q) has three layers:

* Placed and Accounting: every job was allocated by `try_alloc_unf` and is in exactly one place, and `outstanding_jobs` counts the
  places. Without Placed the accounting is not inductive, as a push of a job already queued would count twice in the variable and once
  in the set. Exhausted follows: a worker that finishes with `remain == 0` leaves no job behind.
* Unexplored, RanExplored, TodoSiblings, SiblingsSeen, Covered: pending work items lead to different executions, all of them new, and
  every alternative of an execution that is through `compute_prefixes` is allocated. Exploring nothing twice needs the
  first part; reporting "exhausted" truthfully, in the refinement, needs the second.
* Blame: an error is on its way to `error_trace` until one is there.

For NeverStuck and Completeness there are two conjuncts more. Parked: the workers that wait are those `cv` knows, `state.mutex` is
held across a halt, a worker returns only when the scheduler is halting, nobody waits then, and the last job or, without
`--keep-going`, the first error makes a worker halt. It shows that if nobody is awake, all sleep beside a queued work item (AllAsleep), which
the scheduler excludes: the priority queue by NoLostWakeup, work stealing because the deques of sleepers are empty. And the
execution from the root is known, explored or pending; at the end nothing is pending, so that Covered speaks of explored executions.

Shape says at which program counters a worker holds a work item or a sibling. `PriorityQueueScheduler_proofs` shows that
each step of that scheduler is a SchedulerStep and adds NoLostWakeup, which is inductive over it.
`WorkstealingPQScheduler_proofs` does the same for the union of all deques, and adds Separate (no item is twice in
a deque or in two of them), BigMutex (the scheduler's mutex is held exactly while a thief scans) and Thieves (a thief does not try itself, and its own queue is empty, so the loot overwrites nothing).

### The interpreters of memory

For every program of loads, stores, atomics, fences, creates, joins and assumes, any number of threads and accesses of any sizes
that overlap in any way:

* TSO (`TSOInterpreter_proofs`): NoWakeupIsMissed, TheEndIsFinal, and Refinement: TSOInterpreter implements TSOMemory;
* PSO (`PSOInterpreter_proofs`): UpdatesAreWhole, NoWakeupIsMissed, TheEndIsFinal, and Refinement: PSOInterpreter implements
  PSOMemory.

TheEndIsFinal for PSO has the hypothesis Uniform(prog): a thread's stores to one address all have the same size, while they may
overlap its stores to other addresses in any way. Without it the statement is false, as a pending store can be left behind
(PSOTraceBuilder.cpp:525-528, see "What the model also showed").

Assumed are ProgramAssumption and AccessAssumption: the operands of instructions are threads, locations and values, and a location is
a non-empty range of bytes. For TSO the inductive invariant is TypeOK, OnlyBorn (only created threads wait or store), Updating (the
auxiliary thread is available exactly when its buffer holds a store) and AllWait. AllWait is stronger than NoMissedWakeup: the blocked
thread is also registered with what will wake it, in `AwaitingJoin` or `partial_buffer_flush`; without this, the step that
wakes threads would say nothing about it. For PSO it is WholeStores: the entries of the byte buffers can be numbered so that each buffer is
in order and a store pending for one byte is pending, with that number, for all its bytes. HeadIsWhole alone is not inductive,
as it says nothing of the entries behind the heads. NoWakeupIsMissed needs WaitInv on top, which is AllWait for PSO: a thread
that may not be scheduled is registered with the thread it joins, with the flush of its buffers, or with the flush of the bytes
that its refused load reads. TheEndIsFinal needs AuxInv: a pending store belongs to a store instruction of its thread, and under Uniform
its auxiliary thread is available.

### Pthreads

For every program (`Pthreads_proofs`), under ProgramAssumption and OperandAssumption (operands are mutexes and condition variables):

* RecordsAlwaysAgree: until an error is reported, the interpreter's and the TraceBuilder's mutexes, locks and owners agree;
* NoWakeupIsLost: a live thread that may not be scheduled would be refused, or is in the queue of its condition
  variable, or the program destroys that condition variable. This is the safety part of Terminates.

For every disciplined program (`PthreadsOwnership_proofs`):

* MutualExclusion: a mutex is owned by the one thread that is between its lock and its unlock;
* ErrorsAreMisuse: every error is reported for a thread that misuses its mutex or condition variable.

Disciplined(prog) is about the text of the program: a failed trylock skips the unlock that belongs to it; a thread waits with a mutex that it
holds or never locked; and the instruction after a wait is neither a lock nor a `cond_init`. The last two exclude what the
code does not handle (see "What the model also showed"); without them one statement or the other is false. The programs of the run are disciplined.
The inductive invariant Owned relates the text to the records: thread `t` owns `m` exactly if it has passed one lock more than unlocks of
`m` and no wait has set it aside, and the latest lock of `m` is one it has passed.

### Independence under sequential consistency

DPOR explores one of several orders of steps that do not conflict. This is sound if steps without a conflict commute, and
`SCProgram_proofs` proves it of `do_events_conflict` and of the interpreter, for every program of loads, stores, additions,
compare-exchanges, awaits, locks, unlocks, trylocks, creates, joins and nondeterministic choices, any number of threads and locations,
with and without observers and commuting additions:

* Commutation: if two threads can take a step and their events do not conflict, neither step disables the other, each thread reports
  the event that it would have reported before the other's step, and both orders lead to the same state;
* OneClass: both orders extend any class of executions to the same class;
* EnginesAreSound: the states that Commutation is about include the first state and are closed under steps and refusals. It also says
  that `blocking_awaits` holds only threads whose await cannot go on, that is, CheckAwaitWakeup() misses none;
* ConflictsAreSymmetric: `do_events_conflict` does not depend on the order of its arguments.

Two additions to one location that commute (`commute_rmws`, with unused results) write other values after each other and can wake
an await in one order only; for them the event is the same but for the value, and the state but for `blocking_awaits`.
Independent(e, t, u) adds to the absence of a conflict that the two are not unobserved stores to one location, whose order
`is_observed_conflict` decides together with the read that follows, and not the creation and the join of one thread, as the
identifier that is joined comes from the creation. Assumed is ProgramAssumption: an instruction's operands are locations,
threads and integers, and an initial value is an integer. The proof compares the two orders component by component. Its core is SameAddress: independent instructions
on one location both only read it or both add to it. That no class is lost by the wakeup trees and sleep sets built on
this relation remains with the runs dpor and rfsc.

### Only model-checked

* Liveness (Termination, Terminates, FlushEnds): it needs fairness and ENABLED, which the prover does not handle.
* The explorations of TSOTraceBuilder, PSOTraceBuilder, RFSCTraceBuilder and POWERARMTraceBuilder, the saturated graphs and the evaluator:
  their operators are recursive over graphs, traces and expressions, and what they compute for every input needs
  induction over data.

## Abstractions and limits

* A thread of the interpreters of memory and of the explorations executes only instructions that matter to memory or
  scheduling; what is computed in between is checked apart, in local.
* In TSOTraceBuilder every location is one object of one size, an event does one visible thing, and an
  addition is the only read-modify-write besides compare-exchange. Races keep the order in which they were found,
  while std::partition may permute them; this changes the order of exploration only.
  Condition variables, trylock, `FULLMEM`, exchange-awaits and `--max-search-depth` are left out of DPOR under SC.
* Awaits are explored with Optimal-DPOR only, as the default configuration does (Configuration.cpp:238-245).
* In RFSCDriver an execution is a constant of the program; aborts in the middle of a replay are left out.
* In the POWER and ARM builder the branches of one event are taken in the order of a set, where the code has the order of
  pointers or of insertion: the model explores one of these orders.
* Floating-point numbers are halves of small integers, so that conversions round; only a little-endian layout is checked.

## What the model also showed

The following has no run of its own, and the programs of the passing runs avoid it. `PROJECT.json` has the hazards among it that
bear on a property.

* RFSC with `--keep-going` (Configuration.cpp:44): when an execution fails, `cancel_replay` prunes the subtree of its work
  item, but `compute_prefixes` still enqueues siblings below it. `reset` skips such an item (RFSCTraceBuilder.cpp:233-236)
  without subtracting it from `outstanding_jobs`, and every worker ends up waiting in `dequeue`.
* PSO: when an update empties the buffer of any byte of its store, the auxiliary thread is marked unavailable
  (PSOTraceBuilder.cpp:525-528), also if the buffer of the first byte holds a later, smaller store. That store is never updated,
  and a thread that waits for the flush (PSOInterpreter.cpp:229) waits forever.
* A `pthread_mutex_lock` right after a `pthread_cond_wait` is refused only if the mutex of the wait is taken (Execution.cpp:3323), and
  can take a mutex that another thread holds, against the assert in Execution.cpp:2591.
* `cond_wait` accepts a mutex that the same thread has locked last and unlocked since (TSOTraceBuilder.cpp:1647), against the
  assert in Execution.cpp:2833.
* `cond_awake` puts a condition variable that was destroyed after the wake-up back into `cond_vars` (TSOTraceBuilder.cpp:1684, where
  line 1683 asserts that it is there). A `pthread_cond_init` that follows is reported as the second one (line 1544).
* `recompute_cmpxhg_success` takes a location without earlier writes to be 0 (TSOTraceBuilder.cpp:2043-2056). For a global that is
  initialised otherwise the replay differs from the prediction and is reported as nondeterminism.
* PSO: `cond_signal` and `cond_broadcast` pass on the clock of their event before it is complete (PSOTraceBuilder.cpp:839, 886). With a
  full memory conflict in between, a branch schedules the waiting thread before it is signalled, against the assert in line 89.
* A compare-exchange after commuting additions to the same location (`add x` against `add x; cas x 1 2`) is predicted from
  the value the addition wrote in the other order, and reported as nondeterminism, under Optimal-DPOR and observers; RFSC has a
  similar stale value in `recompute_cmpxhg_success` (RFSCTraceBuilder.cpp:1092).
* A failed lock races with the lock that made it fail even if that lock must come first. If a thread exits with the mutex
  held, the reversal cannot be replayed and is reported as nondeterminism.
* With observers, `recompute_observed()` does not count awaits as reads, and executions are missed.
* POWER: a PHI node that reads another PHI node of its block gets the new value (POWERExecution.cpp:1010-1025).
* A dry run of a call to a defined function steps back in the callee's frame (Execution.cpp:3585); `callAtexit`, `spawn` and
  `register_alternatives` do not test for a dry run.
* `RFSCTraceBuilder::reset()` does not clear `errors`; `cond_destroy()` forgets its waiters when it
  returns EBUSY; after a failed reacquisition `run()` visits an instruction on an empty stack. The models have the
  first two as they are, and end the execution at the third.

## Not modelled

* Race detection with store buffers under TSO: the buffers add auxiliary threads to every clock, race and sleep set of
  `TSOTraceBuilder`, whose model has SC only. The buffers themselves are in `TSOInterpreter`, and the other builder with auxiliary
  threads, `PSOTraceBuilder`, is modelled.
* Copy-on-write vectors, maps and the layouts of vector clocks: sequential containers that the models take as values.
* The SMT solver and its S-expressions: an external process; any order that satisfies the formula may be its answer.
* Floating-point arithmetic, allocation, variadic arguments and native functions: they are the host's or the library's.
* Passes over LLVM IR, parsing, command line, output, timing and CPU binding: about LLVM's semantics, or input and output only.
