------------------------------ MODULE Pthreads ------------------------------
(***************************************************************************)
(* The blocking operations of the sequentially consistent Interpreter:     *)
(* pthread mutexes and condition variables, join, awaits and assumes.      *)
(* The interpreter keeps who owns a mutex and who waits for it; the        *)
(* TraceBuilder (TSOTraceBuilder, used for SC too) keeps a second record   *)
(* of the mutexes and the condition variables' waiters.  Compiled without  *)
(* asserts (the default): a failed assert does not stop the program, and   *)
(* what is asserted is a property below.                                   *)
(***************************************************************************)
EXTENDS Interpreter

CONSTANTS Mutexes, Conds, Locations, Values, NULL,
          CheckedPrograms  \* the programs analysed with conf.mutex_require_init

(* Operations are on the program's mutexes, condition variables and        *)
(* locations; -1 and NULL say that there is no thread or no mutex.         *)
ASSUME OperandAssumption ==
  /\ -1 \notin Threads /\ NULL \notin Mutexes
  /\ \A p \in Programs, t \in Threads : \A i \in 1..Len(p[t]) :
       /\ p[t][i].op \in {"mutex_init", "lock", "trylock", "unlock",
                         "mutex_destroy", "wait"} => p[t][i].m \in Mutexes
       /\ p[t][i].op = "trylock" => p[t][i].skip \in Nat
       /\ p[t][i].op \in {"cond_init", "signal", "broadcast", "wait",
                         "cond_destroy"} => p[t][i].c \in Conds
       /\ p[t][i].op \in {"store", "xchg_await", "load_await"} =>
            p[t][i].ml \in Locations
       /\ p[t][i].op \in {"store", "xchg_await"} => p[t][i].val \in Values \cup {0}

VARIABLES
  lk,                     \* mutexes and condition variables, see TypeOK
  pending_mutex_lock,     \* thread -> mutex to reacquire after a wait
  pending_condvar_awake,  \* thread -> condition variable it waited for
  mem,                    \* location -> value
  blocking_awaits,        \* <<location, thread>> blocked in an await
  error                   \* a pthreads error was reported

pendVars == <<pending_mutex_lock, pending_condvar_awake>>
vars == <<threadVars, lk, pendVars, mem, blocking_awaits, error>>

(* PthreadMutexes, owner, waiting: the interpreter's.  mutexes, locked,    *)
(* last_lock (the thread of that event), cond_vars, waiters: the           *)
(* TraceBuilder's.  mutex_require_init: conf's, it never changes.          *)
Init ==
  /\ ThreadInit
  /\ lk = [PthreadMutexes |-> {}, owner |-> [m \in Mutexes |-> -1],
           waiting |-> [m \in Mutexes |-> {}],
           mutexes |-> {}, locked |-> {}, last_lock |-> [m \in Mutexes |-> -1],
           cond_vars |-> {}, waiters |-> [c \in Conds |-> {}],
           mutex_require_init |-> prog \in CheckedPrograms]
  /\ pending_mutex_lock = [t \in Threads |-> NULL]
  /\ pending_condvar_awake = [t \in Threads |-> NULL]
  /\ mem = [x \in Locations |-> 0]
  /\ blocking_awaits = {}
  /\ error = FALSE

-----------------------------------------------------------------------------
(* The TraceBuilder's part of an operation, as a function on lk.           *)

mutex_lock(s, t, m) ==
  [s EXCEPT !.mutexes = @ \cup {m}, !.locked = @ \cup {m}, !.last_lock[m] = t]

M_mutex_trylock(s, t, m) == mutex_lock(s, t, m)
mutex_trylock(s, t, m) ==
  IF m \in s.locked THEN s ELSE mutex_lock(s, t, m)

mutex_unlock(s, m) == [s EXCEPT !.mutexes = @ \cup {m}, !.locked = @ \ {m}]

mutex_init(s, m) == [s EXCEPT !.mutexes = @ \cup {m}]

mutex_destroy(s, m) ==
  [s EXCEPT !.mutexes = @ \ {m}, !.locked = @ \ {m}, !.last_lock[m] = -1]

(* cond_awake() looks the condition variable up with operator[].           *)
cond_awake(s, t, c, m) ==
  mutex_lock([s EXCEPT !.cond_vars = @ \cup {c}], t, m)

-----------------------------------------------------------------------------
(* checkRefuse(): a thread with a pending lock is refused for that mutex,  *)
(* whatever its instruction is.                                            *)

JoinBlocked(t) ==
  /\ I(t).op = "join"
  /\ stack[I(t).tid] = "live" \/ I(t).tid \in AssumeBlocked

isPthreadMutexLock(t) ==
  IF pending_mutex_lock[t] # NULL THEN {pending_mutex_lock[t]}
  ELSE IF I(t).op = "lock" THEN {I(t).m} ELSE {}

M_MutexBlocked(t) == I(t).op = "lock" /\ lk.owner[I(t).m] # -1
MutexBlocked(t) == \E m \in isPthreadMutexLock(t) : lk.owner[m] # -1

AwaitBlocked(t) ==
  I(t).op \in {"load_await", "xchg_await"} /\ mem[I(t).ml] \notin I(t).cond

checkRefuse(t) == JoinBlocked(t) \/ MutexBlocked(t) \/ AwaitBlocked(t)

RefusedJoin(t) ==
  /\ t \in available /\ JoinBlocked(t)
  /\ RefuseJoin(t)
  /\ UNCHANGED <<lk, pendVars, mem, blocking_awaits, error>>

RefusedLock(t) ==
  /\ t \in available /\ ~JoinBlocked(t) /\ MutexBlocked(t)
  /\ available' = refuse_schedule(t)
  /\ \E m \in isPthreadMutexLock(t) : lk' = [lk EXCEPT !.waiting[m] = @ \cup {t}]
  /\ UNCHANGED <<prog, CurInst, stack, AssumeBlocked, AwaitingJoin, pendVars,
                 mem, blocking_awaits, error>>

RefusedAwait(t) ==
  /\ t \in available /\ ~JoinBlocked(t) /\ ~MutexBlocked(t) /\ AwaitBlocked(t)
  /\ available' = refuse_schedule(t)
  /\ blocking_awaits' = blocking_awaits \cup {<<I(t).ml, t>>}
  /\ UNCHANGED <<prog, CurInst, stack, AssumeBlocked, AwaitingJoin, lk,
                 pendVars, mem, error>>

-----------------------------------------------------------------------------
(* run(): an instruction that is not refused first completes the wait that *)
(* its thread was woken from, then executes.                               *)

doPthreadCondAwake(t) ==
  LET c == pending_condvar_awake[t]  m == pending_mutex_lock[t] IN
  IF m = NULL THEN lk
  ELSE [cond_awake(lk, t, c, m) EXCEPT !.owner[m] = t]

(* The mutex to reacquire has been destroyed during the wait.              *)
DestroyedInWait(t) ==
  pending_mutex_lock[t] # NULL /\ pending_mutex_lock[t] \notin lk.PthreadMutexes

Proceeds(t) == ~checkRefuse(t) /\ ~DestroyedInWait(t)

Runs(t, op) == Executes(t, op) /\ Proceeds(t)

Pending(t, c, m) ==
  /\ pending_condvar_awake' = [pending_condvar_awake EXCEPT ![t] = c]
  /\ pending_mutex_lock' = [pending_mutex_lock EXCEPT ![t] = m]

(* The instruction succeeds, with the given effect on lk and available.    *)
Succeed(t, s, avail) ==
  /\ lk' = s
  /\ available' = avail
  /\ Advance(t)
  /\ UNCHANGED <<prog, stack, AssumeBlocked, AwaitingJoin, error>>

(* A pthreads error is reported and abort() ends the execution.            *)
abort(t, s) ==
  /\ lk' = s
  /\ error' = TRUE
  /\ available' = {}
  /\ stack' = [u \in Threads |-> IF stack[u] = "live" THEN "empty" ELSE stack[u]]
  /\ Pending(t, NULL, NULL)
  /\ UNCHANGED <<prog, CurInst, AssumeBlocked, AwaitingJoin, mem, blocking_awaits>>

(* The error of doPthreadCondAwake().  run() then goes on to visit() the   *)
(* instruction although abort() has cleared the stacks; what that does to  *)
(* the ended execution is undefined and not modelled.                      *)
AwakeFails(t) ==
  /\ t \in available /\ ~checkRefuse(t) /\ DestroyedInWait(t)
  /\ abort(t, cond_awake(lk, t, pending_condvar_awake[t], pending_mutex_lock[t]))

Fails(t, bad, s) == bad /\ abort(t, s)

(* An instruction that does not touch memory and whose thread goes on.     *)
Works(t, bad, s, avail) ==
  /\ ~bad
  /\ Succeed(t, s, avail)
  /\ Pending(t, NULL, NULL)
  /\ UNCHANGED <<mem, blocking_awaits>>

Uninitialized(s, m) == s.mutex_require_init /\ m \notin s.PthreadMutexes

callPthreadMutexInit(t) ==
  LET m == I(t).m
      s == mutex_init(doPthreadCondAwake(t), m)
      twice == m \in s.PthreadMutexes
  IN
  /\ Runs(t, "mutex_init")
  /\ \/ Fails(t, twice, s)
     \/ Works(t, twice, [s EXCEPT !.PthreadMutexes = @ \cup {m}], available)

callPthreadMutexLock(t) ==
  LET m == I(t).m
      s == mutex_lock(doPthreadCondAwake(t), t, m)
      bad == Uninitialized(s, m)
  IN
  /\ Runs(t, "lock")
  /\ \/ Fails(t, bad, s)
     \/ Works(t, bad, [s EXCEPT !.PthreadMutexes = @ \cup {m}, !.owner[m] = t],
              available)

(* A failed trylock skips the instructions that need the lock.             *)
callPthreadMutexTryLock(t) ==
  LET m == I(t).m
      old == doPthreadCondAwake(t)
      s == mutex_trylock(old, t, m)
      bad == Uninitialized(s, m)
  IN
  /\ Runs(t, "trylock")
  /\ \/ Fails(t, bad, s)
     \/ /\ old.owner[m] = -1
        /\ Works(t, bad, [s EXCEPT !.PthreadMutexes = @ \cup {m}, !.owner[m] = t],
                 available)
     \/ /\ ~bad /\ old.owner[m] # -1
        /\ lk' = s
        /\ CurInst' = [CurInst EXCEPT ![t] = @ + 1 + I(t).skip]
        /\ Pending(t, NULL, NULL)
        /\ UNCHANGED <<prog, stack, AssumeBlocked, AwaitingJoin, available,
                       mem, blocking_awaits, error>>

(* The interpreter's unlock: everyone waiting gets to try again.           *)
released(s, m) == [s EXCEPT !.PthreadMutexes = @ \cup {m}, !.owner[m] = -1,
                            !.waiting[m] = {}]

callPthreadMutexUnlock(t) ==
  LET m == I(t).m
      s == mutex_unlock(doPthreadCondAwake(t), m)
      bad == Uninitialized(s, m) \/ s.owner[m] # t
  IN
  /\ Runs(t, "unlock")
  /\ \/ Fails(t, bad, s)
     \/ Works(t, bad, released(s, m), available \cup s.waiting[m])

callPthreadMutexDestroy(t) ==
  LET m == I(t).m
      s == mutex_destroy(doPthreadCondAwake(t), m)
      bad == Uninitialized(s, m) \/ s.owner[m] # -1
  IN
  /\ Runs(t, "mutex_destroy")
  /\ \/ Fails(t, bad, s)
     \/ Works(t, bad, [s EXCEPT !.PthreadMutexes = @ \ {m}], available)

callPthreadCondInit(t) ==
  LET c == I(t).c
      s == doPthreadCondAwake(t)
      twice == c \in s.cond_vars
  IN
  /\ Runs(t, "cond_init")
  /\ \/ Fails(t, twice, s)
     \/ Works(t, twice, [s EXCEPT !.cond_vars = @ \cup {c}], available)

(* The TraceBuilder explores every choice of the waiter to wake.           *)
callPthreadCondSignal(t) ==
  LET c == I(t).c
      s == doPthreadCondAwake(t)
      bad == c \notin s.cond_vars
  IN
  /\ Runs(t, "signal")
  /\ \/ Fails(t, bad, s)
     \/ s.waiters[c] = {} /\ Works(t, bad, s, available)
     \/ \E w \in s.waiters[c] :
          Works(t, bad, [s EXCEPT !.waiters[c] = @ \ {w}], available \cup {w})

callPthreadCondBroadcast(t) ==
  LET c == I(t).c
      s == doPthreadCondAwake(t)
      bad == c \notin s.cond_vars
  IN
  /\ Runs(t, "broadcast")
  /\ \/ Fails(t, bad, s)
     \/ Works(t, bad, [s EXCEPT !.waiters[c] = {}], available \cup s.waiters[c])

(* That the caller holds the mutex is judged by the latest lock.           *)
callPthreadCondWait(t) ==
  LET c == I(t).c
      m == I(t).m
      old == doPthreadCondAwake(t)
      notHeld == m \notin old.mutexes \/ old.last_lock[m] # t
      s == mutex_unlock(old, m)
      unknown == c \notin s.cond_vars
  IN
  /\ Runs(t, "wait")
  /\ \/ Fails(t, notHeld, old)
     \/ ~notHeld /\ Fails(t, unknown, s)
     \/ /\ ~notHeld /\ ~unknown
        /\ Succeed(t, [released(s, m) EXCEPT !.waiters[c] = @ \cup {t}],
                   (available \ {t}) \cup s.waiting[m])
        /\ Pending(t, c, m)
        /\ UNCHANGED <<mem, blocking_awaits>>

callPthreadCondDestroy(t) ==
  LET c == I(t).c
      s == doPthreadCondAwake(t)
      bad == c \notin s.cond_vars
  IN
  /\ Runs(t, "cond_destroy")
  /\ \/ Fails(t, bad, s)
     \/ Works(t, bad, [s EXCEPT !.cond_vars = @ \ {c}, !.waiters[c] = {}], available)

-----------------------------------------------------------------------------
(* Memory accesses, threads.                                               *)

(* The threads blocked in an await on x that the value v satisfies.        *)
M_CheckAwaitWakeup(x, v) ==
  {u \in Threads : <<x, u>> \in blocking_awaits /\ I(u).cond = {v}}
CheckAwaitWakeup(x, v) ==
  {u \in Threads : <<x, u>> \in blocking_awaits /\ v \in I(u).cond}

visitStoreInst(t) ==
  LET x == I(t).ml  v == I(t).val IN
  /\ Runs(t, "store") \/ Runs(t, "xchg_await")
  /\ mem' = [mem EXCEPT ![x] = v]
  /\ blocking_awaits' = blocking_awaits \ ({x} \X CheckAwaitWakeup(x, v))
  /\ Succeed(t, doPthreadCondAwake(t), available \cup CheckAwaitWakeup(x, v))
  /\ Pending(t, NULL, NULL)

visitLoadInst(t) ==
  /\ Runs(t, "load") \/ Runs(t, "load_await")
  /\ Works(t, FALSE, doPthreadCondAwake(t), available)

visitThreadCall(t) ==
  /\ Proceeds(t)
  /\ \/ callPthreadCreate(t) \/ callPthreadJoin(t) \/ callAssume(t)
     \/ Return(t, AwaitingJoin[t])
  /\ lk' = doPthreadCondAwake(t)
  /\ Pending(t, NULL, NULL)
  /\ UNCHANGED <<mem, blocking_awaits, error>>

Step(t) ==
  \/ RefusedJoin(t) \/ RefusedLock(t) \/ RefusedAwait(t) \/ AwakeFails(t)
  \/ callPthreadMutexInit(t) \/ callPthreadMutexLock(t)
  \/ callPthreadMutexTryLock(t) \/ callPthreadMutexUnlock(t)
  \/ callPthreadMutexDestroy(t)
  \/ callPthreadCondInit(t) \/ callPthreadCondSignal(t)
  \/ callPthreadCondBroadcast(t) \/ callPthreadCondWait(t)
  \/ callPthreadCondDestroy(t)
  \/ visitStoreInst(t) \/ visitLoadInst(t) \/ visitThreadCall(t)

(* schedule() returns false and run() ends.                                *)
Quiescent == available = {}

Next == (\E t \in Threads : Step(t)) \/ (Quiescent /\ UNCHANGED vars)

Spec == Init /\ [][Next]_vars

(* run() goes on as long as the TraceBuilder has a thread to schedule.     *)
FairSpec == Spec /\ \A t \in Threads : WF_vars(Step(t))
-----------------------------------------------------------------------------

(* As long as no error is reported, the interpreter's and the              *)
(* TraceBuilder's records of the mutexes agree: which exist, which are     *)
(* locked, and that the owner is the thread of the latest lock.            *)
RecordsAgree ==
  ~error =>
    /\ lk.mutexes = lk.PthreadMutexes
    /\ \A m \in Mutexes : m \in lk.locked <=> lk.owner[m] # -1
    /\ \A m \in lk.locked : lk.last_lock[m] = lk.owner[m]

(* By its instructions so far, t holds m: it has locked m once more than   *)
(* it has unlocked it, and is not within a wait.                           *)
Holds(t, m) ==
  LET Done(op) == Cardinality({k \in 1..(CurInst[t] - 1) :
                                 prog[t][k].op = op /\ prog[t][k].m = m})
  IN Done("lock") + Done("trylock") > Done("unlock") /\ pending_mutex_lock[t] # m

(* A mutex is owned by the thread that holds it by the program's text, so  *)
(* no two threads are ever between lock and unlock of the same mutex.      *)
OwnerHolds ==
  ~error => \A m \in Mutexes, t \in Threads : lk.owner[m] = t <=> Holds(t, m)

(* As its instruction executes, t holds m: run() completes a wait first.   *)
HoldsThen(t, m) == Holds(t, m) \/ pending_mutex_lock[t] = m

Misuse(t) ==
  LET i == I(t) IN
  \/ DestroyedInWait(t)
  \/ i.op \in {"unlock", "wait"} /\ ~HoldsThen(t, i.m)
  \/ /\ i.op \in {"lock", "trylock", "unlock", "mutex_destroy"}
     /\ lk.mutex_require_init /\ i.m \notin lk.PthreadMutexes
  \/ i.op = "mutex_init" /\ i.m \in lk.PthreadMutexes
  \/ /\ i.op = "mutex_destroy"
     /\ HoldsThen(t, i.m) \/ \E u \in Threads : Holds(u, i.m)
  \/ i.op = "cond_init" /\ i.c \in lk.cond_vars
  \/ i.op \in {"signal", "broadcast", "wait", "cond_destroy"} /\ i.c \notin lk.cond_vars

(* A pthreads error is reported only for a thread whose instruction        *)
(* misuses its mutex or condition variable.                                *)
ErrorOnlyOnMisuse == [][~error /\ error' => \E t \in available : Misuse(t)]_vars

CondBlocked(t) ==
  pending_mutex_lock[t] # NULL /\ t \in lk.waiters[pending_condvar_awake[t]]

(* Every execution of a terminating program ends, and a thread that has    *)
(* not returned then waits for what no thread is left to do: no unlock,    *)
(* signal, store or return loses a wake-up.                                *)
Terminates ==
  <>(/\ Quiescent
     /\ \A t \in Threads : stack[t] = "live" => CondBlocked(t) \/ checkRefuse(t))
=============================================================================
