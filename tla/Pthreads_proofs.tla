-------------------------- MODULE Pthreads_proofs ---------------------------
(***************************************************************************)
(* Proofs about Pthreads, for every program: the interpreter's and the     *)
(* TraceBuilder's records of the mutexes agree, and no unlock, signal,     *)
(* store or return loses a wake-up.                                        *)
(***************************************************************************)
EXTENDS Pthreads, TLAPS

(* The provers that a leaf is tried with, unless it names its own.         *)
USE SMTT(10), Z3T(10), Zenon

-----------------------------------------------------------------------------
(* Definitions of the inductive invariant.                                 *)

Locks == [PthreadMutexes : SUBSET Mutexes, owner : [Mutexes -> Threads \cup {-1}],
          waiting : [Mutexes -> SUBSET Threads],
          mutexes : SUBSET Mutexes, locked : SUBSET Mutexes,
          last_lock : [Mutexes -> Threads \cup {-1}],
          cond_vars : SUBSET Conds, waiters : [Conds -> SUBSET Threads],
          mutex_require_init : BOOLEAN]

(* The types of what the actions read.                                     *)
TypeOK ==
  /\ prog \in Programs
  /\ CurInst \in [Threads -> Nat \ {0}]
  /\ stack \in [Threads -> {"unborn", "live", "empty"}]
  /\ AssumeBlocked \subseteq Threads
  /\ AwaitingJoin \in [Threads -> SUBSET Threads]
  /\ available \subseteq Threads
  /\ lk \in Locks
  /\ pending_mutex_lock \in [Threads -> Mutexes \cup {NULL}]
  /\ DOMAIN pending_condvar_awake = Threads
  /\ \A t \in Threads : pending_mutex_lock[t] # NULL => pending_condvar_awake[t] \in Conds
  /\ mem \in [Locations -> Values \cup {0}]

(* RecordsAgree, of any records s; a locked mutex is a known one.          *)
Agree(s) ==
  /\ s.mutexes = s.PthreadMutexes
  /\ s.locked \subseteq s.mutexes
  /\ \A m \in Mutexes : m \in s.locked <=> s.owner[m] # -1
  /\ \A m \in s.locked : s.last_lock[m] = s.owner[m]

(* The program may destroy condition variable c, waited for or not.        *)
MayDestroy(c) ==
  \E u \in Threads : \E i \in 1..Len(prog[u]) :
    prog[u][i].op = "cond_destroy" /\ prog[u][i].c = c

(* What a thread that may not be scheduled waits for, and where it is      *)
(* registered to be woken.                                                 *)
Waits(t) ==
  \/ JoinBlocked(t) /\ t \in AwaitingJoin[I(t).tid]
  \/ \E m \in isPthreadMutexLock(t) : lk.owner[m] # -1 /\ t \in lk.waiting[m]
  \/ AwaitBlocked(t) /\ <<I(t).ml, t>> \in blocking_awaits
  \/ CondBlocked(t)
  \/ pending_mutex_lock[t] # NULL /\ MayDestroy(pending_condvar_awake[t])

AllWait == \A t \in Threads : stack[t] = "live" /\ t \notin available => Waits(t)

(* abort() leaves nothing to schedule.                                     *)
Inv == TypeOK /\ AllWait /\ (IF error THEN available = {} ELSE Agree(lk))

-----------------------------------------------------------------------------
(* The operations on the records.                                          *)

(* From records s to records r, t stays registered where it waits.         *)
Kept(t, s, r) ==
  /\ \A m \in Mutexes : t \in s.waiting[m] /\ s.owner[m] # -1 =>
       t \in r.waiting[m] /\ r.owner[m] # -1
  /\ \A c \in Conds : t \in s.waiters[c] => t \in r.waiters[c] \/ MayDestroy(c)

(* mutex_lock() changes the TraceBuilder's record of m.                    *)
LEMMA LockFields ==
  ASSUME NEW s \in Locks, NEW t \in Threads, NEW m \in Mutexes
  PROVE  LET r == mutex_lock(s, t, m) IN
         /\ r \in Locks
         /\ r.PthreadMutexes = s.PthreadMutexes /\ r.owner = s.owner
         /\ r.waiting = s.waiting /\ r.cond_vars = s.cond_vars
         /\ r.waiters = s.waiters /\ r.mutex_require_init = s.mutex_require_init
         /\ r.mutexes = s.mutexes \cup {m}
         /\ r.locked = s.locked \cup {m}
         /\ r.last_lock = [s.last_lock EXCEPT ![m] = t]
BY Zenon DEF mutex_lock, Locks

(* mutex_unlock() does so too.                                             *)
LEMMA UnlockFields ==
  ASSUME NEW s \in Locks, NEW m \in Mutexes
  PROVE  LET r == mutex_unlock(s, m) IN
         /\ r \in Locks
         /\ r.PthreadMutexes = s.PthreadMutexes /\ r.owner = s.owner
         /\ r.waiting = s.waiting /\ r.cond_vars = s.cond_vars
         /\ r.waiters = s.waiters /\ r.mutex_require_init = s.mutex_require_init
         /\ r.mutexes = s.mutexes \cup {m}
         /\ r.locked = s.locked \ {m}
         /\ r.last_lock = s.last_lock
BY Zenon DEF mutex_unlock, Locks

(* Completing a wait locks the mutex in both records.                      *)
LEMMA AwakeFields ==
  ASSUME TypeOK, NEW t \in Threads
  PROVE  LET r == doPthreadCondAwake(t)
             m == pending_mutex_lock[t]
             c == pending_condvar_awake[t]
         IN
         /\ r \in Locks
         /\ r.PthreadMutexes = lk.PthreadMutexes /\ r.waiting = lk.waiting
         /\ r.waiters = lk.waiters /\ r.mutex_require_init = lk.mutex_require_init
         /\ m = NULL => r = lk
         /\ m # NULL =>
              /\ m \in Mutexes
              /\ r.owner = [lk.owner EXCEPT ![m] = t]
              /\ r.cond_vars = lk.cond_vars \cup {c}
              /\ r.mutexes = lk.mutexes \cup {m}
              /\ r.locked = lk.locked \cup {m}
              /\ r.last_lock = [lk.last_lock EXCEPT ![m] = t]
<1> DEFINE m == pending_mutex_lock[t]
           c == pending_condvar_awake[t]
<1>1. CASE m = NULL
  BY <1>1 DEF TypeOK, doPthreadCondAwake
<1>2. CASE m # NULL
  <2>1. m \in Mutexes /\ c \in Conds /\ lk \in Locks
    BY <1>2 DEF TypeOK
  <2> DEFINE s == [lk EXCEPT !.cond_vars = @ \cup {c}]
             l == mutex_lock(s, t, m)
             r == [l EXCEPT !.owner[m] = t]
  <2>2. doPthreadCondAwake(t) = r
    BY <1>2 DEF doPthreadCondAwake, cond_awake
  <2> HIDE DEF m, c
  <2>3. /\ s \in Locks
        /\ s.PthreadMutexes = lk.PthreadMutexes /\ s.owner = lk.owner
        /\ s.waiting = lk.waiting /\ s.cond_vars = lk.cond_vars \cup {c}
        /\ s.waiters = lk.waiters /\ s.mutex_require_init = lk.mutex_require_init
        /\ s.mutexes = lk.mutexes /\ s.locked = lk.locked /\ s.last_lock = lk.last_lock
    BY <2>1 DEF Locks
  <2> HIDE DEF s
  <2>4. /\ l \in Locks
        /\ l.PthreadMutexes = lk.PthreadMutexes /\ l.owner = lk.owner
        /\ l.waiting = lk.waiting /\ l.cond_vars = lk.cond_vars \cup {c}
        /\ l.waiters = lk.waiters /\ l.mutex_require_init = lk.mutex_require_init
        /\ l.mutexes = lk.mutexes \cup {m} /\ l.locked = lk.locked \cup {m}
        /\ l.last_lock = [lk.last_lock EXCEPT ![m] = t]
    BY <2>1, <2>3, LockFields
  <2> HIDE DEF l
  <2>5. /\ r \in Locks
        /\ r.PthreadMutexes = l.PthreadMutexes /\ r.owner = [l.owner EXCEPT ![m] = t]
        /\ r.waiting = l.waiting /\ r.cond_vars = l.cond_vars
        /\ r.waiters = l.waiters /\ r.mutex_require_init = l.mutex_require_init
        /\ r.mutexes = l.mutexes /\ r.locked = l.locked /\ r.last_lock = l.last_lock
    BY <2>1, <2>4 DEF Locks
  <2> HIDE DEF r
  <2> QED BY <1>2, <2>1, <2>2, <2>4, <2>5 DEF m, c
<1> QED BY <1>1, <1>2

(* The records are well-formed and agree.                                  *)
Good(s) == s \in Locks /\ Agree(s)

(* The completed wait leaves them so, and every other thread registered.   *)
LEMMA AwakeGood ==
  ASSUME TypeOK, Agree(lk), NEW t \in Threads, Proceeds(t)
  PROVE  /\ Good(doPthreadCondAwake(t))
         /\ \A u \in Threads : Kept(u, lk, doPthreadCondAwake(t))
<1> DEFINE r == doPthreadCondAwake(t)
           m == pending_mutex_lock[t]
<1>0. -1 \notin Threads
  BY OperandAssumption
<1>1. CASE m = NULL
  <2>1. r = lk /\ lk \in Locks
    BY <1>1, AwakeFields, Zenon DEF TypeOK
  <2> QED BY <2>1 DEF Good, Kept
<1>2. CASE m # NULL
  <2>1. /\ r \in Locks /\ lk \in Locks /\ m \in Mutexes
        /\ r.PthreadMutexes = lk.PthreadMutexes /\ r.waiting = lk.waiting
        /\ r.waiters = lk.waiters
        /\ r.owner = [lk.owner EXCEPT ![m] = t]
        /\ r.mutexes = lk.mutexes \cup {m}
        /\ r.locked = lk.locked \cup {m}
        /\ r.last_lock = [lk.last_lock EXCEPT ![m] = t]
    BY <1>2, AwakeFields, Zenon DEF TypeOK
  <2>2. m \in lk.PthreadMutexes
    BY <1>2 DEF Proceeds, DestroyedInWait
  <2>3. /\ lk.owner \in [Mutexes -> Threads \cup {-1}]
        /\ lk.last_lock \in [Mutexes -> Threads \cup {-1}]
        /\ lk.locked \subseteq Mutexes
    BY <2>1 DEF Locks
  <2> HIDE DEF r, m
  <2>4. Agree(r)
    BY <1>0, <2>1, <2>2, <2>3 DEF Agree
  <2>5. \A u \in Threads : Kept(u, lk, r)
    BY <1>0, <2>1, <2>3 DEF Kept
  <2> QED BY <2>1, <2>4, <2>5 DEF Good, r
<1> QED BY <1>1, <1>2

(* Locking a mutex in both records.                                        *)
LEMMA LockGood ==
  ASSUME NEW s, Good(s), NEW t \in Threads, NEW m \in Mutexes
  PROVE  LET r == [mutex_lock(s, t, m) EXCEPT !.PthreadMutexes = @ \cup {m}, !.owner[m] = t]
         IN  Good(r) /\ \A u \in Threads : Kept(u, s, r)
<1> DEFINE l == mutex_lock(s, t, m)
           r == [l EXCEPT !.PthreadMutexes = @ \cup {m}, !.owner[m] = t]
<1>0. s \in Locks /\ -1 \notin Threads
  BY OperandAssumption DEF Good
<1>1. /\ l \in Locks
      /\ l.PthreadMutexes = s.PthreadMutexes /\ l.owner = s.owner
      /\ l.waiting = s.waiting /\ l.waiters = s.waiters
      /\ l.mutexes = s.mutexes \cup {m} /\ l.locked = s.locked \cup {m}
      /\ l.last_lock = [s.last_lock EXCEPT ![m] = t]
  BY <1>0, LockFields
<1> HIDE DEF l
<1>2. /\ r \in Locks
      /\ r.PthreadMutexes = l.PthreadMutexes \cup {m} /\ r.owner = [l.owner EXCEPT ![m] = t]
      /\ r.waiting = l.waiting /\ r.waiters = l.waiters
      /\ r.mutexes = l.mutexes /\ r.locked = l.locked
      /\ r.last_lock = l.last_lock
  BY <1>1, Zenon DEF Locks
<1> HIDE DEF r
<1>3. /\ s.owner \in [Mutexes -> Threads \cup {-1}]
      /\ s.last_lock \in [Mutexes -> Threads \cup {-1}]
      /\ s.locked \subseteq Mutexes
  BY <1>0 DEF Locks
<1>4. Agree(r)
  BY <1>0, <1>1, <1>2, <1>3 DEF Agree, Good
<1>5. \A u \in Threads : Kept(u, s, r)
  BY <1>0, <1>1, <1>2, <1>3 DEF Kept
<1> QED BY <1>2, <1>4, <1>5 DEF Good, l, r

(* Unlocking a mutex in both records drops the threads waiting for it.     *)
LEMMA UnlockGood ==
  ASSUME NEW s, Good(s), NEW m \in Mutexes
  PROVE  LET r == released(mutex_unlock(s, m), m) IN
         /\ Good(r)
         /\ mutex_unlock(s, m) \in Locks
         /\ mutex_unlock(s, m).waiting = s.waiting
         /\ mutex_unlock(s, m).owner = s.owner
         /\ mutex_unlock(s, m).cond_vars = s.cond_vars
         /\ r.waiters = s.waiters
         /\ \A u \in Threads \ s.waiting[m] : Kept(u, s, r)
<1> DEFINE l == mutex_unlock(s, m)
           r == released(l, m)
<1>0. s \in Locks /\ -1 \notin Threads
  BY OperandAssumption DEF Good
<1>1. /\ l \in Locks
      /\ l.PthreadMutexes = s.PthreadMutexes /\ l.owner = s.owner
      /\ l.waiting = s.waiting /\ l.waiters = s.waiters /\ l.cond_vars = s.cond_vars
      /\ l.mutexes = s.mutexes \cup {m} /\ l.locked = s.locked \ {m}
      /\ l.last_lock = s.last_lock
  BY <1>0, UnlockFields
<1> HIDE DEF l
<1>2. /\ r \in Locks
      /\ r.PthreadMutexes = l.PthreadMutexes \cup {m} /\ r.owner = [l.owner EXCEPT ![m] = -1]
      /\ r.waiting = [l.waiting EXCEPT ![m] = {}] /\ r.waiters = l.waiters
      /\ r.mutexes = l.mutexes /\ r.locked = l.locked
      /\ r.last_lock = l.last_lock
  BY <1>1, Zenon DEF Locks, released
<1> HIDE DEF r
<1>3. /\ s.owner \in [Mutexes -> Threads \cup {-1}]
      /\ s.waiting \in [Mutexes -> SUBSET Threads]
      /\ s.locked \subseteq Mutexes
  BY <1>0 DEF Locks
<1>4. Agree(r)
  BY <1>0, <1>1, <1>2, <1>3 DEF Agree, Good
<1>5. \A u \in Threads \ s.waiting[m] : Kept(u, s, r)
  BY <1>0, <1>1, <1>2, <1>3 DEF Kept
<1> QED BY <1>1, <1>2, <1>4, <1>5 DEF Good, l, r

(* mutex_init() and the interpreter's record of it.                        *)
LEMMA InitGood ==
  ASSUME NEW s, Good(s), NEW m \in Mutexes
  PROVE  LET l == mutex_init(s, m)
             r == [l EXCEPT !.PthreadMutexes = @ \cup {m}]
         IN
         /\ l \in Locks
         /\ Good(r)
         /\ \A u \in Threads : Kept(u, s, r)
<1> DEFINE l == mutex_init(s, m)
           r == [l EXCEPT !.PthreadMutexes = @ \cup {m}]
<1>0. s \in Locks
  BY DEF Good
<1>1. /\ l \in Locks
      /\ l.PthreadMutexes = s.PthreadMutexes /\ l.owner = s.owner
      /\ l.waiting = s.waiting /\ l.waiters = s.waiters
      /\ l.mutexes = s.mutexes \cup {m} /\ l.locked = s.locked
      /\ l.last_lock = s.last_lock
  BY <1>0 DEF mutex_init, Locks
<1> HIDE DEF l
<1>2. /\ r \in Locks
      /\ r.PthreadMutexes = l.PthreadMutexes \cup {m} /\ r.owner = l.owner
      /\ r.waiting = l.waiting /\ r.waiters = l.waiters
      /\ r.mutexes = l.mutexes /\ r.locked = l.locked
      /\ r.last_lock = l.last_lock
  BY <1>1 DEF Locks
<1> HIDE DEF r
<1>3. Agree(r)
  BY <1>1, <1>2 DEF Agree, Good
<1>4. \A u \in Threads : Kept(u, s, r)
  BY <1>1, <1>2 DEF Kept
<1> QED BY <1>1, <1>2, <1>3, <1>4 DEF Good, l, r

(* mutex_destroy() of a mutex that is not owned.                           *)
LEMMA DestroyGood ==
  ASSUME NEW s, Good(s), NEW m \in Mutexes
  PROVE  LET l == mutex_destroy(s, m)
             r == [l EXCEPT !.PthreadMutexes = @ \ {m}]
         IN
         /\ l \in Locks /\ l.owner = s.owner /\ l.PthreadMutexes = s.PthreadMutexes
         /\ l.mutex_require_init = s.mutex_require_init
         /\ s.owner[m] = -1 => Good(r)
         /\ r \in Locks
         /\ \A u \in Threads : Kept(u, s, r)
<1> DEFINE l == mutex_destroy(s, m)
           r == [l EXCEPT !.PthreadMutexes = @ \ {m}]
<1>0. s \in Locks
  BY DEF Good
<1>1. /\ l \in Locks
      /\ l.PthreadMutexes = s.PthreadMutexes /\ l.owner = s.owner
      /\ l.waiting = s.waiting /\ l.waiters = s.waiters
      /\ l.mutex_require_init = s.mutex_require_init
      /\ l.mutexes = s.mutexes \ {m} /\ l.locked = s.locked \ {m}
      /\ l.last_lock = [s.last_lock EXCEPT ![m] = -1]
  BY <1>0, Zenon DEF mutex_destroy, Locks
<1> HIDE DEF l
<1>2. /\ r \in Locks
      /\ r.PthreadMutexes = l.PthreadMutexes \ {m} /\ r.owner = l.owner
      /\ r.waiting = l.waiting /\ r.waiters = l.waiters
      /\ r.mutexes = l.mutexes /\ r.locked = l.locked
      /\ r.last_lock = l.last_lock
  BY <1>1 DEF Locks
<1> HIDE DEF r
<1>3. s.last_lock \in [Mutexes -> Threads \cup {-1}] /\ s.locked \subseteq Mutexes
  BY <1>0 DEF Locks
<1>4. s.owner[m] = -1 => Agree(r)
  BY <1>1, <1>2, <1>3 DEF Agree, Good
<1>5. \A u \in Threads : Kept(u, s, r)
  BY <1>1, <1>2 DEF Kept
<1> QED BY <1>1, <1>2, <1>4, <1>5 DEF Good, l, r

(* The condition variables' part of the records, and the queues of those   *)
(* waiting for a mutex, do not matter to the agreement.                    *)
LEMMA CondGood ==
  ASSUME NEW s, Good(s), NEW r \in Locks,
         r.PthreadMutexes = s.PthreadMutexes, r.owner = s.owner,
         r.mutexes = s.mutexes, r.locked = s.locked, r.last_lock = s.last_lock
  PROVE  Good(r)
BY DEF Good, Agree

(* Registered throughout two operations.                                   *)
LEMMA KeptTwice ==
  ASSUME NEW u, NEW s, NEW l, NEW r, Kept(u, s, l), Kept(u, l, r)
  PROVE  Kept(u, s, r)
BY DEF Kept

-----------------------------------------------------------------------------
(* Steps.                                                                  *)

(* The operands of the next instruction.                                   *)
LEMMA Operands ==
  ASSUME TypeOK, NEW t \in Threads
  PROVE  /\ I(t).op \in {"mutex_init", "lock", "trylock", "unlock",
                         "mutex_destroy", "wait"} => I(t).m \in Mutexes
         /\ I(t).op = "trylock" => I(t).skip \in Nat
         /\ I(t).op \in {"cond_init", "signal", "broadcast", "wait",
                         "cond_destroy"} => I(t).c \in Conds
         /\ I(t).op \in {"store", "xchg_await", "load_await"} => I(t).ml \in Locations
         /\ I(t).op \in {"store", "xchg_await"} => I(t).val \in Values \cup {0}
         /\ I(t).op \in {"create", "join"} => I(t).tid \in Threads
         /\ I(t).op = "cond_destroy" => MayDestroy(I(t).c)
<1>1. prog \in Programs /\ CurInst[t] \in Nat \ {0}
  BY DEF TypeOK
<1>2. CASE CurInst[t] <= Len(prog[t])
  <2>1. CurInst[t] \in 1..Len(prog[t]) /\ I(t) = prog[t][CurInst[t]]
    BY <1>1, <1>2, ProgramAssumption DEF I
  <2> DEFINE i == CurInst[t]
  <2>2. i \in 1..Len(prog[t]) /\ I(t) = prog[t][i]
    BY <2>1
  <2> HIDE DEF i
  <2>3. I(t).op = "cond_destroy" => MayDestroy(I(t).c)
    BY <2>2 DEF MayDestroy
  <2>4. I(t).op \in {"create", "join"} => I(t).tid \in Threads
    BY <1>1, <2>2, ProgramAssumption
  <2> QED BY <1>1, <2>2, <2>3, <2>4, OperandAssumption
<1>3. CASE ~(CurInst[t] <= Len(prog[t]))
  BY <1>3 DEF I
<1> QED BY <1>2, <1>3

(* An error ends the execution: nobody is left to wait.                    *)
LEMMA AbortInv ==
  ASSUME Inv, NEW t \in Threads, NEW r \in Locks, abort(t, r)
  PROVE  Inv'
<1>1. TypeOK'
  BY DEF Inv, TypeOK, abort, Pending
<1>2. AllWait'
  BY DEF Inv, TypeOK, abort, AllWait
<1> QED BY <1>1, <1>2 DEF Inv, abort

(* A thread other than the one that runs, which is not woken by the step,  *)
(* waits on for what it waited for.                                        *)
LEMMA OthersWait ==
  ASSUME TypeOK, AllWait, NEW t \in Threads, NEW u \in Threads, u # t,
         stack'[u] = "live", u \notin available',
         stack[u] = "live", u \notin available,
         prog' = prog, CurInst'[u] = CurInst[u],
         pending_mutex_lock'[u] = pending_mutex_lock[u],
         pending_condvar_awake'[u] = pending_condvar_awake[u],
         Kept(u, lk, lk'),
         JoinBlocked(u) /\ u \in AwaitingJoin[I(u).tid] =>
           \/ stack'[I(u).tid] = "live"
           \/ I(u).tid \in AssumeBlocked',
         JoinBlocked(u) /\ u \in AwaitingJoin[I(u).tid] => u \in AwaitingJoin'[I(u).tid],
         AwaitBlocked(u) /\ <<I(u).ml, u>> \in blocking_awaits =>
           mem'[I(u).ml] \notin I(u).cond /\ <<I(u).ml, u>> \in blocking_awaits'
  PROVE  Waits(u)'
<1>1. Waits(u)
  BY DEF AllWait
<1>2. I(u)' = I(u)
  BY DEF I
<1>3. CASE JoinBlocked(u) /\ u \in AwaitingJoin[I(u).tid]
  BY <1>2, <1>3 DEF JoinBlocked, Waits
<1>4. CASE \E m \in isPthreadMutexLock(u) : lk.owner[m] # -1 /\ u \in lk.waiting[m]
  <2>1. isPthreadMutexLock(u)' = isPthreadMutexLock(u)
    BY <1>2 DEF isPthreadMutexLock
  <2>2. isPthreadMutexLock(u) \subseteq Mutexes
    BY Operands DEF isPthreadMutexLock, TypeOK
  <2> QED BY <1>4, <2>1, <2>2 DEF Kept, Waits
<1>5. CASE AwaitBlocked(u) /\ <<I(u).ml, u>> \in blocking_awaits
  BY <1>2, <1>5 DEF AwaitBlocked, Waits
<1>6. CASE CondBlocked(u)
  <2>1. pending_condvar_awake[u] \in Conds /\ pending_mutex_lock[u] # NULL
    BY <1>6 DEF CondBlocked, TypeOK
  <2>2. \/ u \in lk'.waiters[pending_condvar_awake[u]]
        \/ MayDestroy(pending_condvar_awake[u])
    BY <1>6, <2>1 DEF Kept, CondBlocked
  <2> QED BY <2>1, <2>2 DEF CondBlocked, Waits, MayDestroy
<1>7. CASE pending_mutex_lock[u] # NULL /\ MayDestroy(pending_condvar_awake[u])
  BY <1>7 DEF Waits, MayDestroy
<1> QED BY <1>1, <1>3, <1>4, <1>5, <1>6, <1>7 DEF Waits

(* An instruction that leaves memory and threads alone, and whose thread   *)
(* goes on, at instruction n.                                              *)
LEMMA GoesOn ==
  ASSUME Inv, ~error, NEW t \in Threads, t \in available,
         NEW n \in Nat \ {0}, CurInst' = [CurInst EXCEPT ![t] = n],
         Good(lk'), available' \in SUBSET Threads, available \subseteq available',
         \A u \in Threads \ available' : Kept(u, lk, lk'),
         Pending(t, NULL, NULL), error' = error,
         prog' = prog, stack' = stack, AssumeBlocked' = AssumeBlocked,
         AwaitingJoin' = AwaitingJoin, mem' = mem, blocking_awaits' = blocking_awaits
  PROVE  Inv'
<1>1. TypeOK'
  BY DEF Inv, TypeOK, Pending, Good
<1>2. AllWait'
  <2> SUFFICES ASSUME NEW u \in Threads, stack'[u] = "live", u \notin available'
               PROVE  Waits(u)'
    BY DEF AllWait
  <2>1. u # t /\ stack[u] = "live" /\ u \notin available /\ Kept(u, lk, lk')
    OBVIOUS
  <2>2. /\ CurInst'[u] = CurInst[u]
        /\ pending_mutex_lock'[u] = pending_mutex_lock[u]
        /\ pending_condvar_awake'[u] = pending_condvar_awake[u]
    BY <2>1 DEF Inv, TypeOK, Pending
  <2> QED BY <2>1, <2>2, OthersWait, Zenon DEF Inv, JoinBlocked, AwaitBlocked
<1> QED BY <1>1, <1>2 DEF Inv, Good

(* The same, at its next instruction.                                      *)
LEMMA WorksInv ==
  ASSUME Inv, ~error, NEW t \in Threads, t \in available,
         NEW r, Good(r), NEW A \in SUBSET Threads, available \subseteq A,
         \A u \in Threads \ A : Kept(u, lk, r),
         NEW bad, Works(t, bad, r, A)
  PROVE  Inv'
<1>1. CurInst[t] + 1 \in Nat \ {0} /\ CurInst' = [CurInst EXCEPT ![t] = CurInst[t] + 1]
  BY DEF Inv, TypeOK, Works, Succeed, Advance
<1> QED BY <1>1, GoesOn, Zenon DEF Works, Succeed

(* A thread is scheduled only before an error.                             *)
LEMMA Scheduled ==
  ASSUME Inv, NEW t \in Threads, t \in available
  PROVE  ~error /\ TypeOK /\ Agree(lk) /\ Good(lk) /\ available \subseteq Threads
BY DEF Inv, TypeOK, Good

(* A refused thread is registered where its wake-up comes from.            *)
LEMMA RefusedInv ==
  ASSUME Inv, NEW t \in Threads,
         RefusedJoin(t) \/ RefusedLock(t) \/ RefusedAwait(t)
  PROVE  Inv'
<1>0. t \in available /\ ~error /\ TypeOK /\ Agree(lk) /\ AllWait /\ available' = available \ {t}
  BY Scheduled DEF RefusedJoin, RefusedLock, RefusedAwait, RefuseJoin, refuse_schedule, Inv
<1>1. /\ prog' = prog /\ CurInst' = CurInst /\ stack' = stack
      /\ AssumeBlocked' = AssumeBlocked /\ pending_mutex_lock' = pending_mutex_lock
      /\ pending_condvar_awake' = pending_condvar_awake /\ mem' = mem /\ error' = error
  BY DEF RefusedJoin, RefusedLock, RefusedAwait, RefuseJoin, pendVars
<1>2. I(t)' = I(t)
  BY <1>1 DEF I
<1>3. ASSUME RefusedJoin(t)
      PROVE  /\ AwaitingJoin' \in [Threads -> SUBSET Threads] /\ lk' = lk
             /\ blocking_awaits' = blocking_awaits
             /\ \A v \in Threads : AwaitingJoin[v] \subseteq AwaitingJoin'[v]
             /\ Waits(t)'
  <2>1. I(t).tid \in Threads /\ JoinBlocked(t)
    BY <1>0, <1>3, Operands DEF RefusedJoin, JoinBlocked
  <2>2. AwaitingJoin' = [AwaitingJoin EXCEPT ![I(t).tid] = @ \cup {t}]
    BY <1>3 DEF RefusedJoin, RefuseJoin, Register
  <2>3. AwaitingJoin \in [Threads -> SUBSET Threads]
    BY <1>0 DEF TypeOK
  <2>4. /\ AwaitingJoin' \in [Threads -> SUBSET Threads]
        /\ \A v \in Threads : AwaitingJoin[v] \subseteq AwaitingJoin'[v]
        /\ t \in AwaitingJoin'[I(t).tid]
    BY <2>1, <2>2, <2>3
  <2>5. Waits(t)'
    BY <1>1, <1>2, <2>1, <2>4 DEF Waits, JoinBlocked
  <2> QED BY <1>3, <2>4, <2>5 DEF RefusedJoin
<1>4. ASSUME RefusedLock(t)
      PROVE  /\ lk' \in Locks /\ Agree(lk') /\ AwaitingJoin' = AwaitingJoin
             /\ blocking_awaits' = blocking_awaits
             /\ \A u \in Threads : Kept(u, lk, lk')
             /\ Waits(t)'
  <2>1. PICK m \in isPthreadMutexLock(t) : lk' = [lk EXCEPT !.waiting[m] = @ \cup {t}]
    BY <1>4, Zenon DEF RefusedLock
  <2>2. m \in Mutexes /\ lk \in Locks /\ lk.owner[m] # -1
    BY <1>0, <1>4, Operands DEF RefusedLock, MutexBlocked, isPthreadMutexLock, TypeOK
  <2>3. /\ lk' \in Locks
        /\ lk'.PthreadMutexes = lk.PthreadMutexes /\ lk'.owner = lk.owner
        /\ lk'.waiting = [lk.waiting EXCEPT ![m] = @ \cup {t}] /\ lk'.waiters = lk.waiters
        /\ lk'.mutexes = lk.mutexes /\ lk'.locked = lk.locked
        /\ lk'.last_lock = lk.last_lock
    BY <2>1, <2>2 DEF Locks
  <2>4. lk.waiting \in [Mutexes -> SUBSET Threads]
    BY <2>2 DEF Locks
  <2>5. Agree(lk')
    BY <1>0, <2>3 DEF Agree
  <2>6. \A u \in Threads : Kept(u, lk, lk')
    BY <2>2, <2>3, <2>4 DEF Kept
  <2>7. isPthreadMutexLock(t)' = isPthreadMutexLock(t)
    BY <1>1, <1>2 DEF isPthreadMutexLock
  <2>8. lk'.owner[m] # -1 /\ t \in lk'.waiting[m]
    BY <2>2, <2>3, <2>4
  <2>9. Waits(t)'
    BY <2>7, <2>8 DEF Waits
  <2> QED BY <1>4, <2>3, <2>5, <2>6, <2>9 DEF RefusedLock
<1>5. ASSUME RefusedAwait(t)
      PROVE  /\ lk' = lk /\ AwaitingJoin' = AwaitingJoin
             /\ blocking_awaits \subseteq blocking_awaits'
             /\ Waits(t)'
  BY <1>1, <1>2, <1>5 DEF RefusedAwait, Waits, AwaitBlocked
<1>6. /\ lk' \in Locks /\ Agree(lk') /\ AwaitingJoin' \in [Threads -> SUBSET Threads]
      /\ \A u \in Threads : Kept(u, lk, lk')
      /\ \A v \in Threads : AwaitingJoin[v] \subseteq AwaitingJoin'[v]
      /\ blocking_awaits \subseteq blocking_awaits'
      /\ Waits(t)'
  <2>1. lk \in Locks /\ \A u \in Threads : Kept(u, lk, lk)
    BY <1>0 DEF TypeOK, Kept
  <2>2. AwaitingJoin \in [Threads -> SUBSET Threads]
    BY <1>0 DEF TypeOK
  <2> QED BY <1>0, <1>3, <1>4, <1>5, <2>1, <2>2
<1>7. TypeOK'
  BY <1>0, <1>1, <1>6 DEF TypeOK
<1>8. AllWait'
  <2> SUFFICES ASSUME NEW u \in Threads, stack'[u] = "live", u \notin available'
               PROVE  Waits(u)'
    BY DEF AllWait
  <2>1. CASE u = t
    BY <1>6, <2>1
  <2>2. CASE u # t
    <3>1. u \notin available /\ stack[u] = "live"
      BY <1>0, <1>1, <2>2
    <3>2. JoinBlocked(u) => I(u).tid \in Threads
      BY <1>0, Operands DEF JoinBlocked
    <3> QED BY <1>0, <1>1, <1>6, <2>2, <3>1, <3>2, OthersWait, Zenon DEF JoinBlocked, AwaitBlocked
  <2> QED BY <2>1, <2>2
<1> QED BY <1>0, <1>1, <1>6, <1>7, <1>8 DEF Inv

(* The mutex of a completed wait was destroyed meanwhile.                  *)
LEMMA AwakeFailsInv ==
  ASSUME Inv, NEW t \in Threads, AwakeFails(t)
  PROVE  Inv'
<1> DEFINE m == pending_mutex_lock[t]
           c == pending_condvar_awake[t]
           s == [lk EXCEPT !.cond_vars = @ \cup {c}]
<1>1. m \in Mutexes /\ c \in Conds /\ lk \in Locks
  BY DEF AwakeFails, DestroyedInWait, Inv, TypeOK
<1>2. abort(t, mutex_lock(s, t, m))
  BY DEF AwakeFails, cond_awake
<1> HIDE DEF m, c
<1>3. s \in Locks
  BY <1>1 DEF Locks
<1> HIDE DEF s
<1>4. mutex_lock(s, t, m) \in Locks
  BY <1>1, <1>3, LockFields, Zenon
<1> QED BY <1>2, <1>4, AbortInv

(* What an instruction that runs starts from.                              *)
LEMMA Running ==
  ASSUME Inv, NEW t \in Threads, NEW op, Runs(t, op)
  PROVE  /\ t \in available /\ I(t).op = op /\ ~error /\ TypeOK
         /\ available \subseteq Threads
         /\ Good(doPthreadCondAwake(t)) /\ doPthreadCondAwake(t) \in Locks
         /\ \A u \in Threads : Kept(u, lk, doPthreadCondAwake(t))
<1>1. t \in available /\ I(t).op = op /\ Proceeds(t)
  BY DEF Runs, Executes
<1>2. ~error /\ TypeOK /\ Agree(lk) /\ available \subseteq Threads
  BY <1>1, Scheduled
<1> QED BY <1>1, <1>2, AwakeGood DEF Good

(* pthread_mutex_init().                                                   *)
LEMMA MutexInitInv ==
  ASSUME Inv, NEW t \in Threads, callPthreadMutexInit(t)
  PROVE  Inv'
<1> DEFINE m == I(t).m
           old == doPthreadCondAwake(t)
           s == mutex_init(old, m)
           r == [s EXCEPT !.PthreadMutexes = @ \cup {m}]
           twice == m \in s.PthreadMutexes
<1>1. Runs(t, "mutex_init") /\ (Fails(t, twice, s) \/ Works(t, twice, r, available))
  BY DEF callPthreadMutexInit
<1>2. /\ m \in Mutexes /\ Good(old) /\ ~error /\ t \in available
      /\ available \in SUBSET Threads
      /\ \A u \in Threads : Kept(u, lk, old)
  BY <1>1, Running, Operands
<1> HIDE DEF m, old
<1>3. s \in Locks /\ Good(r) /\ \A u \in Threads : Kept(u, old, r)
  BY <1>2, InitGood
<1>4. \A u \in Threads : Kept(u, lk, r)
  BY <1>2, <1>3, KeptTwice
<1> HIDE DEF s, r, twice
<1>5. CASE Fails(t, twice, s)
  BY <1>3, <1>5, AbortInv DEF Fails
<1>6. CASE Works(t, twice, r, available)
  BY <1>2, <1>3, <1>4, <1>6, WorksInv
<1> QED BY <1>1, <1>5, <1>6

(* pthread_mutex_lock() of a mutex that is free.                           *)
LEMMA MutexLockInv ==
  ASSUME Inv, NEW t \in Threads, callPthreadMutexLock(t)
  PROVE  Inv'
<1> DEFINE m == I(t).m
           old == doPthreadCondAwake(t)
           s == mutex_lock(old, t, m)
           r == [s EXCEPT !.PthreadMutexes = @ \cup {m}, !.owner[m] = t]
           bad == Uninitialized(s, m)
<1>1. Runs(t, "lock") /\ (Fails(t, bad, s) \/ Works(t, bad, r, available))
  BY DEF callPthreadMutexLock
<1>2. /\ m \in Mutexes /\ Good(old) /\ ~error /\ t \in available
      /\ available \in SUBSET Threads
      /\ \A u \in Threads : Kept(u, lk, old)
  BY <1>1, Running, Operands
<1> HIDE DEF m, old
<1>3. s \in Locks
  BY <1>2, LockFields, Zenon DEF Good
<1>4. Good(r) /\ \A u \in Threads : Kept(u, old, r)
  BY <1>2, LockGood, Zenon
<1>5. \A u \in Threads : Kept(u, lk, r)
  BY <1>2, <1>4, KeptTwice
<1> HIDE DEF s, r, bad
<1>6. CASE Fails(t, bad, s)
  BY <1>3, <1>6, AbortInv DEF Fails
<1>7. CASE Works(t, bad, r, available)
  BY <1>2, <1>4, <1>5, <1>7, WorksInv
<1> QED BY <1>1, <1>6, <1>7

(* pthread_mutex_unlock() wakes everyone who waits for the mutex.          *)
LEMMA MutexUnlockInv ==
  ASSUME Inv, NEW t \in Threads, callPthreadMutexUnlock(t)
  PROVE  Inv'
<1> DEFINE m == I(t).m
           old == doPthreadCondAwake(t)
           s == mutex_unlock(old, m)
           r == released(s, m)
           A == available \cup s.waiting[m]
           bad == Uninitialized(s, m) \/ s.owner[m] # t
<1>1. Runs(t, "unlock") /\ (Fails(t, bad, s) \/ Works(t, bad, r, A))
  BY DEF callPthreadMutexUnlock
<1>2. /\ m \in Mutexes /\ Good(old) /\ ~error /\ t \in available
      /\ available \in SUBSET Threads
      /\ \A u \in Threads : Kept(u, lk, old)
  BY <1>1, Running, Operands
<1> HIDE DEF m, old
<1>3. /\ Good(r) /\ s \in Locks /\ s.waiting = old.waiting
      /\ \A u \in Threads \ old.waiting[m] : Kept(u, old, r)
  BY <1>2, UnlockGood
<1> HIDE DEF s, r, bad
<1>4. old.waiting[m] \in SUBSET Threads
  BY <1>2 DEF Good, Locks
<1>5. A \in SUBSET Threads /\ \A u \in Threads \ A : Kept(u, lk, r)
  BY <1>2, <1>3, <1>4, KeptTwice
<1>6. CASE Fails(t, bad, s)
  BY <1>3, <1>6, AbortInv DEF Fails
<1>7. CASE Works(t, bad, r, A)
  <2>1. available \subseteq A
    OBVIOUS
  <2> HIDE DEF A
  <2> QED BY <1>2, <1>3, <1>5, <1>7, <2>1, WorksInv
<1> QED BY <1>1, <1>6, <1>7

(* pthread_mutex_destroy() of a mutex that no thread owns.                 *)
LEMMA MutexDestroyInv ==
  ASSUME Inv, NEW t \in Threads, callPthreadMutexDestroy(t)
  PROVE  Inv'
<1> DEFINE m == I(t).m
           old == doPthreadCondAwake(t)
           s == mutex_destroy(old, m)
           r == [s EXCEPT !.PthreadMutexes = @ \ {m}]
           bad == Uninitialized(s, m) \/ s.owner[m] # -1
<1>1. Runs(t, "mutex_destroy") /\ (Fails(t, bad, s) \/ Works(t, bad, r, available))
  BY DEF callPthreadMutexDestroy
<1>2. /\ m \in Mutexes /\ Good(old) /\ ~error /\ t \in available
      /\ available \in SUBSET Threads
      /\ \A u \in Threads : Kept(u, lk, old)
  BY <1>1, Running, Operands
<1> HIDE DEF m, old
<1>3. /\ s \in Locks /\ s.owner = old.owner /\ (old.owner[m] = -1 => Good(r))
      /\ \A u \in Threads : Kept(u, old, r)
  BY <1>2, DestroyGood
<1>4. \A u \in Threads : Kept(u, lk, r)
  BY <1>2, <1>3, KeptTwice
<1> HIDE DEF r
<1>5. CASE Fails(t, bad, s)
  BY <1>3, <1>5, AbortInv DEF Fails
<1>6. CASE Works(t, bad, r, available)
  <2>1. Good(r)
    BY <1>3, <1>6 DEF Works
  <2> QED BY <1>2, <1>4, <1>6, <2>1, WorksInv
<1> QED BY <1>1, <1>5, <1>6

(* pthread_mutex_trylock(): by the agreement, the TraceBuilder locks the   *)
(* mutex exactly when the interpreter does.                                *)
LEMMA MutexTryLockInv ==
  ASSUME Inv, NEW t \in Threads, callPthreadMutexTryLock(t)
  PROVE  Inv'
<1> DEFINE m == I(t).m
           old == doPthreadCondAwake(t)
           l == mutex_lock(old, t, m)
           s == mutex_trylock(old, t, m)
           r == [s EXCEPT !.PthreadMutexes = @ \cup {m}, !.owner[m] = t]
           bad == Uninitialized(s, m)
           fail == /\ ~bad /\ old.owner[m] # -1
                   /\ lk' = s
                   /\ CurInst' = [CurInst EXCEPT ![t] = @ + 1 + I(t).skip]
                   /\ Pending(t, NULL, NULL)
                   /\ UNCHANGED <<prog, stack, AssumeBlocked, AwaitingJoin, available,
                                  mem, blocking_awaits, error>>
<1>1. /\ Runs(t, "trylock")
      /\ \/ Fails(t, bad, s)
         \/ old.owner[m] = -1 /\ Works(t, bad, r, available)
         \/ fail
  BY DEF callPthreadMutexTryLock
<1>2. /\ m \in Mutexes /\ Good(old) /\ ~error /\ t \in available
      /\ available \in SUBSET Threads /\ I(t).skip \in Nat
      /\ \A u \in Threads : Kept(u, lk, old)
  BY <1>1, Running, Operands
<1> HIDE DEF m, old
<1>3. l \in Locks
  BY <1>2, LockFields, Zenon DEF Good
<1>4. s = IF old.owner[m] # -1 THEN old ELSE l
  BY <1>2 DEF mutex_trylock, Good, Agree
<1>5. s \in Locks
  BY <1>2, <1>3, <1>4 DEF Good
<1>6. CASE Fails(t, bad, s)
  <2> HIDE DEF s
  <2> QED BY <1>5, <1>6, AbortInv DEF Fails
<1>7. CASE old.owner[m] = -1 /\ Works(t, bad, r, available)
  <2>1. r = [l EXCEPT !.PthreadMutexes = @ \cup {m}, !.owner[m] = t]
    BY <1>4, <1>7
  <2>2. Good(r) /\ \A u \in Threads : Kept(u, old, r)
    BY <1>2, <2>1, LockGood, Zenon
  <2>3. \A u \in Threads : Kept(u, lk, r)
    BY <1>2, <2>2, KeptTwice
  <2> HIDE DEF r, bad
  <2> QED BY <1>2, <1>7, <2>2, <2>3, WorksInv
<1>8. CASE fail
  <2>1. lk' = old
    BY <1>4, <1>8
  <2>2. CurInst[t] + 1 + I(t).skip \in Nat \ {0}
    BY <1>2 DEF Inv, TypeOK
  <2> HIDE DEF bad
  <2> QED BY <1>2, <1>8, <2>1, <2>2, GoesOn, Zenon
<1> QED BY <1>1, <1>6, <1>7, <1>8

(* pthread_cond_init().                                                    *)
LEMMA CondInitInv ==
  ASSUME Inv, NEW t \in Threads, callPthreadCondInit(t)
  PROVE  Inv'
<1> DEFINE c == I(t).c
           s == doPthreadCondAwake(t)
           r == [s EXCEPT !.cond_vars = @ \cup {c}]
           twice == c \in s.cond_vars
<1>1. Runs(t, "cond_init") /\ (Fails(t, twice, s) \/ Works(t, twice, r, available))
  BY DEF callPthreadCondInit
<1>2. /\ c \in Conds /\ Good(s) /\ s \in Locks /\ ~error /\ t \in available
      /\ available \in SUBSET Threads
      /\ \A u \in Threads : Kept(u, lk, s)
  BY <1>1, Running, Operands
<1> HIDE DEF c, s
<1>3. /\ r \in Locks
      /\ r.PthreadMutexes = s.PthreadMutexes /\ r.owner = s.owner
      /\ r.waiting = s.waiting /\ r.waiters = s.waiters
      /\ r.mutexes = s.mutexes /\ r.locked = s.locked /\ r.last_lock = s.last_lock
  BY <1>2 DEF Locks
<1> HIDE DEF r, twice
<1>4. Good(r)
  BY <1>2, <1>3, CondGood
<1>5. \A u \in Threads : Kept(u, lk, r)
  BY <1>2, <1>3 DEF Kept
<1>6. CASE Fails(t, twice, s)
  BY <1>2, <1>6, AbortInv DEF Fails
<1>7. CASE Works(t, twice, r, available)
  BY <1>2, <1>4, <1>5, <1>7, WorksInv
<1> QED BY <1>1, <1>6, <1>7

(* The records after a change of the waiters of c.                         *)
LEMMA WaitersFields ==
  ASSUME NEW s, Good(s), NEW c \in Conds, NEW W \in SUBSET Threads
  PROVE  LET r == [s EXCEPT !.waiters[c] = W] IN
         /\ Good(r)
         /\ r.waiting = s.waiting /\ r.owner = s.owner
         /\ r.waiters = [s.waiters EXCEPT ![c] = W]
         /\ s.waiters \in [Conds -> SUBSET Threads]
<1> DEFINE r == [s EXCEPT !.waiters[c] = W]
<1>0. s \in Locks
  BY DEF Good
<1>1. /\ r \in Locks
      /\ r.PthreadMutexes = s.PthreadMutexes /\ r.owner = s.owner
      /\ r.waiting = s.waiting /\ r.waiters = [s.waiters EXCEPT ![c] = W]
      /\ r.mutexes = s.mutexes /\ r.locked = s.locked /\ r.last_lock = s.last_lock
  BY <1>0 DEF Locks
<1> HIDE DEF r
<1>2. Good(r)
  BY <1>1, CondGood
<1>3. s.waiters \in [Conds -> SUBSET Threads]
  BY <1>0 DEF Locks
<1> QED BY <1>1, <1>2, <1>3 DEF r

(* pthread_cond_signal() wakes the waiter it takes out.                    *)
LEMMA CondSignalInv ==
  ASSUME Inv, NEW t \in Threads, callPthreadCondSignal(t)
  PROVE  Inv'
<1> DEFINE c == I(t).c
           s == doPthreadCondAwake(t)
           r(w) == [s EXCEPT !.waiters[c] = @ \ {w}]
           bad == c \notin s.cond_vars
<1>1. /\ Runs(t, "signal")
      /\ \/ Fails(t, bad, s)
         \/ Works(t, bad, s, available)
         \/ \E w \in s.waiters[c] : Works(t, bad, r(w), available \cup {w})
  BY DEF callPthreadCondSignal
<1>2. /\ c \in Conds /\ Good(s) /\ s \in Locks /\ ~error /\ t \in available
      /\ available \in SUBSET Threads
      /\ \A u \in Threads : Kept(u, lk, s)
  BY <1>1, Running, Operands
<1> HIDE DEF c, s, bad
<1>3. CASE Fails(t, bad, s)
  BY <1>2, <1>3, AbortInv DEF Fails
<1>4. CASE Works(t, bad, s, available)
  BY <1>2, <1>4, WorksInv
<1>5. ASSUME NEW w \in s.waiters[c], Works(t, bad, r(w), available \cup {w})
      PROVE  Inv'
  <2>1. s.waiters \in [Conds -> SUBSET Threads]
    BY <1>2 DEF Locks
  <2> DEFINE W == s.waiters[c] \ {w}
             A == available \cup {w}
             q == [s EXCEPT !.waiters[c] = W]
  <2>2. W \in SUBSET Threads /\ A \in SUBSET Threads /\ available \subseteq A /\ w \in A
    BY <1>2, <2>1
  <2>3. q = r(w) /\ Works(t, bad, q, A)
    BY <1>5
  <2>4. \A x \in s.waiters[c] : x \in W \/ x = w
    OBVIOUS
  <2> HIDE DEF W, A, r
  <2>5. /\ Good(q) /\ q.waiting = s.waiting /\ q.owner = s.owner
        /\ q.waiters = [s.waiters EXCEPT ![c] = W]
    BY <1>2, <2>2, WaitersFields
  <2> HIDE DEF q
  <2>6. \A u \in Threads \ A : Kept(u, lk, q)
    BY <1>2, <2>1, <2>2, <2>4, <2>5 DEF Kept
  <2> QED BY <1>2, <2>2, <2>3, <2>5, <2>6, WorksInv
<1> QED BY <1>1, <1>3, <1>4, <1>5, Zenon

(* pthread_cond_broadcast() wakes them all.                                *)
LEMMA CondBroadcastInv ==
  ASSUME Inv, NEW t \in Threads, callPthreadCondBroadcast(t)
  PROVE  Inv'
<1> DEFINE c == I(t).c
           s == doPthreadCondAwake(t)
           r == [s EXCEPT !.waiters[c] = {}]
           A == available \cup s.waiters[c]
           bad == c \notin s.cond_vars
<1>1. Runs(t, "broadcast") /\ (Fails(t, bad, s) \/ Works(t, bad, r, A))
  BY DEF callPthreadCondBroadcast
<1>2. /\ c \in Conds /\ Good(s) /\ s \in Locks /\ ~error /\ t \in available
      /\ available \in SUBSET Threads
      /\ \A u \in Threads : Kept(u, lk, s)
  BY <1>1, Running, Operands
<1> HIDE DEF c, s, bad
<1>3. /\ Good(r) /\ r.waiting = s.waiting /\ r.owner = s.owner
      /\ r.waiters = [s.waiters EXCEPT ![c] = {}]
      /\ s.waiters \in [Conds -> SUBSET Threads]
  BY <1>2, WaitersFields
<1> HIDE DEF r
<1>4. A \in SUBSET Threads /\ available \subseteq A
  BY <1>2, <1>3
<1>5. \A u \in Threads \ A : Kept(u, lk, r)
  BY <1>2, <1>3 DEF Kept
<1> HIDE DEF A
<1>6. CASE Fails(t, bad, s)
  BY <1>2, <1>6, AbortInv DEF Fails
<1>7. CASE Works(t, bad, r, A)
  BY <1>2, <1>3, <1>4, <1>5, <1>7, WorksInv
<1> QED BY <1>1, <1>6, <1>7

(* pthread_cond_destroy() forgets the waiters: only then does a thread     *)
(* wait for nothing.                                                       *)
LEMMA CondDestroyInv ==
  ASSUME Inv, NEW t \in Threads, callPthreadCondDestroy(t)
  PROVE  Inv'
<1> DEFINE c == I(t).c
           s == doPthreadCondAwake(t)
           r == [s EXCEPT !.cond_vars = @ \ {c}, !.waiters[c] = {}]
           bad == c \notin s.cond_vars
<1>1. Runs(t, "cond_destroy") /\ (Fails(t, bad, s) \/ Works(t, bad, r, available))
  BY DEF callPthreadCondDestroy
<1>2. /\ c \in Conds /\ Good(s) /\ s \in Locks /\ ~error /\ t \in available
      /\ available \in SUBSET Threads /\ MayDestroy(c)
      /\ \A u \in Threads : Kept(u, lk, s)
  BY <1>1, Running, Operands
<1> HIDE DEF c, s
<1>3. /\ r \in Locks
      /\ r.PthreadMutexes = s.PthreadMutexes /\ r.owner = s.owner
      /\ r.waiting = s.waiting /\ r.waiters = [s.waiters EXCEPT ![c] = {}]
      /\ r.mutexes = s.mutexes /\ r.locked = s.locked /\ r.last_lock = s.last_lock
  BY <1>2, Zenon DEF Locks
<1> HIDE DEF r, bad
<1>4. Good(r)
  BY <1>2, <1>3, CondGood
<1>5. s.waiters \in [Conds -> SUBSET Threads]
  BY <1>2 DEF Locks
<1>6. \A u \in Threads : Kept(u, lk, r)
  BY <1>2, <1>3, <1>5 DEF Kept
<1>7. CASE Fails(t, bad, s)
  BY <1>2, <1>7, AbortInv DEF Fails
<1>8. CASE Works(t, bad, r, available)
  BY <1>2, <1>4, <1>6, <1>8, WorksInv
<1> QED BY <1>1, <1>7, <1>8

(* pthread_cond_wait() unlocks the mutex and enqueues the thread in one    *)
(* step: no signal comes in between.                                       *)
LEMMA CondWaitInv ==
  ASSUME Inv, NEW t \in Threads, callPthreadCondWait(t)
  PROVE  Inv'
<1> DEFINE c == I(t).c
           m == I(t).m
           old == doPthreadCondAwake(t)
           notHeld == m \notin old.mutexes \/ old.last_lock[m] # t
           s == mutex_unlock(old, m)
           unknown == c \notin s.cond_vars
           l == released(s, m)
           r == [l EXCEPT !.waiters[c] = @ \cup {t}]
           A == (available \ {t}) \cup s.waiting[m]
           wait == /\ Succeed(t, r, A)
                   /\ Pending(t, c, m)
                   /\ UNCHANGED <<mem, blocking_awaits>>
<1>1. /\ Runs(t, "wait")
      /\ Fails(t, notHeld, old) \/ Fails(t, unknown, s) \/ wait
  BY DEF callPthreadCondWait
<1>2. /\ m \in Mutexes /\ c \in Conds /\ Good(old) /\ old \in Locks
      /\ ~error /\ t \in available /\ TypeOK /\ available \in SUBSET Threads
      /\ \A u \in Threads : Kept(u, lk, old)
  BY <1>1, Running, Operands
<1> HIDE DEF m, c, old, notHeld
<1>3. /\ Good(l) /\ s \in Locks /\ s.waiting = old.waiting
      /\ l.waiters = old.waiters
      /\ \A u \in Threads \ old.waiting[m] : Kept(u, old, l)
  BY <1>2, UnlockGood
<1> HIDE DEF l, s, unknown
<1>4. CASE Fails(t, notHeld, old) \/ Fails(t, unknown, s)
  BY <1>2, <1>3, <1>4, AbortInv DEF Fails
<1>5. CASE wait
  <2> DEFINE W == l.waiters[c] \cup {t}
             q == [l EXCEPT !.waiters[c] = W]
  <2>1. q = r /\ l.waiters \in [Conds -> SUBSET Threads]
    BY <1>3 DEF Good, Locks
  <2>2. W \in SUBSET Threads /\ l.waiters[c] \subseteq W /\ t \in W
    BY <1>2, <2>1
  <2> HIDE DEF W, r
  <2>3. /\ Good(q) /\ q.waiting = l.waiting /\ q.owner = l.owner
        /\ q.waiters = [l.waiters EXCEPT ![c] = W]
    BY <1>2, <1>3, <2>2, WaitersFields
  <2> HIDE DEF q
  <2>4. A \in SUBSET Threads /\ \A u \in Threads \ A : u = t \/ u \notin available
    BY <1>2, <1>3 DEF Locks
  <2>5. \A u \in Threads \ A : Kept(u, lk, q)
    <3>1. \A u \in Threads \ A : u \notin old.waiting[m]
      BY <1>3
    <3>2. \A u \in Threads \ A : Kept(u, lk, l)
      BY <1>2, <1>3, <3>1, KeptTwice
    <3>3. \A u \in Threads : Kept(u, l, q)
      BY <2>1, <2>2, <2>3 DEF Kept
    <3> QED BY <3>2, <3>3, KeptTwice
  <2>6. /\ lk' = q /\ available' = A /\ prog' = prog /\ stack' = stack
        /\ AssumeBlocked' = AssumeBlocked /\ AwaitingJoin' = AwaitingJoin
        /\ error' = error /\ mem' = mem /\ blocking_awaits' = blocking_awaits
        /\ CurInst' = [CurInst EXCEPT ![t] = @ + 1]
        /\ pending_condvar_awake' = [pending_condvar_awake EXCEPT ![t] = c]
        /\ pending_mutex_lock' = [pending_mutex_lock EXCEPT ![t] = m]
    BY <1>5, <2>1 DEF Succeed, Advance, Pending
  <2> HIDE DEF A
  <2>7. TypeOK'
    BY <1>2, <2>3, <2>4, <2>6 DEF TypeOK, Good
  <2>8. AllWait'
    <3> SUFFICES ASSUME NEW u \in Threads, stack'[u] = "live", u \notin available'
                 PROVE  Waits(u)'
      BY DEF AllWait
    <3>1. CASE u = t
      <4>1. pending_condvar_awake'[t] = c /\ pending_mutex_lock'[t] = m /\ m # NULL
        BY <1>2, <2>6, OperandAssumption DEF TypeOK
      <4>2. t \in lk'.waiters[c]
        BY <1>2, <2>1, <2>2, <2>3, <2>6
      <4> QED BY <3>1, <4>1, <4>2, Zenon DEF Waits, CondBlocked
    <3>2. CASE u # t
      <4>1. stack[u] = "live" /\ u \notin available /\ Kept(u, lk, lk')
        BY <2>4, <2>5, <2>6, <3>2
      <4>2. /\ CurInst'[u] = CurInst[u]
            /\ pending_mutex_lock'[u] = pending_mutex_lock[u]
            /\ pending_condvar_awake'[u] = pending_condvar_awake[u]
        BY <1>2, <2>6, <3>2 DEF TypeOK
      <4> QED BY <2>6, <3>2, <4>1, <4>2, OthersWait, Zenon DEF Inv, JoinBlocked, AwaitBlocked
    <3> QED BY <3>1, <3>2
  <2> QED BY <1>2, <2>3, <2>6, <2>7, <2>8 DEF Inv, Good
<1> QED BY <1>1, <1>4, <1>5

(* A store, and the store of an exchange, wake those whose await it        *)
(* satisfies.                                                              *)
LEMMA StoreInv ==
  ASSUME Inv, NEW t \in Threads, visitStoreInst(t)
  PROVE  Inv'
<1> DEFINE x == I(t).ml
           v == I(t).val
           W == CheckAwaitWakeup(x, v)
           s == doPthreadCondAwake(t)
<1>1. /\ x \in Locations /\ v \in Values \cup {0} /\ Good(s)
      /\ ~error /\ t \in available /\ TypeOK /\ available \in SUBSET Threads
      /\ \A u \in Threads : Kept(u, lk, s)
  BY Running, Operands DEF visitStoreInst
<1>2. /\ mem' = [mem EXCEPT ![x] = v]
      /\ blocking_awaits' = blocking_awaits \ ({x} \X W)
      /\ lk' = s /\ available' = available \cup W /\ prog' = prog /\ stack' = stack
      /\ AssumeBlocked' = AssumeBlocked /\ AwaitingJoin' = AwaitingJoin
      /\ error' = error
      /\ CurInst' = [CurInst EXCEPT ![t] = @ + 1]
      /\ pending_condvar_awake' = [pending_condvar_awake EXCEPT ![t] = NULL]
      /\ pending_mutex_lock' = [pending_mutex_lock EXCEPT ![t] = NULL]
  BY DEF visitStoreInst, Succeed, Advance, Pending
<1>3. W \subseteq Threads
  BY DEF CheckAwaitWakeup
<1>4. \A u \in Threads : <<x, u>> \in blocking_awaits /\ u \notin W => v \notin I(u).cond
  BY DEF CheckAwaitWakeup
<1> HIDE DEF x, v, W, s
<1>5. TypeOK'
  BY <1>1, <1>2, <1>3 DEF TypeOK, Good
<1>6. AllWait'
  <2> SUFFICES ASSUME NEW u \in Threads, stack'[u] = "live", u \notin available'
               PROVE  Waits(u)'
    BY DEF AllWait
  <2>1. u # t /\ stack[u] = "live" /\ u \notin available /\ u \notin W /\ Kept(u, lk, lk')
    BY <1>1, <1>2
  <2>2. /\ CurInst'[u] = CurInst[u]
        /\ pending_mutex_lock'[u] = pending_mutex_lock[u]
        /\ pending_condvar_awake'[u] = pending_condvar_awake[u]
    BY <1>1, <1>2, <2>1 DEF TypeOK
  <2>3. ASSUME AwaitBlocked(u), <<I(u).ml, u>> \in blocking_awaits
        PROVE  mem'[I(u).ml] \notin I(u).cond /\ <<I(u).ml, u>> \in blocking_awaits'
    <3>1. <<I(u).ml, u>> \in blocking_awaits'
      BY <1>2, <2>1, <2>3
    <3>2. I(u).ml \in Locations /\ mem[I(u).ml] \notin I(u).cond
      <4>1. I(u).op = "load_await" \/ I(u).op = "xchg_await"
        BY <2>3 DEF AwaitBlocked
      <4> QED BY <1>1, <2>3, <4>1, Operands DEF AwaitBlocked
    <3>3. mem'[I(u).ml] = IF I(u).ml = x THEN v ELSE mem[I(u).ml]
      BY <1>1, <1>2, <3>2 DEF TypeOK
    <3> QED BY <1>4, <2>1, <2>3, <3>1, <3>2, <3>3
  <2> QED BY <1>2, <2>1, <2>2, <2>3, OthersWait, Zenon DEF Inv, JoinBlocked
<1> QED BY <1>1, <1>2, <1>5, <1>6 DEF Inv, Good

(* A load.                                                                 *)
LEMMA LoadInv ==
  ASSUME Inv, NEW t \in Threads, visitLoadInst(t)
  PROVE  Inv'
<1> DEFINE s == doPthreadCondAwake(t)
<1>1. /\ Good(s) /\ ~error /\ t \in available /\ available \in SUBSET Threads
      /\ \A u \in Threads : Kept(u, lk, s)
  BY Running DEF visitLoadInst
<1>2. Works(t, FALSE, s, available)
  BY Zenon DEF visitLoadInst
<1> HIDE DEF s
<1> QED BY <1>1, <1>2, WorksInv, Zenon

(* Create, join, assume and return: a thread that joins one which ends is  *)
(* woken, one that joins a thread blocked in an assume waits forever.      *)
LEMMA ThreadCallInv ==
  ASSUME Inv, NEW t \in Threads, visitThreadCall(t)
  PROVE  Inv'
<1> DEFINE s == doPthreadCondAwake(t)
<1>1. t \in available
  BY DEF visitThreadCall, callPthreadCreate, callPthreadJoin, callAssume, Return, Executes
<1>2. /\ Good(s) /\ ~error /\ TypeOK /\ AllWait /\ available \in SUBSET Threads
      /\ \A u \in Threads : Kept(u, lk, s)
  BY <1>1, Scheduled, AwakeGood DEF visitThreadCall, Inv
<1>3. /\ lk' = s /\ mem' = mem /\ blocking_awaits' = blocking_awaits /\ error' = error
      /\ pending_condvar_awake' = [pending_condvar_awake EXCEPT ![t] = NULL]
      /\ pending_mutex_lock' = [pending_mutex_lock EXCEPT ![t] = NULL]
  BY DEF visitThreadCall, Pending
<1> HIDE DEF s
<1> DEFINE Calls ==
      /\ prog' = prog /\ AwaitingJoin' = AwaitingJoin
      /\ CurInst' \in [Threads -> Nat \ {0}]
      /\ stack' \in [Threads -> {"unborn", "live", "empty"}]
      /\ AssumeBlocked' \subseteq Threads /\ available' \subseteq Threads
      /\ t \in available' \/ stack'[t] = "empty"
      /\ \A u \in Threads \ {t} : CurInst'[u] = CurInst[u]
      /\ \A u \in Threads \ {t} : stack'[u] = "live" /\ u \notin available' =>
           stack[u] = "live" /\ u \notin available
      /\ \A u \in Threads \ {t}, v \in Threads :
           /\ u \notin available' /\ u \in AwaitingJoin[v]
           /\ stack[v] = "live" \/ v \in AssumeBlocked
           => stack'[v] = "live" \/ v \in AssumeBlocked'
<1>4. ASSUME callPthreadCreate(t) PROVE Calls
  <2>1. I(t).tid \in Threads
    BY <1>2, <1>4, Operands DEF callPthreadCreate, Executes
  <2> QED BY <1>1, <1>2, <1>4, <2>1 DEF callPthreadCreate, Advance, TypeOK
<1>5. ASSUME callPthreadJoin(t) PROVE Calls
  BY <1>1, <1>2, <1>5 DEF callPthreadJoin, Advance, TypeOK
<1>6. ASSUME callAssume(t) PROVE Calls
  BY <1>1, <1>2, <1>6 DEF callAssume, TypeOK
<1>7. ASSUME Return(t, AwaitingJoin[t]) PROVE Calls
  BY <1>1, <1>2, <1>7 DEF Return, Ended, TypeOK
<1>8. Calls
  BY <1>4, <1>5, <1>6, <1>7, Zenon DEF visitThreadCall
<1> HIDE DEF Calls
<1>9. TypeOK'
  BY <1>2, <1>3, <1>8, Zenon DEF TypeOK, Good, Calls
<1>10. AllWait'
  <2> SUFFICES ASSUME NEW u \in Threads, stack'[u] = "live", u \notin available'
               PROVE  Waits(u)'
    BY DEF AllWait
  <2>1. u # t
    BY <1>8 DEF Calls
  <2>2. /\ prog' = prog /\ AwaitingJoin' = AwaitingJoin
        /\ stack[u] = "live" /\ u \notin available /\ CurInst'[u] = CurInst[u]
        /\ Kept(u, lk, lk')
    BY <1>2, <1>3, <1>8, <2>1 DEF Calls
  <2>3. /\ pending_mutex_lock'[u] = pending_mutex_lock[u]
        /\ pending_condvar_awake'[u] = pending_condvar_awake[u]
    BY <1>2, <1>3, <2>1 DEF TypeOK
  <2>4. JoinBlocked(u) /\ u \in AwaitingJoin[I(u).tid] =>
          stack'[I(u).tid] = "live" \/ I(u).tid \in AssumeBlocked'
    <3>1. JoinBlocked(u) => I(u).tid \in Threads
      BY <1>2, Operands DEF JoinBlocked
    <3> QED BY <1>8, <2>1, <3>1 DEF Calls, JoinBlocked
  <2> QED BY <1>2, <1>3, <2>1, <2>2, <2>3, <2>4, OthersWait, Zenon DEF AwaitBlocked
<1> QED BY <1>2, <1>3, <1>9, <1>10 DEF Inv, Good

(* Init establishes the invariant.                                         *)
LEMMA InitInv == Init => Inv
<1> SUFFICES ASSUME Init PROVE Inv
  OBVIOUS
<1>1. lk \in Locks /\ Agree(lk)
  <2> DEFINE e == prog \in CheckedPrograms
  <2>1. e \in BOOLEAN
    OBVIOUS
  <2>2. lk = [PthreadMutexes |-> {}, owner |-> [m \in Mutexes |-> -1],
              waiting |-> [m \in Mutexes |-> {}],
              mutexes |-> {}, locked |-> {}, last_lock |-> [m \in Mutexes |-> -1],
              cond_vars |-> {}, waiters |-> [c \in Conds |-> {}],
              mutex_require_init |-> e]
    BY DEF Init
  <2> HIDE DEF e
  <2> QED BY <2>1, <2>2 DEF Locks, Agree
<1>2. TypeOK
  <2>1. /\ prog \in Programs /\ AssumeBlocked \subseteq Threads /\ available \subseteq Threads
        /\ CurInst \in [Threads -> Nat \ {0}]
        /\ stack \in [Threads -> {"unborn", "live", "empty"}]
        /\ AwaitingJoin \in [Threads -> SUBSET Threads]
    BY ProgramAssumption DEF Init, ThreadInit
  <2>2. /\ pending_mutex_lock \in [Threads -> Mutexes \cup {NULL}]
        /\ DOMAIN pending_condvar_awake = Threads
        /\ \A t \in Threads : pending_mutex_lock[t] = NULL
    BY DEF Init
  <2>3. mem \in [Locations -> Values \cup {0}]
    BY DEF Init
  <2> QED BY <1>1, <2>1, <2>2, <2>3, Zenon DEF TypeOK
<1>3. AllWait
  BY ProgramAssumption DEF Init, ThreadInit, AllWait
<1> QED BY <1>1, <1>2, <1>3 DEF Init, Inv

(* Every step keeps it.                                                    *)
LEMMA NextInv == Inv /\ [Next]_vars => Inv'
<1> SUFFICES ASSUME Inv, [Next]_vars PROVE Inv'
  OBVIOUS
<1>1. ASSUME NEW t \in Threads, Step(t) PROVE Inv'
  BY <1>1, RefusedInv, AwakeFailsInv, MutexInitInv, MutexLockInv, MutexTryLockInv,
     MutexUnlockInv, MutexDestroyInv, CondInitInv, CondSignalInv, CondBroadcastInv,
     CondWaitInv, CondDestroyInv, StoreInv, LoadInv, ThreadCallInv DEF Step
<1>2. CASE UNCHANGED vars
  <2>1. TypeOK' /\ (IF error THEN available = {} ELSE Agree(lk))'
    BY <1>2 DEF Inv, TypeOK, vars, threadVars, pendVars, Agree
  <2>2. AllWait'
    BY <1>2, ZenonT(60) DEF Inv, AllWait, Waits, JoinBlocked, isPthreadMutexLock, AwaitBlocked,
                CondBlocked, MayDestroy, I, vars, threadVars, pendVars
  <2> QED BY <2>1, <2>2 DEF Inv
<1> QED BY <1>1, <1>2 DEF Next
-----------------------------------------------------------------------------

(* The invariant holds throughout every execution of every program.        *)
THEOREM Invariance == Spec => []Inv
BY InitInv, NextInv, PTL DEF Spec

(* RecordsAgree: as long as no error is reported, the mutexes that the     *)
(* interpreter knows, their locks and their owners are the TraceBuilder's. *)
THEOREM RecordsAlwaysAgree == Spec => []RecordsAgree
<1>1. Inv => RecordsAgree
  BY DEF Inv, Agree, RecordsAgree
<1> QED BY <1>1, Invariance, PTL

(* A live thread that may not be scheduled is one that would be refused,   *)
(* or that is in the queue of the condition variable it waits for, unless  *)
(* the program destroys that condition variable.                           *)
WaitsForSomething ==
  \A t \in Threads : stack[t] = "live" /\ t \notin available =>
    \/ checkRefuse(t) \/ CondBlocked(t)
    \/ pending_mutex_lock[t] # NULL /\ MayDestroy(pending_condvar_awake[t])

(* No unlock, signal, broadcast, store or return loses a wake-up: the      *)
(* safety part of Terminates, in every state and not only at the end.      *)
THEOREM NoWakeupIsLost == Spec => []WaitsForSomething
<1>1. Inv => WaitsForSomething
  BY Zenon DEF Inv, AllWait, Waits, WaitsForSomething, checkRefuse, MutexBlocked
<1> QED BY <1>1, Invariance, PTL
=============================================================================
