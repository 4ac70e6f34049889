-------------------- MODULE PthreadsOwnership_proofs --------------------
(***************************************************************************)
(* Proofs about Pthreads, for programs that pair their locks and unlocks:  *)
(* a mutex is owned by the one thread that is between its lock and its     *)
(* unlock, and only misuse is reported as an error.                        *)
(***************************************************************************)
EXTENDS Pthreads_proofs, FiniteSetTheorems

(* The provers that a leaf is tried with, unless it names its own.         *)
USE SMTT(60), Z3T(60), Zenon

-----------------------------------------------------------------------------
(* Errors.                                                                 *)

(* No thread completes a wait by initialising the condition variable anew. *)
(* cond_awake() creates a condition variable that was destroyed after the  *)
(* wake-up, so that its cond_init() is reported as a second one.           *)
NeverRevives ==
  \A t \in Threads : pending_mutex_lock[t] # NULL /\ I(t).op = "cond_init" =>
    I(t).c # pending_condvar_awake[t]

(* What the instruction reads of the records is what they held before      *)
(* the wait was completed, but for the mutex and the condition variable    *)
(* of that wait.                                                           *)
LEMMA AwakeReads ==
  ASSUME TypeOK, Agree(lk), NEW t \in Threads
  PROVE  LET r == doPthreadCondAwake(t) IN
         /\ r \in Locks
         /\ r.PthreadMutexes = lk.PthreadMutexes
         /\ r.mutex_require_init = lk.mutex_require_init
         /\ lk.cond_vars \subseteq r.cond_vars /\ lk.mutexes \subseteq r.mutexes
         /\ \A c \in r.cond_vars : c \in lk.cond_vars \/
              (pending_mutex_lock[t] # NULL /\ c = pending_condvar_awake[t])
         /\ \A m \in Mutexes : pending_mutex_lock[t] # m =>
              r.owner[m] = lk.owner[m] /\ r.last_lock[m] = lk.last_lock[m]
         /\ \A m \in Mutexes : pending_mutex_lock[t] = m =>
              r.owner[m] = t /\ r.last_lock[m] = t /\ m \in r.mutexes
<1> DEFINE r == doPthreadCondAwake(t)
           p == pending_mutex_lock[t]
           d == pending_condvar_awake[t]
<1>1. CASE p = NULL
  <2>1. r = lk /\ lk \in Locks /\ NULL \notin Mutexes
    BY <1>1, AwakeFields, OperandAssumption, Zenon DEF TypeOK
  <2> QED BY <1>1, <2>1
<1>2. CASE p # NULL
  <2>1. /\ r \in Locks /\ lk \in Locks /\ p \in Mutexes
        /\ r.PthreadMutexes = lk.PthreadMutexes
        /\ r.mutex_require_init = lk.mutex_require_init
        /\ r.owner = [lk.owner EXCEPT ![p] = t]
        /\ r.cond_vars = lk.cond_vars \cup {d}
        /\ r.mutexes = lk.mutexes \cup {p}
        /\ r.last_lock = [lk.last_lock EXCEPT ![p] = t]
    BY <1>2, AwakeFields, Zenon DEF TypeOK
  <2>2. /\ lk.owner \in [Mutexes -> Threads \cup {-1}]
        /\ lk.last_lock \in [Mutexes -> Threads \cup {-1}]
    BY <2>1 DEF Locks
  <2> HIDE DEF r, p, d
  <2>3. /\ \A m \in Mutexes : p # m => r.owner[m] = lk.owner[m] /\ r.last_lock[m] = lk.last_lock[m]
        /\ r.owner[p] = t /\ r.last_lock[p] = t
    BY <2>1, <2>2
  <2> QED BY <1>2, <2>1, <2>3 DEF r, p, d
<1> QED BY <1>1, <1>2

(* A step of t that reports an error is a misuse by t.                     *)
LEMMA ErrorIsMisuse ==
  ASSUME Inv, OwnerHolds, NeverRevives, NEW t \in Threads, Step(t), ~error, error'
  PROVE  t \in available /\ Misuse(t)
<1> DEFINE r == doPthreadCondAwake(t)
           i == I(t)
<1>0. TypeOK /\ Agree(lk) /\ lk \in Locks
  BY DEF Inv, TypeOK
<1>1. /\ r \in Locks
      /\ r.PthreadMutexes = lk.PthreadMutexes
      /\ r.mutex_require_init = lk.mutex_require_init
      /\ lk.cond_vars \subseteq r.cond_vars /\ lk.mutexes \subseteq r.mutexes
      /\ \A c \in r.cond_vars : c \in lk.cond_vars \/
           (pending_mutex_lock[t] # NULL /\ c = pending_condvar_awake[t])
      /\ \A m \in Mutexes : pending_mutex_lock[t] # m =>
           r.owner[m] = lk.owner[m] /\ r.last_lock[m] = lk.last_lock[m]
      /\ \A m \in Mutexes : pending_mutex_lock[t] = m =>
           r.owner[m] = t /\ r.last_lock[m] = t /\ m \in r.mutexes
  BY <1>0, AwakeReads
<1>2. \A m \in Mutexes, u \in Threads : lk.owner[m] = u => Holds(u, m)
  BY DEF OwnerHolds
<1>3. \A m \in Mutexes, u \in Threads : Holds(u, m) => lk.owner[m] = u
  BY DEF OwnerHolds
<1> HIDE DEF r
<1>4. CASE AwakeFails(t)
  BY <1>4 DEF AwakeFails, Misuse
<1>5. CASE callPthreadMutexInit(t)
  <2>1. t \in available /\ i.op = "mutex_init" /\ i.m \in Mutexes
    BY <1>0, <1>5, Operands DEF callPthreadMutexInit, Runs, Executes
  <2>2. i.m \in mutex_init(r, i.m).PthreadMutexes
    BY <1>5, Zenon DEF callPthreadMutexInit, Fails, Works, Succeed, r
  <2>3. mutex_init(r, i.m).PthreadMutexes = r.PthreadMutexes
    BY <1>1 DEF mutex_init, Locks
  <2> QED BY <1>1, <2>1, <2>2, <2>3 DEF Misuse
<1>6. CASE callPthreadMutexLock(t)
  <2>1. t \in available /\ i.op = "lock" /\ i.m \in Mutexes
    BY <1>0, <1>6, Operands DEF callPthreadMutexLock, Runs, Executes
  <2>2. Uninitialized(mutex_lock(r, t, i.m), i.m)
    BY <1>6, Zenon DEF callPthreadMutexLock, Fails, Works, Succeed, r
  <2>3. LET s == mutex_lock(r, t, i.m) IN
          s.PthreadMutexes = r.PthreadMutexes /\ s.mutex_require_init = r.mutex_require_init
    BY <1>1, <2>1, LockFields, Zenon
  <2>4. Uninitialized(r, i.m)
    BY <2>2, <2>3 DEF Uninitialized
  <2> QED BY <1>1, <2>1, <2>4 DEF Misuse, Uninitialized

<1>7. CASE callPthreadMutexTryLock(t)
  <2>1. t \in available /\ i.op = "trylock" /\ i.m \in Mutexes
    BY <1>0, <1>7, Operands DEF callPthreadMutexTryLock, Runs, Executes
  <2>2. Uninitialized(mutex_trylock(r, t, i.m), i.m)
    BY <1>7, Zenon DEF callPthreadMutexTryLock, Fails, Works, Succeed, r
  <2>3. LET s == mutex_lock(r, t, i.m) IN
          s.PthreadMutexes = r.PthreadMutexes /\ s.mutex_require_init = r.mutex_require_init
    BY <1>1, <2>1, LockFields, Zenon
  <2>4. Uninitialized(r, i.m)
    BY <2>2, <2>3 DEF Uninitialized, mutex_trylock
  <2> QED BY <1>1, <2>1, <2>4 DEF Misuse, Uninitialized
<1>8. CASE callPthreadMutexUnlock(t)
  <2>1. t \in available /\ i.op = "unlock" /\ i.m \in Mutexes
    BY <1>0, <1>8, Operands, Zenon DEF callPthreadMutexUnlock, Runs, Executes
  <2> DEFINE s == mutex_unlock(r, i.m)
  <2>2. Uninitialized(s, i.m) \/ s.owner[i.m] # t
    BY <1>8, Zenon DEF callPthreadMutexUnlock, Fails, Works, Succeed, r
  <2>3. /\ s.owner = r.owner /\ s.PthreadMutexes = r.PthreadMutexes
        /\ s.mutex_require_init = r.mutex_require_init
    BY <1>1, <2>1, UnlockFields
  <2> HIDE DEF s
  <2>4. CASE Uninitialized(s, i.m)
    BY <1>1, <2>1, <2>3, <2>4 DEF Misuse, Uninitialized
  <2>5. CASE s.owner[i.m] # t
    <3>1. pending_mutex_lock[t] # i.m /\ ~Holds(t, i.m)
      BY <1>1, <1>3, <2>1, <2>3, <2>5
    <3> QED BY <2>1, <3>1 DEF Misuse, HoldsThen
  <2> QED BY <2>2, <2>4, <2>5
<1>9. CASE callPthreadMutexDestroy(t)
  <2>1. t \in available /\ i.op = "mutex_destroy" /\ i.m \in Mutexes
    BY <1>0, <1>9, Operands DEF callPthreadMutexDestroy, Runs, Executes
  <2> DEFINE s == mutex_destroy(r, i.m)
  <2>2. Uninitialized(s, i.m) \/ s.owner[i.m] # -1
    BY <1>9, Zenon DEF callPthreadMutexDestroy, Fails, Works, Succeed, r
  <2>3. /\ s.owner = r.owner /\ s.PthreadMutexes = r.PthreadMutexes
        /\ s.mutex_require_init = r.mutex_require_init
    BY <1>1 DEF mutex_destroy, Locks
  <2> HIDE DEF s
  <2>4. CASE Uninitialized(s, i.m)
    BY <1>1, <2>1, <2>3, <2>4 DEF Misuse, Uninitialized
  <2>5. CASE s.owner[i.m] # -1
    <3>1. pending_mutex_lock[t] = i.m \/ lk.owner[i.m] # -1
      BY <1>1, <2>1, <2>3, <2>5
    <3>2. lk.owner[i.m] \in Threads \cup {-1}
      BY <1>0, <2>1 DEF Locks
    <3>3. HoldsThen(t, i.m) \/ \E u \in Threads : Holds(u, i.m)
      BY <1>2, <2>1, <3>1, <3>2 DEF HoldsThen
    <3> QED BY <2>1, <3>3 DEF Misuse
  <2> QED BY <2>2, <2>4, <2>5
<1>10. CASE callPthreadCondInit(t)
  <2>1. t \in available /\ i.op = "cond_init" /\ i.c \in r.cond_vars
    BY <1>10, Zenon DEF callPthreadCondInit, Runs, Executes, Fails, Works, Succeed, r
  <2>2. i.c \in lk.cond_vars
    BY <1>1, <2>1 DEF NeverRevives
  <2> QED BY <2>1, <2>2 DEF Misuse
<1>11. CASE callPthreadCondSignal(t) \/ callPthreadCondBroadcast(t) \/ callPthreadCondDestroy(t)
  <2>1. /\ t \in available /\ i.op \in {"signal", "broadcast", "cond_destroy"}
        /\ i.c \notin r.cond_vars
    BY <1>11, Zenon DEF callPthreadCondSignal, callPthreadCondBroadcast, callPthreadCondDestroy,
                 Runs, Executes, Fails, Works, Succeed, r
  <2> QED BY <1>1, <2>1 DEF Misuse
<1>12. CASE callPthreadCondWait(t)
  <2>1. t \in available /\ i.op = "wait" /\ i.m \in Mutexes
    BY <1>0, <1>12, Operands DEF callPthreadCondWait, Runs, Executes
  <2> DEFINE s == mutex_unlock(r, i.m)
  <2>2. i.m \notin r.mutexes \/ r.last_lock[i.m] # t \/ i.c \notin s.cond_vars
    BY <1>12, Zenon DEF callPthreadCondWait, Fails, Succeed, r
  <2>3. s.cond_vars = r.cond_vars
    BY <1>1, <2>1, UnlockFields
  <2> HIDE DEF s
  <2>4. CASE i.m \notin r.mutexes \/ r.last_lock[i.m] # t
    <3>1. pending_mutex_lock[t] # i.m
      BY <1>1, <2>1, <2>4
    <3>2. lk.owner[i.m] # t
      <4>1. -1 # t
        BY OperandAssumption
      <4> QED BY <1>0, <1>1, <2>1, <2>4, <3>1, <4>1 DEF Agree
    <3>3. ~HoldsThen(t, i.m)
      BY <1>3, <2>1, <3>1, <3>2 DEF HoldsThen
    <3> QED BY <2>1, <3>3 DEF Misuse
  <2>5. CASE i.c \notin s.cond_vars
    BY <1>1, <2>1, <2>3, <2>5 DEF Misuse
  <2> QED BY <2>2, <2>4, <2>5
<1>13. CASE \/ RefusedJoin(t) \/ RefusedLock(t) \/ RefusedAwait(t)
            \/ visitStoreInst(t) \/ visitLoadInst(t) \/ visitThreadCall(t)
  BY <1>13, Zenon DEF RefusedJoin, RefusedLock, RefusedAwait, visitStoreInst, visitLoadInst,
               visitThreadCall, Works, Succeed
<1> QED BY <1>4, <1>5, <1>6, <1>7, <1>8, <1>9, <1>10, <1>11, <1>12, <1>13 DEF Step
-----------------------------------------------------------------------------
(* Mutual exclusion, for programs that pair their locks and unlocks.       *)

(* How many of t's first n - 1 instructions are op on m.                   *)
Done(p, t, n, m, op) ==
  Cardinality({k \in 1..(n - 1) : p[t][k].op = op /\ p[t][k].m = m})

Balance(p, t, n, m) ==
  Done(p, t, n, m, "lock") + Done(p, t, n, m, "trylock") - Done(p, t, n, m, "unlock")

LocksBefore(p, t, n, m) ==
  \E k \in 1..(n - 1) : p[t][k].op \in {"lock", "trylock"} /\ p[t][k].m = m

(* A failed trylock skips the unlock that belongs to it, a thread waits    *)
(* with a mutex it holds, or one it never locked, and the instruction      *)
(* after a wait, with which run() completes it, is neither a lock, which   *)
(* checkRefuse() would not look at, nor a cond_init.                       *)
Disciplined(p) ==
  \A t \in Threads : \A i \in 1..Len(p[t]) :
    /\ p[t][i].op = "trylock" =>
         \A m \in Mutexes : Balance(p, t, i + 1 + p[t][i].skip, m) = Balance(p, t, i, m)
    /\ p[t][i].op = "wait" => \/ Balance(p, t, i, p[t][i].m) > 0
                              \/ ~LocksBefore(p, t, i, p[t][i].m)
    /\ i > 1 /\ p[t][i].op \in {"lock", "cond_init"} => p[t][i - 1].op # "wait"

(* What t holds of m, in the program and in the records.                   *)
OwnedBy(t, m) ==
  LET b == Balance(prog, t, CurInst[t], m) IN
  /\ b \in {0, 1}
  /\ lk.owner[m] = t <=> b = 1 /\ pending_mutex_lock[t] # m
  /\ pending_mutex_lock[t] = m => b = 1
  /\ lk.last_lock[m] = t \/ pending_mutex_lock[t] = m =>
       LocksBefore(prog, t, CurInst[t], m)

(* A thread has a pending lock only right after a wait.                    *)
AfterWait(t) ==
  pending_mutex_lock[t] # NULL =>
    CurInst[t] > 1 /\ prog[t][CurInst[t] - 1].op = "wait"

Owned ==
  /\ Disciplined(prog)
  /\ ~error => /\ \A t \in Threads : \A m \in Mutexes : OwnedBy(t, m)
               /\ \A t \in Threads : AfterWait(t)

(* Counting one instruction more.                                          *)
LEMMA DoneNext ==
  ASSUME NEW p, NEW t, NEW n \in Nat \ {0}, NEW m, NEW op
  PROVE  /\ Done(p, t, n, m, op) \in Nat
         /\ Done(p, t, n + 1, m, op) = Done(p, t, n, m, op)
              + (IF p[t][n].op = op /\ p[t][n].m = m THEN 1 ELSE 0)
<1> DEFINE S(l) == {k \in 1..(l - 1) : p[t][k].op = op /\ p[t][k].m = m}
<1>1. IsFiniteSet(1..(n - 1))
  BY FS_Interval
<1>2. IsFiniteSet(S(n))
  BY <1>1, FS_Subset
<1>3. Cardinality(S(n)) \in Nat
  BY <1>2, FS_CardinalityType
<1>4. n \notin S(n)
  OBVIOUS
<1>5. CASE p[t][n].op = op /\ p[t][n].m = m
  <2>1. S(n + 1) = S(n) \cup {n}
    BY <1>5
  <2>2. Cardinality(S(n) \cup {n}) = Cardinality(S(n)) + 1
    BY <1>2, <1>4, FS_AddElement, Zenon
  <2> QED BY <1>3, <1>5, <2>1, <2>2, Zenon DEF Done
<1>6. CASE ~(p[t][n].op = op /\ p[t][n].m = m)
  <2>1. S(n + 1) = S(n)
    BY <1>6
  <2> QED BY <1>3, <1>6, <2>1 DEF Done
<1> QED BY <1>5, <1>6

(* One lock more, one unlock more, or neither.                             *)
LEMMA BalanceNext ==
  ASSUME NEW p, NEW t, NEW n \in Nat \ {0}, NEW m
  PROVE  /\ Balance(p, t, n, m) \in Int
         /\ p[t][n].op \in {"lock", "trylock"} /\ p[t][n].m = m =>
              Balance(p, t, n + 1, m) = Balance(p, t, n, m) + 1
         /\ p[t][n].op = "unlock" /\ p[t][n].m = m =>
              Balance(p, t, n + 1, m) = Balance(p, t, n, m) - 1
         /\ ~(p[t][n].op \in {"lock", "trylock", "unlock"} /\ p[t][n].m = m) =>
              Balance(p, t, n + 1, m) = Balance(p, t, n, m)
<1> DEFINE D(l, op) == Done(p, t, l, m, op)
           F(op) == IF p[t][n].op = op /\ p[t][n].m = m THEN 1 ELSE 0
<1>0. ASSUME NEW op
      PROVE  D(n, op) \in Nat /\ D(n + 1, op) = D(n, op) + F(op)
  BY DoneNext
<1>1. D(n, "lock") \in Nat /\ D(n + 1, "lock") = D(n, "lock") + F("lock")
  BY <1>0, Zenon
<1>2. D(n, "trylock") \in Nat /\ D(n + 1, "trylock") = D(n, "trylock") + F("trylock")
  BY <1>0, Zenon
<1>3. D(n, "unlock") \in Nat /\ D(n + 1, "unlock") = D(n, "unlock") + F("unlock")
  BY <1>0, Zenon
<1>4. /\ Balance(p, t, n, m) = D(n, "lock") + D(n, "trylock") - D(n, "unlock")
      /\ Balance(p, t, n + 1, m) = D(n + 1, "lock") + D(n + 1, "trylock") - D(n + 1, "unlock")
  BY DEF Balance
<1>5. /\ F("lock") \in {0, 1} /\ F("trylock") \in {0, 1} /\ F("unlock") \in {0, 1}
      /\ p[t][n].op \in {"lock", "trylock"} /\ p[t][n].m = m =>
           F("lock") + F("trylock") = 1 /\ F("unlock") = 0
      /\ p[t][n].op = "unlock" /\ p[t][n].m = m =>
           F("lock") = 0 /\ F("trylock") = 0 /\ F("unlock") = 1
      /\ ~(p[t][n].op \in {"lock", "trylock", "unlock"} /\ p[t][n].m = m) =>
           F("lock") = 0 /\ F("trylock") = 0 /\ F("unlock") = 0
  OBVIOUS
<1> HIDE DEF D, F
<1>6. CASE p[t][n].op \in {"lock", "trylock"} /\ p[t][n].m = m
  BY <1>1, <1>2, <1>3, <1>4, <1>5, <1>6
<1>7. CASE p[t][n].op = "unlock" /\ p[t][n].m = m
  BY <1>1, <1>2, <1>3, <1>4, <1>5, <1>7
<1>8. CASE ~(p[t][n].op \in {"lock", "trylock", "unlock"} /\ p[t][n].m = m)
  BY <1>1, <1>2, <1>3, <1>4, <1>5, <1>8
<1> QED BY <1>6, <1>7, <1>8

(* What has been locked before stays so.                                   *)
LEMMA LocksBeforeNext ==
  ASSUME NEW p, NEW t, NEW n \in Nat \ {0}, NEW l \in Nat \ {0}, l >= n, NEW m
  PROVE  /\ LocksBefore(p, t, n, m) => LocksBefore(p, t, l, m)
         /\ l > n /\ p[t][n].op \in {"lock", "trylock"} /\ p[t][n].m = m =>
              LocksBefore(p, t, l, m)
BY DEF LocksBefore

(* In particular when one instruction more has been executed.              *)
LEMMA LocksBeforeOneMore ==
  ASSUME NEW p, NEW t, NEW n \in Nat \ {0}, NEW m
  PROVE  LocksBefore(p, t, n, m) => LocksBefore(p, t, n + 1, m)
<1>1. n + 1 \in Nat \ {0} /\ n + 1 >= n
  OBVIOUS
<1> QED BY <1>1, LocksBeforeNext, Zenon

(* OwnerHolds counts the same instructions.                                *)
LEMMA HoldsIs ==
  ASSUME TypeOK, NEW t \in Threads, NEW m
  PROVE  Holds(t, m) <=> Balance(prog, t, CurInst[t], m) > 0 /\ pending_mutex_lock[t] # m
<1> DEFINE D(op) == Done(prog, t, CurInst[t], m, op)
<1>1. CurInst[t] \in Nat \ {0}
  BY DEF TypeOK
<1>2. D("lock") \in Nat /\ D("trylock") \in Nat /\ D("unlock") \in Nat
  BY <1>1, DoneNext, Zenon
<1>3. Holds(t, m) <=> D("lock") + D("trylock") > D("unlock") /\ pending_mutex_lock[t] # m
  BY DEF Holds, Done
<1>4. Balance(prog, t, CurInst[t], m) = D("lock") + D("trylock") - D("unlock")
  BY DEF Balance
<1> HIDE DEF D
<1> QED BY <1>2, <1>3, <1>4

(* The instruction that a thread executes, and the count after it.         *)
LEMMA Counted ==
  ASSUME TypeOK, NEW t \in Threads, I(t).op # "ret"
  PROVE  /\ CurInst[t] \in Nat \ {0} /\ CurInst[t] \in 1..Len(prog[t])
         /\ I(t) = prog[t][CurInst[t]]
BY ProgramAssumption DEF TypeOK, I

(* Once the wait is completed, the thread owns what it holds by its        *)
(* program, and the other threads own what they did.                       *)
LEMMA AwakeOwned ==
  ASSUME Inv, Owned, NEW t \in Threads, t \in available, Proceeds(t)
  PROVE  LET r == doPthreadCondAwake(t) IN
         /\ \A m \in Mutexes : /\ Balance(prog, t, CurInst[t], m) \in {0, 1}
                               /\ r.owner[m] = t <=> Balance(prog, t, CurInst[t], m) = 1
                               /\ r.last_lock[m] = t => LocksBefore(prog, t, CurInst[t], m)
         /\ \A m \in Mutexes, u \in Threads \ {t} :
              /\ r.owner[m] = u <=> lk.owner[m] = u
              /\ r.last_lock[m] = u => lk.last_lock[m] = u
<1> DEFINE r == doPthreadCondAwake(t)
           p == pending_mutex_lock[t]
<1>0. ~error /\ TypeOK /\ Agree(lk)
  BY Scheduled
<1>1. /\ \A m \in Mutexes : p # m =>
           r.owner[m] = lk.owner[m] /\ r.last_lock[m] = lk.last_lock[m]
      /\ \A m \in Mutexes : p = m => r.owner[m] = t /\ r.last_lock[m] = t
  BY <1>0, AwakeReads, Zenon
<1>2. \A m \in Mutexes : p = m => lk.owner[m] = -1
  BY OperandAssumption DEF Proceeds, checkRefuse, MutexBlocked, isPthreadMutexLock
<1>3. \A m \in Mutexes : OwnedBy(t, m)
  BY <1>0 DEF Owned
<1>4. -1 \notin Threads
  BY OperandAssumption
<1> HIDE DEF r
<1>5. ASSUME NEW m \in Mutexes
      PROVE  /\ Balance(prog, t, CurInst[t], m) \in {0, 1}
             /\ r.owner[m] = t <=> Balance(prog, t, CurInst[t], m) = 1
             /\ r.last_lock[m] = t => LocksBefore(prog, t, CurInst[t], m)
  BY <1>1, <1>3, Zenon DEF OwnedBy
<1>6. ASSUME NEW m \in Mutexes, NEW u \in Threads \ {t}
      PROVE  /\ r.owner[m] = u <=> lk.owner[m] = u
             /\ r.last_lock[m] = u => lk.last_lock[m] = u
  BY <1>1, <1>2, <1>4
<1> QED BY <1>5, <1>6 DEF r

(* A step changes what its own thread holds.                               *)
LEMMA OwnedNext ==
  ASSUME Inv, Owned, NEW t \in Threads, ~error, prog' = prog,
         \A u \in Threads \ {t} : CurInst'[u] = CurInst[u]
                                  /\ pending_mutex_lock'[u] = pending_mutex_lock[u],
         \A m \in Mutexes, u \in Threads \ {t} :
           /\ lk'.owner[m] = u <=> lk.owner[m] = u
           /\ lk'.last_lock[m] = u => lk.last_lock[m] = u,
         \A m \in Mutexes : OwnedBy(t, m)',
         AfterWait(t)'
  PROVE  Owned'
<1>1. ASSUME NEW u \in Threads, NEW m \in Mutexes
      PROVE  OwnedBy(u, m)'
  <2>1. CASE u = t
    BY <2>1
  <2>2. CASE u # t
    <3>1. OwnedBy(u, m)
      BY DEF Owned
    <3>2. CurInst'[u] = CurInst[u] /\ pending_mutex_lock'[u] = pending_mutex_lock[u]
      BY <2>2
    <3>3. /\ lk'.owner[m] = u <=> lk.owner[m] = u
          /\ lk'.last_lock[m] = u => lk.last_lock[m] = u
      BY <2>2
    <3> QED BY <3>1, <3>2, <3>3 DEF OwnedBy
  <2> QED BY <2>1, <2>2
<1>2. ASSUME NEW u \in Threads PROVE AfterWait(u)'
  BY Zenon DEF Owned, AfterWait
<1> QED BY <1>1, <1>2, Zenon DEF Owned, Disciplined

(* An instruction that neither locks nor unlocks, once its wait is         *)
(* completed, or a trylock that fails.                                     *)
LEMMA NeutralOwned ==
  ASSUME Inv, Owned, NEW t \in Threads, t \in available, Proceeds(t),
         prog' = prog, CurInst' \in [Threads -> Nat \ {0}],
         \A u \in Threads \ {t} : CurInst'[u] = CurInst[u],
         Pending(t, NULL, NULL),
         \A m \in Mutexes :
           /\ lk'.owner[m] = doPthreadCondAwake(t).owner[m]
           /\ lk'.last_lock[m] \in {doPthreadCondAwake(t).last_lock[m], -1},
         CurInst'[t] >= CurInst[t],
         \A m \in Mutexes : Balance(prog, t, CurInst'[t], m) = Balance(prog, t, CurInst[t], m)
  PROVE  Owned'
<1> DEFINE r == doPthreadCondAwake(t)
<1>0. ~error /\ TypeOK /\ Agree(lk) /\ NULL \notin Mutexes /\ -1 \notin Threads
  BY Scheduled, OperandAssumption, Zenon
<1>1. /\ \A m \in Mutexes : /\ Balance(prog, t, CurInst[t], m) \in {0, 1}
                            /\ r.owner[m] = t <=> Balance(prog, t, CurInst[t], m) = 1
                            /\ r.last_lock[m] = t => LocksBefore(prog, t, CurInst[t], m)
      /\ \A m \in Mutexes, u \in Threads \ {t} :
           /\ r.owner[m] = u <=> lk.owner[m] = u
           /\ r.last_lock[m] = u => lk.last_lock[m] = u
  BY AwakeOwned, Zenon
<1>2. \A m \in Mutexes : lk'.owner[m] = r.owner[m] /\ lk'.last_lock[m] \in {r.last_lock[m], -1}
  OBVIOUS
<1> HIDE DEF r
<1>3. /\ pending_mutex_lock'[t] = NULL
      /\ \A u \in Threads \ {t} : pending_mutex_lock'[u] = pending_mutex_lock[u]
  BY <1>0 DEF Pending, TypeOK
<1>4. ASSUME NEW m \in Mutexes PROVE OwnedBy(t, m)'
  <2>1. LocksBefore(prog, t, CurInst[t], m) => LocksBefore(prog, t, CurInst'[t], m)
    BY <1>0, LocksBeforeNext, Zenon DEF TypeOK
  <2> QED BY <1>0, <1>1, <1>2, <1>3, <2>1 DEF OwnedBy
<1>5. AfterWait(t)'
  BY <1>3 DEF AfterWait
<1>6. \A m \in Mutexes, u \in Threads \ {t} :
        /\ lk'.owner[m] = u <=> lk.owner[m] = u
        /\ lk'.last_lock[m] = u => lk.last_lock[m] = u
  BY <1>0, <1>1, <1>2
<1> QED BY <1>0, <1>3, <1>4, <1>5, <1>6, OwnedNext, Zenon

(* An instruction of t other than lock, trylock and unlock leaves its      *)
(* count alone.                                                            *)
LEMMA SameBalance ==
  ASSUME TypeOK, NEW t \in Threads, I(t).op \notin {"lock", "trylock", "unlock", "ret"},
         NEW m
  PROVE  Balance(prog, t, CurInst[t] + 1, m) = Balance(prog, t, CurInst[t], m)
BY Counted, BalanceNext

(* Works() of an instruction that is not about locks.                      *)
LEMMA WorksOwned ==
  ASSUME Inv, Owned, NEW t \in Threads, t \in available, Proceeds(t),
         I(t).op \notin {"lock", "trylock", "unlock", "ret"},
         NEW bad, NEW r, NEW A, Works(t, bad, r, A),
         \A m \in Mutexes :
           /\ r.owner[m] = doPthreadCondAwake(t).owner[m]
           /\ r.last_lock[m] \in {doPthreadCondAwake(t).last_lock[m], -1}
  PROVE  Owned'
<1>1. TypeOK
  BY Zenon DEF Inv
<1>2. CurInst' = [CurInst EXCEPT ![t] = @ + 1] /\ lk' = r /\ prog' = prog
      /\ Pending(t, NULL, NULL)
  BY Zenon DEF Works, Succeed, Advance
<1>3. /\ CurInst' \in [Threads -> Nat \ {0}]
      /\ \A u \in Threads \ {t} : CurInst'[u] = CurInst[u]
      /\ CurInst'[t] = CurInst[t] + 1 /\ CurInst'[t] >= CurInst[t]
  BY <1>1, <1>2 DEF TypeOK
<1>4. \A m \in Mutexes : Balance(prog, t, CurInst'[t], m) = Balance(prog, t, CurInst[t], m)
  BY <1>1, <1>3, SameBalance, Zenon
<1> QED BY <1>2, <1>3, <1>4, NeutralOwned, Zenon

(* After an error nothing is claimed.                                      *)
LEMMA AbortOwned ==
  ASSUME Owned, NEW t, NEW r, abort(t, r)
  PROVE  Owned'
BY Zenon DEF Owned, abort, Disciplined

(* The instructions on other things, and those that fail.                  *)
LEMMA OtherOwned ==
  ASSUME Inv, Owned, NEW t \in Threads,
         \/ callPthreadMutexInit(t) \/ callPthreadMutexDestroy(t)
         \/ callPthreadCondInit(t) \/ callPthreadCondSignal(t)
         \/ callPthreadCondBroadcast(t) \/ callPthreadCondDestroy(t)
         \/ visitLoadInst(t)
  PROVE  Owned'
<1> DEFINE old == doPthreadCondAwake(t)
           i == I(t)
           Same(s) == \A m \in Mutexes : /\ s.owner[m] = old.owner[m]
                                         /\ s.last_lock[m] \in {old.last_lock[m], -1}
<1>1. \E op \in {"mutex_init", "mutex_destroy", "cond_init", "signal", "broadcast",
                 "cond_destroy", "load", "load_await"} : Runs(t, op)
  BY Zenon DEF callPthreadMutexInit, callPthreadMutexDestroy, callPthreadCondInit,
         callPthreadCondSignal, callPthreadCondBroadcast, callPthreadCondDestroy,
         visitLoadInst
<1>2. /\ i.op \in {"mutex_init", "mutex_destroy", "cond_init", "signal", "broadcast",
                   "cond_destroy", "load", "load_await"}
      /\ t \in available /\ Proceeds(t) /\ old \in Locks
  BY <1>1, Running DEF Runs
<1> HIDE DEF old, Same
<1>3. \A m : /\ Same([mutex_init(old, m) EXCEPT !.PthreadMutexes = @ \cup {m}])
             /\ Same([mutex_destroy(old, m) EXCEPT !.PthreadMutexes = @ \ {m}])
  BY <1>2 DEF Same, mutex_init, mutex_destroy, Locks
<1>4. \A c : /\ Same([old EXCEPT !.cond_vars = @ \cup {c}])
             /\ Same([old EXCEPT !.cond_vars = @ \ {c}, !.waiters[c] = {}])
             /\ Same(old) /\ Same([old EXCEPT !.waiters[c] = {}])
             /\ \A w : Same([old EXCEPT !.waiters[c] = @ \ {w}])
  BY <1>2 DEF Same, Locks
<1>5. ASSUME NEW bad, NEW r, NEW A, Works(t, bad, r, A), Same(r)
      PROVE  Owned'
  BY <1>2, <1>5, WorksOwned, Zenon DEF Same, old
<1>6. ASSUME NEW bad, NEW s, Fails(t, bad, s)
      PROVE  Owned'
  BY <1>6, AbortOwned DEF Fails
<1>7. CASE callPthreadMutexInit(t)
  BY <1>3, <1>5, <1>6, <1>7, Zenon DEF callPthreadMutexInit, old
<1>8. CASE callPthreadMutexDestroy(t)
  BY <1>3, <1>5, <1>6, <1>8, Zenon DEF callPthreadMutexDestroy, old
<1>9. CASE callPthreadCondInit(t)
  BY <1>4, <1>5, <1>6, <1>9, Zenon DEF callPthreadCondInit, old
<1>10. CASE callPthreadCondSignal(t)
  BY <1>4, <1>5, <1>6, <1>10, Zenon DEF callPthreadCondSignal, old
<1>11. CASE callPthreadCondBroadcast(t)
  BY <1>4, <1>5, <1>6, <1>11, Zenon DEF callPthreadCondBroadcast, old
<1>12. CASE callPthreadCondDestroy(t)
  BY <1>4, <1>5, <1>6, <1>12, Zenon DEF callPthreadCondDestroy, old
<1>13. CASE visitLoadInst(t)
  BY <1>4, <1>5, <1>13, Zenon DEF visitLoadInst, old
<1> QED BY <1>7, <1>8, <1>9, <1>10, <1>11, <1>12, <1>13

(* Stores and thread operations only complete the wait.                    *)
LEMMA PlainOwned ==
  ASSUME Inv, Owned, NEW t \in Threads, visitStoreInst(t) \/ visitThreadCall(t)
  PROVE  Owned'
<1>0. TypeOK
  BY DEF Inv
<1>1. /\ t \in available /\ Proceeds(t) /\ lk' = doPthreadCondAwake(t)
      /\ prog' = prog /\ Pending(t, NULL, NULL)
      /\ \/ CurInst' = CurInst
         \/ /\ CurInst' = [CurInst EXCEPT ![t] = @ + 1]
            /\ I(t).op \in {"store", "xchg_await", "create", "join"}
  BY Zenon DEF visitStoreInst, visitThreadCall, Runs, Executes, Succeed, Advance,
         callPthreadCreate, callPthreadJoin, callAssume, Return
<1>2. /\ CurInst' \in [Threads -> Nat \ {0}]
      /\ \A u \in Threads \ {t} : CurInst'[u] = CurInst[u]
      /\ CurInst'[t] >= CurInst[t]
      /\ \/ CurInst'[t] = CurInst[t]
         \/ /\ CurInst'[t] = CurInst[t] + 1
            /\ I(t).op \notin {"lock", "trylock", "unlock", "ret"}
  BY <1>0, <1>1 DEF TypeOK
<1>3. \A m \in Mutexes : Balance(prog, t, CurInst'[t], m) = Balance(prog, t, CurInst[t], m)
  BY <1>0, <1>2, SameBalance
<1> QED BY <1>1, <1>2, <1>3, NeutralOwned, Zenon

(* A refused thread keeps what it has.                                     *)
LEMMA RefusedOwned ==
  ASSUME Inv, Owned, NEW t \in Threads,
         RefusedJoin(t) \/ RefusedLock(t) \/ RefusedAwait(t)
  PROVE  Owned'
<1>1. /\ prog' = prog /\ CurInst' = CurInst /\ pending_mutex_lock' = pending_mutex_lock
      /\ error' = error
  BY DEF RefusedJoin, RefusedLock, RefusedAwait, RefuseJoin, pendVars
<1>2. lk'.owner = lk.owner /\ lk'.last_lock = lk.last_lock
  <2>1. lk \in Locks
    BY DEF Inv, TypeOK
  <2> QED BY <2>1 DEF RefusedJoin, RefusedLock, RefusedAwait, Locks
<1> QED BY <1>1, <1>2 DEF Owned, Disciplined, OwnedBy, AfterWait

(* A lock that succeeds: the mutex was free, so t had not locked it.       *)
LEMMA AcquireOwned ==
  ASSUME Inv, Owned, NEW t \in Threads, t \in available, Proceeds(t),
         NEW m \in Mutexes, I(t).op \in {"lock", "trylock"}, I(t).m = m,
         doPthreadCondAwake(t).owner[m] = -1,
         NEW bad, NEW r, NEW A, Works(t, bad, r, A),
         r.owner = [doPthreadCondAwake(t).owner EXCEPT ![m] = t],
         r.last_lock = [doPthreadCondAwake(t).last_lock EXCEPT ![m] = t]
  PROVE  Owned'
<1> DEFINE s == doPthreadCondAwake(t)
<1>0. /\ ~error /\ TypeOK /\ Agree(lk) /\ NULL \notin Mutexes /\ -1 \notin Threads
  BY Scheduled, OperandAssumption, Zenon
<1>1. /\ \A k \in Mutexes : /\ Balance(prog, t, CurInst[t], k) \in {0, 1}
                            /\ s.owner[k] = t <=> Balance(prog, t, CurInst[t], k) = 1
                            /\ s.last_lock[k] = t => LocksBefore(prog, t, CurInst[t], k)
      /\ \A k \in Mutexes, u \in Threads \ {t} :
           /\ s.owner[k] = u <=> lk.owner[k] = u
           /\ s.last_lock[k] = u => lk.last_lock[k] = u
  BY AwakeOwned, Zenon
<1>2. /\ s.owner \in [Mutexes -> Threads \cup {-1}]
      /\ s.last_lock \in [Mutexes -> Threads \cup {-1}]
  BY <1>0, AwakeReads DEF Locks
<1>3. /\ lk' = r /\ CurInst' = [CurInst EXCEPT ![t] = @ + 1] /\ prog' = prog
      /\ Pending(t, NULL, NULL)
      /\ lk'.owner = [s.owner EXCEPT ![m] = t]
      /\ lk'.last_lock = [s.last_lock EXCEPT ![m] = t]
      /\ s.owner[m] = -1
  BY DEF Works, Succeed, Advance
<1> HIDE DEF s
<1>4. /\ pending_mutex_lock'[t] = NULL /\ CurInst'[t] = CurInst[t] + 1
      /\ \A u \in Threads \ {t} : pending_mutex_lock'[u] = pending_mutex_lock[u]
                                  /\ CurInst'[u] = CurInst[u]
  BY <1>0, <1>3, Zenon DEF Pending, TypeOK
<1>5. /\ CurInst[t] \in Nat \ {0} /\ I(t) = prog[t][CurInst[t]]
  BY <1>0, Counted, Zenon
<1>6. ASSUME NEW k \in Mutexes PROVE OwnedBy(t, k)'
  <2>1. LocksBefore(prog, t, CurInst[t], k) \/ k = m =>
          LocksBefore(prog, t, CurInst[t] + 1, k)
    BY <1>5, LocksBeforeNext
  <2>2. CASE k = m
    <3>1. Balance(prog, t, CurInst[t], m) = 0
      BY <1>0, <1>1, <1>3, Zenon
    <3>2. Balance(prog, t, CurInst[t] + 1, m) = 1
      BY <1>5, <3>1, BalanceNext
    <3>3. lk'.owner[m] = t
      BY <1>2, <1>3, Zenon
    <3> QED BY <1>0, <1>3, <1>4, <2>1, <2>2, <3>2, <3>3, Zenon DEF OwnedBy
  <2>3. CASE k # m
    <3>1. Balance(prog, t, CurInst[t] + 1, k) = Balance(prog, t, CurInst[t], k)
      BY <1>5, <2>3, BalanceNext
    <3>2. lk'.owner[k] = s.owner[k] /\ lk'.last_lock[k] = s.last_lock[k]
      BY <1>2, <1>3, <2>3, Zenon
    <3>3. pending_mutex_lock'[t] # k /\ CurInst'[t] = CurInst[t] + 1 /\ prog' = prog
      BY <1>0, <1>3, <1>4
    <3>4. /\ Balance(prog, t, CurInst[t], k) \in {0, 1}
          /\ s.owner[k] = t <=> Balance(prog, t, CurInst[t], k) = 1
          /\ s.last_lock[k] = t => LocksBefore(prog, t, CurInst[t], k)
      BY <1>1
    <3> QED BY <2>1, <3>1, <3>2, <3>3, <3>4 DEF OwnedBy
  <2> QED BY <2>2, <2>3
<1>7. AfterWait(t)'
  BY <1>4 DEF AfterWait
<1>8. \A k \in Mutexes, u \in Threads \ {t} :
        /\ lk'.owner[k] = u <=> lk.owner[k] = u
        /\ lk'.last_lock[k] = u => lk.last_lock[k] = u
  BY <1>0, <1>1, <1>2, <1>3
<1> QED BY <1>0, <1>3, <1>4, <1>6, <1>7, <1>8, OwnedNext, Zenon

(* pthread_mutex_lock(): the mutex is free, by checkRefuse(), because the  *)
(* lock does not complete a wait.                                          *)
LEMMA LockOwned ==
  ASSUME Inv, Owned, NEW t \in Threads, callPthreadMutexLock(t)
  PROVE  Owned'
<1> DEFINE m == I(t).m
           old == doPthreadCondAwake(t)
           s == mutex_lock(old, t, m)
           r == [s EXCEPT !.PthreadMutexes = @ \cup {m}, !.owner[m] = t]
           bad == Uninitialized(s, m)
<1>1. Runs(t, "lock") /\ (Fails(t, bad, s) \/ Works(t, bad, r, available))
  BY DEF callPthreadMutexLock
<1>2. /\ m \in Mutexes /\ old \in Locks /\ ~error /\ t \in available /\ TypeOK
      /\ I(t).op = "lock" /\ Proceeds(t)
  BY <1>1, Running, Operands DEF Runs
<1>3. pending_mutex_lock[t] = NULL
  <2>1. CurInst[t] \in 1..Len(prog[t]) /\ I(t) = prog[t][CurInst[t]]
    BY <1>2, Counted, Zenon
  <2>2. AfterWait(t) /\ Disciplined(prog)
    BY <1>2 DEF Owned
  <2> QED BY <1>2, <2>1, <2>2, Zenon DEF AfterWait, Disciplined
<1>4. old = lk /\ lk.owner[m] = -1
  BY <1>2, <1>3, AwakeFields, Zenon DEF Proceeds, checkRefuse, MutexBlocked, isPthreadMutexLock
<1>5. CASE Fails(t, bad, s)
  BY <1>5, AbortOwned DEF Fails
<1>6. CASE Works(t, bad, r, available)
  <2>0. old.owner[m] = -1 /\ I(t).m = m
    BY <1>4
  <2>1. /\ s \in Locks /\ s.owner = old.owner
        /\ s.last_lock = [old.last_lock EXCEPT ![m] = t]
    BY <1>2, LockFields
  <2> HIDE DEF s, m
  <2>2. r.owner = [s.owner EXCEPT ![m] = t] /\ r.last_lock = s.last_lock
    BY <2>1 DEF Locks
  <2> HIDE DEF r, bad
  <2> QED BY <1>2, <1>6, <2>0, <2>1, <2>2, AcquireOwned, Zenon
<1> QED BY <1>1, <1>5, <1>6

(* pthread_mutex_trylock(): it fails with what it belongs to skipped.      *)
LEMMA TryLockOwned ==
  ASSUME Inv, Owned, NEW t \in Threads, callPthreadMutexTryLock(t)
  PROVE  Owned'
<1> DEFINE m == I(t).m
           old == doPthreadCondAwake(t)
           l == mutex_lock(old, t, m)
           s == mutex_trylock(old, t, m)
           r == [s EXCEPT !.PthreadMutexes = @ \cup {m}, !.owner[m] = t]
           bad == Uninitialized(s, m)
           fail == /\ ~bad /\ old.owner[m] # -1
                   /\ lk' = s
                   /\ CurInst' = [CurInst EXCEPT ![t] = @ + 1 + I(t).skip]
                   /\ Pending(t, NULL, NULL)
                   /\ UNCHANGED <<prog, stack, AssumeBlocked, AwaitingJoin, available,
                                  mem, blocking_awaits, error>>
<1>1. /\ Runs(t, "trylock")
      /\ \/ Fails(t, bad, s)
         \/ old.owner[m] = -1 /\ Works(t, bad, r, available)
         \/ fail
  BY DEF callPthreadMutexTryLock
<1>2. /\ m \in Mutexes /\ old \in Locks /\ Good(old) /\ ~error /\ t \in available
      /\ TypeOK /\ I(t).op = "trylock" /\ I(t).skip \in Nat /\ Proceeds(t)
  BY <1>1, Running, Operands DEF Runs
<1>3. s = IF old.owner[m] # -1 THEN old ELSE l
  BY <1>2 DEF mutex_trylock, Good, Agree
<1>4. CASE Fails(t, bad, s)
  BY <1>4, AbortOwned DEF Fails
<1>5. CASE old.owner[m] = -1 /\ Works(t, bad, r, available)
  <2>0. old.owner[m] = -1 /\ I(t).m = m /\ I(t).op \in {"lock", "trylock"}
    BY <1>2, <1>5
  <2>1. /\ l \in Locks /\ l.owner = old.owner
        /\ l.last_lock = [old.last_lock EXCEPT ![m] = t]
    BY <1>2, LockFields
  <2>2. r = [l EXCEPT !.PthreadMutexes = @ \cup {m}, !.owner[m] = t]
    BY <1>3, <1>5
  <2> HIDE DEF l, m, r
  <2>3. r.owner = [l.owner EXCEPT ![m] = t] /\ r.last_lock = l.last_lock
    BY <2>1, <2>2 DEF Locks
  <2> HIDE DEF bad
  <2> QED BY <1>2, <1>5, <2>0, <2>1, <2>3, AcquireOwned, Zenon
<1>6. CASE fail
  <2>1. lk' = old
    BY <1>3, <1>6
  <2>2. CurInst[t] \in 1..Len(prog[t]) /\ CurInst[t] \in Nat \ {0} /\ I(t) = prog[t][CurInst[t]]
    BY <1>2, Counted
  <2>3. \A k \in Mutexes :
          Balance(prog, t, CurInst[t] + 1 + I(t).skip, k) = Balance(prog, t, CurInst[t], k)
    BY <1>2, <2>2, Zenon DEF Owned, Disciplined
  <2>4. /\ CurInst' \in [Threads -> Nat \ {0}]
        /\ \A u \in Threads \ {t} : CurInst'[u] = CurInst[u]
        /\ CurInst'[t] = CurInst[t] + 1 + I(t).skip /\ CurInst'[t] >= CurInst[t]
    BY <1>2, <1>6, <2>2 DEF TypeOK
  <2> QED BY <1>2, <1>6, <2>1, <2>3, <2>4, NeutralOwned, Zenon
<1> QED BY <1>1, <1>4, <1>5, <1>6

(* What an unlock or a wait leaves, where t owned m.                       *)
LEMMA UnlockedFields ==
  ASSUME NEW s \in Locks, NEW m \in Mutexes
  PROVE  LET r == released(mutex_unlock(s, m), m) IN
         /\ r \in Locks
         /\ r.owner = [s.owner EXCEPT ![m] = -1] /\ r.last_lock = s.last_lock
<1> DEFINE l == mutex_unlock(s, m)
<1>1. l \in Locks /\ l.owner = s.owner /\ l.last_lock = s.last_lock
  BY UnlockFields
<1> HIDE DEF l
<1>2. /\ released(l, m) \in Locks
      /\ released(l, m).owner = [l.owner EXCEPT ![m] = -1]
      /\ released(l, m).last_lock = l.last_lock
  BY <1>1, Zenon DEF released, Locks
<1> QED BY <1>1, <1>2 DEF l

(* pthread_mutex_unlock().                                                 *)
LEMMA UnlockOwned ==
  ASSUME Inv, Owned, NEW t \in Threads, callPthreadMutexUnlock(t)
  PROVE  Owned'
<1> DEFINE m == I(t).m
           old == doPthreadCondAwake(t)
           s == mutex_unlock(old, m)
           r == released(s, m)
           A == available \cup s.waiting[m]
           bad == Uninitialized(s, m) \/ s.owner[m] # t
<1>1. Runs(t, "unlock") /\ (Fails(t, bad, s) \/ Works(t, bad, r, A))
  BY Zenon DEF callPthreadMutexUnlock
<1>2. /\ m \in Mutexes /\ old \in Locks /\ ~error /\ t \in available /\ TypeOK
      /\ I(t).op = "unlock" /\ Proceeds(t)
  BY <1>1, Running, Operands, Zenon DEF Runs
<1>3. CASE Fails(t, bad, s)
  BY <1>3, AbortOwned, Zenon DEF Fails
<1>4. CASE Works(t, bad, r, A)
  <2>1. s.owner = old.owner
    BY <1>2, UnlockFields
  <2>2. r.owner = [old.owner EXCEPT ![m] = -1] /\ r.last_lock = old.last_lock
    BY <1>2, UnlockedFields
  <2>3. /\ lk' = r /\ CurInst' = [CurInst EXCEPT ![t] = @ + 1] /\ prog' = prog
        /\ Pending(t, NULL, NULL) /\ old.owner[m] = t
    BY <1>4, <2>1, Zenon DEF Works, Succeed, Advance
  <2>4. /\ \A k \in Mutexes : /\ Balance(prog, t, CurInst[t], k) \in {0, 1}
                              /\ old.owner[k] = t <=> Balance(prog, t, CurInst[t], k) = 1
                              /\ old.last_lock[k] = t => LocksBefore(prog, t, CurInst[t], k)
        /\ \A k \in Mutexes, u \in Threads \ {t} :
             /\ old.owner[k] = u <=> lk.owner[k] = u
             /\ old.last_lock[k] = u => lk.last_lock[k] = u
    BY <1>2, AwakeOwned, Zenon
  <2>5. old.owner \in [Mutexes -> Threads \cup {-1}]
    BY <1>2 DEF Locks
  <2>6. /\ NULL \notin Mutexes /\ -1 \notin Threads
    BY OperandAssumption
  <2>7. /\ CurInst[t] \in Nat \ {0} /\ I(t) = prog[t][CurInst[t]]
    BY <1>2, Counted
  <2>8. prog[t][CurInst[t]].op = "unlock" /\ prog[t][CurInst[t]].m = m
    BY <1>2, <2>7
  <2> HIDE DEF m, old, s, r, A, bad
  <2>9. /\ pending_mutex_lock'[t] = NULL /\ CurInst'[t] = CurInst[t] + 1
        /\ \A u \in Threads \ {t} : pending_mutex_lock'[u] = pending_mutex_lock[u]
                                    /\ CurInst'[u] = CurInst[u]
    BY <1>2, <2>3 DEF Pending, TypeOK
  <2>10. ASSUME NEW k \in Mutexes PROVE OwnedBy(t, k)'
    <3>1. LocksBefore(prog, t, CurInst[t], k) => LocksBefore(prog, t, CurInst[t] + 1, k)
      BY <2>7, LocksBeforeOneMore, Zenon
    <3>2. CASE k = m
      <4>1. Balance(prog, t, CurInst[t] + 1, m) = 0
        BY <2>3, <2>4, <2>7, <2>8, <3>2, BalanceNext
      <4>2. lk'.owner[m] = -1
        BY <2>2, <2>3, <2>5, <3>2
      <4> QED BY <2>2, <2>3, <2>4, <2>6, <2>9, <3>1, <3>2, <4>1, <4>2 DEF OwnedBy
    <3>3. CASE k # m
      <4>1. Balance(prog, t, CurInst[t] + 1, k) = Balance(prog, t, CurInst[t], k)
        BY <2>7, <2>8, <3>3, BalanceNext
      <4>2. lk'.owner[k] = old.owner[k]
        BY <2>2, <2>3, <2>5, <3>3
      <4> QED BY <2>2, <2>3, <2>4, <2>6, <2>9, <3>1, <4>1, <4>2, Zenon DEF OwnedBy
    <3> QED BY <3>2, <3>3
  <2>11. AfterWait(t)'
    BY <2>9 DEF AfterWait
  <2>12. \A k \in Mutexes, u \in Threads \ {t} :
           /\ lk'.owner[k] = u <=> lk.owner[k] = u
           /\ lk'.last_lock[k] = u => lk.last_lock[k] = u
    BY <2>2, <2>3, <2>4, <2>5, <2>6
  <2> QED BY <1>2, <2>3, <2>9, <2>10, <2>11, <2>12, OwnedNext
<1> QED BY <1>1, <1>3, <1>4, Zenon

(* pthread_cond_wait(): the latest lock of the mutex is t's, which by the  *)
(* program's discipline still holds it.                                    *)
LEMMA WaitOwned ==
  ASSUME Inv, Owned, NEW t \in Threads, callPthreadCondWait(t)
  PROVE  Owned'
<1> DEFINE c == I(t).c
           m == I(t).m
           old == doPthreadCondAwake(t)
           notHeld == m \notin old.mutexes \/ old.last_lock[m] # t
           s == mutex_unlock(old, m)
           unknown == c \notin s.cond_vars
           l == released(s, m)
           r == [l EXCEPT !.waiters[c] = @ \cup {t}]
           A == (available \ {t}) \cup s.waiting[m]
           wait == /\ ~notHeld
                   /\ Succeed(t, r, A)
                   /\ Pending(t, c, m)
<1>1. /\ Runs(t, "wait")
      /\ Fails(t, notHeld, old) \/ Fails(t, unknown, s) \/ wait
  BY DEF callPthreadCondWait
<1>2. /\ m \in Mutexes /\ c \in Conds /\ old \in Locks /\ ~error /\ t \in available
      /\ TypeOK /\ I(t).op = "wait" /\ Proceeds(t)
  BY <1>1, Running, Operands DEF Runs
<1>3. CASE Fails(t, notHeld, old) \/ Fails(t, unknown, s)
  BY <1>3, AbortOwned DEF Fails
<1>4. CASE wait
  <2>1. l \in Locks /\ l.owner = [old.owner EXCEPT ![m] = -1] /\ l.last_lock = old.last_lock
    BY <1>2, UnlockedFields, Zenon
  <2>2. r.owner = l.owner /\ r.last_lock = l.last_lock
    <3> HIDE DEF l, c
    <3> QED BY <1>2, <2>1 DEF Locks
  <2>3. /\ lk' = r /\ CurInst' = [CurInst EXCEPT ![t] = @ + 1] /\ prog' = prog
        /\ pending_mutex_lock' = [pending_mutex_lock EXCEPT ![t] = m]
        /\ old.last_lock[m] = t
    BY <1>4 DEF Succeed, Advance, Pending
  <2>4. /\ \A k \in Mutexes : /\ Balance(prog, t, CurInst[t], k) \in {0, 1}
                              /\ old.owner[k] = t <=> Balance(prog, t, CurInst[t], k) = 1
                              /\ old.last_lock[k] = t => LocksBefore(prog, t, CurInst[t], k)
        /\ \A k \in Mutexes, u \in Threads \ {t} :
             /\ old.owner[k] = u <=> lk.owner[k] = u
             /\ old.last_lock[k] = u => lk.last_lock[k] = u
    BY <1>2, AwakeOwned, Zenon
  <2>5. old.owner \in [Mutexes -> Threads \cup {-1}]
    BY <1>2 DEF Locks
  <2>6. /\ NULL \notin Mutexes /\ -1 \notin Threads
    BY OperandAssumption
  <2>7. /\ CurInst[t] \in Nat \ {0} /\ CurInst[t] \in 1..Len(prog[t])
        /\ I(t) = prog[t][CurInst[t]]
    BY <1>2, Counted
  <2>8. prog[t][CurInst[t]].op = "wait" /\ prog[t][CurInst[t]].m = m
    BY <1>2, <2>7
  <2> HIDE DEF m, old, s, l, r, A, c
  <2>9. Balance(prog, t, CurInst[t], m) = 1 /\ LocksBefore(prog, t, CurInst[t], m)
    <3>1. LocksBefore(prog, t, CurInst[t], m)
      BY <1>2, <2>3, <2>4
    <3>2. Balance(prog, t, CurInst[t], m) > 0
      BY <2>7, <2>8, <3>1 DEF Owned, Disciplined
    <3> QED BY <1>2, <2>4, <3>1, <3>2
  <2>10. /\ pending_mutex_lock'[t] = m /\ CurInst'[t] = CurInst[t] + 1
         /\ \A u \in Threads \ {t} : pending_mutex_lock'[u] = pending_mutex_lock[u]
                                     /\ CurInst'[u] = CurInst[u]
    BY <1>2, <2>3, Zenon DEF TypeOK
  <2>11. ASSUME NEW k \in Mutexes PROVE OwnedBy(t, k)'
    <3>1. LocksBefore(prog, t, CurInst[t], k) => LocksBefore(prog, t, CurInst[t] + 1, k)
      BY <2>7, LocksBeforeOneMore, Zenon
    <3>2. Balance(prog, t, CurInst[t] + 1, k) = Balance(prog, t, CurInst[t], k)
      BY <2>7, <2>8, BalanceNext, ZenonT(60)
    <3>3. CASE k = m
      <4>1. lk'.owner[m] = -1
        BY <2>1, <2>2, <2>3, <2>5, <3>3
      <4> QED BY <2>3, <2>6, <2>9, <2>10, <3>1, <3>2, <3>3, <4>1, Zenon DEF OwnedBy
    <3>4. CASE k # m
      <4>1. lk'.owner[k] = old.owner[k]
        BY <2>1, <2>2, <2>3, <2>5, <3>4, Zenon
      <4>2. lk'.last_lock[k] = old.last_lock[k]
        BY <2>1, <2>2, <2>3
      <4>3. pending_mutex_lock'[t] # k /\ CurInst'[t] = CurInst[t] + 1 /\ prog' = prog
        BY <2>3, <2>10, <3>4
      <4>4. /\ Balance(prog, t, CurInst[t], k) \in {0, 1}
            /\ old.owner[k] = t <=> Balance(prog, t, CurInst[t], k) = 1
            /\ old.last_lock[k] = t => LocksBefore(prog, t, CurInst[t], k)
        BY <2>4
      <4> QED BY <3>1, <3>2, <4>1, <4>2, <4>3, <4>4 DEF OwnedBy
    <3> QED BY <3>3, <3>4
  <2>12. AfterWait(t)'
    BY <2>3, <2>7, <2>8, <2>10 DEF AfterWait
  <2>13. \A k \in Mutexes, u \in Threads \ {t} :
           /\ lk'.owner[k] = u <=> lk.owner[k] = u
           /\ lk'.last_lock[k] = u => lk.last_lock[k] = u
    <3>1. Balance(prog, t, CurInst[t], m) = 1 => old.owner[m] = t
      BY <1>2, <2>4, Zenon
    <3> QED BY <2>1, <2>2, <2>3, <2>4, <2>5, <2>6, <2>9, <3>1
  <2> QED BY <1>2, <2>3, <2>10, <2>11, <2>12, <2>13, OwnedNext
<1> QED BY <1>1, <1>3, <1>4

(* The start.                                                              *)
LEMMA InitOwned == Init /\ Disciplined(prog) => Owned
<1> SUFFICES ASSUME Init, Disciplined(prog) PROVE Owned
  OBVIOUS
<1>1. TypeOK
  BY InitInv DEF Inv
<1>2. ASSUME NEW t \in Threads, NEW m \in Mutexes PROVE OwnedBy(t, m)
  <2>1. CurInst[t] = 1 /\ pending_mutex_lock[t] = NULL
    BY DEF Init, ThreadInit
  <2>2. lk.owner[m] = -1 /\ lk.last_lock[m] = -1
    BY DEF Init
  <2>3. \A op : Done(prog, t, 1, m, op) = 0
    <3>1. \A op : {k \in 1..(1 - 1) : prog[t][k].op = op /\ prog[t][k].m = m} = {}
      OBVIOUS
    <3> QED BY <3>1, FS_EmptySet DEF Done
  <2>4. Balance(prog, t, 1, m) = 0
    BY <2>3 DEF Balance
  <2> QED BY <2>1, <2>2, <2>4, OperandAssumption DEF OwnedBy
<1>3. ASSUME NEW t \in Threads PROVE AfterWait(t)
  BY Zenon DEF Init, AfterWait
<1> QED BY <1>2, <1>3 DEF Owned

(* Every step keeps what the threads hold and own in agreement.            *)
LEMMA NextOwned == Inv /\ Owned /\ [Next]_vars => Owned'
<1> SUFFICES ASSUME Inv, Owned, [Next]_vars PROVE Owned'
  OBVIOUS
<1>1. ASSUME NEW t \in Threads, Step(t) PROVE Owned'
  <2>1. CASE AwakeFails(t)
    BY <2>1, AbortOwned DEF AwakeFails
  <2> QED BY <1>1, <2>1, RefusedOwned, OtherOwned, PlainOwned, LockOwned, TryLockOwned,
             UnlockOwned, WaitOwned DEF Step
<1>2. CASE UNCHANGED vars
  BY <1>2 DEF Owned, Disciplined, OwnedBy, AfterWait, vars, threadVars, pendVars
<1> QED BY <1>1, <1>2 DEF Next
-----------------------------------------------------------------------------

(* OwnerHolds, mutual exclusion: in every execution of a disciplined       *)
(* program, a mutex is owned by the one thread that is between its lock    *)
(* and its unlock, a wait set aside.                                       *)
THEOREM MutualExclusion == Spec /\ Disciplined(prog) => []OwnerHolds
<1>1. Spec /\ Disciplined(prog) => [](Inv /\ Owned)
  BY InitInv, NextInv, InitOwned, NextOwned, PTL DEF Spec
<1>2. Inv /\ Owned => OwnerHolds
  <2> SUFFICES ASSUME Inv, Owned, ~error, NEW m \in Mutexes, NEW t \in Threads
               PROVE  lk.owner[m] = t <=> Holds(t, m)
    BY DEF OwnerHolds
  <2>1. OwnedBy(t, m)
    BY DEF Owned
  <2>2. Holds(t, m) <=> Balance(prog, t, CurInst[t], m) > 0 /\ pending_mutex_lock[t] # m
    BY HoldsIs DEF Inv
  <2> QED BY <2>1, <2>2 DEF OwnedBy
<1> QED BY <1>1, <1>2, PTL

(* ErrorOnlyOnMisuse: every pthreads_error() of a disciplined program is   *)
(* one of a thread that misuses its mutex or condition variable.  The      *)
(* TraceBuilder judges cond_wait() by the latest lock; that this is the    *)
(* owner's is the agreement of the records, that the owner is the holder   *)
(* mutual exclusion.                                                       *)
THEOREM ErrorsAreMisuse == Spec /\ Disciplined(prog) => ErrorOnlyOnMisuse
<1>1. Spec /\ Disciplined(prog) => [](Inv /\ Owned)
  BY InitInv, NextInv, InitOwned, NextOwned, PTL DEF Spec
<1>2. Inv /\ Owned /\ ~error => NeverRevives
  <2> SUFFICES ASSUME Inv, Owned, ~error, NEW t \in Threads,
                      pending_mutex_lock[t] # NULL, I(t).op = "cond_init"
               PROVE  FALSE
    BY DEF NeverRevives
  <2>1. CurInst[t] \in 1..Len(prog[t]) /\ I(t) = prog[t][CurInst[t]]
    BY Counted DEF Inv
  <2>2. AfterWait(t) /\ Disciplined(prog)
    BY DEF Owned
  <2> QED BY <2>1, <2>2, Zenon DEF AfterWait, Disciplined
<1>3. Inv /\ Owned /\ OwnerHolds /\ [Next]_vars =>
        [~error /\ error' => \E t \in available : Misuse(t)]_vars
  <2> SUFFICES ASSUME Inv, Owned, OwnerHolds, [Next]_vars, ~error, error'
               PROVE  \E t \in available : Misuse(t)
    OBVIOUS
  <2>1. CASE UNCHANGED vars
    BY <2>1 DEF vars
  <2>2. ASSUME NEW t \in Threads, Step(t)
        PROVE  \E u \in available : Misuse(u)
    BY <1>2, <2>2, ErrorIsMisuse
  <2> QED BY <2>1, <2>2 DEF Next
<1> QED BY <1>1, <1>3, MutualExclusion, PTL DEF Spec, ErrorOnlyOnMisuse
=============================================================================
