-------------------------- MODULE SCProgram_proofs --------------------------
(***************************************************************************)
(* Proofs about SCProgram and SymEv, for every program: what the trace     *)
(* builders take for independent is independent.  Two threads that can     *)
(* both take a step, and whose events do not conflict, do not disable each *)
(* other, do the same whoever goes first, and lead to the same state and   *)
(* to the same class of executions.                                        *)
(***************************************************************************)
EXTENDS SCProgram, TLAPS

(* The provers that a leaf is tried with, unless it names its own.         *)
USE SMTT(10), Z3T(10), Zenon

-----------------------------------------------------------------------------
(* Definitions.                                                            *)

(* The states of the interpreter.                                          *)
Engines ==
  [pc : [Threads -> Nat \ {0}], val : [Addrs -> Int], live : SUBSET Threads,
   locked : [Addrs -> BOOLEAN], waiting : [Addrs -> SUBSET Threads],
   blocking_awaits : SUBSET Threads, AwaitingJoin : [Threads -> SUBSET Threads]]

(* What an instruction of t leaves in each part of the state.              *)
PCAfter(e, t) ==
  [u \in Threads |-> IF u = t THEN e.pc[t] + 1 + Skipped(e, Code(e, t)) ELSE e.pc[u]]

ValAfter(e, t) ==
  [a \in Addrs |-> IF Code(e, t).op \in GlobalOps /\ a = Code(e, t).addr
                   THEN NewVal(e, t) ELSE e.val[a]]

LiveAfter(e, t) ==
  IF Code(e, t).op = "ret" THEN e.live \ {t}
  ELSE IF Code(e, t).op = "spawn" THEN e.live \cup {Code(e, t).num} ELSE e.live

LockedAfter(e, t) ==
  [a \in Addrs |-> IF Code(e, t).op \in {"lock", "trylock", "unlock"} /\ a = Code(e, t).addr
                   THEN Code(e, t).op # "unlock" ELSE e.locked[a]]

WaitingAfter(e, t) ==
  [a \in Addrs |-> IF Code(e, t).op = "unlock" /\ a = Code(e, t).addr THEN {}
                   ELSE e.waiting[a]]

AwaitsAfter(e, t) ==
  IF Code(e, t).op \in GlobalOps THEN e.blocking_awaits \ Woken(e, t)
  ELSE e.blocking_awaits

-----------------------------------------------------------------------------
(* One step.                                                               *)

(* The instruction that a thread has come to.                              *)
LEMMA Instruction ==
  ASSUME prog \in Programs, NEW e \in Engines, NEW t \in Threads
  PROVE  LET i == Code(e, t) IN
         /\ i.op \in GlobalOps \cup MutexOps \cup ThreadOps \cup {"nondet", "ret"}
         /\ i.op \in GlobalOps \cup MutexOps => i.addr \in Addrs
         /\ i.op \in ThreadOps => i.num \in Threads
         /\ i.val \in Int /\ i.num \in Nat
<1>1. e.pc[t] \in Nat \ {0} /\ Len(prog.code[t]) \in Nat
  BY ProgramAssumption DEF Engines
<1>2. CASE e.pc[t] <= Len(prog.code[t])
  <2>1. e.pc[t] \in 1..Len(prog.code[t]) /\ Code(e, t) = prog.code[t][e.pc[t]]
    BY <1>1, <1>2 DEF Code
  <2> DEFINE c == prog.code[t][e.pc[t]]
  <2>2. /\ c.op \in GlobalOps \cup MutexOps \cup ThreadOps \cup {"nondet"}
        /\ c.op \in GlobalOps \cup MutexOps => c.addr \in Addrs
        /\ c.op \in ThreadOps => c.num \in Threads
        /\ c.val \in Int /\ c.num \in Nat
    BY <2>1, ProgramAssumption, Zenon
  <2> HIDE DEF c
  <2>3. Code(e, t) = c
    BY <2>1 DEF c
  <2> QED BY <2>2, <2>3
<1>3. CASE ~(e.pc[t] <= Len(prog.code[t]))
  <2>1. Code(e, t) = Ret
    BY <1>3 DEF Code
  <2>2. Ret.op = "ret" /\ Ret.val = 0 /\ Ret.num = 0
    BY DEF Ret
  <2> QED BY <2>1, <2>2 DEF GlobalOps, MutexOps, ThreadOps
<1> QED BY <1>2, <1>3

(* Another thread is at the same instruction as before.                    *)
LEMMA SameCode ==
  ASSUME NEW e, NEW f, NEW u, f.pc[u] = e.pc[u]
  PROVE  Code(f, u) = Code(e, u)
BY DEF Code

(* A branch never goes back.                                               *)
LEMMA SkippedIs ==
  ASSUME prog \in Programs, NEW e \in Engines, NEW t \in Threads
  PROVE  Skipped(e, Code(e, t)) \in Nat
BY Instruction DEF Skipped

(* The value that an instruction leaves is an integer.                     *)
LEMMA NewValIs ==
  ASSUME prog \in Programs, NEW e \in Engines, NEW t \in Threads,
         Code(e, t).op \in GlobalOps
  PROVE  NewVal(e, t) \in Int
<1>1. Code(e, t).addr \in Addrs /\ Code(e, t).val \in Int
  BY Instruction
<1>2. e.val[Code(e, t).addr] \in Int
  BY <1>1 DEF Engines
<1> QED BY <1>1, <1>2 DEF NewVal, GlobalOps

(* Execute(), part by part.                                                *)
LEMMA ExecuteIs ==
  ASSUME prog \in Programs, NEW e \in Engines, NEW t \in Threads
  PROVE  /\ Execute(e, t) \in Engines
         /\ Execute(e, t).pc = PCAfter(e, t)
         /\ Execute(e, t).val = ValAfter(e, t)
         /\ Execute(e, t).live = LiveAfter(e, t)
         /\ Execute(e, t).locked = LockedAfter(e, t)
         /\ Execute(e, t).waiting = WaitingAfter(e, t)
         /\ Execute(e, t).blocking_awaits = AwaitsAfter(e, t)
         /\ Execute(e, t).AwaitingJoin = e.AwaitingJoin
<1> DEFINE i == Code(e, t)
           f == [e EXCEPT !.pc[t] = @ + 1 + Skipped(e, i)]
<1>1. /\ i.op \in GlobalOps \cup MutexOps \cup ThreadOps \cup {"nondet", "ret"}
      /\ i.op \in GlobalOps \cup MutexOps => i.addr \in Addrs
      /\ i.op \in ThreadOps => i.num \in Threads
  BY Instruction
<1>2. /\ f = [e EXCEPT !.pc = PCAfter(e, t)]
      /\ PCAfter(e, t) \in [Threads -> Nat \ {0}]
  BY SkippedIs DEF Engines, PCAfter
<1>3. f \in Engines /\ f.pc = PCAfter(e, t) /\ f.val = e.val /\ f.live = e.live
      /\ f.locked = e.locked /\ f.waiting = e.waiting
      /\ f.blocking_awaits = e.blocking_awaits /\ f.AwaitingJoin = e.AwaitingJoin
  BY <1>2 DEF Engines
<1>4. f = [pc |-> PCAfter(e, t), val |-> e.val, live |-> e.live, locked |-> e.locked,
           waiting |-> e.waiting, blocking_awaits |-> e.blocking_awaits,
           AwaitingJoin |-> e.AwaitingJoin]
  BY <1>2 DEF Engines
<1> HIDE DEF f
<1>5. /\ e.val \in [Addrs -> Int] /\ e.live \subseteq Threads
      /\ e.locked \in [Addrs -> BOOLEAN] /\ e.waiting \in [Addrs -> SUBSET Threads]
      /\ e.blocking_awaits \subseteq Threads
  BY DEF Engines
<1> USE DEF GlobalOps, MutexOps, ThreadOps
<1>6. ASSUME i.op \notin GlobalOps
      PROVE  ValAfter(e, t) = e.val /\ AwaitsAfter(e, t) = e.blocking_awaits
  BY <1>5, <1>6 DEF ValAfter, AwaitsAfter
<1>7. ASSUME i.op \notin {"lock", "trylock", "unlock"}
      PROVE  LockedAfter(e, t) = e.locked /\ WaitingAfter(e, t) = e.waiting
  BY <1>5, <1>7 DEF LockedAfter, WaitingAfter
<1>8. CASE i.op = "ret"
  <2>1. Execute(e, t) = [f EXCEPT !.live = @ \ {t}]
    BY <1>8 DEF Execute, f
  <2>2. LiveAfter(e, t) = e.live \ {t}
    BY <1>8 DEF LiveAfter
  <2> QED BY <1>3, <1>4, <1>6, <1>7, <1>8, <2>1, <2>2 DEF Engines
<1>9. CASE i.op = "spawn"
  <2>1. Execute(e, t) = [f EXCEPT !.live = @ \cup {i.num}]
    BY <1>9 DEF Execute, f
  <2>2. LiveAfter(e, t) = e.live \cup {i.num} /\ i.num \in Threads
    BY <1>1, <1>9 DEF LiveAfter
  <2> QED BY <1>3, <1>4, <1>6, <1>7, <1>9, <2>1, <2>2 DEF Engines
<1>10. CASE i.op \in {"lock", "trylock"}
  <2>1. Execute(e, t) = [f EXCEPT !.locked[i.addr] = TRUE]
    BY <1>10 DEF Execute, f
  <2>2. /\ LockedAfter(e, t) = [e.locked EXCEPT ![i.addr] = TRUE]
        /\ LockedAfter(e, t) \in [Addrs -> BOOLEAN]
    BY <1>1, <1>5, <1>10, Zenon DEF LockedAfter
  <2>3. LiveAfter(e, t) = e.live /\ WaitingAfter(e, t) = e.waiting
    BY <1>5, <1>10 DEF LiveAfter, WaitingAfter
  <2>4. Execute(e, t) = [pc |-> PCAfter(e, t), val |-> e.val, live |-> e.live,
                         locked |-> LockedAfter(e, t), waiting |-> e.waiting,
                         blocking_awaits |-> e.blocking_awaits, AwaitingJoin |-> e.AwaitingJoin]
    BY <1>4, <2>1, <2>2, Zenon
  <2> QED BY <1>3, <1>6, <1>10, <2>2, <2>3, <2>4 DEF Engines
<1>11. CASE i.op = "unlock"
  <2>1. Execute(e, t) = [f EXCEPT !.locked[i.addr] = FALSE, !.waiting[i.addr] = {}]
    BY <1>11 DEF Execute, f
  <2>2. /\ LockedAfter(e, t) = [e.locked EXCEPT ![i.addr] = FALSE]
        /\ LockedAfter(e, t) \in [Addrs -> BOOLEAN]
    BY <1>1, <1>5, <1>11, Zenon DEF LockedAfter
  <2>3. /\ WaitingAfter(e, t) = [e.waiting EXCEPT ![i.addr] = {}]
        /\ WaitingAfter(e, t) \in [Addrs -> SUBSET Threads]
    BY <1>1, <1>5, <1>11, Zenon DEF WaitingAfter
  <2>4. LiveAfter(e, t) = e.live
    BY <1>11 DEF LiveAfter
  <2>5. Execute(e, t) = [pc |-> PCAfter(e, t), val |-> e.val, live |-> e.live,
                         locked |-> LockedAfter(e, t), waiting |-> WaitingAfter(e, t),
                         blocking_awaits |-> e.blocking_awaits, AwaitingJoin |-> e.AwaitingJoin]
    BY <1>4, <2>1, <2>2, <2>3, Zenon
  <2> QED BY <1>3, <1>6, <1>11, <2>2, <2>3, <2>4, <2>5 DEF Engines
<1>12. CASE i.op \in {"nondet", "join", "minit", "mdestroy"}
  <2>1. Execute(e, t) = f
    BY <1>12 DEF Execute, f
  <2>2. LiveAfter(e, t) = e.live
    BY <1>12 DEF LiveAfter
  <2> QED BY <1>3, <1>6, <1>7, <1>12, <2>1, <2>2
<1>13. CASE i.op \in GlobalOps
  <2>1. Execute(e, t) = [f EXCEPT !.val[i.addr] = NewVal(e, t),
                                  !.blocking_awaits = @ \ Woken(e, t)]
    BY <1>13 DEF Execute, f
  <2>2. NewVal(e, t) \in Int
    BY <1>13, NewValIs
  <2>3. /\ ValAfter(e, t) = [e.val EXCEPT ![i.addr] = NewVal(e, t)]
        /\ ValAfter(e, t) \in [Addrs -> Int]
    BY <1>1, <1>5, <1>13, <2>2 DEF ValAfter
  <2>4. AwaitsAfter(e, t) = e.blocking_awaits \ Woken(e, t)
    BY <1>13 DEF AwaitsAfter
  <2>5. LiveAfter(e, t) = e.live
    BY <1>13 DEF LiveAfter
  <2>6. Execute(e, t) = [pc |-> PCAfter(e, t), val |-> ValAfter(e, t), live |-> e.live,
                         locked |-> e.locked, waiting |-> e.waiting,
                         blocking_awaits |-> AwaitsAfter(e, t), AwaitingJoin |-> e.AwaitingJoin]
    BY <1>4, <2>1, <2>3, <2>4, Zenon
  <2> QED BY <1>3, <1>5, <1>7, <1>13, <2>3, <2>4, <2>5, <2>6 DEF Engines
<1> QED BY <1>1, <1>8, <1>9, <1>10, <1>11, <1>12, <1>13

-----------------------------------------------------------------------------
(* Events.                                                                 *)

(* Whether the instruction of t reads a global and leaves it as it is.     *)
ReadOnly(e, t) ==
  \/ Code(e, t).op \in {"load", "await"}
  \/ Code(e, t).op = "cas" /\ e.val[Code(e, t).addr] # Code(e, t).exp

(* What visit() says of an instruction.                                    *)
LEMMA VisitIs ==
  ASSUME prog \in Programs, NEW e \in Engines, NEW t \in Threads
  PROVE  LET i == Code(e, t)  x == visit(e, t) IN
         /\ i.op \in GlobalOps \cup MutexOps => has_addr(x) /\ x.addr = i.addr
         /\ i.op \in GlobalOps => (symev_is_load(x) <=> ReadOnly(e, t))
         /\ i.op \in MutexOps =>
              ~symev_is_load(x) /\ x.kind # "UNOBS_STORE" /\ x.kind # "RMW"
         /\ x.kind = "UNOBS_STORE" => i.op = "store"
         /\ x.kind = "RMW" => i.op = "add" /\ x.used = i.used
         /\ i.op = "spawn" => x.kind = "SPAWN" /\ x.num = i.num
         /\ i.op = "join" => x.kind = "JOIN" /\ x.num = i.num
<1> DEFINE i == Code(e, t)
<1>1. i.op \in GlobalOps \cup MutexOps \cup ThreadOps \cup {"nondet", "ret"}
  BY Instruction
<1> USE DEF GlobalOps, MutexOps, ThreadOps, Sym, has_addr, symev_is_load, ReadOnly
<1>2. CASE i.op \in {"load", "await"}
  BY <1>2, Zenon DEF visit, Load, LoadAwait
<1>3. CASE i.op = "store"
  BY <1>3 DEF visit, Store, UnobsStore
<1>4. CASE i.op = "add"
  BY <1>4 DEF visit, Rmw
<1>5. CASE i.op = "cas"
  BY <1>5 DEF visit, CmpXhg, CmpXhgFail
<1>6. CASE i.op \in {"lock", "unlock"}
  BY <1>6, Zenon DEF visit, MLock, MUnlock
<1>7. CASE i.op \in {"trylock", "minit", "mdestroy"}
  BY <1>7, Zenon DEF visit, MTryLock, MTryLockFail, MInit, MDelete
<1>8. CASE i.op \in ThreadOps
  BY <1>8, Zenon DEF visit, Spawn, Join
<1>9. CASE i.op \in {"nondet", "ret"}
  BY <1>9, Zenon DEF visit, Nondet, NoSym
<1> QED BY <1>1, <1>2, <1>3, <1>4, <1>5, <1>6, <1>7, <1>8, <1>9, Zenon

(* Whether two events conflict does not depend on which one is first.      *)
THEOREM ConflictsAreSymmetric ==
  ASSUME NEW p, NEW x, NEW q, NEW y
  PROVE  do_events_conflict(p, x, q, y) <=> do_events_conflict(q, y, p, x)
<1>1. rmwaction_commutes(x, y) <=> rmwaction_commutes(y, x)
  BY DEF rmwaction_commutes
<1>2. do_symevs_conflict(x, y) <=> do_symevs_conflict(y, x)
  BY <1>1 DEF do_symevs_conflict
<1> QED BY <1>2 DEF do_events_conflict

(* The next events of t and u do not conflict.  Unobserved stores to one   *)
(* location, which do_symevs_conflict() leaves to is_observed_conflict(),  *)
(* are not meant; and a thread is joined by the identifier that its        *)
(* creation returned, so that nobody joins it before it is created.        *)
Independent(e, t, u) ==
  LET x == visit(e, t)  y == visit(e, u) IN
  /\ ~do_events_conflict(t, x, u, y)
  /\ ~(x.kind = "UNOBS_STORE" /\ y.kind = "UNOBS_STORE" /\ x.addr = y.addr)
  /\ ~({x.kind, y.kind} = {"SPAWN", "JOIN"} /\ x.num = y.num)

(* Both add to the same global.                                            *)
BothAdd(e, t, u) ==
  Code(e, t).op = "add" /\ Code(e, u).op = "add" /\ Code(e, t).addr = Code(e, u).addr

(* Independence is symmetric.                                              *)
LEMMA IndependenceIsSymmetric ==
  ASSUME NEW e, NEW t, NEW u, Independent(e, t, u)
  PROVE  Independent(e, u, t)
<1> DEFINE x == visit(e, t)
           y == visit(e, u)
<1>1. ~do_events_conflict(u, y, t, x)
  BY ConflictsAreSymmetric, Zenon DEF Independent
<1>2. {x.kind, y.kind} = {y.kind, x.kind}
  OBVIOUS
<1> HIDE DEF x, y
<1>3. /\ ~(x.kind = "UNOBS_STORE" /\ y.kind = "UNOBS_STORE" /\ x.addr = y.addr)
      /\ ~({x.kind, y.kind} = {"SPAWN", "JOIN"} /\ x.num = y.num)
  BY Zenon DEF Independent, x, y
<1> QED BY <1>1, <1>2, <1>3 DEF Independent, x, y

(* Independent instructions that access the same location both only read   *)
(* it, or both add to it.                                                  *)
LEMMA SameAddress ==
  ASSUME prog \in Programs, NEW e \in Engines, NEW t \in Threads, NEW u \in Threads,
         Independent(e, t, u),
         Code(e, t).op \in GlobalOps \cup MutexOps,
         Code(e, u).op \in GlobalOps \cup MutexOps,
         Code(e, t).addr = Code(e, u).addr
  PROVE  /\ Code(e, t).op \in GlobalOps /\ Code(e, u).op \in GlobalOps
         /\ (ReadOnly(e, t) /\ ReadOnly(e, u)) \/ BothAdd(e, t, u)
<1> DEFINE x == visit(e, t)
           y == visit(e, u)
<1>1. /\ has_addr(x) /\ x.addr = Code(e, t).addr
      /\ Code(e, t).op \in GlobalOps => (symev_is_load(x) <=> ReadOnly(e, t))
      /\ Code(e, t).op \in MutexOps =>
           ~symev_is_load(x) /\ x.kind # "UNOBS_STORE" /\ x.kind # "RMW"
      /\ x.kind = "UNOBS_STORE" => Code(e, t).op = "store"
      /\ x.kind = "RMW" => Code(e, t).op = "add"
  BY VisitIs
<1>2. /\ has_addr(y) /\ y.addr = Code(e, u).addr
      /\ Code(e, u).op \in GlobalOps => (symev_is_load(y) <=> ReadOnly(e, u))
      /\ Code(e, u).op \in MutexOps =>
           ~symev_is_load(y) /\ y.kind # "UNOBS_STORE" /\ y.kind # "RMW"
      /\ y.kind = "UNOBS_STORE" => Code(e, u).op = "store"
      /\ y.kind = "RMW" => Code(e, u).op = "add"
  BY VisitIs
<1>3. ~do_symevs_conflict(x, y)
  BY DEF Independent, do_events_conflict
<1>4. ~(x.kind = "UNOBS_STORE" /\ y.kind = "UNOBS_STORE" /\ x.addr = y.addr)
  BY Zenon DEF Independent
<1> HIDE DEF x, y
<1>5. \/ symev_is_load(x) /\ symev_is_load(y)
      \/ x.kind = "RMW" /\ y.kind = "RMW"
  BY <1>1, <1>2, <1>3, <1>4 DEF do_symevs_conflict, rmwaction_commutes
<1> QED BY <1>1, <1>2, <1>5 DEF BothAdd

-----------------------------------------------------------------------------
(* A step of t, seen by an independent instruction of u.                   *)

(* What the instruction of u depends on is as it was, unless both add.     *)
LEMMA Undisturbed ==
  ASSUME prog \in Programs, NEW e \in Engines, NEW t \in Threads,
         NEW u \in Threads \ {t}, Independent(e, t, u)
  PROVE  LET f == Execute(e, t)  j == Code(e, u) IN
         /\ f \in Engines
         /\ f.pc[u] = e.pc[u]
         /\ Code(f, u) = j
         /\ j.op \in GlobalOps /\ ~BothAdd(e, t, u) => f.val[j.addr] = e.val[j.addr]
         /\ j.op \in MutexOps => f.locked[j.addr] = e.locked[j.addr]
         /\ j.op = "join" /\ j.num \notin e.live => j.num \notin f.live
         /\ u \in e.live => u \in f.live
<1> DEFINE f == Execute(e, t)
           i == Code(e, t)
           j == Code(e, u)
<1>1. /\ f \in Engines /\ f.pc = PCAfter(e, t) /\ f.val = ValAfter(e, t)
      /\ f.live = LiveAfter(e, t) /\ f.locked = LockedAfter(e, t)
  BY ExecuteIs
<1>2. f.pc[u] = e.pc[u]
  BY <1>1 DEF PCAfter
<1>3. j.op \in GlobalOps \cup MutexOps => j.addr \in Addrs
  BY Instruction
<1>4. Code(f, u) = j
  BY <1>2, SameCode
<1>5. ASSUME j.op \in GlobalOps, ~BothAdd(e, t, u)
      PROVE  f.val[j.addr] = e.val[j.addr]
  <2>1. CASE i.op \in GlobalOps /\ i.addr = j.addr
    <3>1. ReadOnly(e, t)
      BY <1>5, <2>1, SameAddress
    <3>2. NewVal(e, t) = e.val[i.addr]
      BY <3>1 DEF ReadOnly, NewVal
    <3> QED BY <1>1, <1>3, <1>5, <2>1, <3>2 DEF ValAfter
  <2>2. CASE ~(i.op \in GlobalOps /\ i.addr = j.addr)
    BY <1>1, <1>3, <1>5, <2>2 DEF ValAfter
  <2> QED BY <2>1, <2>2
<1>6. ASSUME j.op \in MutexOps
      PROVE  f.locked[j.addr] = e.locked[j.addr]
  <2>1. ~(i.op \in {"lock", "trylock", "unlock"} /\ j.addr = i.addr)
    <3> SUFFICES ASSUME i.op \in {"lock", "trylock", "unlock"}, j.addr = i.addr
                 PROVE  FALSE
      OBVIOUS
    <3>1. i.op \in GlobalOps \cup MutexOps /\ i.op \notin GlobalOps
      BY DEF GlobalOps, MutexOps
    <3> QED BY <1>6, <3>1, SameAddress
  <2> QED BY <1>1, <1>3, <1>6, <2>1 DEF LockedAfter
<1>7. ASSUME j.op = "join", j.num \notin e.live
      PROVE  j.num \notin f.live
  <2>1. visit(e, u).kind = "JOIN" /\ visit(e, u).num = j.num
    BY <1>7, VisitIs
  <2>2. i.op = "spawn" => visit(e, t).kind = "SPAWN" /\ visit(e, t).num = i.num
    BY VisitIs
  <2>3. ~(i.op = "spawn" /\ i.num = j.num)
    BY <2>1, <2>2, Zenon DEF Independent
  <2> QED BY <1>1, <1>7, <2>3 DEF LiveAfter
<1>8. u \in e.live => u \in f.live
  BY <1>1 DEF LiveAfter
<1> QED BY <1>1, <1>2, <1>4, <1>5, <1>6, <1>7, <1>8

(* An event, but for the value that an addition writes.                    *)
Described(x) == [x EXCEPT !.written = 0]

(* u computes, branches and tells the trace builder as it would have       *)
(* before the step of t; if both add, u adds to what t has added.          *)
LEMMA SameEffect ==
  ASSUME prog \in Programs, NEW e \in Engines, NEW t \in Threads,
         NEW u \in Threads \ {t}, Independent(e, t, u)
  PROVE  LET f == Execute(e, t) IN
         /\ Skipped(f, Code(f, u)) = Skipped(e, Code(e, u))
         /\ checkRefuse(f, u) => checkRefuse(e, u)
         /\ ReadOnly(f, u) <=> ReadOnly(e, u)
         /\ Described(visit(f, u)) = Described(visit(e, u))
         /\ Code(e, u).op \in GlobalOps /\ ~BothAdd(e, t, u) => NewVal(f, u) = NewVal(e, u)
         /\ BothAdd(e, t, u) =>
              NewVal(f, u) = e.val[Code(e, u).addr] + Code(e, t).val + Code(e, u).val
<1> DEFINE f == Execute(e, t)
           i == Code(e, t)
           j == Code(e, u)
<1>1. /\ f \in Engines /\ Code(f, u) = j
      /\ j.op \in GlobalOps /\ ~BothAdd(e, t, u) => f.val[j.addr] = e.val[j.addr]
      /\ j.op \in MutexOps => f.locked[j.addr] = e.locked[j.addr]
      /\ j.op = "join" /\ j.num \notin e.live => j.num \notin f.live
  BY Undisturbed
<1>2. /\ j.op \in GlobalOps \cup MutexOps \cup ThreadOps \cup {"nondet", "ret"}
      /\ j.val \in Int /\ i.val \in Int
      /\ j.op \in GlobalOps => j.addr \in Addrs
  BY Instruction
<1>3. BothAdd(e, t, u) => i.op = "add" /\ j.op = "add" /\ i.addr = j.addr
  BY DEF BothAdd
<1>4. BothAdd(e, t, u) => f.val[j.addr] = e.val[j.addr] + i.val
  <2> SUFFICES ASSUME BothAdd(e, t, u)  PROVE f.val[j.addr] = e.val[j.addr] + i.val
    OBVIOUS
  <2>1. i.op = "add" /\ j.op = "add" /\ i.addr = j.addr /\ j.addr \in Addrs
    BY <1>2, <1>3 DEF GlobalOps
  <2>2. f.val = ValAfter(e, t)
    BY ExecuteIs
  <2>3. NewVal(e, t) = e.val[i.addr] + i.val
    BY <2>1 DEF NewVal
  <2> QED BY <2>1, <2>2, <2>3 DEF ValAfter, GlobalOps
<1> HIDE DEF f
<1> USE DEF GlobalOps, MutexOps, ThreadOps
<1>5. Skipped(f, j) = Skipped(e, j)
  BY <1>1, <1>3 DEF Skipped
<1>6. checkRefuse(f, u) => checkRefuse(e, u)
  BY <1>1, <1>3 DEF checkRefuse
<1>7. ReadOnly(f, u) <=> ReadOnly(e, u)
  BY <1>1, <1>3 DEF ReadOnly
<1>8. j.op \in GlobalOps /\ ~BothAdd(e, t, u) => NewVal(f, u) = NewVal(e, u)
  BY <1>1 DEF NewVal
<1>9. BothAdd(e, t, u) => NewVal(f, u) = e.val[j.addr] + i.val + j.val
  BY <1>1, <1>3, <1>4 DEF NewVal
<1>10. Described(visit(f, u)) = Described(visit(e, u))
  <2>1. CASE j.op = "add"
    <3>1. visit(f, u) = Rmw(j.addr, NewVal(f, u), j.val, j.used)
      BY <1>1, <2>1 DEF visit
    <3>2. visit(e, u) = Rmw(j.addr, NewVal(e, u), j.val, j.used)
      BY <2>1 DEF visit
    <3> QED BY <3>1, <3>2 DEF Described, Rmw, Sym
  <2>2. CASE j.op = "cas"
    <3>1. f.val[j.addr] = e.val[j.addr]
      BY <1>1, <1>3, <2>2
    <3> QED BY <1>1, <2>2, <3>1 DEF visit
  <2>3. CASE j.op = "trylock"
    BY <1>1, <2>3 DEF visit
  <2>4. CASE j.op \notin {"add", "cas", "trylock"}
    BY <1>1, <1>2, <2>4 DEF visit
  <2> QED BY <2>1, <2>2, <2>3, <2>4
<1> QED BY <1>1, <1>5, <1>6, <1>7, <1>8, <1>9, <1>10 DEF f

-----------------------------------------------------------------------------
(* Two steps, in either order.                                             *)

(* The program counters and the threads that run.                          *)
LEMMA ThreadsCommute ==
  ASSUME prog \in Programs, NEW e \in Engines, NEW t \in Threads,
         NEW u \in Threads \ {t}, Independent(e, t, u)
  PROVE  /\ Execute(Execute(e, t), u).pc = Execute(Execute(e, u), t).pc
         /\ Execute(Execute(e, t), u).live = Execute(Execute(e, u), t).live
         /\ Execute(Execute(e, t), u).AwaitingJoin = Execute(Execute(e, u), t).AwaitingJoin
<1> DEFINE f == Execute(e, t)
           g == Execute(e, u)
           i == Code(e, t)
           j == Code(e, u)
<1>0. t \in Threads \ {u} /\ Independent(e, u, t)
  BY IndependenceIsSymmetric
<1>1. /\ f \in Engines /\ f.pc = PCAfter(e, t) /\ f.live = LiveAfter(e, t)
      /\ f.AwaitingJoin = e.AwaitingJoin
      /\ g \in Engines /\ g.pc = PCAfter(e, u) /\ g.live = LiveAfter(e, u)
      /\ g.AwaitingJoin = e.AwaitingJoin
  BY ExecuteIs
<1>2. Code(f, u) = j /\ Code(g, t) = i
  BY <1>0, Undisturbed
<1>3. Skipped(f, j) = Skipped(e, j) /\ Skipped(g, i) = Skipped(e, i)
  BY <1>0, <1>2, SameEffect
<1> HIDE DEF f, g
<1>4. /\ Execute(f, u).pc = PCAfter(f, u) /\ Execute(f, u).live = LiveAfter(f, u)
      /\ Execute(f, u).AwaitingJoin = e.AwaitingJoin
      /\ Execute(g, t).pc = PCAfter(g, t) /\ Execute(g, t).live = LiveAfter(g, t)
      /\ Execute(g, t).AwaitingJoin = e.AwaitingJoin
  BY <1>1, ExecuteIs
<1>5. PCAfter(f, u) = PCAfter(g, t)
  BY <1>1, <1>2, <1>3 DEF PCAfter
<1>6. ~(i.op = "spawn" /\ i.num = u) /\ ~(j.op = "spawn" /\ j.num = t)
  BY VisitIs DEF Independent, do_events_conflict, symev_has_pid
<1>7. LiveAfter(f, u) = LiveAfter(g, t)
  BY <1>1, <1>2, <1>6 DEF LiveAfter
<1> QED BY <1>4, <1>5, <1>7 DEF f, g

(* The globals.                                                            *)
LEMMA GlobalsCommute ==
  ASSUME prog \in Programs, NEW e \in Engines, NEW t \in Threads,
         NEW u \in Threads \ {t}, Independent(e, t, u)
  PROVE  Execute(Execute(e, t), u).val = Execute(Execute(e, u), t).val
<1> DEFINE f == Execute(e, t)
           g == Execute(e, u)
           i == Code(e, t)
           j == Code(e, u)
<1>0. t \in Threads \ {u} /\ Independent(e, u, t)
  BY IndependenceIsSymmetric
<1>1. f \in Engines /\ f.val = ValAfter(e, t) /\ g \in Engines /\ g.val = ValAfter(e, u)
  BY ExecuteIs
<1>2. Code(f, u) = j /\ Code(g, t) = i
  BY <1>0, Undisturbed
<1>3. BothAdd(e, t, u) <=> BothAdd(e, u, t)
  BY DEF BothAdd
<1>4. /\ j.op \in GlobalOps /\ ~BothAdd(e, t, u) => NewVal(f, u) = NewVal(e, u)
      /\ BothAdd(e, t, u) => NewVal(f, u) = e.val[j.addr] + i.val + j.val
  BY SameEffect
<1>5. /\ i.op \in GlobalOps /\ ~BothAdd(e, t, u) => NewVal(g, t) = NewVal(e, t)
      /\ BothAdd(e, t, u) => NewVal(g, t) = e.val[i.addr] + j.val + i.val
  BY <1>0, <1>3, SameEffect
<1> HIDE DEF f, g
<1>6. Execute(f, u).val = ValAfter(f, u) /\ Execute(g, t).val = ValAfter(g, t)
  BY <1>1, ExecuteIs
<1>7. ASSUME NEW a \in Addrs
      PROVE  ValAfter(f, u)[a] = ValAfter(g, t)[a]
  <2>1. ValAfter(f, u)[a] = IF j.op \in GlobalOps /\ a = j.addr THEN NewVal(f, u)
                            ELSE IF i.op \in GlobalOps /\ a = i.addr THEN NewVal(e, t)
                            ELSE e.val[a]
    BY <1>1, <1>2 DEF ValAfter
  <2>2. ValAfter(g, t)[a] = IF i.op \in GlobalOps /\ a = i.addr THEN NewVal(g, t)
                            ELSE IF j.op \in GlobalOps /\ a = j.addr THEN NewVal(e, u)
                            ELSE e.val[a]
    BY <1>1, <1>2 DEF ValAfter
  <2>3. CASE i.op \in GlobalOps /\ a = i.addr /\ j.op \in GlobalOps /\ a = j.addr
    <3>1. (ReadOnly(e, t) /\ ReadOnly(e, u)) \/ BothAdd(e, t, u)
      BY <2>3, SameAddress, Zenon
    <3>2. CASE BothAdd(e, t, u)
      <4>1. e.val[a] \in Int /\ i.val \in Int /\ j.val \in Int
        BY Instruction DEF Engines
      <4> QED BY <1>4, <1>5, <2>1, <2>2, <2>3, <3>2, <4>1
    <3>3. CASE ReadOnly(e, t) /\ ReadOnly(e, u) /\ ~BothAdd(e, t, u)
      <4>1. NewVal(e, t) = e.val[a] /\ NewVal(e, u) = e.val[a]
        BY <2>3, <3>3 DEF ReadOnly, NewVal
      <4> QED BY <1>4, <1>5, <2>1, <2>2, <2>3, <3>3, <4>1
    <3> QED BY <3>1, <3>2, <3>3
  <2>4. CASE ~(i.op \in GlobalOps /\ a = i.addr /\ j.op \in GlobalOps /\ a = j.addr)
    <3>1. BothAdd(e, t, u) => j.op \in GlobalOps /\ i.op \in GlobalOps /\ i.addr = j.addr
      BY DEF BothAdd, GlobalOps
    <3> QED BY <1>4, <1>5, <2>1, <2>2, <2>4, <3>1
  <2> QED BY <2>3, <2>4
<1>8. ValAfter(f, u) = ValAfter(g, t)
  BY <1>7 DEF ValAfter
<1> QED BY <1>6, <1>8 DEF f, g

(* The mutexes and who waits for them.                                     *)
LEMMA MutexesCommute ==
  ASSUME prog \in Programs, NEW e \in Engines, NEW t \in Threads,
         NEW u \in Threads \ {t}, Independent(e, t, u)
  PROVE  /\ Execute(Execute(e, t), u).locked = Execute(Execute(e, u), t).locked
         /\ Execute(Execute(e, t), u).waiting = Execute(Execute(e, u), t).waiting
<1> DEFINE f == Execute(e, t)
           g == Execute(e, u)
           i == Code(e, t)
           j == Code(e, u)
<1>0. t \in Threads \ {u} /\ Independent(e, u, t)
  BY IndependenceIsSymmetric
<1>1. /\ f \in Engines /\ f.locked = LockedAfter(e, t) /\ f.waiting = WaitingAfter(e, t)
      /\ g \in Engines /\ g.locked = LockedAfter(e, u) /\ g.waiting = WaitingAfter(e, u)
  BY ExecuteIs
<1>2. Code(f, u) = j /\ Code(g, t) = i
  BY <1>0, Undisturbed
<1>3. i.op \in MutexOps /\ j.op \in MutexOps => i.addr # j.addr
  BY SameAddress DEF GlobalOps, MutexOps
<1> HIDE DEF f, g
<1>4. /\ Execute(f, u).locked = LockedAfter(f, u) /\ Execute(f, u).waiting = WaitingAfter(f, u)
      /\ Execute(g, t).locked = LockedAfter(g, t) /\ Execute(g, t).waiting = WaitingAfter(g, t)
  BY <1>1, ExecuteIs
<1>5. ASSUME NEW a \in Addrs
      PROVE  /\ LockedAfter(f, u)[a] = LockedAfter(g, t)[a]
             /\ WaitingAfter(f, u)[a] = WaitingAfter(g, t)[a]
  BY <1>1, <1>2, <1>3 DEF LockedAfter, WaitingAfter, MutexOps
<1>6. LockedAfter(f, u) = LockedAfter(g, t) /\ WaitingAfter(f, u) = WaitingAfter(g, t)
  BY <1>5 DEF LockedAfter, WaitingAfter
<1> QED BY <1>4, <1>6 DEF f, g

-----------------------------------------------------------------------------
(* Awaits.                                                                 *)

(* Every thread in blocking_awaits is at an await that cannot go on.       *)
AwaitsBlocked(e) ==
  \A w \in e.blocking_awaits : Code(e, w).op = "await" /\ checkRefuse(e, w)

(* A step takes out of blocking_awaits the threads that can now go on, and *)
(* no other.                                                               *)
LEMMA AwaitsLeft ==
  ASSUME prog \in Programs, NEW e \in Engines, AwaitsBlocked(e), NEW t \in Enabled(e)
  PROVE  /\ t \notin e.blocking_awaits
         /\ Execute(e, t).blocking_awaits =
              {w \in e.blocking_awaits : Execute(e, t).val[Code(e, w).addr] # Code(e, w).exp}
         /\ \A w \in e.blocking_awaits : Code(Execute(e, t), w) = Code(e, w)
<1> DEFINE f == Execute(e, t)
           i == Code(e, t)
<1>1. t \in Threads /\ ~checkRefuse(e, t)
  BY DEF Enabled, Engines
<1>2. t \notin e.blocking_awaits
  BY <1>1 DEF AwaitsBlocked
<1>3. /\ f \in Engines /\ f.pc = PCAfter(e, t) /\ f.val = ValAfter(e, t)
      /\ f.blocking_awaits = AwaitsAfter(e, t)
  BY <1>1, ExecuteIs
<1>4. e.blocking_awaits \subseteq Threads
  BY DEF Engines
<1> HIDE DEF f
<1>5. ASSUME NEW w \in e.blocking_awaits
      PROVE  /\ Code(f, w) = Code(e, w)
             /\ w \in f.blocking_awaits <=> f.val[Code(e, w).addr] # Code(e, w).exp
  <2> DEFINE c == Code(e, w)
  <2>1. f.pc[w] = e.pc[w]
    BY <1>2, <1>3, <1>4 DEF PCAfter
  <2>2. Code(f, w) = c
    BY <2>1, SameCode
  <2>3. c.op = "await" /\ c.addr \in Addrs /\ e.val[c.addr] # c.exp
    BY <1>4, Instruction DEF AwaitsBlocked, checkRefuse, GlobalOps
  <2> HIDE DEF c
  <2>4. w \in Woken(e, t) /\ i.op \in GlobalOps <=>
          i.op \in GlobalOps /\ ~ReadOnly(e, t) /\ c.addr = i.addr /\ c.exp = NewVal(e, t)
    BY DEF Woken, CheckAwaitWakeup, GlobalOps, ReadOnly, c
  <2>5. i.op \in GlobalOps /\ ReadOnly(e, t) => NewVal(e, t) = e.val[i.addr]
    BY DEF ReadOnly, NewVal
  <2>6. w \in f.blocking_awaits <=> f.val[c.addr] # c.exp
    BY <1>3, <2>3, <2>4, <2>5 DEF AwaitsAfter, ValAfter
  <2> QED BY <2>2, <2>6 DEF c
<1>6. f.blocking_awaits \subseteq e.blocking_awaits
  BY <1>3 DEF AwaitsAfter
<1>7. f.blocking_awaits = {w \in e.blocking_awaits : f.val[Code(e, w).addr] # Code(e, w).exp}
  BY <1>5, <1>6
<1> QED BY <1>2, <1>5, <1>7 DEF f

(* The interpreter starts, steps and refuses a thread within Engines, and  *)
(* blocking_awaits never holds a thread that could go on: no wake-up of an *)
(* await is missed.                                                        *)
THEOREM EnginesAreSound ==
  ASSUME prog \in Programs
  PROVE  /\ NewEngine(prog) \in Engines /\ AwaitsBlocked(NewEngine(prog))
         /\ \A e \in Engines : AwaitsBlocked(e) =>
              /\ \A t \in Enabled(e) :
                   Execute(e, t) \in Engines /\ AwaitsBlocked(Execute(e, t))
              /\ \A t \in e.live \ Enabled(e) :
                   Refused(e, t) \in Engines /\ AwaitsBlocked(Refused(e, t))
<1>1. NewEngine(prog) \in Engines /\ AwaitsBlocked(NewEngine(prog))
  BY ProgramAssumption DEF NewEngine, Engines, AwaitsBlocked
<1>2. ASSUME NEW e \in Engines, AwaitsBlocked(e), NEW t \in Enabled(e)
      PROVE  Execute(e, t) \in Engines /\ AwaitsBlocked(Execute(e, t))
  <2> DEFINE f == Execute(e, t)
  <2>1. t \in Threads
    BY DEF Enabled, Engines
  <2>2. f \in Engines
    BY <2>1, ExecuteIs
  <2>3. /\ f.blocking_awaits =
             {w \in e.blocking_awaits : f.val[Code(e, w).addr] # Code(e, w).exp}
        /\ \A w \in e.blocking_awaits : Code(f, w) = Code(e, w)
    BY <1>2, AwaitsLeft
  <2> HIDE DEF f
  <2>4. AwaitsBlocked(f)
    BY <1>2, <2>3 DEF AwaitsBlocked, checkRefuse
  <2> QED BY <2>2, <2>4 DEF f
<1>3. ASSUME NEW e \in Engines, AwaitsBlocked(e), NEW t \in e.live \ Enabled(e)
      PROVE  Refused(e, t) \in Engines /\ AwaitsBlocked(Refused(e, t))
  <2> DEFINE i == Code(e, t)
  <2>1. t \in Threads /\ checkRefuse(e, t)
    BY DEF Enabled, Engines
  <2>2. i.op \in {"lock", "await", "join"}
    BY <2>1 DEF checkRefuse
  <2>3. /\ i.op = "lock" => i.addr \in Addrs
        /\ i.op = "join" => i.num \in Threads
    BY <2>1, Instruction DEF MutexOps, ThreadOps
  <2>4. ASSUME NEW f, f.pc = e.pc, f.val = e.val, f.live = e.live, f.locked = e.locked,
               NEW w
        PROVE  Code(f, w) = Code(e, w) /\ checkRefuse(f, w) = checkRefuse(e, w)
    BY <2>4 DEF Code, checkRefuse
  <2>5. CASE i.op = "lock"
    <3> DEFINE f == Refused(e, t)
               ws == [e.waiting EXCEPT ![i.addr] = @ \cup {t}]
    <3>1. f = [e EXCEPT !.waiting = ws]
      BY <2>5 DEF Refused
    <3>2. ws \in [Addrs -> SUBSET Threads]
      BY <2>1, <2>3, <2>5 DEF Engines
    <3> HIDE DEF f, ws
    <3>3. /\ f \in Engines /\ f.pc = e.pc /\ f.val = e.val /\ f.live = e.live
          /\ f.locked = e.locked /\ f.blocking_awaits = e.blocking_awaits
      BY <3>1, <3>2 DEF Engines
    <3>4. AwaitsBlocked(f)
      BY <1>3, <2>4, <3>3 DEF AwaitsBlocked
    <3> QED BY <3>3, <3>4 DEF f
  <2>6. CASE i.op = "await"
    <3> DEFINE f == Refused(e, t)
    <3>1. f = [e EXCEPT !.blocking_awaits = @ \cup {t}]
      BY <2>6 DEF Refused
    <3> HIDE DEF f
    <3>2. /\ f \in Engines /\ f.pc = e.pc /\ f.val = e.val /\ f.live = e.live
          /\ f.locked = e.locked /\ f.blocking_awaits = e.blocking_awaits \cup {t}
      BY <2>1, <3>1 DEF Engines
    <3>3. AwaitsBlocked(f)
      BY <1>3, <2>1, <2>4, <2>6, <3>2 DEF AwaitsBlocked
    <3> QED BY <3>2, <3>3 DEF f
  <2>7. CASE i.op = "join"
    <3> DEFINE f == Refused(e, t)
               ws == [e.AwaitingJoin EXCEPT ![i.num] = @ \cup {t}]
    <3>1. f = [e EXCEPT !.AwaitingJoin = ws]
      BY <2>7 DEF Refused
    <3>2. ws \in [Threads -> SUBSET Threads]
      BY <2>1, <2>3, <2>7 DEF Engines
    <3> HIDE DEF f, ws
    <3>3. /\ f \in Engines /\ f.pc = e.pc /\ f.val = e.val /\ f.live = e.live
          /\ f.locked = e.locked /\ f.blocking_awaits = e.blocking_awaits
      BY <3>1, <3>2 DEF Engines
    <3>4. AwaitsBlocked(f)
      BY <1>3, <2>4, <3>3 DEF AwaitsBlocked
    <3> QED BY <3>3, <3>4 DEF f
  <2> QED BY <2>2, <2>5, <2>6, <2>7
<1> QED BY <1>1, <1>2, <1>3

(* The awaits that are left, unless both add.                              *)
LEMMA AwaitsCommute ==
  ASSUME prog \in Programs, NEW e \in Engines, AwaitsBlocked(e),
         NEW t \in Enabled(e), NEW u \in Enabled(e) \ {t},
         Independent(e, t, u), ~BothAdd(e, t, u), u \in Enabled(Execute(e, t))
  PROVE  Execute(Execute(e, t), u).blocking_awaits =
           {w \in e.blocking_awaits :
              Execute(Execute(e, t), u).val[Code(e, w).addr] # Code(e, w).exp}
<1> DEFINE f == Execute(e, t)
           h == Execute(f, u)
           i == Code(e, t)
           j == Code(e, u)
<1>1. t \in Threads /\ u \in Threads \ {t} /\ e.blocking_awaits \subseteq Threads
  BY DEF Enabled, Engines
<1>2. f \in Engines /\ f.val = ValAfter(e, t) /\ Code(f, u) = j
  BY <1>1, ExecuteIs, Undisturbed
<1>3. AwaitsBlocked(f)
  BY EnginesAreSound
<1>4. /\ f.blocking_awaits =
           {w \in e.blocking_awaits : f.val[Code(e, w).addr] # Code(e, w).exp}
      /\ \A w \in e.blocking_awaits : Code(f, w) = Code(e, w)
  BY AwaitsLeft
<1>5. i.op \in GlobalOps /\ ReadOnly(e, t) => NewVal(e, t) = e.val[i.addr]
  BY DEF ReadOnly, NewVal
<1> HIDE DEF f
<1>6. /\ h.blocking_awaits =
           {w \in f.blocking_awaits : h.val[Code(f, w).addr] # Code(f, w).exp}
      /\ h.val = ValAfter(f, u)
  BY <1>1, <1>2, <1>3, AwaitsLeft, ExecuteIs DEF f
<1> HIDE DEF h
<1>7. ASSUME NEW a \in Addrs
      PROVE  f.val[a] = e.val[a] \/ f.val[a] = h.val[a]
  <2>1. CASE j.op \in GlobalOps /\ a = j.addr
    <3>1. CASE i.op \in GlobalOps /\ a = i.addr
      <4>1. ReadOnly(e, t)
        BY <1>1, <2>1, <3>1, SameAddress, Zenon
      <4> QED BY <1>2, <1>5, <3>1, <4>1 DEF ValAfter
    <3>2. CASE ~(i.op \in GlobalOps /\ a = i.addr)
      BY <1>2, <3>2 DEF ValAfter
    <3> QED BY <3>1, <3>2
  <2>2. CASE ~(j.op \in GlobalOps /\ a = j.addr)
    BY <1>2, <1>6, <2>2 DEF ValAfter
  <2> QED BY <2>1, <2>2
<1>8. ASSUME NEW w \in e.blocking_awaits
      PROVE  w \in h.blocking_awaits <=> h.val[Code(e, w).addr] # Code(e, w).exp
  <2>1. Code(e, w).addr \in Addrs /\ e.val[Code(e, w).addr] # Code(e, w).exp
    BY <1>1, Instruction DEF AwaitsBlocked, checkRefuse, GlobalOps
  <2>2. \/ f.val[Code(e, w).addr] = e.val[Code(e, w).addr]
        \/ f.val[Code(e, w).addr] = h.val[Code(e, w).addr]
    BY <1>7, <2>1
  <2> QED BY <1>4, <1>6, <2>1, <2>2
<1>9. h.blocking_awaits \subseteq e.blocking_awaits
  BY <1>4, <1>6
<1>10. h.blocking_awaits = {w \in e.blocking_awaits : h.val[Code(e, w).addr] # Code(e, w).exp}
  BY <1>8, <1>9
<1> QED BY <1>10 DEF f, h

-----------------------------------------------------------------------------
(* The theorem.                                                            *)

(* A state without the record of which awaits are blocked: two additions   *)
(* to one location wake an await that waits for the value between them in  *)
(* one order and not in the other, and it is blocked again when it is run. *)
Core(e) == [e EXCEPT !.blocking_awaits = {}]

(* What do_events_conflict() takes for independent is independent.  If two *)
(* threads can take a step and their events do not conflict, neither step  *)
(* disables the other, each thread does what it would have done had it     *)
(* gone first, and both orders lead to the same state.  An addition writes *)
(* another value after an addition, and is the same event otherwise.       *)
THEOREM Commutation ==
  ASSUME prog \in Programs, NEW e \in Engines, AwaitsBlocked(e),
         NEW t \in Enabled(e), NEW u \in Enabled(e) \ {t}, Independent(e, t, u)
  PROVE  LET tu == Execute(Execute(e, t), u)  ut == Execute(Execute(e, u), t) IN
         /\ u \in Enabled(Execute(e, t))
         /\ Described(visit(Execute(e, t), u)) = Described(visit(e, u))
         /\ Core(tu) = Core(ut)
         /\ ~BothAdd(e, t, u) => tu = ut
<1> DEFINE tu == Execute(Execute(e, t), u)
           ut == Execute(Execute(e, u), t)
<1>1. t \in Threads /\ u \in Threads \ {t} /\ t \in Threads \ {u}
  BY DEF Enabled, Engines
<1>2. Independent(e, u, t)
  BY IndependenceIsSymmetric
<1>3. u \in Enabled(Execute(e, t))
  <2>1. u \in Execute(e, t).live /\ ~checkRefuse(Execute(e, t), u)
    BY <1>1, Undisturbed, SameEffect, Zenon DEF Enabled
  <2> QED BY <2>1 DEF Enabled
<1>4. t \in Enabled(Execute(e, u))
  <2>1. t \in Execute(e, u).live /\ ~checkRefuse(Execute(e, u), t)
    BY <1>1, <1>2, Undisturbed, SameEffect, Zenon DEF Enabled
  <2> QED BY <2>1 DEF Enabled
<1>5. Described(visit(Execute(e, t), u)) = Described(visit(e, u))
  BY <1>1, SameEffect, Zenon
<1>6. Execute(e, t) \in Engines /\ Execute(e, u) \in Engines
  BY <1>1, ExecuteIs
<1>7. tu \in Engines /\ ut \in Engines
  BY <1>1, <1>6, ExecuteIs
<1>8. tu.pc = ut.pc /\ tu.live = ut.live /\ tu.AwaitingJoin = ut.AwaitingJoin
  BY <1>1, ThreadsCommute
<1>9. tu.val = ut.val
  BY <1>1, GlobalsCommute
<1>10. tu.locked = ut.locked /\ tu.waiting = ut.waiting
  BY <1>1, MutexesCommute
<1>11. ASSUME ~BothAdd(e, t, u)
       PROVE  tu.blocking_awaits = ut.blocking_awaits
  <2>1. tu.blocking_awaits =
          {w \in e.blocking_awaits : tu.val[Code(e, w).addr] # Code(e, w).exp}
    BY <1>3, <1>11, AwaitsCommute
  <2>2. ~BothAdd(e, u, t)
    BY <1>11 DEF BothAdd
  <2>3. t \in Enabled(e) \ {u} /\ u \in Enabled(e)
    BY <1>1
  <2>4. ut.blocking_awaits =
          {w \in e.blocking_awaits : ut.val[Code(e, w).addr] # Code(e, w).exp}
    BY <1>2, <1>4, <2>2, <2>3, AwaitsCommute
  <2> QED BY <1>9, <2>1, <2>4
<1> HIDE DEF tu, ut
<1>12. Core(tu) = Core(ut)
  BY <1>7, <1>8, <1>9, <1>10, Zenon DEF Engines, Core
<1>13. ~BothAdd(e, t, u) => tu = ut
  BY <1>7, <1>8, <1>9, <1>10, <1>11 DEF Engines
<1> QED BY <1>3, <1>5, <1>12, <1>13 DEF tu, ut

-----------------------------------------------------------------------------
(* Classes.                                                                *)

(* What visit() says is a SymEv.                                           *)
LEMMA VisitIsSym ==
  ASSUME prog \in Programs, NEW e \in Engines, NEW t \in Threads
  PROVE  LET v == visit(e, t) IN
         v = Sym(v.kind, v.addr, v.num, v.written, v.operand, v.used)
<1> DEFINE i == Code(e, t)
<1>1. i.op \in GlobalOps \cup MutexOps \cup ThreadOps \cup {"nondet", "ret"}
  BY Instruction
<1> USE DEF GlobalOps, MutexOps, ThreadOps, Sym
<1>2. CASE i.op \in {"load", "await"}
  BY <1>2, Zenon DEF visit, Load, LoadAwait
<1>3. CASE i.op = "store"
  BY <1>3, Zenon DEF visit, Store, UnobsStore
<1>4. CASE i.op = "add"
  BY <1>4 DEF visit, Rmw
<1>5. CASE i.op = "cas"
  BY <1>5, Zenon DEF visit, CmpXhg, CmpXhgFail
<1>6. CASE i.op \in {"lock", "unlock"}
  BY <1>6, Zenon DEF visit, MLock, MUnlock
<1>7. CASE i.op \in {"trylock", "minit", "mdestroy"}
  BY <1>7, Zenon DEF visit, MTryLock, MTryLockFail, MInit, MDelete
<1>8. CASE i.op \in ThreadOps
  BY <1>8, Zenon DEF visit, Spawn, Join
<1>9. CASE i.op \in {"nondet", "ret"}
  BY <1>9, Zenon DEF visit, Nondet, NoSym
<1> QED BY <1>1, <1>2, <1>3, <1>4, <1>5, <1>6, <1>7, <1>8, <1>9

(* What a class records of an event, without the value it writes.          *)
LEMMA SameVisible ==
  ASSUME NEW x, NEW y, Described(x) = Described(y),
         x = Sym(x.kind, x.addr, x.num, x.written, x.operand, x.used),
         y = Sym(y.kind, y.addr, y.num, y.written, y.operand, y.used),
         NEW t, NEW index, NEW alt
  PROVE  Visible(t, index, alt, x) = Visible(t, index, alt, y)
<1>1. /\ Described(x) = Sym(x.kind, x.addr, x.num, 0, x.operand, x.used)
      /\ Described(y) = Sym(y.kind, y.addr, y.num, 0, y.operand, y.used)
  BY DEF Described, Sym
<1>2. /\ x.kind = y.kind /\ x.addr = y.addr /\ x.num = y.num
      /\ x.operand = y.operand /\ x.used = y.used
  <2> DEFINE r == Sym(x.kind, x.addr, x.num, 0, x.operand, x.used)
             s == Sym(y.kind, y.addr, y.num, 0, y.operand, y.used)
  <2>1. r = s
    BY <1>1, Zenon
  <2>2. /\ r.kind = x.kind /\ r.addr = x.addr /\ r.num = x.num
        /\ r.operand = x.operand /\ r.used = x.used
    BY DEF Sym
  <2>3. /\ s.kind = y.kind /\ s.addr = y.addr /\ s.num = y.num
        /\ s.operand = y.operand /\ s.used = y.used
    BY DEF Sym
  <2> HIDE DEF r, s
  <2> QED BY <2>1, <2>2, <2>3
<1>3. [clear_observed(x) EXCEPT !.written = 0] =
        Sym(IF x.kind = "STORE" THEN "UNOBS_STORE" ELSE x.kind,
            x.addr, x.num, 0, x.operand, x.used)
  BY DEF clear_observed, Sym
<1>4. [clear_observed(y) EXCEPT !.written = 0] =
        Sym(IF y.kind = "STORE" THEN "UNOBS_STORE" ELSE y.kind,
            y.addr, y.num, 0, y.operand, y.used)
  BY DEF clear_observed, Sym
<1> QED BY <1>2, <1>3, <1>4 DEF Visible

(* A class does not order independent events.                              *)
LEMMA NotDependent ==
  ASSUME prog \in Programs, NEW e \in Engines, NEW t \in Threads, NEW u \in Threads,
         Independent(e, t, u), NEW k, NEW m, NEW a, NEW b
  PROVE  ~Dependent(Visible(t, k, a, visit(e, t)), Visible(u, m, b, visit(e, u)))
<1> DEFINE x == visit(e, t)
           y == visit(e, u)
           X == Visible(t, k, a, x)
           Y == Visible(u, m, b, y)
<1>1. /\ x = Sym(x.kind, x.addr, x.num, x.written, x.operand, x.used)
      /\ y = Sym(y.kind, y.addr, y.num, y.written, y.operand, y.used)
  BY VisitIsSym
<1>2. ~do_symevs_conflict(x, y)
  BY DEF Independent, do_events_conflict
<1>3. ~(x.kind = "UNOBS_STORE" /\ y.kind = "UNOBS_STORE" /\ x.addr = y.addr)
  BY Zenon DEF Independent
<1> HIDE DEF x, y
<1>4. /\ X.sym.addr = x.addr /\ X.sym.used = x.used
      /\ X.sym.kind = IF x.kind = "STORE" THEN "UNOBS_STORE" ELSE x.kind
  BY <1>1 DEF Visible, clear_observed, Sym
<1>5. /\ Y.sym.addr = y.addr /\ Y.sym.used = y.used
      /\ Y.sym.kind = IF y.kind = "STORE" THEN "UNOBS_STORE" ELSE y.kind
  BY <1>1 DEF Visible, clear_observed, Sym
<1> HIDE DEF X, Y
<1>6. ~Dependent(X, Y)
  BY <1>2, <1>3, <1>4, <1>5
     DEF Dependent, IsMutexOp, Writes, symev_does_store, symev_is_store, symev_is_load,
         has_addr, rmwaction_commutes, do_symevs_conflict
<1> QED BY <1>6 DEF X, Y, x, y

(* Events that a class does not order may be added to it in either order.  *)
LEMMA ExtendCommutes ==
  ASSUME NEW c, NEW x, NEW y, ~Dependent(x, y), ~Dependent(y, x)
  PROVE  Extend(Extend(c, x), y) = Extend(Extend(c, y), x)
<1> DEFINE P(z) == {w \in c.ev : Dependent(w, z)}
           O(z) == {<<w, z>> : w \in P(z)}
<1>1. CASE x.sym = NoSym \/ y.sym = NoSym
  BY <1>1, Zenon DEF Extend
<1>2. CASE x.sym # NoSym /\ y.sym # NoSym
  <2>1. /\ {w \in c.ev \cup {x} : Dependent(w, y)} = P(y)
        /\ {w \in c.ev \cup {y} : Dependent(w, x)} = P(x)
    OBVIOUS
  <2>2. /\ Extend(c, x) = [ev |-> c.ev \cup {x}, ord |-> c.ord \cup O(x)]
        /\ Extend(c, y) = [ev |-> c.ev \cup {y}, ord |-> c.ord \cup O(y)]
    BY <1>2 DEF Extend
  <2>3. ASSUME NEW d
        PROVE  /\ Extend(d, y) = [ev |-> d.ev \cup {y}, ord |-> d.ord \cup
                     {<<w, y>> : w \in {w \in d.ev : Dependent(w, y)}}]
               /\ Extend(d, x) = [ev |-> d.ev \cup {x}, ord |-> d.ord \cup
                     {<<w, x>> : w \in {w \in d.ev : Dependent(w, x)}}]
    BY <1>2 DEF Extend
  <2> HIDE DEF P
  <2>4. Extend(Extend(c, x), y) = [ev |-> (c.ev \cup {x}) \cup {y},
                                   ord |-> (c.ord \cup O(x)) \cup O(y)]
    <3> DEFINE d == Extend(c, x)
    <3>1. d.ev = c.ev \cup {x} /\ d.ord = c.ord \cup O(x)
      BY <2>2
    <3> HIDE DEF d
    <3>2. Extend(d, y) = [ev |-> d.ev \cup {y}, ord |-> d.ord \cup
                     {<<w, y>> : w \in {w \in d.ev : Dependent(w, y)}}]
      BY <2>3, Zenon
    <3> QED BY <2>1, <3>1, <3>2, Zenon DEF d
  <2>5. Extend(Extend(c, y), x) = [ev |-> (c.ev \cup {y}) \cup {x},
                                   ord |-> (c.ord \cup O(y)) \cup O(x)]
    <3> DEFINE d == Extend(c, y)
    <3>1. d.ev = c.ev \cup {y} /\ d.ord = c.ord \cup O(y)
      BY <2>2
    <3> HIDE DEF d
    <3>2. Extend(d, x) = [ev |-> d.ev \cup {x}, ord |-> d.ord \cup
                     {<<w, x>> : w \in {w \in d.ev : Dependent(w, x)}}]
      BY <2>3, Zenon
    <3> QED BY <2>1, <3>1, <3>2, Zenon DEF d
  <2> HIDE DEF O
  <2>6. /\ (c.ev \cup {x}) \cup {y} = (c.ev \cup {y}) \cup {x}
        /\ (c.ord \cup O(x)) \cup O(y) = (c.ord \cup O(y)) \cup O(x)
    OBVIOUS
  <2> QED BY <2>4, <2>5, <2>6
<1> QED BY <1>1, <1>2

(* The executions that take two independent steps in the one order and in  *)
(* the other are of the same class, whatever came before them: exploring   *)
(* one of the two orders is enough.                                        *)
THEOREM OneClass ==
  ASSUME prog \in Programs, NEW e \in Engines,
         NEW t \in Enabled(e), NEW u \in Enabled(e) \ {t}, Independent(e, t, u),
         NEW c, NEW a, NEW b
  PROVE  LET f == Execute(e, t)
             g == Execute(e, u)
         IN Extend(Extend(c, Visible(t, e.pc[t], a, visit(e, t))),
                   Visible(u, f.pc[u], b, visit(f, u)))
              = Extend(Extend(c, Visible(u, e.pc[u], b, visit(e, u))),
                       Visible(t, g.pc[t], a, visit(g, t)))
<1> DEFINE f == Execute(e, t)
           g == Execute(e, u)
           X == Visible(t, e.pc[t], a, visit(e, t))
           Y == Visible(u, e.pc[u], b, visit(e, u))
<1>1. t \in Threads /\ u \in Threads \ {t} /\ t \in Threads \ {u}
  BY DEF Enabled, Engines
<1>2. Independent(e, u, t)
  BY IndependenceIsSymmetric
<1>3. f \in Engines /\ f.pc[u] = e.pc[u] /\ g \in Engines /\ g.pc[t] = e.pc[t]
  BY <1>1, <1>2, Undisturbed
<1>4. /\ Described(visit(f, u)) = Described(visit(e, u))
      /\ Described(visit(g, t)) = Described(visit(e, t))
  BY <1>1, <1>2, SameEffect
<1>5. Visible(u, f.pc[u], b, visit(f, u)) = Y
  <2> HIDE DEF f
  <2> QED BY <1>1, <1>3, <1>4, SameVisible, VisitIsSym
<1>6. Visible(t, g.pc[t], a, visit(g, t)) = X
  <2> HIDE DEF g
  <2> QED BY <1>1, <1>3, <1>4, SameVisible, VisitIsSym
<1>7. ~Dependent(X, Y) /\ ~Dependent(Y, X)
  BY <1>1, <1>2, NotDependent
<1> HIDE DEF X, Y, f, g
<1>8. Extend(Extend(c, X), Y) = Extend(Extend(c, Y), X)
  BY <1>7, ExtendCommutes
<1> QED BY <1>5, <1>6, <1>8 DEF X, Y, f, g
=============================================================================
