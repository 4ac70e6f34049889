----------------------------- MODULE SCProgram ------------------------------
(***************************************************************************)
(* A multi-threaded program as Interpreter executes it under sequential    *)
(* consistency, one instruction of one thread at a time, and the classes   *)
(* of its executions that an exploration has to cover.  ee is a record of  *)
(* the interpreter's state: next instructions, globals, the threads that   *)
(* have been created and have not returned, mutexes, and awaits.           *)
(***************************************************************************)
EXTENDS SymEv, FiniteSets, FiniteSetsExt, SequencesExt

CONSTANTS Threads, Addrs, Programs, Algorithms

(* The operations on a global, on a mutex, on a thread, and the others.    *)
GlobalOps == {"load", "await", "store", "add", "cas"}
MutexOps == {"lock", "unlock", "trylock", "minit", "mdestroy"}
ThreadOps == {"spawn", "join"}

(* Instructions are on the globals, the mutexes and the threads of the     *)
(* program; what is added or stored is an integer.                         *)
ASSUME ProgramAssumption ==
  /\ 0 \in Threads
  /\ \A p \in Programs :
       /\ p.init \in [Addrs -> Int]
       /\ \A t \in Threads :
            /\ Len(p.code[t]) \in Nat
            /\ \A k \in 1..Len(p.code[t]) :
                 LET i == p.code[t][k] IN
                 /\ i.op \in GlobalOps \cup MutexOps \cup ThreadOps \cup {"nondet"}
                 /\ i.op \in GlobalOps \cup MutexOps => i.addr \in Addrs
                 /\ i.op \in ThreadOps => i.num \in Threads
                 /\ i.val \in Int /\ i.num \in Nat

VARIABLES
  prog,            \* the program: the code of each thread, the globals
  dpor_algorithm,  \* "SOURCE", "OPTIMAL" or "OBSERVERS"
  ee               \* the interpreter in the current execution

Observers == dpor_algorithm = "OBSERVERS"

-----------------------------------------------------------------------------
Ret == [op |-> "ret", addr |-> "", val |-> 0, exp |-> 0, used |-> FALSE, num |-> 0]

Code(e, t) == IF e.pc[t] <= Len(prog.code[t]) THEN prog.code[t][e.pc[t]] ELSE Ret

NewEngine(p) ==
  [pc |-> [t \in Threads |-> 1], val |-> p.init, live |-> {0},
   locked |-> [a \in Addrs |-> FALSE], waiting |-> [a \in Addrs |-> {}],
   blocking_awaits |-> {}, AwaitingJoin |-> [t \in Threads |-> {}]]

(* checkRefuse()                                                           *)
checkRefuse(e, t) ==
  LET i == Code(e, t) IN
  \/ i.op = "lock" /\ e.locked[i.addr]
  \/ i.op = "await" /\ e.val[i.addr] # i.exp
  \/ i.op = "join" /\ i.num \in e.live

(* The value an instruction leaves at its address.                         *)
NewVal(e, t) ==
  LET i == Code(e, t)  old == e.val[i.addr] IN
  CASE i.op = "store" -> i.val
    [] i.op = "add" -> old + i.val
    [] i.op = "cas" -> IF old = i.exp THEN i.val ELSE old
    [] OTHER -> old

(* What visiting the instruction tells the TraceBuilder.                   *)
visit(e, t) ==
  LET i == Code(e, t) IN
  CASE i.op = "ret" -> NoSym
    [] i.op = "spawn" -> Spawn(i.num)
    [] i.op = "join" -> Join(i.num)
    [] i.op = "nondet" -> Nondet(i.num)
    [] i.op = "load" -> Load(i.addr)
    [] i.op = "await" -> LoadAwait(i.addr, i.exp)
    [] i.op = "store" -> IF Observers THEN UnobsStore(i.addr, i.val)
                         ELSE Store(i.addr, i.val)
    [] i.op = "add" -> Rmw(i.addr, NewVal(e, t), i.val, i.used)
    [] i.op = "cas" -> IF e.val[i.addr] = i.exp THEN CmpXhg(i.addr, i.exp, i.val)
                       ELSE CmpXhgFail(i.addr, i.exp, i.val)
    [] i.op = "lock" -> MLock(i.addr)
    [] i.op = "unlock" -> MUnlock(i.addr)
    [] i.op = "trylock" -> IF e.locked[i.addr] THEN MTryLockFail(i.addr) ELSE MTryLock(i.addr)
    [] i.op = "minit" -> MInit(i.addr)
    [] i.op = "mdestroy" -> MDelete(i.addr)

(* CheckAwaitWakeup(): the awaits that the value now at a satisfies.       *)
CheckAwaitWakeup(e, a, v) ==
  {u \in e.blocking_awaits : Code(e, u).addr = a /\ Code(e, u).exp = v}

(* The threads that t's next instruction makes available.                  *)
Woken(e, t) ==
  LET i == Code(e, t) IN
  CASE i.op = "spawn" -> {i.num}
    [] i.op = "ret" -> e.AwaitingJoin[t]
    [] i.op = "unlock" -> e.waiting[i.addr]
    [] i.op \in {"store", "add"} \/ (i.op = "cas" /\ e.val[i.addr] = i.exp) ->
         CheckAwaitWakeup(e, i.addr, NewVal(e, t))
    [] OTHER -> {}

(* The branch that follows a load or a trylock: over num instructions, if  *)
(* the value is not the expected one or the mutex was locked.              *)
Skipped(e, i) ==
  IF (i.op = "load" /\ e.val[i.addr] # i.exp) \/ (i.op = "trylock" /\ e.locked[i.addr])
  THEN i.num ELSE 0

Execute(e, t) ==
  LET i == Code(e, t)
      f == [e EXCEPT !.pc[t] = @ + 1 + Skipped(e, i)]
  IN CASE i.op = "ret" -> [f EXCEPT !.live = @ \ {t}]
       [] i.op = "spawn" -> [f EXCEPT !.live = @ \cup {i.num}]
       [] i.op \in {"lock", "trylock"} -> [f EXCEPT !.locked[i.addr] = TRUE]
       [] i.op = "unlock" -> [f EXCEPT !.locked[i.addr] = FALSE, !.waiting[i.addr] = {}]
       [] i.op \in {"nondet", "join", "minit", "mdestroy"} -> f
       [] OTHER -> [f EXCEPT !.val[i.addr] = NewVal(e, t),
                             !.blocking_awaits = @ \ Woken(e, t)]

Refused(e, t) ==
  LET i == Code(e, t) IN
  CASE i.op = "lock" -> [e EXCEPT !.waiting[i.addr] = @ \cup {t}]
    [] i.op = "await" -> [e EXCEPT !.blocking_awaits = @ \cup {t}]
    [] i.op = "join" -> [e EXCEPT !.AwaitingJoin[i.num] = @ \cup {t}]

-----------------------------------------------------------------------------
(* Classes of executions.  An event of a class is what a thread did at its *)
(* index-th instruction; two events of different threads are ordered when  *)
(* they do not commute.                                                    *)

Visible(t, index, alt, sym) ==
  [pid |-> t, index |-> index, alt |-> alt,
   sym |-> [clear_observed(sym) EXCEPT !.written = 0]]

IsMutexOp(x) == x.sym.kind \in {"M_LOCK", "M_UNLOCK"}
Writes(x) == symev_does_store(x.sym)
Reads(x) == symev_does_load(x.sym)

Dependent(x, y) ==
  /\ x.pid # y.pid /\ x.sym.addr = y.sym.addr
  /\ \/ IsMutexOp(x) /\ IsMutexOp(y)
     \/ (Writes(x) \/ Writes(y)) /\ ~rmwaction_commutes(x.sym, y.sym)
          /\ has_addr(x.sym) /\ has_addr(y.sym)

NoEvents == [ev |-> {}, ord |-> {}]

Extend(c, x) ==
  IF x.sym = NoSym THEN c
  ELSE [ev |-> c.ev \cup {x}, ord |-> c.ord \cup {<<y, x>> : y \in {y \in c.ev : Dependent(y, x)}}]

(* Where a read takes its value from: the latest store before it, with the *)
(* additions that follow that store.                                       *)
Before(c, x, y) ==
  <<x, y>> \in c.ord \/ (x.pid = y.pid /\ x.index < y.index)
Sources(c, r) ==
  LET W == {w \in c.ev : Writes(w) /\ w.sym.addr = r.sym.addr /\ Before(c, w, r)}
  IN {w \in W : ~\E v \in W : v.sym.kind # "RMW" /\ Before(c, w, v)}

Stores(x) == symev_is_store(x.sym)
Observed(c) ==
  [ev |-> c.ev,
   rf |-> {<<r, Sources(c, r)>> : r \in {x \in c.ev : Reads(x)}},
   ord |-> {o \in c.ord : ~(Stores(o[1]) /\ Stores(o[2]))}]

(* With observers, two stores are ordered only if a read tells them apart. *)
Class(c) == IF Observers THEN Observed(c) ELSE c

Enabled(e) == {t \in e.live : ~checkRefuse(e, t)}
Alternatives(e, t) == IF Code(e, t).op = "nondet" THEN 0..(Code(e, t).num - 1) ELSE {0}

Successors(n) ==
  UNION {{[e |-> Execute(n.e, t), c |-> Extend(n.c, Visible(t, n.e.pc[t], alt, visit(n.e, t)))] :
            alt \in Alternatives(n.e, t)} : t \in Enabled(n.e)}
=============================================================================
