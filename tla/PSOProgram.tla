----------------------------- MODULE PSOProgram -----------------------------
(***************************************************************************)
(* A multi-threaded program as PSOInterpreter executes it: every thread    *)
(* has a store buffer for each location, and the auxiliary thread of a     *)
(* buffer moves its oldest store to memory.  Locations are one byte wide   *)
(* (PSOInterpreter has the wider ones).  The record ee holds the           *)
(* interpreter's state, and in ee.trace the execution that it has run, as  *)
(* far as two executions of one class agree on it.                         *)
(***************************************************************************)
EXTENDS Integers, FiniteSets, FiniteSetsExt, SequencesExt

CONSTANTS
  Procs,     \* the threads of the interpreter, 0 the main thread
  Addrs,     \* globals, mutexes and condition variables
  Programs

VARIABLES
  prog,      \* the code of each thread function, the globals
  ee         \* the interpreter in the current execution

Ret == [op |-> "ret", addr |-> "", lock |-> "", val |-> 0, exp |-> 0, num |-> 0]
CodeOf(p, e, t) ==
  LET code == p.code[e.fn[t]] IN IF e.pc[t] <= Len(code) THEN code[e.pc[t]] ELSE Ret

NoTrace == [rf |-> {}, co |-> [a \in Addrs |-> << >>], did |-> {}, ord |-> {}]

NewEngine(p) ==
  [mem |-> p.init, writer |-> [a \in Addrs |-> << >>],
   fn |-> [t \in Procs |-> 0], pc |-> [t \in Procs |-> 1], created |-> 1, stack |-> {0},
   tid |-> [f \in Procs |-> 0], AwaitingJoin |-> [t \in Procs |-> {}],
   store_buffers |-> [t \in Procs |-> [a \in Addrs |-> << >>]], flushing |-> {},
   locked |-> [a \in Addrs |-> FALSE], waiting |-> [a \in Addrs |-> {}],
   waiters |-> [a \in Addrs |-> << >>], pending_mutex_lock |-> [t \in Procs |-> ""],
   trace |-> NoTrace]

all_buffers_empty(e, t) == \A a \in Addrs : e.store_buffers[t][a] = << >>

(* Every external call but malloc is a fence, like the atomic operations   *)
(* that are sequentially consistent.                                       *)
isFence(i) == i.op \notin {"ret", "load", "store", "nondet"}

-----------------------------------------------------------------------------
(* The trace of an execution: where each load reads from, the order of the *)
(* stores to each location, and the order of the operations on a mutex, on *)
(* a condition variable and of the calls that conflict with all memory.    *)

Id(e, t) == <<e.fn[t], e.pc[t]>>

(* What an operation is ordered with: "ALL" memory, as a "LOCK" operation, *)
(* a "SIGNAL", a "WAIT", or as an access to "MEM"ory.                      *)
Op(id, alt, kind, a) == [id |-> id, alt |-> alt, kind |-> kind, addr |-> a]
Conflict(x, y) ==
  /\ x.id[1] # y.id[1]
  /\ \/ x.kind = "ALL" /\ y.kind \in {"ALL", "LOCK", "MEM"}
     \/ y.kind = "ALL" /\ x.kind \in {"LOCK", "MEM"}
     \/ x.addr = y.addr /\ {x.kind, y.kind} \in {{"LOCK"}, {"SIGNAL", "WAIT"}}

Did(c, x) ==
  [c EXCEPT !.did = @ \cup {x}, !.ord = @ \cup {<<y, x>> : y \in {y \in c.did : Conflict(y, x)}}]

ToMemory(e, id, a, v) ==
  LET c == Did(e.trace, Op(id, 0, "MEM", a))
  IN [e EXCEPT !.mem[a] = v, !.writer[a] = id, !.trace = [c EXCEPT !.co[a] = Append(@, id)]]

ReadsFrom(e, id, a, src) == [e EXCEPT !.trace.rf = @ \cup {<<id, a, src>>}]
FromMemory(e, id, a) ==
  LET c == Did(e.trace, Op(id, 0, "MEM", a))
  IN [e EXCEPT !.trace = [c EXCEPT !.rf = @ \cup {<<id, a, e.writer[a]>>}]]

-----------------------------------------------------------------------------
(* checkRefuse(): why thread t cannot take its next instruction now.       *)
LocksMutex(p, e, t) ==
  LET i == CodeOf(p, e, t) IN
  IF e.pending_mutex_lock[t] # "" THEN e.pending_mutex_lock[t]
  ELSE IF i.op = "lock" THEN i.addr ELSE ""

checkRefuse(p, e, t) ==
  LET i == CodeOf(p, e, t)  u == e.tid[i.num] IN
  IF i.op = "join" /\ (u \in e.stack \/ ~all_buffers_empty(e, u)) THEN "join"
  ELSE IF isFence(i) /\ ~all_buffers_empty(e, t) THEN "fence"
  ELSE IF LocksMutex(p, e, t) # "" /\ e.locked[LocksMutex(p, e, t)] THEN "lock"
  ELSE ""

Refused(p, e, t) ==
  CASE checkRefuse(p, e, t) = "join" ->
         [e EXCEPT !.AwaitingJoin[e.tid[CodeOf(p, e, t).num]] = @ \cup {t}]
    [] checkRefuse(p, e, t) = "fence" -> [e EXCEPT !.flushing = @ \cup {t}]
    [] OTHER -> [e EXCEPT !.waiting[LocksMutex(p, e, t)] = @ \cup {t}]

(* The value a load by t returns: its newest pending store, or memory.     *)
Loaded(e, t, a) ==
  LET b == e.store_buffers[t][a] IN IF b = << >> THEN e.mem[a] ELSE Last(b).val

(* callPthreadCreate(): the new thread and its first stack frame.          *)
newThread(e, f) ==
  [e EXCEPT !.fn[e.created] = f, !.tid[f] = e.created, !.stack = @ \cup {e.created},
            !.created = @ + 1]

(* doPthreadCondAwake(): a signalled thread first takes its mutex back.    *)
doPthreadCondAwake(e, t) ==
  LET m == e.pending_mutex_lock[t] IN
  IF m = "" THEN e
  ELSE [e EXCEPT !.locked[m] = TRUE, !.pending_mutex_lock[t] = "",
                 !.trace = Did(@, Op(Id(e, t), 0, "LOCK", m))]

(* The branch after a load, a trylock or an allocation: over num           *)
(* instructions if it did not get what it hoped for.                       *)
Skipped(e, i, t, alt) ==
  IF \/ i.op = "load" /\ Loaded(e, t, i.addr) # i.exp
     \/ i.op = "trylock" /\ e.locked[i.addr]
     \/ i.op = "nondet" /\ alt = 0
  THEN i.num ELSE 0

Wait(e, t, i) ==
  LET c == Did(e.trace, Op(Id(e, t), 0, "LOCK", i.lock)) IN
  [e EXCEPT !.locked[i.lock] = FALSE, !.waiting[i.lock] = {}, !.pending_mutex_lock[t] = i.lock,
            !.waiters[i.addr] = Append(@, t), !.trace = Did(c, Op(Id(e, t), 0, "WAIT", i.addr))]

Signal(e, t, i, alt) ==
  [e EXCEPT !.waiters[i.addr] = IF i.op # "signal" \/ @ = << >> THEN << >> ELSE RemoveAt(@, alt + 1),
            !.trace = Did(@, Op(Id(e, t), alt, "SIGNAL", i.addr))]

(* One instruction i of thread t, at the event's alternative alt.          *)
Visit(e, t, i, alt) ==
  LET id == Id(e, t)  a == i.addr  b == e.store_buffers[t][a] IN
  CASE i.op = "ret" -> [e EXCEPT !.stack = @ \ {t}]
    [] i.op = "spawn" -> newThread(e, i.num)
    [] i.op \in {"join", "fence"} -> e
    [] i.op = "nondet" -> [e EXCEPT !.trace = Did(@, Op(id, alt, "ALT", ""))]
    [] i.op = "ext" -> [e EXCEPT !.trace = Did(@, Op(id, 0, "ALL", ""))]
    [] i.op = "load" -> IF b = << >> THEN FromMemory(e, id, a) ELSE ReadsFrom(e, id, a, Last(b).id)
    [] i.op = "store" ->
         [e EXCEPT !.store_buffers[t][a] = Append(@, [val |-> i.val, id |-> id])]
    [] i.op = "sc_store" -> ToMemory(e, id, a, i.val)
    [] i.op = "add" -> ToMemory(FromMemory(e, id, a), id, a, e.mem[a] + i.val)
    [] i.op = "cas" -> IF e.mem[a] = i.exp THEN ToMemory(FromMemory(e, id, a), id, a, i.val)
                       ELSE FromMemory(e, id, a)
    [] i.op = "wait" -> Wait(e, t, i)
    [] i.op \in {"signal", "broadcast", "cinit", "cdestroy"} -> Signal(e, t, i, alt)
    [] OTHER ->
         [e EXCEPT !.locked[a] = i.op \in {"lock", "trylock"},
                   !.waiting[a] = IF i.op = "unlock" THEN {} ELSE @,
                   !.trace = Did(@, Op(id, 0, "LOCK", a))]

Execute(p, e, t, alt) ==
  LET i == CodeOf(p, e, t) IN
  [Visit(doPthreadCondAwake(e, t), t, i, alt) EXCEPT !.pc[t] = @ + 1 + Skipped(e, i, t, alt)]

(* runAux(): the oldest store of t to a reaches memory, and a fence of t   *)
(* need not wait any longer once all of its buffers are empty.             *)
runAux(e, t, a) ==
  LET st == Head(e.store_buffers[t][a])
      f == [ToMemory(e, st.id, a, st.val) EXCEPT !.store_buffers[t][a] = Tail(@)]
  IN IF all_buffers_empty(f, t) THEN [f EXCEPT !.flushing = @ \ {t}] ELSE f

(* The threads that a step from e to f of thread t makes available again:  *)
(* those that wait for a mutex, for a fence, or for t to finish.           *)
Woken(e, f, t) ==
  UNION {e.waiting[a] \ f.waiting[a] : a \in Addrs} \cup (e.flushing \ f.flushing)
    \cup (IF t \notin f.stack /\ all_buffers_empty(f, t) THEN f.AwaitingJoin[t] ELSE {})

-----------------------------------------------------------------------------
(* All executions of a program, and their classes.                         *)

Alternatives(p, e, t) ==
  LET i == CodeOf(p, e, t) IN
  CASE i.op = "nondet" -> {0, 1}
    [] i.op = "signal" -> 0..(IF e.waiters[i.addr] = << >> THEN 0 ELSE Len(e.waiters[i.addr]) - 1)
    [] OTHER -> {0}

Runnable(p, e) ==
  {t \in e.stack : checkRefuse(p, e, t) = "" /\ \A a \in Addrs : t \notin ToSet(e.waiters[a])}

(* Only the trace and what can still happen matter here, not who waits.    *)
Forget(e) ==
  [e EXCEPT !.AwaitingJoin = [t \in Procs |-> {}], !.waiting = [a \in Addrs |-> {}],
            !.flushing = {}]

Successors(p, e) ==
  UNION {{Forget(Execute(p, e, t, alt)) : alt \in Alternatives(p, e, t)} : t \in Runnable(p, e)}
    \cup {runAux(e, u[1], u[2]) : u \in {u \in Procs \X Addrs : e.store_buffers[u[1]][u[2]] # << >>}}

(* What two equivalent executions have in common.                          *)
Class(e) == [rf |-> e.trace.rf, co |-> e.trace.co, ord |-> e.trace.ord, stack |-> e.stack,
             alt |-> {x.id \o <<x.alt>> : x \in {x \in e.trace.did : x.kind \in {"ALT", "SIGNAL"}}}]

RECURSIVE EndsOf(_, _)
EndsOf(p, N) ==
  IF N = {} THEN {}
  ELSE {Class(e) : e \in {e \in N : Successors(p, e) = {}}}
         \cup EndsOf(p, UNION {Successors(p, e) : e \in N})

(* The classes of all maximal executions of p.                             *)
AllClasses(p) == EndsOf(p, {NewEngine(p)})

(* Could an execution of class c have happened under sequential            *)
(* consistency: is there no cycle of program order, reads-from, coherence, *)
(* from-read and synchronisation?                                          *)
Before(p, c) ==
  LET N == {r[1] : r \in c.rf} \cup UNION {ToSet(c.co[a]) : a \in Addrs}
             \cup UNION {{o[1].id, o[2].id} : o \in c.ord}
      co == UNION {{<<c.co[a][j - 1], c.co[a][j]>> : j \in 2..Len(c.co[a])} : a \in Addrs}
      Overwrites(r, j) ==   \* the store to c.co[r[2]][j] comes next after the one r reads
        IF j = 1 THEN r[3] = << >> ELSE c.co[r[2]][j - 1] = r[3]
      fr == UNION {{<<r[1], c.co[r[2]][j]>> : j \in {j \in DOMAIN c.co[r[2]] : Overwrites(r, j)}} :
                     r \in c.rf}
      Calls(f, n, op, g) == \E k \in DOMAIN p.code[f] : (IF op = "join" THEN k < n ELSE k > n)
                              /\ p.code[f][k].op = op /\ p.code[f][k].num = g
      po == {<<x, y>> \in N \X N : \/ x[1] = y[1] /\ x[2] < y[2]
                                 \/ Calls(x[1], x[2], "spawn", y[1])
                                 \/ Calls(y[1], y[2], "join", x[1])}
  IN po
       \cup {<<r[3], r[1]>> : r \in {r \in c.rf : r[3] # << >>}}
       \cup co \cup fr \cup {<<o[1].id, o[2].id>> : o \in c.ord}

RECURSIVE Acyclic(_)
Acyclic(E) ==
  LET last == {e \in E : ~\E f \in E : f[1] = e[2]} IN
  E = {} \/ (last # {} /\ Acyclic(E \ last))

SequentiallyConsistent(p, c) == Acyclic({e \in Before(p, c) : e[1] # e[2]})
=============================================================================
