-------------------------- MODULE POWERInterpreter --------------------------
(***************************************************************************)
(* The interpreter for POWER and ARM, and the driver's loop around it.     *)
(* Instructions are fetched ahead, up to a branch that is not yet decided. *)
(* The trace builder chooses which fetched event to commit; the commit     *)
(* makes operands available to the instructions that depend on it, decides *)
(* branches, and so lets more be fetched.                                  *)
(*                                                                         *)
(* prog[c] is the code of function c; function 1 is main.  An instruction  *)
(* has the bytes it accesses, the value it stores (for a condition: the    *)
(* value it wants to see), the places of the loads its address and its     *)
(* data depend on, and the function it starts.                             *)
(***************************************************************************)
EXTENDS POWERARMTraceBuilder

CONSTANTS Programs,   \* the programs that are explored
          Models      \* a subset of {"POWER", "ARM"}

VARIABLES prog,      \* the program
          tb,        \* the trace builder
          Threads,   \* the threads of the interpreter
          phase,     \* "run", "replay" (of a computation with errors), "done"
          execs,     \* the traces without errors so far, as coherence and loads per byte
          failed,    \* the traces with errors
          trace_count, \* their number, as the driver counts them
          reported   \* did a trace report an error?

vars == <<prog, tb, Threads, phase, execs, failed, trace_count, reported>>

-----------------------------------------------------------------------------
Instr(op, addr, val, adeps, ddeps, fun) ==
  [op |-> op, addr |-> addr, val |-> val, adeps |-> adeps, ddeps |-> ddeps, fun |-> fun]

IsFence(I) == I.op \in {"isync", "eieio", "lwsync", "sync"}
IsCond(I) == I.op \in {"br", "assume", "assert"}
IsBranch(I) == IsCond(I) \/ I.op \in {"lock", "join"}

(* fetchAll() also stops at the other terminators: a switch, or the return *)
(* of a value from a called function.  They are not IsBranch.              *)
IsTerminator(I) == I.op \in {"br", "switch", "ret"}
LoadCount(I) == IF I.op \in {"load", "lock", "join"} THEN 1 ELSE 0
StoreCount(I) == CASE I.op = "create" -> 2
                   [] I.op \in {"store", "lock", "unlock", "mutex_init"} -> 1
                   [] OTHER -> 0

(* The byte that pthread_create and pthread_join communicate by.           *)
Status(p) == <<"status", p>>

(* A thread of the interpreter.  Event and Value are indexed by the        *)
(* instruction; wait is the branch fetchAll() stopped at; state tells      *)
(* whether ECStack is empty, and then how it became so.                    *)
Thread(fun, create_event) ==
  [fun |-> fun, CreateEvent |-> create_event, CurInst |-> 1, wait |-> 0, state |-> "run",
   Event |-> << >>, Value |-> << >>]

Code(P, st, p) == P[st.T[p].fun]
Available(T, deps) == \A d \in deps : T.Value[d] # << >>
EventDeps(T, deps) == {T.Event[d] : d \in deps}

-----------------------------------------------------------------------------
(* registerOperand(), for each operand of the event that is available and  *)
(* not registered yet.                                                     *)
RegisterAddr(b, T, I, iid) ==
  CASE I.op = "join" ->
         LET tid == T.Value[CHOOSE d \in I.adeps : TRUE][1]
         IN register_load_requirement(register_addr(b, iid, 1, <<Status(tid)>>), iid, 1, <<2>>)
    [] I.op = "lock" ->
         register_load_requirement(register_addr(register_addr(b, iid, 1, I.addr), iid, 2, I.addr),
                                   iid, 1, <<0>>)
    [] OTHER -> register_addr(b, iid, 1, I.addr)

RegisterData(b, T, I, iid) ==
  IF I.op = "store" /\ Available(T, I.ddeps) /\ get_evt(b, iid).accesses[1].data = << >>
  THEN register_data(b, iid, 1, I.val) ELSE b

registerOperand(b, T, I, iid) ==
  LET known == ~Available(T, I.adeps) \/ get_evt(b, iid).accesses[1].addr # << >>
  IN RegisterData(IF known THEN b ELSE RegisterAddr(b, T, I, iid), T, I, iid)

(* commit() of a load, the part for its dependents.                        *)
Dependents(P, st, p) ==
  LET T == st.T[p]
      events == SelectSeq([pc \in DOMAIN T.Event |-> pc],
                          LAMBDA pc : T.Event[pc] > 0 /\ ~get_evt(st.tb, <<p, T.Event[pc]>>).committed)
      reg(b, pc) == registerOperand(b, T, Code(P, st, p)[pc], <<p, T.Event[pc]>>)
  IN [st EXCEPT !.tb = FoldLeft(reg, st.tb, events)]

-----------------------------------------------------------------------------
(* The extra accesses of fetch(): what the pthread functions store.        *)
ExtraAccesses(b, I, iid, child) ==
  CASE I.op = "create" ->
         register_addr(register_data(register_data(b, iid, 1, <<child>>), iid, 2, <<1>>),
                       iid, 2, <<Status(child)>>)
    [] I.op = "lock" -> register_data(b, iid, 2, <<1>>)
    [] I.op \in {"unlock", "mutex_init"} -> register_data(b, iid, 1, <<0>>)
    [] OTHER -> b

FenceBefore(b, p, I) ==
  CASE I.op = "create" -> fetch_fence(b, p, "lwsync")
    [] I.op = "unlock" -> fetch_fence(b, p, "sync")
    [] IsFence(I) -> fetch_fence(b, p, I.op)
    [] OTHER -> b
FenceAfter(b, p, I) ==
  CASE I.op = "join" -> fetch_fence(b, p, "lwsync")
    [] I.op = "lock" -> fetch_fence(b, p, "sync")
    [] OTHER -> b

(* The event of an instruction, with what is known of it at once.          *)
Spawned(b, I) == IF I.op = "create" THEN spawn(b) ELSE b
Controlling(b, p, I, k) == IF IsBranch(I) THEN fetch_ctrl(b, p, {k}) ELSE b
KnownOf(b, p, T, I, k, child) ==
  ExtraAccesses(Spawned(registerOperand(Controlling(b, p, I, k), T, I, <<p, k>>), I), I, <<p, k>>, child)
FetchEvent(b, p, T, I, child) ==
  FenceAfter(KnownOf(fetch(b, p, LoadCount(I), StoreCount(I), EventDeps(T, I.adeps), EventDeps(T, I.ddeps)),
                     p, T, I, b.threads[p].fch_count + 1, child), p, I)

(* fetch() of the next instruction of thread p.                            *)
IsEvent(I) == LoadCount(I) + StoreCount(I) > 0
FetchBuilder(b, p, T, I, child) ==
  IF IsEvent(I) THEN FetchEvent(b, p, T, I, child)
  ELSE IF IsCond(I) THEN fetch_ctrl(b, p, EventDeps(T, I.ddeps)) ELSE b

FetchThreads(threads, p, I, k) ==
  LET T == threads[p]
      T1 == [T EXCEPT !.CurInst = @ + 1, !.wait = IF IsBranch(I) \/ IsTerminator(I) THEN T.CurInst ELSE 0,
                      !.Event = Append(@, IF IsEvent(I) THEN k ELSE 0),
                      !.Value = Append(@, << >>)]
  IN [threads EXCEPT ![p] = T1] \o (IF I.op = "create" THEN <<Thread(I.fun, <<p, k>>)>> ELSE << >>)

FetchInstr(P, st, p) ==
  LET I == Code(P, st, p)[st.T[p].CurInst]
  IN [tb |-> FetchBuilder(FenceBefore(st.tb, p, I), p, st.T[p], I, Len(st.T) + 1),
      T |-> FetchThreads(st.T, p, I, st.tb.threads[p].fch_count + 1)]

(* fetchThreadExit(), when the thread returns from its function.           *)
fetchThreadExit(st, p) ==
  LET iid == <<p, st.tb.threads[p].fch_count + 1>>
  IN [tb |-> register_data(register_addr(fetch(fetch_fence(st.tb, p, "lwsync"), p, 0, 1, {}, {}),
                                         iid, 1, <<Status(p)>>), iid, 1, <<2>>),
      T |-> [st.T EXCEPT ![p].state = "ended"]]

(* A condition whose operands are available is committed at once: after a  *)
(* terminator the thread goes on, a failed assumption or assertion empties *)
(* its stack.                                                              *)
Decided(P, st, p) ==
  /\ st.T[p].wait > 0
  /\ LET I == Code(P, st, p)[st.T[p].wait] IN (IsCond(I) \/ IsTerminator(I)) /\ Available(st.T[p], I.ddeps)

Decide(P, st, p) ==
  LET I == Code(P, st, p)[st.T[p].wait]
      holds == IsTerminator(I) \/ \A d \in I.ddeps : st.T[p].Value[d] = I.val
      here == IF st.tb.sched_count = 0 THEN Null ELSE st.tb.prefix[st.tb.sched_count]
  IN [tb |-> IF holds \/ I.op # "assert" THEN st.tb ELSE [st.tb EXCEPT !.errors = @ \cup {here}],
      T |-> [st.T EXCEPT ![p].wait = 0, ![p].state = IF holds THEN "run" ELSE I.op]]

(* fetchAll() and commitLocalAndFetchAll() of thread p.                    *)
RECURSIVE fetchAll(_, _, _)
fetchAll(P, st, p) ==
  IF st.T[p].state # "run" THEN st
  ELSE IF Decided(P, st, p) THEN fetchAll(P, Decide(P, st, p), p)
  ELSE IF st.T[p].wait > 0 THEN st
  ELSE IF st.T[p].CurInst > Len(Code(P, st, p)) THEN fetchThreadExit(st, p)
  ELSE fetchAll(P, FetchInstr(P, st, p), p)

-----------------------------------------------------------------------------
(* callPthreadCreate(): the new thread waits for its status to be 1.       *)
callPthreadCreate(st, q) ==
  LET ld0 == <<q, 1>>
  IN [st EXCEPT !.tb = fetch_fence(register_load_requirement(
                                     register_addr(fetch(st.tb, q, 1, 0, {}, {}), ld0, 1, <<Status(q)>>),
                                     ld0, 1, <<1>>), q, "lwsync")]

(* commit() of the instruction of the event that was scheduled.  What is   *)
(* fetched next belongs to its thread, or to the thread it creates.        *)
CommitLoad(P, st, iid, pc) ==
  Dependents(P, [st EXCEPT !.T[iid[1]].Value[pc] =
                   get_load_value(st.tb, iid, 1, get_evt(st.tb, iid).cur_param)], iid[1])

CommitInstr(P, st, iid) ==
  LET p == iid[1]
      at == {pc \in DOMAIN st.T[p].Event : st.T[p].Event[pc] = iid[2]}
      pc == CHOOSE x \in at : TRUE
      I == Code(P, st, p)[pc]
      child == CHOOSE t \in DOMAIN st.T : st.T[t].CreateEvent = iid
  IN IF at = {} THEN st
     ELSE fetchAll(P, CASE I.op = "create" -> callPthreadCreate(st, child)
                        [] I.op = "load" -> CommitLoad(P, st, iid, pc)
                        [] IsBranch(I) -> [st EXCEPT !.T[p].wait = 0]
                        [] OTHER -> st,
                   IF I.op = "create" THEN child ELSE p)

(* The start of run(): main is fetched as far as it goes.                  *)
Start(P, b) == fetchAll(P, [tb |-> b, T |-> <<Thread(1, Null)>>], 1)

-----------------------------------------------------------------------------
(* handle_trace(): is the computation counted as a trace?                  *)
Counted(b, T) == sleepset_is_empty(b) /\ \A p \in DOMAIN T : T[p].state # "assume"

(* get_trace(): does the trace have an error?                              *)
HasRealError(b) == \E e \in b.errors : error_is_real(b, e)

Init ==
  /\ prog \in Programs
  /\ \E mm \in Models :
       LET st == Start(prog, NewTB(mm)) IN tb = st.tb /\ Threads = st.T
  /\ phase = "run" /\ execs = {} /\ failed = {} /\ trace_count = 0 /\ reported = FALSE

(* One round of the loop of run(); r is what schedule() returned.          *)
Install(st) == tb' = st.tb /\ Threads' = st.T
Commit(r) ==
  /\ r.iid # NothingToDo
  /\ Install(CommitInstr(prog, [tb |-> r.tb, T |-> Threads], r.iid))
  /\ UNCHANGED <<prog, phase, execs, failed, trace_count, reported>>

(* The driver, when run() ends: a computation with errors is run once      *)
(* more, to collect its trace.                                             *)
Replay(r) ==
  /\ r.iid = NothingToDo /\ phase = "run" /\ r.tb.errors # {}
  /\ Install(Start(prog, replay(r.tb)))
  /\ phase' = "replay"
  /\ UNCHANGED <<prog, execs, failed, trace_count, reported>>

(* Otherwise the trace is counted, and the next computation begins         *)
(* (explore_all_traces: also after an error).                              *)
NextComputation(r) ==
  \/ ~r.more /\ phase' = "done" /\ tb' = r.tb /\ Threads' = Threads
  \/ r.more /\ phase' = "run" /\ Install(Start(prog, r.tb))
EndComputation(r) ==
  /\ r.iid = NothingToDo /\ (phase = "run" => r.tb.errors = {})
  /\ LET found == IF Counted(r.tb, Threads) THEN {r.tb.mem} ELSE {}
     IN /\ trace_count' = trace_count + Cardinality(found)
        /\ execs' = IF phase = "run" THEN execs \cup found ELSE execs
        /\ failed' = IF phase = "replay" THEN failed \cup found ELSE failed
  /\ reported' = (reported \/ HasRealError(r.tb))
  /\ NextComputation(reset(r.tb))
  /\ UNCHANGED prog

Round(r) == Commit(r) \/ Replay(r) \/ EndComputation(r)

Done == phase = "done" /\ UNCHANGED vars

Next == (phase # "done" /\ Round(schedule(tb))) \/ Done

Spec == Init /\ [][Next]_vars
=============================================================================
