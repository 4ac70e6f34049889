--------------------------- MODULE TSOInterpreter ---------------------------
(***************************************************************************)
(* TSOInterpreter and the availability flags of TSOTraceBuilder: a FIFO    *)
(* store buffer per thread, an auxiliary thread that updates memory from   *)
(* it, and the refusals that make a thread wait for its own buffer or for  *)
(* another thread.  The interpreter's store_buffer and the TraceBuilder's  *)
(* are pushed and popped together and are one variable here.               *)
(***************************************************************************)
EXTENDS Interpreter

CONSTANTS Locations, Values, Bytes

(* Accesses are to memory locations, of at least one byte.                 *)
ASSUME AccessAssumption ==
  /\ \A ml \in Locations :
       ml.addr \in Int /\ ml.size \in Nat \ {0} /\ bytes(ml) \subseteq Bytes
  /\ \A p \in Programs, t \in Threads : \A i \in 1..Len(p[t]) :
       /\ p[t][i].op \in {"load", "store", "atomic"} => p[t][i].ml \in Locations
       /\ p[t][i].op \in {"store", "atomic"} => p[t][i].val \in Values

VARIABLES
  mem,                   \* byte -> value
  store_buffer,          \* thread -> pending stores, oldest first
  partial_buffer_flush,  \* thread -> the buffer size it waits for, or -1
  update_available,      \* the threads whose auxiliary thread is available
  reg                    \* thread -> result of its latest load

memVars == <<mem, store_buffer, partial_buffer_flush, update_available, reg>>
vars == <<threadVars, memVars>>

Init ==
  /\ ThreadInit
  /\ mem = [b \in Bytes |-> 0]
  /\ store_buffer = [t \in Threads |-> << >>]
  /\ partial_buffer_flush = [t \in Threads |-> -1]
  /\ update_available = {}
  /\ reg = [t \in Threads |-> << >>]

Written(ml, v) == [b \in Bytes |-> IF b \in bytes(ml) THEN v ELSE mem[b]]

-----------------------------------------------------------------------------
(* checkRefuse().  Its tests are made in this order.                       *)

JoinBlocked(t) ==
  /\ I(t).op = "join"
  /\ stack[I(t).tid] = "live" \/ store_buffer[I(t).tid] # << >>

(* External functions are fences, __VERIFIER_assume excepted.              *)
isFence(i) == i.op \in {"fence", "atomic", "create", "join"}

FenceBlocked(t) == isFence(I(t)) /\ store_buffer[t] # << >>

(* The newest pending store of t that satisfies P, 0 if there is none.     *)
Newest(t, P(_)) ==
  LET hits == {i \in 1..Len(store_buffer[t]) : P(store_buffer[t][i].ml)} IN
  IF hits = {} THEN 0 ELSE CHOOSE i \in hits : \A j \in hits : j <= i

Overlapping(t) == LET Hits(ml) == overlaps(ml, I(t).ml) IN Newest(t, Hits)

M_LoadBlocked(t) ==
  /\ I(t).op = "load"
  /\ Overlapping(t) # 0
  /\ store_buffer[t][Overlapping(t)].ml.addr # I(t).ml.addr
LoadBlocked(t) ==
  /\ I(t).op = "load"
  /\ Overlapping(t) # 0
  /\ store_buffer[t][Overlapping(t)].ml # I(t).ml

(* Interpreter::checkRefuse()                                              *)
AssumeJoinBlocked(t) == I(t).op = "join" /\ I(t).tid \in AssumeBlocked

Blocked(t) ==
  JoinBlocked(t) \/ FenceBlocked(t) \/ LoadBlocked(t) \/ AssumeJoinBlocked(t)

RefusedJoin(t) ==
  /\ t \in available
  /\ JoinBlocked(t) \/ (~FenceBlocked(t) /\ AssumeJoinBlocked(t))
  /\ RefuseJoin(t)
  /\ UNCHANGED memVars

(* The buffer size at which the overlapping store has left the buffer.     *)
FlushPoint(t) == Len(store_buffer[t]) - Overlapping(t)

RefusedFlush(t) ==
  /\ t \in available
  /\ ~JoinBlocked(t)
  /\ FenceBlocked(t) \/ LoadBlocked(t)
  /\ partial_buffer_flush' =
       [partial_buffer_flush EXCEPT ![t] = IF FenceBlocked(t) THEN 0 ELSE FlushPoint(t)]
  /\ available' = refuse_schedule(t)
  /\ UNCHANGED <<prog, CurInst, stack, AssumeBlocked, AwaitingJoin, mem,
                 store_buffer, update_available, reg>>

-----------------------------------------------------------------------------
(* visit(): the instructions.                                              *)

(* Read-own-write-early compares addresses only.                           *)
Rowe(t) == LET Hits(ml) == ml.addr = I(t).ml.addr IN Newest(t, Hits)

visitLoadInst(t) ==
  /\ Executes(t, "load") /\ ~Blocked(t)
  /\ reg' = [reg EXCEPT ![t] = [b \in bytes(I(t).ml) |->
               IF Rowe(t) # 0 THEN store_buffer[t][Rowe(t)].val ELSE mem[b]]]
  /\ Continue(t)
  /\ UNCHANGED <<mem, store_buffer, partial_buffer_flush, update_available>>

M_Enable(t) == update_available
Enable(t) == update_available \cup {t}

visitStoreInst(t) ==
  /\ Executes(t, "store")
  /\ store_buffer' = [store_buffer EXCEPT ![t] =
                        Append(@, [ml |-> I(t).ml, val |-> I(t).val])]
  /\ update_available' = Enable(t)
  /\ Continue(t)
  /\ UNCHANGED <<mem, partial_buffer_flush, reg>>

(* Sequentially consistent stores, compare-exchange, read-modify-write.    *)
visitAtomic(t) ==
  /\ Executes(t, "atomic") /\ ~Blocked(t)
  /\ mem' = Written(I(t).ml, I(t).val)
  /\ Continue(t)
  /\ UNCHANGED <<store_buffer, partial_buffer_flush, update_available, reg>>

visitFenceInst(t) ==
  /\ Executes(t, "fence") /\ ~Blocked(t)
  /\ Continue(t)
  /\ UNCHANGED memVars

visitCall(t) ==
  /\ ~Blocked(t)
  /\ callPthreadCreate(t) \/ callPthreadJoin(t) \/ callAssume(t)
  /\ UNCHANGED memVars

terminate(t) == IF store_buffer[t] = << >> THEN AwaitingJoin[t] ELSE {}

visitReturnInst(t) == Return(t, terminate(t)) /\ UNCHANGED memVars

(* runAux(): update memory with the oldest pending store, wake the thread  *)
(* if it waits for that, and those that wait for its end if this was it.   *)
M_joinersWoken(t) == {}
joinersWoken(t) ==
  IF Len(store_buffer[t]) = 1 /\ stack[t] = "empty" THEN AwaitingJoin[t] ELSE {}

runAux(t) ==
  LET s == Head(store_buffer[t])
      flushed == Len(store_buffer[t]) - 1 <= partial_buffer_flush[t]
  IN
  /\ t \in update_available
  /\ store_buffer[t] # << >>
  /\ mem' = Written(s.ml, s.val)
  /\ store_buffer' = [store_buffer EXCEPT ![t] = Tail(@)]
  /\ partial_buffer_flush' = [partial_buffer_flush EXCEPT ![t] = IF flushed THEN -1 ELSE @]
  /\ update_available' = IF Len(store_buffer[t]) = 1 THEN update_available \ {t}
                         ELSE update_available
  /\ available' = available \cup joinersWoken(t) \cup (IF flushed THEN {t} ELSE {})
  /\ UNCHANGED <<prog, CurInst, stack, AssumeBlocked, AwaitingJoin, reg>>

Step(t) ==
  \/ RefusedJoin(t) \/ RefusedFlush(t)
  \/ visitLoadInst(t) \/ visitStoreInst(t) \/ visitAtomic(t)
  \/ visitFenceInst(t) \/ visitCall(t) \/ visitReturnInst(t)

(* schedule() returns false and run() ends.                                *)
Quiescent == available = {} /\ update_available = {}

Next == \/ \E t \in Threads : Step(t) \/ runAux(t)
        \/ Quiescent /\ UNCHANGED vars

Spec == Init /\ [][Next]_vars

(* run() goes on as long as the TraceBuilder has a thread to schedule.     *)
FairSpec == Spec /\ \A t \in Threads : WF_vars(Step(t)) /\ WF_vars(runAux(t))
-----------------------------------------------------------------------------

(* A thread that is neither finished nor available has a reason that still *)
(* holds: no order of updates, returns and refusals loses a wake-up.       *)
NoMissedWakeup ==
  \A t \in Threads : stack[t] = "live" /\ t \notin available => Blocked(t)

(* When the execution ends, every store has reached memory, and a thread   *)
(* that has not returned waits to join one that never will.                *)
QuiescentIsFinal ==
  Quiescent => \A t \in Threads :
    /\ store_buffer[t] = << >>
    /\ stack[t] = "live" =>
         I(t).op = "join" /\ (I(t).tid \in AssumeBlocked \/ stack[I(t).tid] # "empty")

Promise == INSTANCE TSOMemory WITH buf <- store_buffer

(* Refusing loads that overlap a pending store of another size or address, *)
(* and reading early by address only, implements byte-wise TSO memory.     *)
ImplementsTSO == Promise!Spec

(* Every execution of a terminating program ends.                          *)
Terminates == <>Quiescent
=============================================================================
