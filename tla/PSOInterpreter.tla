--------------------------- MODULE PSOInterpreter ---------------------------
(***************************************************************************)
(* PSOInterpreter and the availability flags of PSOTraceBuilder.  Every    *)
(* pending store is split into its bytes; each byte has a FIFO buffer, and *)
(* every address at which a store begins has an auxiliary thread that      *)
(* updates memory with the stores that begin there.  The buffers of the    *)
(* interpreter and of the TraceBuilder are one variable.                   *)
(***************************************************************************)
EXTENDS Interpreter

CONSTANTS Locations, Values, Bytes

(* Accesses are to memory locations, of at least one byte.                 *)
ASSUME AccessAssumption ==
  /\ \A ml \in Locations :
       ml.addr \in Int /\ ml.size \in Nat \ {0} /\ bytes(ml) \subseteq Bytes
  /\ \A p \in Programs, t \in Threads : \A i \in 1..Len(p[t]) :
       /\ p[t][i].op \in {"load", "store", "atomic"} => p[t][i].ml \in Locations
       /\ p[t][i].op \in {"store", "atomic"} => p[t][i].val \in Values

VARIABLES
  mem,                    \* byte -> value
  store_buffers,          \* thread -> byte -> pending stores, oldest first
  awaiting_buffer_flush,  \* thread -> "NO", "FULL" or "PARTIAL"
  buffer_flush_ml,        \* thread -> the location a PARTIAL flush is for
  available_auxs,         \* <<t, b>>: auxiliary thread of t for address b
  reg                     \* thread -> result of its latest load

memVars == <<mem, store_buffers, awaiting_buffer_flush, buffer_flush_ml,
             available_auxs, reg>>
vars == <<threadVars, memVars>>

NoStores == [b \in Bytes |-> << >>]

Init ==
  /\ ThreadInit
  /\ mem = [b \in Bytes |-> 0]
  /\ store_buffers = [t \in Threads |-> NoStores]
  /\ awaiting_buffer_flush = [t \in Threads |-> "NO"]
  /\ buffer_flush_ml = [t \in Threads |-> [addr |-> 0, size |-> 1]]
  /\ available_auxs = {}
  /\ reg = [t \in Threads |-> << >>]

all_buffers_empty(sb) == \A b \in Bytes : sb[b] = << >>

(* Every byte of ml has no pending store, or its newest one is to ml.      *)
M_readable(sb, ml) == sb[ml.addr] = << >> \/ sb[ml.addr][Len(sb[ml.addr])].ml = ml
readable(sb, ml) == \A b \in bytes(ml) : sb[b] = << >> \/ sb[b][Len(sb[b])].ml = ml

-----------------------------------------------------------------------------
(* checkRefuse().  Its tests are made in this order.                       *)

JoinBlocked(t) ==
  /\ I(t).op = "join"
  /\ stack[I(t).tid] = "live" \/ ~all_buffers_empty(store_buffers[I(t).tid])

isFence(i) == i.op \in {"fence", "atomic", "create", "join"}

FenceBlocked(t) == isFence(I(t)) /\ ~all_buffers_empty(store_buffers[t])

LoadBlocked(t) == I(t).op = "load" /\ ~readable(store_buffers[t], I(t).ml)

(* Interpreter::checkRefuse()                                              *)
AssumeJoinBlocked(t) == I(t).op = "join" /\ I(t).tid \in AssumeBlocked

Blocked(t) ==
  JoinBlocked(t) \/ FenceBlocked(t) \/ LoadBlocked(t) \/ AssumeJoinBlocked(t)

RefusedJoin(t) ==
  /\ t \in available
  /\ JoinBlocked(t) \/ (~FenceBlocked(t) /\ AssumeJoinBlocked(t))
  /\ RefuseJoin(t)
  /\ UNCHANGED memVars

RefusedFull(t) ==
  /\ t \in available
  /\ ~JoinBlocked(t) /\ FenceBlocked(t)
  /\ awaiting_buffer_flush' = [awaiting_buffer_flush EXCEPT ![t] = "FULL"]
  /\ available' = refuse_schedule(t)
  /\ UNCHANGED <<prog, CurInst, stack, AssumeBlocked, AwaitingJoin, mem,
                 store_buffers, buffer_flush_ml, available_auxs, reg>>

RefusedPartial(t) ==
  /\ t \in available
  /\ LoadBlocked(t)
  /\ awaiting_buffer_flush' = [awaiting_buffer_flush EXCEPT ![t] = "PARTIAL"]
  /\ buffer_flush_ml' = [buffer_flush_ml EXCEPT ![t] = I(t).ml]
  /\ available' = refuse_schedule(t)
  /\ UNCHANGED <<prog, CurInst, stack, AssumeBlocked, AwaitingJoin, mem,
                 store_buffers, available_auxs, reg>>

-----------------------------------------------------------------------------
(* visit(): the instructions.                                              *)

(* Whether to read early is decided by the first byte alone.               *)
visitLoadInst(t) ==
  LET ml == I(t).ml  sb == store_buffers[t] IN
  /\ Executes(t, "load") /\ ~Blocked(t)
  /\ reg' = [reg EXCEPT ![t] = [b \in bytes(ml) |->
               IF sb[ml.addr] # << >> THEN sb[b][Len(sb[b])].val ELSE mem[b]]]
  /\ Continue(t)
  /\ UNCHANGED <<mem, store_buffers, awaiting_buffer_flush, buffer_flush_ml,
                 available_auxs>>

visitStoreInst(t) ==
  LET ml == I(t).ml IN
  /\ Executes(t, "store")
  /\ store_buffers' = [store_buffers EXCEPT ![t] = [b \in Bytes |->
       IF b \in bytes(ml) THEN Append(@[b], [ml |-> ml, val |-> I(t).val])
       ELSE @[b]]]
  /\ available_auxs' = available_auxs \cup {<<t, ml.addr>>}
  /\ Continue(t)
  /\ UNCHANGED <<mem, awaiting_buffer_flush, buffer_flush_ml, reg>>

Written(ml, v) == [b \in Bytes |-> IF b \in bytes(ml) THEN v ELSE mem[b]]

visitAtomic(t) ==
  /\ Executes(t, "atomic") /\ ~Blocked(t)
  /\ mem' = Written(I(t).ml, I(t).val)
  /\ Continue(t)
  /\ UNCHANGED <<store_buffers, awaiting_buffer_flush, buffer_flush_ml,
                 available_auxs, reg>>

visitFenceInst(t) ==
  /\ Executes(t, "fence") /\ ~Blocked(t)
  /\ Continue(t)
  /\ UNCHANGED memVars

visitCall(t) ==
  /\ ~Blocked(t)
  /\ callPthreadCreate(t) \/ callPthreadJoin(t) \/ callAssume(t)
  /\ UNCHANGED memVars

terminate(t) == IF all_buffers_empty(store_buffers[t]) THEN AwaitingJoin[t] ELSE {}

visitReturnInst(t) == Return(t, terminate(t)) /\ UNCHANGED memVars

-----------------------------------------------------------------------------
(* The auxiliary threads.                                                  *)

(* The oldest store at address b0 begins there, and is the oldest one for  *)
(* each of its other bytes too.                                            *)
M_is_aux_at_head(t, b0) == store_buffers[t][b0] # << >>
is_aux_at_head(t, b0) ==
  /\ store_buffers[t][b0] # << >>
  /\ \A b \in bytes(Head(store_buffers[t][b0]).ml) \ {b0} :
       Head(store_buffers[t][b]).ml.addr = b0

(* atomic_store() makes the auxiliary thread unavailable when the buffer   *)
(* of one of the bytes becomes empty.                                      *)
Exhausted(t, ml) == \E b \in bytes(ml) : Len(store_buffers[t][b]) = 1

(* runAux() wakes the thread when the flush it waits for is over.          *)
M_Flushed(t, ml, sb) == awaiting_buffer_flush[t] = "FULL" /\ all_buffers_empty(sb)
Flushed(t, ml, sb) ==
  \/ awaiting_buffer_flush[t] = "FULL" /\ all_buffers_empty(sb)
  \/ /\ awaiting_buffer_flush[t] = "PARTIAL"
     /\ overlaps(ml, buffer_flush_ml[t])
     /\ readable(sb, buffer_flush_ml[t])

joinersWoken(t, sb) ==
  IF all_buffers_empty(sb) /\ stack[t] = "empty" THEN AwaitingJoin[t] ELSE {}

runAux(t, b0) ==
  LET ml == Head(store_buffers[t][b0]).ml
      sb == [b \in Bytes |-> IF b \in bytes(ml) THEN Tail(store_buffers[t][b])
                             ELSE store_buffers[t][b]]
  IN
  /\ <<t, b0>> \in available_auxs
  /\ is_aux_at_head(t, b0)
  /\ mem' = [b \in Bytes |-> IF b \in bytes(ml) THEN Head(store_buffers[t][b]).val
                             ELSE mem[b]]
  /\ store_buffers' = [store_buffers EXCEPT ![t] = sb]
  /\ available_auxs' = IF Exhausted(t, ml) THEN available_auxs \ {<<t, b0>>}
                       ELSE available_auxs
  /\ awaiting_buffer_flush' =
       [awaiting_buffer_flush EXCEPT ![t] = IF Flushed(t, ml, sb) THEN "NO" ELSE @]
  /\ available' = available \cup joinersWoken(t, sb)
                    \cup (IF Flushed(t, ml, sb) THEN {t} ELSE {})
  /\ UNCHANGED <<prog, CurInst, stack, AssumeBlocked, AwaitingJoin,
                 buffer_flush_ml, reg>>

Step(t) ==
  \/ RefusedJoin(t) \/ RefusedFull(t) \/ RefusedPartial(t)
  \/ visitLoadInst(t) \/ visitStoreInst(t) \/ visitAtomic(t)
  \/ visitFenceInst(t) \/ visitCall(t) \/ visitReturnInst(t)

Update(t) == \E b0 \in Bytes : runAux(t, b0)

(* schedule() returns false and run() ends.                                *)
Quiescent ==
  available = {} /\ \A a \in available_auxs : ~is_aux_at_head(a[1], a[2])

Next == \/ \E t \in Threads : Step(t) \/ Update(t)
        \/ Quiescent /\ UNCHANGED vars

Spec == Init /\ [][Next]_vars

(* run() goes on as long as the TraceBuilder has a thread to schedule.     *)
FairSpec == Spec /\ \A t \in Threads : WF_vars(Step(t)) /\ WF_vars(Update(t))
-----------------------------------------------------------------------------

(* What runAux asserts of an auxiliary thread that schedule() picked: the  *)
(* oldest store begins at its address and is the oldest for all its bytes. *)
HeadIsWhole ==
  \A t \in Threads, b0 \in Bytes :
    <<t, b0>> \in available_auxs /\ is_aux_at_head(t, b0) =>
      LET s == Head(store_buffers[t][b0]) IN
      s.ml.addr = b0 /\ \A b \in bytes(s.ml) : Head(store_buffers[t][b]) = s

Promise == INSTANCE PSOMemory WITH buf <- store_buffers

(* Splitting stores into bytes, updating a store when it is at the head of *)
(* its first byte's buffer and refusing loads that are not readable        *)
(* implements byte-wise PSO memory.                                        *)
ImplementsPSO == Promise!Spec

(* A thread that waits for its buffers to flush gets to go on.             *)
FlushEnds ==
  \A t \in Threads : awaiting_buffer_flush[t] # "NO" ~> awaiting_buffer_flush[t] = "NO"
=============================================================================
