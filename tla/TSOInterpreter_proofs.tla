----------------------- MODULE TSOInterpreter_proofs -----------------------
(***************************************************************************)
(* Proofs about TSOInterpreter, for every program of loads, stores,        *)
(* atomics, fences, creates, joins and assumes: no wake-up is lost, an     *)
(* execution that ends has nothing left to do, and the interpreter         *)
(* implements the byte-wise memory of TSOMemory.                           *)
(***************************************************************************)
EXTENDS TSOInterpreter, SequenceTheorems, WellFoundedInduction, TLAPS

(* The provers that a leaf is tried with, unless it names its own.         *)
USE SMTT(10), Z3T(10), Zenon

-----------------------------------------------------------------------------
(* Definitions of the inductive invariant.                                 *)

PendingStores == [ml : Locations, val : Values]

(* The types of what the actions read.                                     *)
TypeOK ==
  /\ prog \in Programs
  /\ CurInst \in [Threads -> Nat \ {0}]
  /\ stack \in [Threads -> {"unborn", "live", "empty"}]
  /\ AssumeBlocked \subseteq Threads
  /\ AwaitingJoin \in [Threads -> SUBSET Threads]
  /\ available \subseteq Threads
  /\ store_buffer \in [Threads -> Seq(PendingStores)]
  /\ partial_buffer_flush \in [Threads -> Int]
  /\ update_available \subseteq Threads

Born == {t \in Threads : stack[t] # "unborn"}

(* Only threads that were created are scheduled, wait or store.            *)
OnlyBorn ==
  /\ available \subseteq Born
  /\ update_available \subseteq Born
  /\ \A t \in Threads : AwaitingJoin[t] \subseteq Born

(* The auxiliary threads that are available are those with a store left.   *)
Updating == \A t \in Threads : t \in update_available <=> store_buffer[t] # << >>

(* What a thread that was refused waits for, and what will wake it: the    *)
(* end of the thread it joins, where it is registered, or the size of its  *)
(* buffer at which the refused instruction can run.                        *)
Waits(t) ==
  \/ /\ JoinBlocked(t) \/ AssumeJoinBlocked(t)
     /\ t \in AwaitingJoin[I(t).tid]
  \/ FenceBlocked(t) /\ partial_buffer_flush[t] = 0
  \/ LoadBlocked(t) /\ partial_buffer_flush[t] = FlushPoint(t)

AllWait == \A t \in Threads : stack[t] = "live" /\ t \notin available => Waits(t)

Inv == TypeOK /\ OnlyBorn /\ Updating /\ AllWait

-----------------------------------------------------------------------------
(* The newest store with a property: the greatest of a set of indices.     *)

GreatestOf(H) == IF H = {} THEN 0 ELSE CHOOSE i \in H : \A j \in H : j <= i

(* A non-empty set of indices of a sequence has a greatest element.        *)
LEMMA GreatestExists ==
  ASSUME NEW n \in Nat, NEW H \in SUBSET (1..n), H # {}
  PROVE  \E i \in H : \A j \in H : j <= i
<1> DEFINE D == {n - i : i \in H}
<1>1. D \subseteq Nat /\ D # {}
  <2>1. \A i \in H : n - i \in Nat
    OBVIOUS
  <2>2. PICK i \in H : TRUE
    BY Zenon
  <2>3. n - i \in D
    BY <2>2
  <2> QED BY <2>1, <2>3
<1>2. PICK d \in D : \A y \in D : ~(<<y, d>> \in OpToRel(<, Nat))
  BY <1>1, NatLessThanWellFounded, WFMin, Zenon
<1>3. PICK i \in H : d = n - i
  BY <1>2, Zenon
<1>4. ASSUME NEW j \in H  PROVE j <= i
  <2>1. n - j \in D /\ n - j \in Nat /\ n - i \in Nat
    OBVIOUS
  <2>2. ~(n - j < n - i)
    BY <2>1, <1>2, <1>3, Zenon DEF OpToRel
  <2> QED BY <2>1, <2>2
<1> QED BY <1>3, <1>4

(* Newest(): 0 without a hit, or else the greatest hit.                    *)
LEMMA GreatestIs ==
  ASSUME NEW n \in Nat, NEW H \in SUBSET (1..n)
  PROVE  /\ GreatestOf(H) \in 0..n
         /\ GreatestOf(H) = 0 <=> H = {}
         /\ GreatestOf(H) # 0 => GreatestOf(H) \in H
         /\ \A j \in H : j <= GreatestOf(H)
<1>1. CASE H = {}
  BY <1>1 DEF GreatestOf
<1>2. CASE H # {}
  <2>1. \E i \in H : \A j \in H : j <= i
    BY <1>2, GreatestExists, Zenon
  <2>2. GreatestOf(H) \in H /\ \A j \in H : j <= GreatestOf(H)
    BY <1>2, <2>1, Zenon DEF GreatestOf
  <2>3. GreatestOf(H) \in 1..n
    BY <2>2, Zenon
  <2> QED BY <1>2, <2>2, <2>3
<1> QED BY <1>1, <1>2

(* The greatest hit is the only hit that is at least every other one.      *)
LEMMA GreatestUnique ==
  ASSUME NEW n \in Nat, NEW H \in SUBSET (1..n), NEW k \in H, \A j \in H : j <= k
  PROVE  GreatestOf(H) = k
<1>1. GreatestOf(H) \in 0..n /\ GreatestOf(H) \in H /\ \A j \in H : j <= GreatestOf(H)
  BY GreatestIs
<1> QED BY <1>1

(* The pending stores of t that its load would overlap, or begin with.     *)
OverlapHits(t) ==
  {i \in 1..Len(store_buffer[t]) : overlaps(store_buffer[t][i].ml, I(t).ml)}

RoweHits(t) ==
  {i \in 1..Len(store_buffer[t]) : store_buffer[t][i].ml.addr = I(t).ml.addr}

(* Overlapping() is the newest of the stores that overlap the load.        *)
LEMMA OverlappingIs ==
  ASSUME NEW t
  PROVE  Overlapping(t) = GreatestOf(OverlapHits(t))
BY DEF Overlapping, Newest, GreatestOf, OverlapHits

(* Rowe() is the newest of the stores that begin where the load does.      *)
LEMMA RoweIs ==
  ASSUME NEW t
  PROVE  Rowe(t) = GreatestOf(RoweHits(t))
BY DEF Rowe, Newest, GreatestOf, RoweHits

-----------------------------------------------------------------------------
(* Types.                                                                  *)

(* The operands of the instruction that run() fetches.                     *)
LEMMA Operands ==
  ASSUME TypeOK, NEW t \in Threads
  PROVE  /\ I(t).op \in {"create", "join"} => I(t).tid \in Threads
         /\ I(t).op \in {"load", "store", "atomic"} => I(t).ml \in Locations
         /\ I(t).op \in {"store", "atomic"} => I(t).val \in Values
<1>1. CASE CurInst[t] <= Len(prog[t])
  <2>1. CurInst[t] \in 1..Len(prog[t])
    BY <1>1, ProgramAssumption DEF TypeOK
  <2>2. I(t) = prog[t][CurInst[t]]
    BY <1>1 DEF I
  <2> QED BY <2>1, <2>2, ProgramAssumption, AccessAssumption DEF TypeOK
<1>2. CASE ~(CurInst[t] <= Len(prog[t]))
  BY <1>2 DEF I
<1> QED BY <1>1, <1>2

(* What is left of a buffer when its oldest store has been removed.        *)
LEMMA TailProperties ==
  ASSUME NEW S, NEW s \in Seq(S), s # << >>
  PROVE  /\ Len(s) \in Nat \ {0}
         /\ Tail(s) \in Seq(S)
         /\ Len(Tail(s)) = Len(s) - 1
         /\ \A i \in 1..(Len(s) - 1) : Tail(s)[i] = s[i + 1]
         /\ Tail(s) = << >> <=> Len(s) = 1
<1>1. Len(s) \in Nat \ {0}
  BY EmptySeq
<1>2. /\ Tail(s) \in Seq(S)
      /\ Len(Tail(s)) = Len(s) - 1
      /\ \A i \in 1..Len(Tail(s)) : Tail(s)[i] = s[i + 1]
  BY HeadTailProperties
<1>3. Tail(s) = << >> <=> Len(Tail(s)) = 0
  BY <1>2, EmptySeq
<1> QED BY <1>1, <1>2, <1>3

(* What Overlapping() returns.                                             *)
LEMMA OverlappingRange ==
  ASSUME TypeOK, NEW t \in Threads
  PROVE  /\ Len(store_buffer[t]) \in Nat
         /\ OverlapHits(t) \in SUBSET (1..Len(store_buffer[t]))
         /\ Overlapping(t) \in 0..Len(store_buffer[t])
         /\ Overlapping(t) = 0 <=> OverlapHits(t) = {}
         /\ Overlapping(t) # 0 => Overlapping(t) \in OverlapHits(t)
         /\ \A j \in OverlapHits(t) : j <= Overlapping(t)
<1>1. Len(store_buffer[t]) \in Nat
  BY DEF TypeOK
<1>2. OverlapHits(t) \in SUBSET (1..Len(store_buffer[t]))
  BY DEF OverlapHits
<1> QED BY <1>1, <1>2, GreatestIs, OverlappingIs

(* What Rowe() returns.                                                    *)
LEMMA RoweRange ==
  ASSUME TypeOK, NEW t \in Threads
  PROVE  /\ RoweHits(t) \in SUBSET (1..Len(store_buffer[t]))
         /\ Rowe(t) \in 0..Len(store_buffer[t])
         /\ Rowe(t) = 0 <=> RoweHits(t) = {}
         /\ Rowe(t) # 0 => Rowe(t) \in RoweHits(t)
         /\ \A j \in RoweHits(t) : j <= Rowe(t)
<1>1. Len(store_buffer[t]) \in Nat
  BY DEF TypeOK
<1>2. RoweHits(t) \in SUBSET (1..Len(store_buffer[t]))
  BY DEF RoweHits
<1> QED BY <1>1, <1>2, GreatestIs, RoweIs

(* Every action keeps the types.                                           *)
LEMMA NextTypeOK ==
  ASSUME TypeOK, [Next]_vars
  PROVE  TypeOK'
<1>1. ASSUME NEW t \in Threads, RefusedJoin(t)
      PROVE  TypeOK'
  <2>1. I(t).tid \in Threads
    BY <1>1, Operands DEF RefusedJoin, JoinBlocked, AssumeJoinBlocked
  <2> QED
    BY <1>1, <2>1 DEF TypeOK, RefusedJoin, RefuseJoin, Register, refuse_schedule, memVars
<1>2. ASSUME NEW t \in Threads, RefusedFlush(t)
      PROVE  TypeOK'
  <2>1. FlushPoint(t) \in Int
    BY OverlappingRange DEF FlushPoint
  <2>2. (IF FenceBlocked(t) THEN 0 ELSE FlushPoint(t)) \in Int
    BY <2>1
  <2>3. partial_buffer_flush' \in [Threads -> Int]
    BY <1>2, <2>2 DEF TypeOK, RefusedFlush
  <2> QED
    BY <1>2, <2>3 DEF TypeOK, RefusedFlush, refuse_schedule
<1>3. ASSUME NEW t \in Threads, visitLoadInst(t)
      PROVE  TypeOK'
  BY <1>3 DEF TypeOK, visitLoadInst, Continue, Advance
<1>4. ASSUME NEW t \in Threads, visitStoreInst(t)
      PROVE  TypeOK'
  <2>1. [ml |-> I(t).ml, val |-> I(t).val] \in PendingStores
    BY <1>4, Operands DEF visitStoreInst, Executes, PendingStores
  <2>2. Append(store_buffer[t], [ml |-> I(t).ml, val |-> I(t).val]) \in Seq(PendingStores)
    BY <2>1 DEF TypeOK
  <2>3. store_buffer' \in [Threads -> Seq(PendingStores)]
    BY <1>4, <2>2 DEF TypeOK, visitStoreInst
  <2> QED
    BY <1>4, <2>3 DEF TypeOK, visitStoreInst, Continue, Advance, Enable
<1>5. ASSUME NEW t \in Threads, visitAtomic(t) \/ visitFenceInst(t)
      PROVE  TypeOK'
  <2>1. CASE visitAtomic(t)
    BY <2>1 DEF TypeOK, visitAtomic, Continue, Advance
  <2>2. CASE visitFenceInst(t)
    BY <2>2 DEF TypeOK, visitFenceInst, Continue, Advance, memVars
  <2> QED BY <1>5, <2>1, <2>2
<1>6. ASSUME NEW t \in Threads, visitCall(t)
      PROVE  TypeOK'
  <2>1. I(t).op \in {"create", "join"} => I(t).tid \in Threads
    BY Operands
  <2>2. CASE callPthreadCreate(t)
    BY <1>6, <2>1, <2>2 DEF TypeOK, visitCall, callPthreadCreate, Executes,
                            Advance, memVars
  <2>3. CASE callPthreadJoin(t)
    BY <1>6, <2>3 DEF TypeOK, visitCall, callPthreadJoin, Advance, memVars
  <2>4. CASE callAssume(t)
    BY <1>6, <2>4 DEF TypeOK, visitCall, callAssume, Executes, memVars
  <2> QED BY <1>6, <2>2, <2>3, <2>4 DEF visitCall
<1>7. ASSUME NEW t \in Threads, visitReturnInst(t)
      PROVE  TypeOK'
  BY <1>7 DEF TypeOK, visitReturnInst, Return, Ended, terminate, memVars
<1>8. ASSUME NEW t \in Threads, runAux(t)
      PROVE  TypeOK'
  <2>1. Tail(store_buffer[t]) \in Seq(PendingStores)
    BY <1>8 DEF TypeOK, runAux
  <2>2. store_buffer' \in [Threads -> Seq(PendingStores)]
    BY <1>8, <2>1 DEF TypeOK, runAux
  <2>3. partial_buffer_flush' \in [Threads -> Int]
    BY <1>8 DEF TypeOK, runAux
  <2>4. available' \subseteq Threads /\ update_available' \subseteq Threads
    BY <1>8 DEF TypeOK, runAux, joinersWoken
  <2> QED
    BY <1>8, <2>2, <2>3, <2>4 DEF TypeOK, runAux
<1>9. ASSUME UNCHANGED vars
      PROVE  TypeOK'
  BY <1>9 DEF TypeOK, vars, threadVars, memVars
<1> QED
  BY <1>1, <1>2, <1>3, <1>4, <1>5, <1>6, <1>7, <1>8, <1>9 DEF Next, Step

-----------------------------------------------------------------------------
(* The rest of the invariant.                                              *)

(* Threads are scheduled, registered and given a buffer only once created. *)
LEMMA NextOnlyBorn ==
  ASSUME Inv, [Next]_vars
  PROVE  OnlyBorn'
<1>0. TypeOK /\ OnlyBorn
  BY DEF Inv
<1>1. ASSUME NEW t \in Threads, RefusedJoin(t)
      PROVE  OnlyBorn'
  <2>1. I(t).tid \in Threads
    BY <1>0, <1>1, Operands DEF RefusedJoin, JoinBlocked, AssumeJoinBlocked
  <2> QED
    BY <1>0, <1>1, <2>1 DEF TypeOK, OnlyBorn, Born, RefusedJoin, RefuseJoin,
                            Register, refuse_schedule, memVars
<1>2. ASSUME NEW t \in Threads, RefusedFlush(t)
      PROVE  OnlyBorn'
  BY <1>0, <1>2 DEF OnlyBorn, Born, RefusedFlush, refuse_schedule
<1>3. ASSUME NEW t \in Threads, visitLoadInst(t)
      PROVE  OnlyBorn'
  BY <1>0, <1>3 DEF OnlyBorn, Born, visitLoadInst, Continue
<1>4. ASSUME NEW t \in Threads, visitStoreInst(t)
      PROVE  OnlyBorn'
  BY <1>0, <1>4 DEF OnlyBorn, Born, visitStoreInst, Executes, Continue, Enable
<1>5. ASSUME NEW t \in Threads, visitAtomic(t) \/ visitFenceInst(t)
      PROVE  OnlyBorn'
  BY <1>0, <1>5 DEF OnlyBorn, Born, visitAtomic, visitFenceInst, Continue, memVars
<1>6. ASSUME NEW t \in Threads, visitCall(t)
      PROVE  OnlyBorn'
  <2>1. CASE callPthreadCreate(t)
    <3>1. I(t).tid \in Threads
      BY <1>0, <2>1, Operands DEF callPthreadCreate, Executes
    <3> QED
      BY <1>0, <1>6, <2>1, <3>1 DEF TypeOK, OnlyBorn, Born, visitCall,
                                    callPthreadCreate, memVars
  <2>2. CASE callPthreadJoin(t)
    BY <1>0, <1>6, <2>2 DEF OnlyBorn, Born, visitCall, callPthreadJoin, memVars
  <2>3. CASE callAssume(t)
    BY <1>0, <1>6, <2>3 DEF TypeOK, OnlyBorn, Born, visitCall, callAssume, memVars
  <2> QED BY <1>6, <2>1, <2>2, <2>3 DEF visitCall
<1>7. ASSUME NEW t \in Threads, visitReturnInst(t)
      PROVE  OnlyBorn'
  BY <1>0, <1>7 DEF TypeOK, OnlyBorn, Born, visitReturnInst, Return, Ended,
                    terminate, memVars
<1>8. ASSUME NEW t \in Threads, runAux(t)
      PROVE  OnlyBorn'
  BY <1>0, <1>8 DEF OnlyBorn, Born, runAux, joinersWoken
<1>9. ASSUME UNCHANGED vars
      PROVE  OnlyBorn'
  BY <1>0, <1>9 DEF OnlyBorn, Born, vars, threadVars, memVars
<1> QED
  BY <1>1, <1>2, <1>3, <1>4, <1>5, <1>6, <1>7, <1>8, <1>9 DEF Next, Step

(* visitStoreInst() changes one buffer, which is not empty then.           *)
LEMMA StoreBuffers ==
  ASSUME TypeOK, NEW t \in Threads, visitStoreInst(t)
  PROVE  /\ store_buffer'[t] # << >>
         /\ \A u \in Threads \ {t} : store_buffer'[u] = store_buffer[u]
<1> DEFINE s == [ml |-> I(t).ml, val |-> I(t).val]
<1>1. s \in PendingStores
  BY Operands DEF visitStoreInst, Executes, PendingStores
<1>2. Append(store_buffer[t], s) # << >>
  <2>1. store_buffer[t] \in Seq(PendingStores)
    BY DEF TypeOK
  <2> HIDE DEF s
  <2> QED BY <1>1, <2>1, AppendProperties
<1>3. store_buffer' = [store_buffer EXCEPT ![t] = Append(store_buffer[t], s)]
  BY DEF visitStoreInst
<1> HIDE DEF s
<1> QED BY <1>2, <1>3 DEF TypeOK

(* visitStoreInst() enables the auxiliary thread, and the runAux() that    *)
(* empties the buffer disables it.                                         *)
LEMMA NextUpdating ==
  ASSUME Inv, [Next]_vars
  PROVE  Updating'
<1>0. TypeOK /\ Updating
  BY DEF Inv
<1>1. ASSUME UNCHANGED <<store_buffer, update_available>>
      PROVE  Updating'
  BY <1>0, <1>1 DEF Updating
<1>2. ASSUME NEW t \in Threads, visitStoreInst(t)
      PROVE  Updating'
  <2>1. /\ store_buffer'[t] # << >>
        /\ \A u \in Threads \ {t} : store_buffer'[u] = store_buffer[u]
    BY <1>0, <1>2, StoreBuffers
  <2> QED
    BY <1>0, <1>2, <2>1 DEF Updating, visitStoreInst, Enable
<1>3. ASSUME NEW t \in Threads, runAux(t)
      PROVE  Updating'
  <2>1. store_buffer[t] \in Seq(PendingStores) /\ store_buffer[t] # << >>
    BY <1>0, <1>3 DEF TypeOK, runAux
  <2>2. store_buffer'[t] = Tail(store_buffer[t])
    BY <1>0, <1>3 DEF TypeOK, runAux
  <2>3. Tail(store_buffer[t]) = << >> <=> Len(store_buffer[t]) = 1
    BY <2>1, TailProperties
  <2>4. \A u \in Threads \ {t} : store_buffer'[u] = store_buffer[u]
    BY <1>0, <1>3 DEF TypeOK, runAux
  <2>5. update_available' = IF Len(store_buffer[t]) = 1 THEN update_available \ {t}
                            ELSE update_available
    BY <1>3 DEF runAux
  <2> QED
    BY <1>0, <2>1, <2>2, <2>3, <2>4, <2>5, Zenon DEF Updating
<1>4. ASSUME NEW t \in Threads, Step(t), ~visitStoreInst(t)
      PROVE  UNCHANGED <<store_buffer, update_available>>
  BY <1>4 DEF Step, RefusedJoin, RefusedFlush, visitLoadInst, visitAtomic,
              visitFenceInst, visitCall, visitReturnInst, memVars
<1> QED
  BY <1>1, <1>2, <1>3, <1>4 DEF Next, vars, memVars

(* A thread waits on as long as its instruction and its buffer stay what   *)
(* they are and the thread it joins does not end.                          *)
LEMMA StaysWaiting ==
  ASSUME TypeOK, NEW t \in Threads, Waits(t),
         prog' = prog, CurInst'[t] = CurInst[t],
         store_buffer'[t] = store_buffer[t],
         partial_buffer_flush'[t] = partial_buffer_flush[t],
         AssumeBlocked \subseteq AssumeBlocked',
         \A u \in Threads : t \in AwaitingJoin[u] =>
           /\ t \in AwaitingJoin'[u]
           /\ stack[u] = "live" \/ store_buffer[u] # << >> =>
                stack'[u] = "live" \/ store_buffer'[u] # << >> \/ u \in AssumeBlocked'
  PROVE  Waits(t)'
<1>1. I(t)' = I(t)
  BY DEF I
<1>2. CASE (JoinBlocked(t) \/ AssumeJoinBlocked(t)) /\ t \in AwaitingJoin[I(t).tid]
  <2>1. I(t).op = "join" /\ I(t).tid \in Threads
    BY <1>2, Operands DEF JoinBlocked, AssumeJoinBlocked
  <2>2. t \in AwaitingJoin'[I(t).tid]
    BY <1>2, <2>1
  <2>3. JoinBlocked(t)' \/ AssumeJoinBlocked(t)'
    BY <1>1, <1>2, <2>1 DEF JoinBlocked, AssumeJoinBlocked
  <2> QED BY <1>1, <2>2, <2>3 DEF Waits
<1>3. CASE FenceBlocked(t) /\ partial_buffer_flush[t] = 0
  BY <1>1, <1>3 DEF Waits, FenceBlocked
<1>4. CASE LoadBlocked(t) /\ partial_buffer_flush[t] = FlushPoint(t)
  <2>1. Overlapping(t)' = Overlapping(t)
    BY <1>1 DEF Overlapping, Newest
  <2>2. LoadBlocked(t)' /\ FlushPoint(t)' = FlushPoint(t)
    BY <1>1, <1>4, <2>1 DEF LoadBlocked, FlushPoint
  <2> QED BY <1>4, <2>2 DEF Waits
<1> QED BY <1>2, <1>3, <1>4 DEF Waits

(* runAux() removes the oldest store: a load that waits for one of the     *)
(* others waits for the same one, at the same flush point.                 *)
LEMMA FlushPointStays ==
  ASSUME TypeOK, NEW t \in Threads, LoadBlocked(t), runAux(t), Overlapping(t) # 1
  PROVE  LoadBlocked(t)' /\ FlushPoint(t)' = FlushPoint(t)
<1> DEFINE o == Overlapping(t)
           n == Len(store_buffer[t])
<1>1. I(t)' = I(t)
  BY DEF runAux, I
<1>2. store_buffer[t] \in Seq(PendingStores) /\ store_buffer[t] # << >>
  BY DEF TypeOK, runAux
<1>3. store_buffer'[t] = Tail(store_buffer[t])
  BY DEF TypeOK, runAux
<1>4. /\ n \in Nat \ {0}
      /\ Len(store_buffer'[t]) = n - 1
      /\ \A i \in 1..(n - 1) : store_buffer'[t][i] = store_buffer[t][i + 1]
  BY <1>2, <1>3, TailProperties
<1>5. o \in 2..n /\ o \in OverlapHits(t) /\ \A j \in OverlapHits(t) : j <= o
  BY OverlappingRange DEF LoadBlocked
<1> DEFINE H == OverlapHits(t)'
<1>6. H = {i \in 1..Len(store_buffer'[t]) : overlaps(store_buffer'[t][i].ml, I(t)'.ml)}
  BY DEF OverlapHits
<1>7. o - 1 \in H
  <2>1. o - 1 \in 1..(n - 1) /\ store_buffer'[t][o - 1] = store_buffer[t][o]
    BY <1>4, <1>5
  <2>2. overlaps(store_buffer[t][o].ml, I(t).ml)
    BY <1>5 DEF OverlapHits
  <2> QED BY <1>1, <1>4, <1>6, <2>1, <2>2
<1>8. \A j \in H : j <= o - 1
  <2> SUFFICES ASSUME NEW j \in H  PROVE j <= o - 1
    OBVIOUS
  <2>1. j \in 1..(n - 1) /\ overlaps(store_buffer'[t][j].ml, I(t).ml)
    BY <1>1, <1>4, <1>6
  <2>2. overlaps(store_buffer[t][j + 1].ml, I(t).ml)
    BY <1>4, <2>1
  <2>3. j + 1 \in OverlapHits(t)
    BY <1>4, <2>1, <2>2 DEF OverlapHits
  <2> QED BY <1>5, <2>1, <2>3
<1>9. H \in SUBSET (1..(n - 1)) /\ n - 1 \in Nat
  BY <1>4, <1>6
<1>10. Overlapping(t)' = GreatestOf(H)
  BY DEF Overlapping, Newest, GreatestOf, OverlapHits
<1>11. Overlapping(t)' = o - 1
  BY <1>7, <1>8, <1>9, <1>10, GreatestUnique, Zenon
<1>12. store_buffer'[t][o - 1] = store_buffer[t][o]
  BY <1>4, <1>5
<1>13. FlushPoint(t)' = FlushPoint(t)
  BY <1>4, <1>5, <1>11 DEF FlushPoint
<1>14. LoadBlocked(t)'
  BY <1>1, <1>5, <1>11, <1>12 DEF LoadBlocked
<1> QED BY <1>13, <1>14

(* A refusal leaves its thread with a reason to wait.                      *)
LEMMA RefusedWaits ==
  ASSUME TypeOK, NEW t \in Threads, RefusedJoin(t) \/ RefusedFlush(t)
  PROVE  Waits(t)'
<1>1. CASE RefusedJoin(t)
  <2>1. I(t)' = I(t)
    BY <1>1 DEF RefusedJoin, RefuseJoin, I
  <2>2. I(t).op = "join" /\ I(t).tid \in Threads
    BY <1>1, Operands DEF RefusedJoin, JoinBlocked, AssumeJoinBlocked
  <2>3. t \in AwaitingJoin'[I(t).tid]
    BY <1>1, <2>2 DEF TypeOK, RefusedJoin, RefuseJoin, Register
  <2>4. JoinBlocked(t)' \/ AssumeJoinBlocked(t)'
    BY <1>1, <2>1 DEF RefusedJoin, RefuseJoin, JoinBlocked, AssumeJoinBlocked, memVars
  <2> QED BY <2>1, <2>3, <2>4 DEF Waits
<1>2. CASE RefusedFlush(t)
  <2>1. I(t)' = I(t) /\ store_buffer' = store_buffer
    BY <1>2 DEF RefusedFlush, I
  <2>2. partial_buffer_flush'[t] = IF FenceBlocked(t) THEN 0 ELSE FlushPoint(t)
    BY <1>2 DEF TypeOK, RefusedFlush
  <2>3. Overlapping(t)' = Overlapping(t)
    BY <2>1 DEF Overlapping, Newest
  <2>4. FenceBlocked(t)' <=> FenceBlocked(t)
    BY <2>1 DEF FenceBlocked
  <2>5. (LoadBlocked(t)' <=> LoadBlocked(t)) /\ FlushPoint(t)' = FlushPoint(t)
    BY <2>1, <2>3 DEF LoadBlocked, FlushPoint
  <2> QED BY <1>2, <2>2, <2>4, <2>5 DEF Waits, RefusedFlush
<1> QED BY <1>1, <1>2

(* runAux() of a waiting thread wakes it, or leaves it waiting.            *)
LEMMA UpdateWaits ==
  ASSUME TypeOK, NEW t \in Threads, Waits(t), stack[t] = "live", runAux(t),
         t \notin available'
  PROVE  Waits(t)'
<1>1. I(t)' = I(t)
  BY DEF runAux, I
<1>2. store_buffer[t] \in Seq(PendingStores) /\ store_buffer[t] # << >>
  BY DEF TypeOK, runAux
<1>3. store_buffer'[t] = Tail(store_buffer[t])
  BY DEF TypeOK, runAux
<1>4. Len(store_buffer[t]) \in Nat /\ partial_buffer_flush[t] \in Int
  BY <1>2 DEF TypeOK
<1>5. /\ ~(Len(store_buffer[t]) - 1 <= partial_buffer_flush[t])
      /\ partial_buffer_flush'[t] = partial_buffer_flush[t]
  BY DEF TypeOK, runAux
<1>6. CASE (JoinBlocked(t) \/ AssumeJoinBlocked(t)) /\ t \in AwaitingJoin[I(t).tid]
  <2>1. I(t).tid \in Threads
    BY <1>6, Operands DEF JoinBlocked, AssumeJoinBlocked
  <2>2. \A u \in Threads \ {t} : store_buffer'[u] = store_buffer[u]
    BY DEF TypeOK, runAux
  <2>3. stack' = stack /\ AssumeBlocked' = AssumeBlocked /\ AwaitingJoin' = AwaitingJoin
    BY DEF runAux
  <2>4. JoinBlocked(t)' \/ AssumeJoinBlocked(t)'
    BY <1>1, <1>6, <2>1, <2>2, <2>3 DEF JoinBlocked, AssumeJoinBlocked
  <2> QED BY <1>1, <1>6, <2>3, <2>4 DEF Waits
<1>7. CASE FenceBlocked(t) /\ partial_buffer_flush[t] = 0
  <2>1. Tail(store_buffer[t]) # << >>
    BY <1>2, <1>4, <1>5, <1>7, TailProperties
  <2> QED BY <1>1, <1>3, <1>5, <1>7, <2>1 DEF Waits, FenceBlocked
<1>8. CASE LoadBlocked(t) /\ partial_buffer_flush[t] = FlushPoint(t)
  <2>1. Overlapping(t) # 1
    BY <1>4, <1>5, <1>8 DEF FlushPoint
  <2>2. LoadBlocked(t)' /\ FlushPoint(t)' = FlushPoint(t)
    BY <1>8, <2>1, FlushPointStays
  <2> QED BY <1>5, <1>8, <2>2 DEF Waits
<1> QED BY <1>6, <1>7, <1>8 DEF Waits

(* A step of another thread u leaves t waiting, or wakes it.               *)
LEMMA OtherStepWaits ==
  ASSUME Inv, NEW t \in Threads, NEW u \in Threads \ {t}, Step(u),
         Waits(t), t \notin available'
  PROVE  Waits(t)'
<1>0. TypeOK /\ OnlyBorn
  BY DEF Inv
<1>1. CASE RefusedJoin(u)
  <2>1. I(u).tid \in Threads
    BY <1>0, <1>1, Operands DEF RefusedJoin, JoinBlocked, AssumeJoinBlocked
  <2>2. \A v \in Threads : AwaitingJoin[v] \subseteq AwaitingJoin'[v]
    BY <1>0, <1>1, <2>1 DEF TypeOK, RefusedJoin, RefuseJoin, Register
  <2> QED
    BY <1>0, <1>1, <2>2, StaysWaiting DEF RefusedJoin, RefuseJoin, memVars
<1>2. CASE RefusedFlush(u)
  <2>1. partial_buffer_flush'[t] = partial_buffer_flush[t]
    BY <1>0, <1>2 DEF TypeOK, RefusedFlush
  <2> QED
    BY <1>0, <1>2, <2>1, StaysWaiting DEF RefusedFlush
<1>3. ASSUME Continue(u), store_buffer'[t] = store_buffer[t],
             partial_buffer_flush' = partial_buffer_flush,
             \A v \in Threads : store_buffer[v] # << >> => store_buffer'[v] # << >>
      PROVE  Waits(t)'
  <2>1. CurInst'[t] = CurInst[t]
    BY <1>0, <1>3 DEF TypeOK, Continue, Advance
  <2> QED
    BY <1>0, <1>3, <2>1, StaysWaiting DEF Continue
<1>4. CASE visitLoadInst(u)
  BY <1>3, <1>4 DEF visitLoadInst
<1>5. CASE visitStoreInst(u)
  <2>1. /\ store_buffer'[u] # << >>
        /\ \A v \in Threads \ {u} : store_buffer'[v] = store_buffer[v]
    BY <1>0, <1>5, StoreBuffers
  <2> QED BY <1>3, <1>5, <2>1 DEF visitStoreInst
<1>6. CASE visitAtomic(u)
  BY <1>3, <1>6 DEF visitAtomic
<1>7. CASE visitFenceInst(u)
  BY <1>3, <1>7 DEF visitFenceInst, memVars
<1>8. CASE visitCall(u)
  <2>1. CASE callPthreadCreate(u)
    <3>1. I(u).tid \in Threads
      BY <1>0, <2>1, Operands DEF callPthreadCreate, Executes
    <3>2. \A v \in Threads : stack[v] = "live" => stack'[v] = "live"
      BY <1>0, <2>1, <3>1 DEF TypeOK, callPthreadCreate
    <3>3. CurInst'[t] = CurInst[t]
      BY <1>0, <2>1 DEF TypeOK, callPthreadCreate, Advance
    <3> QED
      BY <1>0, <1>8, <2>1, <3>2, <3>3, StaysWaiting DEF visitCall, callPthreadCreate, memVars
  <2>2. CASE callPthreadJoin(u)
    <3>1. CurInst'[t] = CurInst[t]
      BY <1>0, <2>2 DEF TypeOK, callPthreadJoin, Advance
    <3> QED
      BY <1>0, <1>8, <2>2, <3>1, StaysWaiting DEF visitCall, callPthreadJoin, memVars
  <2>3. CASE callAssume(u)
    <3>1. /\ \A v \in Threads \ {u} : stack'[v] = stack[v]
          /\ u \in AssumeBlocked'
      BY <1>0, <2>3 DEF TypeOK, callAssume
    <3> QED
      BY <1>0, <1>8, <2>3, <3>1, StaysWaiting DEF visitCall, callAssume, memVars
  <2> QED BY <1>8, <2>1, <2>2, <2>3 DEF visitCall
<1>9. CASE visitReturnInst(u)
  <2>1. \A v \in Threads \ {u} : stack'[v] = stack[v]
    BY <1>0, <1>9 DEF TypeOK, visitReturnInst, Return
  <2>2. t \in AwaitingJoin[u] => store_buffer[u] # << >>
    BY <1>9 DEF visitReturnInst, Return, Ended, terminate
  <2> QED
    BY <1>0, <1>9, <2>1, <2>2, StaysWaiting DEF visitReturnInst, Return, memVars
<1> QED BY <1>1, <1>2, <1>4, <1>5, <1>6, <1>7, <1>8, <1>9 DEF Step

(* An update of the buffer of another thread u leaves t waiting, or wakes  *)
(* it: the last one of an ended thread wakes those that join it.           *)
LEMMA OtherUpdateWaits ==
  ASSUME Inv, NEW t \in Threads, NEW u \in Threads \ {t}, runAux(u),
         Waits(t), t \notin available'
  PROVE  Waits(t)'
<1>0. TypeOK /\ OnlyBorn
  BY DEF Inv
<1>1. /\ \A v \in Threads \ {u} : store_buffer'[v] = store_buffer[v]
      /\ partial_buffer_flush'[t] = partial_buffer_flush[t]
  BY <1>0 DEF TypeOK, runAux
<1>2. store_buffer'[u] = Tail(store_buffer[u])
  BY <1>0 DEF TypeOK, runAux
<1>3. store_buffer[u] \in Seq(PendingStores) /\ store_buffer[u] # << >>
  BY <1>0 DEF TypeOK, runAux
<1>4. store_buffer'[u] = << >> => Len(store_buffer[u]) = 1
  BY <1>2, <1>3, TailProperties, Zenon
<1>5. u \in Born
  BY <1>0 DEF OnlyBorn, runAux
<1>6. stack[u] = "live" \/ stack[u] = "empty"
  BY <1>0, <1>5 DEF TypeOK, Born
<1>7. t \in AwaitingJoin[u] => stack[u] = "live" \/ store_buffer'[u] # << >>
  BY <1>4, <1>6 DEF runAux, joinersWoken
<1> QED
  BY <1>0, <1>1, <1>7, StaysWaiting DEF runAux

(* No action leaves an unavailable live thread without a reason to wait.   *)
LEMMA NextAllWait ==
  ASSUME Inv, [Next]_vars
  PROVE  AllWait'
<1>0. TypeOK /\ OnlyBorn /\ AllWait
  BY DEF Inv
<1> SUFFICES ASSUME NEW t \in Threads, stack'[t] = "live", t \notin available'
             PROVE  Waits(t)'
  BY DEF AllWait
<1>1. ASSUME NEW u \in Threads, Step(u) \/ runAux(u), u # t \/ runAux(u)
      PROVE  stack[t] = "live" /\ t \notin available
  <2>1. CASE runAux(u)
    BY <2>1 DEF runAux
  <2>2. CASE Step(u) /\ u # t /\ ~visitCall(u)
    BY <1>0, <2>2, Zenon DEF TypeOK, Step, RefusedJoin, RefuseJoin, RefusedFlush,
      refuse_schedule, visitLoadInst, visitStoreInst, visitAtomic, visitFenceInst,
      visitReturnInst, Return, Ended, Continue
  <2>3. CASE visitCall(u) /\ u # t
    <3>1. CASE callPthreadCreate(u)
      <4>1. I(u).tid \in Threads
        BY <1>0, <3>1, Operands DEF callPthreadCreate, Executes
      <4> QED BY <1>0, <3>1, <4>1 DEF TypeOK, callPthreadCreate
    <3>2. CASE callPthreadJoin(u)
      BY <3>2 DEF callPthreadJoin
    <3>3. CASE callAssume(u)
      BY <1>0, <2>3, <3>3 DEF TypeOK, callAssume
    <3> QED BY <2>3, <3>1, <3>2, <3>3 DEF visitCall
  <2> QED BY <1>1, <2>1, <2>2, <2>3
<1>2. ASSUME NEW u \in Threads, u # t, Step(u) \/ runAux(u)
      PROVE  Waits(t)'
  <2>1. Waits(t)
    BY <1>0, <1>1, <1>2 DEF AllWait
  <2> QED BY <1>2, <2>1, OtherStepWaits, OtherUpdateWaits
<1>3. CASE runAux(t)
  <2>1. stack[t] = "live" /\ Waits(t)
    BY <1>0, <1>1, <1>3 DEF AllWait
  <2> QED BY <1>0, <1>3, <2>1, UpdateWaits
<1>4. CASE Step(t)
  <2>1. CASE RefusedJoin(t) \/ RefusedFlush(t)
    BY <1>0, <2>1, RefusedWaits
  <2>2. CASE visitLoadInst(t) \/ visitStoreInst(t) \/ visitAtomic(t) \/ visitFenceInst(t)
    BY <2>2 DEF visitLoadInst, visitStoreInst, visitAtomic, visitFenceInst,
                Executes, Continue
  <2>3. CASE visitCall(t)
    BY <1>0, <2>3 DEF TypeOK, visitCall, callPthreadCreate, callPthreadJoin,
                      callAssume, Executes
  <2>4. CASE visitReturnInst(t)
    BY <1>0, <2>4 DEF TypeOK, visitReturnInst, Return
  <2> QED BY <1>4, <2>1, <2>2, <2>3, <2>4 DEF Step
<1>5. CASE UNCHANGED vars
  <2>1. stack[t] = "live" /\ t \notin available
    BY <1>5 DEF vars, threadVars
  <2>2. Waits(t)
    BY <1>0, <2>1 DEF AllWait
  <2> QED BY <1>0, <1>5, <2>2, StaysWaiting DEF vars, threadVars, memVars
<1> QED BY <1>2, <1>3, <1>4, <1>5 DEF Next

-----------------------------------------------------------------------------
(* The theorems.                                                           *)

(* The initial states satisfy the invariant.                               *)
LEMMA InitInv ==
  ASSUME Init
  PROVE  Inv
<1>1. TypeOK
  BY ProgramAssumption DEF Init, ThreadInit, TypeOK
<1>2. OnlyBorn /\ Updating /\ AllWait
  BY ProgramAssumption DEF Init, ThreadInit, OnlyBorn, Born, Updating, AllWait
<1> QED BY <1>1, <1>2 DEF Inv

(* Every step keeps the invariant.                                         *)
LEMMA NextInv ==
  ASSUME Inv, [Next]_vars
  PROVE  Inv'
BY NextTypeOK, NextOnlyBorn, NextUpdating, NextAllWait DEF Inv

(* The invariant holds in every state of the interpreter.                  *)
THEOREM Invariance == Spec => []Inv
<1>1. Init => Inv
  BY InitInv
<1>2. Inv /\ [Next]_vars => Inv'
  BY NextInv
<1> QED BY <1>1, <1>2, PTL DEF Spec

(* For every program and any number of threads, a live thread that may not *)
(* be scheduled is blocked: checkRefuse() would still refuse it.           *)
THEOREM NoWakeupIsMissed == Spec => []NoMissedWakeup
<1>1. Inv => NoMissedWakeup
  BY DEF Inv, AllWait, Waits, NoMissedWakeup, Blocked
<1> QED BY <1>1, Invariance, PTL

(* When schedule() has no thread left, every buffer has been flushed and a *)
(* live thread waits to join one that cannot end.                          *)
THEOREM TheEndIsFinal == Spec => []QuiescentIsFinal
<1>1. Inv => QuiescentIsFinal
  <2> SUFFICES ASSUME Inv, Quiescent, NEW t \in Threads
               PROVE  /\ store_buffer[t] = << >>
                      /\ stack[t] = "live" =>
                           /\ I(t).op = "join"
                           /\ I(t).tid \in AssumeBlocked \/ stack[I(t).tid] # "empty"
    BY DEF QuiescentIsFinal
  <2>1. TypeOK /\ \A u \in Threads : store_buffer[u] = << >>
    BY DEF Inv, Updating, Quiescent
  <2>2. ~FenceBlocked(t)
    BY <2>1 DEF FenceBlocked
  <2>3. ~LoadBlocked(t)
    <3>1. Overlapping(t) = 0
      BY <2>1, OverlappingRange
    <3> QED BY <3>1 DEF LoadBlocked
  <2>4. ASSUME stack[t] = "live"
        PROVE  JoinBlocked(t) \/ AssumeJoinBlocked(t)
    BY <2>2, <2>3, <2>4 DEF Inv, AllWait, Waits, Quiescent
  <2>5. ASSUME JoinBlocked(t)
        PROVE  I(t).op = "join" /\ stack[I(t).tid] # "empty"
    BY <2>1, <2>5, Operands DEF JoinBlocked
  <2> QED BY <2>1, <2>4, <2>5 DEF AssumeJoinBlocked
<1> QED BY <1>1, Invariance, PTL

(* A load that is not refused reads in each byte what TSOMemory promises.  *)
LEMMA LoadSeen ==
  ASSUME TypeOK, NEW t \in Threads, I(t).op = "load", ~LoadBlocked(t),
         NEW b \in bytes(I(t).ml)
  PROVE  Promise!Seen(t, b) =
           IF Rowe(t) # 0 THEN store_buffer[t][Rowe(t)].val ELSE mem[b]
<1> DEFINE sb == store_buffer[t]
           o == Overlapping(t)
           ml == I(t).ml
           B == {i \in 1..Len(sb) : b \in bytes(sb[i].ml)}
<1>1. ml \in Locations
  BY Operands
<1>2. ml.addr \in bytes(ml)
  BY <1>1, AccessAssumption DEF bytes
<1>3. \A i \in 1..Len(sb) : sb[i].ml \in Locations
  <2>1. store_buffer[t] \in Seq(PendingStores)
    BY DEF TypeOK
  <2>2. \A i \in 1..Len(store_buffer[t]) : store_buffer[t][i] \in PendingStores
    BY <2>1
  <2> QED BY <2>2 DEF PendingStores
<1>4. B \subseteq OverlapHits(t)
  BY DEF OverlapHits, overlaps
<1>5. RoweHits(t) \subseteq OverlapHits(t)
  <2> SUFFICES ASSUME NEW i \in RoweHits(t)  PROVE i \in OverlapHits(t)
    OBVIOUS
  <2>1. i \in 1..Len(sb) /\ sb[i].ml.addr = ml.addr
    BY DEF RoweHits
  <2>2. ml.addr \in bytes(sb[i].ml)
    BY <1>3, <2>1, AccessAssumption DEF bytes
  <2> QED BY <1>2, <2>1, <2>2 DEF OverlapHits, overlaps
<1>6. Promise!Seen(t, b) = IF B = {} THEN mem[b] ELSE sb[GreatestOf(B)].val
  BY DEF Promise!Seen, Promise!bytes, bytes, GreatestOf
<1>7. CASE o = 0
  BY <1>4, <1>5, <1>6, <1>7, OverlappingRange, RoweRange
<1>8. CASE o # 0
  <2>1. o \in OverlapHits(t) /\ sb[o].ml = ml /\ \A j \in OverlapHits(t) : j <= o
    BY <1>8, OverlappingRange DEF LoadBlocked
  <2>2. o \in 1..Len(sb) /\ Len(sb) \in Nat
    BY <2>1, OverlappingRange
  <2>3. o \in B /\ o \in RoweHits(t)
    BY <2>1, <2>2 DEF RoweHits
  <2>4. GreatestOf(B) = o
    BY <1>4, <2>1, <2>2, <2>3, GreatestUnique, Zenon
  <2>5. Rowe(t) = o
    <3>1. RoweHits(t) \in SUBSET (1..Len(sb))
      BY RoweRange
    <3>2. \A j \in RoweHits(t) : j <= o
      BY <1>5, <2>1
    <3>3. GreatestOf(RoweHits(t)) = o
      BY <2>2, <2>3, <3>1, <3>2, GreatestUnique, Zenon
    <3> QED BY <3>3, RoweIs
  <2> QED BY <1>6, <1>8, <2>3, <2>4, <2>5, Zenon
<1> QED BY <1>7, <1>8

(* The steps of the interpreter are steps of TSOMemory, or leave the       *)
(* memory, the buffers and the results alone.                              *)
LEMMA NextRefines ==
  ASSUME Inv, [Next]_vars
  PROVE  [Promise!Next]_(Promise!vars)
<1>0. TypeOK
  BY DEF Inv
<1> SUFFICES ASSUME ~UNCHANGED <<mem, store_buffer, reg>>
             PROVE  Promise!Next
  BY DEF Promise!vars
<1>1. ASSUME NEW t \in Threads, visitLoadInst(t)
      PROVE  Promise!Load(t)
  <2>1. I(t).op = "load" /\ ~LoadBlocked(t)
    BY <1>1 DEF visitLoadInst, Executes, Blocked
  <2>2. I(t).ml \in Locations
    BY <1>0, <2>1, Operands
  <2>3. [b \in bytes(I(t).ml) |->
           IF Rowe(t) # 0 THEN store_buffer[t][Rowe(t)].val ELSE mem[b]]
        = [b \in bytes(I(t).ml) |-> Promise!Seen(t, b)]
    BY <1>0, <2>1, LoadSeen
  <2>4. reg' = [reg EXCEPT ![t] = [b \in bytes(I(t).ml) |-> Promise!Seen(t, b)]]
    BY <1>1, <2>3, Zenon DEF visitLoadInst
  <2>5. bytes(I(t).ml) = Promise!bytes(I(t).ml)
    BY DEF bytes, Promise!bytes
  <2> QED BY <1>1, <2>2, <2>4, <2>5 DEF Promise!Load, visitLoadInst
<1>2. ASSUME NEW t \in Threads, visitStoreInst(t)
      PROVE  Promise!Store(t)
  <2>1. I(t).ml \in Locations /\ I(t).val \in Values
    BY <1>0, <1>2, Operands DEF visitStoreInst, Executes
  <2> QED BY <1>2, <2>1, Zenon DEF Promise!Store, visitStoreInst
<1>3. ASSUME NEW t \in Threads, visitAtomic(t)
      PROVE  Promise!AtomicStore(t)
  <2>1. I(t).ml \in Locations /\ I(t).val \in Values
    BY <1>0, <1>3, Operands DEF visitAtomic, Executes
  <2>2. store_buffer[t] = << >>
    BY <1>3 DEF visitAtomic, Executes, Blocked, FenceBlocked, isFence
  <2>3. mem' = Promise!Written(I(t).ml, I(t).val)
    BY <1>3 DEF visitAtomic, Written, Promise!Written, bytes, Promise!bytes
  <2> QED BY <1>3, <2>1, <2>2, <2>3 DEF Promise!AtomicStore, visitAtomic
<1>4. ASSUME NEW t \in Threads, runAux(t)
      PROVE  Promise!Update(t)
  <2>1. mem' = Promise!Written(Head(store_buffer[t]).ml, Head(store_buffer[t]).val)
    BY <1>4 DEF runAux, Written, Promise!Written, bytes, Promise!bytes
  <2> QED BY <1>4, <2>1 DEF Promise!Update, runAux
<1>5. ASSUME NEW t \in Threads, Step(t)
      PROVE  visitLoadInst(t) \/ visitStoreInst(t) \/ visitAtomic(t)
  BY <1>5 DEF Step, RefusedJoin, RefusedFlush, visitFenceInst, visitCall,
              visitReturnInst, memVars
<1>6. ~UNCHANGED vars
  BY DEF vars, memVars
<1> QED
  BY <1>1, <1>2, <1>3, <1>4, <1>5, <1>6 DEF Next, Promise!Next

(* For every program, the interpreter implements byte-wise TSO memory.     *)
THEOREM Refinement == Spec => ImplementsTSO
<1>1. Init => Promise!Init
  BY DEF Init, Promise!Init
<1>2. Inv /\ [Next]_vars => [Promise!Next]_(Promise!vars)
  BY NextRefines
<1> QED BY <1>1, <1>2, Invariance, PTL DEF Spec, ImplementsTSO, Promise!Spec
=============================================================================
