--------------------------- MODULE LocalExecution ---------------------------
(***************************************************************************)
(* How the interpreter runs the code of its threads: stack frames, blocks  *)
(* and PHI nodes, calls and returns, atomic functions, functions called at *)
(* exit, intrinsics that are rewritten while other threads stand in the    *)
(* same block, and dry runs.                                               *)
(*                                                                         *)
(* The threads share Code, as they share the module: Code[F] is a sequence *)
(* of blocks, a block a sequence of instructions.  Which thread runs, and  *)
(* which one is dry run, is the choice of the trace builder.               *)
(***************************************************************************)
EXTENDS Evaluation, SequencesExt

CONSTANTS Programs,   \* [code, start: the function of each thread, atomic: function names, mem]
          MaxDryRuns  \* a bound on the dry runs of a behaviour

VARIABLES prog,      \* the program as it was given
          Code,      \* the code, as far as it has been rewritten
          Threads,   \* the stack and the result of each thread
          Mem,       \* the memory
          AtExitHandlers,
          trace,     \* the accesses of each thread
          dry        \* the accesses that the dry runs so far have collected

vars == <<prog, Code, Threads, Mem, AtExitHandlers, trace, dry>>

-----------------------------------------------------------------------------
NoCall == [dst |-> 0, normal |-> 0]
ExecutionContext(F, ArgVals) ==
  [CurFunction |-> F, CurBB |-> 1, CurInst |-> 1, Values |-> [i \in DOMAIN ArgVals |-> ArgVals[i]],
   Caller |-> NoCall]

(* The state of one run of the loop in run(): acc are the accesses so far. *)
Top(st, t) == Last(st.T[t].ECStack)
SetTop(st, t, SF) == [st EXCEPT !.T[t].ECStack = Front(@) \o <<SF>>]
SetValue(SF, r, v) == [SF EXCEPT !.Values = (r :> v) @@ @]
getOperandValue(o, SF) == IF IsConstant(o) THEN getConstantValue(o) ELSE SF.Values[o.r]
Operands(I, SF) == [i \in DOMAIN I.args |-> getOperandValue(I.args[i], SF)]

IsTerminator(I) == I.op \in {"br", "switch", "indirectbr", "ret", "invoke"}
Block(st, SF) == st.Code[SF.CurFunction][SF.CurBB]

M_SwitchToNewBasicBlock(block, Dest, SF) ==
  LET incoming(I) == I.args[CHOOSE i \in DOMAIN I.aux : I.aux[i] = SF.CurBB]
      set(f, I) == IF I.op = "phi" THEN SetValue(f, I.dst, getOperandValue(incoming(I), f)) ELSE f
      phis == {i \in DOMAIN block : block[i].op = "phi"}
  IN [FoldLeft(set, SF, block) EXCEPT !.CurBB = Dest, !.CurInst = Cardinality(phis) + 1]

(* The PHI nodes of the new block read their inputs before any is set.     *)
SwitchToNewBasicBlock(block, Dest, SF) ==
  LET phis == {i \in DOMAIN block : block[i].op = "phi"}
      incoming(I) == I.args[CHOOSE i \in DOMAIN I.aux : I.aux[i] = SF.CurBB]
      results == [r \in {block[i].dst : i \in phis} |->
                    getOperandValue(incoming(block[CHOOSE i \in phis : block[i].dst = r]), SF)]
  IN [SF EXCEPT !.CurBB = Dest, !.CurInst = Cardinality(phis) + 1, !.Values = results @@ @]
Goto(st, t, Dest, SF) ==
  SetTop(st, t, SwitchToNewBasicBlock(st.Code[SF.CurFunction][Dest], Dest, SF))

(* Where a branch goes: by its condition, to the first case that is equal  *)
(* (aux[1] being the default), or to the block whose address it is given.  *)
visitBranchInst(I, v) == IF v = << >> \/ v[1][1] # 0 THEN I.aux[1] ELSE I.aux[2]
FirstCase(I, cases) == IF cases = {} THEN I.aux[1] ELSE I.aux[CHOOSE i \in cases : \A j \in cases : i <= j]
visitSwitchInst(I, v) == FirstCase(I, {i \in 2 .. Len(v) : executeICMP_EQ(v[1], v[i], I.ty)[1] # 0})
visitIndirectBrInst(v) == v[1][1]
Branches == {"br", "switch", "indirectbr"}
Dest(I, v) == CASE I.op = "br" -> visitBranchInst(I, v)
                [] I.op = "switch" -> visitSwitchInst(I, v)
                [] I.op = "indirectbr" -> visitIndirectBrInst(v)

(* The value goes to the register of the call, and an invoke goes on to    *)
(* its normal destination; the last frame leaves it as the thread's.       *)
returnValueToCaller(st, t, Result) ==
  LET SF == Top(st, t)
      SF1 == [(IF SF.Caller.dst = 0 THEN SF ELSE SetValue(SF, SF.Caller.dst, Result)) EXCEPT !.Caller = NoCall]
  IN IF SF.Caller.normal = 0 THEN SetTop(st, t, SF1) ELSE Goto(st, t, SF.Caller.normal, SF1)
popStackAndReturnValueToCaller(st, t, Result) ==
  LET st1 == [st EXCEPT !.T[t].ECStack = Front(@)]
  IN IF st1.T[t].ECStack = << >> THEN [st1 EXCEPT !.T[t].RetVal = Result]
     ELSE returnValueToCaller(st1, t, Result)

visitReturnInst(v) == IF v = << >> THEN <<0>> ELSE v[1]
callPthreadExit(st, t) == [st EXCEPT !.T[t].ECStack = <<Head(@)>>]

callFunction(st, t, F, ArgVals) ==
  [st EXCEPT !.T[t].ECStack = Append(@, ExecutionContext(F, ArgVals))]
visitAnyCallInst(st, t, I, SF, v) ==
  LET normal == IF I.op = "invoke" THEN I.aux[2] ELSE 0
  IN callFunction(SetTop(st, t, [SF EXCEPT !.Caller = [dst |-> I.dst, normal |-> normal]]),
                  t, I.aux[1], v)

callAtexit(st, t, I, SF) ==
  SetTop([st EXCEPT !.AtExitHandlers = Append(@, I.aux[1])], t, SetValue(SF, I.dst, <<0>>))

-----------------------------------------------------------------------------
(* A dry run writes to DryRunMem and reads through it.                     *)
M_DryRunLoadValueFromMemory(st, a) == st.Mem[a]
DryRunLoadValueFromMemory(st, a) ==
  LET written == {i \in DOMAIN st.DryRunMem : st.DryRunMem[i][1] = a}
  IN IF written = {} THEN st.Mem[a] ELSE st.DryRunMem[Max(written)][2]
LoadedValue(st, a, isDry) == IF isDry THEN DryRunLoadValueFromMemory(st, a) ELSE st.Mem[a]
Log(st, op, a, v) == [st EXCEPT !.acc = Append(@, [op |-> op, a |-> a, v |-> v])]
Write(st, a, v, isDry) ==
  IF isDry THEN [st EXCEPT !.DryRunMem = Append(@, <<a, v>>)] ELSE [st EXCEPT !.Mem[a] = v]

LoadInst(st, t, I, SF, a, v) == Log(SetTop(st, t, SetValue(SF, I.dst, v)), "load", a, v)
visitLoadInst(st, t, I, SF, v, isDry) == LoadInst(st, t, I, SF, v[1][1], LoadedValue(st, v[1][1], isDry))
visitStoreInst(st, v, isDry) == Log(Write(st, v[1][1], v[2], isDry), "store", v[1][1], v[2])
(* The result is the old value and whether it was the expected one.        *)
Exchanged(st, t, SF, dst, v, old, eq, isDry) ==
  LET st1 == Log(SetTop(st, t, SetValue(SF, dst, <<old, eq>>)), "load", v[1][1], old)
  IN IF eq[1] # 0 THEN visitStoreInst(st1, <<v[1], v[3]>>, isDry) ELSE st1
CompareExchange(st, t, I, SF, v, old, isDry) ==
  Exchanged(st, t, SF, I.dst, v, old, executeICMP_EQ(old, v[2], I.ty), isDry)
visitAtomicCmpXchgInst(st, t, I, SF, v, isDry) ==
  CompareExchange(st, t, I, SF, v, LoadedValue(st, v[1][1], isDry), isDry)

(* The instruction I of the block is replaced by the ones it is lowered    *)
(* to, the first of which is next.  The program counters of all other      *)
(* frames in the block keep their offset from its beginning.               *)
LowerIntrinsicCall(st, t, I, SF) ==
  LET at == SF.CurInst - 1
      block == Block(st, SF)
      lowered == SubSeq(block, 1, at - 1) \o I.low \o SubSeq(block, at + 1, Len(block))
  IN SetTop([st EXCEPT !.Code[SF.CurFunction][SF.CurBB] = lowered], t, [SF EXCEPT !.CurInst = at])

visit(st, t, I, SF, v, isDry) ==
  CASE I.op \in Computations -> SetTop(st, t, SetValue(SF, I.dst, Compute(I, v)))
    [] I.op \in Branches -> Goto(st, t, Dest(I, v), SF)
    [] I.op = "load" -> visitLoadInst(st, t, I, SF, v, isDry)
    [] I.op = "store" -> visitStoreInst(st, v, isDry)
    [] I.op = "cmpxchg" -> visitAtomicCmpXchgInst(st, t, I, SF, v, isDry)
    [] I.op \in {"ret", "pthread_exit"} ->
         popStackAndReturnValueToCaller(IF I.op = "ret" THEN st ELSE callPthreadExit(st, t), t, visitReturnInst(v))
    [] I.op \in {"call", "invoke"} -> visitAnyCallInst(st, t, I, SF, v)
    [] I.op = "intrinsic" -> LowerIntrinsicCall(st, t, I, SF)
    [] I.op = "atexit" -> callAtexit(st, t, I, SF)

NextInst(st, t) == Block(st, Top(st, t))[Top(st, t).CurInst]
Advanced(SF) == [SF EXCEPT !.CurInst = @ + 1]
Execute(st, t, I, SF, isDry) == visit(SetTop(st, t, SF), t, I, SF, Operands(I, SF), isDry)
ExecuteNext(st, t, isDry) == Execute(st, t, NextInst(st, t), Advanced(Top(st, t)), isDry)
Depth(st, t) == Len(st.T[t].ECStack)

EntersAtomic(I) == I.op \in {"call", "invoke"} /\ I.aux[1] \in prog.atomic

(* A thread that has returned from its first function has terminated; the  *)
(* main thread then runs the functions registered at exit, last one first. *)
CallHandlers(st, t) ==
  IF Depth(st, t) > 0 \/ t # 1 \/ st.AtExitHandlers = << >> THEN st
  ELSE callFunction([st EXCEPT !.AtExitHandlers = Front(@)], t, Last(st.AtExitHandlers), << >>)

(* Did dry run.  Now back up.                                              *)
BackUp(st, t) == SetTop(st, t, [Top(st, t) EXCEPT !.CurInst = @ - 1])

(* One round of the loop: one instruction, or the whole of an atomic       *)
(* function, which ends when the stack is back at AtomicFunctionCall; -1   *)
(* is outside.  After an intrinsic the thread runs once more.              *)
AfterVisit(st, t, isDry) == IF isDry THEN BackUp(CallHandlers(st, t), t) ELSE CallHandlers(st, t)
RECURSIVE RunFrom(_, _, _, _)
Visited(st1, t, I, AtomicFunctionCall, isDry) ==
  IF I.op = "intrinsic" \/ AtomicFunctionCall \in 0 .. Depth(st1, t) - 1
  THEN RunFrom(st1, t, AtomicFunctionCall, isDry)
  ELSE AfterVisit(st1, t, isDry)
RunFrom(st, t, AtomicFunctionCall, isDry) ==
  LET I == NextInst(st, t)
      enter == AtomicFunctionCall < 0 /\ EntersAtomic(I)
  IN IF isDry /\ IsTerminator(I) /\ AtomicFunctionCall < 0 THEN st
     ELSE Visited(ExecuteNext(st, t, isDry), t, I, IF enter THEN Depth(st, t) ELSE AtomicFunctionCall, isDry)
RunThread(st, t, isDry) == RunFrom(st, t, -1, isDry)

State == [Code |-> Code, T |-> Threads, Mem |-> Mem, AtExitHandlers |-> AtExitHandlers,
          DryRunMem |-> << >>, acc |-> << >>]
Becomes(st, t, isDry) ==
  /\ Code' = st.Code
  /\ Threads' = st.T
  /\ Mem' = st.Mem
  /\ AtExitHandlers' = st.AtExitHandlers
  /\ trace' = IF isDry THEN trace ELSE [trace EXCEPT ![t] = @ \o st.acc]
  /\ dry' = IF isDry THEN Append(dry, [t |-> t, acc |-> st.acc]) ELSE dry

Running(t) == Threads[t].ECStack # << >>

(* A dry run tells the trace builder what a sleeping thread would do next. *)
(* One that enters a function and stays there, registers one for the exit, *)
(* or ends the thread, is not backed up by the code.                       *)
DryRunnable(I) == I.op \notin {"atexit", "pthread_exit"} /\ (I.op = "call" => EntersAtomic(I))

Run(t, isDry) ==
  /\ Running(t)
  /\ isDry => Len(dry) < MaxDryRuns /\ DryRunnable(NextInst(State, t))
  /\ Becomes(RunThread(State, t, isDry), t, isDry)
  /\ UNCHANGED prog

Init ==
  /\ prog \in Programs
  /\ Code = prog.code
  /\ Threads = [t \in DOMAIN prog.start |->
                  [ECStack |-> <<ExecutionContext(prog.start[t], << >>)>>, RetVal |-> << >>]]
  /\ Mem = prog.mem
  /\ AtExitHandlers = << >>
  /\ trace = [t \in DOMAIN prog.start |-> << >>]
  /\ dry = << >>
Finished == (\A t \in DOMAIN Threads : ~Running(t)) /\ UNCHANGED vars
Next == (\E t \in DOMAIN Threads, isDry \in BOOLEAN : Run(t, isDry)) \/ Finished
Spec == Init /\ [][Next]_vars
=============================================================================
