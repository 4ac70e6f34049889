------------------------ MODULE POWERLocalExecution -------------------------
(***************************************************************************)
(* How the interpreter for POWER and ARM runs the code of a thread.  An    *)
(* instruction is fetched, in program order, long before it is committed;  *)
(* its operands are values or the fetched instructions that will provide   *)
(* them.  Instructions that access no memory are committed as soon as      *)
(* their operands are there; the trace builder commits the others, in any  *)
(* order it likes among the ones that can be, and says what a load reads.  *)
(*                                                                         *)
(* Fences, locks and thread creation are in POWERInterpreter; here are the *)
(* operands, the dependencies, the stack and the blocks.                   *)
(***************************************************************************)
EXTENDS Integers, Sequences, SequencesExt

CONSTANTS Word, Half, LittleEndian,
          LoadValues  \* what a load may return

VARIABLES prog,   \* the program
          Code,   \* its code, as far as it has been rewritten
          T       \* the thread: see Thread

vars == <<prog, Code, T>>

Status == -1  \* the address of the thread's status

-----------------------------------------------------------------------------
(* The evaluator.  Its functions are a copy of those of the other          *)
(* interpreter, over the operands that a fetched instruction has collected *)
(* instead of the registers of a frame, and are modelled by the same       *)
(* operators.  What it lacks, and what it chooses by itself, is here.      *)

Evaluator == INSTANCE Evaluation

executeICMP(pred, a, b, Ty) ==
  CASE pred = "eq" -> Evaluator!executeICMP_EQ(a, b, Ty)
    [] pred = "ne" -> Evaluator!executeICMP_NE(a, b, Ty)
    [] pred = "ult" -> Evaluator!executeICMP_ULT(a, b, Ty)
    [] pred = "slt" -> Evaluator!executeICMP_SLT(a, b, Ty)
    [] pred = "ugt" -> Evaluator!executeICMP_UGT(a, b, Ty)
    [] pred = "sgt" -> Evaluator!executeICMP_SGT(a, b, Ty)
    [] pred = "ule" -> Evaluator!executeICMP_ULE(a, b, Ty)
    [] pred = "sle" -> Evaluator!executeICMP_SLE(a, b, Ty)
    [] pred = "uge" -> Evaluator!executeICMP_UGE(a, b, Ty)
    [] pred = "sge" -> Evaluator!executeICMP_SGE(a, b, Ty)
executeFCMP_O(pred, a, b, Ty) ==
  CASE pred = "oeq" -> Evaluator!executeFCMP_OEQ(a, b, Ty)
    [] pred = "one" -> Evaluator!executeFCMP_ONE(a, b, Ty)
    [] pred = "ole" -> Evaluator!executeFCMP_OLE(a, b, Ty)
    [] pred = "oge" -> Evaluator!executeFCMP_OGE(a, b, Ty)
    [] pred = "olt" -> Evaluator!executeFCMP_OLT(a, b, Ty)
    [] pred = "ogt" -> Evaluator!executeFCMP_OGT(a, b, Ty)
executeFCMP_U(pred, a, b, Ty) ==
  CASE pred = "ueq" -> Evaluator!executeFCMP_UEQ(a, b, Ty)
    [] pred = "une" -> Evaluator!executeFCMP_UNE(a, b, Ty)
    [] pred = "ule" -> Evaluator!executeFCMP_ULE(a, b, Ty)
    [] pred = "uge" -> Evaluator!executeFCMP_UGE(a, b, Ty)
    [] pred = "ult" -> Evaluator!executeFCMP_ULT(a, b, Ty)
    [] pred = "ugt" -> Evaluator!executeFCMP_UGT(a, b, Ty)
executeFCMP_ORD(a, b, Ty) == Evaluator!executeFCMP_ORD(a, b, Ty)
executeFCMP_UNO(a, b, Ty) == Evaluator!executeFCMP_UNO(a, b, Ty)
executeFCMP_BOOL(a, b, Ty, val) == Evaluator!executeFCMP_BOOL(a, b, Ty, val)
visitFCmpInst(pred, a, b, Ty) ==
  CASE pred = "false" -> executeFCMP_BOOL(a, b, Ty, 0)
    [] pred = "true" -> executeFCMP_BOOL(a, b, Ty, 1)
    [] pred = "ord" -> executeFCMP_ORD(a, b, Ty)
    [] pred = "uno" -> executeFCMP_UNO(a, b, Ty)
    [] pred \in {"oeq", "one", "ole", "oge", "olt", "ogt"} -> executeFCMP_O(pred, a, b, Ty)
    [] OTHER -> executeFCMP_U(pred, a, b, Ty)

visitBinaryOperator(op, a, b, Ty) == Evaluator!visitBinaryOperator(op, a, b, Ty)
executeSelectInst(c, a, b, Ty) == Evaluator!executeSelectInst(c, a, b, Ty)
visitShift(op, a, b, Ty) ==
  CASE op = "shl" -> Evaluator!visitShl(a, b, Ty)
    [] op = "lshr" -> Evaluator!visitLShr(a, b, Ty)
    [] op = "ashr" -> Evaluator!visitAShr(a, b, Ty)

executeIntCast(op, a, SrcTy, DstTy) ==
  CASE op = "trunc" -> Evaluator!executeTruncInst(a, SrcTy, DstTy)
    [] op = "sext" -> Evaluator!executeSExtInst(a, SrcTy, DstTy)
    [] op = "zext" -> Evaluator!executeZExtInst(a, SrcTy, DstTy)
executeFPCast(op, a, SrcTy, DstTy) ==
  CASE op = "fptoui" -> Evaluator!executeFPToUIInst(a, SrcTy, DstTy)
    [] op = "fptosi" -> Evaluator!executeFPToSIInst(a, SrcTy, DstTy)
    [] op = "uitofp" -> Evaluator!executeUIToFPInst(a, SrcTy, DstTy)
    [] op = "sitofp" -> Evaluator!executeSIToFPInst(a, SrcTy, DstTy)
executePtrCast(op, a, SrcTy, DstTy) ==
  IF op = "ptrtoint" THEN Evaluator!executePtrToIntInst(a, SrcTy, DstTy)
  ELSE Evaluator!executeIntToPtrInst(a, SrcTy, DstTy)
executeBitCastInst(a, SrcTy, DstTy) == Evaluator!executeBitCastInst(a, SrcTy, DstTy)
visitCast(op, a, SrcTy, DstTy) ==
  CASE op \in {"trunc", "sext", "zext"} -> executeIntCast(op, a, SrcTy, DstTy)
    [] op \in {"fptoui", "fptosi", "uitofp", "sitofp"} -> executeFPCast(op, a, SrcTy, DstTy)
    [] op \in {"ptrtoint", "inttoptr"} -> executePtrCast(op, a, SrcTy, DstTy)
    [] op = "bitcast" -> executeBitCastInst(a, SrcTy, DstTy)

executeGEPOperation(ixs, v) ==
  Evaluator!executeGEPOperation(v[1], ixs, [i \in DOMAIN ixs |-> v[i + 1][1]])
visitExtractElementInst(v) == Evaluator!visitExtractElementInst(v[1], v[2][1])
visitInsertElementInst(v) == Evaluator!visitInsertElementInst(v[1], v[2], v[3][1])
visitShuffleVectorInst(v) == Evaluator!visitShuffleVectorInst(v[1], v[2], v[3])
visitExtractValueInst(I, v) == Evaluator!visitExtractValueInst(v[1], I.aux)
visitInsertValueInst(I, v) == Evaluator!visitInsertValueInst(v[1], v[2], I.aux)

-----------------------------------------------------------------------------
Computations == Evaluator!Computations
Compute(I, v) ==
  CASE I.op = "binary" -> visitBinaryOperator(I.sub, v[1], v[2], I.ty)
    [] I.op = "shift" -> visitShift(I.sub, v[1], v[2], I.ty)
    [] I.op = "icmp" -> executeICMP(I.sub, v[1], v[2], I.ty)
    [] I.op = "fcmp" -> visitFCmpInst(I.sub, v[1], v[2], I.ty)
    [] I.op = "select" -> executeSelectInst(v[1], v[2], v[3], I.ty)
    [] I.op = "cast" -> visitCast(I.sub, v[1], I.ty, I.to)
    [] I.op = "gep" -> executeGEPOperation(I.ixs, v)
    [] I.op = "extractelement" -> visitExtractElementInst(v)
    [] I.op = "insertelement" -> visitInsertElementInst(v)
    [] I.op = "shufflevector" -> visitShuffleVectorInst(v)
    [] I.op = "extractvalue" -> visitExtractValueInst(I, v)
    [] I.op = "insertvalue" -> visitInsertValueInst(I, v)

getConstantExprValue(I, v) == Evaluator!getConstantExprValue(I, v)
IsConstant(o) == Evaluator!IsConstant(o)
getConstantValue(o) ==
  IF o.k = "const" THEN o.v
  ELSE getConstantExprValue(o.I, [i \in DOMAIN o.I.args |-> o.I.args[i].v])

-----------------------------------------------------------------------------
(* A fetched instruction is known by its place in T.FIs; 0 is none.  An    *)
(* operand has its value, or << >> while it is not available.              *)
FetchedInstruction(I, operands, from, AddrDeps, DataDeps, EventIndex) ==
  [I |-> I, Operands |-> operands, from |-> from, AddrDeps |-> AddrDeps, DataDeps |-> DataDeps,
   EventIndex |-> EventIndex, Value |-> << >>, Committed |-> FALSE]
committable(FI) == \A i \in DOMAIN FI.Operands : FI.Operands[i] # << >>
isEvent(FI) == FI.EventIndex > 0

ExecutionContext(F, ArgVals) ==
  [CurFunction |-> F, CurBB |-> 1, PrevBB |-> 0, CurInst |-> 1, Caller |-> 0, Values |-> ArgVals]

(* CommittableLocal is a stack of sets: the dependents of one instruction  *)
(* come in the order of their addresses, which is any.  again is what      *)
(* commitAllLocal() will return.                                           *)
Thread(F) ==
  [ECStack |-> <<ExecutionContext(F, << >>)>>, FIs |-> << >>, events |-> << >>, ctrl_deps |-> {},
   CommittableEvents |-> {}, CommittableLocal |-> << >>, again |-> TRUE]

Frame(th) == Last(th.ECStack)
SetFrame(th, SF) == [th EXCEPT !.ECStack = Front(@) \o <<SF>>]
SetRegister(SF, r, id) == [SF EXCEPT !.Values = (r :> id) @@ @]

IsTerminator(I) == I.op \in {"br", "switch", "indirectbr", "ret", "invoke"}
IsCall(I) == I.op \in {"call", "invoke", "intrinsic", "pthread_exit"}
isAddr(I, i) == I.op \in {"load", "store"} /\ i = 1
isData(I, i) == I.op = "store" /\ i = 2

-----------------------------------------------------------------------------
(* The trace builder's record of the events.                               *)
TBfetch(th, op, AddrDeps, DataDeps) ==
  [th EXCEPT !.events = Append(@, [op |-> op, a |-> << >>, v |-> << >>, adeps |-> AddrDeps,
                                   ddeps |-> DataDeps, ctrl |-> th.ctrl_deps])]
registerOperand(th, id, i) ==
  LET FI == th.FIs[id]
  IN CASE isAddr(FI.I, i) -> [th EXCEPT !.events[FI.EventIndex].a = FI.Operands[i]]
       [] isData(FI.I, i) -> [th EXCEPT !.events[FI.EventIndex].v = FI.Operands[i]]
       [] OTHER -> th

(* fetch(): of a PHI node only the operand for the previous block.  A call *)
(* of a function waits for no operand.                                     *)
OpValues(I, SF) ==
  CASE I.op = "phi" -> <<I.args[CHOOSE i \in DOMAIN I.aux : I.aux[i] = SF.PrevBB]>>
    [] I.op \in {"call", "invoke"} -> << >>
    [] OTHER -> I.args
M_DepsOf(FI) == FI.DataDeps
DepsOf(FI) == IF isEvent(FI) THEN {FI.EventIndex} ELSE FI.DataDeps
Provider(o, SF) == IF IsConstant(o) THEN 0 ELSE SF.Values[o.r]
OperandNow(th, o, id) ==
  IF IsConstant(o) THEN getConstantValue(o) ELSE IF th.FIs[id].Committed THEN th.FIs[id].Value ELSE << >>

RegisterAll(th, id) ==
  FoldLeft(LAMBDA acc, i : IF acc.FIs[id].Operands[i] = << >> THEN acc ELSE registerOperand(acc, id, i),
           th, [i \in DOMAIN th.FIs[id].Operands |-> i])
fetch(th, I, ops, from) ==
  LET deps(S) == UNION {DepsOf(th.FIs[from[i]]) : i \in {k \in S : from[k] > 0}}
      AddrDeps == deps({i \in DOMAIN ops : isAddr(I, i)})
      DataDeps == deps({i \in DOMAIN ops : ~isAddr(I, i)})
      is_event == I.op \in {"load", "store"}
      now == [i \in DOMAIN ops |-> OperandNow(th, ops[i], from[i])]
      FI == FetchedInstruction(I, now, from, AddrDeps, DataDeps, IF is_event THEN Len(th.events) + 1 ELSE 0)
      th1 == [th EXCEPT !.FIs = Append(@, FI), !.ctrl_deps = IF I.op = "br" THEN @ \cup DataDeps ELSE @]
  IN IF is_event THEN RegisterAll(TBfetch(th1, I.op, AddrDeps, DataDeps), Len(th.FIs) + 1) ELSE th1

Committable(th, ids) ==
  LET ready == {id \in ids : committable(th.FIs[id])}
      local == {id \in ready : ~isEvent(th.FIs[id])}
  IN [th EXCEPT !.CommittableEvents = @ \cup (ready \ local),
                !.CommittableLocal = IF local = {} THEN @ ELSE Append(@, local)]

(* fetchAll(), up to an instruction after which the code is not yet known. *)
FetchNext(th, I, SF) ==
  LET ops == OpValues(I, SF)
      id == Len(th.FIs) + 1
  IN Committable(SetFrame(fetch(th, I, ops, [i \in DOMAIN ops |-> Provider(ops[i], SF)]),
                          SetRegister([SF EXCEPT !.CurInst = @ + 1], I.dst, id)), {id})
NextInst(code, SF) == code[SF.CurFunction][SF.CurBB][SF.CurInst]
Stops(I) == IsTerminator(I) \/ IsCall(I)
RECURSIVE fetchAll(_, _)
fetchAll(th, code) ==
  IF th.ECStack = << >> THEN th
  ELSE LET I == NextInst(code, Frame(th))
           th1 == FetchNext(th, I, Frame(th))
       IN IF Stops(I) THEN th1 ELSE fetchAll(th1, code)

-----------------------------------------------------------------------------
(* visit(), for the instruction id with operands v.  The PHI nodes of the  *)
(* block are fetched like other instructions.                              *)
SwitchToNewBasicBlock(th, Dest) ==
  SetFrame(th, [Frame(th) EXCEPT !.PrevBB = Frame(th).CurBB, !.CurBB = Dest, !.CurInst = 1])

visitBranchInst(th, I, v) ==
  SwitchToNewBasicBlock(th, IF I.args = << >> \/ v[1][1] # 0 THEN I.aux[1] ELSE I.aux[2])
visitSwitchInst(th, I, v) ==
  LET cases == {i \in 2 .. Len(v) : executeICMP("eq", v[1], v[i], I.ty)[1] # 0}
  IN SwitchToNewBasicBlock(th, IF cases = {} THEN I.aux[1]
                               ELSE I.aux[CHOOSE i \in cases : \A j \in cases : i <= j])
visitIndirectBrInst(th, v) == SwitchToNewBasicBlock(th, v[1][1])

(* A store that tells that the thread has ended.                           *)
fetchThreadExit(th) ==
  LET th1 == TBfetch(th, "store", {}, {})
      st == FetchedInstruction([op |-> "exit"], << >>, << >>, {}, {}, Len(th1.events))
  IN [th1 EXCEPT !.FIs = Append(@, st), !.CommittableEvents = @ \cup {Len(th1.FIs) + 1},
                 !.events[Len(th1.events)].a = <<Status>>, !.events[Len(th1.events)].v = <<2>>]
callPthreadExit(th) == [fetchThreadExit(th) EXCEPT !.ECStack = << >>]

M_popStackAndReturnValueToCaller(th, id, Result) ==
  LET th1 == [th EXCEPT !.ECStack = Front(@)]
      I == th1.FIs[Frame(th1).Caller].I
      th2 == IF I.op = "invoke" THEN SwitchToNewBasicBlock(th1, I.aux[2]) ELSE th1
  IN IF th1.ECStack = << >> THEN fetchThreadExit(th1)
     ELSE SetFrame([th2 EXCEPT !.FIs[id].Value = Result], [Frame(th2) EXCEPT !.Caller = 0])

(* Who depends on the call now depends on the return instruction.          *)
popStackAndReturnValueToCaller(th, id, Result) ==
  LET th1 == [th EXCEPT !.ECStack = Front(@)]
      I == th1.FIs[Frame(th1).Caller].I
      th2 == [th1 EXCEPT !.FIs[id].Value = Result]
      th3 == IF I.op = "invoke" THEN SwitchToNewBasicBlock(th2, I.aux[2]) ELSE th2
  IN IF th1.ECStack = << >> THEN fetchThreadExit(th1)
     ELSE SetFrame(th3, [SetRegister(Frame(th3), I.dst, id) EXCEPT !.Caller = 0])
visitReturnInst(th, id, v) == popStackAndReturnValueToCaller(th, id, IF v = << >> THEN <<0>> ELSE v[1])

(* The parameters are the instructions that provide the arguments; for a   *)
(* constant there is one that is made up.                                  *)
FakeArgument(o) ==
  [FetchedInstruction([op |-> "arg"], << >>, << >>, {}, {}, 0)
     EXCEPT !.Value = IF IsConstant(o) THEN getConstantValue(o) ELSE << >>, !.Committed = TRUE]
callFunction(th, I, id, SF) ==
  LET n == Len(th.FIs)
      args == [i \in DOMAIN I.args |-> IF IsConstant(I.args[i]) THEN n + i ELSE SF.Values[I.args[i].r]]
      th1 == [SetFrame(th, [SF EXCEPT !.Caller = id])
                EXCEPT !.FIs = @ \o [i \in DOMAIN I.args |-> FakeArgument(I.args[i])]]
  IN [th1 EXCEPT !.ECStack = Append(@, ExecutionContext(I.aux[1], args))]

visit(th, id, I, v) ==
  CASE I.op \in Computations -> [th EXCEPT !.FIs[id].Value = Compute(I, v)]
    [] I.op = "br" -> visitBranchInst(th, I, v)
    [] I.op = "switch" -> visitSwitchInst(th, I, v)
    [] I.op = "indirectbr" -> visitIndirectBrInst(th, v)
    [] I.op = "ret" -> visitReturnInst(th, id, v)
    [] I.op \in {"call", "invoke"} -> callFunction(th, I, id, Frame(th))
    [] I.op = "pthread_exit" -> callPthreadExit(th)
    [] I.op = "intrinsic" -> SetFrame(th, [Frame(th) EXCEPT !.CurInst = @ - 1])
    [] I.op = "phi" -> [th EXCEPT !.FIs[id].Value = v[1]]
    [] I.op \in {"load", "store", "exit"} -> th

LowerIntrinsicCall(code, I, SF) ==
  LET at == SF.CurInst - 1
      block == code[SF.CurFunction][SF.CurBB]
      lowered == SubSeq(block, 1, at - 1) \o I.low \o SubSeq(block, at + 1, Len(block))
  IN IF I.op = "intrinsic" THEN [code EXCEPT ![SF.CurFunction][SF.CurBB] = lowered] ELSE code

(* commit(): the dependents get the value, and may be next.                *)
Deliver(th, id, users) ==
  LET value == th.FIs[id].Value
      got(FI) == [i \in DOMAIN FI.Operands |-> IF FI.from[i] = id THEN value ELSE FI.Operands[i]]
      th1 == [th EXCEPT !.FIs = [k \in DOMAIN @ |->
                IF k \in users THEN [th.FIs[k] EXCEPT !.Operands = got(th.FIs[k])] ELSE th.FIs[k]]]
  IN Committable(FoldSet(LAMBDA k, acc : IF isEvent(acc.FIs[k]) THEN RegisterAll(acc, k) ELSE acc, th1, users),
                 users)
Dependents(th, id) ==
  {k \in DOMAIN th.FIs : \E i \in DOMAIN th.FIs[k].from : th.FIs[k].from[i] = id /\ th.FIs[k].Operands[i] = << >>}
commit(th, id) ==
  LET FI == th.FIs[id]
      th1 == [visit(th, id, FI.I, FI.Operands) EXCEPT !.FIs[id].Committed = TRUE]
  IN Deliver(th1, id, Dependents(th, id))

-----------------------------------------------------------------------------
(* The loop of commitAllLocal(): any of the instructions on top.           *)
CommitLocal ==
  /\ T.CommittableLocal # << >>
  /\ \E id \in Last(T.CommittableLocal) :
       LET rest == Last(T.CommittableLocal) \ {id}
           I == T.FIs[id].I
           th == [T EXCEPT !.CommittableLocal = Front(@) \o (IF rest = {} THEN << >> ELSE <<rest>>),
                           !.again = @ \/ Stops(I)]
       IN /\ T' = commit(th, id)
          /\ Code' = LowerIntrinsicCall(Code, I, Frame(T))
  /\ UNCHANGED prog

(* commitLocalAndFetchAll(), when commitAllLocal() has returned true.      *)
FetchAll ==
  /\ T.CommittableLocal = << >> /\ T.again
  /\ T' = fetchAll([T EXCEPT !.again = FALSE], Code)
  /\ UNCHANGED <<prog, Code>>

(* The trace builder has chosen an event.                                  *)
CommitEvent ==
  /\ T.CommittableLocal = << >> /\ ~T.again
  /\ \E id \in T.CommittableEvents :
       LET th == [T EXCEPT !.CommittableEvents = @ \ {id}]
       IN IF T.FIs[id].I.op = "load"
          THEN \E v \in LoadValues :
                 T' = commit([th EXCEPT !.FIs[id].Value = v, !.events[T.FIs[id].EventIndex].v = v], id)
          ELSE T' = commit(th, id)
  /\ UNCHANGED <<prog, Code>>

Done == T.CommittableLocal = << >> /\ ~T.again /\ T.CommittableEvents = {}
Next == CommitLocal \/ FetchAll \/ CommitEvent
=============================================================================
