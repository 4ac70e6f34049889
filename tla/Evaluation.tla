----------------------------- MODULE Evaluation -----------------------------
(***************************************************************************)
(* What the instructions compute that touch no memory: comparisons,        *)
(* arithmetic, shifts, conversions, addresses and vectors.                 *)
(*                                                                         *)
(* A value is the sequence of its lanes, of which a scalar has one, or of  *)
(* the values of its fields.  An integer or a pointer is a natural below   *)
(* 2^w.  A floating-point number is counted in halves, so that conversions *)
(* have something to round; NaN is a number of its own.  The arithmetic of *)
(* floating-point numbers is the host's and is left out.                   *)
(***************************************************************************)
EXTENDS Integers, Sequences, FiniteSets, Bitwise

LOCAL INSTANCE Folds

CONSTANTS Word,          \* the bits of a pointer and of an int64_t
          Half,          \* the bits of an int32_t, which an index may have
          LittleEndian   \* TD.isLittleEndian()

NaN == 1000

Type(k, w) == [k |-> k, w |-> w, vector |-> FALSE]
VectorType(k, w) == [k |-> k, w |-> w, vector |-> TRUE]

Signed(x, w) == IF x >= 2^(w - 1) THEN x - 2^w ELSE x
Bit(b) == IF b THEN 1 ELSE 0
Lanes(op(_, _), a, b) == [i \in DOMAIN a |-> op(a[i], b[i])]
EachLane(op(_), a) == [i \in DOMAIN a |-> op(a[i])]
SumLanes(f(_), n) == MapThenFoldSet(+, 0, f, LAMBDA S : CHOOSE x \in S : TRUE, 1 .. n)

-----------------------------------------------------------------------------
(* Integer comparisons.  Pointers are compared as such by every predicate, *)
(* the signed ones included.                                               *)
Key(Ty, x) == IF Ty.k = "ptr" THEN x ELSE Signed(x, Ty.w)

executeICMP_EQ(a, b, Ty) == Lanes(LAMBDA x, y : Bit(x = y), a, b)
executeICMP_NE(a, b, Ty) == Lanes(LAMBDA x, y : Bit(x # y), a, b)
executeICMP_ULT(a, b, Ty) == Lanes(LAMBDA x, y : Bit(x < y), a, b)
executeICMP_SLT(a, b, Ty) == Lanes(LAMBDA x, y : Bit(Key(Ty, x) < Key(Ty, y)), a, b)
executeICMP_UGT(a, b, Ty) == Lanes(LAMBDA x, y : Bit(x > y), a, b)
executeICMP_SGT(a, b, Ty) == Lanes(LAMBDA x, y : Bit(Key(Ty, x) > Key(Ty, y)), a, b)
executeICMP_ULE(a, b, Ty) == Lanes(LAMBDA x, y : Bit(x <= y), a, b)
executeICMP_SLE(a, b, Ty) == Lanes(LAMBDA x, y : Bit(Key(Ty, x) <= Key(Ty, y)), a, b)
executeICMP_UGE(a, b, Ty) == Lanes(LAMBDA x, y : Bit(x >= y), a, b)
executeICMP_SGE(a, b, Ty) == Lanes(LAMBDA x, y : Bit(Key(Ty, x) >= Key(Ty, y)), a, b)

ICmpPredicates == {"eq", "ne", "ult", "slt", "ugt", "sgt", "ule", "sle", "uge", "sge"}
visitICmpInst(pred, a, b, Ty) ==
  CASE pred = "eq" -> executeICMP_EQ(a, b, Ty)
    [] pred = "ne" -> executeICMP_NE(a, b, Ty)
    [] pred = "ult" -> executeICMP_ULT(a, b, Ty)
    [] pred = "slt" -> executeICMP_SLT(a, b, Ty)
    [] pred = "ugt" -> executeICMP_UGT(a, b, Ty)
    [] pred = "sgt" -> executeICMP_SGT(a, b, Ty)
    [] pred = "ule" -> executeICMP_ULE(a, b, Ty)
    [] pred = "sle" -> executeICMP_SLE(a, b, Ty)
    [] pred = "uge" -> executeICMP_UGE(a, b, Ty)
    [] pred = "sge" -> executeICMP_SGE(a, b, Ty)

-----------------------------------------------------------------------------
(* Floating-point comparisons.  The host's operators are false on NaN, all *)
(* but !=.                                                                 *)
Ordered(x, y) == x # NaN /\ y # NaN
FCmp(op(_, _), a, b) == Lanes(LAMBDA x, y : Bit(Ordered(x, y) /\ op(x, y)), a, b)

executeFCMP_OEQ(a, b, Ty) == FCmp(LAMBDA x, y : x = y, a, b)
executeFCMP_OLE(a, b, Ty) == FCmp(LAMBDA x, y : x <= y, a, b)
executeFCMP_OGE(a, b, Ty) == FCmp(LAMBDA x, y : x >= y, a, b)
executeFCMP_OLT(a, b, Ty) == FCmp(LAMBDA x, y : x < y, a, b)
executeFCMP_OGT(a, b, Ty) == FCmp(LAMBDA x, y : x > y, a, b)

(* MASK_VECTOR_NANS; IMPLEMENT_SCALAR_NANS and IMPLEMENT_UNORDERED test    *)
(* the scalar, which a vector leaves at zero.                              *)
NaNMask(a, b, flag) == Lanes(LAMBDA x, y : IF Ordered(x, y) THEN 1 - flag ELSE flag, a, b)
ScalarNaN(a, b, Ty) == ~Ty.vector /\ ~Ordered(a[1], b[1])

executeFCMP_ONE(a, b, Ty) ==
  LET differ == Lanes(LAMBDA x, y : Bit(~Ordered(x, y) \/ x # y), a, b)
      mask == NaNMask(a, b, 0)
  IN IF ScalarNaN(a, b, Ty) THEN <<0>>
     ELSE IF Ty.vector THEN [i \in DOMAIN a |-> IF mask[i] = 0 THEN 0 ELSE differ[i]]
     ELSE differ

(* IMPLEMENT_VECTOR_UNORDERED                                              *)
Unordered(a, b, Ty, ordered) ==
  LET mask == NaNMask(a, b, 1)
  IN IF ScalarNaN(a, b, Ty) THEN <<1>>
     ELSE IF Ty.vector THEN [i \in DOMAIN a |-> IF mask[i] = 1 THEN 1 ELSE ordered[i]]
     ELSE ordered

executeFCMP_UEQ(a, b, Ty) == Unordered(a, b, Ty, executeFCMP_OEQ(a, b, Ty))
executeFCMP_UNE(a, b, Ty) == Unordered(a, b, Ty, executeFCMP_ONE(a, b, Ty))
executeFCMP_ULE(a, b, Ty) == Unordered(a, b, Ty, executeFCMP_OLE(a, b, Ty))
executeFCMP_UGE(a, b, Ty) == Unordered(a, b, Ty, executeFCMP_OGE(a, b, Ty))
executeFCMP_ULT(a, b, Ty) == Unordered(a, b, Ty, executeFCMP_OLT(a, b, Ty))
executeFCMP_UGT(a, b, Ty) == Unordered(a, b, Ty, executeFCMP_OGT(a, b, Ty))
executeFCMP_ORD(a, b, Ty) == Lanes(LAMBDA x, y : Bit(Ordered(x, y)), a, b)
executeFCMP_UNO(a, b, Ty) == Lanes(LAMBDA x, y : Bit(~Ordered(x, y)), a, b)
executeFCMP_BOOL(a, b, Ty, val) == Lanes(LAMBDA x, y : val, a, b)

FCmpPredicates == {"false", "oeq", "ogt", "oge", "olt", "ole", "one", "ord",
                   "uno", "ueq", "ugt", "uge", "ult", "ule", "une", "true"}
visitFCmpInst(pred, a, b, Ty) ==
  CASE pred = "false" -> executeFCMP_BOOL(a, b, Ty, 0)
    [] pred = "true" -> executeFCMP_BOOL(a, b, Ty, 1)
    [] pred = "ord" -> executeFCMP_ORD(a, b, Ty)
    [] pred = "uno" -> executeFCMP_UNO(a, b, Ty)
    [] pred = "ueq" -> executeFCMP_UEQ(a, b, Ty)
    [] pred = "oeq" -> executeFCMP_OEQ(a, b, Ty)
    [] pred = "une" -> executeFCMP_UNE(a, b, Ty)
    [] pred = "one" -> executeFCMP_ONE(a, b, Ty)
    [] pred = "ult" -> executeFCMP_ULT(a, b, Ty)
    [] pred = "olt" -> executeFCMP_OLT(a, b, Ty)
    [] pred = "ugt" -> executeFCMP_UGT(a, b, Ty)
    [] pred = "ogt" -> executeFCMP_OGT(a, b, Ty)
    [] pred = "ule" -> executeFCMP_ULE(a, b, Ty)
    [] pred = "ole" -> executeFCMP_OLE(a, b, Ty)
    [] pred = "uge" -> executeFCMP_UGE(a, b, Ty)
    [] pred = "oge" -> executeFCMP_OGE(a, b, Ty)

(* A constant expression finds its comparison by one function.             *)
executeCmpInst(pred, a, b, Ty) ==
  IF Ty.k = "fp" THEN visitFCmpInst(pred, a, b, Ty) ELSE visitICmpInst(pred, a, b, Ty)

-----------------------------------------------------------------------------
(* Arithmetic, on APInt: modulo 2^w, division rounding towards zero.       *)
Quotient(x, y) ==
  LET n == IF x < 0 THEN -x ELSE x
      d == IF y < 0 THEN -y ELSE y
  IN IF (x < 0) = (y < 0) THEN n \div d ELSE -(n \div d)

BinaryOps == {"add", "sub", "mul", "udiv", "sdiv", "urem", "srem", "and", "or", "xor"}
visitBinaryOperator(opcode, a, b, Ty) ==
  LET S(x) == Signed(x, Ty.w)
      compute(x, y) ==
        CASE opcode = "add" -> x + y
          [] opcode = "sub" -> x - y
          [] opcode = "mul" -> x * y
          [] opcode = "udiv" -> x \div y
          [] opcode = "sdiv" -> Quotient(S(x), S(y))
          [] opcode = "urem" -> x % y
          [] opcode = "srem" -> S(x) - S(y) * Quotient(S(x), S(y))
          [] opcode = "and" -> x & y
          [] opcode = "or" -> x | y
          [] opcode = "xor" -> x ^^ y
  IN Lanes(LAMBDA x, y : compute(x, y) % 2^Ty.w, a, b)

(* The condition has as many lanes as the values, or one that decides.     *)
executeSelectInst(c, a, b, Ty) ==
  IF Ty.vector THEN [i \in DOMAIN c |-> IF c[i] = 0 THEN b[i] ELSE a[i]]
  ELSE IF c[1] = 0 THEN b ELSE a

-----------------------------------------------------------------------------
(* Shifts.  An amount that is too large is cut down.                       *)
NextPowerOf2(n) == CHOOSE p \in {2^k : k \in 0 .. n + 1} : p > n /\ p \div 2 <= n
getShiftAmount(orgShiftAmount, valueWidth) ==
  IF orgShiftAmount < valueWidth THEN orgShiftAmount
  ELSE (NextPowerOf2(valueWidth - 1) - 1) & orgShiftAmount

visitShl(a, b, Ty) ==
  Lanes(LAMBDA x, y : (x * 2^getShiftAmount(y, Ty.w)) % 2^Ty.w, a, b)
visitLShr(a, b, Ty) == Lanes(LAMBDA x, y : x \div 2^getShiftAmount(y, Ty.w), a, b)
visitAShr(a, b, Ty) ==
  Lanes(LAMBDA x, y : (Signed(x, Ty.w) \div 2^getShiftAmount(y, Ty.w)) % 2^Ty.w, a, b)

-----------------------------------------------------------------------------
(* Conversions, from Src to DstTy.                                         *)
executeTruncInst(a, SrcTy, DstTy) == EachLane(LAMBDA x : x % 2^DstTy.w, a)
executeSExtInst(a, SrcTy, DstTy) == EachLane(LAMBDA x : Signed(x, SrcTy.w) % 2^DstTy.w, a)
executeZExtInst(a, SrcTy, DstTy) == a

(* RoundDoubleToAPInt() rounds towards zero, for both signs.               *)
executeFPToUIInst(a, SrcTy, DstTy) == EachLane(LAMBDA x : Quotient(x, 2) % 2^DstTy.w, a)
executeFPToSIInst(a, SrcTy, DstTy) == EachLane(LAMBDA x : Quotient(x, 2) % 2^DstTy.w, a)
executeUIToFPInst(a, SrcTy, DstTy) == EachLane(LAMBDA x : 2 * x, a)
executeSIToFPInst(a, SrcTy, DstTy) == EachLane(LAMBDA x : 2 * Signed(x, SrcTy.w), a)

executePtrToIntInst(a, SrcTy, DstTy) == EachLane(LAMBDA x : x % 2^DstTy.w, a)
executeIntToPtrInst(a, SrcTy, DstTy) == EachLane(LAMBDA x : x % 2^Word, a)

(* Between vectors, or between a vector and an integer: Ratio lanes become *)
(* one, or one becomes Ratio lanes.                                        *)
executeBitCastInst(a, SrcTy, DstTy) ==
  LET SrcNum == Len(a)
      DstNum == (SrcNum * SrcTy.w) \div DstTy.w
      shift(j, Ratio, w) == IF LittleEndian THEN w * (j - 1) ELSE w * (Ratio - j)
      joined(i, Ratio) ==
        SumLanes(LAMBDA j : a[(i - 1) * Ratio + j] * 2^shift(j, Ratio, SrcTy.w), Ratio)
      part(k, Ratio) ==
        (a[((k - 1) \div Ratio) + 1] \div 2^shift(((k - 1) % Ratio) + 1, Ratio, DstTy.w)) % 2^DstTy.w
  IN IF DstNum < SrcNum THEN [i \in 1 .. DstNum |-> joined(i, SrcNum \div DstNum)]
     ELSE [k \in 1 .. DstNum |-> part(k, DstNum \div SrcNum)]

-----------------------------------------------------------------------------
(* getelementptr: the offset of a field, or a signed index times the size  *)
(* of what it indexes.  Total is a uint64_t.                               *)
Offset(ix, v) ==
  IF ix.struct THEN ix.offsets[v + 1]
  ELSE ix.size * (IF ix.w = Half THEN Signed(v, Half) ELSE Signed(v, Word))
executeGEPOperation(ptr, ixs, vals) ==
  LET Total == SumLanes(LAMBDA i : Offset(ixs[i], vals[i]), Len(ixs))
  IN <<(ptr[1] + Total) % 2^Word>>

(* The lanes of a vector.                                                  *)
visitExtractElementInst(a, index) == <<a[index + 1]>>
visitInsertElementInst(a, b, index) == [a EXCEPT ![index + 1] = b[1]]
visitShuffleVectorInst(a, b, mask) ==
  [i \in DOMAIN mask |-> IF mask[i] < Len(a) THEN a[mask[i] + 1] ELSE b[mask[i] - Len(a) + 1]]

(* The fields of an aggregate, each a value, by a path of indices.         *)
RECURSIVE visitExtractValueInst(_, _)
visitExtractValueInst(agg, path) ==
  IF path = << >> THEN agg ELSE visitExtractValueInst(agg[Head(path) + 1], Tail(path))
RECURSIVE visitInsertValueInst(_, _, _)
visitInsertValueInst(agg, v, path) ==
  IF path = << >> THEN v
  ELSE LET at == Head(path) + 1
       IN [agg EXCEPT ![at] = visitInsertValueInst(agg[at], v, Tail(path))]

-----------------------------------------------------------------------------
(* An instruction.  sub is its opcode or predicate, ty the type of its     *)
(* first operand, to that of its result, dst the register it sets.  aux    *)
(* names blocks or a function, ixs describes the indices of a              *)
(* getelementptr, low is what an intrinsic is lowered to.                  *)
Shift(op, a, b, Ty) == CASE op = "shl" -> visitShl(a, b, Ty)
                         [] op = "lshr" -> visitLShr(a, b, Ty)
                         [] op = "ashr" -> visitAShr(a, b, Ty)

Cast(op, a, SrcTy, DstTy) ==
  CASE op = "trunc" -> executeTruncInst(a, SrcTy, DstTy)
    [] op = "sext" -> executeSExtInst(a, SrcTy, DstTy)
    [] op = "zext" -> executeZExtInst(a, SrcTy, DstTy)
    [] op = "fptoui" -> executeFPToUIInst(a, SrcTy, DstTy)
    [] op = "fptosi" -> executeFPToSIInst(a, SrcTy, DstTy)
    [] op = "uitofp" -> executeUIToFPInst(a, SrcTy, DstTy)
    [] op = "sitofp" -> executeSIToFPInst(a, SrcTy, DstTy)
    [] op = "ptrtoint" -> executePtrToIntInst(a, SrcTy, DstTy)
    [] op = "inttoptr" -> executeIntToPtrInst(a, SrcTy, DstTy)
    [] op = "bitcast" -> executeBitCastInst(a, SrcTy, DstTy)

(* The instructions that only compute, of the operands v.                  *)
Computations == {"binary", "shift", "icmp", "fcmp", "select", "cast", "gep",
                 "extractelement", "insertelement", "shufflevector", "extractvalue", "insertvalue"}
Compute(I, v) ==
  CASE I.op = "binary" -> visitBinaryOperator(I.sub, v[1], v[2], I.ty)
    [] I.op = "shift" -> Shift(I.sub, v[1], v[2], I.ty)
    [] I.op = "icmp" -> visitICmpInst(I.sub, v[1], v[2], I.ty)
    [] I.op = "fcmp" -> visitFCmpInst(I.sub, v[1], v[2], I.ty)
    [] I.op = "select" -> executeSelectInst(v[1], v[2], v[3], I.ty)
    [] I.op = "cast" -> Cast(I.sub, v[1], I.ty, I.to)
    [] I.op = "gep" -> executeGEPOperation(v[1], I.ixs, [i \in DOMAIN I.ixs |-> v[i + 1][1]])
    [] I.op = "extractelement" -> visitExtractElementInst(v[1], v[2][1])
    [] I.op = "insertelement" -> visitInsertElementInst(v[1], v[2], v[3][1])
    [] I.op = "shufflevector" -> visitShuffleVectorInst(v[1], v[2], v[3])
    [] I.op = "extractvalue" -> visitExtractValueInst(v[1], I.aux)
    [] I.op = "insertvalue" -> visitInsertValueInst(v[1], v[2], I.aux)

(* A constant expression does not cut down its shift amount, which is in   *)
(* range.                                                                  *)
getConstantExprValue(I, v) ==
  CASE I.op = "shift" /\ I.sub = "shl" -> <<(v[1][1] * 2^v[2][1]) % 2^I.ty.w>>
    [] I.op = "shift" /\ I.sub = "lshr" -> <<v[1][1] \div 2^v[2][1]>>
    [] I.op = "shift" /\ I.sub = "ashr" -> <<(Signed(v[1][1], I.ty.w) \div 2^v[2][1]) % 2^I.ty.w>>
    [] I.op \in {"icmp", "fcmp"} -> executeCmpInst(I.sub, v[1], v[2], I.ty)
    [] OTHER -> Compute(I, v)

(* An operand is a constant, a constant expression over constants, or a    *)
(* register of the frame.                                                  *)
Const(v) == [k |-> "const", v |-> v]
Expr(I) == [k |-> "expr", I |-> I]
Reg(r) == [k |-> "reg", r |-> r]
getConstantValue(o) ==
  IF o.k = "const" THEN o.v
  ELSE getConstantExprValue(o.I, [i \in DOMAIN o.I.args |-> o.I.args[i].v])
IsConstant(o) == o.k # "reg"
=============================================================================
