----------------------------- MODULE Denotation -----------------------------
(***************************************************************************)
(* What a thread means, given the values its loads return: the accesses it *)
(* makes, in program order, what each depends on, and its result.  This is *)
(* the reference that the interpreters are compared with; it is written    *)
(* from what the instructions of LLVM mean and not from the code: by bit   *)
(* strings and by defining equations, with all PHI nodes of a block set at *)
(* once and every intrinsic replaced beforehand.                           *)
(***************************************************************************)
EXTENDS Integers, Sequences, FiniteSets, SequencesExt

CONSTANTS WordBits, BitOrderLittle

-----------------------------------------------------------------------------
(* Bit strings, the least significant bit first.                           *)
Bits(x, w) == [i \in 1 .. w |-> (x \div 2^(i - 1)) % 2]
Number(b) == FoldLeft(LAMBDA acc, i : acc + b[i] * 2^(i - 1), 0, [i \in DOMAIN b |-> i])
TwosComplement(x, w) == CHOOSE n \in (-(2^(w - 1))) .. (2^(w - 1) - 1) : n % 2^w = x

(* A comparison is the set of outcomes it accepts; "?" is unordered.       *)
Outcome(x, y) == IF x < y THEN "<" ELSE IF x = y THEN "=" ELSE ">"
FloatOutcome(x, y, nan) == IF nan \in {x, y} THEN "?" ELSE Outcome(x, y)
Accepts == [eq |-> {"="}, ne |-> {"<", ">"},
            ult |-> {"<"}, ule |-> {"<", "="}, ugt |-> {">"}, uge |-> {">", "="},
            slt |-> {"<"}, sle |-> {"<", "="}, sgt |-> {">"}, sge |-> {">", "="}]
FloatAccepts ==
  [false |-> {}, oeq |-> {"="}, ogt |-> {">"}, oge |-> {">", "="}, olt |-> {"<"}, ole |-> {"<", "="},
   one |-> {"<", ">"}, ord |-> {"<", "=", ">"}, uno |-> {"?"}, ueq |-> {"=", "?"}, ugt |-> {">", "?"},
   uge |-> {">", "=", "?"}, ult |-> {"<", "?"}, ule |-> {"<", "=", "?"}, une |-> {"<", ">", "?"},
   true |-> {"<", "=", ">", "?"}]
Truth(b) == IF b THEN 1 ELSE 0
MeaningOfICmp(pred, x, y, Ty) ==
  LET v(n) == IF pred \in {"slt", "sle", "sgt", "sge"} /\ Ty.k = "int" THEN TwosComplement(n, Ty.w) ELSE n
  IN Truth(Outcome(v(x), v(y)) \in Accepts[pred])
MeaningOfFCmp(pred, x, y, nan) == Truth(FloatOutcome(x, y, nan) \in FloatAccepts[pred])

(* Quotient and remainder, the latter with the sign of the dividend.       *)
Abs(n) == IF n < 0 THEN -n ELSE n
Division(x, y, w) ==
  CHOOSE qr \in ((-(2^w)) .. 2^w) \X ((-(2^w)) .. 2^w) :
    x = qr[1] * y + qr[2] /\ Abs(qr[2]) < Abs(y) /\ (qr[2] = 0 \/ (qr[2] < 0) = (x < 0))
BitwiseMeaning(op, x, y, w) ==
  LET bit(a, b) == CASE op = "and" -> a * b
                     [] op = "or" -> Truth(a + b > 0)
                     [] op = "xor" -> Truth(a # b)
  IN Number([i \in 1 .. w |-> bit(Bits(x, w)[i], Bits(y, w)[i])])
MeaningOfBinary(op, x, y, w) ==
  LET s(n) == TwosComplement(n, w)
  IN CASE op = "add" -> (x + y) % 2^w
       [] op = "sub" -> (x - y) % 2^w
       [] op = "mul" -> (x * y) % 2^w
       [] op = "udiv" -> Division(x, y, w)[1]
       [] op = "urem" -> Division(x, y, w)[2]
       [] op = "sdiv" -> Division(s(x), s(y), w)[1] % 2^w
       [] op = "srem" -> Division(s(x), s(y), w)[2] % 2^w
       [] OTHER -> BitwiseMeaning(op, x, y, w)
MeaningOfShift(op, x, n, w) ==
  LET b == Bits(x, w)
      fill == IF op = "ashr" THEN b[w] ELSE 0
      from(i) == IF op = "shl" THEN i - n ELSE i + n
  IN Number([i \in 1 .. w |-> IF from(i) \in 1 .. w THEN b[from(i)] ELSE fill])

(* Conversions lane by lane; a float is counted in halves.                 *)
MeaningOfCast(op, x, from, to) ==
  LET b == Bits(x, from)
      widened(fill) == Number([i \in 1 .. to |-> IF i <= from THEN b[i] ELSE fill])
      whole == CHOOSE n \in (-(Abs(x))) .. Abs(x) : Abs(2 * n) \in {Abs(x), Abs(x) - 1} /\ n * x >= 0
  IN CASE op \in {"trunc", "ptrtoint", "inttoptr", "zext"} -> widened(0)
       [] op = "sext" -> widened(b[from])
       [] op \in {"fptoui", "fptosi"} -> whole % 2^to
       [] op = "uitofp" -> 2 * x
       [] op = "sitofp" -> 2 * TwosComplement(x, from)

(* A bit cast keeps the bytes in memory, and so the string of all bits.    *)
MeaningOfBitCast(a, from, to) ==
  LET lane(x, w) == IF BitOrderLittle THEN Bits(x, w) ELSE Reverse(Bits(x, w))
      string == FlattenSeq([i \in DOMAIN a |-> lane(a[i], from)])
      piece(i) == SubSeq(string, (i - 1) * to + 1, i * to)
  IN [i \in 1 .. (Len(string) \div to) |-> Number(IF BitOrderLittle THEN piece(i) ELSE Reverse(piece(i)))]

MeaningOfGEP(ptr, ixs, v) ==
  LET part(i) == IF ixs[i].struct THEN ixs[i].offsets[v[i + 1][1] + 1]
                 ELSE ixs[i].size * TwosComplement(v[i + 1][1], ixs[i].w)
  IN FoldLeft(LAMBDA acc, i : (acc + part(i)) % 2^WordBits, ptr, [i \in DOMAIN ixs |-> i])

(* An aggregate by the places of its fields, one or two levels deep.       *)
Fields(a, depth) ==
  IF depth = 1 THEN [p \in {<<i>> : i \in DOMAIN a} |-> a[p[1]]]
  ELSE [p \in UNION {{<<i, j>> : j \in DOMAIN a[i]} : i \in DOMAIN a} |-> a[p[1]][p[2]]]
Rebuilt(a, path, v) ==
  LET f == [p \in DOMAIN Fields(a, Len(path)) |->
              IF p = [i \in DOMAIN path |-> path[i] + 1] THEN v ELSE Fields(a, Len(path))[p]]
  IN [i \in DOMAIN a |-> IF Len(path) = 1 THEN f[<<i>>] ELSE [j \in DOMAIN a[i] |-> f[<<i, j>>]]]

PerLane(f(_), n) == [i \in 1 .. n |-> f(i)]
MeaningOf(I, v, nan) ==
  LET a == v[1]
  IN CASE I.op = "binary" -> PerLane(LAMBDA i : MeaningOfBinary(I.sub, a[i], v[2][i], I.ty.w), Len(a))
       [] I.op = "shift" -> PerLane(LAMBDA i : MeaningOfShift(I.sub, a[i], v[2][i], I.ty.w), Len(a))
       [] I.op = "icmp" -> PerLane(LAMBDA i : MeaningOfICmp(I.sub, a[i], v[2][i], I.ty), Len(a))
       [] I.op = "fcmp" -> PerLane(LAMBDA i : MeaningOfFCmp(I.sub, a[i], v[2][i], nan), Len(a))
       [] I.op = "select" -> PerLane(LAMBDA i : v[3 - a[IF Len(a) = 1 THEN 1 ELSE i]][i], Len(v[2]))
       [] I.op = "cast" /\ I.sub = "bitcast" -> MeaningOfBitCast(a, I.ty.w, I.to.w)
       [] I.op = "cast" -> PerLane(LAMBDA i : MeaningOfCast(I.sub, a[i], I.ty.w, I.to.w), Len(a))
       [] I.op = "gep" -> <<MeaningOfGEP(a[1], I.ixs, v)>>
       [] I.op = "extractelement" -> <<a[v[2][1] + 1]>>
       [] I.op = "insertelement" -> ReplaceAt(a, v[3][1] + 1, v[2][1])
       [] I.op = "shufflevector" -> PerLane(LAMBDA i : (a \o v[2])[v[3][i] + 1], Len(v[3]))
       [] I.op = "extractvalue" -> Fields(a, Len(I.aux))[[i \in DOMAIN I.aux |-> I.aux[i] + 1]]
       [] I.op = "insertvalue" -> Rebuilt(a, I.aux, v[2])

-----------------------------------------------------------------------------
(* The code with every intrinsic replaced by what it is lowered to.        *)
Inlined(block) == FlattenSeq([i \in DOMAIN block |-> IF block[i].op = "intrinsic" THEN block[i].low ELSE <<block[i]>>])
Expanded(code) == [F \in DOMAIN code |-> [bb \in DOMAIN code[F] |-> Inlined(code[F][bb])]]

(* A value and the events it depends on.                                   *)
Pure(v) == [v |-> v, d |-> {}]
RECURSIVE Operand(_, _, _)
Operand(o, env, nan) ==
  CASE o.k = "const" -> Pure(o.v)
    [] o.k = "reg" -> env[o.r]
    [] o.k = "expr" -> Pure(MeaningOf(o.I, [i \in DOMAIN o.I.args |-> Operand(o.I.args[i], env, nan).v], nan))
Values(ops) == [i \in DOMAIN ops |-> ops[i].v]
DepsOf(ops) == UNION {ops[i].d : i \in DOMAIN ops}

(* What has happened: the loads still to be answered, the events so far,   *)
(* the dependencies of the branches so far, the functions for the exit.    *)
Started(reads) == [reads |-> reads, events |-> << >>, ctrl |-> {}, handlers |-> << >>]
Happens(w, op, a, v, adeps, ddeps) ==
  [w EXCEPT !.events = Append(@, [op |-> op, a |-> a, v |-> v, adeps |-> adeps, ddeps |-> ddeps, ctrl |-> w.ctrl])]
Answer(w) == IF w.reads = << >> THEN <<0>> ELSE Head(w.reads)
Read(w, addr) ==
  [w |-> [Happens(w, "load", addr.v[1], Answer(w), addr.d, {})
            EXCEPT !.reads = IF @ = << >> THEN @ ELSE Tail(@)],
   r |-> [v |-> Answer(w), d |-> {Len(w.events) + 1}]]

(* Entering a block: its PHI nodes, all at once, and where to go on.       *)
Phis(block) == {i \in DOMAIN block : block[i].op = "phi"}
Entered(block, prev, env, nan) ==
  LET node(r) == CHOOSE I \in {block[i] : i \in Phis(block)} : I.dst = r
      incoming(I) == I.args[CHOOSE i \in DOMAIN I.aux : I.aux[i] = prev]
  IN [r \in {block[i].dst : i \in Phis(block)} |-> Operand(incoming(node(r)), env, nan)] @@ env

Target(I, v) ==
  CASE I.op = "br" -> I.aux[IF v = << >> THEN 1 ELSE 2 - v[1][1]]
    [] I.op = "switch" -> I.aux[Max({1} \cup {i \in 2 .. Len(v) : v[i] = v[1]})]
    [] I.op = "indirectbr" -> v[1][1]

(* From instruction i of block bb of function F to the end of F, or of the *)
(* thread; at is the place, I the instruction, ops and v its operands.     *)
(* The cases of a switch differ.                                           *)
RECURSIVE Runs(_, _, _, _, _)
Place(F, bb, i) == [F |-> F, bb |-> bb, i |-> i]
Ends(r, w, exit) == [r |-> r, w |-> w, exit |-> exit]
Onward(P, at, I, env, r, w, nan) == Runs(P, [at EXCEPT !.i = @ + 1], (I.dst :> r) @@ env, w, nan)
Jumps(P, at, block, to, env, w, nan) ==
  Runs(P, Place(at.F, to, Cardinality(Phis(block)) + 1), Entered(block, at.bb, env, nan), w, nan)
Exchange(read, ops, won) ==
  [r |-> [read.r EXCEPT !.v = <<@, <<won>>>>],
   w |-> IF won = 1 THEN Happens(read.w, "store", ops[1].v[1], ops[3].v, ops[1].d, ops[3].d) ELSE read.w]
Exchanges(read, ops) == Exchange(read, ops, Truth(read.r.v = ops[2].v))

(* An instruction that goes on to the next: its result and what happens.   *)
Effect(I, ops, v, w, nan) ==
  CASE I.op = "load" -> Read(w, ops[1])
    [] I.op = "store" -> [r |-> Pure(<<0>>), w |-> Happens(w, "store", v[1][1], v[2], ops[1].d, ops[2].d)]
    [] I.op = "cmpxchg" -> Exchanges(Read(w, ops[1]), ops)
    [] I.op = "atexit" -> [r |-> Pure(<<0>>), w |-> [w EXCEPT !.handlers = Append(@, I.aux[1])]]
    [] OTHER -> [r |-> [v |-> MeaningOf(I, v, nan), d |-> DepsOf(ops)], w |-> w]

(* Where the thread goes on after I has had its effect, or a call returned.*)
After(P, at, I, env, e, nan) ==
  IF I.op = "invoke"
  THEN Jumps(P, at, P[at.F][I.aux[2]], I.aux[2], (I.dst :> e.r) @@ env, e.w, nan)
  ELSE Onward(P, at, I, env, e.r, e.w, nan)
Returned(P, at, I, env, called, nan) == IF called.exit THEN called ELSE After(P, at, I, env, called, nan)
Instructed(P, at, I, ops, env, w, nan) ==
  CASE I.op \in {"br", "switch", "indirectbr"} ->
         LET to == Target(I, Values(ops))
         IN Jumps(P, at, P[at.F][to], to, env, [w EXCEPT !.ctrl = @ \cup DepsOf(ops)], nan)
    [] I.op \in {"call", "invoke"} -> Returned(P, at, I, env, Runs(P, Place(I.aux[1], 1, 1), ops, w, nan), nan)
    [] I.op = "ret" -> Ends(IF ops = << >> THEN Pure(<<0>>) ELSE ops[1], w, FALSE)
    [] I.op = "pthread_exit" -> Ends(ops[1], w, TRUE)
    [] OTHER -> After(P, at, I, env, Effect(I, ops, Values(ops), w, nan), nan)
InstructionAt(P, at) == P[at.F][at.bb][at.i]
OperandsOf(I, env, nan) == [k \in DOMAIN I.args |-> Operand(I.args[k], env, nan)]
Runs(P, at, env, w, nan) ==
  Instructed(P, at, InstructionAt(P, at), OperandsOf(InstructionAt(P, at), env, nan), env, w, nan)

(* The functions registered for the exit, the last one first.              *)
RECURSIVE Exits(_, _, _)
Exits(P, w, nan) ==
  IF w.handlers = << >> THEN w
  ELSE Exits(P, Runs(P, Place(Last(w.handlers), 1, 1), << >>, [w EXCEPT !.handlers = Front(@)], nan).w, nan)

(* The events of a thread that starts in F, the main thread or another.    *)
EventsAtEnd(P, w, main, nan) == IF main THEN Exits(P, w, nan).events ELSE w.events
EventsIn(P, F, reads, main, nan) ==
  EventsAtEnd(P, Runs(P, Place(F, 1, 1), << >>, Started(reads), nan).w, main, nan)
EventsOf(code, F, reads, main, nan) == EventsIn(Expanded(code), F, reads, main, nan)
=============================================================================
