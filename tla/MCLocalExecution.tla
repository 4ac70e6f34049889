-------------------------- MODULE MCLocalExecution --------------------------
(***************************************************************************)
(* Both interpreters on small programs: one for every instruction that     *)
(* computes and every choice of operands, and some with loops, calls and   *)
(* functions that are atomic, intrinsic or called at exit.                 *)
(***************************************************************************)
EXTENDS LocalExecution

CONSTANTS LoadValues

VARIABLE T  \* the thread of the interpreter for POWER

POWER == INSTANCE POWERLocalExecution
Reference == INSTANCE Denotation WITH WordBits <- Word, BitOrderLittle <- LittleEndian

-----------------------------------------------------------------------------
Instruction(op, sub, ty, to, dst, args, aux) ==
  [op |-> op, sub |-> sub, ty |-> ty, to |-> to, dst |-> dst, args |-> args, aux |-> aux,
   ixs |-> << >>, low |-> << >>]
IntTy(w) == Type("int", w)
IntVectorTy(w) == VectorType("int", w)
Byte == IntTy(3)
Ptr == Type("ptr", Word)
Float == Type("fp", 8)
FloatVectorTy == VectorType("fp", 8)

C(n) == Const(<<n>>)
Plain(op, dst, args, aux) == Instruction(op, "", Byte, Byte, dst, args, aux)
Binary(sub, dst, a, b) == Instruction("binary", sub, Byte, Byte, dst, <<a, b>>, << >>)
ICmp(sub, dst, a, b) == Instruction("icmp", sub, Byte, IntTy(1), dst, <<a, b>>, << >>)
Load(dst, a) == Plain("load", dst, <<a>>, << >>)
Store(a, v) == Plain("store", 0, <<a, v>>, << >>)
CmpXchg(dst, a, c, n) == Plain("cmpxchg", dst, <<a, c, n>>, << >>)
ExtractValue(dst, v, i) == Plain("extractvalue", dst, <<v>>, <<i>>)
Phi(dst, args, blocks) == Plain("phi", dst, args, blocks)
Br(bb) == Plain("br", 0, << >>, <<bb>>)
CondBr(c, yes, no) == Plain("br", 0, <<c>>, <<yes, no>>)
Switch(args, blocks) == Plain("switch", 0, args, blocks)
IndirectBr(a) == Plain("indirectbr", 0, <<a>>, << >>)
Ret(args) == Plain("ret", 0, args, << >>)
Call(dst, F, args) == Plain("call", dst, args, <<F>>)
Invoke(dst, F, args, bb) == Plain("invoke", dst, args, <<F, bb>>)
PthreadExit(v) == Plain("pthread_exit", 0, <<v>>, << >>)
AtExit(dst, F) == Plain("atexit", dst, << >>, <<F>>)
Intrinsic(dst, args, low) == [Plain("intrinsic", dst, args, << >>) EXCEPT !.low = low]

Program(machine, code, start, atomic) ==
  [machine |-> machine, code |-> code, start |-> start, atomic |-> atomic,
   mem |-> [a \in 0 .. 2 |-> <<a>>]]

-----------------------------------------------------------------------------
(* One instruction, and the same as a constant expression.  A division by  *)
(* zero, a quotient or a shift that is out of range means nothing.         *)
Consts(v) == [i \in DOMAIN v |-> Const(v[i])]
Computing(op, sub, ty, to, v) == Instruction(op, sub, ty, to, 1, Consts(v), << >>)
InRange(sub, w, x, y) ==
  /\ sub \in {"udiv", "sdiv", "urem", "srem"} => y # 0
  /\ sub \in {"sdiv", "srem"} => ~(x = 2^(w - 1) /\ y = 2^w - 1)
Cells(w) == 0 .. 2^w - 1

Binaries == {Computing("binary", sub, Byte, Byte, <<<<x>>, <<y>>>>) :
               <<sub, x, y>> \in {s \in BinaryOps \X Cells(3) \X Cells(3) : InRange(s[1], 3, s[2], s[3])}}
Shifts == {Computing("shift", sub, Byte, Byte, <<<<x>>, <<n>>>>) :
             sub \in {"shl", "lshr", "ashr"}, x \in Cells(3), n \in 0 .. 2}
ICmps == {Computing("icmp", sub, ty, IntTy(1), <<<<x>>, <<y>>>>) :
            sub \in ICmpPredicates, ty \in {IntTy(2), Type("ptr", 2)}, x \in Cells(2), y \in Cells(2)}
Floats == {-1, 0, 1, NaN}
FCmps == {Computing("fcmp", sub, Float, IntTy(1), <<<<x>>, <<y>>>>) :
            sub \in FCmpPredicates, x \in Floats, y \in Floats}
Conversions ==
  {Computing("cast", "trunc", Byte, IntTy(2), <<<<x>>>>) : x \in Cells(3)}
    \cup {Computing("cast", sub, Byte, IntTy(5), <<<<x>>>>) : sub \in {"sext", "zext"}, x \in Cells(3)}
    \cup {Computing("cast", "fptoui", Float, Byte, <<<<x>>>>) : x \in 0 .. 9}
    \cup {Computing("cast", "fptosi", Float, Byte, <<<<x>>>>) : x \in -8 .. 7}
    \cup {Computing("cast", sub, Byte, Float, <<<<x>>>>) : sub \in {"uitofp", "sitofp"}, x \in Cells(3)}
    \cup {Computing("cast", "ptrtoint", Ptr, IntTy(w), <<<<x>>>>) : w \in {2, 4, 6}, x \in {0, 5, 15}}
    \cup {Computing("cast", "inttoptr", IntTy(w), Ptr, <<<<x>>>>) : w \in {2, 6}, x \in {0, 3}}
Selects == {Computing("select", "", IntTy(1), Byte, <<<<c>>, a, <<6, 1>>>>) : c \in 0 .. 1, a \in {<<2, 3>>}}

(* Vectors; a bit cast between lane sizes that divide each other.          *)
Field(offsets) == [struct |-> TRUE, offsets |-> offsets, size |-> 0, w |-> Half]
Index(size, w) == [struct |-> FALSE, offsets |-> << >>, size |-> size, w |-> w]
GEP(ixs, v) == [Computing("gep", "", Ptr, Ptr, v) EXCEPT !.ixs = ixs]
OverVectors ==
  {Computing("binary", sub, IntVectorTy(3), IntVectorTy(3), <<<<1, 6>>, <<3, 5>>>>) : sub \in BinaryOps}
    \cup {Computing("shift", sub, IntVectorTy(3), IntVectorTy(3), <<<<5, 6>>, <<1, 2>>>>) :
            sub \in {"shl", "lshr", "ashr"}}
    \cup {Computing("icmp", sub, IntVectorTy(3), IntVectorTy(1), <<<<1, 6, 2>>, <<6, 1, 2>>>>) : sub \in ICmpPredicates}
    \cup {Computing("fcmp", sub, FloatVectorTy, IntVectorTy(1), <<<<x, NaN, 0>>, <<y, 1, y>>>>) :
            sub \in FCmpPredicates, x \in Floats, y \in Floats}
    \cup {Computing("select", "", IntVectorTy(1), IntVectorTy(3), <<<<c, 1>>, <<2, 3>>, <<6, 1>>>>) : c \in 0 .. 1}
    \cup {Computing("cast", sub, IntVectorTy(3), IntVectorTy(w), <<<<5, 2>>>>) :
            <<sub, w>> \in {<<"trunc", 2>>, <<"sext", 5>>, <<"zext", 4>>}}
    \cup {Computing("cast", "bitcast", IntVectorTy(s[1]), IntVectorTy(s[2]), <<s[3]>>) :
            s \in {<<2, 4, <<1, 2, 3, 0>>>>, <<4, 2, <<9, 6>>>>, <<2, 2, <<1, 3>>>>, <<1, 3, <<1, 0, 0, 1, 1, 0>>>>}}
    \cup {Computing("cast", "bitcast", IntVectorTy(2), IntTy(6), <<<<1, 2, 3>>>>),
          Computing("cast", "bitcast", IntTy(6), IntVectorTy(2), <<<<27>>>>)}
    \cup {Computing("extractelement", "", IntVectorTy(3), Byte, <<<<5, 2>>, <<i>>>>) : i \in 0 .. 1}
    \cup {Computing("insertelement", "", IntVectorTy(3), Byte, <<<<5, 2>>, <<7>>, <<i>>>>) : i \in 0 .. 1}
    \cup {Computing("shufflevector", "", IntVectorTy(3), Byte, <<<<5, 2>>, <<7, 1>>, <<i, 1, j>>>>) :
            i \in 0 .. 3, j \in 0 .. 3}
Addresses == {GEP(<<Index(4, w), Field(<<0, 1>>), Index(1, Word)>>, <<<<20>>, <<i>>, <<f>>, <<k>>>>) :
                w \in {Half, Word}, i \in Cells(3), f \in 0 .. 1, k \in {0, 2, 2^Word - 1}}

Aggregate == << <<<<1>>, <<2>>>>, <<<<3>>, <<4>>>> >>
OverAggregates ==
  {[Computing("extractvalue", "", Byte, Byte, <<Aggregate>>) EXCEPT !.aux = path] :
     path \in {<<i>> : i \in 0 .. 1} \cup {<<i, j>> : i \in 0 .. 1, j \in 0 .. 1}}
    \cup {[Computing("insertvalue", "", Byte, Byte, <<Aggregate, <<5>>>>) EXCEPT !.aux = <<i, j>>] :
            i \in 0 .. 1, j \in 0 .. 1}
    \cup {[Computing("insertvalue", "", Byte, Byte, <<Aggregate, <<<<5>>, <<6>>>>>>) EXCEPT !.aux = <<i>>] : i \in 0 .. 1}

Alone(machine, I) == Program(machine, << << <<I, Store(C(0), Reg(1)), Ret(<<C(0)>>)>> >> >>, <<1>>, {})
AsExpression(machine, I) == Program(machine, << << <<Store(C(0), Expr(I)), Ret(<<C(0)>>)>> >> >>, <<1>>, {})
Scalars == Binaries \cup Shifts \cup ICmps \cup FCmps \cup Conversions \cup Addresses
Single == {Alone(m, I) : m \in {"sc", "power"}, I \in Scalars \cup Selects \cup OverVectors \cup OverAggregates}
            \cup {AsExpression(m, I) : m \in {"sc", "power"}, I \in Scalars}

-----------------------------------------------------------------------------
(* A loop that adds up what it loads; a loop whose PHI nodes change        *)
(* places; a recursive function, called and invoked; an exit two calls     *)
(* deep; a switch and a computed goto.                                     *)
Loop == << << <<Br(2)>>,
              <<Phi(1, <<C(0), Reg(3)>>, <<1, 2>>), Phi(2, <<C(0), Reg(5)>>, <<1, 2>>),
                Load(4, Reg(1)), Binary("add", 5, Reg(2), Reg(4)), Binary("add", 3, Reg(1), C(1)),
                ICmp("ult", 6, Reg(3), C(2)), CondBr(Reg(6), 2, 3)>>,
              <<Phi(7, <<Reg(5)>>, <<2>>), Store(C(2), Reg(7)), Ret(<<Reg(7)>>)>> >> >>
Swap == << << <<Load(4, C(1)), Br(2)>>,
              <<Phi(1, <<Reg(4), Reg(2)>>, <<1, 2>>), Phi(2, <<C(2), Reg(1)>>, <<1, 2>>),
                Phi(3, <<C(0), Reg(5)>>, <<1, 2>>), Store(Reg(1), Reg(2)), Binary("add", 5, Reg(3), C(1)),
                ICmp("ult", 6, Reg(5), C(2)), CondBr(Reg(6), 2, 3)>>,
              <<Ret(<<C(0)>>)>> >> >>
Recursion == << << <<Load(1, C(0)), Call(2, 2, <<C(2), Reg(1)>>), Invoke(3, 2, <<C(1), Reg(2)>>, 2)>>,
                   <<Phi(4, <<Reg(3)>>, <<1>>), Store(Reg(2), Reg(4)), Ret(<< >>)>> >>,
                << <<ICmp("eq", 3, Reg(1), C(0)), CondBr(Reg(3), 2, 3)>>,
                   <<Ret(<<Reg(2)>>)>>,
                   <<Binary("sub", 4, Reg(1), C(1)), Load(5, Reg(1)), Binary("and", 8, Reg(5), C(1)),
                     Call(6, 2, <<Reg(4), Reg(8)>>), Binary("xor", 7, Reg(6), C(1)), Ret(<<Reg(7)>>)>> >> >>
Nested == << << <<Load(1, C(1)), Call(2, 2, <<Reg(1)>>), Store(C(0), Reg(2)), Ret(<< >>)>> >>,
             << <<Call(2, 3, <<Reg(1)>>), Store(C(2), Reg(2)), Ret(<<C(1)>>)>> >>,
             << <<ICmp("ne", 4, Reg(1), C(0)), CondBr(Reg(4), 2, 3)>>, <<Store(C(1), C(5)), PthreadExit(Reg(1))>>, <<Ret(<<C(4)>>)>> >> >>
Switching(c) == << << <<Load(1, C(1)), Switch(<<c, C(0), C(1)>>, <<2, 3, 4>>)>>,
                      <<Store(C(0), Reg(1)), Ret(<< >>)>>, <<Store(C(1), Reg(1)), Ret(<< >>)>>,
                      <<IndirectBr(C(5))>>, <<Phi(2, <<Reg(1)>>, <<4>>), Store(C(2), Reg(2)), Ret(<< >>)>> >> >>

(* An intrinsic after an access and after a call, in a block where several *)
(* frames and threads may stand.                                           *)
Swapped == Intrinsic(3, <<Reg(2)>>, <<Binary("add", 4, Reg(2), C(1)), Binary("mul", 3, Reg(4), C(3))>>)
Lowered == << << <<Load(2, C(1)), Swapped, Store(C(0), Reg(3)), Ret(<< >>)>> >> >>
Deep == << << <<Call(1, 2, <<C(1)>>), Store(C(2), Reg(1)), Ret(<< >>)>> >>,
           << <<ICmp("ne", 7, Reg(1), C(0)), CondBr(Reg(7), 2, 3)>>,
              <<Binary("sub", 6, Reg(1), C(1)), Call(8, 2, <<Reg(6)>>), Br(3)>>,
              <<Load(2, Reg(1)), Call(5, 3, << >>), Swapped, Binary("add", 9, Reg(3), Reg(5)), Ret(<<Reg(9)>>)>> >>,
           << <<Load(1, C(0)), Ret(<<Reg(1)>>)>> >> >>

(* Atomic functions, and functions called at exit.                         *)
Atomic == << << <<Call(1, 2, <<C(0)>>), Store(C(2), Reg(1)), Ret(<< >>)>> >>,
             << <<CmpXchg(2, Reg(1), C(0), C(3)), ExtractValue(3, Reg(2), 1), Load(4, C(0)), CondBr(Reg(3), 2, 3)>>,
                <<Store(C(1), Reg(4)), Call(5, 3, << >>), Ret(<<Reg(5)>>)>>,
                <<Store(C(0), C(0)), Ret(<<Reg(4)>>)>> >>,
             << <<Load(1, C(1)), Store(C(0), C(2)), Load(2, C(0)), Binary("add", 3, Reg(1), Reg(2)), Ret(<<Reg(3)>>)>> >> >>
Handlers == << << <<AtExit(1, 2), AtExit(2, 3), Store(C(0), C(4)), Ret(<< >>)>> >>,
               << <<Load(1, C(2)), Store(C(1), Reg(1)), Ret(<< >>)>> >>,
               << <<AtExit(1, 4), Store(C(2), C(5)), Ret(<< >>)>> >>,
               << <<Store(C(0), C(6)), Ret(<< >>)>> >> >>

MCPrograms ==
  Single
    \cup {Program("sc", c, <<1>>, {}) : c \in {Loop, Swap, Recursion, Nested, Handlers, Switching(Reg(1)), Deep}}
    \cup {Program("sc", Lowered, <<1, 1>>, {}), Program("sc", Deep, <<1, 1>>, {}), Program("sc", Nested, <<1, 1>>, {}),
          Program("sc", Atomic, <<1, 1>>, {2}), Program("sc", Atomic, <<3, 1>>, {2, 3})}
    \cup {Program("power", c, <<1>>, {}) : c \in {Loop, Recursion, Nested, Lowered, Deep} \cup {Switching(C(i)) : i \in 0 .. 2}}

-----------------------------------------------------------------------------
MCLoadValues == {<<0>>, <<1>>}

MCInit == Init /\ T = POWER!Thread(prog.start[1])
MCNext ==
  \/ prog.machine = "sc" /\ Next /\ UNCHANGED T
  \/ prog.machine = "power" /\ POWER!Next /\ UNCHANGED <<Threads, Mem, AtExitHandlers, trace, dry>>
  \/ prog.machine = "power" /\ POWER!Done /\ UNCHANGED <<vars, T>>
MCSpec == MCInit /\ [][MCNext]_<<vars, T>>

Access(e) == [op |-> e.op, a |-> e.a, v |-> e.v]
Accesses(events) == [i \in DOMAIN events |-> Access(events[i])]
Loaded(events) == LET loads == SelectSeq(events, LAMBDA e : e.op = "load") IN [i \in DOMAIN loads |-> loads[i].v]

(* However the threads are interleaved, rewritten and dry run, a thread    *)
(* that has ended has made exactly the accesses its code means, given what *)
(* its loads have returned: each instruction computes what it should, PHI  *)
(* nodes see the values from before the jump, calls, invokes and returns   *)
(* go to the right frame and block, an intrinsic is neither skipped nor    *)
(* run twice by a thread that stood in the block when it was replaced, and *)
(* functions for the exit run last in first out.                           *)
SequentialMeaning ==
  prog.machine = "sc" =>
    \A t \in DOMAIN Threads : ~Running(t) =>
      trace[t] = Accesses(Reference!EventsOf(prog.code, prog.start[t], Loaded(trace[t]), t = 1, NaN))

Place(th) == [i \in DOMAIN th.ECStack |-> [th.ECStack[i] EXCEPT !.Values = << >>]]

(* A dry run tells the trace builder exactly the accesses the thread would *)
(* make now, those of a whole atomic function that reads its own writes    *)
(* included, and leaves the memory and the place of every thread alone.    *)
DryRunForesees ==
  [][dry' # dry =>
       /\ Mem' = Mem /\ AtExitHandlers' = AtExitHandlers
       /\ \A t \in DOMAIN Threads : Place(Threads'[t]) = Place(Threads[t])
       /\ LET it == Last(dry') IN it.acc = RunThread(State, it.t, FALSE).acc]_<<vars, T>>

PowerMeaning == Reference!EventsOf(prog.code, prog.start[1], Loaded(T.events), FALSE, NaN)
Registered(events) == [i \in DOMAIN events |-> [op |-> events[i].op, a |-> <<events[i].a>>, v |-> events[i].v]]
Ended == [op |-> "store", a |-> <<POWER!Status>>, v |-> <<2>>]
DependenciesOf(events) == [i \in DOMAIN events |-> <<events[i].adeps, events[i].ddeps, events[i].ctrl>>]

(* Whatever order the trace builder commits the events in, and whatever    *)
(* they load: when nothing is left to commit, the thread has made the      *)
(* accesses its code means, and told that it has ended.                    *)
DataflowMeaning ==
  (prog.machine = "power" /\ POWER!Done) => Accesses(T.events) = Append(Registered(PowerMeaning), Ended)

(* The dependencies the trace builder was given when an event was fetched, *)
(* through registers, arguments, results and PHI nodes, are those of the   *)
(* data flow, although the values were not known then.                     *)
DependenciesExact ==
  (prog.machine = "power" /\ POWER!Done) => DependenciesOf(Front(T.events)) = DependenciesOf(PowerMeaning)
=============================================================================
