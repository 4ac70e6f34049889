---------------------------- MODULE Interpreter -----------------------------
(***************************************************************************)
(* The part of llvm::Interpreter that every memory model shares: threads   *)
(* with a call stack and a current instruction, the availability flags by  *)
(* which the interpreter tells the TraceBuilder whom it may schedule,      *)
(* thread creation, termination and join.  The modules TSOInterpreter,     *)
(* PSOInterpreter and Pthreads extend this one.                            *)
(*                                                                         *)
(* A program gives every thread a sequence of instructions, which ends in  *)
(* the return from its start function.  Any available thread may be        *)
(* scheduled: which one is picked is the choice of the DPOR algorithm.     *)
(***************************************************************************)
EXTENDS Integers, Sequences, FiniteSets

CONSTANTS
  Threads,   \* all threads the program may create
  Main,      \* the initial thread
  Programs   \* the programs considered: thread -> sequence of instructions

(* Threads create and join threads of the program.                         *)
ASSUME ProgramAssumption ==
  /\ Main \in Threads
  /\ \A p \in Programs, t \in Threads :
       /\ Len(p[t]) \in Nat
       /\ \A i \in 1..Len(p[t]) :
            p[t][i].op \in {"create", "join"} => p[t][i].tid \in Threads

(* A memory location: size bytes from addr on (SymAddrSize).               *)
bytes(ml) == ml.addr..(ml.addr + ml.size - 1)
overlaps(ml, k) == bytes(ml) \cap bytes(k) # {}

VARIABLES
  prog,           \* the program under analysis
  CurInst,        \* index of each thread's next instruction
  stack,          \* "unborn", "live" (ECStack non-empty) or "empty"
  AssumeBlocked,  \* the threads that failed an assume
  AwaitingJoin,   \* the threads registered to be woken when a thread ends
  available       \* the real threads the TraceBuilder may schedule

threadVars == <<prog, CurInst, stack, AssumeBlocked, AwaitingJoin, available>>

ThreadInit ==
  /\ prog \in Programs
  /\ CurInst = [t \in Threads |-> 1]
  /\ stack = [t \in Threads |-> IF t = Main THEN "live" ELSE "unborn"]
  /\ AssumeBlocked = {}
  /\ AwaitingJoin = [t \in Threads |-> {}]
  /\ available = {Main}

(* The instruction run() fetches; after the last one comes the return.     *)
I(t) == IF CurInst[t] <= Len(prog[t]) THEN prog[t][CurInst[t]]
        ELSE [op |-> "ret"]

Executes(t, op) == t \in available /\ I(t).op = op

Advance(t) == CurInst' = [CurInst EXCEPT ![t] = @ + 1]

(* callPthreadCreate(): TB.spawn() and a stack for the new thread.         *)
callPthreadCreate(t) ==
  LET u == I(t).tid IN
  /\ Executes(t, "create")
  /\ stack[u] = "unborn"
  /\ stack' = [stack EXCEPT ![u] = "live"]
  /\ available' = available \cup {u}
  /\ Advance(t)
  /\ UNCHANGED <<prog, AssumeBlocked, AwaitingJoin>>

(* callPthreadJoin() of a thread whose stack is empty.                     *)
callPthreadJoin(t) ==
  /\ Executes(t, "join")
  /\ stack[I(t).tid] = "empty"
  /\ Advance(t)
  /\ UNCHANGED <<prog, stack, AssumeBlocked, AwaitingJoin, available>>

(* callAssume() with a false condition: the stack is cleared, but          *)
(* terminate() is not called.                                              *)
callAssume(t) ==
  /\ Executes(t, "assume")
  /\ stack' = [stack EXCEPT ![t] = "empty"]
  /\ AssumeBlocked' = AssumeBlocked \cup {t}
  /\ available' = available \ {t}
  /\ UNCHANGED <<prog, CurInst, AwaitingJoin>>

Ended(t, woken) == (available \cup woken) \ {t}

(* The return that empties the stack: terminate() marks the threads in     *)
(* woken available, then run() marks t unavailable.                        *)
Return(t, woken) ==
  /\ Executes(t, "ret")
  /\ stack' = [stack EXCEPT ![t] = "empty"]
  /\ available' = Ended(t, woken)
  /\ UNCHANGED <<prog, CurInst, AssumeBlocked, AwaitingJoin>>

(* Refusing to run a join registers the thread with the one it awaits.     *)
Register(t, u) == AwaitingJoin' = [AwaitingJoin EXCEPT ![u] = @ \cup {t}]

M_refuse_schedule(t) == available
refuse_schedule(t) == available \ {t}

RefuseJoin(t) ==
  /\ available' = refuse_schedule(t)
  /\ Register(t, I(t).tid)
  /\ UNCHANGED <<prog, CurInst, stack, AssumeBlocked>>

(* Any other instruction of t that leaves the threads alone.               *)
Continue(t) == Advance(t) /\ UNCHANGED <<prog, stack, AssumeBlocked,
                                         AwaitingJoin, available>>
=============================================================================
