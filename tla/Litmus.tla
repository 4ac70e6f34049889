------------------------------- MODULE Litmus -------------------------------
(* Small programs for the explorations: a main thread 0 that spawns the    *)
(* others, threads of a few instructions, as SCProgram executes them.      *)
EXTENDS Integers, SequencesExt

I(op, addr, val, exp, used, num) ==
  [op |-> op, addr |-> addr, lock |-> "", val |-> val, exp |-> exp,
   used |-> used, num |-> num]

SpawnI(t) == I("spawn", "", 0, 0, FALSE, t)
JoinI(t) == I("join", "", 0, 0, FALSE, t)
R(a) == I("load", a, 0, 0, FALSE, 0)
W(a, v) == I("store", a, v, 0, FALSE, 0)
Add(a, n) == I("add", a, n, 0, FALSE, 0)
FetchAdd(a, n) == I("add", a, n, 0, TRUE, 0)
Cas(a, e, v) == I("cas", a, v, e, FALSE, 0)
RIf(a, v, n) == I("load", a, 0, v, FALSE, n)  \* skips n instructions unless it reads v
Lock(a) == I("lock", a, 0, 0, FALSE, 0)
Unlock(a) == I("unlock", a, 0, 0, FALSE, 0)
TryLock(a, n) == I("trylock", a, 0, 0, FALSE, n)
MInitI(a) == I("minit", a, 0, 0, FALSE, 0)
MDestroyI(a) == I("mdestroy", a, 0, 0, FALSE, 0)
NondetI(n) == I("nondet", "", 0, 0, FALSE, n)
WSC(a, v) == I("sc_store", a, v, 0, FALSE, 0)
Fence == I("fence", "", 0, 0, FALSE, 0)
Ext == I("ext", "", 0, 0, FALSE, 0)
CInit(c) == I("cinit", c, 0, 0, FALSE, 0)
CDestroy(c) == I("cdestroy", c, 0, 0, FALSE, 0)
WaitI(c, m) == [I("wait", c, 0, 0, FALSE, 0) EXCEPT !.lock = m]
SignalI(c) == I("signal", c, 0, 0, FALSE, 0)
BroadcastI(c) == I("broadcast", c, 0, 0, FALSE, 0)
Await(a, v) == I("await", a, 0, v, FALSE, 0)

MCThreads == 0..3
MCAddrs == {"x", "y", "m", "n"}  \* two globals, two mutexes
Zero == [a \in MCAddrs |-> 0]

(* c1, c2 and c3 run as threads 1, 2 and 3, if they are not empty; main    *)
(* goes on with c0.                                                        *)
P(c0, c1, c2, c3) ==
  LET code == <<c1, c2, c3>>
      spawns == FlattenSeq([t \in 1..3 |-> IF code[t] = << >> THEN << >> ELSE <<SpawnI(t)>>])
  IN [code |-> [t \in MCThreads |-> IF t = 0 THEN spawns \o c0 ELSE code[t]], init |-> Zero]

Pairs(S) == {P(<< >>, a, b, << >>) : a \in S, b \in S}
Two(S) == [1..2 -> S]

Section(a) == <<Lock(a), W("y", 1), Unlock(a)>>
Nested(a, b) == <<Lock(a), Lock(b), Unlock(b), Unlock(a)>>
=============================================================================
