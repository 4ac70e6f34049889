------------------------------ MODULE MCPOWER -------------------------------
(***************************************************************************)
(* Litmus programs for POWER and ARM: what the exploration finds is        *)
(* compared with the executions that the axioms allow.                     *)
(***************************************************************************)
EXTENDS POWERInterpreter

A == INSTANCE POWERARMAxioms

-----------------------------------------------------------------------------
X == <<"x", 0>>
Y == <<"y", 0>>
X2 == <<"x", 1>>
M == <<"m", 0>>
Tid(p) == <<"t", p>>

Ld(b) == Instr("load", <<b>>, << >>, {}, {}, 0)
LdA(b, adeps) == Instr("load", <<b>>, << >>, adeps, {}, 0)
St(b, v) == Instr("store", <<b>>, <<v>>, {}, {}, 0)
StD(b, v, ddeps) == Instr("store", <<b>>, <<v>>, {}, ddeps, 0)
StA(b, v, adeps) == Instr("store", <<b>>, <<v>>, adeps, {}, 0)
F(fence) == Instr(fence, << >>, << >>, {}, {}, 0)
Cond(op, v, ddeps) == Instr(op, << >>, <<v>>, {}, ddeps, 0)
Create(p) == Instr("create", <<Tid(p)>>, << >>, {}, {}, p)
Join(p, adeps) == Instr("join", << >>, << >>, adeps, {}, p)
Mutex(op) == Instr(op, <<M>>, << >>, {}, {}, 0)

MessagePassing == << <<Create(2), St(X, 1), F("lwsync"), St(Y, 1)>>, <<Ld(Y), LdA(X, {1})>> >>
ControlFence == << <<Create(2), St(X, 1), F("eieio"), St(Y, 1)>>, <<Ld(Y), Cond("br", 0, {1}), F("isync"), Ld(X)>> >>
StoreBuffering == << <<Create(2), St(X, 1), F("sync"), Ld(Y)>>, <<St(Y, 1), F("lwsync"), Ld(X)>> >>
LoadBuffering == << <<Create(2), Ld(X), StD(Y, 1, {2})>>, <<Ld(Y), StA(X, 1, {1})>> >>
Coherence == << <<Create(2), St(X, 1), Ld(X), Ld(X)>>, <<St(X, 2), Ld(X)>> >>
Independent == << <<Create(2), Create(3), St(X, 1)>>, <<Ld(X), F("sync"), StD(Y, 1, {1})>>, <<Ld(Y), LdA(X, {1})>> >>
TwoBytes == << <<Create(2), Instr("store", <<X, X2>>, <<1, 1>>, {}, {}, 0)>>,
               <<Instr("load", <<X, X2>>, << >>, {}, {}, 0), St(X2, 2)>> >>
Locked == << <<Create(2), Mutex("lock"), Ld(X), Mutex("unlock"), St(X, 1)>>,
             <<Mutex("lock"), St(X, 2), Mutex("unlock")>> >>
Joined == << <<Create(2), St(Y, 1), Ld(Tid(2)), Join(2, {3}), Ld(X)>>, <<St(X, 1), Ld(Y)>> >>
Initialised == << <<Mutex("mutex_init"), Create(2), Mutex("lock"), Mutex("unlock")>>,
                  <<Mutex("lock"), Mutex("unlock")>> >>
Asserted == << <<Create(2), St(X, 1), St(Y, 1)>>, <<Ld(Y), Cond("assume", 1, {1}), Ld(X), Cond("assert", 1, {3})>> >>
AssertedFenced == << <<Create(2), St(X, 1), F("lwsync"), St(Y, 1)>>,
                     <<Ld(Y), Cond("assume", 1, {1}), F("sync"), Ld(X), Cond("assert", 1, {4})>> >>
AssertedUnwritten == << <<Create(2), St(X, 1)>>, <<Ld(X), Cond("assert", 0, {1})>> >>
Overtaken == << <<Create(2), Create(3), Ld(X)>>, <<St(X, 1)>>, <<St(X, 2)>> >>
Speculative == << <<Create(2), Ld(X), Ld(Y), Cond("assert", 0, {3}), StD(X, 1, {2})>>, <<Ld(X), StD(Y, 1, {1})>> >>

SwitchOnLoad == << <<Create(2), Ld(X), Cond("switch", 0, {2}), St(Y, 1)>>, <<Ld(Y), StD(X, 1, {1})>> >>
ReturnLoad == << <<Create(2), Ld(X), Cond("ret", 0, {2}), St(Y, 1)>>, <<Ld(Y), StD(X, 1, {1})>> >>

MCTerminators == {SwitchOnLoad, ReturnLoad}
MCPrograms == {MessagePassing, ControlFence, StoreBuffering, LoadBuffering, Coherence, Independent,
               TwoBytes, Locked, Joined, Initialised, Asserted, AssertedFenced, AssertedUnwritten,
               Overtaken, Speculative}

-----------------------------------------------------------------------------
Failing(P, G, mem, ops) == {c \in A!Conditions(P, ops) : ~A!CondHolds(P, G, mem, c[1], c[2])}

(* The trace builder explores the executions that SC PER LOCATION, NO THIN *)
(* AIR, OBSERVATION and PROPAGATION allow, all of them and no other: what  *)
(* populate_parameters(), the branches of detect_rw_conflicts() and        *)
(* reset() reach one event at a time is what the axioms say of the whole.  *)
ExploresAllowedOf(P, G, allowed) ==
  execs = {m \in allowed : Failing(P, G, m, {"assume", "assert"}) = {}}
ExploresAllowed ==
  phase = "done" => ExploresAllowedOf(prog, A!Structure(prog), A!AllowedExecutions(prog, tb.mm))

(* No trace is counted twice by handle_trace().                            *)
NoTraceTwice == trace_count = Cardinality(execs) + Cardinality(failed)

(* An error is reported if and only if some allowed execution meets it:    *)
(* error_is_real() drops the errors of computations that cannot be         *)
(* completed, and no error of one that can be.                             *)
ErrorsExactOf(P, G, allowed) ==
  reported <=> \E m \in allowed : /\ Failing(P, G, m, {"assert"}) # {}
                                  /\ Failing(P, G, m, {"assume"}) = {}
ErrorsExact ==
  phase = "done" => ErrorsExactOf(prog, A!Structure(prog), A!AllowedExecutions(prog, tb.mm))

(* The assertion of schedule(): the next event of a decided prefix can be  *)
(* committed when its turn comes.                                          *)
ReplayCommittable ==
  phase # "done" /\ tb.sched_count < Len(tb.prefix) =>
    LET e == tb.prefix[tb.sched_count + 1] IN e \in Fetched(tb) /\ committable(tb, e)
=============================================================================
