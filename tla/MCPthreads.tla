----------------------------- MODULE MCPthreads -----------------------------
(***************************************************************************)
(* Small programs with mutexes and condition variables for Pthreads.  Each *)
(* program is main, and two threads that run one of the scripts each.      *)
(***************************************************************************)
EXTENDS Pthreads

Op(o, m) == [op |-> o, m |-> m]
OnCond(o, c) == [op |-> o, c |-> c, m |-> NULL]
WaitFor(c) == [op |-> "wait", c |-> c, m |-> "m"]
Wait == WaitFor("c")
TryLock(k) == [op |-> "trylock", m |-> "m", skip |-> k]
Store(v) == [op |-> "store", ml |-> "x", val |-> v, m |-> NULL]
Load == [op |-> "load", ml |-> "x", m |-> NULL]
LoadAwait(S) == [op |-> "load_await", ml |-> "x", cond |-> S, m |-> NULL]
XchgAwait(v, S) == [op |-> "xchg_await", ml |-> "x", val |-> v, cond |-> S, m |-> NULL]
Create(u) == [op |-> "create", tid |-> u, m |-> NULL]
Join(u) == [op |-> "join", tid |-> u, m |-> NULL]
Assume == [op |-> "assume", m |-> NULL]
Lock == Op("lock", "m")
Unlock == Op("unlock", "m")
Signal == OnCond("signal", "c")
Broadcast == OnCond("broadcast", "c")

Scripts == {
  <<Lock, Load, Wait, Unlock>>,
  <<Lock, Signal, Unlock>>,
  <<Lock, Store(1), Broadcast, Unlock>>,
  <<TryLock(2), Store(2), Unlock>>,
  <<LoadAwait({1, 2}), Lock, Unlock>>,
  <<XchgAwait(0, {1}), Lock, Wait, LoadAwait({0}), Unlock>>,
  <<Lock, Assume>>,
  <<Lock, Lock>>,
  <<Unlock>>,
  <<Wait>>,
  <<Lock, WaitFor("d")>>,
  <<OnCond("signal", "d")>>,
  <<OnCond("broadcast", "d")>>,
  <<Signal, Op("mutex_destroy", "m")>>}

(* main initialises, starts the threads and goes on with body.             *)
Start == <<OnCond("cond_init", "c"), Create(1), Create(2)>>
InitAndStart == <<Op("mutex_init", "m")>> \o Start

Bodies == {
  <<Lock, Store(1), Signal, Unlock, Join(1), Join(2),
    Op("mutex_destroy", "m"), OnCond("cond_destroy", "c")>>,
  <<Broadcast, Join(1), OnCond("cond_init", "c")>>,
  <<OnCond("cond_destroy", "d")>>,
  <<Op("mutex_init", "m")>>}

Program(main, s1, s2) ==
  [t \in 0..2 |-> CASE t = 0 -> main [] t = 1 -> s1 [] t = 2 -> s2]

InitPrograms ==
  {Program(InitAndStart \o b, s1, s2) : b \in Bodies, s1 \in Scripts, s2 \in Scripts}

(* Mutexes without pthread_mutex_init, for --no-check-mutex-init.          *)
StaticPrograms ==
  {Program(Start \o b, s1, s2) : b \in Bodies, s1 \in Scripts, s2 \in Scripts}

AllPrograms == InitPrograms \cup StaticPrograms
=============================================================================
