-------------------------------- MODULE SymEv -------------------------------
(***************************************************************************)
(* SymEv: the symbolic description of what an event does to memory, and    *)
(* when two events conflict.  An event of these programs does at most one  *)
(* visible thing, so a sym_ty is one SymEv, with NoSym for the empty one.  *)
(* Every location is one object that is always accessed as a whole.        *)
(***************************************************************************)
EXTENDS Integers, Sequences

CONSTANT commute_rmws  \* Configuration: may additions be reordered?

Sym(kind, addr, num, written, operand, used) ==
  [kind |-> kind, addr |-> addr, num |-> num, written |-> written,
   operand |-> operand, used |-> used]

NoSym == Sym("NONE", "", 0, 0, 0, FALSE)
Nondet(count) == Sym("NONDET", "", count, 0, 0, FALSE)
Spawn(proc) == Sym("SPAWN", "", proc, 0, 0, FALSE)
Join(proc) == Sym("JOIN", "", proc, 0, 0, FALSE)
Load(a) == Sym("LOAD", a, 0, 0, 0, FALSE)
LoadAwait(a, v) == Sym("LOAD_AWAIT", a, 0, 0, v, FALSE)
Store(a, v) == Sym("STORE", a, 0, v, 0, FALSE)
UnobsStore(a, v) == Sym("UNOBS_STORE", a, 0, v, 0, FALSE)
Rmw(a, v, n, used) == Sym("RMW", a, 0, v, n, used)
CmpXhg(a, e, v) == Sym("CMPXHG", a, 0, v, e, FALSE)
CmpXhgFail(a, e, v) == Sym("CMPXHGFAIL", a, 0, v, e, FALSE)
MLock(a) == Sym("M_LOCK", a, 0, 0, 0, FALSE)
MUnlock(a) == Sym("M_UNLOCK", a, 0, 0, 0, FALSE)
MTryLock(a) == Sym("M_TRYLOCK", a, 0, 0, 0, FALSE)
MTryLockFail(a) == Sym("M_TRYLOCK_FAIL", a, 0, 0, 0, FALSE)
MInit(a) == Sym("M_INIT", a, 0, 0, 0, FALSE)
MDelete(a) == Sym("M_DELETE", a, 0, 0, 0, FALSE)

has_addr(e) == e.kind \notin {"NONE", "NONDET", "SPAWN", "JOIN"}

(* operator==: the values are not compared.                                *)
SameSym(e, f) == e.kind = f.kind /\ e.addr = f.addr /\ e.num = f.num

is_compatible_with(e, f) ==
  /\ \/ e.kind = f.kind
     \/ e.kind = "STORE" /\ f.kind = "UNOBS_STORE"
     \/ {e.kind, f.kind} = {"M_TRYLOCK", "M_TRYLOCK_FAIL"}
  /\ e.addr = f.addr /\ e.num = f.num

symev_is_store(e) == e.kind \in {"STORE", "UNOBS_STORE"}
symev_does_store(e) == symev_is_store(e) \/ e.kind \in {"CMPXHG", "RMW"}
symev_is_load(e) == e.kind \in {"LOAD", "CMPXHGFAIL", "LOAD_AWAIT"}
symev_does_load(e) == symev_is_load(e) \/ e.kind \in {"CMPXHG", "RMW"}

clear_observed(e) == IF e.kind = "STORE" THEN [e EXCEPT !.kind = "UNOBS_STORE"] ELSE e

(* Additions whose results are not used may be reordered.                  *)
rmwaction_commutes(e, f) ==
  commute_rmws /\ e.kind = "RMW" /\ f.kind = "RMW" /\ ~e.used /\ ~f.used

do_symevs_conflict(e, f) ==
  /\ has_addr(e) /\ has_addr(f) /\ e.addr = f.addr
  /\ ~(symev_is_load(e) /\ symev_is_load(f))
  /\ ~(e.kind = "UNOBS_STORE" /\ f.kind = "UNOBS_STORE")
  /\ ~rmwaction_commutes(e, f)

symev_has_pid(e) == e.kind \in {"SPAWN", "JOIN"}

do_events_conflict(p, e, q, f) ==
  \/ p = q
  \/ symev_has_pid(e) /\ e.num = q
  \/ symev_has_pid(f) /\ f.num = p
  \/ do_symevs_conflict(e, f)

(* fst is an unobserved store, snd an observed one to the same location,   *)
(* and thd reads that location.                                            *)
is_observed_conflict(p, fst, q, snd, thd) ==
  /\ p # q
  /\ fst.kind = "UNOBS_STORE" /\ snd.kind = "STORE" /\ fst.addr = snd.addr
  /\ symev_does_load(thd) /\ thd.addr = snd.addr

(* The accesses a sleeping thread is known by: see Thread::sleep_accesses. *)
sleep_accesses_r(e) == IF symev_does_load(e) THEN {e.addr} ELSE {}
sleep_accesses_w(e) ==
  IF symev_does_store(e) \/ e.kind \in {"M_LOCK", "M_UNLOCK"} THEN {e.addr} ELSE {}
=============================================================================
