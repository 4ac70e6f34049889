--------------------------- MODULE TSOTraceBuilder --------------------------
(***************************************************************************)
(* TSOTraceBuilder under sequential consistency: stateless exploration of  *)
(* a program with Source-DPOR, Optimal-DPOR or Optimal-DPOR with observers.*)
(* Interpreter::run() asks schedule() which thread to run, executes one    *)
(* instruction and tells the TraceBuilder what it did.  At the end of an   *)
(* execution reset() finds its races, schedules their reversals as wakeup  *)
(* sequences, and prepares the replay of the next one.                     *)
(*                                                                         *)
(* The wakeup tree is kept along the prefix: rest of an event holds the    *)
(* siblings of its branch, unexplored the children of the last node.       *)
(* Positions in prefix count from 1, and 0 stands for the -1 of the code.  *)
(***************************************************************************)
EXTENDS SCProgram

VARIABLES
  tb,       \* the TraceBuilder
  traces,   \* the classes of the executions explored so far
  finished  \* has the exploration ended?

vars == <<prog, dpor_algorithm, ee, tb, traces, finished>>

Awake == [sym |-> NoSym, asleep |-> FALSE]

NoAccess ==
  [last_update |-> 0, last_read |-> [t \in Threads |-> 0],
   unordered_updates |-> [t \in Threads |-> 0], before_unordered |-> {}]

(* What reset() gives its initial value before every execution.            *)
Fresh(prefix, unexplored, replay) ==
  [prefix |-> prefix, unexplored |-> unexplored, prefix_idx |-> 0, replay |-> replay,
   dry_sleepers |-> 0, available |-> {0}, sleeping |-> [t \in Threads |-> Awake],
   spawn_event |-> [t \in Threads |-> 0], event_indices |-> [t \in Threads |-> << >>],
   mem |-> [a \in Addrs |-> NoAccess],
   mutexes |-> [a \in Addrs |-> [last_access |-> 0, last_lock |-> 0]],
   lock_fail_races |-> << >>, blocked_awaits |-> [t \in Threads |-> NoSym],
   errors |-> FALSE]

Init ==
  /\ prog \in Programs
  /\ dpor_algorithm \in Algorithms
  /\ \A t \in Threads : \A i \in DOMAIN prog.code[t] :
       prog.code[t][i].op = "await" => dpor_algorithm = "OPTIMAL"
  /\ ee = NewEngine(prog)
  /\ tb = Fresh(<< >>, << >>, FALSE)
  /\ traces = << >>
  /\ finished = FALSE

Branch(p, alt, size, sym) == [pid |-> p, alt |-> alt, size |-> size, sym |-> sym]
SameBranch(b, c) == b.pid = c.pid /\ b.alt = c.alt

Event(p, index, branch, rest, sleep) ==
  [pid |-> p, index |-> index, branch |-> branch, rest |-> rest, sym |-> branch.sym,
   may_conflict |-> FALSE, sleep |-> sleep,
   sleep_evs |-> [t \in Threads |-> NoSym],
   happens_after |-> {}, happens_after_later |-> {}, races |-> << >>]

Race(kind, first, second, arg) ==
  [kind |-> kind, first |-> first, second |-> second, arg |-> arg,
   pid |-> 0, index |-> 0, sym |-> NoSym, exclude |-> {}]
is_fail_kind(r) == r.kind \in {"LOCK_FAIL", "SEQUENCE"}

cur(s) == s.prefix[s.prefix_idx]

-----------------------------------------------------------------------------
(* What the callbacks record about the current event, t's.                 *)

see_events(s, seen) ==
  LET js == SetToSortSeq(seen \ {0, s.prefix_idx}, <)
      new == [k \in DOMAIN js |-> Race("NONBLOCK", js[k], s.prefix_idx, 0)]
  IN [s EXCEPT !.prefix[s.prefix_idx].races =
        IF @ # << >> /\ new # << >> /\ Last(@) = Head(new) THEN @ \o Tail(new) ELSE @ \o new]

(* The reversal of the pair is observed by the current event.              *)
see_event_pairs(s, first, second) ==
  LET js == SetToSortSeq(first, <)
      new == [k \in DOMAIN js |-> Race("OBSERVED", js[k], second, s.prefix_idx)]
  IN IF second = 0 THEN s ELSE [s EXCEPT !.prefix[second].races = @ \o new]

Values(f) == {f[t] : t \in Threads} \ {0}
NoUpdates == [t \in Threads |-> 0]

(* observe_memory(): the updates of a that the current event sees.         *)
observe_memory(s, t, a, is_update) ==
  LET m == s.mem[a]
      lu == m.last_update
      unordered == Values(m.unordered_updates)
      observed == lu # 0 /\ Observers /\ s.prefix[lu].sym.kind = "UNOBS_STORE"
      before == IF unordered = {} THEN {lu} ELSE unordered
      last == IF lu # 0 /\ s.prefix[lu].pid # t THEN {lu} ELSE {}
  IN IF lu = 0 THEN [s |-> s, seen |-> {}, first |-> {}, second |-> 0]
     ELSE IF observed
     THEN [s |-> [s EXCEPT !.prefix[lu].sym.kind = "STORE",
                           !.mem[a].unordered_updates = NoUpdates,
                           !.mem[a].before_unordered = {lu}],
           seen |-> last, first |-> unordered \ {lu}, second |-> lu]
     ELSE IF is_update
     THEN [s |-> [s EXCEPT !.mem[a].unordered_updates = NoUpdates,
                           !.mem[a].before_unordered = before],
           seen |-> last \cup before, first |-> {}, second |-> 0]
     ELSE [s |-> s, seen |-> last \cup unordered, first |-> {}, second |-> 0]

(* wakeup(): the sleepers whose next event conflicts with this access.     *)
wakeup(s, kind, a) ==
  LET conflicts(e) == a \in sleep_accesses_w(e) \/ (kind = "W" /\ a \in sleep_accesses_r(e))
  IN [s EXCEPT !.sleeping = [p \in Threads |->
        IF s.sleeping[p].asleep /\ conflicts(s.sleeping[p].sym) THEN Awake ELSE s.sleeping[p]]]

(* An update of a.  Updates that commute with the latest one are not       *)
(* ordered with it, but after what it was ordered after.                   *)
Update(s, t, a, commutes, unordered) ==
  LET m == s.mem[a]
      lu == m.last_update
      readers == {i \in Values(m.last_read) : s.prefix[i].pid # t}
      lu_before_read == lu # 0 /\ \E i \in Values(m.last_read) : i > lu
      o == IF lu_before_read
           THEN [s |-> [s EXCEPT !.mem[a].unordered_updates = NoUpdates,
                                 !.mem[a].before_unordered = {}],
                 seen |-> {}, first |-> {}, second |-> 0]
           ELSE IF lu # 0 /\ commutes
           THEN [s |-> s, seen |-> m.before_unordered, first |-> {}, second |-> 0]
           ELSE observe_memory(s, t, a, TRUE)
      done == [o.s EXCEPT !.mem[a].last_update = s.prefix_idx,
                          !.mem[a].unordered_updates[t] = IF unordered THEN s.prefix_idx ELSE @]
  IN see_event_pairs(see_events(wakeup(done, "W", a), readers \cup o.seen), o.first, o.second)

do_atomic_store(s, t, e) ==
  LET lu == s.mem[e.addr].last_update IN
  Update(s, t, e.addr, lu # 0 /\ s.prefix[lu].sym.kind = "UNOBS_STORE", Observers)

atomic_rmw(s, t, e) ==
  LET lu == s.mem[e.addr].last_update IN
  Update(s, t, e.addr, lu # 0 /\ rmwaction_commutes(s.prefix[lu].sym, e), TRUE)

M_do_load(s, t, a) == [s EXCEPT !.mem[a].last_read[t] = s.prefix_idx]
do_load(s, t, a) ==
  LET o == observe_memory(s, t, a, FALSE)
      done == [o.s EXCEPT !.mem[a].last_read[t] = s.prefix_idx]
  IN see_event_pairs(see_events(wakeup(done, "R", a), o.seen), o.first, o.second)

compare_exchange(s, t, e) ==
  IF e.kind = "CMPXHG" THEN do_atomic_store(do_load(s, t, e.addr), t, e)
  ELSE do_load(s, t, e.addr)

(* An await does not race with what it waited for: do_await() looks for    *)
(* the writes it could have come before.                                   *)
load_await(s, t, a) ==
  LET o == observe_memory(s, t, a, FALSE)
      done == [o.s EXCEPT !.mem[a].last_read[t] = s.prefix_idx,
                          !.blocked_awaits[t] = NoSym,
                          !.prefix[s.prefix_idx].happens_after_later = o.seen]
  IN see_event_pairs(wakeup(done, "R", a), o.first, o.second)

mutex_lock(s, t, a) ==
  LET m == s.mutexes[a]
      woken == wakeup(s, "W", a)
      seen == IF m.last_lock = 0 THEN see_events(woken, {m.last_access})
              ELSE [woken EXCEPT !.prefix[s.prefix_idx].races =
                      Append(@, Race("LOCK_SUC", m.last_lock, s.prefix_idx, m.last_access))]
  IN [seen EXCEPT !.mutexes[a] = [last_access |-> s.prefix_idx, last_lock |-> s.prefix_idx]]

mutex_unlock(s, t, a) ==
  [see_events(wakeup(s, "W", a), {s.mutexes[a].last_access})
     EXCEPT !.mutexes[a].last_access = s.prefix_idx]

register_alternatives(s, count) ==
  IF cur(s).branch.alt # 0 THEN s
  ELSE [s EXCEPT !.prefix[s.prefix_idx].races =
          @ \o [k \in 1..(count - 1) |-> Race("NONDET", s.prefix_idx, 0, k)]]

spawn(s, u) == [s EXCEPT !.spawn_event[u] = s.prefix_idx]

join(s, u) == [s EXCEPT !.prefix[s.prefix_idx].happens_after = @ \cup {Last(s.event_indices[u])}]

(* record_symbolic(): a replayed event must do what it was predicted to.   *)
record_symbolic(s, e) ==
  IF e = NoSym THEN s
  ELSE IF s.replay /\ ~is_compatible_with(cur(s).sym, e) THEN [s EXCEPT !.errors = TRUE]
  ELSE [s EXCEPT !.prefix[s.prefix_idx].sym = e, !.prefix[s.prefix_idx].may_conflict = TRUE]

(* The callback for what t's event does.                                   *)
Callback(s, t, e) ==
  CASE e.kind = "NONE" -> s
    [] e.kind = "NONDET" -> register_alternatives(s, e.num)
    [] e.kind = "SPAWN" -> spawn(s, e.num)
    [] e.kind = "JOIN" -> join(s, e.num)
    [] e.kind = "LOAD" -> do_load(s, t, e.addr)
    [] e.kind = "LOAD_AWAIT" -> load_await(s, t, e.addr)
    [] e.kind \in {"STORE", "UNOBS_STORE"} -> do_atomic_store(s, t, e)
    [] e.kind = "RMW" -> atomic_rmw(s, t, e)
    [] e.kind \in {"CMPXHG", "CMPXHGFAIL"} -> compare_exchange(s, t, e)
    [] e.kind = "M_LOCK" -> mutex_lock(s, t, e.addr)
    [] e.kind = "M_UNLOCK" -> mutex_unlock(s, t, e.addr)

-----------------------------------------------------------------------------
(* Values a location would have if an event came earlier.  Memory that     *)
(* nobody has written is taken to be 0.                                    *)

WritesTo(e, a) == symev_does_store(e) /\ e.addr = a

(* rev_recompute_data(): the value left by the last write of syms to a.    *)
rev_recompute_data(syms, a) ==
  LET W == {k \in DOMAIN syms : WritesTo(syms[k], a)}
  IN IF W = {} THEN 0 ELSE syms[Max(W)].written

(* recompute_scan_rev() and recompute_replay_fwd(): additions are redone.  *)
recompute_replay(syms, a) ==
  LET apply(v, e) == IF ~WritesTo(e, a) THEN v
                     ELSE IF e.kind = "RMW" THEN v + e.operand ELSE e.written
  IN FoldLeft(apply, 0, syms)

SymsBefore(s, i) == [k \in 1..(i - 1) |-> s.prefix[k].sym]

awaitcond_satisfied_before(s, i, e) ==
  rev_recompute_data(SymsBefore(s, i), e.addr) = e.operand

awaitcond_satisfied_by(s, i, include, e) ==
  LET js == SetToSortSeq(include, <)
  IN recompute_replay(SymsBefore(s, i) \o [k \in DOMAIN js |-> s.prefix[js[k]].sym], e.addr)
       = e.operand

M_recompute_cmpxhg_success(s, e, v, i) == e
recompute_cmpxhg_success(s, e, v, i) ==
  IF e.kind \notin {"CMPXHG", "CMPXHGFAIL"} THEN e
  ELSE IF rev_recompute_data(SymsBefore(s, i) \o [k \in DOMAIN v |-> v[k].sym], e.addr) = e.operand
  THEN CmpXhg(e.addr, e.operand, e.written)
  ELSE CmpXhgFail(e.addr, e.operand, e.written)

-----------------------------------------------------------------------------
(* compute_vclocks(): which events happen before which, and which races    *)
(* are not subsumed by others.                                             *)

leq(c, d) == \A t \in Threads : c[t] <= d[t]
plus(c, d) == [t \in Threads |-> Max({c[t], d[t]})]
includes(c, ev) == ev.index <= c[ev.pid]
NoClock == [t \in Threads |-> 0]

shadows_all_of(e) == e.kind = "STORE"

(* The ways to leave out later writes, which i does not precede, so that   *)
(* the await is satisfied without i: see try_subsequences().               *)
exclusions(s, clock, i, later, e, above) ==
  LET N == {k \in later : ~includes(clock[k], s.prefix[i])}
      Allowed(X) ==
        /\ \A x \in X : ~includes(above, s.prefix[x])
        /\ \A x \in X, k \in N \ X : ~includes(clock[k], s.prefix[x])
        /\ awaitcond_satisfied_by(s, i, N \ X, e)
      ExcludedFirst(X, Y) == X # Y /\ Min(SymDiff(X, Y)) \in X
  IN SetToSortSeq({X \in SUBSET N : Allowed(X)}, ExcludedFirst)

RECURSIVE do_await_from(_, _, _, _, _, _, _, _, _)
do_await_from(s, clock, i, later, can_stop, j, ev, e, above) ==
  IF i = 0 THEN << >>
  ELSE IF ~WritesTo(s.prefix[i].sym, e.addr)
  THEN do_await_from(s, clock, i - 1, later, can_stop, j, ev, e, above)
  ELSE LET stop == can_stop \/ shadows_all_of(s.prefix[i].sym)
           Sequence(X) == [Race("SEQUENCE", i, j, 0) EXCEPT
                             !.pid = ev.pid, !.index = ev.index, !.sym = e, !.exclude = X]
           Xs == IF includes(above, s.prefix[i]) THEN << >>
                 ELSE IF commute_rmws THEN exclusions(s, clock, i, later, e, above)
                 ELSE IF awaitcond_satisfied_before(s, i, e) THEN <<{}>> ELSE << >>
           found == [k \in DOMAIN Xs |-> Sequence(Xs[k])]
       IN IF stop /\ Xs # << >> THEN found
          ELSE found \o do_await_from(s, clock, i - 1, later \cup {i}, stop, j, ev, e, above)

do_await(s, clock, j, ev, e, above) ==
  do_await_from(s, clock, j - 1, {}, FALSE, j, ev, e, above)

(* Does race r subsume race f?                                             *)
subsumes(s, clock, r, f) ==
  CASE r.kind = "LOCK_FAIL" -> FALSE
    [] r.kind = "SEQUENCE" ->
         /\ includes(clock[r.first], s.prefix[f.first])
         /\ \A x \in r.exclude : x \in f.exclude \/ includes(clock[x], s.prefix[f.first])
    [] r.kind = "OBSERVED" /\ f.kind = "OBSERVED" /\ r.first = f.first /\ r.second = f.second ->
         r.arg <= f.arg
    [] OTHER -> includes(clock[IF r.kind = "LOCK_SUC" THEN r.arg ELSE r.first], s.prefix[f.first])

frontier_filter(s, clock, races) ==
  LET add(fill, f) == IF \E k \in DOMAIN fill : subsumes(s, clock, fill[k], f) THEN fill
                      ELSE Append(SelectSeq(fill, LAMBDA r : ~subsumes(s, clock, f, r)), f)
  IN FoldLeft(add, << >>, races)

(* Races whose first event happens before anyway are dropped; a lock that  *)
(* must come later also comes after the unlock.                            *)
RECURSIVE reversible(_, _, _)
reversible(clock, c, races) ==
  LET forced == SelectSeq(races, LAMBDA r : leq(clock[r.first], c) /\ r.kind = "LOCK_SUC")
      kept == SelectSeq(races, LAMBDA r : ~leq(clock[r.first], c))
      after == FoldLeft(LAMBDA d, r : plus(d, clock[r.arg]), c, forced)
  IN IF forced = << >> THEN [c |-> c, races |-> kept] ELSE reversible(clock, after, kept)

(* The clock of event i and the races it is the second event of.           *)
EventClock(s, clock, i) ==
  LET ev == s.prefix[i]
      own == [IF ev.index > 1 THEN clock[s.event_indices[ev.pid][ev.index - 1]] ELSE NoClock
                EXCEPT ![ev.pid] = ev.index]
      spawned == IF ev.index = 1 /\ s.spawn_event[ev.pid] # 0 THEN {s.spawn_event[ev.pid]} ELSE {}
      ordered == FoldSet(LAMBDA j, d : plus(d, clock[j]), own, ev.happens_after \cup spawned)
      failed == SelectSeq(s.lock_fail_races, LAMBDA r : r.second = i)
      awaits == IF ev.sym.kind = "LOAD_AWAIT" THEN do_await(s, clock, i, ev, ev.sym, ordered)
                ELSE << >>
      all == ev.races \o failed \o awaits
      r == reversible(clock, ordered, SelectSeq(all, LAMBDA x : x.kind # "NONDET"))
      pairs == frontier_filter(s, clock, r.races)
      seen(d, x) == CASE x.kind = "LOCK_SUC" -> plus(d, clock[x.arg])
                      [] x.kind = "LOCK_FAIL" -> d
                      [] OTHER -> plus(d, clock[x.first])
  IN [clock |-> FoldSet(LAMBDA b, d : plus(d, clock[b]), FoldLeft(seen, r.c, pairs),
                        ev.happens_after_later \ {0}),
      races |-> SelectSeq(all, LAMBDA x : x.kind = "NONDET") \o pairs]

RECURSIVE clocks_from(_, _, _)
clocks_from(s, clock, races) ==
  IF Len(clock) = Len(s.prefix) THEN [clock |-> clock, races |-> races]
  ELSE LET c == EventClock(s, clock, Len(clock) + 1)
       IN clocks_from(s, Append(clock, c.clock), Append(races, c.races))

compute_vclocks(s) == clocks_from(s, << >>, << >>)

-----------------------------------------------------------------------------
(* Sleep sets as race detection sees them (struct obs_sleep): with         *)
(* observers, a sleeping store may run again after another store to the    *)
(* same location if some read sees the difference.                         *)

obs_sleep_add(sl, ev) ==
  [sl EXCEPT !.sleep = @ \cup {[pid |-> p, sym |-> ev.sleep_evs[p], not_if_read |-> {}] :
                               p \in ev.sleep}]

(* obs_sleep_wake(): the sleep set after p does e, or "BLOCK".             *)
obs_sleep_wake(sl, p, e) ==
  LET unread == IF Observers /\ symev_does_load(e) THEN sl.must_read \ {e.addr} ELSE sl.must_read
      shadow == Observers /\ symev_is_store(e)
      marked == {IF shadow /\ symev_is_store(x.sym) /\ x.sym.addr = e.addr
                 THEN [x EXCEPT !.not_if_read = {e.addr}] ELSE x : x \in sl.sleep}
      own == {x \in marked : x.pid = p}
      blocked == (shadow /\ e.addr \in unread) \/ \E x \in own : x.not_if_read = {}
      left == {x \in marked \ own : ~do_events_conflict(p, e, x.pid, x.sym)}
      must_read == unread \cup UNION {x.not_if_read : x \in own}
  IN [sleep |-> left, must_read |-> must_read,
      res |-> IF blocked THEN "BLOCK"
              ELSE IF left = {} /\ must_read = {} THEN "CLEAR" ELSE "CONTINUE"]

NoSleepers == [sleep |-> {}, must_read |-> {}, res |-> "CONTINUE"]

M_sequence_clears_sleep(v, sl) == TRUE
sequence_clears_sleep(v, sl) ==
  LET step(acc, b) == IF acc.res # "CONTINUE" THEN acc ELSE obs_sleep_wake(acc, b.pid, b.sym)
  IN FoldLeft(step, [sl EXCEPT !.res = "CONTINUE"], v).res = "CLEAR"

-----------------------------------------------------------------------------
(* Wakeup trees: a tree is a branch with the sequence of its subtrees.     *)

RECURSIVE Chain(_)
Chain(v) == IF v = << >> THEN << >>
            ELSE LET b == Head(v) IN
                 <<[branch |-> IF Observers THEN [b EXCEPT !.sym = clear_observed(@)] ELSE b,
                    sub |-> Chain(Tail(v))]>>

(* v without the events of branch b, which its k-th branch begins.         *)
RECURSIVE DropMissing(_, _, _)
DropMissing(v, p, missing) ==
  IF v = << >> \/ missing = 0 THEN v
  ELSE IF Head(v).pid # p THEN <<Head(v)>> \o DropMissing(Tail(v), p, missing)
  ELSE IF Head(v).size > missing THEN <<[Head(v) EXCEPT !.size = missing]>> \o Tail(v)
  ELSE DropMissing(Tail(v), p, missing - Head(v).size)

Drop(v, k, b) ==
  CASE v[k].size < b.size ->
         SubSeq(v, 1, k - 1) \o DropMissing(SubSeq(v, k + 1, Len(v)), v[k].pid, b.size - v[k].size)
    [] v[k].size > b.size ->
         [v EXCEPT ![k] = Branch(@.pid, 0, @.size - b.size, NoSym)]
    [] OTHER -> RemoveAt(v, k)

(* Whether v can start with branch b: "NEXT" if not, "RETURN" if what v    *)
(* would explore is already scheduled, or the rest of v to look for.       *)
compatible(b, v) ==
  LET conflict(x, y) == do_events_conflict(x.pid, x.sym, y.pid, y.sym)
      K == {k \in DOMAIN v : SameBranch(b, v[k]) \/ conflict(v[k], b)}
      k == Min(K)
      observer_effect == ~SameSym(b.sym, v[k].sym) /\ \E m \in 1..(k - 1) : conflict(v[k], v[m])
  IN CASE K = {} -> [do |-> "RETURN", v |-> v]
       [] K # {} /\ ~SameBranch(b, v[k]) -> [do |-> "NEXT", v |-> v]
       [] K # {} /\ SameBranch(b, v[k]) ->
            IF observer_effect THEN [do |-> "NEXT", v |-> v]
            ELSE IF Len(v) = 1 THEN [do |-> "RETURN", v |-> v]
            ELSE [do |-> "RECURSE", v |-> Drop(v, k, b)]

(* Inserts v among the children of a node that is not a leaf.              *)
RECURSIVE insert(_, _)
insert(children, v) ==
  IF children = << >> THEN Chain(v)
  ELSE LET c == Head(children)
           m == compatible(c.branch, v)
       IN CASE m.do = "NEXT" -> <<c>> \o insert(Tail(children), v)
            [] m.do = "RETURN" -> children
            [] m.do = "RECURSE" ->
                 IF c.sub = << >> THEN children
                 ELSE <<[c EXCEPT !.sub = insert(@, m.v)]>> \o Tail(children)

(* Inserts v at the node before prefix[i], whose first child is the        *)
(* branch that was just explored.                                          *)
RECURSIVE insert_at(_, _, _)
insert_at(s, i, v) ==
  IF i > Len(s.prefix) THEN s
  ELSE LET m == compatible(s.prefix[i].branch, v) IN
       CASE m.do = "NEXT" -> [s EXCEPT !.prefix[i].rest = insert(@, v)]
         [] m.do = "RETURN" -> s
         [] m.do = "RECURSE" -> insert_at(s, i + 1, m.v)

-----------------------------------------------------------------------------
(* Race detection.                                                         *)

branch_with_symbolic_data(s, k) == [s.prefix[k].branch EXCEPT !.sym = s.prefix[k].sym]

(* recompute_observed(): a store of v is observed if a later read of v     *)
(* reads it.                                                               *)
recompute_observed(v) ==
  LET reads(e) == e.kind \in {"LOAD", "RMW", "CMPXHG", "CMPXHGFAIL"}
      observed(k) == \E l \in (k + 1)..Len(v) :
        /\ reads(v[l].sym) /\ v[l].sym.addr = v[k].sym.addr
        /\ \A m \in (k + 1)..(l - 1) : ~(symev_is_store(v[m].sym) /\ v[m].sym.addr = v[k].sym.addr)
  IN [k \in DOMAIN v |->
        IF symev_is_store(v[k].sym)
        THEN [v[k] EXCEPT !.sym.kind = IF observed(k) THEN "STORE" ELSE "UNOBS_STORE"]
        ELSE v[k]]

(* The events after the first one of the race that do not depend on it,    *)
(* then the second one; for an observed race also what makes it visible.   *)
wakeup_sequence(s, clock, r) ==
  LET i == r.first
      second == CASE is_fail_kind(r) -> Branch(r.pid, 0, 1,
                       IF r.kind = "LOCK_FAIL" THEN s.prefix[i].sym ELSE r.sym)
                  [] r.kind = "NONDET" ->
                       [branch_with_symbolic_data(s, i) EXCEPT !.alt = r.arg, !.size = 1]
                  [] r.kind = "OBSERVED" -> branch_with_symbolic_data(s, r.second)
                  [] OTHER -> [branch_with_symbolic_data(s, r.second) EXCEPT !.size = 1]
      kept(k) == \A x \in r.exclude : k # x /\ ~includes(clock[k], s.prefix[x])
      later == SelectSeq([n \in 1..(Len(s.prefix) - i) |-> i + n], kept)
      notdep == SelectSeq(later, LAMBDA k : ~leq(clock[i], clock[k]))
      branches(ks) == [n \in DOMAIN ks |-> branch_with_symbolic_data(s, ks[n])]
      v == branches(notdep)
      sees(k) == is_observed_conflict(s.prefix[i].pid, s.prefix[i].sym,
                                      second.pid, second.sym, s.prefix[k].sym)
      dep == SelectSeq(later, LAMBDA k : leq(clock[i], clock[k]) /\ k # r.second)
      scan(acc, k) == IF \E o \in acc.obs : leq(clock[o], clock[k]) THEN acc
                      ELSE IF sees(k) THEN [acc EXCEPT !.obs = @ \cup {k}]
                      ELSE [acc EXCEPT !.notobs = Append(@, k)]
      notobs == FoldLeft(scan, [obs |-> {}, notobs |-> << >>], dep).notobs
      predicted == IF r.kind # "NONBLOCK" THEN second
                   ELSE [second EXCEPT !.sym = recompute_cmpxhg_success(s, @, v, i)]
      w == IF r.kind # "OBSERVED" THEN Append(v, predicted)
           ELSE Append(v, second) \o <<branch_with_symbolic_data(s, i)>> \o branches(notobs)
                  \o <<[branch_with_symbolic_data(s, r.arg) EXCEPT !.size = 1]>>
  IN IF Observers THEN recompute_observed(w) ELSE w

race_detect_optimal(s, clock, r, sl) ==
  LET v == wakeup_sequence(s, clock, r) IN
  IF sequence_clears_sleep(v, sl) THEN insert_at(s, r.first, v) ELSE s

put_child(s, i, b) ==
  [s EXCEPT !.prefix[i].rest = Append(@, [branch |-> b, sub |-> << >>])]
has_child(s, i, b) ==
  \/ SameBranch(s.prefix[i].branch, b)
  \/ \E k \in DOMAIN s.prefix[i].rest : SameBranch(s.prefix[i].rest[k].branch, b)

(* reconstruct_blocked_clock()                                             *)
reconstruct_blocked_clock(s, clock, p, index) ==
  [IF index = 1 THEN NoClock ELSE clock[s.event_indices[p][index - 1]] EXCEPT ![p] = @ + 1]

(* race_detect() for Source-DPOR: of the events after the first one, and   *)
(* not after it, those that no other comes before are candidates; unless   *)
(* one of them is scheduled or asleep, the last one is scheduled.          *)
race_detect_source(s, clock, r, sl) ==
  LET i == r.first
      j == r.second
      blocked == is_fail_kind(r)
      iid(k) == IF k = j /\ blocked THEN [pid |-> r.pid, index |-> r.index] ELSE s.prefix[k]
      clk(k) == IF k = j /\ blocked THEN reconstruct_blocked_clock(s, clock, r.pid, r.index)
                ELSE clock[k]
      br(k) == IF k = j /\ blocked THEN Branch(r.pid, 0, 1, s.prefix[i].sym)
               ELSE Branch(s.prefix[k].pid, 0, IF k = j THEN 1 ELSE s.prefix[k].branch.size,
                           s.prefix[k].sym)
      covered(cands, k) == \E c \in cands : iid(c).pid = iid(k).pid
                             \/ iid(c).index <= clk(k)[iid(c).pid]
      scan(acc, k) ==
        IF acc.done \/ covered(acc.cands, k) \/ (k # j /\ leq(clock[i], clk(k))) THEN acc
        ELSE [done |-> has_child(s, i, br(k)) \/ \E x \in sl.sleep : x.pid = iid(k).pid,
              cands |-> acc.cands \cup {k}, last |-> br(k)]
      found == FoldLeft(scan, [done |-> FALSE, cands |-> {}, last |-> br(j)],
                        [n \in 1..(j - i) |-> i + n])
      cand == IF r.kind # "NONBLOCK" THEN found.last
              ELSE [found.last EXCEPT !.sym = recompute_cmpxhg_success(s, @, << >>, i)]
  IN IF r.kind = "NONDET"
     THEN put_child(s, i, [s.prefix[i].branch EXCEPT !.alt = r.arg, !.size = 1])
     ELSE IF found.done THEN s ELSE put_child(s, i, cand)

race_detect(s, clock, r, sl) ==
  IF dpor_algorithm = "SOURCE" THEN race_detect_source(s, clock, r, sl)
  ELSE race_detect_optimal(s, clock, r, sl)

(* The races of the awaits that are still blocked.                         *)
blocked_races(s, clock) ==
  LET ts == SetToSortSeq({t \in Threads : s.blocked_awaits[t] # NoSym}, <)
      races(t) == LET index == Len(s.event_indices[t]) + 1 IN
                  do_await(s, clock, Len(s.prefix) + 1, [pid |-> t, index |-> index],
                           s.blocked_awaits[t], reconstruct_blocked_clock(s, clock, t, index))
  IN FlattenSeq([k \in DOMAIN ts |-> races(ts[k])])

(* The races whose first event is prefix[i], and the sleep set after it.   *)
detect_at(acc, clock, i, sl, races) ==
  LET ev == acc.s.prefix[i]
      e == IF Observers THEN clear_observed(ev.sym) ELSE ev.sym
  IN [s |-> FoldLeft(LAMBDA x, r : race_detect(x, clock, r, sl), acc.s, races),
      sl |-> obs_sleep_wake(sl, ev.pid, e)]

(* Each race at its first event, with the threads that sleep there.        *)
detect(s, clock, races) ==
  LET at(acc, i) == detect_at(acc, clock, i, obs_sleep_add(acc.sl, s.prefix[i]),
                              SelectSeq(races, LAMBDA r : r.first = i))
  IN FoldLeft(at, [s |-> s, sl |-> NoSleepers], [i \in DOMAIN s.prefix |-> i]).s

(* do_race_detect(), for the clocks and races c that were computed.        *)
do_race_detect(s, c) ==
  detect(s, c.clock, SelectSeq(s.lock_fail_races, LAMBDA r : r.second > Len(s.prefix))
                       \o blocked_races(s, c.clock) \o FlattenSeq(c.races))

-----------------------------------------------------------------------------
(* schedule(), and the instruction that Interpreter::run() then executes.  *)

(* The current event has not been executed in full.                        *)
Unfinished(s) ==
  /\ s.prefix_idx > 0
  /\ Len(s.event_indices[cur(s).pid]) < cur(s).index + cur(s).branch.size - 1

AtEnd(s) == s.prefix_idx = Len(s.prefix)

Replaying(s) == s.replay /\ ~(~Unfinished(s) /\ AtEnd(s) /\ s.unexplored = << >>)

(* The thread executes its next instruction as (part of) event prefix_idx. *)
Run(s, t) ==
  LET e == visit(ee, t)
      r == record_symbolic([s EXCEPT !.event_indices[t] = Append(@, s.prefix_idx)], e)
      ended == IF Code(ee, t).op = "ret" THEN {t} ELSE {}
  IN IF r.errors
     THEN /\ tb' = [r EXCEPT !.replay = FALSE, !.available = {}]
          /\ UNCHANGED ee
     ELSE /\ tb' = [Callback(r, t, e) EXCEPT !.available = (@ \cup Woken(ee, t)) \ ended]
          /\ ee' = Execute(ee, t)

ContinueEvent ==
  /\ Replaying(tb) /\ Unfinished(tb)
  /\ Run(tb, cur(tb).pid)
  /\ UNCHANGED <<prog, dpor_algorithm, traces, finished>>

Sleepers(ev) == SetToSortSeq(ev.sleep, <)

(* Before the next event of the prefix, the threads that go to sleep there *)
(* are dry run to find out what they would do.                             *)
DryRun ==
  /\ Replaying(tb) /\ ~Unfinished(tb) /\ ~AtEnd(tb)
  /\ tb.dry_sleepers < Cardinality(tb.prefix[tb.prefix_idx + 1].sleep)
  /\ LET p == Sleepers(tb.prefix[tb.prefix_idx + 1])[tb.dry_sleepers + 1] IN
     tb' = [tb EXCEPT !.dry_sleepers = @ + 1,
                      !.sleeping[p] = [sym |-> visit(ee, p), asleep |-> TRUE],
                      !.prefix[tb.prefix_idx + 1].sleep_evs[p] = visit(ee, p)]
  /\ UNCHANGED <<prog, dpor_algorithm, ee, traces, finished>>

NextInPrefix ==
  /\ Replaying(tb) /\ ~Unfinished(tb) /\ ~AtEnd(tb)
  /\ tb.dry_sleepers >= Cardinality(tb.prefix[tb.prefix_idx + 1].sleep)
  /\ ~checkRefuse(ee, tb.prefix[tb.prefix_idx + 1].pid)
  /\ Run([tb EXCEPT !.dry_sleepers = 0, !.prefix_idx = @ + 1,
                     !.prefix[tb.prefix_idx + 1].happens_after = {}],
         tb.prefix[tb.prefix_idx + 1].pid)
  /\ UNCHANGED <<prog, dpor_algorithm, traces, finished>>

(* enter_first_child()                                                     *)
NextInTree ==
  LET b == Head(tb.unexplored).branch IN
  /\ Replaying(tb) /\ ~Unfinished(tb) /\ AtEnd(tb)
  /\ ~checkRefuse(ee, b.pid)
  /\ Run([tb EXCEPT !.dry_sleepers = 0, !.prefix_idx = @ + 1,
                     !.prefix = Append(@, Event(b.pid, Len(tb.event_indices[b.pid]) + 1, b,
                                                Tail(tb.unexplored), {})),
                     !.unexplored = Head(tb.unexplored).sub],
         b.pid)
  /\ UNCHANGED <<prog, dpor_algorithm, traces, finished>>

(* Merges the last event into the one before it if it is invisible; else   *)
(* copies what the last event did to its branch.                           *)
Merged(s) ==
  LET n == Len(s.prefix)
      last == s.prefix[n]
      sym == IF Observers THEN clear_observed(last.sym) ELSE last.sym
  IN IF n > 1 /\ last.pid = s.prefix[n - 1].pid /\ ~last.may_conflict
          /\ last.sleep = {} /\ last.rest = << >>
     THEN [s EXCEPT !.prefix = [Front(s.prefix) EXCEPT ![n - 1].branch.size = @ + last.branch.size],
                    !.prefix_idx = n - 1,
                    !.event_indices[last.pid] = Append(Front(@), n - 1)]
     ELSE IF n > 0 /\ last.branch.sym = NoSym
     THEN [s EXCEPT !.prefix[n].branch.sym = sym]
     ELSE s

Scheduled == Merged([tb EXCEPT !.replay = FALSE])

Schedulable == {t \in tb.available : ~tb.sleeping[t].asleep}

NewEvent ==
  LET s == Scheduled
      p == Min(Schedulable)
  IN /\ ~finished /\ ~tb.errors /\ ~Replaying(tb) /\ Schedulable # {}
     /\ ~checkRefuse(ee, p)
     /\ Run([s EXCEPT !.prefix_idx = @ + 1,
                       !.prefix = Append(@, Event(p, Len(s.event_indices[p]) + 1,
                                                  Branch(p, 0, 1, NoSym), << >>, {}))],
            p)
     /\ UNCHANGED <<prog, dpor_algorithm, traces, finished>>

(* The lock is taken: the thread that holds it could have been later.      *)
mutex_lock_fail(s, p, a) ==
  LET r == [Race("LOCK_FAIL", s.mutexes[a].last_lock, Len(s.prefix) + 1, 0)
              EXCEPT !.pid = p, !.index = Len(s.event_indices[p]) + 1]
  IN [s EXCEPT !.lock_fail_races = Append(@, r)]

load_await_fail(s, p, e) == [s EXCEPT !.blocked_awaits[p] = e]

(* refuse_schedule() takes the new event back.                             *)
refuse_schedule(s, p) == [s EXCEPT !.available = @ \ {p}]

(* The thread that schedule() picks cannot run.                            *)
Refuse ==
  LET s == Scheduled
      p == Min(Schedulable)
      i == Code(ee, p)
      failed == CASE i.op = "lock" -> mutex_lock_fail(s, p, i.addr)
                  [] i.op = "await" -> load_await_fail(s, p, LoadAwait(i.addr, i.exp))
                  [] i.op = "join" -> s
  IN /\ ~finished /\ ~tb.errors /\ ~Replaying(tb) /\ Schedulable # {}
     /\ checkRefuse(ee, p)
     /\ tb' = refuse_schedule(failed, p)
     /\ ee' = Refused(ee, p)
     /\ UNCHANGED <<prog, dpor_algorithm, traces, finished>>

(* The execution ends: its class, and the next execution.                  *)
ClassOf(s) ==
  Class(FoldLeft(LAMBDA c, ev : Extend(c, Visible(ev.pid, ev.index, ev.branch.alt, ev.sym)),
                 NoEvents, s.prefix))

(* reset(): the execution is analysed, and becomes d,                      *)
Analysed(s) == do_race_detect(s, compute_vclocks(s))

(* of whose events some have siblings left to explore;                     *)
Branching(d) == {i \in DOMAIN d.prefix : d.prefix[i].rest # << >>}

(* the next sibling takes the place of event i, which goes to sleep.       *)
reset(d, i) ==
  LET prev == d.prefix[i]
      next == Head(prev.rest)
      p == next.branch.pid
      J == {j \in 1..(i - 1) : d.prefix[j].pid = p}
      index == IF J = {} THEN 1 ELSE d.prefix[Max(J)].index + d.prefix[Max(J)].branch.size
      ev == Event(p, index, next.branch, Tail(prev.rest), prev.sleep \cup ({prev.pid} \ {p}))
      kept == [j \in 1..(i - 1) |-> [d.prefix[j] EXCEPT !.races = << >>, !.happens_after_later = {}]]
  IN Fresh(Append(kept, ev), next.sub, TRUE)

(* run() goes on as long as reset() finds something to explore.            *)
Continue(s, d) ==
  IF Branching(d) = {} THEN finished' = TRUE /\ tb' = s /\ UNCHANGED ee
  ELSE finished' = FALSE /\ tb' = reset(d, Max(Branching(d))) /\ ee' = NewEngine(prog)

(* The first error ends the exploration: see handle_trace().               *)
EndExecution ==
  LET s == Scheduled
      blocked == \E t \in Threads : tb.sleeping[t].asleep
  IN /\ ~finished
     /\ ~tb.errors => ~Replaying(tb) /\ Schedulable = {}
     /\ IF tb.errors THEN finished' = TRUE /\ UNCHANGED <<ee, tb, traces>>
        ELSE /\ traces' = Append(traces, [class |-> ClassOf(s), blocked |-> blocked])
             /\ Continue(s, Analysed(s))
     /\ UNCHANGED <<prog, dpor_algorithm>>

(* DPORDriver::run() returns.                                              *)
Return == finished /\ UNCHANGED vars

Next ==
  \/ ContinueEvent \/ DryRun \/ NextInPrefix \/ NextInTree
  \/ NewEvent \/ Refuse \/ EndExecution \/ Return

Spec == Init /\ [][Next]_vars

-----------------------------------------------------------------------------
RECURSIVE EndsOf(_)
EndsOf(N) ==
  IF N = {} THEN {}
  ELSE {n.c : n \in {m \in N : Enabled(m.e) = {}}} \cup EndsOf(UNION {Successors(n) : n \in N})

(* The classes of all maximal executions of prog.                          *)
AllClasses == {Class(c) : c \in EndsOf({[e |-> NewEngine(prog), c |-> NoEvents]})}

(* Complete: when the exploration of a program ends, the executions that   *)
(* ran to their end are, up to reordering of independent events (with      *)
(* observers: of stores that nobody reads), all executions it has.         *)
Complete ==
  finished /\ ~tb.errors =>
    {traces[k].class : k \in {k \in DOMAIN traces : ~traces[k].blocked}} = AllClasses

(* NoTraceTwice: with wakeup trees no two executions are equivalent.       *)
NoTraceTwice ==
  dpor_algorithm # "SOURCE" =>
    \A k, l \in DOMAIN traces : traces[k].class = traces[l].class => k = l

(* ReplayFollows: the next event that is replayed is one of an available,  *)
(* waking thread that can execute, and does what was predicted: a program  *)
(* without nondeterminism is never reported as nondeterministic.  With     *)
(* wakeup trees every sleeping thread has been woken when the replay is    *)
(* over (the assertion in schedule()): no exploration is sleep set         *)
(* blocked.                                                                *)
ReplayFollows ==
  /\ ~tb.errors
  /\ dpor_algorithm # "SOURCE" /\ ~Replaying(tb) =>
       \A t \in Threads : ~tb.sleeping[t].asleep
  /\ Replaying(tb) =>
       LET p == CASE Unfinished(tb) -> cur(tb).pid
                  [] ~Unfinished(tb) /\ ~AtEnd(tb) -> tb.prefix[tb.prefix_idx + 1].pid
                  [] OTHER -> Head(tb.unexplored).branch.pid
       IN p \in tb.available /\ ~tb.sleeping[p].asleep /\ ~checkRefuse(ee, p)
=============================================================================
