-------------------------- MODULE RFSCTraceBuilder --------------------------
(***************************************************************************)
(* RFSCTraceBuilder: exploration of one execution per reads-from class     *)
(* under sequential consistency.  Every worker takes a leaf from the work  *)
(* queue, replays its prefix, runs the program to its end, and then, in    *)
(* compute_prefixes(), looks for other stores that each of its reads could *)
(* have read from.  A change that SaturatedGraph, PrefixHeuristic or the   *)
(* SAT solver finds an order for becomes a new leaf of the decision tree.  *)
(*                                                                         *)
(* Positions in prefix count from 1, and 0 stands for the -1 of the code:  *)
(* reading from 0 is reading the initial value.                            *)
(***************************************************************************)
EXTENDS SCProgram, SaturatedGraph

CONSTANTS
  Workers,      \* the threads of the exploration
  no_heuristic  \* the values of --no-heuristic considered

VARIABLES
  tb,          \* each worker's TraceBuilder
  nodes,       \* the decision tree
  work_queue,  \* the leaves to explore: nodes
  heuristic,   \* is the prefix heuristic in use?
  explored     \* the reads-from classes of the executions so far

shared == <<nodes, work_queue, explored>>
vars == <<prog, dpor_algorithm, heuristic, ee, tb, shared>>

NoRead == -1    \* Option<int> read_from without a value
NoNode == 0
Root == 1

(* A node of the decision tree: children_unf_set and graph_cache are held  *)
(* for the node's children.                                                *)
DecisionNode(depth, parent, leaf) ==
  [depth |-> depth, parent |-> parent, leaf |-> leaf, children_unf_set |-> {},
   cache_initialised |-> depth = -1, graph_cache |-> EmptyGraph(Threads)]

Branch(p, size, depth, pinned, sym) ==
  [pid |-> p, size |-> size, decision_depth |-> depth, pinned |-> pinned, sym |-> sym]

NoClock == [t \in Threads |-> 0]
NoUnf == << >>   \* the null unfolding node

Event(p, index) ==
  [pid |-> p, index |-> index, size |-> 1, pinned |-> FALSE, decision_depth |-> -1,
   decision_ptr |-> NoNode, read_from |-> NoRead, happens_after |-> << >>,
   may_conflict |-> FALSE, sym |-> NoSym, event |-> NoUnf, clock |-> NoClock,
   above_clock |-> NoClock]

iid(e) == <<e.pid, e.index>>

(* What reset() gives its initial value before every execution.            *)
Fresh(at, prefix, item) ==
  [at |-> at, prefix |-> prefix, prefix_idx |-> 0, replay |-> TRUE,
   replay_point |-> Len(prefix), available |-> {0},
   spawn_event |-> [t \in Threads |-> 0], event_indices |-> [t \in Threads |-> << >>],
   mem |-> [a \in Addrs |-> 0],
   mutexes |-> [a \in Addrs |-> [last_access |-> 0, locked |-> FALSE]],
   mutex_deadlocks |-> [a \in Addrs |-> << >>],
   work_item |-> item, below_clocks |-> << >>, tries |-> << >>, errors |-> FALSE]

Init ==
  /\ prog \in Programs
  /\ dpor_algorithm = "READS_FROM"
  /\ heuristic \in {~b : b \in no_heuristic}
  /\ ee = [w \in Workers |-> NewEngine(prog)]
  /\ tb = [w \in Workers |-> Fresh("reset", << >>, NoNode)]
  /\ nodes = <<DecisionNode(-1, NoNode, << >>)>>
  /\ work_queue = {Root}
  /\ explored = << >>

cur(s) == s.prefix[s.prefix_idx]
last_event_index(s, p) == Len(s.event_indices[p])
find_process_event(s, p, index) == s.event_indices[p][index]
SetCur(s, field, v) == [s EXCEPT !.prefix[s.prefix_idx][field] = v]

-----------------------------------------------------------------------------
(* reset(): take the deepest leaf and prepare its replay.                  *)

(* get_ancestor()                                                          *)
RECURSIVE find_ancestor(_, _)
find_ancestor(n, depth) == IF nodes[n].depth = depth THEN n ELSE find_ancestor(nodes[n].parent, depth)

(* The event replayed for the k-th branch of a leaf.                       *)
Replayed(prefix, item, k) ==
  LET b == prefix[k]
      earlier == {j \in 1..(k - 1) : prefix[j].pid = b.pid}
  IN [Event(b.pid, 1 + FoldSet(LAMBDA j, n : n + prefix[j].size, 0, earlier)) EXCEPT
        !.size = b.size, !.sym = b.sym, !.pinned = b.pinned,
        !.decision_depth = b.decision_depth,
        !.decision_ptr = IF b.decision_depth = -1 THEN NoNode
                         ELSE find_ancestor(item, b.decision_depth)]

reset(item) ==
  LET leaf == nodes[item].leaf
  IN Fresh("run", [k \in DOMAIN leaf |-> Replayed(leaf, item, k)], item)

(* DecisionCompare: the queue is ordered by depth.                         *)
top == {n \in work_queue : \A m \in work_queue : nodes[m].depth <= nodes[n].depth}

Reset(w) ==
  /\ tb[w].at = "reset"
  /\ \E item \in top :
       /\ tb' = [tb EXCEPT ![w] = reset(item)]
       /\ work_queue' = work_queue \ {item}
  /\ ee' = [ee EXCEPT ![w] = NewEngine(prog)]
  /\ UNCHANGED <<prog, dpor_algorithm, heuristic, nodes, explored>>

-----------------------------------------------------------------------------
(* schedule(): which thread runs next; the event that it belongs to        *)
(* becomes the current one.                                                *)

Continuing(s) ==
  s.prefix_idx > 0 /\ last_event_index(s, cur(s).pid) < cur(s).index + cur(s).size - 1

(* Should we merge the last two events?                                    *)
Mergeable(s) ==
  LET n == Len(s.prefix) IN
  n > 1 /\ s.prefix[n].pid = s.prefix[n - 1].pid /\ ~s.prefix[n].may_conflict

merge(s) ==
  LET n == Len(s.prefix)  p == s.prefix[n].pid IN
  IF Mergeable(s)
  THEN [s EXCEPT !.prefix = [Front(s.prefix) EXCEPT ![n - 1].size = @ + 1], !.prefix_idx = n - 1,
                 !.event_indices[p] = Append(Front(s.event_indices[p]), n - 1)]
  ELSE s

At(s, p, idx) == [s EXCEPT !.prefix_idx = idx, !.event_indices[p] = Append(@, idx)]

NewEvent(s, p) ==
  At([s EXCEPT !.prefix = Append(@, Event(p, last_event_index(s, p) + 1))], p, Len(s.prefix) + 1)

(* The TraceBuilder after schedule(), and whether a thread was scheduled.  *)
FindAvailable(s) ==
  IF s.available = {} THEN [found |-> FALSE, s |-> s]
  ELSE [found |-> TRUE, s |-> NewEvent(s, Min(s.available))]

schedule(s) ==
  IF s.replay /\ Continuing(s) THEN [found |-> TRUE, s |-> At(s, cur(s).pid, s.prefix_idx)]
  ELSE IF s.replay /\ s.prefix_idx < Len(s.prefix)
  THEN [found |-> TRUE, s |-> At(s, s.prefix[s.prefix_idx + 1].pid, s.prefix_idx + 1)]
  ELSE FindAvailable(merge([s EXCEPT !.replay = FALSE]))

-----------------------------------------------------------------------------
(* The callbacks.  do_load() and do_atomic_store() note where the event    *)
(* reads from and who wrote last.                                          *)

do_load(s, a) == SetCur(s, "read_from", s.mem[a])
do_atomic_store(s, a) == [s EXCEPT !.mem[a] = s.prefix_idx]

compare_exchange(s, e) ==
  IF e.kind = "CMPXHG" THEN do_atomic_store(do_load(s, e.addr), e.addr) ELSE do_load(s, e.addr)

Access(s, a) ==
  [SetCur(s, "read_from", s.mutexes[a].last_access) EXCEPT !.mutexes[a].last_access = s.prefix_idx]

mutex_lock(s, a) == [Access(s, a) EXCEPT !.mutexes[a].locked = TRUE]
mutex_trylock(s, a) == [Access(s, a) EXCEPT !.mutexes[a].locked = TRUE]
mutex_unlock(s, a) ==
  [Access(s, a) EXCEPT !.mutexes[a].locked = FALSE, !.mutex_deadlocks[a] = << >>]
mutex_init(s, a) ==
  [SetCur(s, "read_from", 0) EXCEPT !.mutexes[a] = [last_access |-> s.prefix_idx, locked |-> FALSE]]
mutex_destroy(s, a) == [Access(s, a) EXCEPT !.mutexes[a].locked = FALSE]

mutex_lock_fail(s, p, a) == [s EXCEPT !.mutex_deadlocks[a] = Append(@, p)]

add_happens_after(s, second, first) ==
  [s EXCEPT !.prefix[second].happens_after = IF @ # << >> /\ Last(@) = first THEN @
                                             ELSE Append(@, first)]

spawn(s, u) == [s EXCEPT !.spawn_event[u] = s.prefix_idx, !.available = @ \cup {u}]
join(s, u) ==
  IF s.event_indices[u] = << >> THEN s ELSE add_happens_after(s, s.prefix_idx, Last(s.event_indices[u]))

(* record_symbolic(): a replayed event must do what it was predicted to.   *)
record_symbolic(s, e) ==
  IF s.replay /\ ~is_compatible_with(cur(s).sym, e) THEN [s EXCEPT !.errors = TRUE]
  ELSE SetCur(SetCur(s, "sym", e), "may_conflict", TRUE)

Callback(s, e) ==
  CASE e.kind = "SPAWN" -> spawn(s, e.num)
    [] e.kind = "JOIN" -> join(s, e.num)
    [] e.kind = "LOAD" -> do_load(s, e.addr)
    [] e.kind = "STORE" -> do_atomic_store(s, e.addr)
    [] e.kind = "RMW" -> do_atomic_store(do_load(s, e.addr), e.addr)
    [] e.kind \in {"CMPXHG", "CMPXHGFAIL"} -> compare_exchange(s, e)
    [] e.kind = "M_LOCK" -> mutex_lock(s, e.addr)
    [] e.kind \in {"M_TRYLOCK", "M_TRYLOCK_FAIL"} -> mutex_trylock(s, e.addr)
    [] e.kind = "M_UNLOCK" -> mutex_unlock(s, e.addr)
    [] e.kind = "M_INIT" -> mutex_init(s, e.addr)
    [] e.kind = "M_DELETE" -> mutex_destroy(s, e.addr)

(* An instruction of p that is no visible event tells nothing.             *)
Visited(s, e) == IF e = NoSym THEN s ELSE Callback(record_symbolic(s, e), e)

mark_available(s, woken, ended) == [s EXCEPT !.available = (@ \cup woken) \ ended]

refuse_schedule(s, p) ==
  [s EXCEPT !.prefix = Front(@), !.event_indices[p] = Front(@), !.prefix_idx = @ - 1,
            !.available = @ \ {p}]

Refuse(s, p, i) ==
  refuse_schedule(IF i.op = "lock" THEN mutex_lock_fail(s, p, i.addr) ELSE s, p)

(* One iteration of run(): the instruction of p, the current event's       *)
(* thread.                                                                 *)
RunStep(s, e, p) ==
  IF checkRefuse(e, p) THEN [s |-> Refuse(s, p, Code(e, p)), e |-> Refused(e, p)]
  ELSE [s |-> mark_available(Visited(s, visit(e, p)), Woken(e, p),
                             IF Code(e, p).op = "ret" THEN {p} ELSE {}),
        e |-> Execute(e, p)]

-----------------------------------------------------------------------------
(* compute_vclocks()                                                       *)

(* The event before i in its thread, 0 if i is the first one.              *)
po_predecessor(s, i) ==
  LET e == s.prefix[i] IN IF e.index = 1 THEN 0 ELSE find_process_event(s, e.pid, e.index - 1)

HasSource(e) == e.read_from > 0

AfterSpawn(s, i) ==
  LET e == s.prefix[i] IN
  IF e.index = 1 /\ s.spawn_event[e.pid] # 0
  THEN add_happens_after(s, i, s.spawn_event[e.pid]) ELSE s

AboveClock(s, i) ==
  LET e == s.prefix[i]
      last == po_predecessor(s, i)
      po == IF last = 0 THEN NoClock ELSE s.prefix[last].clock
  IN Foldl(LAMBDA c, j : ClockJoin(c, s.prefix[j].clock), [po EXCEPT ![e.pid] = e.index],
              e.happens_after)

WithAbove(s, i, above) ==
  [s EXCEPT !.prefix[i].above_clock = above, !.prefix[i].clock = above]

compute_above_clock(s, i) == WithAbove(AfterSpawn(s, i), i, AboveClock(AfterSpawn(s, i), i))

(* Then add read-from.                                                     *)
compute_clock(s, i) ==
  IF HasSource(s.prefix[i])
  THEN [s EXCEPT !.prefix[i].clock = ClockJoin(@, s.prefix[s.prefix[i].read_from].clock)]
  ELSE s

Positions(s) == [i \in DOMAIN s.prefix |-> i]

(* Everything that directly follows i.                                     *)
Followers(s, i) ==
  {j \in DOMAIN s.prefix : \/ po_predecessor(s, j) = i
                          \/ Contains(s.prefix[j].happens_after, i)
                          \/ s.prefix[j].read_from = i}

(* The first event of each thread that follows i; where there is none, the *)
(* top of the lattice: the thread's number of instructions.                *)
BelowClock(s, below, i) ==
  Foldl(LAMBDA c, j : ClockMeet(c, below[j]),
        (s.prefix[i].pid :> s.prefix[i].index) @@ [p \in Threads |-> Len(s.event_indices[p])],
        Sorted(Followers(s, i)))

compute_below_clocks(s) ==
  [s EXCEPT !.below_clocks =
     Foldl(LAMBDA below, i : (i :> BelowClock(s, below, i)) @@ below, << >>, Reverse(Positions(s)))]

compute_vclocks(s) ==
  compute_below_clocks(
    Foldl(LAMBDA t, i : compute_clock(compute_above_clock(t, i), i), s, Positions(s)))

-----------------------------------------------------------------------------
(* compute_unfolding(): the name of every event, which is determined by    *)
(* what happened before it in its thread and by what it reads from; and a  *)
(* decision for every read after the replayed prefix.                      *)

symev_is_lock_type(e) ==
  e.kind \in {"M_INIT", "M_LOCK", "M_TRYLOCK", "M_TRYLOCK_FAIL", "M_UNLOCK", "M_DELETE"}
is_lock_type(e) == symev_is_lock_type(e.sym)
is_load(e) == e.sym.kind \in {"LOAD", "RMW", "CMPXHG", "CMPXHGFAIL"} \/ is_lock_type(e)
is_store(e) == e.sym.kind \in {"STORE", "RMW", "CMPXHG"} \/ is_lock_type(e)
is_lock(e) == e.sym.kind = "M_LOCK"
does_lock(e) == e.sym.kind \in {"M_LOCK", "M_TRYLOCK"}
is_trylock_fail(e) == e.sym.kind = "M_TRYLOCK_FAIL"
is_unlock(e) == e.sym.kind = "M_UNLOCK"
is_cmpxhgfail(e) == e.sym.kind = "CMPXHGFAIL"
get_addr(e) == e.sym.addr

find_unfolding_node(p, parent, read_from) == <<p, parent, read_from>>
UnfParent(u) == u[2]
UnfReadFrom(u) == u[3]
UnfOf(s, i) == IF i <= 0 THEN NoUnf ELSE s.prefix[i].event

(* A thread join is encoded as reading from the thread's last event.       *)
UnfSource(s, i) ==
  LET e == s.prefix[i] IN
  IF e.sym.kind = "JOIN" THEN UnfOf(s, Last(s.event_indices[e.sym.num])) ELSE UnfOf(s, e.read_from)

Unfold(s, i, parent) ==
  [s EXCEPT !.prefix[i].event =
     IF ~s.prefix[i].may_conflict /\ parent # NoUnf THEN parent
     ELSE find_unfolding_node(s.prefix[i].pid, parent, UnfSource(s, i))]

unfold_alternative(s, i, read_from) ==
  find_unfolding_node(s.prefix[i].pid, UnfParent(s.prefix[i].event), read_from)

M_alloc_unf(N, parent, unf) == N
alloc_unf(N, parent, unf) == [N EXCEPT ![parent].children_unf_set = @ \cup {unf}]

new_decision_node(d, i, unf) ==
  LET n == Len(d.nodes) + 1
      depth == d.nodes[d.deepest].depth + 1
  IN [s |-> [d.s EXCEPT !.prefix[i].decision_ptr = n, !.prefix[i].decision_depth = depth],
      nodes |-> Append(alloc_unf(d.nodes, d.deepest, unf), DecisionNode(depth, d.deepest, << >>)),
      deepest |-> n]

Decide(d, i) ==
  LET e == d.s.prefix[i] IN
  IF i <= d.s.replay_point \/ ~is_load(e) THEN d
  ELSE new_decision_node(d, i, IF is_lock_type(e) THEN e.event ELSE UnfReadFrom(e.event))

UnfoldEvent(d, i) ==
  Decide([d EXCEPT !.s = Unfold(d.s, i, UnfOf(d.s, po_predecessor(d.s, i)))], i)

compute_unfolding(s, N) ==
  Foldl(UnfoldEvent, [s |-> s, nodes |-> N, deepest |-> s.work_item], Positions(s))

-----------------------------------------------------------------------------
(* compute_prefixes(): the changes to try, in the order of the events they *)
(* change.                                                                 *)

happens_before(e, c) == e.index <= c[e.pid]

can_rf_by_vclocks(s, r, ow, w) ==
  ~(/\ ow # 0 /\ (w = 0 \/ happens_before(s.prefix[w], s.prefix[ow].clock))
    /\ happens_before(s.prefix[ow], s.prefix[r].above_clock))

can_swap_by_vclocks(s, r, w) == ~happens_before(s.prefix[r], s.prefix[w].above_clock)

get_data(s, i) == IF i = 0 THEN 0 ELSE s.prefix[i].sym.written

is_store_when_reading_from(s, i, read_from) ==
  LET e == s.prefix[i].sym IN
  \/ e.kind \in {"STORE", "RMW"} \/ symev_is_lock_type(e)
  \/ e.kind \in {"CMPXHG", "CMPXHGFAIL"} /\ e.operand = get_data(s, read_from)

recompute_cmpxhg_success(s, i) ==
  LET e == s.prefix[i].sym IN
  IF e.kind \notin {"CMPXHG", "CMPXHGFAIL"} THEN s
  ELSE [s EXCEPT !.prefix[i].sym.kind =
          IF e.operand = get_data(s, s.prefix[i].read_from) THEN "CMPXHG" ELSE "CMPXHGFAIL"]

Accesses(s, a) == {j \in DOMAIN s.prefix : is_store(s.prefix[j]) /\ get_addr(s.prefix[j]) = a}

Try(kind, i, j) == [kind |-> kind, i |-> i, j |-> j]

(* A mutex operation may change places with the next one on the mutex; a   *)
(* critical section with the next one; and the last lock with the one that *)
(* a deadlocked thread waits for.                                          *)
NextIn(S, i) ==   \* the next of S after i
  LET later == {j \in S : j > i} IN IF later = {} THEN 0 ELSE Min(later)

Relock(s, S, i) ==
  LET unlock == NextIn({j \in S : ~is_trylock_fail(s.prefix[j])}, i)
      relock == NextIn(S, unlock)
  IN IF unlock # 0 /\ is_unlock(s.prefix[unlock]) /\ relock # 0 /\ is_lock(s.prefix[relock])
     THEN <<Try("swap_lock", i, relock)>> ELSE << >>

LockTries(s, S, i) ==
  LET e == s.prefix[i]
      j == NextIn(S, i)
      blocked == s.mutex_deadlocks[get_addr(e)]
  IN IF j = 0
     THEN IF does_lock(e) THEN [k \in DOMAIN blocked |-> Try("swap_blocked", i, blocked[k])] ELSE << >>
     ELSE IF is_unlock(e) /\ is_lock(s.prefix[j]) THEN << >>
     ELSE <<Try("swap", i, j)>> \o (IF does_lock(e) THEN Relock(s, S, i) ELSE << >>)

(* The stores of p that i may read from: not after i, and of the ones that *)
(* are before i only the last.                                             *)
M_VisibleStores(s, S, i, p) ==
  LET W == {w \in S : s.prefix[w].pid = p}
      above == {w \in W : happens_before(s.prefix[w], s.prefix[i].above_clock)}
      before == {w \in W : s.prefix[w].index < s.below_clocks[i][p]}
  IN before \ (above \ {MaxOf(above)})
VisibleStores(s, S, i, p) ==
  LET W == {w \in S : s.prefix[w].pid = p}
      above == {w \in W : happens_before(s.prefix[w], s.prefix[i].above_clock)}
      before == {w \in W : s.prefix[w].index < s.below_clocks[i][p]}
      end == NextIn(W \ before, 0)
      rmw == IF is_store(s.prefix[i]) /\ end # 0 /\ is_load(s.prefix[end]) THEN {end} ELSE {}
  IN (before \ (above \ {MaxOf(above)})) \cup rmw

(* try_read_from_rmw(): can only swap adjacent RMWs.                       *)
RmwTries(s, i, j) ==
  IF s.prefix[j].read_from = i THEN <<Try("read_from_rmw", i, j)>> ELSE << >>

try_read_from(s, i, j) ==
  LET e == s.prefix[i] IN
  IF j \in {e.read_from, i} THEN << >>
  ELSE IF j > i /\ is_store(e) /\ is_load(s.prefix[j])
  THEN IF is_store_when_reading_from(s, j, e.read_from) THEN RmwTries(s, i, j) ELSE << >>
  ELSE <<Try("read_from", i, j)>>

Flatten(ss) == Foldl(LAMBDA x, y : x \o y, << >>, ss)

Failed(s, i) ==
  {j \in DOMAIN s.prefix : /\ j > i /\ is_cmpxhgfail(s.prefix[j])
                           /\ get_addr(s.prefix[j]) = get_addr(s.prefix[i])
                           /\ is_store_when_reading_from(s, j, s.prefix[i].read_from)}

LoadTries(s, S, i) ==
  LET order == Flatten([p \in 1..Cardinality(Threads) |-> Sorted(VisibleStores(s, S, i, p - 1))])
      failed == IF is_store(s.prefix[i]) THEN Sorted(Failed(s, i)) ELSE << >>
  IN Flatten([k \in DOMAIN order |-> try_read_from(s, i, order[k])]) \o try_read_from(s, i, 0)
     \o Flatten([k \in DOMAIN failed |-> RmwTries(s, i, failed[k])])

TriesFor(s, i) ==
  LET e == s.prefix[i] IN
  IF e.pinned \/ ~is_load(e) THEN << >>
  ELSE IF is_lock_type(e) THEN LockTries(s, Accesses(s, get_addr(e)), i)
  ELSE LoadTries(s, Accesses(s, get_addr(e)), i)

AllTries(s) == Flatten([i \in DOMAIN s.prefix |-> TriesFor(s, i)])

-----------------------------------------------------------------------------
(* One change.  Its result is the changed prefix, the events changed, the  *)
(* unfolding node that names the change, and whether the clocks allow it.  *)

decision_swap(s, i, j) ==
  [s EXCEPT !.prefix[i].decision_ptr = s.prefix[j].decision_ptr,
            !.prefix[i].decision_depth = s.prefix[j].decision_depth,
            !.prefix[j].decision_ptr = s.prefix[i].decision_ptr,
            !.prefix[j].decision_depth = s.prefix[i].decision_depth]

Changed(s, changed, alt, possible) == [s |-> s, changed |-> changed, alt |-> alt, possible |-> possible]

ReadFrom(s, i, j) == [s EXCEPT !.prefix[i].read_from = j]

try_swap(s, i, j) ==
  Changed(decision_swap(ReadFrom(s, j, s.prefix[i].read_from), i, j), <<j>>,
          unfold_alternative(s, j, UnfReadFrom(s.prefix[i].event)), can_swap_by_vclocks(s, i, j))

(* The lock of the deadlocked thread p is added to the execution.          *)
AddBlocked(s, i, p) ==
  LET index == last_event_index(s, p) + 1
      j == Len(s.prefix) + 1
      new == [Event(p, index) EXCEPT !.sym = MLock(get_addr(s.prefix[i]))]
  IN compute_above_clock([s EXCEPT !.prefix = Append(@, new), !.event_indices[p] = Append(@, j)], j)

PinSwapped(s, i, j) ==
  [decision_swap(ReadFrom(s, j, s.prefix[i].read_from), i, j) EXCEPT !.prefix[i].pinned = TRUE]

try_swap_blocked(s, t, i, j) ==
  Changed(PinSwapped(t, i, j), <<j>>,
          find_unfolding_node(t.prefix[j].pid, UnfOf(t, po_predecessor(t, j)),
                              UnfOf(s, s.prefix[i].read_from)),
          can_swap_by_vclocks(t, i, j))

try_read_from_rmw(s, i, j) ==
  LET swapped == ReadFrom(ReadFrom(s, j, s.prefix[i].read_from), i, j)
  IN Changed(recompute_cmpxhg_success(recompute_cmpxhg_success(swapped, j), i), <<j, i>>,
             unfold_alternative(s, j, UnfReadFrom(s.prefix[i].event)), can_swap_by_vclocks(s, i, j))

TryChange(s, t) ==
  CASE t.kind \in {"swap", "swap_lock"} -> try_swap(s, t.i, t.j)
    [] t.kind = "swap_blocked" -> try_swap_blocked(s, AddBlocked(s, t.i, t.j), t.i, Len(s.prefix) + 1)
    [] t.kind = "read_from_rmw" -> try_read_from_rmw(s, t.i, t.j)
    [] t.kind = "read_from" ->
         Changed(recompute_cmpxhg_success(ReadFrom(s, t.i, t.j), t.i), <<t.i>>, UnfOf(s, t.j),
                 can_rf_by_vclocks(s, t.i, s.prefix[t.i].read_from, t.j))

-----------------------------------------------------------------------------
(* try_sat(): an order of the changed events and their causal past that is *)
(* sequentially consistent, if there is one.                               *)

Causes(s, i) ==
  ({po_predecessor(s, i), s.prefix[i].read_from} \cup ToSet(s.prefix[i].happens_after)) \ {0, NoRead}

RECURSIVE causal_past_1(_, _)
causal_past_1(s, acc) ==
  LET T == acc \cup UNION {Causes(s, i) : i \in acc} IN IF T = acc THEN acc ELSE causal_past_1(s, T)

causal_past(s, decision) ==
  causal_past_1(s, {i \in DOMAIN s.prefix : s.prefix[i].decision_depth \in 0..decision})

GraphKind(e) ==
  IF is_load(e) THEN IF is_store(e) THEN "RMW" ELSE "LOAD" ELSE IF is_store(e) THEN "STORE" ELSE "NONE"

add_event_to_graph(s, g, i) ==
  LET e == s.prefix[i] IN
  add_event(g, e.pid, e.index, GraphKind(e), get_addr(e),
            IF HasSource(e) THEN iid(s.prefix[e.read_from]) ELSE << >>,
            [k \in DOMAIN e.happens_after |-> iid(s.prefix[e.happens_after[k]])])

AddToGraph(s, g, keep) ==
  Foldl(LAMBDA h, i : add_event_to_graph(s, h, i), g,
           Sorted({i \in keep : ~has_event(g, iid(s.prefix[i]))}))

(* get_saturated_graph(): the graph of what is before a decision is held   *)
(* by the decision's parent, and made from the closest one that exists.    *)
RECURSIVE ClosestGraph(_, _)
ClosestGraph(N, n) ==
  IF N[n].cache_initialised THEN N[n].graph_cache ELSE ClosestGraph(N, N[n].parent)

M_get_cached_graph(s, N, n) ==
  ClosestGraph(N, N[n].parent)
get_cached_graph(s, N, n) ==
  IF N[N[n].parent].cache_initialised THEN N[N[n].parent].graph_cache
  ELSE saturate(AddToGraph(s, ClosestGraph(N, N[n].parent), causal_past(s, N[n].depth - 1))).g

(* output_formula(): what an order of the events in keep has to satisfy;   *)
(* j may come next when placed have been.                                  *)
MayFollow(s, keep, placed, j) ==
  LET e == s.prefix[j] IN
  /\ Causes(s, j) \subseteq placed
  /\ is_store(e) => ~\E r \in keep \ (placed \cup {j}) :
       /\ s.prefix[r].read_from # NoRead /\ get_addr(s.prefix[r]) = get_addr(e)
       /\ s.prefix[r].read_from \in placed \cup {0}

(* The SAT solver finds an order if there is one.                          *)
RECURSIVE SatOrder(_, _, _)
SatOrder(s, keep, order) ==
  IF Len(order) = Cardinality(keep) THEN order
  ELSE LET next == {j \in keep \ ToSet(order) : MayFollow(s, keep, ToSet(order), j)}
           found == {o \in {SatOrder(s, keep, Append(order, j)) : j \in next} : o # << >>}
       IN IF found = {} THEN << >> ELSE CHOOSE o \in found : TRUE

order_to_leaf(s, decision, changed, order) ==
  [k \in DOMAIN order |->
     LET e == s.prefix[order[k]]
         after == e.decision_depth > decision
     IN Branch(e.pid, IF Contains(changed, order[k]) THEN 1 ELSE e.size,
               IF after THEN -1 ELSE e.decision_depth, e.pinned \/ after, e.sym)]

(* The saturated graph of the causal past with the change, last of all the *)
(* event that is changed last.                                             *)
ChangedGraph(s, g, last_change, keep) ==
  saturate(add_event_to_graph(s, AddToGraph(s, g, keep \ {last_change}), last_change))

HeuristicOrder(s, g) ==
  IF ~heuristic THEN << >>
  ELSE LET res == try_generate_prefix(g, [i \in DOMAIN s.prefix |-> iid(s.prefix[i])], Addrs)
       IN [k \in DOMAIN res |-> find_process_event(s, res[k][1], res[k][2])]

FoundOrder(s, keep, order) == IF order # << >> THEN order ELSE SatOrder(s, keep, << >>)

try_sat(s, g, keep, changed) ==
  LET sat == ChangedGraph(s, g, Last(changed), keep)
      depth == s.prefix[Last(changed)].decision_depth
  IN IF sat.ok THEN order_to_leaf(s, depth, changed, FoundOrder(s, keep, HeuristicOrder(s, sat.g)))
     ELSE << >>

-----------------------------------------------------------------------------
(* Exploration                                                             *)

DecisionOf(c) == c.s.prefix[Last(c.changed)].decision_ptr
Keep(c) == causal_past(c.s, c.s.prefix[Last(c.changed)].decision_depth)

(* The decision tree with the graph cached, the leaf constructed.          *)
CacheGraph(N, n, g) ==
  [N EXCEPT ![N[n].parent].cache_initialised = TRUE, ![N[n].parent].graph_cache = g]

construct_sibling(N, n, leaf) ==
  IF leaf = << >> THEN N ELSE Append(N, DecisionNode(N[n].depth, N[n].parent, leaf))

(* A change c that has not been tried below decision n, with the graph g   *)
(* that is cached for n.                                                   *)
Attempt(c, N, n, g) ==
  construct_sibling(CacheGraph(N, n, g), n, try_sat(c.s, g, Keep(c), c.changed))

TryOnce(c, N, n) ==
  IF c.alt \in nodes[nodes[n].parent].children_unf_set THEN nodes
  ELSE IF ~c.possible THEN N ELSE Attempt(c, N, n, get_cached_graph(c.s, N, n))

Tried(c, n) == TryOnce(c, alloc_unf(nodes, nodes[n].parent, c.alt), n)

NextChange(w) == TryChange(tb[w], Head(tb[w].tries))

TryNext(w) ==
  /\ tb[w].at = "analyse" /\ tb[w].tries # << >>
  /\ nodes' = Tried(NextChange(w), DecisionOf(NextChange(w)))
  /\ work_queue' = work_queue \cup ((DOMAIN nodes') \ DOMAIN nodes)
  /\ tb' = [tb EXCEPT ![w].tries = Tail(@)]
  /\ UNCHANGED <<prog, dpor_algorithm, heuristic, ee, explored>>

Run(w) ==
  /\ tb[w].at = "run" /\ ~tb[w].errors /\ schedule(tb[w]).found
  /\ LET s == schedule(tb[w]).s
         r == RunStep(s, ee[w], cur(s).pid)
     IN tb' = [tb EXCEPT ![w] = r.s] /\ ee' = [ee EXCEPT ![w] = r.e]
  /\ UNCHANGED <<prog, dpor_algorithm, heuristic, shared>>

(* The reads-from class of an execution.                                   *)
RFClass(s) ==
  {<<iid(s.prefix[i]), IF HasSource(s.prefix[i]) THEN iid(s.prefix[s.prefix[i].read_from]) ELSE << >>>> :
     i \in {i \in DOMAIN s.prefix : s.prefix[i].read_from # NoRead}}

EndOfExecution(w) ==
  /\ tb[w].at = "run" /\ ~schedule(tb[w]).found
  /\ tb' = [tb EXCEPT ![w] = [compute_vclocks(schedule(tb[w]).s) EXCEPT !.at = "unfold"]]
  /\ explored' = Append(explored, RFClass(tb[w]))
  /\ UNCHANGED <<prog, dpor_algorithm, heuristic, ee, nodes, work_queue>>

ComputeUnfolding(w) ==
  /\ tb[w].at = "unfold"
  /\ LET d == compute_unfolding(tb[w], nodes) IN
     /\ tb' = [tb EXCEPT ![w] = [d.s EXCEPT !.at = "analyse", !.work_item = d.deepest,
                                           !.tries = AllTries(d.s)]]
     /\ nodes' = d.nodes
  /\ UNCHANGED <<prog, dpor_algorithm, heuristic, ee, work_queue, explored>>

EndOfAnalysis(w) ==
  /\ tb[w].at = "analyse" /\ tb[w].tries = << >>
  /\ tb' = [tb EXCEPT ![w] = Fresh("reset", << >>, NoNode)]
  /\ UNCHANGED <<prog, dpor_algorithm, heuristic, ee, shared>>

Work(w) ==
  \/ Reset(w) \/ Run(w) \/ EndOfExecution(w)
  \/ ComputeUnfolding(w) \/ TryNext(w) \/ EndOfAnalysis(w)

Next == \E w \in Workers : Work(w)

Spec == Init /\ [][Next]_vars

-----------------------------------------------------------------------------
(* The reads-from classes of all maximal executions.                       *)

RFStart == [e |-> NewEngine(prog), last |-> [a \in Addrs |-> << >>],
            n |-> [t \in Threads |-> 0], rf |-> {}]

RFStep(c, t, sym) ==
  LET me == <<t, c.n[t] + 1>>
      e == [Event(t, 0) EXCEPT !.sym = sym]
      source == IF sym.kind = "M_INIT" THEN << >> ELSE c.last[sym.addr]
  IN [e |-> Execute(c.e, t),
      last |-> IF is_store(e) THEN [c.last EXCEPT ![sym.addr] = me] ELSE c.last,
      n |-> [c.n EXCEPT ![t] = @ + 1],
      rf |-> IF is_load(e) THEN c.rf \cup {<<me, source>>} ELSE c.rf]

RECURSIVE RFEndsOf(_)
RFEndsOf(C) ==
  IF C = {} THEN {}
  ELSE {c.rf : c \in {d \in C : Enabled(d.e) = {}}}
       \cup RFEndsOf(UNION {{RFStep(c, t, visit(c.e, t)) : t \in Enabled(c.e)} : c \in C})

AllRFClasses == RFEndsOf({RFStart})

-----------------------------------------------------------------------------
Finished == work_queue = {} /\ \A w \in Workers : tb[w].at = "reset"

(* compute_prefixes() misses nothing: when there is nothing left to do,    *)
(* every reads-from class of the program has been executed.                *)
Complete == Finished => ToSet(explored) = AllRFClasses

(* try_alloc_unf() and the unfolding make the exploration optimal, however *)
(* many workers share the tree: no class is executed twice.                *)
NoClassTwice == IsInjective(explored)

(* The changes that are about to be tried.                                 *)
Pending(w) == tb[w].at = "analyse" /\ tb[w].tries # << >> /\ NextChange(w).possible
NextGraph(w) == get_cached_graph(NextChange(w).s, nodes, DecisionOf(NextChange(w)))

(* The decision's parent caches the graph of the events before the         *)
(* decision for all workers; whichever of them made it, it is the causal   *)
(* past of the execution at hand.                                          *)
GraphEvents(g) ==
  {<<ext_id(e), e.is_load, e.is_store, IF e.read_from = 0 THEN << >> ELSE ext_id(g.events[e.read_from])>> :
     e \in Range(g.events)}
ExecutionEvents(s, keep) == GraphEvents(AddToGraph(s, EmptyGraph(Threads), keep))
CacheIsCausalPast == \A w \in Workers : Pending(w) =>
  GraphEvents(NextGraph(w)) =
    ExecutionEvents(tb[w], causal_past(tb[w], nodes[DecisionOf(NextChange(w))].depth - 1))

(* saturate() finds a cycle only where no order satisfies the formula, and *)
(* the order that PrefixHeuristic guesses satisfies it.                    *)
Satisfies(s, keep, order) ==
  /\ ToSet(order) = keep
  /\ \A k \in DOMAIN order : MayFollow(s, keep, ToSet(SubSeq(order, 1, k - 1)), order[k])

SoundFor(s, keep, sat) ==
  IF ~sat.ok THEN SatOrder(s, keep, << >>) = << >>
  ELSE HeuristicOrder(s, sat.g) # << >> => Satisfies(s, keep, HeuristicOrder(s, sat.g))

OrdersAreSound == \A w \in Workers : Pending(w) =>
  LET c == NextChange(w) IN
  SoundFor(c.s, Keep(c), ChangedGraph(c.s, NextGraph(w), Last(c.changed), Keep(c)))
=============================================================================
