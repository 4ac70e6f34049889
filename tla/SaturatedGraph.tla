--------------------------- MODULE SaturatedGraph ---------------------------
(***************************************************************************)
(* SaturatedGraph: the events of a partial execution, the orders between   *)
(* them that are known, and the ones that follow.  saturate() adds a       *)
(* coherence or from-read edge wherever a read-from leaves only one order  *)
(* between two accesses, keeps the vector clock of every event, and fails  *)
(* when the edges form a cycle.                                            *)
(*                                                                         *)
(* Identifiers of events are their positions in events, from 1 on; 0       *)
(* stands for an absent one.  events_by_pid, writes_by_address,            *)
(* writes_by_process_and_address, reads_from_init and extid_to_id are      *)
(* indexes over events, and are computed from it.                          *)
(***************************************************************************)
EXTENDS Integers, Sequences, FiniteSets, FiniteSetsExt, SequencesExt, TLC

(* FoldLeft(), with every intermediate result computed before the next.    *)
Foldl(op(_, _), base, seq) ==
  LET f[k \in 0..Len(seq)] ==
        IF k = 0 THEN base ELSE CHOOSE r \in {op(v, seq[k]) : v \in {f[k - 1]}} : TRUE
  IN f[Len(seq)]

(* Vector clocks: leq, the join += and the meet -=.                        *)
leq(c, d) == \A p \in DOMAIN c : c[p] <= d[p]
ClockJoin(c, d) == [p \in {q \in DOMAIN c : c[q] < d[q]} |-> d[p]] @@ c
ClockMeet(c, d) == [p \in {q \in DOMAIN c : c[q] > d[q]} |-> d[p]] @@ c

(* A graph without events, for the processes P.                            *)
EmptyGraph(P) ==
  [pids |-> P, events |-> << >>, ins |-> << >>, outs |-> << >>, vclocks |-> << >>,
   wq |-> << >>, saturated_until |-> 0]

ids(g) == DOMAIN g.events
ext_id(e) == <<e.pid, e.ext>>
has_event(g, x) == \E i \in ids(g) : ext_id(g.events[i]) = x
extid_to_id(g, x) == CHOOSE i \in ids(g) : ext_id(g.events[i]) = x

events_by_pid(g, p) == {i \in ids(g) : g.events[i].pid = p}
writes(g, p, a) == {i \in events_by_pid(g, p) : g.events[i].is_store /\ g.events[i].addr = a}
reads_from_init(g, a) ==
  {i \in ids(g) : g.events[i].is_load /\ g.events[i].read_from = 0 /\ g.events[i].addr = a}

MaxOf(S) == IF S = {} THEN 0 ELSE Max(S)

-----------------------------------------------------------------------------
wq_add(g, id) == IF Contains(g.wq, id) THEN g ELSE [g EXCEPT !.wq = Append(@, id)]
wq_add_first(g, id) == IF Contains(g.wq, id) THEN g ELSE [g EXCEPT !.wq = <<id>> \o @]

Once(s, x) == IF Contains(s, x) THEN s ELSE Append(s, x)

(* An edge without its effect on the work queue.                           *)
Link(g, from, to) ==
  [g EXCEPT !.outs[from] = Once(@, to), !.ins[to] = Once(@, from)]

LinkAll(g, edges) == Foldl(LAMBDA h, e : Link(h, e[1], e[2]), g, edges)

add_edge_internal(g, from, to) == wq_add(Link(g, from, to), to)

add_edge(g, from, to) == add_edge_internal(g, extid_to_id(g, from), extid_to_id(g, to))

(* The elements of a set of numbers, in order.                             *)
Sorted(S) == SelectSeq([k \in 1..MaxOf(S) |-> k], LAMBDA k : k \in S)
Pairs2(S, x) == [k \in DOMAIN Sorted(S) |-> <<Sorted(S)[k], x>>]

(* The new event, without edges, after its predecessor in program order.   *)
AppendEvent(g, e) ==
  LET id == Len(g.events) + 1
      po == MaxOf(events_by_pid(g, e.pid))
      index == IF po = 0 THEN 1 ELSE g.events[po].index + 1
      new == [g EXCEPT !.events = Append(@, [po |-> po, index |-> index, readers |-> << >>] @@ e),
                       !.ins = Append(@, << >>), !.outs = Append(@, << >>),
                       !.vclocks = Append(@, [p \in g.pids |-> 0])]
      read == IF e.read_from = 0 THEN new
              ELSE [new EXCEPT !.events[e.read_from].readers = Append(@, id)]
  IN IF po = 0 THEN read ELSE [read EXCEPT !.outs[po] = Append(@, id)]

(* add_event(): kind is "NONE", "STORE", "LOAD" or "RMW"; read_from is the *)
(* event read from, << >> for the initial value.  A load of the initial    *)
(* value comes before the first store of every process, and the first      *)
(* store of a process comes after all loads of the initial value.          *)
add_event(g, pid, ext, kind, addr, read_from, happens_after) ==
  LET is_load == kind \in {"LOAD", "RMW"}
      is_store == kind \in {"STORE", "RMW"}
      rf == IF read_from = << >> THEN 0 ELSE extid_to_id(g, read_from)
      id == Len(g.events) + 1
      after == [k \in DOMAIN happens_after |-> <<extid_to_id(g, happens_after[k]), id>>]
      firsts == IF is_load /\ rf = 0
                THEN {Min(writes(g, p, addr)) : p \in {p \in g.pids : writes(g, p, addr) # {}}}
                ELSE {}
      inits == IF is_store /\ writes(g, pid, addr) = {} THEN reads_from_init(g, addr) ELSE {}
      new == AppendEvent(g, [pid |-> pid, ext |-> ext, is_load |-> is_load,
                             is_store |-> is_store, addr |-> addr, read_from |-> rf])
      before == Foldl(LAMBDA h, w : add_edge_internal(h, id, w), new, Sorted(firsts))
  IN wq_add(LinkAll(before, after \o Pairs2(inits, id)), id)

-----------------------------------------------------------------------------
(* reverse_saturate(): the readers added since the last saturation come    *)
(* before every store that is known to follow the one they read from.      *)
(* Successors in the order of program order, reads-from and edges.         *)

Succ(g, id) ==
  {j \in ids(g) : g.events[j].po = id} \cup ToSet(g.events[id].readers) \cup ToSet(g.outs[id])

RECURSIVE add_to_care(_, _)
add_to_care(g, S) ==
  LET T == S \cup UNION {Succ(g, id) : id \in S} IN IF T = S THEN S ELSE add_to_care(g, T)

(* The first event of process p that is not before id; beyond the last if  *)
(* there is none.                                                          *)
below_clock(g, id, p) ==
  Min({g.events[j].index : j \in {j \in add_to_care(g, {id}) : g.events[j].pid = p}}
      \cup {Cardinality(events_by_pid(g, p)) + 1})

(* The first store of p to the same location after id.                     *)
NextWrites(g, id, p) ==
  LET W == {w \in writes(g, p, g.events[id].addr) \ {id} :
              g.events[w].index >= below_clock(g, id, p)}
  IN IF W = {} THEN {} ELSE {Min(W)}

MissedFromReads(g, id) ==
  LET new_out == {r \in ToSet(g.events[id].readers) : r > g.saturated_until}
      W == UNION {NextWrites(g, id, p) : p \in g.pids}
  IN IF g.events[id].is_store /\ new_out # {}
     THEN {e \in new_out \X W : e[1] # e[2]} ELSE {}

reverse_care_set(g) ==
  add_to_care(g, {g.events[id].read_from : id \in {id \in ids(g) :
    /\ id > g.saturated_until
    /\ g.events[id].is_load /\ g.events[id].read_from \in 1..g.saturated_until}})

M_reverse_saturate(g) == [g EXCEPT !.saturated_until = Len(g.events)]
reverse_saturate(g) ==
  LET edges == IF g.saturated_until \in {0, Len(g.events)} THEN {}
               ELSE UNION {MissedFromReads(g, id) : id \in reverse_care_set(g)}
      targets(from) == Sorted({e[2] : e \in {e \in edges : e[1] = from}})
      h == Foldl(LAMBDA k, from :
                   Foldl(LAMBDA l, to : add_edge_internal(l, from, to), k, targets(from)),
                 g, Sorted({e[1] : e \in edges}))
  IN [h EXCEPT !.saturated_until = Len(g.events)]

-----------------------------------------------------------------------------
(* saturate()                                                              *)

(* What an event directly follows.                                         *)
Preds(g, id) == (ToSet(g.ins[id]) \cup {g.events[id].po, g.events[id].read_from}) \ {0}

recompute_vc_for_event(g, id) ==
  LET e == g.events[id]
      start == [p \in g.pids |-> IF p = e.pid THEN e.index ELSE 0]
  IN Foldl(LAMBDA vc, i : ClockJoin(vc, g.vclocks[i]), start, Sorted(Preds(g, id)))

is_in_cycle(g, id, vc) == \E i \in Preds(g, id) : g.vclocks[i] = vc

(* The latest store of p to the location of id that vc has seen and the    *)
(* clock of id had not.                                                    *)
NewlySeen(g, id, vc, p) ==
  LET old == g.vclocks[id][p]
      W == {w \in writes(g, p, g.events[id].addr) \ {id} : g.events[w].index <= vc[p]}
  IN IF old # vc[p] /\ W # {} /\ g.events[Max(W)].index > old THEN {Max(W)} ELSE {}

(* One event of the work queue, id, with its new clock vc and the stores   *)
(* pes that it newly sees.                                                 *)
SaturateEvent(g, id, vc, pes) ==
  LET e == g.events[id]
      readers == IF e.is_store THEN (UNION {ToSet(g.events[w].readers) : w \in pes}) \ {id} ELSE {}
      new_edges == IF e.is_load THEN Pairs2(pes \ {e.read_from}, e.read_from) ELSE << >>
      succs == (IF e.is_store THEN e.readers ELSE << >>) \o g.outs[id]
      seen == LinkAll(g, Pairs2(readers, id))
      queued == Foldl(LAMBDA h, s : wq_add(h, s), seen, succs)
      clocked == [queued EXCEPT !.vclocks[id] = vc]
      again == IF readers # {} THEN wq_add_first(clocked, id) ELSE clocked
  IN Foldl(LAMBDA h, p : add_edge_internal(h, p[1], p[2]), again, new_edges)

(* A load of the initial value may see no store.                           *)
SeesTooMuch(e, pes) == e.is_load /\ e.read_from = 0 /\ pes # {}

NewWrites(g, id, vc) ==
  IF g.events[id].is_load \/ g.events[id].is_store
  THEN UNION {NewlySeen(g, id, vc, p) : p \in g.pids} ELSE {}

Cyclic == [ok |-> FALSE, g |-> EmptyGraph({})]

RECURSIVE SaturationLoop(_)
SaturateNext(g, id, vc, pes) ==
  IF is_in_cycle(g, id, vc) THEN Cyclic
  ELSE IF vc = g.vclocks[id] THEN SaturationLoop(g)
  ELSE IF SeesTooMuch(g.events[id], pes) THEN Cyclic
  ELSE SaturationLoop(SaturateEvent(g, id, vc, pes))
WithClock(g, id, vc) == SaturateNext(g, id, vc, NewWrites(g, id, vc))
Popped(g, id) == WithClock([g EXCEPT !.wq = Tail(@)], id, recompute_vc_for_event(g, id))
SaturationLoop(g) == IF g.wq = << >> THEN [ok |-> TRUE, g |-> g] ELSE Popped(g, Head(g.wq))

(* Is the graph still acyclic, and the saturated graph.                    *)
saturate(g) == SaturationLoop(reverse_saturate(g))

-----------------------------------------------------------------------------
(* PrefixHeuristic.  try_generate_prefix() guesses a total coherence order *)
(* close to the one of the current execution, and sorts the graph          *)
(* topologically.  The result is a sequence of events, empty when a guess  *)
(* was wrong.                                                              *)


event_vc(g, x) == g.vclocks[extid_to_id(g, x)]

(* Where w is inserted in the order co of the stores so far, from the end: *)
(* after the last one that it is not before.                               *)
ins_ptr(g, co, w) ==
  1 + MaxOf({k \in DOMAIN co : ~leq(event_vc(g, w), event_vc(g, co[k]))})

(* The two edges that place w between its neighbours.                      *)
Guess(g, co, w, k) ==
  LET first == IF k > 1 THEN add_edge(g, co[k - 1], w) ELSE g
  IN IF k <= Len(co) THEN add_edge(first, w, co[k]) ELSE first

Placed(s, w, a, k) ==
  LET sat == saturate(Guess(s.g, s.total_co[a], w, k))
  IN [ok |-> sat.ok, g |-> sat.g, total_co |-> (a :> InsertAt(s.total_co[a], k, w)) @@ s.total_co]

AddStore(s, w) ==
  LET e == s.g.events[extid_to_id(s.g, w)]
  IN IF s.ok /\ e.is_store THEN Placed(s, w, e.addr, ins_ptr(s.g, s.total_co[e.addr], w)) ELSE s

(* toposort(): first what an event follows, then the event.                *)
event_in(g, id) ==
  SelectSeq(g.ins[id] \o <<g.events[id].po, g.events[id].read_from>>, LAMBDA i : i # 0)

RECURSIVE toposort_from(_, _, _)
toposort_from(g, ret, id) ==
  IF Contains(ret, id) THEN ret
  ELSE Append(Foldl(LAMBDA r, i : toposort_from(g, r, i), ret, event_in(g, id)), id)

toposort(g, order) ==
  LET ret == Foldl(LAMBDA r, x : toposort_from(g, r, extid_to_id(g, x)), << >>, order)
  IN [k \in DOMAIN ret |-> ext_id(g.events[ret[k]])]

Sequenced(s, order) == IF s.ok THEN toposort(s.g, order) ELSE << >>

try_generate_prefix(g, current_exec, addrs) ==
  LET order == SelectSeq(current_exec, LAMBDA x : has_event(g, x))
      start == [ok |-> TRUE, g |-> g, total_co |-> [a \in addrs |-> << >>]]
  IN Sequenced(Foldl(AddStore, start, order), order)
=============================================================================
