------------------------ MODULE POWERARMTraceBuilder ------------------------
(***************************************************************************)
(* The trace builder for POWER and ARM: events are fetched by the          *)
(* interpreter, get their addresses and data when these are known, and are *)
(* committed one at a time with a parameter the memory model allows.       *)
(* schedule() replays prefix and then extends it; reset() moves to the     *)
(* next parameter or to a branch that reverses a load and a store.         *)
(* Operations take the builder record tb and return the updated one.       *)
(***************************************************************************)
EXTENDS POWERARMRelations, SequencesExt, FiniteSetsExt

NewThread == [fch_count |-> 0, ctrl_deps |-> {}, ctrl_isync_deps |-> {}, last |-> NoFences]

(* The builder at the start: one thread, nothing fetched.  mm is the       *)
(* memory model the class is instantiated with.                            *)
NewTB(mm) ==
  [mm |-> mm, prefix |-> << >>, sched_count |-> 0, uncommitted_nonblocking_count |-> 0,
   fch |-> << << >> >>, threads |-> <<NewThread>>, mem |-> << >>, errors |-> {}]

(* The elements of S in some order.                                        *)
RECURSIVE Listed(_)
Listed(S) == IF S = {} THEN << >>
             ELSE LET x == CHOOSE y \in S : TRUE IN Append(Listed(S \ {x}), x)

SetEvt(tb, iid, evt) == [tb EXCEPT !.fch[iid[1]][iid[2]] = evt]

(* committed_prefix and addr_known_prefix, as their updates leave them.    *)
LongestPrefix(ok) == Max({k \in 0..Len(ok) : \A i \in 1..k : ok[i]})
committed_prefix(tb, p) ==
  LongestPrefix([i \in 1..tb.threads[p].fch_count |-> tb.fch[p][i].committed])
addr_known(evt) == \A a \in DOMAIN evt.accesses : evt.accesses[a].addr # << >>
data_known(evt) == \A a \in DOMAIN evt.accesses : evt.accesses[a].store => evt.accesses[a].data # << >>
addr_known_prefix(tb, p) ==
  LongestPrefix([i \in 1..tb.threads[p].fch_count |-> addr_known(tb.fch[p][i])])

has_load_req(evt) == \E a \in DOMAIN evt.accesses : evt.accesses[a].load_req # << >>
access_tgts(evt) == {evt.baccesses[b].addr : b \in DOMAIN evt.baccesses}

-----------------------------------------------------------------------------
(* spawn(): a new thread uses the row of fch that an earlier computation   *)
(* left at its place (the code adds a row every time, and the surplus rows *)
(* are never used).                                                        *)
spawn(tb) ==
  [tb EXCEPT !.fch = IF Len(@) > Len(tb.threads) THEN @ ELSE Append(@, << >>),
             !.threads = Append(@, NewThread)]

(* fetch() of the next event of proc.  What an earlier computation left    *)
(* for it is kept: parameter and branch, and all of it when COMPLETE.      *)
fetch(tb, proc, loads, stores, addr_deps, data_deps) ==
  LET T == tb.threads[proc]
      k == T.fch_count + 1
      fresh == [Event(loads, stores, addr_deps, data_deps, T.last)
                  EXCEPT !.ctrl_deps = T.ctrl_deps, !.ctrl_isync_deps = T.ctrl_isync_deps,
                         !.cb_bwd = {<<proc, k>>}]
      row == tb.fch[proc]
      parameter == [fresh EXCEPT !.cur_param = row[k].cur_param, !.cur_branch = row[k].cur_branch,
                                 !.new_branches = row[k].new_branches,
                                 !.branch_start = row[k].branch_start,
                                 !.branch_end = row[k].branch_end,
                                 !.recalc_params = row[k].recalc_params,
                                 !.recalc_params_load_src = row[k].recalc_params_load_src]
      evt == IF k > Len(row) \/ row[k].filled_status = "EMPTY" THEN fresh
             ELSE IF row[k].filled_status = "PARAMETER" THEN parameter
             ELSE [parameter EXCEPT !.rel = row[k].rel, !.new_params = row[k].new_params]
  IN [tb EXCEPT !.fch[proc] = IF k > Len(row) THEN Append(row, evt) ELSE [row EXCEPT ![k] = evt],
                !.threads[proc].fch_count = k,
                !.uncommitted_nonblocking_count = @ + 1]

(* register_addr(): the access gets its address, the event one byte access *)
(* per byte.  The accesses of an event do not overlap.                     *)
register_addr(tb, iid, a, addr) ==
  LET evt == get_evt(tb, iid)
      bytes == [i \in DOMAIN addr |-> [store |-> evt.accesses[a].store, addr |-> addr[i]]]
  IN SetEvt(tb, iid, [evt EXCEPT !.accesses[a].addr = addr, !.baccesses = @ \o bytes])

register_data(tb, iid, a, data) ==
  [tb EXCEPT !.fch[iid[1]][iid[2]].accesses[a].data = data]

register_load_requirement(tb, iid, a, value) ==
  [tb EXCEPT !.fch[iid[1]][iid[2]].accesses[a].load_req = value,
             !.uncommitted_nonblocking_count = IF has_load_req(get_evt(tb, iid)) THEN @ ELSE @ - 1]

fetch_ctrl(tb, proc, deps) == [tb EXCEPT !.threads[proc].ctrl_deps = @ \cup deps]

fetch_fence(tb, proc, type) ==
  LET T == tb.threads[proc]
      idx == T.fch_count
      row == tb.fch[proc]
      since(k) == k <= idx /\ k > T.last[type]
  IN IF type = "isync"
     THEN [tb EXCEPT !.threads[proc].ctrl_isync_deps = @ \cup T.ctrl_deps,
                     !.threads[proc].ctrl_deps = {}]
     ELSE [tb EXCEPT !.fch[proc] = [k \in DOMAIN row |->
                                      IF since(k) THEN [row[k] EXCEPT !.after[type] = idx] ELSE row[k]],
                     !.threads[proc].last[type] = idx]

-----------------------------------------------------------------------------
(* compute_poloc_bwd(): the last earlier event of the thread at each byte. *)
compute_poloc_bwd(tb, iid) ==
  LET evt == get_evt(tb, iid)
      row == tb.fch[iid[1]]
      last(b) == {k \in 1..(iid[2] - 1) : /\ b \in access_tgts(row[k])
                                          /\ \A j \in (k + 1)..(iid[2] - 1) : b \notin access_tgts(row[j])}
  IN evt.rel.poloc.bwd \cup UNION {{<<iid[1], k>> : k \in last(b)} : b \in access_tgts(evt)}

committable(tb, iid) ==
  LET evt == get_evt(tb, iid)
      proc == iid[1]
  IN /\ ~evt.committed
     /\ addr_known(evt) /\ data_known(evt)
     /\ addr_known_prefix(tb, proc) >= iid[2]
     /\ committed_prefix(tb, proc) >= evt.before.sync
     /\ committed_prefix(tb, proc) >= evt.before.lwsync
     /\ tb.mm = "POWER" => \A e \in compute_poloc_bwd(tb, iid) : get_evt(tb, e).committed

-----------------------------------------------------------------------------
(* The state of one byte: coherence position i is after the i:th store,    *)
(* and loads[i + 1] are the loads that read it (i = 0: the initial value). *)
StoreAt(m, i) == IF i \in DOMAIN m.coherence THEN {m.coherence[i]} ELSE {}
LoadsAt(m, i) == m.loads[i + 1]
Own(S, proc) == {e \in S : e[1] = proc}

(* find_poloc(): the nearest committed accesses of the thread to the byte, *)
(* with their positions.                                                   *)
NoAccess == [iid |-> Null, pos |-> 0, store |-> FALSE]

find_poloc(m, iid) ==
  LET proc == iid[1]
      idx == iid[2]
      own == {i \in DOMAIN m.coherence : m.coherence[i][1] = proc}
      later == {i \in own : m.coherence[i][2] > idx}
      stop == IF later = {} THEN Len(m.coherence) + 1 ELSE Min(later)
      earlier == {i \in own : i < stop}
      start == IF earlier = {} THEN 0 ELSE Max(earlier)
      at(i, S, st) == {[iid |-> e, pos |-> i, store |-> st] : e \in Own(S, proc)}
      loads == UNION {at(i, LoadsAt(m, i) \ StoreAt(m, stop), FALSE) : i \in start..(stop - 1)}
      before == at(start, StoreAt(m, start), TRUE) \cup {x \in loads : x.iid[2] < idx}
      after == at(stop, StoreAt(m, stop), TRUE) \cup {x \in loads : x.iid[2] > idx}
  IN [before |-> IF before = {} THEN NoAccess
                 ELSE CHOOSE x \in before : \A y \in before : y.iid[2] <= x.iid[2],
      after |-> IF after = {} THEN NoAccess
                ELSE CHOOSE x \in after : \A y \in after : y.iid[2] >= x.iid[2]]

(* com_poloc_bwd_search(): everything com- or poloc-before S.              *)
ComPoloc(tb) ==
  [e \in Committed(tb) |-> get_evt(tb, e).rel.com.bwd \cup get_evt(tb, e).rel.poloc.bwd]

Add(rel, fwd, bwd) == [fwd |-> rel.fwd \cup fwd, bwd |-> rel.bwd \cup bwd]
Iids(x) == IF x.iid = Null THEN {} ELSE {x.iid}

(* The parameter B, with the neighbours of n in program order at the byte. *)
WithPoloc(tb, B, pl) ==
  [B EXCEPT !.rel.poloc = Add(B.rel.poloc, Iids(pl.after), Iids(pl.before)),
            !.rel.cc0 = IF tb.mm = "POWER" THEN Add(B.rel.cc0, Iids(pl.after), Iids(pl.before)) ELSE @]

StoreParam(n, m, B, i) ==
  LET next == StoreAt(m, i + 1)
      prev == StoreAt(m, i)
      detour == UNION {Own(LoadsAt(m, j), n[1]) :
                         j \in {k \in (i + 1)..Len(m.coherence) : m.coherence[k][1] # n[1]}}
  IN [B EXCEPT !.choices = Append(@, CoChoice(i)),
               !.rel.co = Add(B.rel.co, next, prev),
               !.rel.com = Add(B.rel.com, next, prev \cup LoadsAt(m, i)),
               !.rel.ci0.fwd = @ \cup detour]

LoadParam(n, m, B, i) ==
  LET src == StoreAt(m, i)
      rfe == {w \in src : w[1] # n[1]}
      external == rfe # {}
      own_stores == Own({m.coherence[j] : j \in 1..(i - 1)}, n[1])
      rdw_bwd == UNION {Own(LoadsAt(m, j), n[1]) : j \in 0..(i - 1)}
      rdw_fwd == UNION {Own(LoadsAt(m, j), n[1]) :
                          j \in {k \in (i + 1)..Len(m.coherence) : m.coherence[k][1] # n[1]}}
  IN [B EXCEPT !.choices = Append(@, SrcChoice(IF i = 0 THEN Null ELSE m.coherence[i])),
               !.rel.rf.bwd = @ \cup src,
               !.rel.com = Add(B.rel.com, StoreAt(m, i + 1), src),
               !.rel.hb.bwd = @ \cup rfe,
               !.rel.ci0.bwd = @ \cup (IF external THEN own_stores ELSE {}),
               !.rel.ii0 = IF external THEN Add(B.rel.ii0, rdw_fwd, rdw_bwd)
                           ELSE Add(B.rel.ii0, {}, src)]

(* The positions that SC PER LOCATION leaves open.  coloured is com-poloc- *)
(* before n by its earlier accesses, tgt is com-poloc-after it.            *)
store_range(m, pl, coloured, tgt, adj) ==
  LET hit == {i \in 0..Len(m.coherence) : (StoreAt(m, i) \cup LoadsAt(m, i)) \cap coloured # {}}
      first == Max(hit \cup {pl.before.pos})
      bound == IF pl.after = NoAccess THEN Len(m.coherence) ELSE pl.after.pos - 1
      upto(i) == UNION {StoreAt(m, j) \cup LoadsAt(m, j) : j \in first..i}
      bad == {i \in first..bound : tgt # {} /\ tgt \cap Reach(coloured \cup upto(i), adj) # {}}
  IN [first |-> first, last |-> IF bad = {} THEN bound ELSE Min(bad) - 1]

load_range(m, pl, coloured, tgt, adj) ==
  LET hit == {i \in DOMAIN m.coherence : m.coherence[i] \in coloured}
      first == Max(hit \cup {pl.before.pos})
      bound == IF pl.after = NoAccess THEN Len(m.coherence)
               ELSE IF pl.after.store THEN pl.after.pos - 1 ELSE pl.after.pos
      from == Max({1, first})
      upto(i) == {m.coherence[j] : j \in from..i}
      bad == {i \in from..Len(m.coherence) : tgt # {} /\ tgt \cap Reach(coloured \cup upto(i), adj) # {}}
  IN [first |-> first, last |-> IF bad = {} THEN bound ELSE Min(bad) - 1]

(* populate_parameters_store() and populate_parameters_load(): stores take *)
(* their positions upwards, loads their sources downwards.                 *)
populate_parameters_store(n, m, B, r) ==
  [k \in 1..(r.last - r.first + 1) |-> StoreParam(n, m, B, r.first + k - 1)]

populate_parameters_load(n, m, B, r) ==
  [k \in 1..(r.last - r.first + 1) |-> LoadParam(n, m, B, r.last - k + 1)]

PopulateByte(tb, n, ba, B, m, pl, adj) ==
  LET coloured == Reach(B.rel.com.bwd \cup B.rel.poloc.bwd, adj)
      tgt == B.rel.com.fwd \cup B.rel.poloc.fwd
      B1 == WithPoloc(tb, B, pl)
  IN IF ba.store THEN populate_parameters_store(n, m, B1, store_range(m, pl, coloured, tgt, adj))
     ELSE populate_parameters_load(n, m, B1, load_range(m, pl, coloured, tgt, adj))

RECURSIVE Populate(_, _, _, _, _)
Populate(tb, n, prm, bytes, adj) ==
  IF bytes = << >> THEN prm
  ELSE LET ba == Head(bytes)
           m == MemAt(tb, ba.addr)
           pl == find_poloc(m, n)
       IN Populate(tb, n,
                   FlattenSeq([k \in DOMAIN prm |-> PopulateByte(tb, n, ba, prm[k], m, pl, adj)]),
                   Tail(bytes), adj)

(* The edges of n that do not depend on its choices.  For addr;po, the     *)
(* event before the one with the address dependency is related to n.       *)
Deps(proc, S) == {<<proc, i>> : i \in S}
BaseParam(tb, n) ==
  LET evt == get_evt(tb, n)
      proc == n[1]
      row == tb.fch[proc]
      dp == Deps(proc, evt.addr_deps \cup evt.data_deps)
      addrpo_bwd == {k - 1 : k \in {i \in 1..(n[2] - 1) : \E j \in row[i].addr_deps : row[j].committed}}
      addressed == {k \in (n[2] + 1)..tb.threads[proc].fch_count : n[2] \in row[k].addr_deps}
      addrpo_fwd == {e \in Own(Committed(tb), proc) : addressed # {} /\ Min(addressed) < e[2]}
  IN [NoParam EXCEPT !.rel.hb = fences_to_hb(tb, n),
                     !.rel.ii0.bwd = dp,
                     !.rel.ci0.bwd = Deps(proc, evt.ctrl_isync_deps),
                     !.rel.cc0 = [bwd |-> dp \cup Deps(proc, evt.ctrl_deps \cup addrpo_bwd),
                                  fwd |-> addrpo_fwd]]

(* get_load_values(): a byte has the value of the store it is read from.   *)
InitialValue == 0
StoredValue(evt, b) ==
  LET a == CHOOSE x \in DOMAIN evt.accesses :
             evt.accesses[x].store /\ \E i \in DOMAIN evt.accesses[x].addr : evt.accesses[x].addr[i] = b
      i == CHOOSE x \in DOMAIN evt.accesses[a].addr : evt.accesses[a].addr[x] = b
  IN evt.accesses[a].data[i]

get_load_value(tb, iid, a, P) ==
  LET evt == get_evt(tb, iid)
      choice(b) == P.choices[CHOOSE k \in DOMAIN evt.baccesses :
                               ~evt.baccesses[k].store /\ evt.baccesses[k].addr = b]
      byte(b) == IF choice(b).src = Null THEN InitialValue
                 ELSE StoredValue(get_evt(tb, choice(b).src), b)
  IN [i \in DOMAIN evt.accesses[a].addr |-> byte(evt.accesses[a].addr[i])]

LoadReqsOk(tb, n, P) ==
  LET evt == get_evt(tb, n)
  IN \A a \in DOMAIN evt.accesses :
       evt.accesses[a].load_req # << >> => get_load_value(tb, n, a, P) = evt.accesses[a].load_req

(* populate_parameters(): the parameters that the axioms allow.  On POWER  *)
(* NO THIN AIR is only asserted, and not checked in a build with NDEBUG.   *)
M_Propagated(tb, n, P, hb, fences) ==
  IF propagation(tb, n, P) /\ LoadReqsOk(tb, n, P) THEN <<P>> ELSE << >>

Propagated(tb, n, P, hb, fences) ==
  IF propagation(tb, n, P) /\ observation(tb, n, P, hb, fences) /\ LoadReqsOk(tb, n, P)
  THEN <<P>> ELSE << >>

Allowed(tb, n, P, hb, fences) ==
  IF tb.mm = "ARM" /\ ~no_thin_air(tb, n, hb) THEN << >>
  ELSE Propagated(tb, n, calc_prop(tb, n, P, hb, fences), hb, fences)

WithPpo(tb, n, P, fences) == Allowed(tb, n, P, HbFwd(tb, n, P), fences)

populate_parameters(tb, n) ==
  LET prm == Populate(tb, n, <<BaseParam(tb, n)>>, get_evt(tb, n).baccesses, ComPoloc(tb))
  IN FlattenSeq([k \in DOMAIN prm |-> WithPpo(tb, n, ppo_to_hb(tb, n, prm[k]), FencesFwd(tb, n))])

(* What commit() keeps of them when the event is in a branch: a load that  *)
(* must read from the store before it, or the choices made earlier.        *)
Recalculated(evt, params) ==
  CASE evt.recalc_params = "LOAD" ->
         SelectSeq(params, LAMBDA P : evt.recalc_params_load_src \in P.rel.rf.bwd)
    [] evt.recalc_params = "PARAM" ->
         SelectSeq(params, LAMBDA P : P.choices = evt.cur_param.choices)
    [] OTHER -> params

-----------------------------------------------------------------------------
RECURSIVE SetEvts(_, _)
SetEvts(tb, f) ==
  IF f = << >> THEN tb ELSE SetEvts(SetEvt(tb, Head(f)[1], Head(f)[2]), Tail(f))

(* return_relations() and the extra edges: what the commit of n with P     *)
(* adds to the relations of another event.                                 *)
Returned(n, P, iid, rel) ==
  LET into(r) == IF iid \in P.rel[r].fwd THEN {n} ELSE {}
      from(r) == IF iid \in P.rel[r].bwd THEN {n} ELSE {}
      EHB == P.EHB
      hb_bwd == (IF iid \in EHB.after_I THEN EHB.I ELSE {}) \cup (IF iid \in EHB.after_C THEN EHB.C ELSE {})
      hb_fwd == (IF iid \in EHB.I THEN EHB.after_I ELSE {}) \cup (IF iid \in EHB.C THEN EHB.after_C ELSE {})
      prop_fwd == {x[2] : x \in {y \in P.prop : y[1] = iid}}
      prop_bwd == {x[1] : x \in {y \in P.prop : y[2] = iid}}
      ret(r) == Add(rel[r], from(r), into(r))
  IN [rf |-> ret("rf"), co |-> ret("co"), com |-> ret("com"), poloc |-> ret("poloc"),
      ii0 |-> ret("ii0"), ci0 |-> ret("ci0"), cc0 |-> ret("cc0"),
      hb |-> Add(ret("hb"), hb_fwd, hb_bwd), prop |-> Add(ret("prop"), prop_fwd, prop_bwd)]

(* compute_cb(): the events that must be committed before this one.        *)
M_compute_cb(tb, iid, evt, include_rf) ==
  LET snc == Max({evt.before.lwsync, evt.before.sync})
      own == evt.addr_deps \cup evt.data_deps \cup (1..snc)
      direct == Deps(iid[1], own) \cup (IF include_rf THEN evt.rel.rf.bwd ELSE {})
  IN {iid} \cup UNION {get_evt(tb, e).cb_bwd : e \in direct}

compute_cb(tb, iid, evt, include_rf) ==
  LET proc == iid[1]
      row == tb.fch[proc]
      snc == Max({evt.before.lwsync, evt.before.sync})
      own == evt.addr_deps \cup evt.data_deps \cup evt.ctrl_deps \cup evt.ctrl_isync_deps
               \cup UNION {IF k <= snc THEN {k} ELSE row[k].addr_deps : k \in 1..(iid[2] - 1)}
      direct == Deps(proc, own) \cup (IF include_rf THEN evt.rel.rf.bwd ELSE {})
                  \cup (IF tb.mm = "POWER" THEN evt.rel.poloc.bwd ELSE {})
  IN {iid} \cup UNION {get_evt(tb, e).cb_bwd : e \in direct}

(* setup_relations_cur_param(), with the parameter just chosen.            *)
setup_relations(tb, n, evt) ==
  LET P == evt.cur_param
      others == Fetched(tb) \ {n}
      changed == {e \in others : Returned(n, P, e, get_evt(tb, e).rel) # get_evt(tb, e).rel}
      seq == Listed(changed)
      tb1 == SetEvts(tb, [k \in DOMAIN seq |->
                            <<seq[k], [get_evt(tb, seq[k]) EXCEPT
                                         !.rel = Returned(n, P, seq[k], get_evt(tb, seq[k]).rel)]>>])
      related == [evt EXCEPT !.rel = P.rel]
  IN SetEvt(tb1, n, [related EXCEPT !.cb_bwd = compute_cb(tb1, n, related, TRUE)])

(* Mem::commit(), for one byte access of the event.                        *)
mem_commit(m, iid, choice) ==
  IF choice.co_pos >= 0
  THEN LET i == choice.co_pos
       IN [coherence |-> SubSeq(m.coherence, 1, i) \o <<iid>> \o SubSeq(m.coherence, i + 1, Len(m.coherence)),
           loads |-> SubSeq(m.loads, 1, i + 1) \o <<{}>> \o SubSeq(m.loads, i + 2, Len(m.loads))]
  ELSE LET l == IF choice.src = Null THEN 1
                ELSE 1 + CHOOSE i \in DOMAIN m.coherence : m.coherence[i] = choice.src
       IN [m EXCEPT !.loads[l] = @ \cup {iid}]

RECURSIVE CommitMem(_, _, _, _)
CommitMem(mem, iid, bytes, choices) ==
  IF bytes = << >> THEN mem
  ELSE LET b == Head(bytes).addr
           m == IF b \in DOMAIN mem THEN mem[b] ELSE EmptyMem
       IN CommitMem((b :> mem_commit(m, iid, Head(choices))) @@ mem, iid, Tail(bytes), Tail(choices))

-----------------------------------------------------------------------------
(* The order of branches: by type, by length, then lexicographically.      *)
iid_lt(a, b) ==
  IF a = Null \/ b = Null THEN a # b /\ a = Null
  ELSE a[1] < b[1] \/ (a[1] = b[1] /\ a[2] < b[2])
choice_lt(c, d) ==
  IF (c.co_pos >= 0) # (d.co_pos >= 0) THEN c.co_pos >= 0
  ELSE IF c.co_pos >= 0 THEN c.co_pos < d.co_pos ELSE iid_lt(c.src, d.src)
lex_lt(s, t, lt(_, _)) ==
  \/ \E i \in DOMAIN s \cap DOMAIN t : SubSeq(s, 1, i - 1) = SubSeq(t, 1, i - 1) /\ lt(s[i], t[i])
  \/ Len(s) < Len(t) /\ SubSeq(t, 1, Len(s)) = s
pevent_lt(e, f) == iid_lt(e.iid, f.iid) \/ (e.iid = f.iid /\ lex_lt(e.choices, f.choices, choice_lt))
branch_lt(A, B) ==
  IF A.param_type # B.param_type THEN A.param_type = "WR"
  ELSE IF Len(A.branch) # Len(B.branch) THEN Len(A.branch) < Len(B.branch)
  ELSE lex_lt(A.branch, B.branch, pevent_lt)

(* normalise_branch(): the events of a branch before its fixed tail are    *)
(* sorted by cb, then by IID.  Two stores to a byte that change places     *)
(* nudge each other's coherence position.                                  *)
branch_event_lt(tb, A, B) == A.iid \in get_evt(tb, B.iid).cb_bwd \/ iid_lt(A.iid, B.iid)

SamePlace(tb, A, B, a) ==
  {b \in DOMAIN B.choices : /\ get_evt(tb, A.iid).baccesses[a].store
                            /\ get_evt(tb, B.iid).baccesses[b].store
                            /\ get_evt(tb, A.iid).baccesses[a].addr = get_evt(tb, B.iid).baccesses[b].addr}
Nudged(tb, A, B, before) ==
  [A EXCEPT !.choices =
     [a \in DOMAIN A.choices |->
        LET c == A.choices[a]
            same == SamePlace(tb, A, B, a)
            other == B.choices[CHOOSE b \in same : TRUE].co_pos
        IN IF same = {} THEN c
           ELSE IF before /\ c.co_pos >= other THEN CoChoice(c.co_pos + 1)
           ELSE IF ~before /\ other < c.co_pos THEN CoChoice(c.co_pos - 1)
           ELSE c]]

RECURSIVE Sink(_, _, _)
Sink(tb, s, j) ==
  IF j = 1 \/ branch_event_lt(tb, s[j - 1], s[j]) THEN s
  ELSE Sink(tb, SubSeq(s, 1, j - 2) \o <<Nudged(tb, s[j], s[j - 1], FALSE), Nudged(tb, s[j - 1], s[j], TRUE)>>
                  \o SubSeq(s, j + 1, Len(s)), j - 1)

RECURSIVE SinkFrom(_, _, _)
SinkFrom(tb, s, i) == IF i > Len(s) THEN s ELSE SinkFrom(tb, Sink(tb, s, i), i + 1)
normalise_branch(tb, s) == SinkFrom(tb, s, 2)

-----------------------------------------------------------------------------
is_mutex_lock(e) ==
  /\ Len(e.baccesses) = 2 /\ Len(e.accesses) = 2 /\ e.load_count = 1
  /\ e.baccesses[1].addr = e.baccesses[2].addr
  /\ e.accesses[1].load_req # << >>

(* The events from position start on that are in cb, with the coherence    *)
(* positions they have without the stores that are not.                    *)
BranchBody(tb, start, cb) ==
  LET kept == SelectSeq([i \in 1..tb.sched_count |-> i], LAMBDA i : i >= start /\ tb.prefix[i] \in cb)
      removed(i) == {tb.prefix[j] : j \in {k \in start..(i - 1) : tb.prefix[k] \notin cb}}
      pos(co, iid) == CHOOSE k \in DOMAIN co : co[k] = iid
      gone(i, b) == LET co == tb.mem[b].coherence
                    IN Cardinality({k \in 1..(pos(co, tb.prefix[i]) - 1) : co[k] \in removed(i)})
      choices(i) == LET evt == get_evt(tb, tb.prefix[i])
                        cs == evt.cur_param.choices
                    IN [a \in DOMAIN cs |->
                          IF evt.baccesses[a].store
                          THEN CoChoice(cs[a].co_pos - gone(i, evt.baccesses[a].addr)) ELSE cs[a]]
  IN [k \in DOMAIN kept |-> [iid |-> tb.prefix[kept[k]], choices |-> choices(kept[k])]]

BranchStart(tb, r) ==
  IF get_evt(tb, r).branch_start > 0 THEN get_evt(tb, r).branch_start
  ELSE CHOOSE i \in DOMAIN tb.prefix : tb.prefix[i] = r

BranchFor(tb, w, r, cb, lock_lock) ==
  LET tail(iid) == [iid |-> iid, choices |-> << >>]
      body == normalise_branch(tb, BranchBody(tb, BranchStart(tb, r), cb))
  IN IF lock_lock THEN [param_type |-> "STAR", branch |-> body \o <<tail(w)>>]
     ELSE [param_type |-> "WR", branch |-> body \o <<tail(w), tail(r)>>]

(* The loads that could read from w, were it committed before them.        *)
Conflicts(tb, w, cb_wo_rf) ==
  LET evt == get_evt(tb, w)
      loads(b) == UNION Range(MemAt(tb, b).loads)
      all == UNION {loads(evt.baccesses[k].addr) : k \in {i \in DOMAIN evt.baccesses : evt.baccesses[i].store}}
  IN {r \in all :
        /\ ~(r[1] = w[1] /\ r[2] <= w[2])
        /\ LET r_evt == get_evt(tb, r)
           IN IF is_mutex_lock(evt) /\ is_mutex_lock(r_evt)
              THEN r_evt.branch_end = 0 /\ r \notin cb_wo_rf
              ELSE r \notin evt.cb_bwd /\ (r_evt.branch_end = 0 \/ tb.prefix[r_evt.branch_end] = r)}

NewBranches(tb, w, cb_wo_rf, conflicts) ==
  {[start |-> BranchStart(tb, r),
    branch |-> LET ll == is_mutex_lock(get_evt(tb, w)) /\ is_mutex_lock(get_evt(tb, r))
               IN BranchFor(tb, w, r, IF ll THEN cb_wo_rf ELSE get_evt(tb, w).cb_bwd, ll)]
     : r \in conflicts}

M_AddBranches(tb, found) ==
  LET at == Listed({x.start : x \in found})
      owner(i) == get_evt(tb, tb.prefix[i])
      fresh(i) == {x.branch : x \in {y \in found : y.start = i}}
  IN SetEvts(tb, [k \in DOMAIN at |->
                    <<tb.prefix[at[k]], [owner(at[k]) EXCEPT !.new_branches = @ \cup fresh(at[k])]>>])

AddBranches(tb, found) ==
  LET at == Listed({x.start : x \in found})
      owner(i) == get_evt(tb, tb.prefix[i])
      fresh(i) == {x.branch : x \in {y \in found : y.start = i}}
      wanted(i) == {B \in fresh(i) : owner(i).branch_start = 0 \/ branch_lt(owner(i).cur_branch, B)}
  IN SetEvts(tb, [k \in DOMAIN at |->
                    <<tb.prefix[at[k]], [owner(at[k]) EXCEPT !.new_branches = @ \cup wanted(at[k])]>>])

detect_rw_conflicts(tb, w) ==
  LET cb_wo_rf == compute_cb(tb, w, get_evt(tb, w), FALSE)
  IN AddBranches(tb, NewBranches(tb, w, cb_wo_rf, Conflicts(tb, w, cb_wo_rf)))

-----------------------------------------------------------------------------
(* commit(): with the parameter prefix fixes, or with the last of those    *)
(* that are allowed; the others are left for reset().  schedule() calls    *)
(* committable(), which sets rel.poloc.bwd, only when it extends prefix:   *)
(* in replay the call is in an assertion, which NDEBUG removes.            *)
CommitWith(tb, n, evt) ==
  LET tb1 == setup_relations(tb, n, evt)
      tb2 == [tb1 EXCEPT !.mem = CommitMem(@, n, evt.baccesses, evt.cur_param.choices)]
      tb3 == detect_rw_conflicts(tb2, n)
  IN [ok |-> TRUE,
      tb |-> [tb3 EXCEPT !.fch[n[1]][n[2]].committed = TRUE,
                         !.uncommitted_nonblocking_count = IF has_load_req(evt) THEN @ ELSE @ - 1]]

CommitNew(tb, n, evt, params) ==
  IF params = << >>
  THEN [ok |-> FALSE, tb |-> detect_rw_conflicts(SetEvt(tb, n, [evt EXCEPT !.new_params = << >>]), n)]
  ELSE CommitWith(tb, n, [evt EXCEPT !.cur_param = params[Len(params)],
                                     !.new_params = SubSeq(params, 1, Len(params) - 1),
                                     !.recalc_params = "NO"])

commit(tb, n, replay) ==
  LET evt == IF tb.mm = "POWER" /\ ~replay
             THEN [get_evt(tb, n) EXCEPT !.rel.poloc.bwd = compute_poloc_bwd(tb, n)]
             ELSE get_evt(tb, n)
  IN IF replay /\ evt.recalc_params = "NO" THEN CommitWith(tb, n, evt)
     ELSE CommitNew(tb, n, evt, Recalculated(evt, populate_parameters(tb, n)))

Uncommitted(tb) ==
  LET row(p) == SelectSeq([i \in 1..tb.threads[p].fch_count |-> <<p, i>>],
                          LAMBDA e : ~get_evt(tb, e).committed)
  IN FlattenSeq([p \in DOMAIN tb.threads |-> row(p)])

NothingToDo == Null

(* schedule(): the next event of prefix, else the first fetched event that *)
(* is committable and not blocked.  iid is Null when there is none.        *)
RECURSIVE ScheduleNew(_, _)
Scheduled(r, evts) ==
  IF r.ok THEN [iid |-> Head(evts),
                tb |-> [r.tb EXCEPT !.prefix = Append(@, Head(evts)), !.sched_count = @ + 1]]
  ELSE ScheduleNew(r.tb, Tail(evts))
ScheduleNew(tb, evts) ==
  IF evts = << >> THEN [iid |-> NothingToDo, tb |-> tb]
  ELSE IF ~committable(tb, Head(evts)) THEN ScheduleNew(tb, Tail(evts))
  ELSE Scheduled(commit(tb, Head(evts), FALSE), evts)

Replayed(iid, r) ==
  IF r.ok THEN [iid |-> iid, tb |-> [r.tb EXCEPT !.sched_count = @ + 1]] ELSE [iid |-> NothingToDo, tb |-> r.tb]
schedule(tb) ==
  IF tb.sched_count < Len(tb.prefix)
  THEN LET iid == tb.prefix[tb.sched_count + 1] IN Replayed(iid, commit(tb, iid, TRUE))
  ELSE ScheduleNew(tb, Uncommitted(tb))

-----------------------------------------------------------------------------
sleepset_is_empty(tb) == tb.uncommitted_nonblocking_count = 0

(* error_is_real(): everything (po U rf)-before the place of the error is  *)
(* committed.  iid is the last committed event when the error was met.     *)
M_error_is_real(tb, iid) ==
  LET before == [e \in Fetched(tb) |-> {<<e[1], i>> : i \in 1..(e[2] - 1)} \cup get_evt(tb, e).rel.rf.bwd]
  IN \A e \in Reach({iid}, before) : committed_prefix(tb, e[1]) > e[2]

error_is_real(tb, iid) ==
  LET before == [e \in Fetched(tb) |-> {<<e[1], i>> : i \in 1..(e[2] - 1)} \cup get_evt(tb, e).rel.rf.bwd]
  IN \A e \in Reach({iid}, before) : committed_prefix(tb, e[1]) >= e[2]

EmptyEvent == [Event(0, 0, {}, {}, NoFences) EXCEPT !.filled_status = "EMPTY"]

(* The events of this computation make room for the next: those of keep    *)
(* stay, with what they are to do.                                         *)
Cleared(tb, keep) ==
  [tb EXCEPT !.fch = [p \in DOMAIN tb.fch |->
                        [i \in DOMAIN tb.fch[p] |->
                           IF p \notin DOMAIN tb.threads \/ i > tb.threads[p].fch_count THEN tb.fch[p][i]
                           ELSE IF <<p, i>> \in keep
                           THEN [tb.fch[p][i] EXCEPT !.committed = FALSE, !.accesses = << >>, !.baccesses = << >>]
                           ELSE EmptyEvent]],
             !.sched_count = 0, !.threads = <<NewThread>>, !.mem = << >>, !.errors = {}]

(* replay(): the same computation once more.                               *)

replay(tb) == Cleared(tb, Committed(tb))

LeastBranch(S) == CHOOSE B \in S : \A C \in S \ {B} : branch_lt(B, C)

NextParam(tb, i) ==
  LET iid == tb.prefix[i]
      evt == get_evt(tb, iid)
      len == IF evt.branch_start > 0 THEN evt.branch_end ELSE i
      tb1 == SetEvt(tb, iid, [evt EXCEPT !.cur_param = evt.new_params[Len(evt.new_params)],
                                         !.new_params = SubSeq(evt.new_params, 1, Len(evt.new_params) - 1)])
      load == tb.prefix[i + 1]
  IN [len |-> len,
      tb |-> IF evt.branch_start = 0 \/ i = evt.branch_end THEN tb1
             ELSE SetEvt(tb1, load, [get_evt(tb1, load) EXCEPT !.recalc_params = "LOAD",
                                                               !.filled_status = "PARAMETER"])]

InstallBranch(tb, i, branches, B) ==
  LET n == Len(B.branch)
      store == B.branch[IF B.param_type = "WR" THEN n - 1 ELSE n].iid
      recalc(j) == IF B.param_type = "WR" /\ j = n THEN "LOAD"
                   ELSE IF B.branch[j].iid = store THEN "STAR" ELSE "PARAM"
      install(j) ==
        LET old == get_evt(tb, B.branch[j].iid)
        IN [old EXCEPT !.cur_param = [NoParam EXCEPT !.choices = B.branch[j].choices],
                       !.branch_start = i, !.branch_end = i + n - 1,
                       !.new_branches = IF j = 1 THEN branches \ {B} ELSE {},
                       !.cur_branch = IF j = 1 THEN B ELSE @,
                       !.new_params = << >>, !.filled_status = "PARAMETER",
                       !.recalc_params = recalc(j),
                       !.recalc_params_load_src = IF recalc(j) = "LOAD" THEN store ELSE @]
      tb1 == SetEvt(tb, tb.prefix[i], [get_evt(tb, tb.prefix[i]) EXCEPT !.new_branches = {}])
  IN [len |-> i + n - 1,
      tb |-> [SetEvts(tb1, [j \in 1..n |-> <<B.branch[j].iid, install(j)>>])
                EXCEPT !.prefix = SubSeq(tb.prefix, 1, i - 1) \o [j \in 1..n |-> B.branch[j].iid]]]

(* reset(): the last event with something left to try decides the next     *)
(* computation, new parameters before new branches.                        *)
reset(tb) ==
  LET open == {i \in DOMAIN tb.prefix : \/ get_evt(tb, tb.prefix[i]).new_params # << >>
                                        \/ get_evt(tb, tb.prefix[i]).new_branches # {}}
      i == Max(open)
      evt == get_evt(tb, tb.prefix[i])
      next == IF evt.new_params # << >> THEN NextParam(tb, i)
              ELSE InstallBranch(tb, i, evt.new_branches, LeastBranch(evt.new_branches))
      prefix == SubSeq(next.tb.prefix, 1, next.len)
  IN IF open = {} THEN [more |-> FALSE, tb |-> tb]
     ELSE [more |-> TRUE,
           tb |-> [Cleared(next.tb, Range(prefix))
                     EXCEPT !.prefix = prefix, !.uncommitted_nonblocking_count = 0]]
=============================================================================
