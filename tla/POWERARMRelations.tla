------------------------- MODULE POWERARMRelations -------------------------
(***************************************************************************)
(* The event structure of the POWER and ARM trace builder, and its checks  *)
(* of the memory model.  Committing an event fixes a coherence position    *)
(* for each byte it stores and a source for each byte it loads (a Param).  *)
(* The relations of the Herding Cats framework are kept incrementally: a   *)
(* Param lists the edges between the new event and the committed ones,     *)
(* plus the edges between older events that the new one completes (EHB and *)
(* prop).  ppo_to_hb(), no_thin_air(), calc_prop(), propagation() and      *)
(* observation() search this structure by colouring events; a colour bit   *)
(* is here the second component of a search node.                          *)
(*                                                                         *)
(* Threads are numbered from 1, an IID is a pair <<proc, index>>, and      *)
(* positions in prefix count from 1 with 0 for "none".  The builder is one *)
(* record tb, its fields are those of class TB.                            *)
(***************************************************************************)
EXTENDS Integers, Sequences, FiniteSets, TLC

Null == << >>                                    \* IID<int>()

NoRel == [fwd |-> {}, bwd |-> {}]
NoRelations ==
  [rf |-> NoRel, co |-> NoRel, com |-> NoRel, poloc |-> NoRel, ii0 |-> NoRel,
   ci0 |-> NoRel, cc0 |-> NoRel, hb |-> NoRel, prop |-> NoRel]

NoExtraHB == [I |-> {}, C |-> {}, after_I |-> {}, after_C |-> {}]

(* A Param before any choice is made.  ER.prop is the set prop of pairs.   *)
NoParam == [choices |-> << >>, rel |-> NoRelations, EHB |-> NoExtraHB, prop |-> {}]

CoChoice(i) == [co_pos |-> i, src |-> Null]
SrcChoice(iid) == [co_pos |-> -1, src |-> iid]

NoFences == [eieio |-> -1, lwsync |-> -1, sync |-> -1]

NoBranch == [param_type |-> "WR", branch |-> << >>]

(* PAEvent: load_count loads followed by store_count stores.  An access    *)
(* has the bytes of its address and the data it stores, << >> while they   *)
(* are not known, and the value its load must return, << >> for any.       *)
Event(loads, stores, addr_deps, data_deps, fences_before) ==
  [filled_status |-> "COMPLETE", committed |-> FALSE,
   load_count |-> loads, has_load |-> loads > 0, has_store |-> stores > 0,
   accesses |-> [i \in 1..(loads + stores) |->
                   [store |-> i > loads, addr |-> << >>, data |-> << >>, load_req |-> << >>]],
   baccesses |-> << >>,
   addr_deps |-> addr_deps, data_deps |-> data_deps,
   ctrl_deps |-> {}, ctrl_isync_deps |-> {},
   before |-> fences_before, after |-> NoFences,
   rel |-> NoRelations, cb_bwd |-> {},
   cur_param |-> NoParam, new_params |-> << >>,
   recalc_params |-> "NO", recalc_params_load_src |-> Null,
   branch_start |-> 0, branch_end |-> 0,
   cur_branch |-> NoBranch, new_branches |-> {}]

EmptyMem == [coherence |-> << >>, loads |-> <<{}>>]

get_evt(tb, iid) == tb.fch[iid[1]][iid[2]]

Procs(tb) == DOMAIN tb.threads
Fetched(tb) == UNION {{<<p, i>> : i \in 1..tb.threads[p].fch_count} : p \in Procs(tb)}
Committed(tb) == {e \in Fetched(tb) : get_evt(tb, e).committed}

MemAt(tb, b) == IF b \in DOMAIN tb.mem THEN tb.mem[b] ELSE EmptyMem

-----------------------------------------------------------------------------
(* What a search reaches from front, when seen is coloured already.        *)
RECURSIVE Search(_, _, _)
Search(seen, front, adj) ==
  IF front = {} THEN seen
  ELSE LET new == UNION {adj[x] : x \in front} \ seen
       IN Search(seen \cup new, new, adj)

Reach(S, adj) == Search(S, S, adj)

(* The edges of relation r when event n is committed with parameter P: the *)
(* _NE colours are the edges into n, which the older events do not list.   *)
FwdOf(tb, n, P, r) ==
  [e \in Committed(tb) \cup {n} |->
     IF e = n THEN P.rel[r].fwd
     ELSE get_evt(tb, e).rel[r].fwd \cup (IF e \in P.rel[r].bwd THEN {n} ELSE {})]

ExtraHBFwd(EHB, e) ==
  IF e \in EHB.I THEN EHB.after_I \cup EHB.after_C
  ELSE IF e \in EHB.C THEN EHB.after_C ELSE {}

HbFwd(tb, n, P) ==
  LET hb == FwdOf(tb, n, P, "hb")
  IN [e \in DOMAIN hb |-> hb[e] \cup ExtraHBFwd(P.EHB, e)]

(* The fence relation, from the indexes of the fences before an event...   *)
FenceBwd(e, fe, k) ==
  LET lw == e.before.lwsync >= k
      sync == e.before.sync >= k
  IN \/ fe.has_load /\ (lw \/ sync)
     \/ fe.has_store /\ sync
     \/ fe.has_store /\ e.has_store /\ (lw \/ e.before.eieio >= k)

(* ...and from those after it: fe is the k:th event of the thread of e.    *)
Passed(idx, k) == idx # -1 /\ idx < k
FenceFwd(e, fe, k) ==
  LET lw == Passed(e.after.lwsync, k)
      sync == Passed(e.after.sync, k)
  IN \/ sync
     \/ lw /\ (fe.has_store \/ e.has_load)
     \/ fe.has_store /\ e.has_store /\ Passed(e.after.eieio, k)

FencesFwd(tb, n) ==
  [e \in Committed(tb) \cup {n} |->
     {f \in Committed(tb) \cup {n} :
        f[1] = e[1] /\ FenceFwd(get_evt(tb, e), get_evt(tb, f), f[2])}]

-----------------------------------------------------------------------------
(* fences_to_hb(): the fence edges between n and the committed events of   *)
(* its thread.  An absent fence after n has index -1, below every k.       *)
fences_to_hb(tb, n) ==
  LET evt == get_evt(tb, n)
      Own == {f \in Committed(tb) : f[1] = n[1]}
      present == {x \in {evt.after.lwsync, evt.after.sync}
                        \cup (IF evt.has_store THEN {evt.after.eieio} ELSE {}) : x # -1}
  IN [bwd |-> {f \in Own : f[2] < n[2] /\ FenceBwd(evt, get_evt(tb, f), f[2])},
      fwd |-> {f \in Own :
                 /\ \E b \in present : b < f[2]
                 /\ LET evt2 == get_evt(tb, f)
                    IN \/ evt.after.sync < f[2]
                       \/ evt.after.lwsync < f[2] /\ (evt2.has_store \/ evt.has_load)
                       \/ evt.after.eieio < f[2] /\ evt.has_store /\ evt2.has_store}]

(* ppo_to_hb(): two searches over ii0, ci0 and cc0.  A node <<e, m, s>>    *)
(* says that the search that started from the s half of n (I init, C       *)
(* commit) has visited the m half of e.                                    *)
Halves == {"I", "C"}

PpoAdj(tb, n, P, dir) ==
  LET rel(e) == IF e = n THEN P.rel ELSE get_evt(tb, e).rel
  IN [x \in Fetched(tb) \X Halves \X Halves |->
        LET to(r) == rel(x[1])[r][dir]
            init == CASE dir = "bwd" /\ x[2] = "I" -> to("ii0") \cup to("ci0")
                      [] dir = "bwd" /\ x[2] = "C" -> to("cc0")
                      [] dir = "fwd" /\ x[2] = "I" -> to("ii0")
                      [] OTHER -> to("ci0")
            commit == CASE dir = "bwd" /\ x[2] = "I" -> to("ci0")
                        [] dir = "bwd" /\ x[2] = "C" -> to("cc0")
                        [] dir = "fwd" /\ x[2] = "I" -> to("ii0")
                        [] OTHER -> to("ci0") \cup to("cc0")
        IN (init \X {"I"} \X {x[3]}) \cup (commit \X {"C"} \X {x[3]})]

ExtraHBOf(tb, n, bwd, fwd) ==
  LET others == Fetched(tb) \ {n}
      loads == {e \in others : get_evt(tb, e).has_load}
      stores == {e \in others : get_evt(tb, e).has_store}
      before == {x[1] : x \in bwd} \cap loads
      after_C == {e \in stores : <<e, "C", "C">> \in fwd}
                   \cup {e \in others \ stores : <<e, "I", "C">> \in fwd}
      after_I == {e \in stores : \E m \in Halves : <<e, m, "I">> \in fwd}
                   \cup {e \in others \ stores : <<e, "I", "I">> \in fwd}
  IN [I |-> {e \in before : <<e, "I", "I">> \in bwd}, C |-> before,
      after_I |-> after_I \ after_C, after_C |-> after_C]

PpoParam(tb, n, P, EHB, fwd) ==
  LET evt == get_evt(tb, n)
      later == {x[1] : x \in {y \in fwd : y[1] # n /\ (y[2] = "I" \/ get_evt(tb, y[1]).has_store)}}
  IN [P EXCEPT !.EHB = EHB,
               !.rel.hb.bwd = @ \cup (IF evt.has_store THEN EHB.C ELSE EHB.I),
               !.rel.hb.fwd = @ \cup (IF evt.has_load THEN later ELSE {})]

ppo_to_hb(tb, n, P) ==
  LET bwd == Reach({<<n, "I", "I">>, <<n, "I", "C">>, <<n, "C", "C">>}, PpoAdj(tb, n, P, "bwd"))
      fwd == Reach({<<n, "I", "I">>, <<n, "C", "I">>, <<n, "C", "C">>}, PpoAdj(tb, n, P, "fwd"))
  IN PpoParam(tb, n, P, ExtraHBOf(tb, n, bwd, fwd), fwd)

(* The depth first searches of no_thin_air() and propagation() fail on a   *)
(* cycle that their starting points reach.                                 *)
AcyclicFrom(S, adj) == \A e \in Reach(S, adj) : e \notin Reach(adj[e], adj)

no_thin_air(tb, n, hb) == AcyclicFrom(DOMAIN hb, hb)

-----------------------------------------------------------------------------
(* calc_prop_inits(): the events that may gain a prop edge.  They are      *)
(* com*;fences;hb*-before n or before an event that EHB puts after n; the  *)
(* colour AFTER_C is never given, so those in after_C continue with EHB.I. *)
calc_prop_inits(tb, n, P) ==
  LET nodes == Committed(tb) \cup {n}
      after == P.EHB.after_I \cup P.EHB.after_C
      hb == [e \in nodes |-> (IF e = n THEN P.rel ELSE get_evt(tb, e).rel).hb.bwd
                               \cup (IF e \in after THEN P.EHB.I ELSE {})]
      com == [e \in nodes |-> (IF e = n THEN P.rel ELSE get_evt(tb, e).rel).com.bwd]
      late == Reach({n} \cup after, hb)
      fenced == {fe \in nodes : \E e \in late :
                   fe[1] = e[1] /\ fe[2] < e[2] /\ FenceBwd(get_evt(tb, e), get_evt(tb, fe), fe[2])}
  IN Reach({n} \cup fenced, com)

(* One search of calc_prop(), from init: a node is an event and a colour,  *)
(* RFE and COM where rfe? and com* lead, L after rfe?;fences;hb*, R after  *)
(* com*;fences;hb*, S once a sync is passed.                               *)
PropAdj(tb, hb, fences) ==
  [x \in (DOMAIN hb) \X {"RFE", "COM", "L", "R", "S"} |->
     LET e == x[1]
         colour == CASE x[2] = "RFE" -> "L" [] x[2] = "COM" -> "R" [] OTHER -> x[2]
         synced == {f \in fences[e] : Passed(get_evt(tb, e).after.sync, f[2])}
     IN (fences[e] \X {colour}) \cup (synced \X {"S"})
          \cup (IF x[2] \in {"L", "R", "S"} THEN hb[e] \X {x[2]} ELSE {})]

PropFrom(tb, init, rf, com, adj) ==
  LET rfe == {init} \cup {e \in rf[init] : e[1] # init[1]}
      reached == Reach((rfe \X {"RFE"}) \cup (Reach({init}, com) \X {"COM"}), adj)
  IN {x[1] : x \in {y \in reached :
        \/ y[2] = "S"
        \/ y[2] = "L" /\ get_evt(tb, init).has_store /\ get_evt(tb, y[1]).has_store}}

(* The prop edges that are new, given those from each event of inits.      *)
PropParam(tb, n, P, prop) ==
  [P EXCEPT !.rel.prop.fwd = IF n \in DOMAIN prop THEN prop[n] ELSE {},
            !.rel.prop.bwd = {e \in DOMAIN prop : n \in prop[e]},
            !.prop = UNION {{<<e, f>> : f \in prop[e] \ ({n} \cup get_evt(tb, e).rel.prop.fwd)}
                              : e \in DOMAIN prop \ {n}}]

PropOf(tb, inits, rf, com, adj) == [e \in inits |-> PropFrom(tb, e, rf, com, adj)]

calc_prop(tb, n, P, hb, fences) ==
  PropParam(tb, n, P,
            PropOf(tb, calc_prop_inits(tb, n, P), FwdOf(tb, n, P, "rf"), FwdOf(tb, n, P, "com"),
                   PropAdj(tb, hb, fences)))

propagation(tb, n, P) ==
  LET co == FwdOf(tb, n, P, "co")
      prop == FwdOf(tb, n, P, "prop")
  IN AcyclicFrom({n} \cup {x[1] : x \in P.prop},
                 [e \in DOMAIN co |-> co[e] \cup prop[e]
                                        \cup {x[2] : x \in {y \in P.prop : y[1] = e}}])

-----------------------------------------------------------------------------
(* observation_find_inits(): the loads that an hb path through n may reach.*)
observation_find_inits(tb, n, com, hb, fences, EHB) ==
  {e \in Reach({n} \cup EHB.after_I \cup EHB.after_C
                 \cup UNION {fences[e] : e \in Reach({n}, com)}, hb) : get_evt(tb, e).has_load}

(* observation_get_fre(): the stores of other threads that are co-after    *)
(* what the load reads, byte by byte.                                      *)
observation_get_fre(tb, r, rf) ==
  LET evt == get_evt(tb, r)
      later(m) == LET src == {0} \cup {i \in DOMAIN m.coherence : m.coherence[i] \in rf}
                  IN {m.coherence[i] : i \in {j \in DOMAIN m.coherence : \A k \in src : k < j}}
  IN {w \in UNION {later(MemAt(tb, evt.baccesses[b].addr)) :
                     b \in {c \in DOMAIN evt.baccesses : ~evt.baccesses[c].store}} : w[1] # r[1]}

(* The search of observation() from the fre successors of one load.  HB is *)
(* fre;prop;hb*, HB_SYNC is fre;com*;prop-base* before a sync.  An event   *)
(* reached by fre;rfe is not continued by com.                             *)
ObsAdj(tb, com, hb, fences, rfe) ==
  [x \in (DOMAIN hb) \X {"FRE", "RFE", "COM", "HB", "HB_SYNC"} |->
     LET e == x[1]
         sync == get_evt(tb, e).after.sync
         synced == {f \in fences[e] : Passed(sync, f[2])}
         ffence == {f \in hb[e] : f[1] = e[1] /\ sync < f[2]}
     IN CASE x[2] \in {"FRE", "RFE"} -> fences[e] \X {"HB", "HB_SYNC"}
          [] x[2] = "COM" -> ((com[e] \ rfe) \X {"COM"}) \cup (fences[e] \X {"HB_SYNC"})
                               \cup (synced \X {"HB"})
          [] x[2] = "HB" -> hb[e] \X {"HB"}
          [] OTHER -> (hb[e] \X {"HB_SYNC"}) \cup (ffence \X {"HB"})]

Observes(tb, r, fre, rf, com, hb, fences) ==
  LET rfe == UNION {{f \in rf[e] : f[1] # e[1]} : e \in fre}
  IN \E c \in {"FRE", "RFE", "COM", "HB", "HB_SYNC"} :
       <<r, c>> \in Reach((fre \X {"FRE", "COM"}) \cup (rfe \X {"RFE"}),
                          ObsAdj(tb, com, hb, fences, rfe))

ObservationOk(tb, n, P, rf, com, hb, fences) ==
  \A r \in observation_find_inits(tb, n, com, hb, fences, P.EHB) :
    ~Observes(tb, r,
              observation_get_fre(tb, r, IF r = n THEN P.rel.rf.bwd ELSE get_evt(tb, r).rel.rf.bwd),
              rf, com, hb, fences)

observation(tb, n, P, hb, fences) ==
  ObservationOk(tb, n, P, FwdOf(tb, n, P, "rf"), FwdOf(tb, n, P, "com"), hb, fences)
=============================================================================
