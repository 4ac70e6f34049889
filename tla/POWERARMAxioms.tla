--------------------------- MODULE POWERARMAxioms ---------------------------
(***************************************************************************)
(* The reference for the trace builder of POWER and ARM: the candidate     *)
(* executions of a program in which no condition fails, and the four       *)
(* axioms of the memory models (SC PER LOCATION, NO THIN AIR, OBSERVATION, *)
(* PROPAGATION), stated over whole executions and whole relations.  Only   *)
(* the form of programs is shared with the model of the interpreter.       *)
(***************************************************************************)
EXTENDS Integers, Sequences, FiniteSets, TLC, SequencesExt, FiniteSetsExt

-----------------------------------------------------------------------------
(* Relations, as sets of pairs.                                            *)
Seq2(r, s) == {<<x[1][1], x[2][2]>> : x \in {y \in r \X s : y[1][2] = y[2][1]}}
Plus(r) == LET RECURSIVE grow(_)
               grow(q) == LET n == q \cup Seq2(q, r) IN IF n = q THEN q ELSE grow(n)
           IN grow(r)
Id(S) == {<<x, x>> : x \in S}
Star(r, S) == Id(S) \cup Plus(r)
Irreflexive(r) == \A x \in r : x[1] # x[2]
Acyclic(r) == Irreflexive(Plus(r))

-----------------------------------------------------------------------------
(* The items of a thread: its events, and the fences and the control       *)
(* dependencies between them.                                              *)
EventItem(pc, R, W, req, adeps, ddeps) ==
  <<[k |-> "event", pc |-> pc, R |-> R, W |-> W, req |-> req, adeps |-> adeps, ddeps |-> ddeps]>>
MarkItem(k, deps) ==
  <<[k |-> k, pc |-> 0, R |-> {}, W |-> {}, req |-> << >>, adeps |-> {}, ddeps |-> deps]>>

StatusByte(p) == <<"status", p>>
Bytes(s) == {s[i] : i \in DOMAIN s}
Writes(I) == {<<I.addr[i], I.val[i]>> : i \in DOMAIN I.addr}

ItemsOf(I, pc, child) ==
  CASE I.op = "load" -> EventItem(pc, Bytes(I.addr), {}, << >>, I.adeps, {})
    [] I.op = "store" -> EventItem(pc, {}, Writes(I), << >>, I.adeps, I.ddeps)
    [] I.op = "create" -> MarkItem("lwsync", {}) \o
         EventItem(pc, {}, {<<I.addr[1], child>>, <<StatusByte(child), 1>>}, << >>, {}, {})
    [] I.op = "join" -> EventItem(pc, {StatusByte(I.fun)}, {}, <<2>>, I.adeps, {}) \o
                          MarkItem("ctrl", {pc}) \o MarkItem("lwsync", {})
    [] I.op = "lock" -> EventItem(pc, Bytes(I.addr), {<<I.addr[1], 1>>}, <<0>>, {}, {}) \o
                          MarkItem("ctrl", {pc}) \o MarkItem("sync", {})
    [] I.op = "unlock" -> MarkItem("sync", {}) \o EventItem(pc, {}, {<<I.addr[1], 0>>}, << >>, {}, {})
    [] I.op = "mutex_init" -> EventItem(pc, {}, {<<I.addr[1], 0>>}, << >>, {}, {})
    [] I.op \in {"br", "switch", "ret", "assume", "assert"} -> MarkItem("ctrl", I.ddeps)
    [] OTHER -> MarkItem(I.op, {})

Children(P) == SelectSeq(P[1], LAMBDA I : I.op = "create")
FunOf(P, p) == IF p = 1 THEN 1 ELSE Children(P)[p - 1].fun
Items(P, p) ==
  LET code == P[FunOf(P, p)]
      created(pc) == 1 + Cardinality({q \in 1..pc : code[q].op = "create"})
      start == EventItem(0, {StatusByte(p)}, {}, <<1>>, {}, {}) \o MarkItem("lwsync", {})
      exit == MarkItem("lwsync", {}) \o EventItem(0, {}, {<<StatusByte(p), 2>>}, << >>, {}, {})
  IN (IF p = 1 THEN << >> ELSE start) \o
     FlattenSeq([pc \in DOMAIN code |-> ItemsOf(code[pc], pc, created(pc))]) \o exit

-----------------------------------------------------------------------------
(* The events and the relations that the program alone determines.         *)
(* Explicit(f) is f, in the form in which TLC does not compute f[x] anew.   *)
Explicit(f) == f @@ << >>

Structure(P) ==
  LET procs == 1..(Len(Children(P)) + 1)
      items == Explicit([p \in procs |-> Items(P, p)])
      evs(p) == {j \in DOMAIN items[p] : items[p][j].k = "event"}
      idx(p, j) == Cardinality({i \in evs(p) : i <= j})
      node(p, j) == <<p, idx(p, j)>>
      E == UNION {{node(p, j) : j \in evs(p)} : p \in procs}
      item(e) == items[e[1]][CHOOSE j \in evs(e[1]) : idx(e[1], j) = e[2]]
      at(p, pc) == CHOOSE j \in evs(p) : items[p][j].pc = pc
      po == {x \in E \X E : x[1][1] = x[2][1] /\ x[1][2] < x[2][2]}
      dep(p, j, S) == {<<node(p, at(p, pc)), node(p, j)>> : pc \in S}
      marks(p, k) == {j \in DOMAIN items[p] : items[p][j].k = k}
      across(k) == {x \in po : \E j \in marks(x[1][1], k) :
                                 idx(x[1][1], j) >= x[1][2] /\ idx(x[1][1], j) < x[2][2]}
      ctrl(cfence) == {x \in po :
         LET p == x[1][1]
         IN \E j \in marks(p, "ctrl") :
              /\ \E pc \in items[p][j].ddeps : node(p, at(p, pc)) = x[1]
              /\ idx(p, j) < x[2][2]
              /\ cfence => \E i \in marks(p, "isync") : i > j /\ idx(p, i) < x[2][2]}
  IN [E |-> E, po |-> po,
      reads |-> Explicit([e \in E |-> item(e).R]), req |-> Explicit([e \in E |-> item(e).req]),
      writes |-> Explicit([e \in E |-> {w[1] : w \in item(e).W}]),
      value |-> Explicit([e \in E |-> item(e).W]),
      addr |-> UNION {UNION {dep(p, j, items[p][j].adeps) : j \in evs(p)} : p \in procs},
      data |-> UNION {UNION {dep(p, j, items[p][j].ddeps) : j \in evs(p)} : p \in procs},
      ctrl |-> ctrl(FALSE), ctrlcfence |-> ctrl(TRUE),
      sync |-> across("sync"), lwsync |-> across("lwsync"), eieio |-> across("eieio")]

ByteSet(G) == UNION {G.reads[e] \cup G.writes[e] : e \in G.E}
ReadersOf(G, b) == {e \in G.E : b \in G.reads[e]}
WritersOf(G, b) == {e \in G.E : b \in G.writes[e]}

(* A candidate is what the trace builder's mem is at the end: the order of *)
(* the stores to each byte, and for each of them, and for the initial      *)
(* value, the loads that read it.  Orders that program order excludes, and *)
(* a lock that does not read the store just before its own, are left out:  *)
(* SC PER LOCATION excludes them.                                          *)
InitialByte == 0
ReadValue(G, b, co, i) == IF i = 0 THEN InitialByte
                          ELSE (CHOOSE w \in G.value[co[i]] : w[1] = b)[2]
Readings(G, b, co) ==
  {f \in [ReadersOf(G, b) -> 0..Len(co)] :
     \A r \in ReadersOf(G, b) :
       /\ G.req[r] # << >> => ReadValue(G, b, co, f[r]) = G.req[r][1]
       /\ b \in G.writes[r] => f[r] < Len(co) /\ co[f[r] + 1] = r}
ByteCandidates(G, b) ==
  UNION {{[coherence |-> co, loads |-> [i \in 1..(Len(co) + 1) |-> {r \in DOMAIN f : f[r] = i - 1}]]
            : f \in Readings(G, b, co)}
         : co \in {s \in SetToSeqs(WritersOf(G, b)) :
                     \A i, j \in DOMAIN s : i < j => <<s[j], s[i]>> \notin G.po}}

CoOf(m) == {<<m.coherence[x[1]], m.coherence[x[2]]>> :
              x \in {y \in (DOMAIN m.coherence) \X (DOMAIN m.coherence) : y[1] < y[2]}}
RfOf(m) == UNION {{<<m.coherence[i], r>> : r \in m.loads[i + 1]} : i \in DOMAIN m.coherence}
FrOf(m) == {x \in UNION {m.loads[i] \X {m.coherence[j] : j \in i..Len(m.coherence)} : i \in DOMAIN m.loads} :
              x[1] # x[2]}

(* SC PER LOCATION.                                                        *)
PoLoc(G, b) == {x \in G.po : \A e \in {x[1], x[2]} : b \in G.reads[e] \cup G.writes[e]}
ScPerLocation(G, b, m) == Acyclic(PoLoc(G, b) \cup CoOf(m) \cup RfOf(m) \cup FrOf(m))

-----------------------------------------------------------------------------
External(r) == {x \in r : x[1][1] # x[2][1]}
Internal(r) == r \ External(r)

(* Preserved program order: the least fixed point over init and commit     *)
(* parts of events.                                                        *)
RECURSIVE PpoFix(_, _, _, _)
PpoFix(ii, ic, ci, cc) ==
  LET ii1 == ii \cup ci \cup Seq2(ic, ci) \cup Seq2(ii, ii)
      ic1 == ic \cup ii \cup cc \cup Seq2(ic, cc) \cup Seq2(ii, ic)
      ci1 == ci \cup Seq2(ci, ii) \cup Seq2(cc, ci)
      cc1 == cc \cup ci \cup Seq2(ci, ic) \cup Seq2(cc, cc)
  IN IF ii1 = ii /\ ic1 = ic /\ ci1 = ci /\ cc1 = cc THEN [ii |-> ii, ic |-> ic]
     ELSE PpoFix(ii1, ic1, ci1, cc1)

Relations(G, mm, poloc, co, rf, fr) ==
  LET R == {e \in G.E : G.reads[e] # {}}
      W == {e \in G.E : G.writes[e] # {}}
      dp == G.addr \cup G.data
      rdw == poloc \cap Seq2(External(fr), External(rf))
      detour == poloc \cap Seq2(External(co), External(rf))
      fix == PpoFix(dp \cup rdw \cup Internal(rf), {}, G.ctrlcfence \cup detour,
                    dp \cup G.ctrl \cup Seq2(G.addr, G.po) \cup (IF mm = "POWER" THEN poloc ELSE {}))
      ppo == ((R \X R) \cap fix.ii) \cup ((R \X W) \cap fix.ic)
      lw == {x \in G.lwsync : x[1] \in R \/ x[2] \in W}
      fences == G.sync \cup lw \cup ((W \X W) \cap G.eieio)
      hb == ppo \cup fences \cup External(rf)
      hbs == Star(hb, G.E)
      base == Seq2(fences \cup Seq2(External(rf), fences), hbs)
      com == co \cup rf \cup fr
      prop == ((W \X W) \cap base) \cup
              Seq2(Seq2(Seq2(Star(com, G.E), Star(base, G.E)), G.sync), hbs)
  IN [hb |-> hb, hbs |-> hbs, prop |-> prop]

NoThinAir(r) == Acyclic(r.hb)
Observation(r, fr) == Irreflexive(Seq2(Seq2(External(fr), r.prop), r.hbs))
Propagation(r, co) == Acyclic(co \cup r.prop)

Axioms(G, r, co, fr) == NoThinAir(r) /\ Observation(r, fr) /\ Propagation(r, co)

AllowedExecution(G, mm, mem) ==
  LET co == UNION {CoOf(mem[b]) : b \in DOMAIN mem}
      rf == UNION {RfOf(mem[b]) : b \in DOMAIN mem}
      fr == UNION {FrOf(mem[b]) : b \in DOMAIN mem}
      poloc == UNION {PoLoc(G, b) : b \in DOMAIN mem}
  IN Acyclic(poloc \cup co \cup rf \cup fr) /\ Axioms(G, Relations(G, mm, poloc, co, rf, fr), co, fr)

RECURSIVE Candidates(_, _)
Candidates(G, bs) ==
  IF bs = {} THEN {<< >>}
  ELSE LET b == CHOOSE x \in bs : TRUE
       IN {[x \in {b} |-> c[1]] @@ c[2] :
             c \in {m \in ByteCandidates(G, b) : ScPerLocation(G, b, m)} \X Candidates(G, bs \ {b})}

Executions(P, mm, G) == {mem \in Candidates(G, ByteSet(G)) : AllowedExecution(G, mm, mem)}
AllowedExecutions(P, mm) == Executions(P, mm, Structure(P))

(* The conditions of the program hold in the execution.                    *)
CondHolds(P, G, mem, p, pc) ==
  LET code == P[FunOf(P, p)]
      I == code[pc]
      items == Items(P, p)
      idx(d) == Cardinality({j \in DOMAIN items : /\ items[j].k = "event"
                                                  /\ \E i \in j..Len(items) : items[i].k = "event" /\ items[i].pc = d})
      seen(d, b) == LET i == CHOOSE x \in DOMAIN mem[b].loads : <<p, idx(d)>> \in mem[b].loads[x]
                    IN ReadValue(G, b, mem[b].coherence, i - 1)
  IN \A d \in I.ddeps : [i \in DOMAIN code[d].addr |-> seen(d, code[d].addr[i])] = I.val
Conditions(P, ops) ==
  UNION {{<<p, pc>> : pc \in {q \in DOMAIN P[FunOf(P, p)] : P[FunOf(P, p)][q].op \in ops}}
         : p \in 1..(Len(Children(P)) + 1)}
=============================================================================
