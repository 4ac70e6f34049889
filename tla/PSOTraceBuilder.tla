-------------------------- MODULE PSOTraceBuilder ---------------------------
(***************************************************************************)
(* PSOTraceBuilder: source-DPOR under partial store order.  A real thread  *)
(* and each of its store buffers are threads of their own to the           *)
(* exploration; the latter, the auxiliary threads, are created by the      *)
(* first store to a location.  tb holds the TraceBuilder's state, thread   *)
(* and prefix positions count from 1.  Vector clocks and races are kept up *)
(* to date by every event, and a race found inserts a branch at the        *)
(* earlier event, which a later execution takes.                           *)
(***************************************************************************)
EXTENDS PSOProgram

CONSTANTS
  IPids   \* bounds the threads, real and auxiliary, of one execution

VARIABLES
  tb,
  traces,    \* of every execution so far: its class, was it blocked, has_cycle()
  finished

vars == <<prog, ee, tb, traces, finished>>

-----------------------------------------------------------------------------
(* Vector clocks.                                                          *)
Zeros == [q \in IPids |-> 0]
leq(c, d) == \A q \in IPids : c[q] <= d[q]
Plus(c, d) == [q \in IPids |-> IF c[q] < d[q] THEN d[q] ELSE c[q]]
Joined(c, D) == FoldSet(Plus, c, D)

Thread(proc, parent, byte, clock) ==
  [proc |-> proc, parent |-> parent, byte |-> byte, clock |-> clock, available |-> TRUE,
   aux_to_ipid |-> [a \in Addrs |-> 0], store_buffers |-> [a \in Addrs |-> << >>],
   aux_clock_sum |-> Zeros, sleeping |-> FALSE, sleep_accesses_r |-> {},
   sleep_accesses_w |-> {}, sleep_full_memory_conflict |-> FALSE]

Event(pid, index, clock) ==
  [pid |-> pid, index |-> index, origin |-> 0, size |-> 1, alt |-> 0, clock |-> clock,
   may_conflict |-> FALSE, branch |-> {}, sleep |-> {}, wakeup |-> {}]

NoAccess == [last_update |-> 0, last_read |-> [t \in Procs |-> 0]]
NoMutex == [last_access |-> 0, last_lock |-> 0, locked |-> FALSE]
NoCond == [exists |-> FALSE, last_signal |-> 0, waiters |-> << >>]

(* The TraceBuilder at the start of an execution that replays prefix.      *)
Fresh(prefix) ==
  [threads |-> <<Thread(0, 0, "", Zeros)>>, prefix |-> prefix, prefix_idx |-> 0,
   dry_sleepers |-> 0, replay |-> prefix # << >>, mem |-> [a \in Addrs |-> NoAccess],
   last_full_memory_conflict |-> 0, mutexes |-> [a \in Addrs |-> NoMutex],
   cond_vars |-> [a \in Addrs |-> NoCond], errors |-> FALSE]

Init ==
  /\ prog \in Programs
  /\ ee = NewEngine(prog)
  /\ tb = Fresh(<< >>)
  /\ traces = << >> /\ finished = FALSE

curnode(s) == s.prefix[s.prefix_idx]
curpid(s) == curnode(s).pid
is_auxiliary(s, p) == s.threads[p].byte # ""
(* The real thread that p is, or whose store buffer p is.                  *)
Real(s, p) == IF is_auxiliary(s, p) THEN s.threads[p].parent ELSE p
proc_to_ipid(s, t) ==
  CHOOSE p \in DOMAIN s.threads : s.threads[p].proc = t /\ ~is_auxiliary(s, p)
sleepers(s) == {p \in DOMAIN s.threads : s.threads[p].sleeping}

mark_available(s, T) ==
  [s EXCEPT !.threads = [p \in DOMAIN s.threads |->
     LET th == s.threads[p] IN
     IF th.proc \in T /\ th.byte = "" THEN [th EXCEPT !.available = TRUE] ELSE th]]
mark_unavailable_ipid(s, p) == [s EXCEPT !.threads[p].available = FALSE]

may_conflict(s) == [s EXCEPT !.prefix[s.prefix_idx].may_conflict = TRUE]

(* Adds clocks to those of the event and of its thread.                    *)
After(s, D) ==
  [s EXCEPT !.prefix[s.prefix_idx].clock = Joined(@, D), !.threads[curpid(s)].clock = Joined(@, D)]

-----------------------------------------------------------------------------
(* sleep_set_at(): the threads asleep when prefix[i] is scheduled.         *)
sleep_set_at(s, i) ==
  FoldLeft(LAMBDA Z, ev : (Z \cup ev.sleep) \ ev.wakeup, {}, SubSeq(s.prefix, 1, i - 1))
    \cup s.prefix[i].sleep

(* add_branch(i, j): a thread whose next event after prefix[i] does not    *)
(* happen after prefix[i], if none is a branch or asleep there already.    *)
Candidate(s, i, j, acc, k) ==
  LET ev == s.prefix[k]
      p == ev.pid
  IN IF \/ acc.done \/ acc.candidates[p] # 0
        \/ k # j /\ leq(s.prefix[i].clock, ev.clock)
        \/ \E q \in IPids : acc.candidates[q] # 0 /\ acc.candidates[q] <= ev.clock[q]
     THEN acc
     ELSE [candidates |-> [acc.candidates EXCEPT ![p] = ev.index], pid |-> p,
           done |-> <<p, 0>> \in s.prefix[i].branch \/ p \in acc.isleep, isleep |-> acc.isleep]
add_branch(s, i) ==
  LET j == s.prefix_idx
      acc == FoldLeft(LAMBDA c, k : Candidate(s, i, j, c, k),
                      [candidates |-> Zeros, pid |-> 0, done |-> FALSE, isleep |-> sleep_set_at(s, i)],
                      [k \in 1..(j - i) |-> i + k])
  IN IF acc.done THEN s ELSE [s EXCEPT !.prefix[i].branch = @ \cup {<<acc.pid, 0>>}]

(* see_events(): the current event happens after those of Seen, and races  *)
(* with the ones among them it was not yet ordered with.                   *)
see_events(s, Seen) ==
  LET S == Seen \ {0}
      clock(i) == s.prefix[i].clock
      branch == {i \in S : /\ ~leq(clock(i), curnode(s).clock)
                           /\ \A j \in S \ {i} : ~leq(clock(i), clock(j))}
  IN FoldLeft(add_branch, After(s, {clock(i) : i \in S}), SetToSortSeq(branch, <))

has_pending_store(s, p, a) == s.threads[p].store_buffers[a] # << >>

(* wakeup(): wakes the sleepers that an access of the current event        *)
(* conflicts with.                                                         *)
M_Conflicts(s, p, type, a) ==
  LET th == s.threads[p] IN
  \/ th.sleep_full_memory_conflict
  \/ type = "W_ALL_MEMORY" /\ (th.sleep_accesses_w \cup th.sleep_accesses_r) # {}
  \/ type # "W_ALL_MEMORY" /\ th.proc # s.threads[curpid(s)].proc /\ a \in th.sleep_accesses_w
Conflicts(s, p, type, a) ==
  LET th == s.threads[p] IN
  \/ th.sleep_full_memory_conflict
  \/ /\ type = "W_ALL_MEMORY"
     /\ \/ th.sleep_accesses_w # {}
        \/ \E b \in th.sleep_accesses_r : ~has_pending_store(s, p, b)
  \/ /\ type # "W_ALL_MEMORY" /\ th.proc # s.threads[curpid(s)].proc
     /\ \/ a \in th.sleep_accesses_w
        \/ type = "W" /\ a \in th.sleep_accesses_r /\ ~has_pending_store(s, p, a)
wakeup(s, type, a) ==
  LET W == {p \in sleepers(s) : Conflicts(s, p, type, a)} IN
  [s EXCEPT !.prefix[s.prefix_idx].wakeup = @ \cup W,
            !.threads = [p \in DOMAIN s.threads |->
               IF p \notin W THEN s.threads[p]
               ELSE [s.threads[p] EXCEPT !.sleep_accesses_r = {}, !.sleep_accesses_w = {},
                       !.sleep_full_memory_conflict = FALSE, !.sleeping = FALSE]]]

-----------------------------------------------------------------------------
(* The operations that the interpreter reports.                            *)

spawn(s) ==
  LET p == curpid(s)
      t == 1 + Max({s.threads[q].proc : q \in DOMAIN s.threads})
  IN [s EXCEPT !.threads = Append(@, Thread(t, p, "", s.threads[p].clock))]

(* store(): into the buffer, whose auxiliary thread is created if need be. *)
store(s, a) ==
  LET p == curpid(s)
      th == s.threads[p]
      u == IF th.aux_to_ipid[a] = 0 THEN Len(s.threads) + 1 ELSE th.aux_to_ipid[a]
      f == [s EXCEPT !.threads[p].store_buffers[a] = Append(@, [clock |-> th.clock, last_rowe |-> 0]),
                     !.threads[p].aux_to_ipid[a] = u]
  IN IF u > Len(s.threads)
     THEN [f EXCEPT !.threads = Append(@, Thread(th.proc, p, a, th.clock))]
     ELSE [f EXCEPT !.threads[u].available = TRUE]

(* The auxiliary thread of a buffer takes its oldest store out.            *)
PopStore(s, u) ==
  LET t == Real(s, u)
      a == s.threads[u].byte
  IN IF ~is_auxiliary(s, u) THEN s
     ELSE [s EXCEPT !.threads[t].store_buffers[a] = Tail(@),
                    !.threads[t].aux_clock_sum = Plus(@, curnode(s).clock),
                    !.threads[u].available = Len(s.threads[t].store_buffers[a]) > 1]

(* atomic_store(): memory changes, by an update of an auxiliary thread or  *)
(* by a thread whose buffers are empty.                                    *)
atomic_store(s, a) ==
  LET u == curpid(s)
      is_update == is_auxiliary(s, u)
      t == Real(s, u)
      pst == Head(s.threads[t].store_buffers[a])
      lu == s.mem[a].last_update
      own == lu # 0 /\ Real(s, s.prefix[lu].pid) = t
      clocks == (IF own THEN {s.prefix[lu].clock} ELSE {}) \cup
                (IF is_update THEN {pst.clock}
                 ELSE {s.threads[p].clock : p \in Range(s.threads[t].aux_to_ipid) \ {0}})
      reads == {i \in Range(s.mem[a].last_read) \ {0} : s.prefix[i].pid # t}
      f == see_events(After(may_conflict(s), clocks),
                      reads \cup {s.last_full_memory_conflict} \cup (IF own THEN {} ELSE {lu}))
      g == [f EXCEPT !.prefix[s.prefix_idx].origin = IF is_update THEN pst.clock[t] ELSE 0,
                     !.mem[a].last_update = s.prefix_idx,
                     !.mem[a].last_read[s.threads[t].proc] =
                        IF is_update /\ pst.last_rowe # 0 THEN pst.last_rowe ELSE @]
  IN PopStore(wakeup(g, "W", a), u)

(* load(): a read of the own buffer ("ROWE") conflicts only as late as the *)
(* store it reads from is updated.                                         *)
load(s, a) ==
  LET p == curpid(s)
      lu == s.mem[a].last_update
      own == lu # 0 /\ Real(s, s.prefix[lu].pid) = p
      n == Len(s.threads[p].store_buffers[a])
      f == see_events(may_conflict(s), {s.last_full_memory_conflict} \cup (IF own THEN {} ELSE {lu}))
  IN IF n > 0 THEN [may_conflict(s) EXCEPT !.threads[p].store_buffers[a][n].last_rowe = s.prefix_idx]
     ELSE wakeup([f EXCEPT !.mem[a].last_read[s.threads[p].proc] = s.prefix_idx], "R", a)

compare_exchange(s, a, success) == IF success THEN atomic_store(s, a) ELSE load(s, a)
atomic_rmw(s, a) == atomic_store(load(s, a), a)

full_memory_conflict(s) ==
  LET seen == UNION {{s.mem[a].last_update, s.mutexes[a].last_access} \cup Range(s.mem[a].last_read) :
                       a \in Addrs}
      f == see_events(may_conflict(s), seen \cup {s.last_full_memory_conflict})
  IN [wakeup(f, "W_ALL_MEMORY", "") EXCEPT !.last_full_memory_conflict = s.prefix_idx,
                                           !.mem = [a \in Addrs |-> NoAccess]]

fence(s) == After(s, {s.threads[curpid(s)].aux_clock_sum})

join(s, t) ==
  LET p == proc_to_ipid(s, t) IN After(s, {s.threads[p].clock, s.threads[p].aux_clock_sum})

(* Mutexes.  A successful lock races with the last one, not with the       *)
(* unlock in between.                                                      *)
Locked(s, a) ==
  [s EXCEPT !.mutexes[a] = [last_access |-> s.prefix_idx, last_lock |-> s.prefix_idx, locked |-> TRUE]]

races_with(s, i) == IF i = 0 \/ leq(s.prefix[i].clock, curnode(s).clock) THEN s ELSE add_branch(s, i)

mutex_lock(s, a) ==
  LET f == wakeup(may_conflict(fence(s)), "W", a)
      m == s.mutexes[a]
      l == m.last_lock
      ordered == IF l = 0 THEN {} ELSE {s.prefix[m.last_access].clock}
      seen == (IF l = 0 THEN {m.last_access} ELSE {}) \cup {s.last_full_memory_conflict}
  IN Locked(see_events(After(races_with(f, l), ordered), seen), a)

mutex_lock_fail(s, a) ==
  races_with(races_with(s, s.mutexes[a].last_lock), s.last_full_memory_conflict)

(* The other operations see the last access; mutex_init() wakes nobody.    *)
mutex_access(s, a) ==
  [see_events(may_conflict(fence(s)), {s.mutexes[a].last_access, s.last_full_memory_conflict})
     EXCEPT !.mutexes[a].last_access = s.prefix_idx]

mutex_unlock(s, a) == [wakeup(mutex_access(s, a), "W", a) EXCEPT !.mutexes[a].locked = FALSE]
mutex_trylock(s, a) ==
  LET f == wakeup(mutex_access(s, a), "W", a) IN IF s.mutexes[a].locked THEN f ELSE Locked(f, a)
mutex_init(s, a) == mutex_access(s, a)
mutex_destroy(s, a) == [wakeup(mutex_access(s, a), "W", a) EXCEPT !.mutexes[a] = NoMutex]

-----------------------------------------------------------------------------
(* Condition variables.                                                    *)
(* An error ends the execution, and what its last event saw is not used.   *)
pthreads_error(s) == [s EXCEPT !.errors = TRUE]

(* register_alternatives(): the event can go in n ways.                    *)
register_alternatives(s, n) ==
  [may_conflict(s) EXCEPT !.prefix[s.prefix_idx].branch =
     IF curnode(s).alt # 0 THEN @ ELSE @ \cup {<<curpid(s), k>> : k \in 1..(n - 1)}]

cond_init(s, a) ==
  IF s.cond_vars[a].exists THEN pthreads_error(s)
  ELSE [see_events(may_conflict(fence(s)), {s.last_full_memory_conflict})
          EXCEPT !.cond_vars[a] = [exists |-> TRUE, last_signal |-> s.prefix_idx, waiters |-> << >>]]

(* The waiters W are made available, and go on after the current event.    *)
Signalled(s, a, W, rest) ==
  LET T == {s.prefix[i].pid : i \in W}
      f == [s EXCEPT !.threads = [p \in DOMAIN s.threads |->
               IF p \notin T THEN s.threads[p]
               ELSE [s.threads[p] EXCEPT !.available = TRUE, !.clock = Plus(@, curnode(s).clock)]],
             !.cond_vars[a].waiters = rest, !.cond_vars[a].last_signal = s.prefix_idx]
  IN see_events(f, W \cup {s.last_full_memory_conflict})

(* cond_signal() wakes the waiter that the event's alternative names.      *)
cond_signal(s, a) ==
  LET f == wakeup(may_conflict(fence(s)), "W", a)
      w == s.cond_vars[a].waiters
      k == curnode(s).alt + 1
  IN IF ~s.cond_vars[a].exists THEN pthreads_error(s)
     ELSE Signalled(IF Len(w) > 1 THEN register_alternatives(f, Len(w)) ELSE f, a,
                    IF w = << >> THEN {} ELSE {w[k]}, IF w = << >> THEN w ELSE RemoveAt(w, k))

cond_broadcast(s, a) ==
  LET f == wakeup(may_conflict(fence(s)), "W", a) IN
  IF ~s.cond_vars[a].exists THEN pthreads_error(s)
  ELSE Signalled(f, a, Range(s.cond_vars[a].waiters), << >>)

cond_wait(s, a, m) ==
  LET l == s.mutexes[m].last_lock
      f == wakeup(mutex_unlock(s, m), "R", a)
  IN IF l = 0 \/ s.prefix[l].pid # curpid(s) THEN pthreads_error(s)
     ELSE IF ~s.cond_vars[a].exists THEN pthreads_error(s)
     ELSE see_events([mark_unavailable_ipid(f, curpid(s))
                        EXCEPT !.cond_vars[a].waiters = Append(@, s.prefix_idx)],
                     {s.last_full_memory_conflict, s.cond_vars[a].last_signal})

cond_awake(s, m) == IF m = "" THEN s ELSE mutex_lock(s, m)

(* cond_destroy() only tells the program that there were waiters.          *)
cond_destroy(s, a) ==
  LET f == wakeup(may_conflict(fence(s)), "W", a)
      c == s.cond_vars[a]
  IN IF ~c.exists THEN pthreads_error(s)
     ELSE [see_events(f, {c.last_signal, s.last_full_memory_conflict} \cup Range(c.waiters))
             EXCEPT !.cond_vars[a] = NoCond]

-----------------------------------------------------------------------------
(* What visiting instruction i of thread t, in interpreter state e, calls. *)
visit(s, e, t, i) ==
  LET a == i.addr IN
  CASE i.op = "ret" -> mark_unavailable_ipid(s, curpid(s))
    [] i.op = "spawn" -> spawn(fence(s))
    [] i.op = "join" -> join(fence(s), e.tid[i.num])
    [] i.op = "fence" -> fence(s)
    [] i.op = "nondet" -> register_alternatives(s, 2)
    [] i.op = "ext" -> full_memory_conflict(fence(s))
    [] i.op = "load" -> load(s, a)
    [] i.op = "store" -> store(s, a)
    [] i.op = "sc_store" -> atomic_store(s, a)
    [] i.op = "add" -> atomic_rmw(s, a)
    [] i.op = "cas" -> compare_exchange(s, a, e.mem[a] = i.exp)
    [] i.op = "lock" -> mutex_lock(s, a)
    [] i.op = "unlock" -> mutex_unlock(s, a)
    [] i.op = "trylock" -> mutex_trylock(s, a)
    [] i.op = "minit" -> mutex_init(s, a)
    [] i.op = "mdestroy" -> mutex_destroy(s, a)
    [] i.op = "cinit" -> cond_init(s, a)
    [] i.op = "wait" -> cond_wait(s, a, i.lock)
    [] i.op = "signal" -> cond_signal(s, a)
    [] i.op = "broadcast" -> cond_broadcast(s, a)
    [] i.op = "cdestroy" -> cond_destroy(s, a)

(* What the next instruction of a sleeping thread would read and write.    *)
DryReads(e, t, i) ==
  CASE i.op \in {"load", "add", "wait"} -> {i.addr}
    [] i.op = "cas" -> IF e.mem[i.addr] = i.exp THEN {} ELSE {i.addr}
    [] OTHER -> {}
DryWrites(e, t, i) ==
  ({e.pending_mutex_lock[t]} \ {""}) \cup
  CASE i.op \in {"ret", "spawn", "join", "fence", "nondet", "ext", "load", "store"} -> {}
    [] i.op = "wait" -> {i.lock}
    [] i.op = "cas" -> IF e.mem[i.addr] = i.exp THEN {i.addr} ELSE {}
    [] OTHER -> {i.addr}

-----------------------------------------------------------------------------
(* has_cycle(): replays the execution under sequential consistency, every  *)
(* store together with its update, one thread after the other; an event    *)
(* waits for the real threads to reach its clock.  Is a thread stuck?      *)
ScThread == [pc |-> 0, pfx_index |-> 1, store_index |-> 1, blocked |-> FALSE, clock |-> Zeros]

(* The stores of thread t, in program order, with their updates.           *)
M_StoresOf(s, t) ==
  LET U == {i \in DOMAIN s.prefix : is_auxiliary(s, s.prefix[i].pid) /\ s.threads[s.prefix[i].pid].proc = t}
      upd == SetToSortSeq(U, LAMBDA i, j : s.prefix[i].origin < s.prefix[j].origin)
  IN [k \in DOMAIN upd |-> [store |-> s.prefix[upd[k]].origin - 1, update |-> upd[k]]]
StoresOf(s, t) ==
  LET U == {i \in DOMAIN s.prefix : is_auxiliary(s, s.prefix[i].pid) /\ s.threads[s.prefix[i].pid].proc = t}
      upd == SetToSortSeq(U, LAMBDA i, j : s.prefix[i].origin < s.prefix[j].origin)
  IN [k \in DOMAIN upd |-> [store |-> s.prefix[upd[k]].origin, update |-> upd[k]]]

(* One visit to thread t: th are all threads, st the stores of t.          *)
ScStep(s, th, t, st) ==
  LET p == proc_to_ipid(s, t)
      I == {i \in th[t].pfx_index..Len(s.prefix) : s.prefix[i].pid = p}
      x == [th[t] EXCEPT !.pfx_index = IF I = {} THEN Len(s.prefix) + 1 ELSE Min(I)]
      ev == s.prefix[x.pfx_index]
      is_store == x.store_index <= Len(st) /\ st[x.store_index].store = x.pc + 1
      c == [ev.clock EXCEPT ![p] = x.pc + 1]
      y == IF x.blocked THEN x
           ELSE IF is_store THEN [x EXCEPT !.clock = Plus(c, s.prefix[st[x.store_index].update].clock),
                                           !.store_index = @ + 1]
           ELSE [x EXCEPT !.clock = c]
      blocked == \E u \in DOMAIN th \ {t} : th[u].pc < y.clock[proc_to_ipid(s, u)]
      last == ev.index + ev.size - 1
      pc == IF y.store_index <= Len(st) /\ st[y.store_index].store - 1 < last
            THEN st[y.store_index].store - 1 ELSE last
  IN IF I = {} THEN [th EXCEPT ![t] = x]
     ELSE IF blocked THEN [th EXCEPT ![t] = [y EXCEPT !.blocked = TRUE]]
     ELSE [th EXCEPT ![t] = [y EXCEPT !.blocked = FALSE, !.pc = pc,
                                      !.pfx_index = IF pc = last THEN @ + 1 ELSE @]]

RECURSIVE ScRun(_, _, _)
ScRun(s, th, st) ==
  LET T == [k \in 1..Cardinality(DOMAIN th) |-> k - 1]
      next == FoldLeft(LAMBDA c, t : ScStep(s, c, t, st[t]), th, T)
  IN IF \A t \in DOMAIN th : next[t].pc = th[t].pc THEN next ELSE ScRun(s, next, st)

has_cycle(s) ==
  LET T == {s.threads[p].proc : p \in DOMAIN s.threads}
      end == ScRun(s, [t \in T |-> ScThread], [t \in T |-> StoresOf(s, t)])
  IN \E t \in T : end[t].blocked

-----------------------------------------------------------------------------
(* schedule(), and the instruction or update that the interpreter runs.    *)

Tick(s, p) == [s EXCEPT !.threads[p].clock[p] = @ + 1]

(* Thread p of the TraceBuilder is the one that was picked.                *)
Ran(s, e, t) ==
  IF s.errors THEN tb' = s /\ UNCHANGED ee
  ELSE tb' = mark_available(s, Woken(ee, e, t)) /\ ee' = e
Run(s, p, alt) ==
  LET t == s.threads[p].proc
      a == s.threads[p].byte
  IN IF is_auxiliary(s, p) THEN Ran(atomic_store(s, a), runAux(ee, t, a), t)
     ELSE Ran(visit(cond_awake(s, ee.pending_mutex_lock[t]), ee, t, CodeOf(prog, ee, t)),
              Execute(prog, ee, t, alt), t)

(* Is the current event one that the last execution went further in?       *)
Unfinished(s) ==
  /\ s.prefix_idx # 0
  /\ s.threads[curpid(s)].clock[curpid(s)] < curnode(s).index + curnode(s).size - 1
Replaying(s) == s.replay /\ (s.prefix_idx < Len(s.prefix) \/ Unfinished(s))

ContinueEvent ==
  /\ ~finished /\ tb.replay /\ ~tb.errors /\ Unfinished(tb)
  /\ Run(Tick(tb, curpid(tb)), curpid(tb), 0)
  /\ UNCHANGED <<prog, traces, finished>>

(* Before the next event, the threads that go to sleep there are dry run   *)
(* to find out what they would do.  spawn() and register_alternatives() do *)
(* not ask whether they are dry run.                                       *)
DryRun ==
  LET ev == tb.prefix[tb.prefix_idx + 1]
      p == SetToSortSeq(ev.sleep, <)[tb.dry_sleepers + 1]
      t == tb.threads[p].proc
      i == CodeOf(prog, ee, t)
      s == [tb EXCEPT !.dry_sleepers = @ + 1, !.threads[p].sleeping = TRUE]
  IN /\ ~finished /\ tb.replay /\ ~tb.errors /\ ~Unfinished(tb) /\ tb.prefix_idx < Len(tb.prefix)
     /\ tb.dry_sleepers < Cardinality(ev.sleep)
     /\ IF is_auxiliary(tb, p)
        THEN tb' = [s EXCEPT !.threads[p].sleep_accesses_w = {tb.threads[p].byte}] /\ UNCHANGED ee
        ELSE /\ checkRefuse(prog, ee, t) = ""
             /\ LET f == [s EXCEPT !.threads[p].sleep_accesses_r = DryReads(ee, t, i),
                                   !.threads[p].sleep_accesses_w = DryWrites(ee, t, i),
                                   !.threads[p].sleep_full_memory_conflict = i.op = "ext"]
                IN tb' = CASE i.op = "spawn" -> spawn(f)
                           [] i.op = "nondet" -> register_alternatives(f, 2)
                           [] OTHER -> f
             /\ ee' = IF i.op = "spawn" THEN newThread(ee, i.num) ELSE ee
     /\ UNCHANGED <<prog, traces, finished>>

CanRun(s, p) == is_auxiliary(s, p) \/ checkRefuse(prog, ee, s.threads[p].proc) = ""

(* refuse_schedule() takes the event back.                                 *)
refuse_schedule(s) ==
  LET p == curpid(s) IN
  mark_unavailable_ipid([s EXCEPT !.prefix = Front(@), !.prefix_idx = @ - 1,
                                  !.threads[p].clock[p] = @ - 1], p)

(* The interpreter cannot run the thread that was scheduled.               *)
Refusal(s) ==
  LET t == s.threads[curpid(s)].proc IN
  refuse_schedule(IF checkRefuse(prog, ee, t) = "lock"
                  THEN mutex_lock_fail(s, LocksMutex(prog, ee, t)) ELSE s)

NextEvent(s, ev) ==
  LET f == Tick(s, ev.pid) IN
  [f EXCEPT !.dry_sleepers = 0, !.prefix_idx = @ + 1,
            !.prefix[s.prefix_idx + 1].clock = f.threads[ev.pid].clock]

NextInPrefix ==
  LET ev == tb.prefix[tb.prefix_idx + 1] IN
  /\ ~finished /\ tb.replay /\ ~tb.errors /\ ~Unfinished(tb) /\ tb.prefix_idx < Len(tb.prefix)
  /\ tb.dry_sleepers = Cardinality(ev.sleep)
  /\ IF CanRun(tb, ev.pid) THEN Run(NextEvent(tb, ev), ev.pid, ev.alt)
     ELSE tb' = Refusal(NextEvent(tb, ev)) /\ ee' = Refused(prog, ee, tb.threads[ev.pid].proc)
  /\ UNCHANGED <<prog, traces, finished>>

(* The last event is merged into the one before if nothing conflicts.      *)
Merged(s) ==
  LET n == Len(s.prefix)
      last == s.prefix[n]
  IN IF n > 1 /\ last.pid = s.prefix[n - 1].pid /\ ~last.may_conflict /\ last.sleep = {}
     THEN [s EXCEPT !.prefix = [Front(s.prefix) EXCEPT ![n - 1].size = @ + 1],
                    !.prefix_idx = @ - 1]
     ELSE s

Scheduled == Merged([tb EXCEPT !.replay = FALSE])

(* is_aux_at_head(): the store the auxiliary thread is for is the oldest.  *)
is_aux_at_head(s, p) == has_pending_store(s, s.threads[p].parent, s.threads[p].byte)

(* Auxiliary threads come first.                                           *)
Awake(s) == {p \in DOMAIN s.threads : s.threads[p].available /\ ~s.threads[p].sleeping}
AwakeAux(s) == {p \in Awake(s) : is_auxiliary(s, p) /\ is_aux_at_head(s, p)}
Schedulable(s) ==
  IF AwakeAux(s) # {} THEN AwakeAux(s) ELSE {p \in Awake(s) : ~is_auxiliary(s, p)}

WithNewEvent(s, p) ==
  LET f == Tick(s, p) IN
  [f EXCEPT !.prefix_idx = @ + 1,
            !.prefix = Append(@, Event(p, f.threads[p].clock[p], f.threads[p].clock))]

NewEvent ==
  LET s == Scheduled
      p == Min(Schedulable(s))
  IN /\ ~finished /\ ~tb.errors /\ ~Replaying(tb) /\ Schedulable(s) # {}
     /\ CanRun(s, p)
     /\ Run(WithNewEvent(s, p), p, 0)
     /\ UNCHANGED <<prog, traces, finished>>

Refuse ==
  LET s == Scheduled
      p == Min(Schedulable(s))
  IN /\ ~finished /\ ~tb.errors /\ ~Replaying(tb) /\ Schedulable(s) # {}
     /\ ~CanRun(s, p)
     /\ tb' = Refusal(WithNewEvent(s, p))
     /\ ee' = Refused(prog, ee, s.threads[p].proc)
     /\ UNCHANGED <<prog, traces, finished>>

(* reset(): the lowest branch of the last event that has one is next, and  *)
(* the thread it replaces goes to sleep.                                   *)
Branching(s) == {i \in DOMAIN s.prefix : s.prefix[i].branch # {}}
M_reset(s) ==
  LET i == Max(Branching(s))
      old == s.prefix[i]
      br == CHOOSE b \in old.branch : \A c \in old.branch : b[1] < c[1] \/ (b[1] = c[1] /\ b[2] <= c[2])
      J == {j \in 1..(i - 1) : s.prefix[j].pid = br[1]}
      index == IF J = {} THEN 1 ELSE s.prefix[Max(J)].index + s.prefix[Max(J)].size
      ev == [Event(br[1], index, Zeros) EXCEPT !.alt = br[2], !.branch = old.branch \ {br},
               !.sleep = old.sleep]
  IN Fresh(Append(SubSeq(s.prefix, 1, i - 1), ev))
reset(s) ==
  LET i == Max(Branching(s))
      old == s.prefix[i]
      br == CHOOSE b \in old.branch : \A c \in old.branch : b[1] < c[1] \/ (b[1] = c[1] /\ b[2] <= c[2])
      J == {j \in 1..(i - 1) : s.prefix[j].pid = br[1]}
      index == IF J = {} THEN 1 ELSE s.prefix[Max(J)].index + s.prefix[Max(J)].size
      ev == [Event(br[1], index, Zeros) EXCEPT !.alt = br[2], !.branch = old.branch \ {br},
               !.sleep = old.sleep \cup ({old.pid} \ {br[1]})]
  IN Fresh(Append(SubSeq(s.prefix, 1, i - 1), ev))

(* The execution has ended; the first error ends the exploration.          *)
EndExecution ==
  LET s == Scheduled IN
  /\ ~finished
  /\ ~tb.errors => ~Replaying(tb) /\ Schedulable(s) = {}
  /\ traces' = IF tb.errors THEN traces
               ELSE Append(traces, [class |-> Class(ee), blocked |-> sleepers(s) # {},
                                    cycle |-> has_cycle(s)])
  /\ finished' = (tb.errors \/ Branching(s) = {})
  /\ IF finished' THEN tb' = s /\ UNCHANGED ee ELSE tb' = reset(s) /\ ee' = NewEngine(prog)
  /\ UNCHANGED prog

(* DPORDriver::run() returns.                                              *)
Return == finished /\ UNCHANGED vars

Next ==
  \/ ContinueEvent \/ DryRun \/ NextInPrefix \/ NewEvent \/ Refuse \/ EndExecution \/ Return

Spec == Init /\ [][Next]_vars

-----------------------------------------------------------------------------

(* Complete: when the exploration of a program ends, the executions that   *)
(* ran to their end are all executions the program has under partial store *)
(* order, up to the order of independent operations.                       *)
Complete ==
  finished /\ ~tb.errors =>
    {traces[k].class : k \in {k \in DOMAIN traces : ~traces[k].blocked}} = AllClasses(prog)

(* NoTraceTwice: no two executions that ran to their end are equivalent.   *)
NoTraceTwice ==
  \A k, l \in DOMAIN traces :
    ~traces[k].blocked /\ ~traces[l].blocked /\ traces[k].class = traces[l].class => k = l

(* RobustnessExact: check_for_cycles() reports an execution exactly if no  *)
(* sequentially consistent execution is equivalent to it.                  *)
RobustnessExact ==
  \A k \in DOMAIN traces :
    ~traces[k].blocked => (traces[k].cycle <=> ~SequentiallyConsistent(prog, traces[k].class))
=============================================================================
