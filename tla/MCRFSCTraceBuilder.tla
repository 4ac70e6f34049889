------------------------- MODULE MCRFSCTraceBuilder -------------------------
(* The programs that RFSCTraceBuilder explores.                            *)
EXTENDS RFSCTraceBuilder, Litmus

(* Main initialises the mutexes before it spawns the threads.              *)
WithMutexes(p) == [p EXCEPT !.code[0] = <<MInitI("m"), MInitI("n")>> \o @]

Guarded(a, b) == <<Lock(a), b, Unlock(a)>>

(* An update and a read, in either order, or an update and a store.        *)
UpdateFirst(updates) ==
  {<<u, a>> : u \in updates, a \in {R("x"), W("x", 1), W("x", 2)}} \cup {<<R("x"), u>> : u \in updates}

(* Updates that follow a store of their own thread.                        *)
MCOwnStore == Pairs(Two({FetchAdd("x", 1), W("x", 2)}))

MCPrograms ==
  (* litmus tests of two threads with two accesses each                    *)
  Pairs(Two({R("x"), W("x", 1), R("y"), W("y", 1)}))
  (* atomic updates of one location, that no store of their thread precedes *)
  \cup Pairs(UpdateFirst({FetchAdd("x", 1), Cas("x", 0, 1), Cas("x", 1, 2)}))
  \cup {P(<< >>, <<Cas("x", 0, 1)>>, <<Cas("x", 0, 2)>>, <<a>>) :
          a \in {Cas("x", 0, 3), Cas("x", 1, 3), FetchAdd("x", 1), R("x")}}
  (* reads that decide what comes next                                     *)
  \cup {P(<< >>, <<RIf("x", 1, 1), W("y", 1)>>, <<RIf("y", 1, 1), W("x", 1)>>, c) :
          c \in {<<W("x", 1)>>, <<W("x", 1), W("y", 1)>>, <<FetchAdd("x", 1)>>}}
  (* three threads                                                         *)
  \cup {P(<<JoinI(1), R("x")>>, <<W("x", 1)>>, <<W("x", 2)>>, << >>),
        P(<< >>, <<W("x", 1)>>, <<R("x"), W("y", 1)>>, <<R("y"), R("x")>>),
        P(<<R("x")>>, <<W("x", 1)>>, <<W("x", 2), R("x")>>, <<W("x", 3)>>)}
  (* critical sections, deadlocks, and locks that may fail                 *)
  \cup {WithMutexes(p) : p \in
          Pairs({Nested("m", "n"), Nested("n", "m"), Section("m"), <<Lock("m")>>,
                 Guarded("m", R("y")), <<TryLock("m", 2), R("y"), Unlock("m")>>})
          \cup {P(<< >>, Guarded("m", W("x", 1)), Guarded("m", R("x")), Guarded("m", W("x", 2))),
                P(<<JoinI(1), MDestroyI("m")>>, Guarded("m", R("x")), <<W("x", 1)>>, << >>),
                P(<< >>, <<Lock("m"), W("x", 1)>>, <<TryLock("m", 1), Unlock("m"), R("x")>>, <<Lock("m")>>)}}

(* The programs that two workers explore; one worker explores the others.  *)
MCShared ==
  {P(<< >>, <<W("x", 1), R("y")>>, <<W("y", 1), R("x")>>, << >>),
   P(<< >>, <<Cas("x", 0, 1)>>, <<Cas("x", 0, 2)>>, <<R("x")>>),
   P(<< >>, <<RIf("x", 1, 1), W("y", 1)>>, <<RIf("y", 1, 1), W("x", 1)>>, <<W("x", 1)>>),
   WithMutexes(P(<< >>, Section("m"), Guarded("m", R("y")), << >>))}

(* The steps of an execution touch the worker's own state only, so one     *)
(* worker's run at a time is enough.                                       *)
Active == IF prog \in MCShared THEN Workers ELSE {Min(Workers)}
Running == {w \in Active : tb[w].at = "run"}
MCNext ==
  \/ \E w \in Running : w = Min(Running) /\ (Run(w) \/ EndOfExecution(w))
  \/ Running = {} /\ \E w \in Active : Reset(w) \/ ComputeUnfolding(w) \/ TryNext(w) \/ EndOfAnalysis(w)
  \/ Finished /\ UNCHANGED vars

MCSpec == Init /\ [][MCNext]_vars
=============================================================================
