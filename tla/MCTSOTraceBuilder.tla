-------------------------- MODULE MCTSOTraceBuilder -------------------------
(* The programs that TSOTraceBuilder explores under sequential consistency. *)
EXTENDS TSOTraceBuilder, Litmus

MCPrograms ==
  (* every litmus test of two threads with two accesses each               *)
  Pairs(Two({R("x"), W("x", 1), R("y"), W("y", 1)}))
  \cup Pairs(Two({Cas("x", 0, 1), Cas("x", 1, 2), W("x", 1)}))
  \cup {P(<< >>, <<a>>, <<b>>, c) : a \in {Add("x", 1), FetchAdd("x", 1), W("x", 1)},
           b \in {Add("x", 1), W("x", 2)}, c \in {<<R("x")>>, <<Add("x", 1), R("x")>>}}
  \cup {P(<< >>, <<a>>, <<b>>, <<Await("x", v), R("y")>>) :
           a \in {Add("x", 1), W("x", 1)}, b \in {Add("x", 1), W("x", 2), W("y", 1)}, v \in 1..2}
  \cup Pairs({Nested("m", "n"), Nested("n", "m"), Section("m"), <<Lock("m")>>, <<R("y")>>})
  \cup {P(<<R("y")>>, Section("m"), Section("m"), <<Lock("m"), Unlock("m")>>),
        P(<<JoinI(1), R("x")>>, <<W("x", 1)>>, <<W("x", 2)>>, << >>),
        P(<<R("x")>>, <<W("x", 1)>>, <<W("x", 2), R("x")>>, <<W("x", 3)>>),
        P(<< >>, <<W("x", 1)>>, <<R("y"), R("x")>>, <<W("y", 1), R("x")>>),
        P(<< >>, <<NondetI(2), W("x", 1)>>, <<R("x"), NondetI(3)>>, << >>)}

MCAlgorithms == {"SOURCE", "OPTIMAL", "OBSERVERS"}
=============================================================================
