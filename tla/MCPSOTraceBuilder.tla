-------------------------- MODULE MCPSOTraceBuilder -------------------------
(* The programs that PSOTraceBuilder explores. *)
EXTENDS PSOTraceBuilder, Litmus

MCIPids == 1..9
MCPSOAddrs == {"x", "y", "m", "c"}

Q(c0, c1, c2, c3) ==
  LET p == P(c0, c1, c2, c3) IN [p EXCEPT !.init = [a \in MCPSOAddrs |-> 0]]

(* Main initialises the mutex and the condition variable first.            *)
S(c0, c1, c2, c3) ==
  LET p == Q(c0, c1, c2, c3) IN [p EXCEPT !.code[0] = <<MInitI("m"), CInit("c")>> \o @]

Accesses == {R("x"), W("x", 1), R("y"), W("y", 1)}
Atomics == {WSC("x", 2), Add("x", 1), Fence, Ext}

Critical(i) == <<Lock("m"), i, Unlock("m")>>
Waiter == Critical(WaitI("c", "m"))

MCPrograms ==
  {Q(<< >>, a, b, << >>) : a \in Two(Accesses), b \in Two(Accesses)}
  \cup {Q(<< >>, <<a, W("x", 3), b>>, <<R("x"), d>>, << >>) :
          a, d \in Atomics \cup {Cas("x", 0, 1)}, b \in Atomics}
  \cup {Q(<<R("x")>>, <<W("x", 1)>>, <<W("x", 2), R("x")>>, <<W("x", 3)>>),
        Q(<<JoinI(1), R("x")>>, <<W("x", 1), W("y", 1)>>, <<W("x", 2), R("y")>>, << >>),
        Q(<<R("x"), JoinI(1), R("y")>>, <<W("y", 1)>>, <<W("x", 1), W("y", 2)>>, << >>),
        [Q(<< >>, <<SpawnI(2), R("x")>>, <<W("x", 1)>>, <<W("x", 2)>>)
           EXCEPT !.code[0] = <<SpawnI(1), SpawnI(3)>>],
        Q(<< >>, <<NondetI(1), W("x", 1)>>, <<R("x"), NondetI(1)>>, << >>)}
  \cup {S(<< >>, a, b, << >>) :
          a, b \in {Section("m"), <<TryLock("m", 2), W("y", 1), Unlock("m")>>, <<R("y"), Ext>>,
                    <<W("y", 1), Lock("m"), R("x")>>}}
  \cup {S(<< >>, Waiter, Waiter, Critical(i)) : i \in {SignalI("c"), BroadcastI("c")}}
  \cup {S(<<JoinI(1), CDestroy("c"), MDestroyI("m")>>, Critical(SignalI("c")), << >>, << >>)}
  (* errors                                                                *)
  \cup {S(<< >>, a, Section("m"), << >>) :
          a \in {<<WaitI("c", "m")>>, <<CInit("c")>>, Critical(WaitI("x", "m")),
                 <<R("y"), SignalI("x")>>, <<BroadcastI("x")>>, <<CDestroy("x")>>}}
=============================================================================
