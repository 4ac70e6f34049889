---------------------------- MODULE Exploration -----------------------------
(***************************************************************************)
(* What the parallel RFSC exploration promises, whatever its scheduler:    *)
(* every execution that becomes known is explored once, an alternative is  *)
(* turned into a new work item only if no known execution covers it, the   *)
(* verdict "exhausted" is reached only when every known execution was      *)
(* explored and has no uncovered alternative, and the verdict "error" only *)
(* after an execution that failed.                                         *)
(***************************************************************************)
EXTENDS Integers, Sequences

CONSTANTS Execution, Siblings(_), Feasible, Failures

VARIABLES Erroneous, \* the executions that fail
          known,     \* the executions some work item leads to
          explored,  \* those that have been executed
          verdict    \* "none", "exhausted" or "error"

vars == <<Erroneous, known, explored, verdict>>

PathTo(n) == {SubSeq(n, 1, k) : k \in 1..Len(n)}

Covered(s) == \E q \in known : s \in PathTo(q)

Init ==
  /\ Erroneous \in Failures
  /\ known = {Execution[<<>>]}
  /\ explored = {}
  /\ verdict = "none"

Explore ==
  /\ verdict # "exhausted"
  /\ \E p \in known \ explored : explored' = explored \cup {p}
  /\ UNCHANGED <<Erroneous, known, verdict>>

Discover ==
  /\ verdict # "exhausted"
  /\ \E p \in explored : \E s \in Siblings(p) \cap Feasible :
       ~Covered(s) /\ known' = known \cup {Execution[s]}
  /\ UNCHANGED <<Erroneous, explored, verdict>>

Exhaust ==
  /\ verdict = "none"
  /\ explored = known
  /\ \A p \in explored : \A s \in Siblings(p) \cap Feasible : Covered(s)
  /\ verdict' = "exhausted"
  /\ UNCHANGED <<Erroneous, known, explored>>

Fail ==
  /\ verdict = "none"
  /\ explored \cap Erroneous # {}
  /\ verdict' = "error"
  /\ UNCHANGED <<Erroneous, known, explored>>

Next == Explore \/ Discover \/ Exhaust \/ Fail

Spec == Init /\ [][Next]_vars
=============================================================================
