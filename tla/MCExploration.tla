--------------------------- MODULE MCExploration ----------------------------
(***************************************************************************)
(* The decision trees of small analysed programs, shared by the model-     *)
(* checking modules of the RFSC schedulers.  A program is given by its     *)
(* complete executions, its nodes, infeasible alternatives included, and   *)
(* the nodes that only some executions see.                                *)
(***************************************************************************)
EXTENDS Integers, Sequences, FiniteSets, SequencesExt

MCUnf == 0..3

FeasibleIn(leaves) == UNION {{SubSeq(leaves[i], 1, k) : k \in 0..Len(leaves[i])} :
                               i \in 1..Len(leaves)}

(* The scheduler of RFSCTraceBuilder is deterministic: a run takes the     *)
(* first source at every read after its prefix.  leaves lists the complete *)
(* executions in that order.                                               *)
ExecutionIn(leaves, N) ==
  LET Extensions(w) == SelectSeq(leaves, LAMBDA l : IsPrefix(w, l))
  IN [w \in N |-> IF Extensions(w) = << >> THEN w ELSE Head(Extensions(w))]

(* compute_prefixes visits the events of the execution from the first one  *)
(* on, and the possible sources of each in order; nodes lists all nodes in *)
(* that order.                                                             *)
AlternativesIn(nodes, Sees(_, _)) ==
  [p \in ToSet(nodes) \cup {<< >>} |-> SelectSeq(nodes, LAMBDA s :
     /\ Len(s) <= Len(p)
     /\ SubSeq(s, 1, Len(s) - 1) = SubSeq(p, 1, Len(s) - 1)
     /\ s # SubSeq(p, 1, Len(s))
     /\ Sees(p, s))]

-----------------------------------------------------------------------------
(* A deep tree: the first read has three sources, and reading from source  *)
(* 1 makes a third read happen on one branch.  Source 2 of the first read  *)
(* is visible in two executions, neither of which discovers the other, so  *)
(* that two workers can race for it.                                       *)
DeepLeaves == <<<<0, 0>>, <<0, 1>>, <<1, 0, 0>>, <<1, 0, 1>>, <<1, 1>>, <<2>>>>

DeepNodes == <<<<0>>, <<1>>, <<2>>, <<0, 0>>, <<0, 1>>, <<0, 2>>, <<1, 0>>,
               <<1, 1>>, <<1, 0, 0>>, <<1, 0, 1>>>>

MCFeasible == FeasibleIn(DeepLeaves)

MCNodes == ToSet(DeepNodes) \cup {<< >>}

MCExecution == ExecutionIn(DeepLeaves, MCNodes)

DeepSees(p, s) == s = <<2>> => p \in {<<1, 0, 1>>, <<1, 1>>}

MCAlternatives == AlternativesIn(DeepNodes, DeepSees)

(* The execution of work item <<1>> fails after its last read.             *)
MCErroneous == {<<1, 0, 0>>}

(* An error-free program, and one with a failing execution.                *)
MCFailures == {{}, MCErroneous}

-----------------------------------------------------------------------------
(* A wide tree: the first execution discovers three siblings at once, so   *)
(* that a thief finds a deque to halve.                                    *)
WideLeaves == <<<<0, 0>>, <<0, 1>>, <<1, 0>>, <<2>>, <<3>>>>

WideNodes == <<<<0>>, <<1>>, <<2>>, <<3>>, <<0, 0>>, <<0, 1>>, <<1, 0>>>>

MCWideFeasible == FeasibleIn(WideLeaves)

MCWideNodes == ToSet(WideNodes) \cup {<< >>}

MCWideExecution == ExecutionIn(WideLeaves, MCWideNodes)

WideSees(p, s) == TRUE

MCWideAlternatives == AlternativesIn(WideNodes, WideSees)
=============================================================================
