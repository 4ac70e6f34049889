SPECIFICATION FairSpec
CONSTANTS
  Workers = {0, 1, 2}
  NoNode = NoNode
  Unf <- MCUnf
  Nodes <- MCWideNodes
  Execution <- MCWideExecution
  Alternatives <- MCWideAlternatives
  Feasible <- MCWideFeasible
  Failures = {{}}
  KeepGoing = FALSE
  MaxDepth = 1
INVARIANTS
  JobAccounting
PROPERTIES
  ImplementsExploration
  Termination
