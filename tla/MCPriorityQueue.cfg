SPECIFICATION FairSpec
CONSTANTS
  Workers = {t1, t2, t3}
  NoNode = NoNode
  Unf <- MCUnf
  Nodes <- MCNodes
  Execution <- MCExecution
  Alternatives <- MCAlternatives
  Feasible <- MCFeasible
  Failures <- MCFailures
  KeepGoing = FALSE
INVARIANTS
  JobAccounting
  HaltOnlyWhenExhausted
  OneOwner
  NoLostWakeup
  NoDuplicateExploration
  ErrorReported
PROPERTIES
  ImplementsExploration
  Termination
