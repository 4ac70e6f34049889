CONSTANTS
  Procs <- MCThreads
  Addrs <- MCPSOAddrs
  IPids <- MCIPids
  Programs <- MCPrograms
SPECIFICATION Spec
INVARIANTS
  Complete
  NoTraceTwice
  RobustnessExact
