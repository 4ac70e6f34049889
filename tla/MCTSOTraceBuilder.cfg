CONSTANTS
  commute_rmws = TRUE
  Threads <- MCThreads
  Addrs <- MCAddrs
  Programs <- MCPrograms
  Algorithms <- MCAlgorithms
SPECIFICATION Spec
INVARIANTS
  Complete
  NoTraceTwice
  ReplayFollows
