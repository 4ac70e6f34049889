CONSTANTS
  commute_rmws = FALSE
  Threads <- MCThreads
  Addrs <- MCAddrs
  Programs <- MCOwnStore
  Algorithms = {"READS_FROM"}
  Workers = {1}
  no_heuristic = {TRUE, FALSE}
SPECIFICATION MCSpec
INVARIANT
  Complete
