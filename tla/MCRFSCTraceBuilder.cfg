CONSTANTS
  commute_rmws = FALSE
  Threads <- MCThreads
  Addrs <- MCAddrs
  Programs <- MCPrograms
  Algorithms = {"READS_FROM"}
  Workers = {1, 2}
  no_heuristic = {TRUE, FALSE}
SPECIFICATION MCSpec
INVARIANTS
  Complete
  NoClassTwice
  CacheIsCausalPast
  OrdersAreSound
