SPECIFICATION FairSpec
CONSTANTS
  Threads = {0, 1, 2}
  Main = 0
  Programs <- AllPrograms
  Locations <- MCLocations
  Values <- MCValues
  Bytes <- MCBytes
INVARIANTS
  NoMissedWakeup
  QuiescentIsFinal
PROPERTIES
  ImplementsTSO
  Terminates
