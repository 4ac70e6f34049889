SPECIFICATION FairSpec
CONSTANTS
  Threads = {0, 1, 2}
  Main = 0
  Programs <- OtherPrograms
  Locations <- MCLocations
  Values <- MCValues
  Bytes <- MCBytes
INVARIANTS
  HeadIsWhole
PROPERTIES
  ImplementsPSO
  FlushEnds
