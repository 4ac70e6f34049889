SPECIFICATION FairSpec
CONSTANTS
  Threads = {0, 1, 2}
  Main = 0
  Programs <- AllPrograms
  Mutexes = {"m"}
  Conds = {"c", "d"}
  Locations = {"x"}
  Values = {1, 2}
  NULL = "null"
  CheckedPrograms <- InitPrograms
INVARIANTS
  RecordsAgree
  OwnerHolds
PROPERTIES
  ErrorOnlyOnMisuse
  Terminates
