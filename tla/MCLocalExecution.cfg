SPECIFICATION MCSpec
CONSTANTS
  Word = 6
  Half = 3
  LittleEndian = TRUE
  MaxDryRuns = 2
  Programs <- MCPrograms
  LoadValues <- MCLoadValues
INVARIANTS
  SequentialMeaning
  DataflowMeaning
  DependenciesExact
PROPERTIES
  DryRunForesees
