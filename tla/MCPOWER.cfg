CONSTANTS
  Programs <- MCPrograms
  Models = {"POWER", "ARM"}
SPECIFICATION Spec
INVARIANTS
  ExploresAllowed
  NoTraceTwice
  ErrorsExact
  ReplayCommittable
