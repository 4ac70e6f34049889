CONSTANTS
  Programs <- MCTerminators
  Models = {"POWER", "ARM"}
SPECIFICATION Spec
INVARIANT ReplayCommittable
