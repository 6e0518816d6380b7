SPECIFICATION Spec
CONSTANTS
  None = None
  Absent = Absent
  Raws <- MCRaws
  Listeners <- MCListeners
  Instants <- MCInstants
INVARIANTS
  RowMatchesTruthTable
  NeverSilentlyHealthy
  RowIsWellFormed
PROPERTIES
  StartingOnlyEnds
CHECK_DEADLOCK FALSE
