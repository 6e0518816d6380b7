SPECIFICATION Spec
CONSTANTS
  None = None
  Absent = Absent
  Foreign = Foreign
  CLI = {c1, c2}
  Ops <- Mutating
  Connections <- UsableConnections
  Polls = 0
  Ambiguous = FALSE
  Faults = FALSE
SYMMETRY Interchangeable
INVARIANTS
  RestartConflictMeansRival
PROPERTIES
  StartNeverCreditsStranger
  StopWaitsForUnload
  RestartIsANewProcess
