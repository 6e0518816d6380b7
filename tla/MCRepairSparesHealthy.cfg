SPECIFICATION Spec
CONSTANTS
  None = None
  Absent = Absent
  Foreign = Foreign
  CLI = {c1}
  Ops = {"restart_failed"}
  Connections <- UsableConnections
  Polls = 1
  Ambiguous = FALSE
  Faults = FALSE
PROPERTIES
  RepairSparesHealthy
