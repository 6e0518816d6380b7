SPECIFICATION Spec
CONSTANTS
  None = None
  Absent = Absent
  Foreign = Foreign
  CLI = {c1}
  Ops = {"stop"}
  Connections <- AllConnections
  Polls = 1
  Ambiguous = FALSE
  Faults = FALSE
PROPERTIES
  DisabledStopIsNoOp
