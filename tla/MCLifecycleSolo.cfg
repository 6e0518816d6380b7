SPECIFICATION FairSpec
CONSTANTS
  None = None
  Absent = Absent
  Foreign = Foreign
  CLI = {c1}
  Ops <- AllOps
  Connections <- AllConnections
  Polls = 2
  Ambiguous = TRUE
  Faults = TRUE
INVARIANTS
  TypeOK
  OneStartPerInvocation
PROPERTIES
  DisabledIsOnlyStopped
  ImplementsConnection
  EveryInvocationEnds
  StepsRunOut
