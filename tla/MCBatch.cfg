SPECIFICATION Spec
CONSTANTS
  None = None
  g1 = g1
  g2 = g2
  g3 = g3
  Configs <- MCConfigs
  Groups <- MCGroups
  Ids = {1, 2, 3}
  RowCap = 2
INVARIANTS
  TypeOK
  TargetsAreTheSelected
  EveryTargetAnswered
  ExitCodeIsEarned
  RepairIsAFilter
  StatusIsWholeAndAddsUp
PROPERTIES
  EachTargetAnsweredOnce
CHECK_DEADLOCK FALSE
