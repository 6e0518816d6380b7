SPECIFICATION FairSpec
CONSTANTS
  Lines <- MCLines
  PipeCapacity = 1
  MaxLines = 3
INVARIANTS
  TypeOK
  OkIsAnExitedProxy
  NothingWrittenIsLost
  NoMutualWait
  NoGroupOutlivesTimeout
PROPERTIES
  ProbeAlwaysReturns
  KilledIsReaped
CHECK_DEADLOCK FALSE
