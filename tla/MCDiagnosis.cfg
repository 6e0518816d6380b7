SPECIFICATION Spec
CONSTANTS
  None = None
  Absent = Absent
  Foreign = Foreign
  Unset = Unset
  Alphanumerics = {"a", "b", "z"}
  Requests <- MCRequests
  Searches <- MCSearches
  MaxUnits = 2
  Ambiguous = TRUE
  Faults = TRUE
INVARIANTS
  TypeOK
  MergedIsValid
  UnitsAreDistinct
  ReportIsWhole
  ReportFits
  LogsExitTellsWhy
PROPERTIES
  LoadIsExact
  ForeignIsReported
  OursIsNotReported
CHECK_DEADLOCK FALSE
