CONSTANTS
  p1 = p1
  p2 = p2
  Pages <- OnePage
  Columns = {"country", "year"}
  MaxCharts = 4
  MaxDashboards = 2
  MaxSteps = 4
SPECIFICATION Spec
INVARIANTS
  TypeOK
  MetadataNamesOwnCharts
PROPERTIES
  WarmedAsSaved
  SavedPageComesBack
  CopyIsIndependent
CHECK_DEADLOCK FALSE
