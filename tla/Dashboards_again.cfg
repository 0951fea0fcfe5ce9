CONSTANTS
  p1 = p1
  p2 = p2
  Pages <- OnePage
  Columns = {"country", "year"}
  MaxCharts = 4
  MaxDashboards = 3
  MaxSteps = 4
SPECIFICATION Spec
PROPERTY ImportedOnce
CHECK_DEADLOCK FALSE
