CONSTANTS
  SlowTasks = TRUE
  MaxTasks = 2
  MaxRuns = 1
  MaxFaults = 0
SPECIFICATION Spec
CHECK_DEADLOCK FALSE
PROPERTY StoppedStaysStopped
