CONSTANTS
  SlowTasks = FALSE
  MaxTasks = 2
  MaxRuns = 1
  MaxFaults = 0
SPECIFICATION FairSpec
CHECK_DEADLOCK FALSE
PROPERTY ChartSettles
