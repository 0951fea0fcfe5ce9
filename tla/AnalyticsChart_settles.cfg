CONSTANTS
  SlowTasks = TRUE
  MaxTasks = 2
  MaxRuns = 1
  MaxFaults = 1
SPECIFICATION FairSpec
CHECK_DEADLOCK FALSE
INVARIANTS
  TypeOK
  RegeneratedIsSaved
PROPERTY ChartSettles
