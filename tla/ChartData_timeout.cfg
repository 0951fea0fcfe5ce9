CONSTANTS
  r1 = r1
  r2 = r2
  table = table
  line = line
  Requests <- OneRequest
  Charts <- TwoCharts
  Queries <- TheirQueries
  Timeout <- TheirTimeouts
  ResponseTimeout = 1
  MaxDelay = 1
  MaxEdits = 0
SPECIFICATION Spec
INVARIANTS
  TimeoutOfThisChart
