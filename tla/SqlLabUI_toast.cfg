CONSTANTS
  q1 = q1
  q2 = q2
  Queries <- OneQuery
  Stoppable <- OneQuery
  Modes = {TRUE}
  Polls = {1}
  Buffer = 1
  Lag = 0
  MaxClock = 1
  MaxLost = 0
SPECIFICATION Spec
CHECK_DEADLOCK FALSE
PROPERTY OnlyStoppedQueriesShowStopped
