CONSTANTS
  q1 = q1
  q2 = q2
  Queries <- TwoQueries
  Stoppable <- NoQuery
  Modes = {TRUE}
  Polls = {1}
  Buffer = 1
  Lag = 1
  MaxClock = 2
  MaxLost = 0
SPECIFICATION Spec
SYMMETRY Pair
CHECK_DEADLOCK FALSE
INVARIANTS
  NextPollTells
