CONSTANTS
  q1 = q1
  q2 = q2
  Queries <- OneQuery
  Stoppable <- OneQuery
  Modes = {TRUE}
  Polls = {1, 2}
  Buffer = 0
  Lag = 0
  MaxClock = 1
  MaxLost = 0
SPECIFICATION FairSpec
CHECK_DEADLOCK FALSE
PROPERTY PageSettles
