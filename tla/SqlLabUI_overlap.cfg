CONSTANTS
  q1 = q1
  q2 = q2
  Queries <- OneQuery
  Stoppable <- NoQuery
  Modes = {TRUE, FALSE}
  Polls = {1, 2}
  Buffer = 1
  Lag = 1
  MaxClock = 3
  MaxLost = 1
SPECIFICATION Spec
CHECK_DEADLOCK FALSE
INVARIANTS
  TypeOK
  NextPollTells
  SuccessIsBacked
