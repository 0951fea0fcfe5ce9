CONSTANTS
  Kinds <- TwoKinds
  MaxSent = 2
  MaxRetries = 2
  MaxCrashes = 1
SPECIFICATION FairTasksSpec
INVARIANTS
  TasksTypeOK
  BilledForItsResult
  CancelledWaitingIsFree
PROPERTY TasksEnd
