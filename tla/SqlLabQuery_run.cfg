CONSTANTS
  q1 = q1
  Queries = {q1}
  Requests <- AllRequests
  SqlMaxRow = 2
  BackendPersistence = TRUE
  UseMsgpack = TRUE
  Timeouts = TRUE
  Crashes = TRUE
SPECIFICATION FairSpec
CHECK_DEADLOCK FALSE
INVARIANTS
  TypeOK
  KeyNamesLastResult
  SuccessIsComplete
  StopBoundedByTwoStatements
  RowsAreBounded
PROPERTIES
  AnsweredStaysAnswered
  LifecycleSpec
  DispatchedQueriesEnd
