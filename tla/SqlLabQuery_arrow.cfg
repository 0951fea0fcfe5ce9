CONSTANTS
  q1 = q1
  Queries = {q1}
  Requests <- SyncRequests
  SqlMaxRow = 2
  BackendPersistence = TRUE
  UseMsgpack = TRUE
  Timeouts = FALSE
  Crashes = FALSE
SPECIFICATION Spec
CHECK_DEADLOCK FALSE
PROPERTY CommittedSuccessIsReturned
