CONSTANTS
  q1 = q1
  Queries = {q1}
  Requests <- AllRequests
  SqlMaxRow = 2
  BackendPersistence = FALSE
  UseMsgpack = FALSE
  Timeouts = FALSE
  Crashes = FALSE
SPECIFICATION Spec
CHECK_DEADLOCK FALSE
PROPERTY StopCheckSeesTheRow
