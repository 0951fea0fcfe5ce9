CONSTANTS
  q1 = q1
  Queries = {q1}
  Requests <- SmallLimitRequests
  SqlMaxRow = 2
  BackendPersistence = FALSE
  UseMsgpack = FALSE
  Timeouts = FALSE
  Crashes = FALSE
SPECIFICATION Spec
CHECK_DEADLOCK FALSE
INVARIANT EditorLimitIsUsed
