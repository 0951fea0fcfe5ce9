------------------------------ MODULE SqlLabQuery ------------------------------
(***************************************************************************)
(* The life of SQL Lab queries on the backend: the web request that        *)
(* creates the row of the "query" table and dispatches it, the worker      *)
(* that executes its statements, the stop request of the user, and the     *)
(* results backend.                                                        *)
(*                                                                         *)
(* The three actors share only the row, and each of them works on a copy   *)
(* of it: the object in its SQLAlchemy session, which is loaded on the     *)
(* first attribute read after a commit and then not read again before the  *)
(* next commit, however often the row is queried.  The model keeps the     *)
(* worker's copy apart from the row (seen, seenLimit), because what the    *)
(* worker knows of a stop request is decided by the age of that copy.      *)
(*                                                                         *)
(* Statements are SELECTs (or the SELECT of a CREATE TABLE AS).            *)
(***************************************************************************)
EXTENDS Naturals

CONSTANTS
  Queries,            \* the queries of the instance
  Requests,           \* the requests a client may send
  SqlMaxRow,          \* config SQL_MAX_ROW
  BackendPersistence, \* feature flag SQLLAB_BACKEND_PERSISTENCE
  UseMsgpack,         \* config RESULTS_BACKEND_USE_MSGPACK
  Timeouts,           \* may a query run into its time limit?
  Crashes             \* may a worker die in the middle of a task?

\* A request: asynchronous or not, CREATE TABLE AS or not, the number of
\* statements, the limit chosen in the editor (0 is "no limit"), and whether
\* the database's engine spec polls its cursor (Presto, Hive) or not.
Job == [async : BOOLEAN, ctas : BOOLEAN, statements : Nat \ {0}, limit : Nat,
        polls : BOOLEAN]

ASSUME ConstantsAssumption ==
  /\ Requests \subseteq Job
  /\ SqlMaxRow \in Nat \ {0}
  /\ BackendPersistence \in BOOLEAN
  /\ UseMsgpack \in BOOLEAN
  /\ Timeouts \in BOOLEAN
  /\ Crashes \in BOOLEAN

\* QueryStatus of superset/utils/core.py, the value the program never
\* writes (timed_out, scheduled) left out; "absent" is "no row yet".
QueryStatus == {"absent", "pending", "running", "success", "failed", "stopped"}
Expired == "expired"

VARIABLES
  job,        \* the request of each client
  \* columns of the row in the metadata database
  status, limit, keyed,
  \* sql_json_exec: the web request that created the query, and its answer
  web, reply,
  \* the worker: its program counter, the statement it is at, its session's
  \* copy of status and limit, the last statement whose cursor it cancelled
  pc, stmt, seen, seenLimit, cut,
  bound,      \* the LIMIT baked into the SQL of the statement being executed
  applied,    \* has the connection to the analysed database been committed?
  store,      \* the entry of the results backend
  stopper,    \* a stop_query request in flight: the status it has read
  sinceStop   \* history: statements begun since the row was marked stopped

rowVars == <<status, limit, keyed>>
webVars == <<web, reply>>
sessionVars == <<seen, seenLimit>>
workerData == <<stmt, cut, bound, applied>>
workerVars == <<pc, workerData>>
stopVars == <<stopper, sinceStop>>
vars == <<job, rowVars, webVars, sessionVars, workerVars, store, stopVars>>

WorkerIdle == {"off", "queued"}
WorkerGone == {"quit", "returned", "rescued", "dead"}
WorkerBusy == {"loaded", "opening", "checking", "preparing", "prepared", "sending",
               "executing", "fetching", "looped", "finishing", "storing", "returning",
               "failing"}

-----------------------------------------------------------------------------
(* Helpers *)

\* Reads the row through the session: an expired object is loaded, a loaded
\* one is returned as it is.
Loaded(q) == IF seen[q] = Expired THEN status[q] ELSE seen[q]
LoadedLimit(q) == IF seen[q] = Expired THEN limit[q] ELSE seenLimit[q]

Load(q) ==
  /\ seen' = [seen EXCEPT ![q] = Loaded(q)]
  /\ seenLimit' = [seenLimit EXCEPT ![q] = LoadedLimit(q)]

\* A commit followed by an attribute read: the copy is the row as it is now.
Reload(q, newLimit) ==
  /\ seen' = [seen EXCEPT ![q] = status[q]]
  /\ seenLimit' = [seenLimit EXCEPT ![q] = newLimit]

Expire(q) == seen' = [seen EXCEPT ![q] = Expired] /\ UNCHANGED seenLimit

\* The unit of work writes a column only when its value differs from the
\* one that was loaded.
WriteStatus(q, new) ==
  status' = IF seen[q] = new THEN status ELSE [status EXCEPT ![q] = new]

Goto(q, from, to) == pc[q] \in from /\ pc' = [pc EXCEPT ![q] = to]

\* The tasks a worker may take: acknowledged when taken, never handed out twice.
DeliverableAcksLate == {"queued", "dead"}   \* mutant
Deliverable == {"queued"}

\* Statuses stop_query takes for complete.
CompleteOnlySuccess == {"success"}   \* mutant
Complete == {"failed", "success"}

InitialStatusScheduled(q) == "scheduled"   \* mutant
InitialStatus(q) == IF job[q].async THEN "pending" ELSE "running"

LastStatementTooEarly(q) == stmt[q] + 1 >= job[q].statements   \* mutant
LastStatement(q) == stmt[q] = job[q].statements

\* The loop's "Check if stopped", made on the session's copy.
StopSeenBeforeTheLoop(q) == stmt[q] = 1 /\ Loaded(q) = "stopped"   \* mutant
StopSeen(q) == Loaded(q) = "stopped"

\* execute_sql_statements returned its payload, or None, or the error of
\* handle_query_error (None has no status to look at, which raises).
SyncAnswer(q) == IF pc[q] = "returned" THEN "rows" ELSE "error"

\* "SQL_MAX_ROW and (not query.limit or query.limit > SQL_MAX_ROW)"
ClampLimitKeepsZero(l) == IF l > SqlMaxRow THEN SqlMaxRow ELSE l   \* mutant
ClampLimit(l) == IF l = 0 \/ l > SqlMaxRow THEN SqlMaxRow ELSE l

\* store_results, as _sql_json_async and _sql_json_sync pass it.
StoresResults(j) == ~j.ctas /\ (j.async \/ BackendPersistence)

\* use_arrow_data and return_results (only a synchronous call returns them).
ReturnsArrow(j) == ~j.async /\ StoresResults(j) /\ UseMsgpack

-----------------------------------------------------------------------------
Init ==
  /\ job \in [Queries -> Requests]
  /\ status = [q \in Queries |-> "absent"]
  /\ limit = [q \in Queries |-> 0]
  /\ keyed = [q \in Queries |-> FALSE]
  /\ web = [q \in Queries |-> "new"]
  /\ reply = [q \in Queries |-> "none"]
  /\ pc = [q \in Queries |-> "off"]
  /\ stmt = [q \in Queries |-> 0]
  /\ seen = [q \in Queries |-> Expired]
  /\ seenLimit = [q \in Queries |-> 0]
  /\ cut = [q \in Queries |-> 0]
  /\ bound = [q \in Queries |-> 0]
  /\ applied = [q \in Queries |-> FALSE]
  /\ store = [q \in Queries |-> "empty"]
  /\ stopper = [q \in Queries |-> "idle"]
  /\ sinceStop = [q \in Queries |-> 0]

-----------------------------------------------------------------------------
(* The web request: sql_json_exec, _sql_json_async, _sql_json_sync *)

\* The row is inserted and committed before anything is checked.
InsertRow(q) ==
  /\ web[q] = "new"
  /\ web' = [web EXCEPT ![q] = "inserted"]
  /\ status' = [status EXCEPT ![q] = InitialStatus(q)]
  /\ UNCHANGED <<job, limit, keyed, reply, sessionVars, workerVars, store,
                 stopVars>>

\* security_manager.rejected_tables.
RejectTables(q) ==
  /\ web[q] = "inserted"
  /\ web' = [web EXCEPT ![q] = "replied"]
  /\ reply' = [reply EXCEPT ![q] = "error"]
  /\ status' = [status EXCEPT ![q] = "failed"]
  /\ UNCHANGED <<job, limit, keyed, sessionVars, workerVars, store, stopVars>>

\* A template that does not render is answered with an error; the row stays.
RejectTemplate(q) ==
  /\ web[q] = "inserted"
  /\ web' = [web EXCEPT ![q] = "replied"]
  /\ reply' = [reply EXCEPT ![q] = "error"]
  /\ UNCHANGED <<job, rowVars, sessionVars, workerVars, store, stopVars>>

\* _sql_json_async: get_sql_results.delay().  query.limit has been assigned but
\* is only written by the commit that follows (CommitLimit).
Enqueue(q) ==
  /\ web[q] = "inserted"
  /\ job[q].async
  /\ web' = [web EXCEPT ![q] = "enqueued"]
  /\ Goto(q, {"off"}, "queued")
  /\ UNCHANGED <<job, rowVars, reply, sessionVars, workerData, store, stopVars>>

\* The broker refuses the task: the status and the limit in one commit.
EnqueueFails(q) ==
  /\ web[q] = "inserted"
  /\ job[q].async
  /\ web' = [web EXCEPT ![q] = "replied"]
  /\ reply' = [reply EXCEPT ![q] = "error"]
  /\ status' = [status EXCEPT ![q] = "failed"]
  /\ limit' = [limit EXCEPT ![q] = job[q].limit]
  /\ UNCHANGED <<job, keyed, sessionVars, workerVars, store, stopVars>>

\* The session.commit() after delay(), and the answer 202.
CommitLimit(q) ==
  /\ web[q] = "enqueued"
  /\ web' = [web EXCEPT ![q] = "replied"]
  /\ reply' = [reply EXCEPT ![q] = "accepted"]
  /\ limit' = [limit EXCEPT ![q] = job[q].limit]
  /\ UNCHANGED <<job, status, keyed, sessionVars, workerVars, store, stopVars>>

\* _sql_json_sync calls get_sql_results in the request's own thread and
\* session, whose commit at the start of session_scope writes the limit.
CallSync(q) ==
  /\ web[q] = "inserted"
  /\ ~job[q].async
  /\ web' = [web EXCEPT ![q] = "calling"]
  /\ Goto(q, {"off"}, "queued")
  /\ limit' = [limit EXCEPT ![q] = job[q].limit]
  /\ UNCHANGED <<job, status, keyed, reply, sessionVars, workerData, store,
                 stopVars>>

\* The answer of a synchronous query: rows when execute_sql_statements ran to
\* its end, an error when it failed or returned None because of a stop.
ReplySync(q) ==
  /\ web[q] = "calling"
  /\ pc[q] \in {"returned", "quit", "rescued"}
  /\ web' = [web EXCEPT ![q] = "replied"]
  /\ reply' = [reply EXCEPT ![q] = SyncAnswer(q)]
  /\ UNCHANGED <<job, rowVars, sessionVars, workerVars, store, stopVars>>

-----------------------------------------------------------------------------
(* The worker: get_sql_results and execute_sql_statements *)

\* A pool process (or, for a synchronous query, the web thread) takes the
\* task and loads the row.
BeginTask(q) ==
  /\ Goto(q, Deliverable, "loaded")
  /\ Load(q)
  /\ UNCHANGED <<job, rowVars, webVars, workerData, store, stopVars>>

\* status := RUNNING, commit.  A stop written since the insert is overwritten,
\* unless the copy already says "running" (a synchronous query).
MarkRunning(q) ==
  /\ Goto(q, {"loaded"}, "opening")
  /\ WriteStatus(q, "running")
  /\ Expire(q)
  /\ UNCHANGED <<job, limit, keyed, webVars, workerData, store, stopVars>>

\* query.schema loads the row, then the connection and its cursor are opened.
OpenConnection(q) ==
  /\ Goto(q, {"opening"}, "checking")
  /\ Load(q)
  /\ stmt' = [stmt EXCEPT ![q] = 1]
  /\ UNCHANGED <<job, rowVars, webVars, cut, bound, applied, store, stopVars>>

\* The loop's "Check if stopped", when the copy says so: return None.  The
\* connection closes without a commit.
QuitIfStopped(q) ==
  /\ Goto(q, {"checking"}, "quit")
  /\ StopSeen(q)
  /\ Load(q)
  /\ UNCHANGED <<job, rowVars, webVars, workerData, store, stopVars>>

\* The check passes and the progress message is committed.
ContinueIfNotStopped(q) ==
  /\ Goto(q, {"checking"}, "preparing")
  /\ ~StopSeen(q)
  /\ Expire(q)
  /\ UNCHANGED <<job, rowVars, webVars, workerData, store, stopVars>>

\* execute_sql_statement up to the assignment of executed_sql: the row is
\* loaded, its limit clamped and built into the SQL.
PrepareStatement(q) ==
  /\ Goto(q, {"preparing"}, "prepared")
  /\ Load(q)
  /\ bound' = [bound EXCEPT ![q] = ClampLimit(LoadedLimit(q))]
  /\ UNCHANGED <<job, rowVars, webVars, stmt, cut, applied, store, stopVars>>

\* executed_sql is committed (with the limit, if the clamp changed it) and the
\* row is loaded again by the log call.
CommitStatement(q) ==
  /\ Goto(q, {"prepared"}, "sending")
  /\ limit' = [limit EXCEPT ![q] = IF bound[q] # seenLimit[q] THEN bound[q] ELSE @]
  /\ Reload(q, limit'[q])
  /\ UNCHANGED <<job, status, keyed, webVars, workerData, store, stopVars>>

\* The database gets the statement; a stop may have come since the load.
BeginStatement(q) ==
  /\ Goto(q, {"sending"}, "executing")
  /\ sinceStop' = [sinceStop EXCEPT ![q] = IF status[q] = "stopped" THEN @ + 1 ELSE @]
  /\ UNCHANGED <<job, rowVars, webVars, sessionVars, workerData, store, stopper>>

\* handle_cursor of Presto and Hive: one round of polling that finds the
\* query still running.  Progress, when there is some, is committed.
PollCursor(q) ==
  /\ pc[q] = "executing"
  /\ job[q].polls
  /\ Loaded(q) # "stopped"
  /\ Load(q) \/ Expire(q)
  /\ UNCHANGED <<job, rowVars, webVars, workerVars, store, stopVars>>

\* The same round when the copy says "stopped": cancel and leave the loop.
CancelCursor(q) ==
  /\ Goto(q, {"executing"}, "fetching")
  /\ job[q].polls
  /\ Loaded(q) = "stopped"
  /\ Load(q)
  /\ cut' = [cut EXCEPT ![q] = stmt[q]]
  /\ UNCHANGED <<job, rowVars, webVars, stmt, bound, applied, store, stopVars>>

\* The rows are fetched (the log call loads the row if a poll expired it)
\* and the loop goes to the next statement, or ends after the last.
FinishStatement(q) ==
  /\ pc[q] \in {"executing", "fetching"}
  /\ Load(q)
  /\ \/ /\ ~LastStatement(q)
        /\ stmt' = [stmt EXCEPT ![q] = @ + 1]
        /\ pc' = [pc EXCEPT ![q] = "checking"]
     \/ /\ LastStatement(q)
        /\ pc' = [pc EXCEPT ![q] = "looped"]
        /\ UNCHANGED stmt
  /\ UNCHANGED <<job, rowVars, webVars, cut, bound, applied, store, stopVars>>

\* conn.commit(), after every statement: only now does a CREATE TABLE stay.
CommitConnection(q) ==
  /\ Goto(q, {"looped"}, "finishing")
  /\ applied' = [applied EXCEPT ![q] = TRUE]
  /\ UNCHANGED <<job, rowVars, webVars, sessionVars, stmt, cut, bound, store,
                 stopVars>>

\* results_backend.set(key, ...); query.results_key is assigned after it.
StoreResultsAfterTheKey(q) ==   \* mutant
  /\ Goto(q, {"finishing"}, "storing")
  /\ StoresResults(job[q])
  /\ UNCHANGED <<job, rowVars, webVars, sessionVars, workerData, store, stopVars>>

StoreResults(q) ==
  /\ Goto(q, {"finishing"}, "storing")
  /\ StoresResults(job[q])
  /\ store' = [store EXCEPT ![q] = "stored"]
  /\ UNCHANGED <<job, rowVars, webVars, sessionVars, workerData, stopVars>>

\* status := SUCCESS with results_key, rows, progress and end_time, commit.
CommitSuccess(q) ==
  /\ IF StoresResults(job[q]) THEN Goto(q, {"storing"}, "returning")
                              ELSE Goto(q, {"finishing"}, "returning")
  /\ WriteStatus(q, "success")
  /\ keyed' = [keyed EXCEPT ![q] = StoresResults(job[q])]
  /\ Expire(q)
  /\ UNCHANGED <<job, limit, webVars, workerData, store, stopVars>>

ReturnPayload(q) ==
  /\ Goto(q, {"returning"}, "returned")
  /\ ~ReturnsArrow(job[q])
  /\ UNCHANGED <<job, rowVars, webVars, sessionVars, workerData, store, stopVars>>

\* The branch for arrow data names a variable that does not exist
\* (result_set): NameError, after the success was committed.
ReturnArrowPayload(q) ==
  /\ Goto(q, {"returning"}, "failing")
  /\ ReturnsArrow(job[q])
  /\ UNCHANGED <<job, rowVars, webVars, sessionVars, workerData, store, stopVars>>

\* Any other exception of the calls made: no connection, a statement that is
\* refused or fails, a commit, serialisation or results backend that fails.
RaiseError(q) ==
  /\ Goto(q, {"opening", "preparing", "sending", "executing", "fetching", "looped", "finishing"},
          "failing")
  /\ Load(q)
  /\ UNCHANGED <<job, rowVars, webVars, workerData, store, stopVars>>

\* SoftTimeLimitExceeded in a task, utils.timeout in a request, anywhere
\* before the function returns.
SoftTimeoutUncaught(q) ==   \* mutant
  /\ Timeouts
  /\ Goto(q, WorkerBusy \ {"failing"}, "rescued")
  /\ UNCHANGED <<job, rowVars, webVars, sessionVars, workerData, store, stopVars>>

SoftTimeout(q) ==
  /\ Timeouts
  /\ Goto(q, WorkerBusy \ {"failing"}, "failing")
  /\ UNCHANGED <<job, rowVars, webVars, sessionVars, workerData, store, stopVars>>

\* handle_query_error, from the loop or from get_sql_results.  A key that was
\* assigned before the exception is flushed with the rest (so is a limit
\* clamped in that moment, which nothing reads any more).
HandleError(q) ==
  /\ Goto(q, {"failing"}, "rescued")
  /\ status' = [status EXCEPT ![q] = "failed"]
  /\ \/ UNCHANGED keyed
     \/ store[q] # "empty" /\ keyed' = [keyed EXCEPT ![q] = TRUE]
  /\ Expire(q)
  /\ UNCHANGED <<job, limit, webVars, workerData, store, stopVars>>

\* The process is lost: time_limit kills it, or the machine does.  The task
\* was acknowledged when it was taken (task_acks_late is off).
WorkerDies(q) ==
  /\ Crashes
  /\ Goto(q, WorkerBusy, "dead")
  /\ UNCHANGED <<job, rowVars, webVars, sessionVars, workerData, store, stopVars>>

Work(q) ==
  \/ BeginTask(q) \/ MarkRunning(q) \/ OpenConnection(q)
  \/ QuitIfStopped(q) \/ ContinueIfNotStopped(q)
  \/ PrepareStatement(q) \/ CommitStatement(q) \/ BeginStatement(q)
  \/ PollCursor(q) \/ CancelCursor(q) \/ FinishStatement(q)
  \/ CommitConnection(q) \/ StoreResults(q) \/ CommitSuccess(q)
  \/ ReturnPayload(q) \/ ReturnArrowPayload(q)
  \/ RaiseError(q) \/ HandleError(q)

-----------------------------------------------------------------------------
(* The stop request, and the results backend *)

\* stop_query loads the row; a complete query is left alone.
ReadForStop(q) ==
  /\ web[q] # "new"
  /\ stopper[q] = "idle"
  /\ status[q] \notin Complete
  /\ stopper' = [stopper EXCEPT ![q] = status[q]]
  /\ UNCHANGED <<job, rowVars, webVars, sessionVars, workerVars, store, sinceStop>>

\* ... and writes STOPPED on what it read, whatever the row says by now.
CommitStop(q) ==
  /\ stopper[q] # "idle"
  /\ stopper' = [stopper EXCEPT ![q] = "idle"]
  /\ status' = IF stopper[q] = "stopped" THEN status ELSE [status EXCEPT ![q] = "stopped"]
  /\ sinceStop' = [sinceStop EXCEPT ![q] = IF status[q] = status'[q] THEN @ ELSE 0]
  /\ UNCHANGED <<job, limit, keyed, webVars, sessionVars, workerVars, store>>

\* The results backend is a cache: an entry goes after cache_timeout or under
\* memory pressure.
ExpireResults(q) ==
  /\ store[q] = "stored"
  /\ store' = [store EXCEPT ![q] = "expired"]
  /\ UNCHANGED <<job, rowVars, webVars, sessionVars, workerVars, stopVars>>

Web(q) ==
  \/ InsertRow(q) \/ RejectTables(q) \/ RejectTemplate(q)
  \/ Enqueue(q) \/ EnqueueFails(q) \/ CommitLimit(q)
  \/ CallSync(q) \/ ReplySync(q)

Next ==
  \E q \in Queries :
    \/ Web(q) \/ Work(q) \/ SoftTimeout(q) \/ WorkerDies(q)
    \/ ReadForStop(q) \/ CommitStop(q) \/ ExpireResults(q)

Spec == Init /\ [][Next]_vars

\* The web thread and the worker are threads that run; the soft limit is a
\* timer that ends a statement however long its cursor is polled.  Nobody
\* has to send a query or to stop one.
Fairness ==
  \A q \in Queries :
    /\ WF_vars(Web(q) /\ web[q] # "new")
    /\ WF_vars(Work(q))
    /\ WF_vars(SoftTimeout(q))

FairSpec == Spec /\ Fairness

-----------------------------------------------------------------------------
(* Properties *)

\* Every variable keeps to the values the program can give it.
TypeOK ==
  /\ job \in [Queries -> Requests]
  /\ status \in [Queries -> QueryStatus]
  /\ limit \in [Queries -> Nat]
  /\ keyed \in [Queries -> BOOLEAN]
  /\ web \in [Queries -> {"new", "inserted", "enqueued", "calling", "replied"}]
  /\ reply \in [Queries -> {"none", "accepted", "rows", "error"}]
  /\ pc \in [Queries -> WorkerIdle \cup WorkerBusy \cup WorkerGone]
  /\ stmt \in [Queries -> Nat]
  /\ seen \in [Queries -> QueryStatus \cup {Expired}]
  /\ seenLimit \in [Queries -> Nat]
  /\ cut \in [Queries -> Nat]
  /\ bound \in [Queries -> Nat]
  /\ applied \in [Queries -> BOOLEAN]
  /\ store \in [Queries -> {"empty", "stored", "expired"}]
  /\ stopper \in [Queries -> QueryStatus \cup {"idle"}]
  /\ sinceStop \in [Queries -> Nat]

\* A results key is in the row only when the results backend has been given
\* rows under it, by a query all of whose statements were run and whose
\* connection was committed: whoever reads a key finds the result of the last
\* statement or an expired entry (410). It is the whole result, or what was left
\* of it when a stop cancelled the cursor of that last statement, which the code
\* counts as a success (KilledIsNotSuccess); no earlier statement is ever cut.
KeyNamesLastResult ==
  \A q \in Queries :
    keyed[q] =>
      /\ store[q] # "empty"
      /\ applied[q]
      /\ LastStatement(q)
      /\ cut[q] \in {0, job[q].statements}

\* SUCCESS is the last thing written: the statements all ran, the CREATE
\* TABLE is committed and, when results are to be stored, the key is there.
SuccessIsComplete ==
  \A q \in Queries :
    status[q] = "success" =>
      /\ applied[q]
      /\ stmt[q] = job[q].statements
      /\ StoresResults(job[q]) => keyed[q]

\* The rows a synchronous request answers with are those of a query that
\* succeeded; its row can only have been marked stopped since.
RowsAnswerMeansSuccess ==
  \A q \in Queries :
    reply[q] = "rows" => ~job[q].async /\ applied[q] /\ status[q] \in {"success", "stopped"}

\* A stop that is in the row lets at most two more statements begin: the one
\* that was about to be sent when the stop came, after the worker had loaded the
\* row for the last time, and the next one, whose check is made on that copy.
StopBoundedByTwoStatements ==
  \A q \in Queries : status[q] = "stopped" => sinceStop[q] <= 2

\* A worker that obeyed a stop left nothing behind: nothing is committed in
\* the analysed database, no result is stored, and the row stays stopped.
ObeyedStopIsFinal ==
  \A q \in Queries :
    pc[q] = "quit" => status[q] = "stopped" /\ ~applied[q] /\ ~keyed[q] /\ store[q] = "empty"

\* No SELECT reaches the database without a limit, or with one above
\* SQL_MAX_ROW, even when it overtakes the commit of its limit.
RowsAreBounded ==
  \A q \in Queries :
    pc[q] \in {"prepared", "sending", "executing", "fetching"} => bound[q] \in 1..SqlMaxRow

\* Once a query has its answer (success, failed) it is never again shown as
\* waiting or running, and once its worker is gone only a stop changes it.
AnsweredStaysAnswered ==
  [][\A q \in Queries :
       /\ status[q] \in {"success", "failed"} => status'[q] \notin {"pending", "running"}
       /\ pc[q] \in WorkerGone => status'[q] \in {status[q], "stopped"}]_vars

\* Every task that was handed to a worker ends, and its row leaves "pending" and
\* "running" for good, unless the worker dies.
DispatchedQueriesEnd ==
  \A q \in Queries :
    pc[q] = "queued"
      ~> (pc[q] = "dead" \/ [](status[q] \in {"success", "failed", "stopped"}))

-----------------------------------------------------------------------------
(* The inductive invariant: what holds at each place of the worker *)

BeforeCommit == {"off", "queued", "loaded", "opening", "checking", "preparing", "prepared",
                 "sending", "executing", "fetching", "looped", "quit"}
InLoop == {"checking", "preparing", "prepared", "sending", "executing", "fetching"}

\* Nothing is shown or stored before the connection is committed.
NothingEarly(q) ==
  /\ pc[q] \in BeforeCommit => ~applied[q]
  /\ pc[q] \in {"finishing", "storing", "returning", "returned"} => applied[q]
  /\ pc[q] = "looped" \/ applied[q] => LastStatement(q)
  /\ store[q] # "empty" => applied[q] /\ StoresResults(job[q]) /\ pc[q] # "finishing"
  /\ pc[q] = "storing" => store[q] # "empty"
  /\ keyed[q] => store[q] # "empty"

\* SUCCESS is shown from its commit on, and no copy says so before; nor is a
\* dispatched query shown as failed while its worker has not ended.
SuccessPlace(q) ==
  /\ pc[q] \in BeforeCommit \cup {"finishing", "storing"} =>
       /\ status[q] # "success" /\ seen[q] # "success"
       /\ pc[q] # "off" \/ web[q] # "replied" => status[q] # "failed"
  /\ status[q] = "success" => applied[q] /\ (StoresResults(job[q]) => keyed[q])
  /\ pc[q] \in {"returning", "returned"} => status[q] \in {"success", "stopped"}

\* A copy that says "stopped" is true; a second statement begins on a stopped
\* row only after the row was loaded again, so the copy that the next check reads
\* says so.
StopKnown(q) ==
  /\ pc[q] = "opening" => seen[q] = Expired
  /\ pc[q] \in InLoop /\ seen[q] = "stopped" => status[q] = "stopped"
  /\ pc[q] = "quit" => status[q] = "stopped"
  /\ pc[q] \in {"off", "queued", "loaded", "opening"} => sinceStop[q] = 0
  /\ status[q] = "stopped" =>
       /\ sinceStop[q] <= 2
       /\ pc[q] \in {"preparing", "prepared", "sending"} => sinceStop[q] <= 1
       /\ pc[q] = "sending" /\ sinceStop[q] = 1 => seen[q] = "stopped"
       /\ pc[q] \in {"checking", "executing", "fetching"} /\ sinceStop[q] = 2 =>
            Loaded(q) = "stopped"

\* A cursor is cancelled on a copy that says "stopped", which the next check
\* reads too: the statement that was cut is the last one that is run.
CutPlace(q) ==
  /\ pc[q] \in {"off", "queued", "loaded", "opening", "preparing", "prepared", "sending",
                "executing"} => cut[q] = 0
  /\ pc[q] = "fetching" => cut[q] = stmt[q]
  /\ pc[q] = "looped" \/ applied[q] => cut[q] \in {0, job[q].statements}
  /\ pc[q] = "fetching" \/ (pc[q] = "checking" /\ cut[q] # 0) => seen[q] = "stopped"

\* Where the request is when its worker has not started, and when it answers.
RequestPlace(q) ==
  /\ web[q] \in {"new", "inserted"} => pc[q] = "off"
  /\ web[q] \in {"enqueued", "calling"} => pc[q] # "off"
  /\ stopper[q] # "idle" => web[q] # "new"
  /\ web[q] = "calling" => ~job[q].async
  /\ reply[q] = "rows" => ~job[q].async /\ pc[q] = "returned"
  /\ pc[q] \in {"prepared", "sending", "executing", "fetching"} => bound[q] \in 1..SqlMaxRow

\* What every state of every behaviour satisfies, and every step preserves.
IInv ==
  /\ TypeOK
  /\ \A q \in Queries :
       NothingEarly(q) /\ SuccessPlace(q) /\ StopKnown(q) /\ CutPlace(q) /\ RequestPlace(q)

\* What the rest of the system may rely on (module QueryLifecycle), and what
\* each of its variables is in the code.
PhaseOf(q) ==
  IF web[q] = "new" THEN "absent"
  ELSE IF pc[q] \in WorkerGone \/ (pc[q] = "off" /\ web[q] = "replied") THEN "over"
  ELSE "open"

Lifecycle ==
  INSTANCE QueryLifecycle WITH
    phase <- [q \in Queries |-> PhaseOf(q)],
    shown <- status,
    key <- keyed,
    stopping <- [q \in Queries |-> stopper[q] # "idle"]

LifecycleSpec == Lifecycle!Spec

-----------------------------------------------------------------------------
(* What comments in the code promise, and the code does not keep *)

\* "Check if stopped" stands between get_query, which asks the database for
\* the row, and "Run statement": the check does not pass on a row marked
\* stopped.
StopCheckSeesTheRow ==
  [][\A q \in Queries :
       pc[q] = "checking" /\ pc'[q] = "preparing" => status[q] # "stopped"]_vars

\* The engine's handle_cursor waits "for the kill signal": a query whose
\* cursor it has killed is not reported as a success.
KilledIsNotSuccess ==
  \A q \in Queries : cut[q] # 0 => status[q] # "success"

\* The default limit "is overridden by setting a new limit in the SQL Lab
\* UI": a limit within SQL_MAX_ROW is the one the statement is run with.
EditorLimitIsUsed ==
  \A q \in Queries :
    pc[q] = "executing" => bound[q] = ClampLimit(job[q].limit)

\* "since we're returning results we need to create non-arrow data": with no
\* time limit in the way, a committed success is returned, not turned into a
\* failure.
CommittedSuccessIsReturned ==
  [][\A q \in Queries : status[q] = "success" => status'[q] # "failed"]_vars

=============================================================================
