--------------------------- MODULE SqlLabQueryProofs ---------------------------
(***************************************************************************)
(* Theorems about SqlLabQuery, for every set of queries and requests.      *)
(***************************************************************************)
EXTENDS SqlLabQuery, TLAPS

\* Every behaviour keeps the variables of SqlLabQuery within their types.
THEOREM TypeCorrect == Spec => []TypeOK
<1>1. Init => TypeOK
  BY ConstantsAssumption DEF Init, TypeOK, QueryStatus, Expired, WorkerIdle
<1>2. TypeOK /\ [Next]_vars => TypeOK'
  <2> SUFFICES ASSUME TypeOK, [Next]_vars
               PROVE  TypeOK'
    OBVIOUS
  <2> USE ConstantsAssumption
      DEF TypeOK, QueryStatus, Expired, WorkerIdle, WorkerBusy, WorkerGone, Goto, Load,
          Loaded, LoadedLimit, Reload, Expire, WriteStatus, Job, ClampLimit
  <2> USE DEF rowVars, webVars, sessionVars, workerData, workerVars, stopVars
  <2>1. ASSUME NEW q \in Queries, Web(q) PROVE TypeOK'
    <3>1. CASE InsertRow(q) BY <3>1 DEF InsertRow, InitialStatus
    <3>2. CASE RejectTables(q) BY <3>2 DEF RejectTables
    <3>3. CASE RejectTemplate(q) BY <3>3 DEF RejectTemplate
    <3>4. CASE Enqueue(q) BY <3>4 DEF Enqueue
    <3>5. CASE EnqueueFails(q) BY <3>5 DEF EnqueueFails
    <3>6. CASE CommitLimit(q) BY <3>6 DEF CommitLimit
    <3>7. CASE CallSync(q) BY <3>7 DEF CallSync
    <3>8. CASE ReplySync(q) BY <3>8 DEF ReplySync, SyncAnswer
    <3>9. QED
      BY <2>1, <3>1, <3>2, <3>3, <3>4, <3>5, <3>6, <3>7, <3>8 DEF Web
  <2>2. ASSUME NEW q \in Queries, Work(q) PROVE TypeOK'
    <3>1. CASE BeginTask(q) BY <3>1 DEF BeginTask
    <3>2. CASE MarkRunning(q) BY <3>2 DEF MarkRunning
    <3>3. CASE OpenConnection(q) BY <3>3 DEF OpenConnection
    <3>4. CASE QuitIfStopped(q) BY <3>4 DEF QuitIfStopped
    <3>5. CASE ContinueIfNotStopped(q) BY <3>5 DEF ContinueIfNotStopped
    <3>6. CASE PrepareStatement(q) BY <3>6 DEF PrepareStatement
    <3>7. CASE CommitStatement(q) \/ BeginStatement(q)
      <4>1. CASE CommitStatement(q) BY <4>1 DEF CommitStatement
      <4>2. CASE BeginStatement(q)
        <5>1. sinceStop' \in {sinceStop, [sinceStop EXCEPT ![q] = sinceStop[q] + 1]}
          BY <4>2 DEF BeginStatement
        <5>2. sinceStop' \in [Queries -> Nat]
          BY <5>1
        <5>3. QED BY <4>2, <5>2 DEF BeginStatement
      <4>3. QED BY <3>7, <4>1, <4>2
    <3>8. CASE PollCursor(q)
      <4>1. seen' \in [Queries -> QueryStatus \cup {Expired}] BY <3>8 DEF PollCursor
      <4>2. seenLimit' \in [Queries -> Nat] BY <3>8 DEF PollCursor
      <4>3. QED BY <3>8, <4>1, <4>2 DEF PollCursor
    <3>9. CASE CancelCursor(q)
      <4>1. cut' \in [Queries -> Nat] BY <3>9 DEF CancelCursor
      <4>2. QED BY <3>9, <4>1 DEF CancelCursor
    <3>10. CASE FinishStatement(q)
      <4>1. CASE LastStatement(q) BY <3>10, <4>1 DEF FinishStatement
      <4>2. CASE ~LastStatement(q)
        <5>1. stmt' \in [Queries -> Nat] BY <3>10, <4>2 DEF FinishStatement
        <5>2. pc' \in [Queries -> WorkerIdle \cup WorkerBusy \cup WorkerGone]
          BY <3>10, <4>2 DEF FinishStatement
        <5>3. QED BY <3>10, <5>1, <5>2 DEF FinishStatement
      <4>3. QED BY <4>1, <4>2
    <3>11. CASE CommitConnection(q) BY <3>11 DEF CommitConnection
    <3>12. CASE StoreResults(q) BY <3>12 DEF StoreResults
    <3>13. CASE CommitSuccess(q) BY <3>13 DEF CommitSuccess, StoresResults
    <3>14. CASE ReturnPayload(q) BY <3>14 DEF ReturnPayload
    <3>15. CASE ReturnArrowPayload(q) BY <3>15 DEF ReturnArrowPayload
    <3>16. CASE RaiseError(q) BY <3>16 DEF RaiseError
    <3>17. CASE HandleError(q) BY <3>17 DEF HandleError
    <3>18. QED
      BY <2>2, <3>1, <3>2, <3>3, <3>4, <3>5, <3>6, <3>7, <3>8, <3>9, <3>10, <3>11,
         <3>12, <3>13, <3>14, <3>15, <3>16, <3>17 DEF Work
  <2>3. ASSUME NEW q \in Queries, SoftTimeout(q) \/ WorkerDies(q) PROVE TypeOK'
    BY <2>3 DEF SoftTimeout, WorkerDies
  <2>4. ASSUME NEW q \in Queries, ReadForStop(q) \/ CommitStop(q) PROVE TypeOK'
    <3>1. CASE ReadForStop(q) BY <3>1 DEF ReadForStop
    <3>2. CASE CommitStop(q)
      <4>1. status' \in [Queries -> QueryStatus] BY <3>2 DEF CommitStop
      <4>2. sinceStop' \in [Queries -> Nat]
        <5>1. sinceStop' \in {sinceStop, [sinceStop EXCEPT ![q] = 0]}
          BY <3>2 DEF CommitStop
        <5>2. QED BY <5>1
      <4>3. QED BY <3>2, <4>1, <4>2 DEF CommitStop
    <3>3. QED BY <2>4, <3>1, <3>2
  <2>5. ASSUME NEW q \in Queries, ExpireResults(q) PROVE TypeOK'
    BY <2>5 DEF ExpireResults
  <2>6. CASE UNCHANGED vars
    BY <2>6 DEF vars
  <2>7. QED
    BY <2>1, <2>2, <2>3, <2>4, <2>5, <2>6 DEF Next
<1>3. QED
  BY <1>1, <1>2, PTL DEF Spec

\* Whatever limit the row holds, the one built into the SQL is within
\* SQL_MAX_ROW, and a limit already within it is kept.
LEMMA ClampLimitInRange ==
  \A l \in Nat : ClampLimit(l) \in 1..SqlMaxRow /\ (l \in 1..SqlMaxRow => ClampLimit(l) = l)
BY ConstantsAssumption DEF ClampLimit

\* The parts of the invariant, for one query.
Places(q) ==
  NothingEarly(q) /\ SuccessPlace(q) /\ StopKnown(q) /\ CutPlace(q) /\ RequestPlace(q)

\* Each action keeps the places of the query it is about.
LEMMA StepKeepsPlaces ==
  ASSUME NEW q \in Queries, TypeOK, Places(q),
         Web(q) \/ Work(q) \/ SoftTimeout(q) \/ WorkerDies(q)
           \/ ReadForStop(q) \/ CommitStop(q) \/ ExpireResults(q)
  PROVE  Places(q)'
<1> USE ConstantsAssumption
    DEF TypeOK, QueryStatus, Expired, WorkerIdle, WorkerBusy, WorkerGone, Goto, Load, Loaded,
        LoadedLimit, Reload, Expire, WriteStatus, Job, LastStatement, BeforeCommit, InLoop,
        Places, NothingEarly, SuccessPlace, StopKnown, CutPlace, RequestPlace
<1> USE DEF rowVars, webVars, sessionVars, workerData, workerVars, stopVars
<1>1. CASE InsertRow(q) BY <1>1 DEF InsertRow, InitialStatus
<1>2. CASE RejectTables(q) BY <1>2 DEF RejectTables
<1>3. CASE RejectTemplate(q) BY <1>3 DEF RejectTemplate
<1>4. CASE Enqueue(q) BY <1>4 DEF Enqueue
<1>5. CASE EnqueueFails(q) BY <1>5 DEF EnqueueFails
<1>6. CASE CommitLimit(q) BY <1>6 DEF CommitLimit
<1>7. CASE CallSync(q) BY <1>7 DEF CallSync
<1>8. CASE ReplySync(q) BY <1>8 DEF ReplySync, SyncAnswer
<1>9. CASE BeginTask(q) BY <1>9 DEF BeginTask, Deliverable
<1>10. CASE MarkRunning(q) BY <1>10 DEF MarkRunning
<1>11. CASE OpenConnection(q) BY <1>11 DEF OpenConnection
<1>12. CASE QuitIfStopped(q) BY <1>12 DEF QuitIfStopped, StopSeen
<1>13. CASE ContinueIfNotStopped(q)
  <2>1. NothingEarly(q)' BY <1>13 DEF ContinueIfNotStopped
  <2>2. SuccessPlace(q)' BY <1>13 DEF ContinueIfNotStopped
  <2>3. status[q] = "stopped" => sinceStop[q] <= 1
    <3>1. pc[q] = "checking" /\ Loaded(q) # "stopped"
      BY <1>13 DEF ContinueIfNotStopped, StopSeen
    <3>2. status[q] = "stopped" => sinceStop[q] <= 2 /\ sinceStop[q] # 2
      BY <3>1
    <3>3. sinceStop[q] \in Nat
      OBVIOUS
    <3>4. \A n \in Nat : n <= 2 /\ n # 2 => n <= 1
      OBVIOUS
    <3>5. QED BY <3>2, <3>3, <3>4
  <2>4. StopKnown(q)' BY <1>13, <2>3 DEF ContinueIfNotStopped
  <2>5. CutPlace(q)'
    <3>1. pc[q] = "checking" /\ seen[q] # "stopped"
      BY <1>13 DEF ContinueIfNotStopped, StopSeen
    <3>2. QED BY <1>13, <3>1 DEF ContinueIfNotStopped
  <2>6. RequestPlace(q)' BY <1>13 DEF ContinueIfNotStopped
  <2>7. QED BY <2>1, <2>2, <2>4, <2>5, <2>6
<1>14. CASE PrepareStatement(q)
  <2>1. NothingEarly(q)' BY <1>14 DEF PrepareStatement
  <2>2. SuccessPlace(q)' BY <1>14 DEF PrepareStatement
  <2>3. StopKnown(q)' BY <1>14 DEF PrepareStatement
  <2>4. bound'[q] \in 1..SqlMaxRow
    BY <1>14, ClampLimitInRange DEF PrepareStatement
  <2>5. CutPlace(q)' BY <1>14 DEF PrepareStatement
  <2>6. RequestPlace(q)' BY <1>14, <2>4 DEF PrepareStatement
  <2>7. QED BY <2>1, <2>2, <2>3, <2>5, <2>6
<1>15. CASE CommitStatement(q) \/ BeginStatement(q)
  <2>1. CASE CommitStatement(q) BY <2>1 DEF CommitStatement
  <2>2. CASE BeginStatement(q) BY <2>2 DEF BeginStatement
  <2>3. QED BY <1>15, <2>1, <2>2
<1>16. CASE PollCursor(q) BY <1>16 DEF PollCursor
<1>17. CASE CancelCursor(q) BY <1>17 DEF CancelCursor
<1>18. CASE FinishStatement(q) BY <1>18 DEF FinishStatement
<1>19. CASE CommitConnection(q) BY <1>19 DEF CommitConnection
<1>20. CASE StoreResults(q) BY <1>20 DEF StoreResults
<1>21. CASE CommitSuccess(q) BY <1>21 DEF CommitSuccess
<1>22. CASE ReturnPayload(q) BY <1>22 DEF ReturnPayload
<1>23. CASE ReturnArrowPayload(q) BY <1>23 DEF ReturnArrowPayload
<1>24. CASE RaiseError(q) BY <1>24 DEF RaiseError
<1>25. CASE HandleError(q) BY <1>25 DEF HandleError
<1>26. CASE SoftTimeout(q) BY <1>26 DEF SoftTimeout
<1>27. CASE WorkerDies(q) BY <1>27 DEF WorkerDies
<1>28. CASE ReadForStop(q) BY <1>28 DEF ReadForStop, Complete
<1>29. CASE CommitStop(q) BY <1>29 DEF CommitStop
<1>30. CASE ExpireResults(q) BY <1>30 DEF ExpireResults
<1>31. QED
  BY <1>1, <1>2, <1>3, <1>4, <1>5, <1>6, <1>7, <1>8, <1>9, <1>10, <1>11, <1>12, <1>13,
     <1>14, <1>15, <1>16, <1>17, <1>18, <1>19, <1>20, <1>21, <1>22, <1>23, <1>24, <1>25,
     <1>26, <1>27, <1>28, <1>29, <1>30 DEF Web, Work

\* ... and changes nothing of the other queries.
LEMMA StepLeavesOthers ==
  ASSUME NEW q \in Queries, NEW p \in Queries, p # q, TypeOK,
         Web(q) \/ Work(q) \/ SoftTimeout(q) \/ WorkerDies(q)
           \/ ReadForStop(q) \/ CommitStop(q) \/ ExpireResults(q)
  PROVE  /\ job'[p] = job[p] /\ status'[p] = status[p] /\ keyed'[p] = keyed[p]
         /\ web'[p] = web[p] /\ reply'[p] = reply[p] /\ pc'[p] = pc[p]
         /\ stmt'[p] = stmt[p] /\ seen'[p] = seen[p] /\ bound'[p] = bound[p]
         /\ applied'[p] = applied[p] /\ store'[p] = store[p]
         /\ stopper'[p] = stopper[p] /\ sinceStop'[p] = sinceStop[p] /\ cut'[p] = cut[p]
<1> USE DEF rowVars, webVars, sessionVars, workerData, workerVars, stopVars
<1> USE DEF TypeOK, Goto, Load, Reload, Expire, WriteStatus
<1>1. CASE Web(q)
  BY <1>1 DEF Web, InsertRow, RejectTables, RejectTemplate, Enqueue, EnqueueFails,
              CommitLimit, CallSync, ReplySync
<1>2. CASE Work(q)
  BY <1>2 DEF Work, BeginTask, MarkRunning, OpenConnection, QuitIfStopped,
       ContinueIfNotStopped, PrepareStatement, CommitStatement, BeginStatement, PollCursor,
       CancelCursor,
       FinishStatement, CommitConnection, StoreResults, CommitSuccess, ReturnPayload,
       ReturnArrowPayload, RaiseError, HandleError
<1>3. CASE SoftTimeout(q) \/ WorkerDies(q) BY <1>3 DEF SoftTimeout, WorkerDies
<1>4. CASE ReadForStop(q) \/ CommitStop(q) BY <1>4 DEF ReadForStop, CommitStop
<1>5. CASE ExpireResults(q) BY <1>5 DEF ExpireResults
<1>6. QED BY <1>1, <1>2, <1>3, <1>4, <1>5

\* The invariant holds in every reachable state.
THEOREM Invariance == Spec => []IInv
<1>1. Init => IInv
  <2> SUFFICES ASSUME Init PROVE IInv
    OBVIOUS
  <2>1. TypeOK
    BY ConstantsAssumption DEF Init, TypeOK, QueryStatus, Expired, WorkerIdle
  <2>2. ASSUME NEW q \in Queries PROVE Places(q)
    BY DEF Init, Places, NothingEarly, SuccessPlace, StopKnown, CutPlace, RequestPlace,
       BeforeCommit,
           InLoop, Expired
  <2>3. QED
    BY <2>1, <2>2 DEF IInv, Places
<1>2. IInv /\ TypeOK' /\ [Next]_vars => IInv'
  <2> SUFFICES ASSUME IInv, TypeOK', [Next]_vars PROVE IInv'
    OBVIOUS
  <2>1. ASSUME NEW p \in Queries PROVE Places(p)'
    <3>1. Places(p)
      BY DEF IInv, Places
    <3>2. CASE Next
      <4>1. PICK q \in Queries :
              \/ Web(q) \/ Work(q) \/ SoftTimeout(q) \/ WorkerDies(q)
              \/ ReadForStop(q) \/ CommitStop(q) \/ ExpireResults(q)
        BY <3>2 DEF Next
      <4>2. CASE p = q
        BY <3>1, <4>1, <4>2, StepKeepsPlaces DEF IInv
      <4>3. CASE p # q
        BY <3>1, <4>1, <4>3, StepLeavesOthers
        DEF IInv, Places, NothingEarly, SuccessPlace, StopKnown, CutPlace, RequestPlace,
        Loaded,
            LastStatement
      <4>4. QED BY <4>2, <4>3
    <3>3. CASE UNCHANGED vars
      BY <3>1, <3>3 DEF vars, rowVars, webVars, sessionVars, workerVars, workerData, stopVars,
           Places, NothingEarly, SuccessPlace, StopKnown, CutPlace, RequestPlace, Loaded,
           LastStatement
    <3>4. QED BY <3>2, <3>3
  <2>2. QED
    BY <2>1 DEF IInv, Places
<1>3. QED
  BY <1>1, <1>2, TypeCorrect, PTL DEF Spec

-----------------------------------------------------------------------------
(* The safety properties the runs check, from the invariant *)

\* A results key names the stored result of the last statement, which alone can have
\* been cut short, and only by a cancelled cursor.
THEOREM ResultsKeys == Spec => []KeyNamesLastResult
<1>1. IInv => KeyNamesLastResult
  BY DEF IInv, NothingEarly, CutPlace, KeyNamesLastResult
<1>2. QED BY <1>1, Invariance, PTL

\* SUCCESS is shown only by a query all of whose work is done.
THEOREM Success == Spec => []SuccessIsComplete
<1>1. IInv => SuccessIsComplete
  BY DEF IInv, NothingEarly, SuccessPlace, SuccessIsComplete, LastStatement
<1>2. QED BY <1>1, Invariance, PTL

\* A synchronous request that answers with rows answers for a success.
THEOREM RowsAnswer == Spec => []RowsAnswerMeansSuccess
<1>1. IInv => RowsAnswerMeansSuccess
  BY DEF IInv, NothingEarly, SuccessPlace, RequestPlace, RowsAnswerMeansSuccess
<1>2. QED BY <1>1, Invariance, PTL

\* At most two statements begin on a row that is marked stopped.
THEOREM StopBound == Spec => []StopBoundedByTwoStatements
<1>1. IInv => StopBoundedByTwoStatements
  BY DEF IInv, StopKnown, StopBoundedByTwoStatements
<1>2. QED BY <1>1, Invariance, PTL

\* A worker that obeyed a stop has left nothing behind.
THEOREM ObeyedStop == Spec => []ObeyedStopIsFinal
<1>1. IInv => ObeyedStopIsFinal
  BY DEF IInv, NothingEarly, StopKnown, ObeyedStopIsFinal, BeforeCommit
<1>2. QED BY <1>1, Invariance, PTL

\* No SELECT runs unbounded.
THEOREM BoundedRows == Spec => []RowsAreBounded
<1>1. IInv => RowsAreBounded
  BY DEF IInv, RequestPlace, RowsAreBounded
<1>2. QED BY <1>1, Invariance, PTL

-----------------------------------------------------------------------------
(* SqlLabQuery implements QueryLifecycle *)

\* One step of one query is a step of its life cycle or leaves it as it is.
LEMMA StepIsLifecycleStep ==
  ASSUME NEW q \in Queries, TypeOK, TypeOK', Places(q),
         Web(q) \/ Work(q) \/ SoftTimeout(q) \/ WorkerDies(q)
           \/ ReadForStop(q) \/ CommitStop(q) \/ ExpireResults(q)
  PROVE  \/ /\ PhaseOf(q) = "absent" /\ PhaseOf(q)' = "open"
            /\ status'[q] \in {"pending", "running"} /\ keyed'[q] = keyed[q]
            /\ stopper'[q] = stopper[q]
         \/ /\ PhaseOf(q) = "open" /\ PhaseOf(q)' = "open"
            /\ status[q] \notin {"success", "failed"} /\ stopper'[q] = stopper[q]
            /\ \/ status'[q] = "running" /\ keyed'[q] = keyed[q]
               \/ status'[q] = "success" /\ keyed'[q] \in {keyed[q], TRUE}
         \/ /\ PhaseOf(q) = "open" /\ PhaseOf(q)' = "over" /\ stopper'[q] = stopper[q]
            /\ \/ status'[q] = "failed" /\ keyed'[q] \in {keyed[q], TRUE}
               \/ status'[q] = status[q] /\ keyed'[q] = keyed[q]
         \/ /\ PhaseOf(q) # "absent" /\ PhaseOf(q)' = PhaseOf(q) /\ keyed'[q] = keyed[q]
            /\ \/ /\ stopper[q] = "idle" /\ stopper'[q] # "idle"
                  /\ status[q] \notin {"success", "failed"} /\ status'[q] = status[q]
               \/ /\ stopper[q] # "idle" /\ stopper'[q] = "idle"
                  /\ status'[q] \in {status[q], "stopped"}
         \/ /\ PhaseOf(q)' = PhaseOf(q) /\ status'[q] = status[q] /\ keyed'[q] = keyed[q]
            /\ stopper'[q] = stopper[q]
<1> USE ConstantsAssumption
    DEF TypeOK, QueryStatus, Expired, WorkerIdle, WorkerBusy, WorkerGone, Goto, Load,
        Expire, WriteStatus, BeforeCommit, Places, NothingEarly, SuccessPlace, RequestPlace,
        PhaseOf
<1> USE DEF rowVars, webVars, sessionVars, workerData, workerVars, stopVars
<1>1. CASE InsertRow(q) BY <1>1 DEF InsertRow, InitialStatus
<1>2. CASE RejectTables(q) BY <1>2 DEF RejectTables
<1>3. CASE RejectTemplate(q) BY <1>3 DEF RejectTemplate
<1>4. CASE Enqueue(q) BY <1>4 DEF Enqueue
<1>5. CASE EnqueueFails(q) BY <1>5 DEF EnqueueFails
<1>6. CASE CommitLimit(q) BY <1>6 DEF CommitLimit
<1>7. CASE CallSync(q) BY <1>7 DEF CallSync
<1>8. CASE ReplySync(q) BY <1>8 DEF ReplySync
<1>9. CASE BeginTask(q) BY <1>9 DEF BeginTask, Deliverable
<1>10. CASE MarkRunning(q) BY <1>10 DEF MarkRunning
<1>11. CASE OpenConnection(q) BY <1>11 DEF OpenConnection
<1>12. CASE QuitIfStopped(q) BY <1>12 DEF QuitIfStopped
<1>13. CASE ContinueIfNotStopped(q) BY <1>13 DEF ContinueIfNotStopped
<1>14. CASE PrepareStatement(q) BY <1>14 DEF PrepareStatement
<1>15. CASE CommitStatement(q) \/ BeginStatement(q)
  BY <1>15 DEF CommitStatement, BeginStatement
<1>16. CASE PollCursor(q) BY <1>16 DEF PollCursor
<1>17. CASE CancelCursor(q) BY <1>17 DEF CancelCursor
<1>18. CASE FinishStatement(q) BY <1>18 DEF FinishStatement
<1>19. CASE CommitConnection(q) BY <1>19 DEF CommitConnection
<1>20. CASE StoreResults(q) BY <1>20 DEF StoreResults
<1>21. CASE CommitSuccess(q)
  <2>1. pc[q] \in {"finishing", "storing"} /\ pc'[q] = "returning"
    BY <1>21 DEF CommitSuccess
  <2>2. web[q] # "new" /\ web' = web /\ stopper' = stopper
    BY <1>21, <2>1 DEF CommitSuccess
  <2>3. PhaseOf(q) = "open" /\ PhaseOf(q)' = "open"
    BY <2>1, <2>2
  <2>4. status[q] \notin {"success", "failed"} /\ seen[q] # "success"
    BY <2>1
  <2>5. status'[q] = "success"
    BY <1>21, <2>4 DEF CommitSuccess
  <2>6. keyed[q] => StoresResults(job[q])
    OBVIOUS
  <2>7. keyed'[q] = StoresResults(job[q])
    BY <1>21 DEF CommitSuccess
  <2>8. keyed'[q] \in {keyed[q], TRUE}
    <3>1. keyed[q] \in BOOLEAN /\ keyed'[q] \in BOOLEAN
      OBVIOUS
    <3>2. CASE StoresResults(job[q]) BY <2>7, <3>1, <3>2
    <3>3. CASE ~StoresResults(job[q]) BY <2>6, <2>7, <3>1, <3>3
    <3>4. QED BY <3>2, <3>3
  <2>9. QED
    BY <2>2, <2>3, <2>4, <2>5, <2>8
<1>22. CASE ReturnPayload(q) BY <1>22 DEF ReturnPayload
<1>23. CASE ReturnArrowPayload(q) BY <1>23 DEF ReturnArrowPayload
<1>24. CASE RaiseError(q) BY <1>24 DEF RaiseError
<1>25. CASE HandleError(q)
  <2>1. pc[q] = "failing" /\ pc'[q] = "rescued"
    BY <1>25 DEF HandleError
  <2>2. web[q] # "new" /\ web' = web /\ stopper' = stopper
    BY <1>25, <2>1 DEF HandleError
  <2>3. PhaseOf(q) = "open" /\ PhaseOf(q)' = "over"
    BY <2>1, <2>2
  <2>4. status'[q] = "failed"
    BY <1>25 DEF HandleError
  <2>5. keyed'[q] \in {keyed[q], TRUE}
    <3>1. CASE keyed' = keyed BY <3>1
    <3>2. CASE keyed' = [keyed EXCEPT ![q] = TRUE] BY <3>2
    <3>3. QED BY <1>25, <3>1, <3>2 DEF HandleError
  <2>6. QED
    BY <2>2, <2>3, <2>4, <2>5
<1>26. CASE SoftTimeout(q) BY <1>26 DEF SoftTimeout
<1>27. CASE WorkerDies(q) BY <1>27 DEF WorkerDies
<1>28. CASE ReadForStop(q) BY <1>28 DEF ReadForStop, Complete
<1>29. CASE CommitStop(q)
  <2>1. stopper[q] # "idle" /\ stopper'[q] = "idle"
    BY <1>29 DEF CommitStop
  <2>2. web' = web /\ pc' = pc /\ keyed' = keyed
    BY <1>29 DEF CommitStop
  <2>3. PhaseOf(q)' = PhaseOf(q)
    BY <2>2
  <2>4. status'[q] \in {status[q], "stopped"}
    BY <1>29 DEF CommitStop
  <2>5. web[q] # "new"
    BY <2>1
  <2>6. PhaseOf(q) # "absent"
    BY <2>5
  <2>7. QED
    BY <2>1, <2>2, <2>3, <2>4, <2>6
<1>30. CASE ExpireResults(q) BY <1>30 DEF ExpireResults
<1>31. QED
  BY <1>1, <1>2, <1>3, <1>4, <1>5, <1>6, <1>7, <1>8, <1>9, <1>10, <1>11, <1>12, <1>13,
     <1>14, <1>15, <1>16, <1>17, <1>18, <1>19, <1>20, <1>21, <1>22, <1>23, <1>24, <1>25,
     <1>26, <1>27, <1>28, <1>29, <1>30 DEF Web, Work

\* SqlLabQuery implements QueryLifecycle: what the front end and the other
\* users of the row see of a query is a behaviour of the abstract life cycle.
THEOREM Implements == Spec => LifecycleSpec
<1>1. Init => Lifecycle!Init
  <2> SUFFICES ASSUME Init PROVE Lifecycle!Init
    OBVIOUS
  <2>1. \A q \in Queries : PhaseOf(q) = "absent" /\ (stopper[q] # "idle") = FALSE
    BY DEF Init, PhaseOf
  <2>2. QED
    BY <2>1 DEF Init, Lifecycle!Init
<1>2. IInv /\ TypeOK' /\ [Next]_vars => [Lifecycle!Next]_Lifecycle!vars
  <2> SUFFICES ASSUME IInv, TypeOK', [Next]_vars
               PROVE  [Lifecycle!Next]_Lifecycle!vars
    OBVIOUS
  <2> DEFINE ph == [q \in Queries |-> PhaseOf(q)]
             st == [q \in Queries |-> stopper[q] # "idle"]
  <2>0. TypeOK
    BY DEF IInv
  <2>1. CASE Next
    <3>1. PICK q \in Queries :
            \/ Web(q) \/ Work(q) \/ SoftTimeout(q) \/ WorkerDies(q)
            \/ ReadForStop(q) \/ CommitStop(q) \/ ExpireResults(q)
      BY <2>1 DEF Next
    <3>2. Places(q)
      BY DEF IInv, Places
    <3>3. \A p \in Queries : p # q =>
            /\ PhaseOf(p)' = PhaseOf(p) /\ status'[p] = status[p]
            /\ keyed'[p] = keyed[p] /\ stopper'[p] = stopper[p]
      BY <2>0, <3>1, StepLeavesOthers DEF PhaseOf
    <3>4. ph' = [ph EXCEPT ![q] = PhaseOf(q)']
      BY <3>3
    <3>5. status' = [status EXCEPT ![q] = status'[q]]
      BY <2>0, <3>3 DEF TypeOK
    <3>6. keyed' = [keyed EXCEPT ![q] = keyed'[q]]
      BY <2>0, <3>3 DEF TypeOK
    <3>7. st' = [st EXCEPT ![q] = stopper'[q] # "idle"]
      BY <3>3
    <3>8. ph[q] = PhaseOf(q) /\ st[q] = (stopper[q] # "idle")
      OBVIOUS
    <3>9. stopper'[q] = stopper[q] => st' = st
      BY <3>3
    <3>10. PhaseOf(q)' = PhaseOf(q) => ph' = ph
      BY <3>3
    <3>11. status'[q] = status[q] => status' = status
      BY <2>0, <3>5 DEF TypeOK
    <3>12. keyed'[q] = keyed[q] => keyed' = keyed
      BY <2>0, <3>6 DEF TypeOK
    <3> HIDE DEF ph, st
    <3>20. CASE /\ PhaseOf(q) = "absent" /\ PhaseOf(q)' = "open"
                /\ status'[q] \in {"pending", "running"} /\ keyed'[q] = keyed[q]
                /\ stopper'[q] = stopper[q]
      <4>1. Lifecycle!Create(q)
        BY <3>4, <3>5, <3>8, <3>9, <3>12, <3>20 DEF Lifecycle!Create, ph, st
      <4>2. QED BY <4>1 DEF Lifecycle!Next
    <3>21. CASE /\ PhaseOf(q) = "open" /\ PhaseOf(q)' = "open"
                /\ status[q] \notin {"success", "failed"} /\ stopper'[q] = stopper[q]
                /\ \/ status'[q] = "running" /\ keyed'[q] = keyed[q]
                   \/ status'[q] = "success" /\ keyed'[q] \in {keyed[q], TRUE}
      <4>1. Lifecycle!Run(q) \/ Lifecycle!Succeed(q)
        BY <3>5, <3>6, <3>8, <3>9, <3>10, <3>12, <3>21
        DEF Lifecycle!Run, Lifecycle!Succeed, Lifecycle!Answered, ph, st
      <4>2. QED BY <4>1 DEF Lifecycle!Next
    <3>22. CASE /\ PhaseOf(q) = "open" /\ PhaseOf(q)' = "over" /\ stopper'[q] = stopper[q]
                /\ \/ status'[q] = "failed" /\ keyed'[q] \in {keyed[q], TRUE}
                   \/ status'[q] = status[q] /\ keyed'[q] = keyed[q]
      <4>1. Lifecycle!Fail(q) \/ Lifecycle!Close(q)
        BY <3>4, <3>5, <3>6, <3>8, <3>9, <3>11, <3>12, <3>22
        DEF Lifecycle!Fail, Lifecycle!Close, ph, st
      <4>2. QED BY <4>1 DEF Lifecycle!Next
    <3>23. CASE /\ PhaseOf(q) # "absent" /\ PhaseOf(q)' = PhaseOf(q) /\ keyed'[q] = keyed[q]
                /\ stopper[q] = "idle" /\ stopper'[q] # "idle"
                /\ status[q] \notin {"success", "failed"} /\ status'[q] = status[q]
      <4>1. Lifecycle!RequestStop(q)
        BY <3>7, <3>8, <3>10, <3>11, <3>12, <3>23
        DEF Lifecycle!RequestStop, Lifecycle!Answered, ph, st
      <4>2. QED BY <4>1 DEF Lifecycle!Next
    <3>24. CASE /\ PhaseOf(q) # "absent" /\ PhaseOf(q)' = PhaseOf(q) /\ keyed'[q] = keyed[q]
                /\ stopper[q] # "idle" /\ stopper'[q] = "idle"
                /\ status'[q] \in {status[q], "stopped"}
      <4>1. Lifecycle!Stop(q)
        BY <3>5, <3>7, <3>8, <3>10, <3>12, <3>24 DEF Lifecycle!Stop, ph, st
      <4>2. QED BY <4>1 DEF Lifecycle!Next
    <3>25. CASE /\ PhaseOf(q)' = PhaseOf(q) /\ status'[q] = status[q]
                /\ keyed'[q] = keyed[q] /\ stopper'[q] = stopper[q]
      BY <3>9, <3>10, <3>11, <3>12, <3>25 DEF Lifecycle!vars, ph, st
    <3>26. QED
      BY <2>0, <3>1, <3>2, <3>20, <3>21, <3>22, <3>23, <3>24, <3>25, StepIsLifecycleStep
  <2>2. CASE UNCHANGED vars
    BY <2>2 DEF vars, rowVars, webVars, workerVars, stopVars, Lifecycle!vars, PhaseOf
  <2>3. QED
    BY <2>1, <2>2
<1>3. QED
  BY <1>1, <1>2, Invariance, TypeCorrect, PTL DEF Spec, LifecycleSpec, Lifecycle!Spec

-----------------------------------------------------------------------------
(* An action property *)

\* One step of one query keeps its answer.
LEMMA StepKeepsAnswer ==
  ASSUME NEW q \in Queries, TypeOK, Places(q),
         Web(q) \/ Work(q) \/ SoftTimeout(q) \/ WorkerDies(q)
           \/ ReadForStop(q) \/ CommitStop(q) \/ ExpireResults(q)
  PROVE  /\ status[q] \in {"success", "failed"} => status'[q] \notin {"pending", "running"}
         /\ pc[q] \in WorkerGone => status'[q] \in {status[q], "stopped"}
<1> USE DEF TypeOK, WorkerGone, WorkerBusy, Goto, WriteStatus, BeforeCommit, Places,
            NothingEarly, SuccessPlace, RequestPlace
<1> USE DEF rowVars, webVars, sessionVars, workerData, workerVars, stopVars
<1>1. CASE Web(q)
  BY <1>1 DEF Web, InsertRow, RejectTables, RejectTemplate, Enqueue, EnqueueFails,
              CommitLimit, CallSync, ReplySync
<1>2. CASE MarkRunning(q) BY <1>2 DEF MarkRunning
<1>3. CASE CommitSuccess(q) BY <1>3 DEF CommitSuccess
<1>4. CASE HandleError(q) BY <1>4 DEF HandleError
<1>5. CASE CommitStop(q) BY <1>5 DEF CommitStop
<1>6. CASE ~(Web(q) \/ MarkRunning(q) \/ CommitSuccess(q) \/ HandleError(q) \/ CommitStop(q))
  <2>1. status' = status
    BY <1>6 DEF Work, BeginTask, OpenConnection, QuitIfStopped, ContinueIfNotStopped,
       PrepareStatement, CommitStatement, BeginStatement, PollCursor, CancelCursor,
       FinishStatement,
       CommitConnection, StoreResults, ReturnPayload, ReturnArrowPayload, RaiseError,
       SoftTimeout, WorkerDies, ReadForStop, ExpireResults
  <2>2. QED BY <2>1
<1>7. QED BY <1>1, <1>2, <1>3, <1>4, <1>5, <1>6

\* An answered query is never shown as waiting or running again.
THEOREM Answered == Spec => AnsweredStaysAnswered
<1> DEFINE Keeps(q) ==
      /\ status[q] \in {"success", "failed"} => status'[q] \notin {"pending", "running"}
      /\ pc[q] \in WorkerGone => status'[q] \in {status[q], "stopped"}
<1>1. IInv /\ [Next]_vars => [\A q \in Queries : Keeps(q)]_vars
  <2> SUFFICES ASSUME IInv, Next, NEW p \in Queries PROVE Keeps(p)
    OBVIOUS
  <2>1. PICK q \in Queries :
          \/ Web(q) \/ Work(q) \/ SoftTimeout(q) \/ WorkerDies(q)
          \/ ReadForStop(q) \/ CommitStop(q) \/ ExpireResults(q)
    BY DEF Next
  <2>2. CASE p = q
    BY <2>1, <2>2, StepKeepsAnswer DEF IInv, Places
  <2>3. CASE p # q
    BY <2>1, <2>3, StepLeavesOthers DEF IInv
  <2>4. QED BY <2>2, <2>3
<1>2. QED
  BY <1>1, Invariance, PTL DEF Spec, AnsweredStaysAnswered

=============================================================================
