------------------------------ MODULE AnalyticsTasks ------------------------------
(***************************************************************************)
(* The analyses as Celery tasks: which chart starts which task             *)
(* (superset/viz.py, get_data), what the task does (superset/prediction)   *)
(* and what is written to the billing history for it                       *)
(* (superset/billing/utils.py). AnalyticsChart has the page that waits for *)
(* such a task and Billing the plan that pays for it.                      *)
(*                                                                         *)
(* The workers acknowledge a task before they run it (task_acks_late is    *)
(* False): a task that is lost with its host is not run again.             *)
(*                                                                         *)
(* The specification is TasksSpec: AnalyticsProofs extends this module and *)
(* AnalyticsChart, whose specification is Spec.                            *)
(***************************************************************************)
EXTENDS Integers, Sequences

CONSTANTS
  Kinds,        \* the kinds of analysis that are run
  MaxSent,      \* bound on the tasks
  MaxRetries,   \* max_retries of every task, 5 in the code
  MaxCrashes    \* bound on the crashes of the workers' host

VARIABLES
  tasks,      \* the tasks sent, by id
  revoked,    \* ids that the workers have been told to drop when they come up
  crashes,
  history,    \* rows of BillingBalanceHistory, by the id of the task
  cancelled   \* history: tasks that a user cancelled while they waited

tasksVars == <<tasks, revoked, crashes, history, cancelled>>

Ids == 1..MaxSent

-----------------------------------------------------------------------------
(* The kinds of analysis, by the body of their task: the type_viz under which it
   enters its run into the billing history, and whether it has a user to enter.
   Before that each body is the same: update_state, read the datasource, run. *)

Kind(type, user) == [type |-> type, user |-> user]

Forecast       == Kind("plotly_prediction", TRUE)
Classification == Kind("classification_prediction", TRUE)
Regression     == Kind("regression_prediction", TRUE)
Bayesian       == Kind("regression_prediction", TRUE)
Causal         == Kind("causal_inference", TRUE)
Clustering     == Kind("plotly_tsne", TRUE)
Imputation     == Kind("clean_data", TRUE)
Sentiment      == Kind("sentiment_analysis", TRUE)
Correlation    == Kind("none", FALSE)

AllKinds == {Forecast, Classification, Regression, Bayesian, Causal, Clustering, Imputation,
             Sentiment, Correlation}

ASSUME TasksAssumption ==
  Kinds \subseteq AllKinds /\ MaxSent \in Nat \ {0} /\ MaxRetries \in Nat /\ MaxCrashes \in Nat

\* What a task goes through. The result backend tells PENDING for queued, and
\* PROCESSING from PROCESSING to billed and for a task that is lost.
Waiting == {"queued", "RETRY"}
Running == {"PROCESSING", "computed", "billed"}
Ended == {"SUCCESS", "FAILURE", "REVOKED"}

Task ==
  [kind : Kinds, at : Waiting \cup Running \cup Ended \cup {"lost"}, tries : 0..MaxRetries,
   free : BOOLEAN,    \* free_to_run_analytics, as it is when the task reads its data source
   ok : BOOLEAN]      \* the status in the data is SUCCESS

TasksInit ==
  /\ tasks = <<>>
  /\ revoked = {}
  /\ crashes = 0
  /\ history = [t \in Ids |-> 0]
  /\ cancelled = {}

Moves(t, at) == tasks' = [tasks EXCEPT ![t].at = at]

-----------------------------------------------------------------------------
(* The chart: get_data of a form without taskId, when the plan and can_create_task
   let the user; a form with a taskId changes nothing. Then DELETE /api/task. *)

Start(kind) ==
  /\ Len(tasks) < MaxSent
  /\ tasks' = Append(tasks, [kind |-> kind, at |-> "queued", tries |-> 0, free |-> FALSE,
                             ok |-> FALSE])
  /\ UNCHANGED <<revoked, crashes, history, cancelled>>

\* A running task is terminated; a waiting one is dropped when a worker takes it.
Cancel(t) ==
  /\ IF tasks[t].at \in Running THEN Moves(t, "REVOKED") ELSE UNCHANGED tasks
  /\ IF tasks[t].at \in Waiting
     THEN revoked' = revoked \cup {t} /\ cancelled' = cancelled \cup {t}
     ELSE UNCHANGED <<revoked, cancelled>>
  /\ UNCHANGED <<crashes, history>>

-----------------------------------------------------------------------------
(* The worker *)

\* The mutant does not look at the ids to drop.
TakeAny(t) ==
  /\ tasks[t].at \in Waiting
  /\ \E free \in BOOLEAN : tasks' = [tasks EXCEPT ![t].at = "PROCESSING", ![t].free = free]
  /\ UNCHANGED <<revoked, crashes, history, cancelled>>
Take(t) ==
  /\ tasks[t].at \in Waiting
  /\ IF t \in revoked
     THEN Moves(t, "REVOKED")
     ELSE \E free \in BOOLEAN :
            tasks' = [tasks EXCEPT ![t].at = "PROCESSING", ![t].free = free]
  /\ revoked' = revoked \ {t}
  /\ UNCHANGED <<crashes, history, cancelled>>

\* task.run returns; the analysis may have refused the data.
Compute(t) ==
  /\ tasks[t].at = "PROCESSING"
  /\ \E ok \in BOOLEAN : tasks' = [tasks EXCEPT ![t].at = "computed", ![t].ok = ok]
  /\ UNCHANGED <<revoked, crashes, history, cancelled>>

\* autoretry_for; mutants retry for ever, and retry a run that was billed.
Again(t) == tasks' = [tasks EXCEPT ![t].at = "RETRY", ![t].tries = @ + 1]
RetryForEver(t) ==
  /\ tasks[t].at = "PROCESSING"
  /\ Moves(t, "RETRY")
  /\ UNCHANGED <<revoked, crashes, history, cancelled>>
RetryBilled(t) ==
  /\ tasks[t].at \in {"PROCESSING", "billed"}
  /\ IF tasks[t].tries < MaxRetries THEN Again(t) ELSE Moves(t, "FAILURE")
  /\ UNCHANGED <<revoked, crashes, history, cancelled>>
Retry(t) ==
  /\ tasks[t].at = "PROCESSING"
  /\ IF tasks[t].tries < MaxRetries THEN Again(t) ELSE Moves(t, "FAILURE")
  /\ UNCHANGED <<revoked, crashes, history, cancelled>>

\* Any other exception, of the query, the analysis or the billing, or a child killed
Fail(t) ==
  /\ tasks[t].at \in {"PROCESSING", "computed"}
  /\ Moves(t, "FAILURE")
  /\ UNCHANGED <<revoked, crashes, history, cancelled>>

\* add_billing_balance_history, the last thing the task does
Bill(t) ==
  LET task == tasks[t] IN
  /\ task.at = "computed"
  /\ history' = IF task.ok /\ task.kind.user /\ ~task.free
                THEN [history EXCEPT ![t] = @ + 1]
                ELSE history
  /\ Moves(t, "billed")
  /\ UNCHANGED <<revoked, crashes, cancelled>>

\* Celery serializes what the task returned and stores it.
Store(t) ==
  /\ tasks[t].at = "billed"
  /\ Moves(t, "SUCCESS")
  /\ UNCHANGED <<revoked, crashes, history, cancelled>>

\* The result holds a value that CustomJSONEncoder refuses, or the worker's child is
\* killed: the task is told FAILURE and its row in the history stays.
StoreFails(t) ==
  /\ tasks[t].at = "billed"
  /\ Moves(t, "FAILURE")
  /\ UNCHANGED <<revoked, crashes, history, cancelled>>

\* The host goes down: what runs has been acknowledged and is lost, the ids to
\* drop were in memory. What waits is in the broker.
Crash ==
  /\ crashes < MaxCrashes
  /\ crashes' = crashes + 1
  /\ tasks' = [t \in DOMAIN tasks |->
       IF tasks[t].at \in Running THEN [tasks[t] EXCEPT !.at = "lost"] ELSE tasks[t]]
  /\ revoked' = {}
  /\ UNCHANGED <<history, cancelled>>

-----------------------------------------------------------------------------
Work(t) == Take(t) \/ Compute(t) \/ Retry(t) \/ Fail(t) \/ Bill(t) \/ Store(t) \/ StoreFails(t)

TasksNext ==
  \/ \E kind \in Kinds : Start(kind)
  \/ \E t \in DOMAIN tasks : Cancel(t) \/ Work(t)
  \/ Crash

TasksSpec == TasksInit /\ [][TasksNext]_tasksVars

\* The workers take what waits, and what they run comes to an end.
TasksFairness == \A t \in Ids : WF_tasksVars(t \in DOMAIN tasks /\ Work(t))

FairTasksSpec == TasksSpec /\ TasksFairness

-----------------------------------------------------------------------------
(* Properties *)

\* Every variable keeps to its range, and only waiting tasks are to be dropped.
TasksTypeOK ==
  /\ tasks \in Seq(Task) /\ Len(tasks) <= MaxSent
  /\ revoked \subseteq {t \in DOMAIN tasks : tasks[t].at \in Waiting}
  /\ crashes \in 0..MaxCrashes
  /\ history \in [Ids -> Nat]
  /\ cancelled \subseteq DOMAIN tasks

\* An analysis is paid for once and for a run that succeeded: a task enters the
\* history at most once, however often it was retried, and only after such a run,
\* which is not tried again; and the user of an analysis that is billed does not see
\* its result before it was. (It may be paid for without a result: the run is
\* terminated or lost, or its result cannot be stored, after the row is committed.)
BilledForItsResult ==
  \A t \in DOMAIN tasks :
    LET task == tasks[t]
        billable == task.ok /\ task.kind.user /\ ~task.free
    IN /\ history[t] > 0 =>
            history[t] = 1 /\ billable /\ task.at \in {"billed", "lost"} \cup Ended
       /\ task.at = "SUCCESS" /\ billable => history[t] = 1

\* An analysis that is cancelled while it waits for a worker, or for its next try,
\* costs nothing; a crash of the workers makes them forget.
CancelledWaitingIsFree == crashes = 0 => \A t \in cancelled : history[t] = 0

\* Every task comes to an end that the page is told of, with at most MaxRetries
\* tries after the first, unless the workers' host crashes.
TasksEnd ==
  <>(crashes > 0) \/ \A t \in Ids : 
    [](t \in DOMAIN tasks => <>(t \in DOMAIN tasks /\ tasks[t].at \in Ended))

=============================================================================
