# Formal models of actableai-app

The program is a fork of Apache Superset (Flask, SQLAlchemy, Celery, a React/Redux
front end) with ActableAI's additions: Stripe billing, machine-learning analytics
that run as Celery tasks on a Ray cluster, and crawlers. These modules model the
parts whose correctness depends on the order in which independent actors do
things: web threads, workers, timers, webhooks and the callbacks of a page.

Paths below are relative to the repository. `PROJECT.json` maps every definition
to the lines it stands for.

    tlc -workers 2 -config SqlLabQuery_run.cfg MCSqlLabQuery.tla
    tlapm SqlLabQueryProofs.tla

## 1. Inventory

| Component | State it keeps | Operations | What is hard | Correct when |
|---|---|---|---|---|
| SQL Lab query execution (`superset/sql_lab.py`, `views/core.py`, Presto and Hive specs) | the `query` row, the worker's session copy of it, cursor and connection to the analysed database, results backend entry | submit (async, sync), execute statements, poll the cursor, stop, store results, fail | three processes write one row without locks; stale session copies; time limits; lost workers | success means that all was run, a key names results, a stop is obeyed soon, rows are bounded, every query ends |
| SQL Lab page (`superset-frontend/src/SqlLab`) | Redux store: queries, `queriesLastUpdate`, editors, tab history | run, stop, poll, fetch results, validate | overlapping polls, answers late, lost or out of order | an ended query is shown as ended, a success is one |
| SQL Lab tab state (`superset/views/sql_lab.py`, `reducers/getInitialState.js`, `TabbedSqlEditors.jsx`) | `tab_state`, `table_schema` rows, each window's store, `localStorage.redux` | open, close, activate, update, migrate | several windows of one user; tabs move from the browser to the server by requests that may fail | no text is lost on the way, every window has a tab to show |
| Billing (`superset/billing`, `utils/stripe.py`, `src/billing`) | subscriptions, balance history; Stripe's side | trial, gate, debit, checkout, cancel, webhooks | webhooks duplicated and late; check now, pay later, and two endpoints that do not check; one checkout is three requests, from a page that may be outdated | who pays has a plan, who does not has a bounded overdraft, a cancelled plan lasts until it ends |
| Analytics charts (`src/hooks/useChart.ts`, `src/chart`, `superset/viz.py`, `views/custom.py`, `superset/prediction`) | Celery task, chart in the store, state of the hook, `taskId` in the chart's row | query, poll, ask again, cancel, save, stop | closures over old renders, superseded tasks | the loading sign goes away, a regenerated result is found again, Stop stops |
| Analytics tasks (`superset/prediction`, `superset/viz.py`, `billing/utils.py`) | the Celery task, its retries, revoked ids, rows of the billing history | start, take, compute, bill, store, retry, cancel, lose | a task is tried up to six times, cancelled at any time, acknowledged before it runs | billed once and for a run that succeeded, ends |
| Email schedules (`superset/tasks/schedules.py`, `views/schedules.py`) | schedule rows, queued tasks with an ETA, a class attribute with form answers | add, edit, delete, plan an hour, send, test mail | edits between planning and sending; both ends of an hour | the reports of an hour are those the crontab asks for, none twice |
| Charts' data caches (`superset/viz.py`, `utils/decorators.py`) | data frames by digest of a query and the version of its data source's row, whole responses by URL | GET, POST, load, store, answer, edit the row or its metrics and columns | requests overlap, charts with different timeouts share a frame, one query of several fails, an edit of a metric is not in the key | data is no older than the timeouts say, the label tells, an edit shows |
| Dashboards and their charts (`views/core.py`, `models/dashboard.py`, `superset/charts`, `superset/dashboards`, `src/dashboard`) | relation, layout and metadata of each dashboard, the pages that edit them, exported files | load, drag, filter, save, copy, clone, update, delete, export, import | one thing is written three times, by requests that each know a part of it | metadata names own charts, a save comes back, a copy is independent |
| Dataset commands, access requests, workspaces, crawlers, connectors, security manager | rows, roles, NiFi's processors | request, approve, create | check, then act; external calls | - |

How they interact. The page posts `sql_json`; the request inserts the row and sends a
Celery task (or calls the function itself); the worker writes the row; the page polls
`/superset/queries/<since>` and fetches rows by the key it finds; `stop_query` writes
the row and the worker looks at it between statements. Analytics charts use the same
`explore_json` as every chart, but its answer is the id of a task. `explore_json` asks
Billing first (`allow_to_run_analytics`); `explore_json_public`, from which dashboards
load, and `slice_json` start the same task without asking, and `can_create_task` asks
only who the user is. The task debits Billing when it ends, wherever it was started.
Every other chart goes through two caches, which a saved dashboard fills in advance for
each of its charts. Stripe calls back by webhooks. Email schedules render charts and
dashboards with a browser of their own.

The remaining components of `PROJECT.json` are sequential, external or data; the
reason is in its notes.

## 2. Modules

| Module | What it is |
|---|---|
| `QueryLifecycle` | abstract specification: what the rest of the system may assume of a query's row |
| `SqlLabQuery` | the backend of a query in detail; implements `QueryLifecycle` (`LifecycleSpec`) |
| `SqlLabQueryProofs` | theorems about `SqlLabQuery` |
| `SqlLabUI` | the page, composed with `QueryLifecycle` as its server (`Server == INSTANCE QueryLifecycle`) |
| `SqlLabUIProofs` | theorems about `SqlLabUI` |
| `SqlLabTabs` | the tabs: server, windows and the browser's storage |
| `SqlLabTabsProofs` | theorems about `SqlLabTabs` |
| `Billing` | plans of one user |
| `BillingProofs` | theorems about `Billing` |
| `AnalyticsChart` | an analytics chart, its tasks and its hook |
| `AnalyticsTasks` | the tasks of all nine kinds of analysis, and what they are billed |
| `AnalyticsProofs` | theorems about `AnalyticsTasks` and `AnalyticsChart` |
| `EmailSchedules` | planning and sending reports |
| `EmailSchedulesProofs` | theorems about `EmailSchedules` |
| `ChartData` | the two caches behind `explore_json` |
| `ChartDataProofs` | theorems about `ChartData` |
| `Dashboards` | dashboards, their charts, pages, copies and files |
| `DashboardsProofs` | theorems about `Dashboards` |
| `MC...` | instances for TLC; `AnalyticsChart`, whose constants are numbers and Boolean values, needs none |

### SqlLabQuery

One record of functions over `Queries`; the actors of a query are its web request
(`web`, `reply`), its worker (`pc`, `stmt`, ...) and its stop requests (`stopper`).
They share the row (`status`, `limit`, `keyed`) and the results backend (`store`).

A SQLAlchemy session keeps the object it has loaded until the next commit, and
`get_query` does not refresh it. So the worker's copy is a variable of its own
(`seen`, `seenLimit`, "expired" after a commit): which stop request a check can
see is decided by the age of that copy. A column is only written when its value
differs from the loaded one (`WriteStatus`).

An action is a stretch of code between two points where another actor can
notice a difference (a commit, a load, a call to the analysed database, the
broker or the results backend). In code order: `InsertRow`, then `RejectTables`,
`RejectTemplate`, `Enqueue`/`EnqueueFails`/`CommitLimit` or `CallSync`/`ReplySync`
(`views/core.py`, `sql_json_exec`, `_sql_json_async`, `_sql_json_sync`);
`BeginTask`, `MarkRunning`, `OpenConnection`, per statement `QuitIfStopped` or
`ContinueIfNotStopped`, `PrepareStatement`, `CommitStatement`, `BeginStatement`,
`PollCursor`, `CancelCursor`, `FinishStatement`; then `CommitConnection`, `StoreResults`,
`CommitSuccess`, `ReturnPayload` or `ReturnArrowPayload` (`sql_lab.py`); errors are
`RaiseError`, `SoftTimeout`, `HandleError`, and `WorkerDies`; `ReadForStop` and
`CommitStop` are the two halves of `stop_query`; `ExpireResults` is the cache.

`CommitStatement` ends with the reload of the row that the log message causes
(`sql_lab.py:240-242`), `BeginStatement` is the call of `execute` after it: a stop that
is committed between the two is not in the copy that the next check reads. `cut` is the
statement whose cursor was cancelled.

Abstractions: statements are SELECTs (or the SELECT of a CREATE TABLE AS);
`SQLLAB_CTAS_NO_LIMIT` is off; a results backend is configured and the metadata
database answers; a time limit inside the error handler is part of `WorkerDies`.

### QueryLifecycle and SqlLabUI

`QueryLifecycle` keeps status and key as shown by the row, whether the owner of
the row is still at work, and whether a stop request is half way. It says that an
answer is not taken back by a worker that is late, that key and success come
together, and that a stop may overwrite an answer. `SqlLabUI` uses its actions as
the server and adds `changed_on` (a stamp taken up to `Lag` before the commit is
visible), the polls, the POST, the stop request and the fetches of results, each
with the object its closure holds: `RunQuery`, `PostSucceeds`, `PostFails`,
`PostIsDropped`, `StopQuery`, `StopIsAnswered`, `SendPoll`, `ReceivePoll`,
`LosePoll`, `FetchSucceeds`, `FetchFails` are the callbacks of
`actions/sqlLab.js` with the reducer cases they dispatch.

Abstractions: one clock with a lag instead of several clocks; the six hours after
which a query is not polled any more and a reload of the page are left out; the
result pane is mounted.

### SqlLabTabs

The feature flag `SQLLAB_BACKEND_PERSISTENCE` moves the tabs from the browser's
storage to the server. `tabs` are the rows of `tab_state` (a deleted one is kept
with `there` FALSE), `storage` is `localStorage.redux.sqlLab`, which all windows
share, `windows` the store of each, and `reqs` the requests and their answers.
`ReadTabIds` and `ReadActiveTab` are the server's half of a page load, two SELECTs
between which another window's request may be served; `Start` is the browser's
(`getInitialState` and `componentDidMount`, which sends one request for each
editor of the storage). `late` marks a page whose active tab is newer than its list of
tabs: it may fail to mount (`TabbedSqlEditors.jsx:146`), which is `up` FALSE.
`Post`, `Activate`, `Get`, `Delete` and `PostTable` are
the handlers; `EditorMigrated`, `TableMigrated`, `EditorAdded`, `EditorLoaded`,
`EditorActivated` and `EditorRemoved` the callbacks with the reducer cases they
dispatch. `CloseWindow` cancels requests, or leaves some that the server gets
late; `Lose` loses a request or its answer.

Abstractions: a request is one transaction; what a tab contains is only the
editor it comes from (`from`) and whether its table came along; queries follow
their tab as the table does; a page is opened without a query in its URL.

### Billing

`rows` is `billing_subscription` of one user, `stripe` the status of each
subscription at Stripe, `events` the webhook events that Stripe has not seen
answered. A handler that calls Stripe is split at the call, because nothing is
locked meanwhile: `LookForTrial`/`CreateTrial` (`activate_trial`),
`AllowRun`/`RefuseRun` (`allow_to_run_analytics`), `StartUngatedRun`
(`explore_json_public`, `slice_json`), `DebitRun` (`add_billing_balance_history`),
`Pay`, `ReadCurrentPlan`/`SwitchPlan`
(`updateCustomer`), `DropOldAtStripe`/`DropOldPlan` (`deleteSubscription`),
`ClickCancel`/`CancelAtStripe`/`CancelPlan` (`cancelSubscription`), `HookDeleted`,
`HookCycle`/`HookCycleCommits` (`webhook`). Where the code asks for `first()`
without an order, any current row may be the answer. `Pay` and `ClickCancel` take the
subscription from a page that may have been loaded long before, when an earlier row was
the last one; `left` remembers the subscriptions that a checkout so leaves charged, or
that one leaves that stops half way. Nothing in the code ends those.

Abstractions: times are "none", "ahead" or "past"; the two statements of a debit
are one step; the flags BILLING and TRIAL are on; one checkout is submitted and one
renewal hook served at a time; a balance may carry over as in the code.

### AnalyticsChart

Every asynchronous function of `useChart` closes over the props and state of one
render. Each one that is under way is a record in `pollers`, with what it closed
over: its task, whether it will ask again (`requery`), and whether the component it
belongs to is still there (`live`); of a component that is taken away `Orphans` keeps
those pollers that can still do something. A saved chart may name a task in any state,
for its id is saved while it runs (`Init`). The server half is `ServeExplore` (start a task or
return the id it was given), `QueryIsRefused`, `TakeTask`, `EndTask`, `RetryTask`
(`autoretry_for`), `CancelTask`, `PollServed`; the client half `QuerySucceeds`,
`QueryTimesOut`, `PollAnswered`, `PollLost`; the user `ClickRun`, `ClickStop`,
`EditControls`.

Abstractions: the effects of a render happen with it, the wait of two seconds is
one with the poll that follows it, a DELETE without a task id does nothing, and
the PUT of the regenerated task's id is done at once.

### AnalyticsTasks

`AnalyticsChart` has the page of one task; here are the tasks themselves. The nine
bodies in `superset/prediction` were read one by one: they differ in the name
under which a run enters the billing history and in whether it has a user to
enter (`correlation` has none and is never billed, though `config.py:940` asks for
a plan; a Bayesian regression enters as `regression_prediction`), so a task has a
`Kind` and one set of actions: `Start` (`get_data` in `viz.py`), `Cancel`
(`cancel_task`: a running task is terminated, a waiting one goes on the list of
ids to drop), `Take`, `Compute`, `Retry` (`autoretry_for`, `max_retries`), `Fail`,
`Bill`, `Store`, `StoreFails` (the result cannot be serialized, or the child is killed,
after the bill is committed), and `Crash`, which loses running tasks and the list.

Abstractions: the analysis is whether it accepted the data (`ok`); the plan is
whether this run is free (`free`); the result backend itself answers; the analysis of
variance, which runs within its request and is not billed, is left out.

### ChartData

`get_df_payload` for each query of a chart (`FromCache`, `Miss`, `Load`,
`LoadFails`, `Store`), the extra queries first as `run_extra_queries` makes them,
between `Get`/`Post` and `Answer`, where `etag_cache` looks up and keeps whole
responses. The key of a frame has `changed_on` of the data source's row, which a
request reads once. `Edit` changes the row, or only its metrics and columns
(`definitions`), which the key does not have and a request reads when it makes its first
query (`Defs`); `edited` is how long ago that was, while something made with older ones
is about. Times are kept as ages: `Tick` makes everything older and takes out what has
run out.

Abstractions: a chart stands for its URL; a forced request is one that finds nothing
each time; who asks and whether the user may see the data source; a timeout of 0.

### Dashboards

A dashboard is its relation (`slices`), its layout, the scopes of its filters and
its default values. The page is `Loaded` from it and from the values in its address,
which win (`getInitialState.js`); addresses come from the list of dashboards (`Link`), from
other windows and from links that users share (`Addresses`). It is edited
by `DragChart`, `RemoveChart`, `EditScope` and `ChangeFilter`; `SaveDash`, `CopyDash`
and `CopyDashAndCharts` go through `SetDashMetadata` and `CopyFilterScopes`; explore,
the lists and the commands are `SaveAs`, `CloneChart`, `Overwrite`, `AddToDash` and
the actions beside them; `Export` and `Import` keep a file. `ExtraFilters` is what
the server's warm-up applies to a chart, `PageFilters` what the page applies: not a
filter box to itself, and one value for each column.

Abstractions: each request is one transaction; the scope of a filter is the root of
the dashboard less the charts that are immune; a filter box has one column, which is no
state: `WarmedAsSaved` speaks of every way to choose the columns.

### EmailSchedules

`BeatFires` sends the hourly job, `ScheduleHourly` plans the reports of the hour
it runs in (`next_schedules` is the recursive function `NextSchedules`),
`IgnoreInactive` and `SendReport` are `schedule_email_report` when its ETA has
come, `ProcessForm`, `RejectForm`, `AddRow` or `UpdateRow` or `UpdateFails`, and
`PostUpdate` the form, with the class attribute `extra` that all threads of the
process share; `DeleteRow` leaves what is planned in the queue.

Abstractions: dashboards and slices are alike; a crontab is the set of ticks of
an hour at which it fires; no daylight saving time; rendering and mailing is
external. `CeleryConfig` (`superset/config.py`) decides the time limits.

## 3. What the runs check

States are distinct states; a run takes between a few seconds and three minutes
with two workers.

| Run | Configuration | Question | Result |
|---|---|---|---|
| `query` | `SqlLabQuery_run` | Does one query keep every promise, with every kind of request, stops at any time, time limits and lost workers? | holds, 97 k |
| `page_overlap` | `SqlLabUI_overlap` | Is no update missed when polls overlap, get lost and stamps come late? | holds, 622 k |
| `page_settles` | `SqlLabUI_live` | Does the page end up showing that a query has ended, with stop, overlapping polls and fetches? | holds, 277 k |
| `tabs_migrate` | `SqlLabTabs_migrate` | Does an editor of the browser's storage get to the server, and is it never lost, with two windows, reloads, clicks and a lost request? | holds, 466 k |
| `billing_plans` | `Billing_plans` | Does whoever is charged have a plan, and is an overdraft bounded, through checkouts from outdated pages, renewals, parallel and unchecked runs? | holds, 3.4 M |
| `billing_cancel` | `Billing_cancel` | Is a plan that waits for its end left alone by late and repeated webhooks, and does a plan ended by Stripe stop? | holds, 37 k |
| `billing_plan_lost` | `Billing_usable` | Can a plan be used until it ends after it was cancelled? | violated |
| `email_plan` | `EmailSchedules_plan` | Are the reports of an hour those the crontab asks for, each once, with schedules added, edited and deleted at any time? | holds, 2.1 M |
| `chart_settles` | `AnalyticsChart_settles` | Does a chart settle, whatever became of the task it names, and is a regenerated result found again? | holds, 478 k |
| `tasks_billed` | `AnalyticsTasks_billed` | Is an analysis billed once and for a run that succeeded, and does it end, with retries, cancellations, results that cannot be stored and a crash? | holds, 140 k |
| `chart_data_age` | `ChartData_age` | How old is the data of a chart, what does its label say, and when does an edit of the data source, or of its metrics, show? | holds, 1.8 M |
| `dashboards_edit` | `Dashboards_edit` | Do metadata, layout and relation stay together through saves, copies, deletions and imports, and does a saved page come back? | holds, 456 k |

The properties, by what they say:

- *KeyNamesLastResult*: a key names the result of the last statement, after all were run
  and committed. It may be a part of it, if a stop cancelled that statement's cursor
  (`KilledIsNotSuccess` below); no earlier statement is ever cut. *SuccessIsComplete*:
  SUCCESS is written last. *StopBoundedByTwoStatements*: a stop costs at most two more
  statements. *RowsAreBounded*: also a
  statement that overtakes the commit of its limit has one.
  *AnsweredStaysAnswered*, *LifecycleSpec*: the life cycle is the abstract one.
  *DispatchedQueriesEnd*: a task that was handed over ends.
- *NextPollTells*: the next poll asks far enough back. *SuccessIsBacked*,
  *PageSettles*: what the page shows in the end is what happened.
- *LocalEditorsKept*: the text of an editor is in the storage until the server has a tab
  for it. *EditorsMove*: it gets there, unless a request is lost or the window closed.
  *ShownTabExists*: a page comes up and the tab it is to show is one it has, but for a
  page during whose rendering another window made a tab.
- *OverdraftBounded*: by what the requests that run at once can take, and by each run that
  was started without a check. *PaidPlanIsUsable*: what Stripe charges is a current plan,
  unless a checkout left it. *ScheduledPlanIsKept*, *EndAtStripeStopsRenewal*: plans that end.
- *RegeneratedIsSaved*, *ChartSettles*: charts. A chart does not settle whose row names a
  task that was revoked (saved while it ran, then stopped): the hook goes on showing that
  it loads, and asks nobody (`OnRevoked`). *BilledForItsResult*,
  *CancelledWaitingIsFree*, *TasksEnd*: their tasks.
- *AgeBounded*: data is as old as the longest timeout among the charts that make the
  query, and two requests more. *LabelIsRight*: what a POST is told. *EditsShow*: an
  edit of the data source's row shows in the next POST; an edit of a metric or a column
  only when the entry runs out.
- *MetadataNamesOwnCharts*, *WarmedAsSaved* (server and page compute the same
  filters, but for the two rules that only the page has), *SavedPageComesBack* (from the
  list with its values; by a reload unless its address has some), *CopyIsIndependent*:
  dashboards.
- *ChangesReflectInOneHour* compares with `Wanted`, a definition of the reports
  of an hour that does not follow the planner's loop; *NoReportTwice*.

### Findings

`CancelledPlanStaysUsable` (run `billing_plan_lost`, quoted in `PROJECT.json`):
cancelling deletes at Stripe before the row says so; the webhook that comes back
meanwhile takes the plan away at once, although the form says that it can be used
until it ends.

More statements of comments, messages and form texts that the code does not keep
are among the configurations below.

### Configurations kept beside the runs

They answer questions that came up on the way; run them by hand.

| Configuration | Shows |
|---|---|
| `SqlLabQuery_kill` | `KilledIsNotSuccess` violated: Presto's and Hive's `handle_cursor` cancels the cursor of a stopped query and waits "for the kill signal", but its caller takes the return for the end of the statement; after the last one it writes SUCCESS over STOPPED |
| `SqlLabQuery_stopcheck` | `StopCheckSeesTheRow` violated: the check between statements reads the session's copy (`sql_lab.py:363`) |
| `SqlLabQuery_arrow` | `CommittedSuccessIsReturned` violated: a synchronous query with msgpack results reads an undefined variable after its commit (`sql_lab.py:452`), so its success becomes a failure |
| `SqlLabQuery_limit` | `EditorLimitIsUsed` violated: the task is sent before the limit is committed (`views/core.py:2604`) |
| `SqlLabUI_two` | `NextPollTells` holds for two queries when polls do not overlap (2.0 M states): an instance of the second half of the theorem `PollTells` |
| `SqlLabUI_toast` | `OnlyStoppedQueriesShowStopped` violated: `stop_query` answers OK also when the query was already complete; the page drops its results and says "Query was stopped." |
| `SqlLabTabs_tables` | `TablesRetried` violated: "Superset will retry later" (`actions/sqlLab.js:450`), but once the storage has no editors it is removed with the tables left in it |
| `SqlLabTabs_once` | `MigratedOnce` violated: two windows that are open at once migrate an editor twice |
| `SqlLabTabs_closed` | `ClosedTabGoes` violated: for a tab that another window closed `TabStateView.get` answers 403, because no owner is not the user, so the page never takes its branch for 404 and keeps a tab that it can neither show nor close |
| `Billing_ends` | `CancelledPlanEnds` violated: cancelling twice leaves a plan without an end |
| `Billing_refused` | `RefusedOnlyWhenUnpaid` violated: two first requests create two trials, and after a checkout the one left over answers for the plan |
| `EmailSchedules_spaced` | `ReportsAreSpaced` violated: the resolution starts afresh with every hour |
| `EmailSchedules_test` | `TestMailAsAsked` violated: two forms in one process exchange their answers through `_extra_data` |
| `ChartData_timeout` | `TimeoutOfThisChart` violated: a chart with a short timeout is given the frame that another chart stored with a long one |
| `ChartData_label` | `OverallLabelIsRight` violated: the label is that of the last query, and an extra query may be older |
| `ChartData_whole` | `AnswerIsWhole` violated: a query that fails is forgotten when the next one succeeds, and the answer has no error |
| `Dashboards_missing` | `MissingChartWasDeleted` violated: an update of a chart that does not name its dashboards takes it off all of them, and the layout keeps it |
| `Dashboards_again` | `ImportedOnce` violated: a file that is imported twice makes two dashboards |
| `AnalyticsChart_stop` | `StoppedStaysStopped` violated: Stop resets a flag that `useChart` never reads; a pending chart starts another analysis |
| `AnalyticsChart_fast` | `ChartSettles` violated when a task may end between two steps of a poller of another task: the late REVOKED of the older one wipes the result |

## 4. Bounds

- *SqlLabQuery*: one query, because queries share nothing but code; up to three
  statements, because a stop lets two more begin at the latest; limits 0
  ("no limit"), 1 and 3 around `SqlMaxRow` = 2. Nothing else is bounded: stop
  requests may be repeated without end.
- *SqlLabUI*: one query and two polls under way at once (`page_overlap`: three
  ticks, a lag of one within a buffer of one, one lost request; `page_settles`: one
  tick, nothing lost, because `PageSettles` is not promised for a page whose last
  poll is lost for good). With two queries *and* overlapping polls
  `NextPollTells` fails: an older answer takes a query back to running after a
  newer one of the other query has moved `queriesLastUpdate`. The repository
  promises nothing there, so this is a hazard and no finding.
- *SqlLabTabs*: one editor with a table, two windows, three loads of a page between
  them, one click and one request that fails or outlives its window: a load that
  is interrupted, one that goes on from there, and one beside it. Editors meet only
  in the storage and in the history; the theorems are for any number of editors,
  windows, loads and losses.
- *Billing*: two subscriptions, one of them unlimited; two requests at once; one
  renewal; one repeated event; one run without a check (`MaxUngated`); a run costs at
  most 1 of a plan worth 2. A second
  renewal is the first one again; two requests are the least that can share the
  last second. The theorems are for any number of subscriptions, requests, renewals and
  repeated events. `billing_cancel` adds a user without a trial and two cancellations.
- *EmailSchedules*: hours of four ticks with beat at tick 1, crontabs before and
  after it, close together and across the end of the hour; tasks at most one tick
  late, which keeps the planner within its hour; three hours, so that there is
  one before and one after an edit; two edits, additions or deletions. The theorems are
  for hours of any length, any crontabs, resolutions and delays within an hour.
- *AnalyticsChart*: two tasks (`QueryIsRefused` is what a query over this bound gets, as it
  may get anyway), one query of the user (the load of a saved chart, or the click on
  Run for a new one; all others are made by the hook), one fault. The theorems are for
  any number of each.
- *AnalyticsTasks*: two tasks of two kinds (one that is billed, one that is not), two
  retries instead of five, one crash. Tasks share the list of ids to drop.
- *ChartData*: two requests at a time for one chart, a timeout of two ticks, responses
  kept for one, requests that take up to one, one edit of the row or of its children; no
  bound on the time. The ages that `AgeBounded` allows are reached. The theorems are for
  any charts that share queries, any timeouts and any number of requests.
- *Dashboards*: a dashboard with a filter box and another chart, room for a copy of
  both, one page, two columns, four edits or requests (loads are not counted): enough to
  add a second filter box, give it a value and save. The theorems have no bound on the
  steps, the charts or the columns.

`CHECK_DEADLOCK FALSE` where the system may stop: all queries answered, no more
user, the bound on edits used up. No run uses a state constraint.

## 5. Fairness

- *SqlLabQuery*: the web thread, once it has begun, and the worker are threads that
  run; the soft time limit is a timer. Nobody has to send or stop a query, and
  no fairness is asked of `WorkerDies`, `ExpireResults` and stop requests.
- *SqlLabUI*: the interval timer fires, and requests that are not lost are answered
  (the server answers, or the poll is given up after ten seconds).
- *Billing*: Stripe repeats an event until it is answered; a handler that has
  started ends.
- *AnalyticsChart*: the server's actions together (`Server`: requests are answered, tasks
  are taken and end), and timers fire, each poller on its own (no two share a number,
  `PollersApart`). `SlowTasks` says that an analysis outlasts the turn of a poller that
  closes over another task (two seconds against the minutes of a training);
  `AnalyticsChart_fast` shows what goes wrong without it.
- *SqlLabTabs*: a request to migrate an editor is answered and its answer taken, as
  long as its window is open; a failure is an answer.
- *AnalyticsTasks*: the worker goes on with each task, waiting ones too; nobody has to
  start or cancel one.
- `EmailSchedules` has bounds on lateness instead of fairness; `ChartData` and
  `Dashboards` have safety properties only.

## 6. What is proved

`SqlLabQueryProofs` (689 obligations) proves for every set of queries and
requests, every `SqlMaxRow` and every setting of the flags, from
`ConstantsAssumption` alone:

| Theorem | Statement |
|---|---|
| `TypeCorrect` | `Spec => []TypeOK` |
| `Invariance` | `Spec => []IInv` |
| `ResultsKeys`, `Success`, `StopBound`, `BoundedRows` | the state properties of the run `query` |
| `RowsAnswer`, `ObeyedStop` | two more: `RowsAnswerMeansSuccess` (a request is answered with rows only for a success), `ObeyedStopIsFinal` (a stop that was obeyed leaves nothing behind) |
| `Answered` | `Spec => AnsweredStaysAnswered` |
| `Implements` | `Spec => LifecycleSpec`: `SqlLabQuery` implements `QueryLifecycle` |

The properties are not inductive. That a success is complete depends on where the
worker is (`NothingEarly`: nothing is applied before the connection's commit, the
loop is left only after the last statement, the store is filled before the key);
that nobody else writes a success or takes it back depends on what the worker's
copy can say (`SuccessPlace`); the bound on statements after a stop depends on the
age of the copy at each place of the loop (`StopKnown`: the statement that was about to
be sent when the stop came began on an old copy, the next one reloaded the row, so the
copy the check after it reads says "stopped"); that no statement but the last is cut
(`CutPlace`) on the copy a cursor is cancelled by, which the next check reads too;
`RequestPlace` ties the request to the worker it called. `IInv` is `TypeOK` and
these five for every query. `StepKeepsPlaces` proves that an action of a query
keeps its five parts, one step per action; `StepLeavesOthers` that it changes
nothing of other queries; `Invariance` puts the two together. The refinement goes
the same way: `StepIsLifecycleStep` maps each action of a query to an action of
the abstract one or to a stutter, using `IInv` where the abstract guard speaks of
answers.

`AnalyticsProofs` (1947 obligations) extends both `AnalyticsTasks` and `AnalyticsChart`, the
two sides of an analysis; the specification of the first is `TasksSpec`, of the second
`Spec`. For any number of tasks, retries and crashes and any kinds, from
`TasksAssumption`, and for any number of tasks, clicks and faults, from `ChartAssumption`:

| Theorem | Statement |
|---|---|
| `TasksInvariance`, `TasksTypeCorrect` | `TasksSpec => []TasksInv`, `TasksSpec => []TasksTypeOK` |
| `Billed` | `TasksSpec => []BilledForItsResult` |
| `CancelledWaiting` | `TasksSpec => []CancelledWaitingIsFree` |
| `PageInvariance`, `PageTypeCorrect` | `Spec => []PageInv`, `Spec => []TypeOK` |
| `Regenerated` | `Spec => []RegeneratedIsSaved` |
| `PollersApart` | no two pollers have the same number |
| `TasksTell`, `PageIsTold` | both let only `BackendMoves` be told of a task |

Of the tasks, `TasksInv` adds to `TasksTypeOK` what the history says at each place of a task
(`HistoryPlace`: no row before the task bills, exactly one after it if it is
billable, and none for an id that is not yet given away) and where a task that was
cancelled while it waited can be (`CancelledPlace`: still on the list to drop, or
dropped). Without the first a retry could follow a bill; without the second a
dropped id could be taken up. `OneTaskKeepsInvariant` reduces a step to the task
that takes it.

In `PageInv`, `RegeneratedIsSaved` rests on what an answer may name. No two requests are
for one task (`OneTaskEach`), so a task that is drawn or polled is `Settled`: no
request for it is under way, and a new answer names another one. Such an answer
starts a poll, unless the chart is out of date, and only the end of a poll that
saves, a failure or a stop takes `isPolling` back. What is drawn is `Settled` too, and a
poller that is `live` has a component (`DrawsSettled`); `OrphansKeep` says that taking a
component away keeps all this. Without this an answer for the
task that is already drawn would show a result that nobody saves. There are no more pollers
than settled tasks (`PollsSettled`), so a number is left for each new one.

The two modules meet in the result backend. `BackendMoves` says what it may tell of a task
and what after that; `TasksTell` and `PageIsTold` say that neither model lets
more be told. A task that was told to have ended stays so, on which the hook relies
when it stops polling.

`SqlLabUIProofs` (965 obligations) proves for any queries and polls, from
`UIAssumption` (a write shows at most `Lag` after its stamp, and `Buffer` is at least
`Lag`):

| Theorem | Statement |
|---|---|
| `Invariance`, `TypeCorrect` | `Spec => []IInv`, `Spec => []TypeOK` |
| `Backed` | `Spec => []SuccessIsBacked` |
| `PollTells` | `Spec => []NextPollTells`, for one query (`OneQuery`) or one poll at a time (`OnePoll`) |

An answer is out of date when it arrives. `IInv` says what of it is still true
(`StillTrue`): there is a row, it was a success if the answer said so, it names results
if it did. For `PollTells` the stamps count. Each write takes a stamp at most `Lag` behind
the clock, so it cannot be behind what was read before by more than that (`OwnStamps`). With
one query the store's `lastUpdate` is a stamp of that query. With several it may be
ahead of a query's last write; then `AnswerTells` says that the poll on its way was
read before that write, or tells of it, or is not about a query that is waited for, and
`SentTells` that a poll that was sent asks far enough back. Two polls at once break
this, as Section 4 says, so the hypothesis cannot be dropped.

`SqlLabTabsProofs` (1584 obligations) proves for any windows, editors, loads and losses,
from `TabsAssumption`:

| Theorem | Statement |
|---|---|
| `Invariance`, `TypeCorrect` | `Spec => []IInv`, `Spec => []TypeOK` |
| `EditorsKept` | `Spec => []LocalEditorsKept` |
| `TabToShow` | `Spec => []ShownTabExists` |

`tab_state` only grows, and a tab keeps the editor it was made from. So what the storage,
a page or a request says of a tab stays true however late it is used (`StorageKept`,
`PagesTyped`, `RequestsTyped`). `OnlyKeeps` says what the recursive function `Only`
keeps of a history. A page of which another window made a tab while it was rendered is
`late`, and only such a page can show a tab that it has not got (`Showing`); that all others
have the active tab is because their list has every tab up to the row they saw last
(`AllRead`).

`BillingProofs` (3029 obligations), for any subscriptions, requests, renewals and repeated
events, from `BillingAssumption`:

| Theorem | Statement | Hypotheses |
|---|---|---|
| `Invariance`, `TypeCorrect` | `Spec => []IInv`, `Spec => []TypeOK` | none |
| `Scheduled` | `Spec => ScheduledPlanIsKept` | none |
| `Usable` | `Spec => []PaidPlanIsUsable` | `OneTrial` |
| `Overdraft` | `Spec => []OverdraftBounded` | `OneTrial`, `PeriodCoversRuns`, nobody cancels |

`OneTrial`: a user who may still get a trial makes one request at a time.
`PeriodCoversRuns`: the runs of all requests together last no longer than a paid
period. The runs without a check are in the bound itself, however many they are. A
handler that calls Stripe has read rows before the call; `IInv` says that what
it remembers is still true after it (`HookKept`, `CheckoutKept`, `CancelKept`) and what
an event on its way means (`EventsKept`). `PaidInv` adds that the last row is the paid
one, and `DebtInv` how much each current row can still be charged by the runs under way
(`Backed`). Each hypothesis is needed: TLC finds `PaidPlanIsUsable` violated when two first
requests make two trials (the hazard at `billing/utils.py:34`), and
`OverdraftBounded` violated with one cancellation, and with a plan of one unit and
a run of two.

`EmailSchedulesProofs` (1710 obligations), for any schedules, crontabs, resolutions
and hours, from `EmailAssumption`:

| Theorem | Statement | Hypotheses |
|---|---|---|
| `TypeCorrect` | `Spec => []TypeOK` | none |
| `Invariance` | `Spec => []IInv` | `Punctual` |
| `ChangesReflect` | `Spec => []ChangesReflectInOneHour` | `Punctual` |
| `ReportedOnce` | `Spec => NoReportTwice` | `Punctual` |

`Punctual` (`BeatMinute + Late < HourLen`): a plan gets to a worker within the hour it
is for. The beat is at minute 1 (`superset/config.py:549`), so this says that the queue is
less than 59 minutes behind; without it two plans may be for one hour. The main lemma
is `PlansAsWanted`: what `next_schedules` gives for an hour is `Wanted`, for every crontab,
resolution and hour. It goes by induction over the loop. `IInv` follows each plan from
the beat to its reports.

`ChartDataProofs` (2035 obligations), for any charts, queries that they share, timeouts,
requests and delays, from `ChartDataAssumption`:

| Theorem | Statement |
|---|---|
| `Invariance`, `TypeCorrect` | `Spec => [](IInv /\ Dated)`, `Spec => []TypeOK` |
| `Edits`, `Ages`, `Labels` | `Spec => []EditsShow`, `Spec => []AgeBounded`, `Spec => []LabelIsRight` |

The properties are about answers; `IInv` says of each frame, each response and each request
on its way how old its parts can be, of which version of the data source they are, and
how its label compares with them. A second invariant, `Dated`, is about edits that the key
does not have: what was made with older definitions was read before the edit, so the age of
the edit and the time that the entry has left add up to no more than it was given.

`DashboardsProofs` (1610 obligations), for any charts, dashboards, pages and steps, from
`DashboardsAssumption`:

| Theorem | Statement |
|---|---|
| `Invariance`, `TypeCorrect` | `Spec => []IInv`, `Spec => []TypeOK` |
| `MetadataIsOwn` | `Spec => []MetadataNamesOwnCharts` |
| `Warmed`, `ComesBack`, `CopyIsApart` | `Spec => WarmedAsSaved`, `Spec => SavedPageComesBack`, `Spec => CopyIsIndependent` |

Pages and files hold ids of charts that others delete, overwrite and copy meanwhile. No id
is given twice, so whoever remembers an id is right about it, if there still is such
a chart: `IInv` says that of dashboards, pages and the file. For `Warmed`, of the filters by
one column that apply to a chart one has the greatest id (`GreatestId`), and that is the
one the page sends; for `ComesBack`, the link in the list says what the metadata say.

The theorems with a hypothesis state it as an ASSUME of the theorem, never as an
assumption on the constants of the module, so the runs are free to leave it.

Induction. The library's induction theorems are about operators, which no installed
prover instantiates, and so is the induction over finite sets. `LeastElement`,
`MaxOfFiniteSet` and `GreatestId` come from the well-foundedness of the strict subsets of a finite
set, and a proof by induction takes the least counterexample. `RecursionExists` gives a
function that is defined at each number from its value at the one before. Each is
proved in the proof modules that use it.

Only model-checked: what rests on fairness (`DispatchedQueriesEnd`, `TasksEnd`,
`EditorsMove`, `PageSettles`, `ChartSettles`, `EndAtStripeStopsRenewal`), because TLAPS
does not handle ENABLED.

## 7. Plan

Done, with their proofs: `QueryLifecycle`, `SqlLabQuery`, `SqlLabUI`, `SqlLabTabs`, `Billing`,
`EmailSchedules`, `AnalyticsChart`, `AnalyticsTasks`, `ChartData` and `Dashboards`.

Next modules, in this order:

1. `SqlEditors`: validation and cost requests answered out of order, an editor
   closed meanwhile (`reducers/sqlLab.js`).
2. `BaseChart`: the older polling component, as a second client of the server half
   of `AnalyticsChart`.
3. `AccessRequests`: requests, approvals and their clean-up.

Abstract specifications worth stating: a plan as the user sees it (usable until an
announced end, paid once per period), implemented by `Billing` without the
interleavings of `CancelledPlanStaysUsable`; a chart as asked, loading, shown or failed, implemented
by `AnalyticsChart`.

Theorems: `Billing`, a bound on the overdraft that holds with cancellations too; the
`LifecycleSpec` of `SqlLabQuery` used in place of `QueryLifecycle` in `SqlLabUI`.

## 8. Not modelled

Validation and cost estimates of SQL Lab, `BaseChart` and access requests (see the
plan). The scheduled warm-up and `/api/v1/query/`, which repeat what `ChartData` has;
the dataset commands (one transaction per request, uniqueness by the database); the
tree of containers in a layout and its undo history, a sequential editor of one
document; the parser of SQL and the engine specifications, conversions without
state, but for the cursor loops of Presto and Hive, which are in `SqlLabQuery`; the
visualisations, connectors, migrations, translations, the vendored `superset/pts`,
and calls passed on to external services. `PROJECT.json` gives the reason for each,
and lists the hazards without a property with the reason for that.
