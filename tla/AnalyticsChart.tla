------------------------------- MODULE AnalyticsChart -------------------------------
(***************************************************************************)
(* An analytics chart in the explore page: explore_json starts a Celery    *)
(* task and answers with its id (superset/viz.py), the chart component     *)
(* polls that task (superset-frontend/src/hooks/useChart.ts) and asks once *)
(* more when the task looks lost, and the user runs, edits or stops.       *)
(*                                                                         *)
(* The hook is written with asynchronous functions that close over the     *)
(* props and state of one render. Each run of such a function is a poller; *)
(* its record holds what it closed over.                                   *)
(***************************************************************************)
EXTENDS Integers, FiniteSets, FiniteSetsExt

CONSTANTS
  SlowTasks,   \* an analysis takes longer than a query and a turn of a poller
  MaxTasks,    \* bound on the tasks; the server refuses what is over it
  MaxRuns,     \* bound on the clicks on Run, page load included
  MaxFaults    \* bound on the tasks retried and the requests lost or timed out

ASSUME ChartAssumption ==
  /\ SlowTasks \in BOOLEAN
  /\ MaxTasks \in Nat \ {0} /\ MaxRuns \in Nat \ {0} /\ MaxFaults \in Nat

VARIABLES
  told,        \* state of each task, as the result backend tells it
  deletes,     \* DELETE /api/task/<id> under way
  toRevoke,    \* tasks the workers have been told to revoke and have yet to take
  requests,    \* explore_json requests under way
  asked,       \* explore_json requests made
  faults,
  chart,       \* the chart in the Redux store
  overlay,     \* refreshOverlayVisible: the controls differ from the chart
  saved,       \* taskId in the params of the chart's row
  hook,        \* state and props of useChart at its last render
  pollers,     \* asynchronous functions of useChart that have not ended
  runs,        \* clicks on Run
  stopped      \* history: Stop was the last click on Run or Stop

userVars == <<overlay, runs, stopped>>
vars == <<told, deletes, toRevoke, requests, asked, faults, chart, saved, hook, pollers, userVars>>

Tasks == 1..MaxTasks
NoTask == 0
TaskIds == {NoTask} \cup Tasks

\* "queued" and "expired" are both PENDING: the backend has nothing to tell.
TaskStates ==
  {"unsent", "queued", "expired", "PROCESSING", "RETRY", "SUCCESS", "FAILURE", "REVOKED"}

Untaken == {"queued", "RETRY"}

\* polling_data_analytics
StatusOf(t) == IF told[t] \in {"queued", "expired"} THEN "PENDING" ELSE told[t]

\* The hook of a component that is not there; the next one starts like it. A
\* mutant starts with isReQuery reset.
NotMountedSpent == [mounted |-> FALSE, isReQuery |-> FALSE, task |-> NoTask, status |-> "none"]
NotMounted == [mounted |-> FALSE, isReQuery |-> TRUE, task |-> NoTask, status |-> "none"]

Request(n, task) == [n |-> n, task |-> task, at |-> "sent", heard |-> TRUE]

\* The pollers that go on when their component is taken away: they can set no
\* state any more, so that those which would not ask again come to nothing.
Orphans(ps) == {[p EXCEPT !.live = FALSE, !.status = "none"] : p \in {x \in ps : x.requery}}

FreeNumber == Min((1..(Cardinality(pollers) + 1)) \ {p.n : p \in pollers})

-----------------------------------------------------------------------------
(* The page is loaded: a new chart, or a saved one with the id of its task,  *)
(* which is saved while the task is under way and may have come to any end.  *)

Init ==
  /\ \E old \in TaskStates :
       /\ told = [t \in Tasks |-> IF t = 1 THEN old ELSE "unsent"]
       /\ saved = IF old = "unsent" THEN NoTask ELSE 1
       /\ requests = IF old = "unsent" THEN {} ELSE {Request(1, 1)}
       /\ asked = Cardinality(requests)
       /\ runs = asked
       /\ chart = [status |-> IF old = "unsent" THEN "none" ELSE "loading",
                   isPolling |-> FALSE, taskId |-> NoTask]
  /\ toRevoke \in SUBSET {t \in Tasks : told[t] \in Untaken}
  /\ deletes = {}
  /\ faults = 0
  /\ overlay = FALSE
  /\ hook = NotMounted
  /\ pollers = {}
  /\ stopped = FALSE

-----------------------------------------------------------------------------
(* Server and workers *)

\* get_data: use the task that the form names, or start one.
ServeExplore(r) ==
  /\ r.at = "sent"
  /\ \E t \in Tasks :
       /\ IF r.task = NoTask THEN told[t] = "unsent" /\ \A u \in 1..(t - 1) : told[u] # "unsent"
                             ELSE t = r.task
       /\ told' = IF r.task = NoTask THEN [told EXCEPT ![t] = "queued"] ELSE told
       /\ requests' = (requests \ {r}) \cup
            (IF r.heard THEN {[r EXCEPT !.at = "served", !.task = t]} ELSE {})
  /\ UNCHANGED <<deletes, toRevoke, asked, faults, chart, saved, hook, pollers, userVars>>

\* A worker takes a task that is queued or due for a retry.
TakeTask(t) ==
  /\ told[t] \in Untaken
  /\ told' = [told EXCEPT ![t] = IF t \in toRevoke THEN "REVOKED" ELSE "PROCESSING"]
  /\ toRevoke' = toRevoke \ {t}
  /\ UNCHANGED <<deletes, requests, asked, faults, chart, saved, hook, pollers, userVars>>

EndTask(t) ==
  /\ told[t] = "PROCESSING"
  /\ SlowTasks => \A p \in pollers : p.task = t
  /\ \E outcome \in {"SUCCESS", "FAILURE"} : told' = [told EXCEPT ![t] = outcome]
  /\ UNCHANGED <<deletes, toRevoke, requests, asked, faults, chart, saved, hook, pollers, userVars>>

\* autoretry_for
RetryTask(t) ==
  /\ told[t] = "PROCESSING"
  /\ faults < MaxFaults
  /\ told' = [told EXCEPT ![t] = "RETRY"]
  /\ faults' = faults + 1
  /\ UNCHANGED <<deletes, toRevoke, requests, asked, chart, saved, hook, pollers, userVars>>

\* cancel_task: a running task is terminated, one that waits is dropped when due.
CancelTask(t) ==
  /\ t \in deletes
  /\ deletes' = deletes \ {t}
  /\ toRevoke' = IF told[t] \in Untaken THEN toRevoke \cup {t} ELSE toRevoke
  /\ told' = IF told[t] = "PROCESSING" THEN [told EXCEPT ![t] = "REVOKED"] ELSE told
  /\ UNCHANGED <<requests, asked, faults, chart, saved, hook, pollers, userVars>>

\* polling_data_analytics, once the time the poller waits before is over.
PollServed(p) ==
  /\ p.at = "poll"
  /\ pollers' = (pollers \ {p}) \cup
       {[p EXCEPT !.at = "answer", !.status = IF p.live THEN StatusOf(p.task) ELSE "none"]}
  /\ UNCHANGED <<told, deletes, toRevoke, requests, asked, faults, chart, saved, hook, userVars>>

-----------------------------------------------------------------------------
(* The chart's query *)

\* triggerQuery, exploreJSON: n new requests, whose answers are all heard.
Trigger(n) ==
  /\ requests' = requests \cup {Request(asked + i, NoTask) : i \in 1..n}
  /\ asked' = asked + n

\* chartUpdateSucceeded, and the effect on a new task id: poll it. A chart whose
\* controls were changed is not drawn again.
QuerySucceeds(r) ==
  LET drawn == ~overlay
      polls == drawn /\ (~hook.mounted \/ hook.task # r.task)
  IN
  /\ r.at = "served"
  /\ requests' = requests \ {r}
  /\ chart' = [chart EXCEPT !.status = "success",
                            !.isPolling = polls \/ @,
                            !.taskId = IF polls THEN r.task ELSE @]
  /\ hook' = CASE ~polls -> hook
               [] polls /\ hook.mounted -> [hook EXCEPT !.task = r.task]
               [] OTHER -> [NotMounted EXCEPT !.mounted = TRUE, !.task = r.task]
  /\ pollers' = IF polls
                THEN pollers \cup {[n |-> FreeNumber, live |-> TRUE, at |-> "poll",
                                    task |-> r.task, requery |-> FALSE, status |-> "none"]}
                ELSE pollers
  /\ UNCHANGED <<told, deletes, toRevoke, asked, faults, saved, userVars>>

\* No billing balance, no permission or an exception. chartUpdateFailed: the
\* message takes the place of the chart component.
QueryIsRefused(r) ==
  /\ r.at = "sent"
  /\ requests' = requests \ {r}
  /\ chart' = IF r.heard THEN [chart EXCEPT !.status = "failed"] ELSE chart
  /\ hook' = IF r.heard THEN NotMounted ELSE hook
  /\ pollers' = IF r.heard THEN Orphans(pollers) ELSE pollers
  /\ UNCHANGED <<told, deletes, toRevoke, asked, faults, saved, userVars>>

\* chartUpdateTimeout; the server may still handle the request.
QueryTimesOut(r) ==
  /\ r.heard /\ faults < MaxFaults
  /\ faults' = faults + 1
  /\ requests' = (requests \ {r}) \cup (IF r.at = "sent" THEN {[r EXCEPT !.heard = FALSE]} ELSE {})
  /\ chart' = [chart EXCEPT !.status = "failed"]
  /\ hook' = NotMounted
  /\ pollers' = Orphans(pollers)
  /\ UNCHANGED <<told, deletes, toRevoke, asked, saved, userVars>>

-----------------------------------------------------------------------------
(* useChart *)

\* The next poll after an answer has set the state of the hook, at once or 2 s
\* later; the function that sends it closes over that render.
Turn(p, requery) ==
  [p EXCEPT !.at = "poll", !.task = hook.task, !.requery = requery, !.status = "none"]

NextTurnOnce(p) ==   \* mutant: a task that is seen running is not polled again
  IF p.live /\ p.status = "PENDING" THEN {Turn(p, hook.isReQuery)} ELSE {}
NextTurn(p) ==
  CASE ~p.live -> {}
    [] p.live /\ p.status = "PENDING" -> {Turn(p, hook.isReQuery)}
    [] p.live /\ p.status = "PROCESSING" -> {Turn(p, FALSE)}
    [] OTHER -> {}

\* reQuery by onPending once its poll has returned, and by the effect of a RETRY.
\* The first looks at isReQuery as it was when the function was made.
AsksAgain(p) == p.requery
EffectAsksAgain(p) == p.live /\ p.status = "RETRY" /\ hook.isReQuery

\* updateTaskid puts the id of a regenerated result into the chart's row; this
\* is taken as done at once. The mutant has the condition the wrong way round.
SavesUnasked(p) == p.live /\ p.status = "SUCCESS" /\ hook.isReQuery
Saves(p) == p.live /\ p.status = "SUCCESS" /\ ~hook.isReQuery

\* The effect on the new state runs before what follows the poll.
PollAnswered(p) ==
  LET asks == {x \in {1, 2} : (x = 1 /\ AsksAgain(p)) \/ (x = 2 /\ EffectAsksAgain(p))}
      fails == p.live /\ p.status = "FAILURE"
      ends == p.live /\ p.status \in {"SUCCESS", "FAILURE"}
  IN
  /\ p.at = "answer"
  /\ pollers' = LET others == pollers \ {p} IN
                 IF fails THEN Orphans(others) ELSE others \cup NextTurn(p)
  /\ Trigger(Cardinality(asks))
  /\ deletes' = deletes \cup {IF x = 1 THEN p.task ELSE hook.task : x \in asks}
  /\ chart' = [chart EXCEPT
       !.isPolling = @ /\ ~ends,
       !.taskId = IF asks # {} THEN NoTask ELSE @,
       !.status = CASE asks # {} -> "loading" [] asks = {} /\ fails -> "failed" [] OTHER -> @]
  /\ hook' = CASE fails -> NotMounted
               [] p.live /\ ~fails ->
                    [hook EXCEPT !.status = p.status,
                                 !.isReQuery = @ /\ asks = {}]
               [] OTHER -> hook
  /\ saved' = IF Saves(p) THEN hook.task ELSE saved
  /\ UNCHANGED <<told, toRevoke, faults, userVars>>

\* The poll is lost: the function ends with an exception nobody handles.
PollLost(p) ==
  /\ faults < MaxFaults
  /\ faults' = faults + 1
  /\ pollers' = pollers \ {p}
  /\ UNCHANGED <<told, deletes, toRevoke, requests, asked, chart, saved, hook, userVars>>

-----------------------------------------------------------------------------
(* The user *)

\* onQuery, by the button or the keyboard
ClickRun ==
  /\ runs < MaxRuns
  /\ runs' = runs + 1
  /\ stopped' = FALSE
  /\ overlay' = FALSE
  /\ chart' = [chart EXCEPT !.status = "loading", !.taskId = NoTask]
  /\ Trigger(1)
  /\ UNCHANGED <<told, deletes, toRevoke, faults, saved, hook, pollers>>

\* onStop: abort the last request, and the task if its id is known.
ClickStop ==
  LET aborted == {r \in requests : r.n = asked /\ r.heard}
  IN
  /\ chart.isPolling \/ chart.status = "loading"
  /\ requests' = (requests \ aborted) \cup
       {[r EXCEPT !.heard = FALSE] : r \in {x \in aborted : x.at = "sent"}}
  /\ deletes' = deletes \cup ({chart.taskId} \ {NoTask})
  /\ chart' = [chart EXCEPT !.isPolling = FALSE, !.taskId = NoTask,
                            !.status = IF aborted # {} THEN "stopped" ELSE @]
  /\ overlay' = TRUE
  /\ stopped' = TRUE
  /\ UNCHANGED <<told, toRevoke, asked, faults, saved, hook, pollers, runs>>

\* A control is changed that the query depends on.
EditControls ==
  /\ ~overlay
  /\ overlay' = TRUE
  /\ UNCHANGED <<told, deletes, toRevoke, requests, asked, faults, chart, saved, hook, pollers,
                 runs, stopped>>

-----------------------------------------------------------------------------
Server ==
  \/ \E r \in requests : ServeExplore(r) \/ QueryIsRefused(r) \/ QuerySucceeds(r)
  \/ \E t \in Tasks : TakeTask(t) \/ EndTask(t) \/ CancelTask(t)

System == Server \/ \E p \in pollers : PollServed(p) \/ PollAnswered(p)

Environment ==
  \/ \E t \in Tasks : RetryTask(t)
  \/ \E r \in requests : QueryTimesOut(r)
  \/ \E p \in pollers : PollLost(p)
  \/ ClickRun \/ ClickStop \/ EditControls

Next == System \/ Environment

Spec == Init /\ [][Next]_vars

\* Requests are answered and tasks that are taken end: what there is of both is
\* finite, so that one condition does for all. Timers fire, for each function.
PollerNumbers == 1..(MaxTasks + 1)

Fairness ==
  /\ WF_vars(Server)
  /\ \A n \in PollerNumbers :
       WF_vars(\E p \in pollers : p.n = n /\ (PollServed(p) \/ PollAnswered(p)))

FairSpec == Spec /\ Fairness

-----------------------------------------------------------------------------
(* Properties *)

\* Every variable keeps to its range, what is polled has been sent, and a
\* component that has used up its second query has asked for more than the user.
TypeOK ==
  /\ told \in [Tasks -> TaskStates]
  /\ faults \in 0..MaxFaults /\ runs \in 0..MaxRuns
  /\ deletes \cup toRevoke \subseteq Tasks
  /\ asked \in Nat
  /\ requests \subseteq [n : 1..asked, task : TaskIds, at : {"sent", "served"}, heard : BOOLEAN]
  /\ chart \in [status : {"none", "loading", "success", "failed", "stopped"},
                isPolling : BOOLEAN, taskId : TaskIds]
  /\ saved \in TaskIds
  /\ hook \in [mounted : BOOLEAN, isReQuery : BOOLEAN, task : TaskIds,
               status : TaskStates \cup {"none", "PENDING"}]
  /\ ~hook.isReQuery => asked > runs
  /\ pollers \subseteq [n : PollerNumbers, live : BOOLEAN, at : {"poll", "answer"},
                        task : Tasks, requery : BOOLEAN,
                        status : TaskStates \cup {"none", "PENDING"}]
  /\ \A p \in pollers : told[p.task] # "unsent"
  /\ overlay \in BOOLEAN /\ stopped \in BOOLEAN

\* The chart draws a result, and it has stopped polling or says what went wrong.
Shown == chart.status = "success" /\ hook.mounted /\ hook.status = "SUCCESS"
AtRest == chart.status \in {"failed", "stopped"} \/ (Shown /\ ~chart.isPolling)

\* A chart that had to be regenerated is found again: when its result is drawn
\* and nothing is under way, the row names the task the chart was drawn from, so
\* the next load need not compute it a third time (onSuccess, updateTaskid).
RegeneratedIsSaved ==
  Shown /\ ~chart.isPolling /\ ~overlay /\ ~hook.isReQuery => saved = hook.task

\* The loading sign does not stay for ever: a chart that was asked for ends up
\* with its result, with a message, or marked as out of date because the user
\* stopped it or changed a control, through all the queries that the hook makes on
\* its own and the tasks it cancels. Not so when a poll is lost or a task is
\* retried for the second time, nor when the row names a task that was revoked
\* (saved, then stopped): then the hook stops asking and tells nobody.
OnRevoked ==
  hook.mounted /\ hook.status = "REVOKED" /\ hook.task = saved /\ told[saved] = "REVOKED"
ChartSettles == <>[](faults > 0 \/ overlay \/ runs = 0 \/ AtRest \/ OnRevoked)

-----------------------------------------------------------------------------
(* What the program says, and does not do *)

\* "Updating chart was stopped", "stop polling": after Stop the page makes no
\* query of its own until the user clicks Run.
StoppedStaysStopped == [][stopped /\ stopped' => asked' = asked]_vars

=============================================================================
