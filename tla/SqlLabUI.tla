-------------------------------- MODULE SqlLabUI --------------------------------
(***************************************************************************)
(* The SQL Lab page in the browser and the queries it follows: the Redux   *)
(* store (actions/sqlLab.js, reducers/sqlLab.js), the poller               *)
(* (QueryAutoRefresh.jsx), the result pane that fetches rows as soon as a  *)
(* results key shows up (ResultSet.jsx), and their requests to the server. *)
(*                                                                         *)
(* The server side of a query is QueryLifecycle, which SqlLabQuery         *)
(* implements; its row gets a time stamp (changed_on) with every write.    *)
(* The browser runs one callback at a time, and every answer may come      *)
(* back late: polls overlap because they are sent every two seconds and    *)
(* given up only after ten.                                                *)
(***************************************************************************)
EXTENDS Naturals, FiniteSetsExt

CONSTANTS
  Queries,     \* the queries run on the page
  Modes,       \* the values of runAsync the user may choose
  Stoppable,   \* those of them the user may stop
  Polls,       \* the polls that can be under way at the same time
  Buffer,      \* QUERY_UPDATE_BUFFER_MS, in ticks of the clock
  Lag,         \* how late a write can become visible after its changed_on,
               \* clock differences between machines included
  MaxClock,    \* bound on the clock
  MaxLost      \* bound on the requests that get lost

ASSUME UIAssumption ==
  /\ Modes \subseteq BOOLEAN
  /\ Stoppable \subseteq Queries
  /\ Buffer \in Nat /\ Lag \in Nat /\ MaxClock \in Nat /\ MaxLost \in Nat
  /\ Lag <= Buffer

VARIABLES
  phase, shown, key, stopping,  \* the server (QueryLifecycle)
  clock, changedOn,             \* the time, and changed_on of each row
  ui, uiKey,                    \* state and resultsKey in the store's copy
  lastUpdate,                   \* queriesLastUpdate
  polls,                        \* GET /superset/queries/<since>
  async, post,                  \* runAsync, and POST /superset/sql_json/
  stop,                         \* POST /superset/stop_query/
  fetches,                      \* GET /superset/results/<key>/ under way: the state
                                \* of the query object each closure holds
  lost,                         \* requests lost so far
  succeeded                     \* history: the row has been a success

Server == INSTANCE QueryLifecycle

serverVars == <<phase, shown, key, stopping, clock, changedOn>>
storeVars == <<ui, uiKey, lastUpdate>>
requestVars == <<polls, async, post, stop, fetches, lost>>
vars == <<serverVars, storeVars, requestVars, succeeded>>

Idle == [at |-> "idle"]
NoRow == [at |-> "no row"]

\* States for which the poller keeps polling ("started" is never written).
Followed == {"pending", "running", "fetching"}
Ended == {"success", "failed", "stopped"}

-----------------------------------------------------------------------------
(* Helpers *)

\* The state startQuery gives the object that runQuery's callbacks hold.
FirstStateStarted(q) == "started"   \* mutant
FirstState(q) == IF async[q] THEN "pending" ELSE "running"

\* QUERY_FAILED does nothing for an object whose own state is "stopped".
Failed(q, held) == ui' = IF held = "stopped" THEN ui ELSE [ui EXCEPT ![q] = "failed"]

\* The since of a poll; the store's time starts at the time of the page load.
SinceWithoutBuffer == lastUpdate   \* mutant
Since == IF lastUpdate < Buffer THEN 0 ELSE lastUpdate - Buffer

\* queries_exec: the rows with changed_on >= since, as they are now.
RowsChangedStrictly(since) ==   \* mutant
  [q \in Queries |-> IF phase[q] # "absent" /\ changedOn[q] > since
                     THEN [state |-> shown[q], key |-> key[q], at |-> changedOn[q]]
                     ELSE NoRow]
RowsChangedSince(since) ==
  [q \in Queries |-> IF phase[q] # "absent" /\ changedOn[q] >= since
                     THEN [state |-> shown[q], key |-> key[q], at |-> changedOn[q]]
                     ELSE NoRow]

\* REFRESH_QUERIES takes a row unless the store calls the query stopped or failed.
Taken(rows) == {q \in Queries : rows[q] # NoRow /\ ui[q] \notin {"stopped", "failed"}}

\* The server writes a row: changed_on is taken a little before the commit.
Stamp(q) ==
  \E t \in (IF clock < Lag THEN 0 ELSE clock - Lag)..clock :
    changedOn' = [changedOn EXCEPT ![q] = t]

\* An answer of runQuery whose status is a success.
AnsweredWithRowsAlways(q) == TRUE   \* mutant
AnsweredWithRows(q) == ~async[q]

Lose == lost < MaxLost /\ lost' = lost + 1

-----------------------------------------------------------------------------
Init ==
  /\ Server!Init
  /\ clock = 0
  /\ changedOn = [q \in Queries |-> 0]
  /\ ui = [q \in Queries |-> "none"]
  /\ uiKey = [q \in Queries |-> FALSE]
  /\ lastUpdate = 0
  /\ polls = [p \in Polls |-> Idle]
  /\ async = [q \in Queries |-> FALSE]
  /\ post = [q \in Queries |-> "none"]
  /\ stop = [q \in Queries |-> "none"]
  /\ fetches = [q \in Queries |-> {}]
  /\ lost = 0
  /\ succeeded = [q \in Queries |-> FALSE]

-----------------------------------------------------------------------------
(* The server *)

Tick ==
  /\ clock < MaxClock
  /\ clock' = clock + 1
  /\ UNCHANGED <<phase, shown, key, stopping, changedOn, storeVars, requestVars, succeeded>>

\* A write of the request or the worker that owns the row.
Write(q) ==
  /\ post[q] # "none"
  /\ Server!Create(q) \/ Server!Run(q) \/ Server!Succeed(q) \/ Server!Fail(q)
  /\ Stamp(q)
  /\ succeeded' = [succeeded EXCEPT ![q] = @ \/ shown'[q] = "success"]
  /\ UNCHANGED <<clock, storeVars, requestVars>>

\* The worker is gone and leaves the row.
Finish(q) ==
  /\ Server!Close(q)
  /\ UNCHANGED <<clock, changedOn, storeVars, requestVars, succeeded>>

\* stop_query: a complete query is left alone, with the same answer.
ServeStop(q) ==
  /\ stop[q] = "sent"
  /\ \/ /\ Server!RequestStop(q)
        /\ stop' = [stop EXCEPT ![q] = "reading"]
        /\ UNCHANGED <<clock, changedOn>>
     \/ /\ shown[q] \in Server!Answered
        /\ stop' = [stop EXCEPT ![q] = "refused"]
        /\ UNCHANGED serverVars
  /\ UNCHANGED <<storeVars, polls, async, post, fetches, lost, succeeded>>

ServeStopWrite(q) ==
  /\ stop[q] = "reading"
  /\ Server!Stop(q)
  /\ stop' = [stop EXCEPT ![q] = "written"]
  /\ IF shown' = shown THEN UNCHANGED changedOn ELSE Stamp(q)
  /\ UNCHANGED <<clock, storeVars, polls, async, post, fetches, lost, succeeded>>

\* queries_exec reads the rows of the user.
ServePoll(p) ==
  /\ polls[p].at = "sent"
  /\ polls' = [polls EXCEPT ![p] = [at |-> "answered", rows |-> RowsChangedSince(@.since)]]
  /\ UNCHANGED <<serverVars, storeVars, async, post, stop, fetches, lost, succeeded>>

-----------------------------------------------------------------------------
(* The page *)

\* runQuery: START_QUERY and the POST.
RunQuery(q) ==
  /\ ui[q] = "none"
  /\ \E mode \in Modes : async' = [async EXCEPT ![q] = mode]
  /\ ui' = [ui EXCEPT ![q] = FirstState(q)']
  /\ post' = [post EXCEPT ![q] = "sent"]
  /\ UNCHANGED <<serverVars, uiKey, lastUpdate, polls, stop, fetches, lost, succeeded>>

\* The POST is answered without an error: an asynchronous query has been
\* accepted, a synchronous one has returned its rows.
PostSucceeds(q) ==
  /\ post[q] = "sent"
  /\ IF async[q] THEN phase[q] # "absent"
                   ELSE phase[q] = "over" /\ succeeded[q] /\ shown[q] # "failed"
  /\ post' = [post EXCEPT ![q] = "done"]
  /\ ui' = IF AnsweredWithRows(q) THEN [ui EXCEPT ![q] = "success"] ELSE ui
  /\ UNCHANGED <<serverVars, uiKey, lastUpdate, polls, async, stop, fetches, lost, succeeded>>

\* The POST is answered with an error, when the server is done, or the
\* connection is lost.
PostFails(q) ==
  /\ post[q] = "sent"
  /\ (phase[q] = "over" /\ UNCHANGED lost) \/ Lose
  /\ post' = [post EXCEPT ![q] = "done"]
  /\ Failed(q, FirstState(q))
  /\ UNCHANGED <<serverVars, uiKey, lastUpdate, polls, async, stop, fetches, succeeded>>

\* The answer arrives but the PUT of latest_query_id that comes before the
\* dispatch fails: a toast, and the store is not told.
PostIsDropped(q) ==
  /\ post[q] = "sent"
  /\ phase[q] = "over"
  /\ post' = [post EXCEPT ![q] = "done"]
  /\ Lose
  /\ UNCHANGED <<serverVars, storeVars, polls, async, stop, fetches, succeeded>>

\* The stop button.
StopQuery(q) ==
  /\ ui[q] \in {"running", "pending"}
  /\ phase[q] # "absent"
  /\ q \in Stoppable /\ stop[q] = "none"
  /\ stop' = [stop EXCEPT ![q] = "sent"]
  /\ UNCHANGED <<serverVars, storeVars, polls, async, post, fetches, lost, succeeded>>

\* STOP_QUERY and the toast "Query was stopped.".
StopIsAnswered(q) ==
  /\ stop[q] \in {"written", "refused"}
  /\ stop' = [stop EXCEPT ![q] = "done"]
  /\ ui' = [ui EXCEPT ![q] = "stopped"]
  /\ UNCHANGED <<serverVars, uiKey, lastUpdate, polls, async, post, fetches, lost, succeeded>>

\* The interval timer, while a query is followed.
SendPoll(p) ==
  /\ polls[p] = Idle
  /\ \E q \in Queries : ui[q] \in Followed
  /\ polls' = [polls EXCEPT ![p] = [at |-> "sent", since |-> Since]]
  /\ UNCHANGED <<serverVars, storeVars, async, post, stop, fetches, lost, succeeded>>

\* REFRESH_QUERIES; the result pane of a query whose key appears asks for the
\* rows at once (REQUEST_QUERY_RESULTS).
ReceivePoll(p) ==
  /\ polls[p].at = "answered"
  /\ LET rows == polls[p].rows
         new == {q \in Taken(rows) : rows[q].key /\ ~uiKey[q]}
     IN /\ ui' = [q \in Queries |-> IF q \in new THEN "fetching"
                                    ELSE IF q \in Taken(rows) THEN rows[q].state ELSE ui[q]]
        /\ uiKey' = [q \in Queries |-> IF q \in Taken(rows) THEN rows[q].key ELSE uiKey[q]]
        /\ lastUpdate' = Max({lastUpdate} \cup {rows[q].at : q \in Taken(rows)})
        /\ fetches' = [q \in Queries |-> IF q \in new THEN fetches[q] \cup {rows[q].state}
                                         ELSE fetches[q]]
  /\ polls' = [polls EXCEPT ![p] = Idle]
  /\ UNCHANGED <<serverVars, async, post, stop, lost, succeeded>>

\* The poll fails or is given up after QUERY_TIMEOUT_LIMIT: "offline".
LosePoll(p) ==
  /\ polls[p] # Idle
  /\ polls' = [polls EXCEPT ![p] = Idle]
  /\ Lose
  /\ UNCHANGED <<serverVars, storeVars, async, post, stop, fetches, succeeded>>

\* QUERY_SUCCESS with the rows of the results backend.
FetchSucceeds(q) ==
  /\ \E held \in fetches[q] : fetches' = [fetches EXCEPT ![q] = @ \ {held}]
  /\ ui' = [ui EXCEPT ![q] = "success"]
  /\ UNCHANGED <<serverVars, uiKey, lastUpdate, polls, async, post, stop, lost, succeeded>>

\* QUERY_FAILED: the entry has expired (410), access was refused, ...
FetchFails(q) ==
  /\ \E held \in fetches[q] :
       /\ fetches' = [fetches EXCEPT ![q] = @ \ {held}]
       /\ Failed(q, held)
  /\ UNCHANGED <<serverVars, uiKey, lastUpdate, polls, async, post, stop, lost, succeeded>>

Next ==
  \/ Tick
  \/ \E q \in Queries :
       \/ Write(q) \/ Finish(q) \/ ServeStop(q) \/ ServeStopWrite(q)
       \/ RunQuery(q) \/ PostSucceeds(q) \/ PostFails(q) \/ PostIsDropped(q)
       \/ StopQuery(q) \/ StopIsAnswered(q)
       \/ FetchSucceeds(q) \/ FetchFails(q)
  \/ \E p \in Polls : ServePoll(p) \/ SendPoll(p) \/ ReceivePoll(p) \/ LosePoll(p)

Spec == Init /\ [][Next]_vars

\* The timer fires, and a request that is not lost is answered.
Fairness ==
  /\ \A p \in Polls :
       WF_vars(SendPoll(p)) /\ WF_vars(ServePoll(p)) /\ WF_vars(ReceivePoll(p))
  /\ \A q \in Queries :
       /\ WF_vars(PostSucceeds(q) \/ PostFails(q))
       /\ WF_vars(StopIsAnswered(q))
       /\ WF_vars(FetchSucceeds(q) \/ FetchFails(q))

FairSpec == Spec /\ Fairness

-----------------------------------------------------------------------------
(* Properties *)

\* Every variable keeps to the values the program can give it.
TypeOK ==
  /\ phase \in [Queries -> {"absent", "open", "over"}]
  /\ shown \in [Queries -> {"absent", "pending", "running"} \cup Ended]
  /\ key \in [Queries -> BOOLEAN]
  /\ stopping \in [Queries -> BOOLEAN]
  /\ clock \in 0..MaxClock
  /\ changedOn \in [Queries -> 0..clock]
  /\ ui \in [Queries -> {"none"} \cup Followed \cup Ended]
  /\ uiKey \in [Queries -> BOOLEAN]
  /\ lastUpdate \in 0..clock
  /\ \A p \in Polls :
       \/ polls[p] = Idle
       \/ polls[p].at = "sent" /\ polls[p].since \in 0..clock
       \/ polls[p].at = "answered" /\ DOMAIN polls[p].rows = Queries
  /\ async \in [Queries -> BOOLEAN]
  /\ post \in [Queries -> {"none", "sent", "done"}]
  /\ stop \in [Queries -> {"none", "sent", "reading", "written", "refused", "done"}]
  /\ fetches \in [Queries -> SUBSET ({"pending", "running"} \cup Ended)]
  /\ lost \in 0..MaxLost

\* A row that has reached its last state.
AtRest(q) == phase[q] = "over" /\ shown[q] \in Ended /\ ~stopping[q]

\* No update is missed: as long as the page shows a query that has ended as
\* waiting or running, the next poll asks far enough back to be told.
NextPollTells ==
  \A q \in Queries :
    AtRest(q) /\ ui[q] \in {"pending", "running"} => RowsChangedSince(Since)[q] # NoRow

\* The page calls a query a success only if it was one, or if the rows it
\* shows are results that the row names.
SuccessIsBacked ==
  \A q \in Queries : ui[q] = "success" => succeeded[q] \/ key[q]

\* However late, lost or out of order the answers are, the page ends up
\* showing that the query has ended.
PageSettles ==
  \A q \in Queries : ui[q] # "none" /\ AtRest(q) ~> [](AtRest(q) => ui[q] \in Ended)

-----------------------------------------------------------------------------
(* What the page says, and the server does not do *)

\* "Query was stopped": a query that stop_query found complete, and so did not
\* stop, is not shown as stopped.
OnlyStoppedQueriesShowStopped ==
  [][\A q \in Queries :
       stop[q] = "refused" /\ ui[q] # "stopped" => ui'[q] # "stopped"]_vars

=============================================================================
