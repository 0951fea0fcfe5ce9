------------------------------ MODULE ChartData ------------------------------
(***************************************************************************)
(* The data of a chart: /superset/explore_json and the two caches behind   *)
(* it, of data frames (superset/viz.py) and of whole responses to GET      *)
(* requests (etag_cache in superset/utils/decorators.py).                  *)
(*                                                                         *)
(* Every time is kept as the time that has passed since: data is its age.  *)
(* A request makes the queries of its chart one after the other; requests  *)
(* of several windows overlap. Left out: who asks, filters of the page (a  *)
(* chart with other filters is another chart), the billing gate, a timeout *)
(* of 0, which is none.                                                    *)
(***************************************************************************)
EXTENDS Integers, Sequences, SequencesExt, FiniteSetsExt

CONSTANTS
  Requests,         \* requests at a time
  Charts,
  Queries,          \* of a chart, the extra queries first
  Timeout,          \* cache_timeout, by chart
  ResponseTimeout,  \* CACHE_DEFAULT_TIMEOUT, of a response
  MaxDelay,         \* a request that takes longer is ended by the web server
  MaxEdits          \* bound on the edits of the data source

ASSUME ChartDataAssumption ==
  /\ IsFiniteSet(Charts)
  /\ \A c \in Charts :
       /\ Queries[c] \in Seq(ToSet(Queries[c])) /\ Queries[c] # <<>>
       /\ IsInjective(Queries[c])
  /\ Timeout \in [Charts -> Nat \ {0}] /\ ResponseTimeout \in Nat \ {0}
  /\ MaxDelay \in Nat /\ MaxEdits \in Nat

VARIABLES
  changedOn,   \* of the data source's own row: its SQL, its offset and the like
  definitions, \* version of its metrics and columns, which are rows of their own
  edited,      \* history: the time since, while anything is left from before
  frames,      \* the cache of data frames
  responses,   \* the cache of responses, by chart: the URL names it
  reqs         \* viz_obj of each request, and its answer at last

source == <<changedOn, definitions, edited>>
vars == <<changedOn, definitions, edited, frames, responses, reqs>>

None == -1
Versions == 0..MaxEdits
Parts(c) == ToSet(Queries[c])

\* The key of a frame: the query and changed_on as the request has read it. One
\* mutant has the query alone, the other reads changed_on again for every key.
Keys == (UNION {Parts(c) : c \in Charts}) \X Versions
KeyOfQuery(q, version) == <<q, 0>>
KeyOfNow(q, version) == <<q, changedOn>>
CacheKey(q, version) == <<q, version>>

\* left is what remains of the timeout.
NoPart == [read |-> None, version |-> 0, defs |-> 0]
NoFrame == [dttm |-> None, part |-> NoPart, left |-> 0]

\* What the page is given: a part for each query, is_cached and cached_dttm, and
\* whether there is an error.
NoAnswer(c) ==
  [parts |-> [q \in Parts(c) |-> NoPart], cached |-> FALSE, dttm |-> None, error |-> FALSE]
NoResponse(c) == [answer |-> NoAnswer(c), left |-> 0]

Idle == [at |-> "idle"]

Init ==
  /\ changedOn = 0 /\ definitions = 0 /\ edited = None
  /\ frames = [k \in Keys |-> NoFrame]
  /\ responses = [c \in Charts |-> NoResponse(c)]
  /\ reqs = [r \in Requests |-> Idle]

-----------------------------------------------------------------------------
(* explore_json *)

Active(r) == reqs[r].at \in {"query", "loading", "storing", "done"}

\* The viz object is new: nothing is known of any query. The data source's row is
\* read at once, its metrics and columns with the first query that is made (defs).
\* from is cached_dttm as get_df_payload takes it.
Starts(r, c, method) ==
  reqs' = [reqs EXCEPT ![r] =
    [at |-> "query", chart |-> c, method |-> method, started |-> 0,
     version |-> changedOn, defs |-> None, rest |-> Queries[c], from |-> None,
     answer |-> NoAnswer(c)]]

\* A POST goes past the cache of responses. Whether it forces, as warm_up_cache does
\* always, is not kept: to force is to miss every time.
Post(r, c) ==
  /\ ~Active(r)
  /\ Starts(r, c, "POST")
  /\ UNCHANGED <<source, frames, responses>>

\* A GET is answered from the cache of responses, if it can be.
Get(r, c) ==
  /\ ~Active(r)
  /\ \/ responses[c].left = 0 /\ Starts(r, c, "GET")
     \/ /\ responses[c].left > 0
        /\ reqs' = [reqs EXCEPT ![r] =
             [at |-> "answered", chart |-> c, method |-> "GET", started |-> 0,
              version |-> changedOn, defs |-> None, rest |-> <<>>, from |-> None,
              answer |-> responses[c].answer]]
  /\ UNCHANGED <<source, frames, responses>>

-----------------------------------------------------------------------------
(* get_df_payload, for the next query *)

\* The next query has given part, or none. After the last one what only the viz object
\* knew is of no more use.
Goes(req, part) ==
  LET last == Len(req.rest) = 1
  IN [req EXCEPT !.answer.parts[Head(req.rest)] = part, !.rest = Tail(@), !.from = None,
                 !.at = IF last THEN "done" ELSE "query",
                 !.defs = IF last THEN None ELSE @]

Hit(req) ==
  LET frame == frames[CacheKey(Head(req.rest), req.version)]
  IN [Goes(req, frame.part) EXCEPT !.answer.cached = TRUE, !.answer.dttm = frame.dttm]

\* error_message stays as it was. The mutant renews the entry that it finds.
FromCacheRenews(r) ==
  LET req == reqs[r]
      key == CacheKey(Head(req.rest), req.version)
  IN
  /\ req.at = "query" /\ frames[key].left > 0
  /\ reqs' = [reqs EXCEPT ![r] = Hit(req)]
  /\ frames' = [frames EXCEPT ![key].left = Timeout[req.chart]]
  /\ UNCHANGED <<source, responses>>
FromCache(r) ==
  LET req == reqs[r] IN
  /\ req.at = "query"
  /\ frames[CacheKey(Head(req.rest), req.version)].left > 0
  /\ reqs' = [reqs EXCEPT ![r] = Hit(req)]
  /\ UNCHANGED <<source, frames, responses>>

\* Any request may miss: it forces, or the entry was evicted or does not unpickle.
Miss(r) ==
  /\ reqs[r].at = "query"
  /\ reqs' = [reqs EXCEPT ![r].at = "loading", ![r].from = 0]
  /\ UNCHANGED <<source, frames, responses>>

\* get_df: the database answers with what it has now, and error_message is reset.
Defs(req) == IF req.defs = None THEN definitions ELSE req.defs
Load(r) ==
  LET req == reqs[r] IN
  /\ req.at = "loading"
  /\ reqs' = [reqs EXCEPT ![r] =
       [req EXCEPT !.at = "storing", !.defs = Defs(req), !.answer.error = FALSE,
                   !.answer.parts[Head(req.rest)] =
                     [read |-> 0, version |-> req.version, defs |-> Defs(req)]]]
  /\ UNCHANGED <<source, frames, responses>>

LoadFails(r) ==
  LET req == reqs[r] IN
  /\ req.at = "loading"
  /\ reqs' = [reqs EXCEPT ![r] =
       [Goes([req EXCEPT !.defs = Defs(req)], NoPart) EXCEPT !.answer.error = TRUE]]
  /\ UNCHANGED <<source, frames, responses>>

\* cached_dttm is the time before the query; the mutant takes the time after it.
FrameAfter(req) ==
  [dttm |-> 0, part |-> req.answer.parts[Head(req.rest)], left |-> Timeout[req.chart]]
Frame(req) ==
  [dttm |-> req.from, part |-> req.answer.parts[Head(req.rest)], left |-> Timeout[req.chart]]

\* cache.set; when it fails the entry is deleted.
Store(r) ==
  LET req == reqs[r]
      q == Head(req.rest)
  IN
  /\ req.at = "storing"
  /\ \E frame \in {Frame(req), NoFrame} :
       frames' = [frames EXCEPT ![CacheKey(q, req.version)] = frame]
  /\ reqs' = [reqs EXCEPT ![r] = Goes(req, req.answer.parts[q])]
  /\ UNCHANGED <<source, responses>>

\* etag_cache keeps the answer to a GET, an error too, if the cache lets it.
Answer(r) ==
  LET req == reqs[r] IN
  /\ req.at = "done"
  /\ reqs' = [reqs EXCEPT ![r].at = "answered"]
  /\ \/ UNCHANGED responses
     \/ /\ req.method = "GET"
        /\ responses' = [responses EXCEPT ![req.chart] =
             [answer |-> req.answer, left |-> ResponseTimeout]]
  /\ UNCHANGED <<source, frames>>

-----------------------------------------------------------------------------
(* Around it *)

\* The web server ends a request.
Kill(r) ==
  /\ Active(r)
  /\ reqs' = [reqs EXCEPT ![r] = Idle]
  /\ UNCHANGED <<source, frames, responses>>

\* Something that was made with metrics and columns of before is still around.
Outdates(answer) ==
  \E q \in DOMAIN answer.parts :
    answer.parts[q].read # None /\ answer.parts[q].defs # definitions
Outdated ==
  \/ \E k \in Keys : frames[k] # NoFrame /\ frames[k].part.defs # definitions
  \/ \E c \in Charts : Outdates(responses[c].answer)
  \/ \E r \in Requests :
       /\ reqs[r] # Idle
       /\ reqs[r].defs \notin {None, definitions} \/ Outdates(reqs[r].answer)

\* An edit of the data source changes its row, some of its metrics and columns (alone
\* from the lists of either), or both. Only what is written to the row moves its
\* changed_on. Versions are the numbers of the edits, as changed_on is their time.
Edit(row, children) ==
  /\ row \/ children
  /\ UNCHANGED <<frames, responses, reqs>>
  /\ changedOn < MaxEdits /\ definitions < MaxEdits
  /\ changedOn' = IF row THEN Max({changedOn, definitions}) + 1 ELSE changedOn
  /\ IF children
     THEN /\ definitions' = Max({changedOn, definitions}) + 1
          /\ edited' = IF Outdated' THEN 0 ELSE None
     ELSE UNCHANGED <<definitions, edited>>

Older(age) == IF age = None THEN None ELSE age + 1
OlderPart(part) == [part EXCEPT !.read = Older(@)]
OlderAnswer(answer) ==
  [answer EXCEPT !.dttm = Older(@), !.parts = [q \in DOMAIN @ |-> OlderPart(@[q])]]

\* Time passes. Entries run out; what was answered has been shown.
Tick ==
  /\ \A r \in Requests : Active(r) => reqs[r].started < MaxDelay
  /\ frames' = [k \in Keys |->
       IF frames[k].left <= 1 THEN NoFrame
       ELSE [dttm |-> Older(frames[k].dttm), part |-> OlderPart(frames[k].part),
             left |-> frames[k].left - 1]]
  /\ responses' = [c \in Charts |->
       IF responses[c].left <= 1 THEN NoResponse(c)
       ELSE [answer |-> OlderAnswer(responses[c].answer), left |-> responses[c].left - 1]]
  /\ reqs' = [r \in Requests |->
       IF Active(r)
       THEN [reqs[r] EXCEPT !.started = @ + 1, !.from = Older(@), !.answer = OlderAnswer(@)]
       ELSE Idle]
  /\ UNCHANGED <<changedOn, definitions>>
  /\ edited' = IF Outdated' THEN Older(edited) ELSE None

Serve(r) ==
  FromCache(r) \/ Miss(r) \/ Load(r) \/ LoadFails(r) \/ Store(r) \/ Answer(r)

Next ==
  \/ \E r \in Requests, c \in Charts : Get(r, c) \/ Post(r, c)
  \/ \E r \in Requests : Serve(r) \/ Kill(r)
  \/ \E row, children \in BOOLEAN : Edit(row, children)
  \/ Tick

Spec == Init /\ [][Next]_vars

-----------------------------------------------------------------------------
(* Properties *)

\* The longest that a frame of q is kept.
Longest(q) == Max({Timeout[c] : c \in {x \in Charts : q \in Parts(x)}})

Part == [read : Nat \cup {None}, version : Versions, defs : Versions]
AnswerOf(c) ==
  [parts : [Parts(c) -> Part], cached : BOOLEAN, dttm : Nat \cup {None}, error : BOOLEAN]

\* Every variable keeps to its range; the frame of a key was computed with the
\* version in the key, and a request is not older than the web server lets it be.
TypeOK ==
  /\ changedOn \in Versions /\ definitions \in Versions
  /\ edited \in Nat \cup {None}
  /\ \A k \in Keys :
       \/ frames[k] = NoFrame
       \/ /\ frames[k].left \in 1..Longest(k[1]) /\ frames[k].dttm \in Nat
          /\ frames[k].part \in Part /\ frames[k].part.version = k[2]
  /\ \A c \in Charts :
       responses[c].answer \in AnswerOf(c) /\ responses[c].left \in 0..ResponseTimeout
  /\ \A r \in Requests :
       reqs[r] # Idle =>
         /\ IsSuffix(reqs[r].rest, Queries[reqs[r].chart])
         /\ reqs[r].answer \in AnswerOf(reqs[r].chart)
         /\ reqs[r].started \in 0..MaxDelay

Answered == {r \in Requests : reqs[r].at = "answered"}
Got(r) == {q \in DOMAIN reqs[r].answer.parts : reqs[r].answer.parts[q].read # None}
Age(r, q) == reqs[r].answer.parts[q].read

\* The label of a chart is right: what is not labelled as cached was read for this
\* very request, and of a chart with a single query the label claims no more than
\* is true: "Cached 2 minutes ago" was read 2 minutes ago or later.
LabelIsRight ==
  \A r \in Answered : reqs[r].method = "POST" =>
    IF reqs[r].answer.cached
    THEN Len(Queries[reqs[r].chart]) = 1 => \A q \in Got(r) : Age(r, q) <= reqs[r].answer.dttm
    ELSE \A q \in Got(r) : Age(r, q) <= reqs[r].started

\* How old can what is shown be? As old as the longest timeout among the charts
\* that make the query, and two requests more: the one that filled the cache and
\* the one that found the entry; a GET adds the life of a response.
AgeBounded ==
  \A r \in Answered : \A q \in Got(r) :
    Age(r, q) < Longest(q) + 2 * MaxDelay + (IF reqs[r].method = "GET" THEN ResponseTimeout ELSE 0)

\* An edit of the data source's own row shows in the next POST, whatever the caches
\* hold and whoever is still at work with the old version. An edit of a metric or a
\* column alone leaves the key as it was: what was made with the old ones goes on
\* being shown, but no longer than the same entry could have been.
EditsShow ==
  \A r \in Answered : \A q \in Got(r) :
    LET part == reqs[r].answer.parts[q] IN
    /\ reqs[r].method = "POST" => part.version >= reqs[r].version
    /\ part.defs # definitions =>
         /\ edited # None
         /\ edited < Longest(q) + 2 * MaxDelay
                      + (IF reqs[r].method = "GET" THEN ResponseTimeout ELSE 0)

-----------------------------------------------------------------------------
(* What the program says, and does not do *)

\* "Duration (in seconds) of the caching timeout for this chart": what a chart
\* shows was read within it, but for the two requests it may take.
TimeoutOfThisChart ==
  \A r \in Answered : \A q \in Got(r) : Age(r, q) < Timeout[reqs[r].chart] + 2 * MaxDelay

\* The extra queries run first "so that the overall caching metadata can be right":
\* no part is older than the label of the chart says.
OverallLabelIsRight ==
  \A r \in Answered : reqs[r].answer.cached => \A q \in Got(r) : Age(r, q) <= reqs[r].answer.dttm

\* An answer without an error has the data of every query.
AnswerIsWhole ==
  \A r \in Answered : ~reqs[r].answer.error => Got(r) = Parts(reqs[r].chart)

=============================================================================
