---------------------------- MODULE SqlLabUIProofs ----------------------------
(***************************************************************************)
(* Theorems about SqlLabUI, for any set of queries and of polls: the type  *)
(* invariant and, from what is still true of an answer when it arrives     *)
(* late, that a success on the page is backed by the server. That the next *)
(* poll is told of a query that has ended is a matter of stamps: it is     *)
(* proved for one query whose polls overlap in any number, and for any     *)
(* number of queries with one poll at a time; with both it is false.       *)
(***************************************************************************)
EXTENDS SqlLabUI, FiniteSetTheorems, WellFoundedInduction, TLAPS

Waiting == {"pending", "running"}

\* A row in an answer, taken not later than now.
Row(now) == {NoRow} \cup [state : Waiting \cup Ended, key : BOOLEAN, at : 0..now]

Poll(now) ==
  {Idle} \cup [at : {"sent"}, since : 0..now]
         \cup [at : {"answered"}, rows : [Queries -> Row(now)]]

\* The clock, the rows and their stamps: a row has a status, and a stop request has a row.
ServerKept ==
  /\ phase \in [Queries -> {"absent", "open", "over"}]
  /\ shown \in [Queries -> {"absent"} \cup Waiting \cup Ended]
  /\ key \in [Queries -> BOOLEAN]
  /\ stopping \in [Queries -> BOOLEAN]
  /\ succeeded \in [Queries -> BOOLEAN]
  /\ clock \in 0..MaxClock
  /\ changedOn \in [Queries -> 0..clock]
  /\ \A q \in Queries : /\ shown[q] = "absent" <=> phase[q] = "absent"
                        /\ shown[q] = "success" => succeeded[q]
                        /\ stopping[q] => phase[q] # "absent"

\* The store: a query that the page has not run has no row.
StoreKept ==
  /\ ui \in [Queries -> {"none"} \cup Followed \cup Ended]
  /\ uiKey \in [Queries -> BOOLEAN]
  /\ lastUpdate \in 0..clock
  /\ \A q \in Queries : ui[q] = "none" => post[q] = "none"
  /\ \A q \in Queries : post[q] = "none" => phase[q] = "absent"

\* The requests.
RequestsKept ==
  /\ polls \in [Polls -> Poll(clock)]
  /\ async \in [Queries -> BOOLEAN]
  /\ post \in [Queries -> {"none", "sent", "done"}]
  /\ stop \in [Queries -> {"none", "sent", "reading", "written", "refused", "done"}]
  /\ fetches \in [Queries -> SUBSET (Waiting \cup Ended)]
  /\ lost \in 0..MaxLost

\* What an answer said of a row is out of date, but three things stay true: there is
\* a row, it was a success if it said so, and it names results if it did.
StillTrue(row, q) ==
  row # NoRow => /\ phase[q] # "absent"
                 /\ row.state = "success" => succeeded[q]
                 /\ row.key => key[q]

AnswersKept ==
  \A p \in Polls : polls[p].at = "answered" =>
    \A q \in Queries : StillTrue(polls[p].rows[q], q)

\* Rows are only fetched for a key, and a key stays.
FetchesKept == \A q \in Queries : fetches[q] # {} => key[q]

IInv ==
  /\ ServerKept /\ StoreKept /\ RequestsKept
  /\ AnswersKept /\ FetchesKept /\ SuccessIsBacked

-----------------------------------------------------------------------------
(* Greatest elements and stamps *)

\* Max gives the greatest element of a finite set of integers.
LEMMA MaxOfFiniteSet ==
  ASSUME NEW T \in SUBSET Int, IsFiniteSet(T), T # {}
  PROVE  Max(T) \in T /\ \A t \in T : t <= Max(T)
<1> DEFINE Above(m) == {t \in T : m < t}
           C == {Above(m) : m \in T}
<1>1. C \subseteq FiniteSubsetsOf(T) /\ C # {}
  <2>1. \A m \in T : Above(m) \subseteq T OBVIOUS
  <2>2. \A m \in T : IsFiniteSet(Above(m))
    <3> HIDE DEF Above
    <3> QED BY <2>1, FS_Subset
  <2> HIDE DEF Above
  <2> QED BY <2>1, <2>2 DEF FiniteSubsetsOf
<1>2. PICK X \in C : \A Y \in C : ~ (<<Y, X>> \in StrictSubsetOrdering(T))
  <2> HIDE DEF C
  <2> QED BY <1>1, WFMin, FS_StrictSubsetOrderingWellFounded
<1>3. PICK m \in T : X = Above(m) OBVIOUS
<1>4. ASSUME NEW t \in T, m < t PROVE FALSE
  <2> HIDE DEF C
  <2>1. t \in Int /\ m \in Int /\ \A x \in T : x \in Int OBVIOUS
  <2>2. Above(t) \subseteq Above(m) /\ t \in Above(m) /\ t \notin Above(t)
    <3>1. \A x \in T : t < x => m < x BY <1>4, <2>1
    <3>2. ~ (t < t) BY <2>1
    <3> QED BY <1>4, <3>1, <3>2, Zenon
  <2>3. Above(t) \in C /\ Above(t) \in SUBSET T /\ Above(m) \in SUBSET T BY DEF C
  <2> HIDE DEF Above
  <2>4. <<Above(t), Above(m)>> \in StrictSubsetOrdering(T)
    BY <2>2, <2>3 DEF StrictSubsetOrdering
  <2> QED BY <1>2, <1>3, <2>3, <2>4
<1>5. \A t \in T : m >= t BY <1>4
<1> QED BY <1>5 DEF Max

\* A stamp is at most Lag behind the clock.
LEMMA StampIsRecent ==
  ASSUME NEW q \in Queries, Stamp(q), ServerKept
  PROVE  /\ changedOn' \in [Queries -> 0..clock]
         /\ clock <= changedOn'[q] + Lag
         /\ \A p \in Queries \ {q} : changedOn'[p] = changedOn[p]
<1>1. PICK t \in (IF clock < Lag THEN 0 ELSE clock - Lag)..clock :
        changedOn' = [changedOn EXCEPT ![q] = t]
  BY DEF Stamp
<1>2. clock \in Nat /\ Lag \in Nat BY UIAssumption DEF ServerKept
<1>3. t \in 0..clock /\ clock <= t + Lag BY <1>2
<1> QED BY <1>1, <1>3 DEF ServerKept

\* lastUpdate goes up to the latest stamp of the rows that are taken.
LEMMA LatestStamp ==
  ASSUME NEW rows \in [Queries -> Row(clock)], IInv
  PROVE  LET new == Max({lastUpdate} \cup {rows[q].at : q \in Taken(rows)})
         IN /\ new \in 0..clock /\ lastUpdate <= new
            /\ \/ new = lastUpdate
               \/ \E q \in Taken(rows) : new = rows[q].at
<1> DEFINE T == {lastUpdate} \cup {rows[q].at : q \in Taken(rows)}
<1>1. clock \in Nat /\ lastUpdate \in 0..clock BY UIAssumption DEF IInv, StoreKept, ServerKept
<1>2. \A q \in Taken(rows) : rows[q].at \in 0..clock BY DEF Taken, Row
<1>3. T \subseteq 0..clock /\ lastUpdate \in T BY <1>1, <1>2
<1>4. \A t \in T : t = lastUpdate \/ \E q \in Taken(rows) : t = rows[q].at OBVIOUS
<1> HIDE DEF T
<1>5. IsFiniteSet(T)
  <2>1. IsFiniteSet(0..clock) BY <1>1, FS_Interval
  <2> QED BY <1>3, <2>1, FS_Subset
<1>6. Max(T) \in T /\ lastUpdate <= Max(T) BY <1>1, <1>3, <1>5, MaxOfFiniteSet
<1> QED BY <1>3, <1>4, <1>6 DEF T

\* Time makes no answer untrue.
LEMMA PollsAge ==
  ASSUME NEW now \in Nat, NEW p \in Poll(now)
  PROVE  p \in Poll(now + 1)
<1>1. Row(now) \subseteq Row(now + 1) BY DEF Row
<1> QED BY <1>1 DEF Poll

-----------------------------------------------------------------------------
(* The invariant is kept *)

\* A server step of one query; the page has sent it.
ServerStep(q) == Write(q) \/ Finish(q) \/ ServeStop(q) \/ ServeStopWrite(q)

\* What a server step of a query does to the rows: only the query's own row changes, a
\* row does not go away or get back to having none, a key and a success that was there stay.
RowsGrow(q) ==
  /\ \A p \in Queries \ {q} :
       /\ phase'[p] = phase[p] /\ shown'[p] = shown[p] /\ key'[p] = key[p]
       /\ succeeded'[p] = succeeded[p]
  /\ phase[q] # "absent" => phase'[q] # "absent"
  /\ key[q] => key'[q]
  /\ succeeded[q] => succeeded'[q]

LEMMA WriteGrows ==
  ASSUME IInv, NEW q \in Queries, Write(q)
  PROVE  ServerKept' /\ RowsGrow(q)
<1> USE DEF IInv, ServerKept, Waiting, Ended
<1>1. changedOn' \in [Queries -> 0..clock] BY StampIsRecent DEF Write
<1>2. clock' = clock BY DEF Write
<1>3. succeeded' = [succeeded EXCEPT ![q] = @ \/ shown'[q] = "success"] BY DEF Write
<1>4. CASE Server!Create(q)
  BY <1>1, <1>2, <1>3, <1>4 DEF Server!Create, RowsGrow
<1>5. CASE Server!Run(q)
  BY <1>1, <1>2, <1>3, <1>5 DEF Server!Run, Server!Answered, RowsGrow
<1>6. CASE Server!Succeed(q)
  <2>1. PICK k \in {key[q], TRUE} : key' = [key EXCEPT ![q] = k] BY <1>6 DEF Server!Succeed
  <2>2. key' \in [Queries -> BOOLEAN] /\ (key[q] => key'[q])
        /\ \A p \in Queries \ {q} : key'[p] = key[p]
    BY <2>1
  <2>3. /\ phase[q] = "open" /\ shown' = [shown EXCEPT ![q] = "success"]
        /\ phase' = phase /\ stopping' = stopping
    BY <1>6 DEF Server!Succeed
  <2>4. ServerKept' BY <1>1, <1>2, <1>3, <2>2, <2>3
  <2>5. RowsGrow(q) BY <1>3, <2>2, <2>3 DEF RowsGrow
  <2> QED BY <2>4, <2>5
<1>7. CASE Server!Fail(q)
  <2>1. PICK k \in {key[q], TRUE} : key' = [key EXCEPT ![q] = k] BY <1>7 DEF Server!Fail
  <2>2. key' \in [Queries -> BOOLEAN] /\ (key[q] => key'[q])
        /\ \A p \in Queries \ {q} : key'[p] = key[p]
    BY <2>1
  <2>3. /\ phase' = [phase EXCEPT ![q] = "over"] /\ shown' = [shown EXCEPT ![q] = "failed"]
        /\ stopping' = stopping
    BY <1>7 DEF Server!Fail
  <2>4. ServerKept' BY <1>1, <1>2, <1>3, <2>2, <2>3
  <2>5. RowsGrow(q) BY <1>3, <2>2, <2>3 DEF RowsGrow
  <2> QED BY <2>4, <2>5
<1> QED BY <1>4, <1>5, <1>6, <1>7 DEF Write

LEMMA ServerGrows ==
  ASSUME IInv, NEW q \in Queries, ServerStep(q)
  PROVE  ServerKept' /\ RowsGrow(q)
<1> USE DEF IInv, ServerKept, Waiting, Ended
<1>1. CASE Write(q) BY <1>1, WriteGrows
<1>2. CASE Finish(q) BY <1>2 DEF Finish, Server!Close, RowsGrow
<1>3. CASE ServeStop(q)
  BY <1>3 DEF ServeStop, Server!RequestStop, serverVars, RowsGrow
<1>4. CASE ServeStopWrite(q)
  <2>1. clock' = clock /\ succeeded' = succeeded BY <1>4 DEF ServeStopWrite
  <2>2. changedOn' \in [Queries -> 0..clock] BY <1>4, StampIsRecent DEF ServeStopWrite
  <2>3. /\ stopping[q] /\ stopping' = [stopping EXCEPT ![q] = FALSE]
        /\ \E s \in {shown[q], "stopped"} : shown' = [shown EXCEPT ![q] = s]
        /\ UNCHANGED <<phase, key>>
    BY <1>4 DEF ServeStopWrite, Server!Stop
  <2> QED BY <2>1, <2>2, <2>3 DEF RowsGrow
<1> QED BY <1>1, <1>2, <1>3, <1>4 DEF ServerStep

LEMMA ServerKeeps ==
  ASSUME IInv, NEW q \in Queries, ServerStep(q)
  PROVE  IInv'
<1>1. ServerKept' /\ RowsGrow(q) BY ServerGrows
<1>2. /\ clock' = clock /\ ui' = ui /\ uiKey' = uiKey /\ lastUpdate' = lastUpdate
      /\ polls' = polls /\ async' = async /\ post' = post /\ fetches' = fetches
      /\ lost' = lost
  BY DEF ServerStep, Write, Finish, ServeStop, ServeStopWrite, storeVars, requestVars, serverVars
<1>3. stop' \in [Queries -> {"none", "sent", "reading", "written", "refused", "done"}]
  BY DEF IInv, RequestsKept, ServerStep, Write, Finish, ServeStop, ServeStopWrite, requestVars
<1>4. RequestsKept' BY <1>2, <1>3 DEF IInv, RequestsKept
<1>5. StoreKept'
  <2>1. \A p \in Queries : phase[p] = "absent" /\ post[p] = "none" => phase'[p] = "absent"
    <3>1. phase[q] = "absent" => phase'[q] = "absent" \/ post[q] # "none"
      BY DEF ServerStep, Write, Finish, ServeStop, ServeStopWrite, serverVars,
             Server!Close, Server!RequestStop, Server!Stop
    <3> QED BY <1>1, <3>1 DEF RowsGrow
  <2> QED BY <1>2, <2>1 DEF IInv, StoreKept
<1>6. AnswersKept'
  <2> SUFFICES ASSUME NEW p \in Polls, polls[p].at = "answered", NEW s \in Queries
               PROVE  StillTrue(polls[p].rows[s], s)'
    BY <1>2 DEF AnswersKept
  <2>1. polls[p].rows[s] \in Row(clock) BY DEF IInv, RequestsKept, Poll, Idle
  <2>2. StillTrue(polls[p].rows[s], s) BY DEF IInv, AnswersKept
  <2>3. polls'[p].rows[s] = polls[p].rows[s] BY <1>2
  <2> QED BY <1>1, <2>1, <2>2, <2>3 DEF RowsGrow, StillTrue
<1>7. FetchesKept' BY <1>1, <1>2 DEF IInv, FetchesKept, RowsGrow
<1>8. SuccessIsBacked' BY <1>1, <1>2 DEF IInv, SuccessIsBacked, RowsGrow
<1> QED BY <1>1, <1>4, <1>5, <1>6, <1>7, <1>8 DEF IInv

LEMMA TickKeeps ==
  ASSUME IInv, Tick
  PROVE  IInv'
<1>1. clock \in Nat /\ clock' = clock + 1 /\ clock' \in 0..MaxClock
  BY UIAssumption DEF IInv, ServerKept, Tick
<1>2. UNCHANGED <<phase, shown, key, stopping, changedOn, ui, uiKey, lastUpdate, polls, async,
                  post, stop, fetches, lost, succeeded>>
  BY DEF Tick, storeVars, requestVars
<1>3. 0..clock \subseteq 0..clock' BY <1>1
<1>4. ServerKept' BY <1>1, <1>2, <1>3 DEF IInv, ServerKept
<1>5. StoreKept' BY <1>2, <1>3 DEF IInv, StoreKept
<1>6. RequestsKept'
  <2>1. polls' \in [Polls -> Poll(clock')] BY <1>1, <1>2, PollsAge DEF IInv, RequestsKept
  <2> QED BY <1>2, <2>1 DEF IInv, RequestsKept
<1> QED BY <1>2, <1>4, <1>5, <1>6
        DEF IInv, AnswersKept, StillTrue, FetchesKept, SuccessIsBacked

\* A callback or request of the page that has to do with one query, or a poll that is sent
\* or lost, leaves the rows alone.
PageStep(q) ==
  \/ RunQuery(q) \/ PostSucceeds(q) \/ PostFails(q) \/ PostIsDropped(q)
  \/ StopQuery(q) \/ StopIsAnswered(q) \/ FetchSucceeds(q) \/ FetchFails(q)

\* What such a step does to the store and the requests: a query is started once, and
\* shown as a success only for rows that were there.
Shows(q) ==
  /\ \A p \in Queries \ {q} : ui'[p] = ui[p] /\ post'[p] = post[p] /\ fetches'[p] = fetches[p]
  /\ ui' \in [Queries -> {"none"} \cup Followed \cup Ended]
  /\ ui'[q] = "none" => ui[q] = "none" /\ post'[q] = post[q]
  /\ post' \in [Queries -> {"none", "sent", "done"}]
  /\ post'[q] = "none" => post[q] = "none"
  /\ fetches' \in [Queries -> SUBSET (Waiting \cup Ended)]
  /\ fetches'[q] \subseteq fetches[q]
  /\ ui'[q] = "success" => ui[q] = "success" \/ succeeded[q] \/ fetches[q] # {}
  /\ async' \in [Queries -> BOOLEAN]
  /\ stop' \in [Queries -> {"none", "sent", "reading", "written", "refused", "done"}]
  /\ lost' \in 0..MaxLost

LEMMA PageShows ==
  ASSUME IInv, NEW q \in Queries, PageStep(q)
  PROVE  Shows(q)
<1> USE UIAssumption DEF IInv, StoreKept, RequestsKept, Shows, Followed, Waiting, Ended
<1>1. CASE RunQuery(q)
  <2>1. PICK mode \in Modes : async' = [async EXCEPT ![q] = mode] BY <1>1 DEF RunQuery
  <2>2. FirstState(q)' \in {"pending", "running"} BY DEF FirstState
  <2>3. UNCHANGED <<stop, fetches, lost>> BY <1>1 DEF RunQuery
  <2>4. /\ ui[q] = "none" /\ ui' = [ui EXCEPT ![q] = FirstState(q)']
        /\ post' = [post EXCEPT ![q] = "sent"]
    BY <1>1 DEF RunQuery
  <2> HIDE DEF FirstState
  <2> QED BY <2>1, <2>2, <2>3, <2>4
<1>2. CASE PostSucceeds(q) BY <1>2 DEF PostSucceeds, AnsweredWithRows
<1>3. CASE PostFails(q)
  <2>1. lost' \in 0..MaxLost BY <1>3 DEF PostFails, Lose
  <2>2. UNCHANGED <<async, stop, fetches>> BY <1>3 DEF PostFails
  <2>3. post[q] = "sent" /\ post' = [post EXCEPT ![q] = "done"] BY <1>3 DEF PostFails
  <2>4. ui' = ui \/ ui' = [ui EXCEPT ![q] = "failed"] BY <1>3 DEF PostFails, Failed
  <2> QED BY <2>1, <2>2, <2>3, <2>4
<1>4. CASE PostIsDropped(q) BY <1>4 DEF PostIsDropped, Lose, storeVars
<1>5. CASE StopQuery(q) BY <1>5 DEF StopQuery, storeVars
<1>6. CASE StopIsAnswered(q) BY <1>6 DEF StopIsAnswered
<1>7. CASE FetchSucceeds(q) BY <1>7 DEF FetchSucceeds
<1>8. CASE FetchFails(q)
  <2>1. PICK held \in fetches[q] : /\ fetches' = [fetches EXCEPT ![q] = @ \ {held}]
                                   /\ Failed(q, held)
    BY <1>8 DEF FetchFails
  <2>2. ui' = ui \/ ui' = [ui EXCEPT ![q] = "failed"] BY <2>1 DEF Failed
  <2>3. UNCHANGED <<async, post, stop, lost>> BY <1>8 DEF FetchFails
  <2> QED BY <2>1, <2>2, <2>3
<1> QED BY <1>1, <1>2, <1>3, <1>4, <1>5, <1>6, <1>7, <1>8 DEF PageStep

LEMMA PageLeaves ==
  ASSUME NEW q \in Queries, PageStep(q)
  PROVE  UNCHANGED <<phase, shown, key, stopping, clock, changedOn, succeeded, lastUpdate, uiKey,
                     polls>>
BY DEF PageStep, RunQuery, PostSucceeds, PostFails, PostIsDropped, StopQuery, StopIsAnswered,
       FetchSucceeds, FetchFails, serverVars, storeVars

LEMMA PageKeeps ==
  ASSUME IInv, NEW q \in Queries, PageStep(q)
  PROVE  IInv'
<1>1. Shows(q) BY PageShows
<1>2. UNCHANGED <<phase, shown, key, stopping, clock, changedOn, succeeded, lastUpdate, uiKey,
                  polls>>
  BY PageLeaves
<1>3. ServerKept' BY <1>2 DEF IInv, ServerKept
<1>4. StoreKept' BY <1>1, <1>2 DEF IInv, StoreKept, Shows
<1>5. RequestsKept' BY <1>1, <1>2 DEF IInv, RequestsKept, Shows
<1>6. AnswersKept' BY <1>2 DEF IInv, AnswersKept, StillTrue
<1>7. FetchesKept' BY <1>1, <1>2 DEF IInv, FetchesKept, Shows
<1>8. SuccessIsBacked' BY <1>1, <1>2 DEF IInv, SuccessIsBacked, FetchesKept, Shows
<1> QED BY <1>3, <1>4, <1>5, <1>6, <1>7, <1>8 DEF IInv

\* A row that is read is true at that moment.
LEMMA RowsAreTrue ==
  ASSUME IInv, NEW since
  PROVE  /\ RowsChangedSince(since) \in [Queries -> Row(clock)]
         /\ \A q \in Queries : StillTrue(RowsChangedSince(since)[q], q)
<1> SUFFICES ASSUME NEW q \in Queries
             PROVE  LET row == RowsChangedSince(since)[q]
                    IN row \in Row(clock) /\ StillTrue(row, q)
  BY DEF RowsChangedSince
<1> DEFINE row == RowsChangedSince(since)[q]
           now == [state |-> shown[q], key |-> key[q], at |-> changedOn[q]]
<1>1. row = NoRow \/ (phase[q] # "absent" /\ row = now) BY DEF RowsChangedSince
<1>2. CASE row = NoRow BY <1>2 DEF Row, StillTrue
<1>3. CASE phase[q] # "absent" /\ row = now
  <2>1. shown[q] \in Waiting \cup Ended /\ key[q] \in BOOLEAN /\ changedOn[q] \in 0..clock
    BY <1>3 DEF IInv, ServerKept
  <2>2. now \in Row(clock) BY <2>1 DEF Row
  <2>3. shown[q] = "success" => succeeded[q] BY DEF IInv, ServerKept
  <2> QED BY <1>3, <2>2, <2>3 DEF StillTrue
<1> QED BY <1>1, <1>2, <1>3

\* Answers and requests for one are the polls that are not idle.
LEMMA PollsKeep ==
  ASSUME IInv, NEW p \in Polls, NEW poll \in Poll(clock), polls' = [polls EXCEPT ![p] = poll],
         poll.at = "answered" => \A q \in Queries : StillTrue(poll.rows[q], q),
         UNCHANGED <<phase, shown, key, stopping, clock, changedOn, succeeded, ui, uiKey,
                     lastUpdate, async, post, stop, fetches>>,
         lost' \in 0..MaxLost
  PROVE  IInv'
<1>1. ServerKept' BY DEF IInv, ServerKept
<1>2. StoreKept' BY DEF IInv, StoreKept
<1>3. RequestsKept' BY DEF IInv, RequestsKept
<1>4. AnswersKept' BY DEF IInv, AnswersKept, RequestsKept, StillTrue
<1>5. FetchesKept' /\ SuccessIsBacked' BY DEF IInv, FetchesKept, SuccessIsBacked
<1> QED BY <1>1, <1>2, <1>3, <1>4, <1>5 DEF IInv

LEMMA ServePollKeeps ==
  ASSUME IInv, NEW p \in Polls, ServePoll(p)
  PROVE  IInv'
<1> DEFINE rows == RowsChangedSince(polls[p].since)
           poll == [at |-> "answered", rows |-> rows]
<1>1. polls' = [polls EXCEPT ![p] = poll] BY DEF ServePoll
<1>2. rows \in [Queries -> Row(clock)] /\ \A q \in Queries : StillTrue(rows[q], q)
  BY RowsAreTrue
<1> HIDE DEF rows
<1>3. poll \in Poll(clock) BY <1>2 DEF Poll
<1>4. /\ UNCHANGED <<phase, shown, key, stopping, clock, changedOn, succeeded, ui, uiKey,
                     lastUpdate, async, post, stop, fetches>>
      /\ lost' \in 0..MaxLost
  BY DEF ServePoll, serverVars, storeVars, IInv, RequestsKept
<1> QED BY <1>1, <1>2, <1>3, <1>4, PollsKeep

LEMMA SendPollKeeps ==
  ASSUME IInv, NEW p \in Polls, SendPoll(p)
  PROVE  IInv'
<1> DEFINE poll == [at |-> "sent", since |-> Since]
<1>1. polls' = [polls EXCEPT ![p] = poll] BY DEF SendPoll
<1>2. Since \in 0..clock BY UIAssumption DEF IInv, StoreKept, ServerKept, Since
<1>3. poll \in Poll(clock) BY <1>2 DEF Poll
<1>4. /\ UNCHANGED <<phase, shown, key, stopping, clock, changedOn, succeeded, ui, uiKey,
                     lastUpdate, async, post, stop, fetches>>
      /\ lost' \in 0..MaxLost
  BY DEF SendPoll, serverVars, storeVars, IInv, RequestsKept
<1> QED BY <1>1, <1>3, <1>4, PollsKeep

LEMMA LosePollKeeps ==
  ASSUME IInv, NEW p \in Polls, LosePoll(p)
  PROVE  IInv'
<1>1. polls' = [polls EXCEPT ![p] = Idle] /\ Idle \in Poll(clock) /\ Idle.at # "answered"
  BY DEF LosePoll, Idle, Poll
<1>2. /\ UNCHANGED <<phase, shown, key, stopping, clock, changedOn, succeeded, ui, uiKey,
                     lastUpdate, async, post, stop, fetches>>
      /\ lost' \in 0..MaxLost
  BY UIAssumption DEF LosePoll, Lose, serverVars, storeVars, IInv, RequestsKept
<1> QED BY <1>1, <1>2, PollsKeep

\* The store takes rows that are out of date, but what is shown as a success was one.
LEMMA ReceivePollKeeps ==
  ASSUME IInv, NEW p \in Polls, ReceivePoll(p)
  PROVE  IInv'
<1> DEFINE rows == polls[p].rows
           new == {q \in Taken(rows) : rows[q].key /\ ~uiKey[q]}
<1>1. rows \in [Queries -> Row(clock)] /\ \A q \in Queries : StillTrue(rows[q], q)
  <2>1. polls[p].at = "answered" BY DEF ReceivePoll
  <2> QED BY <2>1 DEF IInv, RequestsKept, AnswersKept, Poll, Idle
<1>2. /\ ui' = [q \in Queries |-> IF q \in new THEN "fetching"
                                  ELSE IF q \in Taken(rows) THEN rows[q].state ELSE ui[q]]
      /\ uiKey' = [q \in Queries |-> IF q \in Taken(rows) THEN rows[q].key ELSE uiKey[q]]
      /\ lastUpdate' = Max({lastUpdate} \cup {rows[q].at : q \in Taken(rows)})
      /\ fetches' = [q \in Queries |-> IF q \in new THEN fetches[q] \cup {rows[q].state}
                                       ELSE fetches[q]]
      /\ polls' = [polls EXCEPT ![p] = Idle]
  BY DEF ReceivePoll
<1>3. UNCHANGED <<phase, shown, key, stopping, clock, changedOn, succeeded, async, post, stop,
                  lost>>
  BY DEF ReceivePoll, serverVars
<1>4. lastUpdate' \in 0..clock BY <1>1, <1>2, LatestStamp
<1> HIDE DEF rows
<1>5. \A q \in Taken(rows) : /\ q \in Queries /\ rows[q] # NoRow
                             /\ rows[q].state \in Waiting \cup Ended /\ rows[q].key \in BOOLEAN
  BY <1>1 DEF Taken, Row
<1>6. \A q \in new : q \in Taken(rows) /\ rows[q].key OBVIOUS
<1> HIDE DEF new
<1>7. ServerKept' BY <1>3 DEF IInv, ServerKept
<1>8. StoreKept'
  <2>1. ui' \in [Queries -> {"none"} \cup Followed \cup Ended]
    BY <1>2, <1>5, <1>6 DEF IInv, StoreKept, Followed, Waiting
  <2>2. uiKey' \in [Queries -> BOOLEAN] BY <1>2, <1>5 DEF IInv, StoreKept
  <2>3. \A q \in Queries : ui'[q] = "none" => ui[q] = "none"
    BY <1>2, <1>5, <1>6 DEF Waiting, Ended
  <2> QED BY <1>3, <1>4, <2>1, <2>2, <2>3 DEF IInv, StoreKept
<1>9. RequestsKept'
  <2>1. fetches' \in [Queries -> SUBSET (Waiting \cup Ended)]
    BY <1>2, <1>5, <1>6 DEF IInv, RequestsKept
  <2>2. polls' \in [Polls -> Poll(clock)] BY <1>2 DEF IInv, RequestsKept, Poll
  <2> QED BY <1>3, <2>1, <2>2 DEF IInv, RequestsKept
<1>10. AnswersKept' BY <1>2, <1>3 DEF IInv, RequestsKept, AnswersKept, StillTrue, Idle
<1>11. FetchesKept'
  BY <1>1, <1>2, <1>3, <1>5, <1>6 DEF IInv, FetchesKept, StillTrue
<1>12. SuccessIsBacked'
  BY <1>1, <1>2, <1>3, <1>5, <1>6 DEF IInv, SuccessIsBacked, StillTrue
<1> QED BY <1>7, <1>8, <1>9, <1>10, <1>11, <1>12 DEF IInv

LEMMA StepKeeps ==
  ASSUME IInv, [Next]_vars
  PROVE  IInv'
<1>1. CASE Tick BY <1>1, TickKeeps
<1>2. ASSUME NEW q \in Queries, ServerStep(q) PROVE IInv' BY <1>2, ServerKeeps
<1>3. ASSUME NEW q \in Queries, PageStep(q) PROVE IInv' BY <1>3, PageKeeps
<1>4. ASSUME NEW p \in Polls, ServePoll(p) PROVE IInv' BY <1>4, ServePollKeeps
<1>5. ASSUME NEW p \in Polls, SendPoll(p) PROVE IInv' BY <1>5, SendPollKeeps
<1>6. ASSUME NEW p \in Polls, ReceivePoll(p) PROVE IInv' BY <1>6, ReceivePollKeeps
<1>7. ASSUME NEW p \in Polls, LosePoll(p) PROVE IInv' BY <1>7, LosePollKeeps
<1>8. CASE UNCHANGED vars
  <2>1. UNCHANGED <<phase, shown, key, stopping, clock, changedOn, succeeded, ui, uiKey,
                    lastUpdate, polls, async, post, stop, fetches, lost>>
    BY <1>8 DEF vars, serverVars, storeVars, requestVars
  <2> QED BY <2>1 DEF IInv, ServerKept, StoreKept, RequestsKept, AnswersKept, StillTrue,
                      FetchesKept, SuccessIsBacked
<1> QED BY <1>1, <1>2, <1>3, <1>4, <1>5, <1>6, <1>7, <1>8 DEF Next, ServerStep, PageStep

LEMMA InitKeeps ==
  ASSUME Init
  PROVE  IInv
<1>1. ServerKept BY UIAssumption DEF Init, Server!Init, ServerKept
<1>2. StoreKept BY <1>1 DEF Init, Server!Init, StoreKept, ServerKept
<1>3. RequestsKept BY UIAssumption DEF Init, RequestsKept, Poll
<1> QED BY <1>1, <1>2, <1>3
        DEF Init, Idle, IInv, AnswersKept, FetchesKept, SuccessIsBacked

-----------------------------------------------------------------------------
(* Type correctness, and successes *)

\* The invariant holds whatever the queries, the polls and the delays are.
THEOREM Invariance == Spec => []IInv
<1>1. IInv /\ [Next]_vars => IInv' BY StepKeeps
<1> QED BY <1>1, InitKeeps, PTL DEF Spec

\* The store, the requests and the rows keep to their ranges: an answer that is late
\* brings nothing from the future.
THEOREM TypeCorrect == Spec => []TypeOK
<1>1. IInv => TypeOK
  <2> SUFFICES ASSUME IInv PROVE TypeOK OBVIOUS
  <2>1. \A p \in Polls :
          \/ polls[p] = Idle
          \/ polls[p].at = "sent" /\ polls[p].since \in 0..clock
          \/ polls[p].at = "answered" /\ DOMAIN polls[p].rows = Queries
    BY DEF IInv, RequestsKept, Poll
  <2> QED BY <2>1 DEF IInv, ServerKept, StoreKept, RequestsKept, Waiting, TypeOK
<1> QED BY <1>1, Invariance, PTL

\* The page calls a query a success only if it was one or if there are results to show,
\* with any number of polls and fetches under way and in any order of their answers.
THEOREM Backed == Spec => []SuccessIsBacked
<1>1. IInv => SuccessIsBacked BY DEF IInv
<1> QED BY <1>1, Invariance, PTL

-----------------------------------------------------------------------------
(* The next poll is told *)

\* An answer has nothing of a query from long after its last write: a write takes its
\* stamp at most Lag before it is seen.
OwnStamps ==
  \A q \in Queries, p \in Polls :
    polls[p].at = "answered" /\ polls[p].rows[q] # NoRow
    => polls[p].rows[q].at <= changedOn[q] + Lag

\* With one query nor has the store.
OneQuery == \A q, r \in Queries : q = r
LastOfOne == \A q \in Queries : lastUpdate <= changedOn[q] + Lag

\* With several the store may be ahead of a query's last write, but not while it waits
\* for a query that has ended.
OnePoll == \A p, r \in Polls : p = r
Missing(q) == shown[q] \in Ended /\ ui[q] \in Waiting

StoreTells == \A q \in Queries : Missing(q) => lastUpdate <= changedOn[q] + Buffer

\* Nor does a poll on its way ask for less than it has to.
SentTells ==
  \A p \in Polls : polls[p].at = "sent" =>
    /\ polls[p].since = 0 \/ polls[p].since + Buffer <= clock
    /\ \A q \in Queries : Missing(q) => polls[p].since <= changedOn[q]

\* An answer either was read before the query's last write, or tells of it, or leaves out a
\* query that is not waited for.
Before(rows, q) ==
  /\ lastUpdate <= changedOn[q] + Buffer
  /\ \A r \in Queries : rows[r] # NoRow => rows[r].at <= changedOn[q] + Buffer
Tells(rows, q) == rows[q] # NoRow /\ rows[q].state \in Ended
NotAwaited(rows, q) == rows[q] = NoRow /\ ui[q] \notin Waiting

AnswerTells ==
  \A p \in Polls, q \in Queries :
    polls[p].at = "answered" /\ shown[q] \in Ended
    => \/ Before(polls[p].rows, q) \/ Tells(polls[p].rows, q) \/ NotAwaited(polls[p].rows, q)

TellInv == StoreTells /\ SentTells /\ AnswerTells

\* A row that is written gets a stamp that is not far behind the clock.
LEMMA WrittenIsStamped ==
  ASSUME IInv, NEW q \in Queries, ServerStep(q), NEW r \in Queries
  PROVE  \/ shown'[r] = shown[r] /\ changedOn'[r] = changedOn[r]
         \/ clock <= changedOn'[r] + Lag
<1>1. CASE Write(q)
  <2>1. ServerKept' /\ RowsGrow(q) BY <1>1, WriteGrows
  <2> QED BY <1>1, <2>1, StampIsRecent DEF Write, IInv, RowsGrow
<1>2. CASE Finish(q) BY <1>2 DEF Finish, Server!Close
<1>3. CASE ServeStop(q) BY <1>3 DEF ServeStop, Server!RequestStop, serverVars
<1>4. CASE ServeStopWrite(q)
  <2>1. RowsGrow(q) BY <1>4, ServerGrows DEF ServerStep
  <2> QED BY <1>4, <2>1, StampIsRecent DEF ServeStopWrite, IInv, RowsGrow
<1> QED BY <1>1, <1>2, <1>3, <1>4 DEF ServerStep

\* The server does nothing to the store and the polls while it writes.
LEMMA ServerLeaves ==
  ASSUME NEW q \in Queries, ServerStep(q)
  PROVE  UNCHANGED <<clock, ui, uiKey, lastUpdate, polls>>
BY DEF ServerStep, Write, Finish, ServeStop, ServeStopWrite, storeVars, requestVars, serverVars

LEMMA OwnStampsKept ==
  ASSUME IInv, OwnStamps, [Next]_vars
  PROVE  OwnStamps'
<1>1. ASSUME UNCHANGED <<changedOn, polls>> PROVE OwnStamps' BY <1>1 DEF OwnStamps
<1>2. CASE Tick
  <2>1. UNCHANGED <<changedOn, polls>> BY <1>2 DEF Tick, requestVars
  <2> QED BY <1>1, <2>1
<1>3. ASSUME NEW q \in Queries, ServerStep(q) PROVE OwnStamps'
  <2>1. polls' = polls BY <1>3, ServerLeaves
  <2> SUFFICES ASSUME NEW r \in Queries, NEW p \in Polls, polls[p].at = "answered",
                      polls[p].rows[r] # NoRow
               PROVE  polls[p].rows[r].at <= changedOn'[r] + Lag
    BY <2>1 DEF OwnStamps
  <2>2. polls[p].rows[r].at \in 0..clock BY DEF IInv, RequestsKept, Poll, Idle, Row
  <2>3. polls[p].rows[r].at <= changedOn[r] + Lag BY DEF OwnStamps
  <2>4. changedOn'[r] = changedOn[r] \/ clock <= changedOn'[r] + Lag
    BY <1>3, WrittenIsStamped
  <2>5. changedOn'[r] \in Nat /\ clock \in Nat /\ Lag \in Nat
    BY <1>3, ServerGrows, UIAssumption DEF IInv, ServerKept
  <2> QED BY <2>2, <2>3, <2>4, <2>5
<1>4. ASSUME NEW q \in Queries, PageStep(q) PROVE OwnStamps' BY <1>1, <1>4, PageLeaves
<1>5. ASSUME NEW p \in Polls, ServePoll(p) PROVE OwnStamps'
  <2>1. /\ polls' = [polls EXCEPT ![p] =
              [at |-> "answered", rows |-> RowsChangedSince(polls[p].since)]]
        /\ changedOn' = changedOn
    BY <1>5 DEF ServePoll, serverVars
  <2>2. \A q \in Queries : RowsChangedSince(polls[p].since)[q] # NoRow
                           => RowsChangedSince(polls[p].since)[q].at = changedOn[q]
    BY DEF RowsChangedSince
  <2>3. \A q \in Queries : changedOn[q] <= changedOn[q] + Lag
    BY UIAssumption DEF IInv, ServerKept
  <2>4. polls \in [Polls -> Poll(clock)] BY DEF IInv, RequestsKept
  <2> QED BY <2>1, <2>2, <2>3, <2>4 DEF OwnStamps
<1>6. ASSUME NEW p \in Polls, SendPoll(p) \/ ReceivePoll(p) \/ LosePoll(p) PROVE OwnStamps'
  <2>1. changedOn' = changedOn BY <1>6 DEF SendPoll, ReceivePoll, LosePoll, serverVars
  <2>2. \A r \in Polls : polls'[r].at = "answered" => polls'[r] = polls[r]
    BY <1>6 DEF SendPoll, ReceivePoll, LosePoll, Idle, IInv, RequestsKept
  <2> QED BY <2>1, <2>2 DEF OwnStamps
<1>7. CASE UNCHANGED vars
  BY <1>1, <1>7 DEF vars, serverVars, requestVars
<1> QED BY <1>2, <1>3, <1>4, <1>5, <1>6, <1>7 DEF Next, ServerStep, PageStep

\* One query: the last update is that of its own row.
LEMMA LastOfOneKept ==
  ASSUME IInv, OwnStamps, OneQuery, LastOfOne, [Next]_vars
  PROVE  LastOfOne'
<1>1. ASSUME UNCHANGED <<changedOn, lastUpdate>> PROVE LastOfOne' BY <1>1 DEF LastOfOne
<1>2. CASE Tick BY <1>1, <1>2 DEF Tick, storeVars
<1>3. ASSUME NEW q \in Queries, ServerStep(q) PROVE LastOfOne'
  <2> SUFFICES ASSUME NEW r \in Queries PROVE lastUpdate' <= changedOn'[r] + Lag
    BY DEF LastOfOne
  <2>1. lastUpdate' = lastUpdate /\ lastUpdate \in 0..clock
    BY <1>3, ServerLeaves DEF IInv, StoreKept
  <2>2. changedOn'[r] = changedOn[r] \/ clock <= changedOn'[r] + Lag
    BY <1>3, WrittenIsStamped
  <2>3. changedOn'[r] \in Nat /\ clock \in Nat /\ Lag \in Nat
    BY <1>3, ServerGrows, UIAssumption DEF IInv, ServerKept
  <2> QED BY <2>1, <2>2, <2>3 DEF LastOfOne
<1>4. ASSUME NEW q \in Queries, PageStep(q) PROVE LastOfOne' BY <1>1, <1>4, PageLeaves
<1>5. ASSUME NEW p \in Polls, ServePoll(p) \/ SendPoll(p) \/ LosePoll(p) PROVE LastOfOne'
  BY <1>1, <1>5 DEF ServePoll, SendPoll, LosePoll, serverVars, storeVars
<1>6. ASSUME NEW p \in Polls, ReceivePoll(p) PROVE LastOfOne'
  <2> DEFINE rows == polls[p].rows
  <2>1. /\ lastUpdate' = Max({lastUpdate} \cup {rows[q].at : q \in Taken(rows)})
        /\ changedOn' = changedOn
        /\ polls[p].at = "answered"
    BY <1>6 DEF ReceivePoll, serverVars
  <2>2. rows \in [Queries -> Row(clock)] BY <2>1 DEF IInv, RequestsKept, Poll, Idle
  <2>3. \A q \in Taken(rows) : q \in Queries /\ rows[q].at <= changedOn[q] + Lag
    BY <2>1 DEF OwnStamps, Taken
  <2>4. lastUpdate' = lastUpdate \/ \E q \in Taken(rows) : lastUpdate' = rows[q].at
    BY <2>1, <2>2, LatestStamp
  <2> HIDE DEF rows
  <2> QED BY <2>1, <2>3, <2>4 DEF LastOfOne, OneQuery
<1>7. CASE UNCHANGED vars
  BY <1>1, <1>7 DEF vars, serverVars, storeVars
<1> QED BY <1>2, <1>3, <1>4, <1>5, <1>6, <1>7 DEF Next, ServerStep, PageStep

\* Steps after which the store waits for nothing that it did not wait for, and which write
\* no row and answer no poll, keep what is told.
LEMMA QuietKeepsTelling ==
  ASSUME IInv, TellInv,
         UNCHANGED <<shown, changedOn, lastUpdate, polls>>, clock' \in Nat, clock <= clock',
         \A q \in Queries : ui'[q] \in Waiting => ui[q] \in Waiting \/ shown[q] \notin Ended
  PROVE  TellInv'
<1>1. \A q \in Queries : Missing(q)' => Missing(q) BY DEF Missing
<1>2. StoreTells' BY <1>1 DEF TellInv, StoreTells
<1>3. SentTells'
  <2> SUFFICES ASSUME NEW p \in Polls, polls[p].at = "sent"
               PROVE  /\ polls[p].since = 0 \/ polls[p].since + Buffer <= clock'
                      /\ \A q \in Queries : Missing(q)' => polls[p].since <= changedOn[q]
    BY DEF SentTells
  <2>1. polls[p].since \in Nat /\ clock \in Nat /\ Buffer \in Nat
    BY UIAssumption DEF IInv, RequestsKept, ServerKept, Poll, Idle
  <2> QED BY <1>1, <2>1 DEF TellInv, SentTells
<1>4. AnswerTells'
  <2> SUFFICES ASSUME NEW p \in Polls, NEW q \in Queries, polls[p].at = "answered",
                      shown[q] \in Ended
               PROVE  \/ Before(polls[p].rows, q)' \/ Tells(polls[p].rows, q)'
                      \/ NotAwaited(polls[p].rows, q)'
    BY DEF AnswerTells
  <2> QED BY DEF TellInv, AnswerTells, Before, Tells, NotAwaited
<1> QED BY <1>2, <1>3, <1>4 DEF TellInv

LEMMA PageKeepsTelling ==
  ASSUME IInv, TellInv, NEW q \in Queries, PageStep(q)
  PROVE  TellInv'
<1>1. UNCHANGED <<shown, changedOn, lastUpdate, polls, clock>> BY PageLeaves
<1>2. \A p \in Queries \ {q} : ui'[p] = ui[p] BY PageShows DEF Shows
<1>3. ui'[q] \in Waiting => ui[q] \in Waiting \/ shown[q] \notin Ended
  <2>1. CASE RunQuery(q)
    <3>1. ui[q] = "none" BY <2>1 DEF RunQuery
    <3> QED BY <3>1 DEF IInv, StoreKept, ServerKept, Ended
  <2>2. CASE ~ RunQuery(q)
    BY <2>2 DEF IInv, StoreKept, PageStep, PostSucceeds, PostFails, PostIsDropped, StopQuery,
                StopIsAnswered, FetchSucceeds, FetchFails, Failed, storeVars, Waiting
  <2> QED BY <2>1, <2>2
<1>4. clock \in Nat /\ clock <= clock BY UIAssumption DEF IInv, ServerKept
<1> QED BY <1>1, <1>2, <1>3, <1>4, QuietKeepsTelling

\* A write takes a stamp that is ahead of all that was read before.
LEMMA ServerKeepsTelling ==
  ASSUME IInv, TellInv, NEW q \in Queries, ServerStep(q)
  PROVE  TellInv'
<1>1. UNCHANGED <<clock, ui, lastUpdate, polls>> BY ServerLeaves
<1>2. /\ clock \in Nat /\ lastUpdate \in 0..clock /\ Lag \in Nat /\ Buffer \in Nat /\ Lag <= Buffer
      /\ \A r \in Queries : changedOn[r] \in 0..clock /\ changedOn'[r] \in 0..clock
  BY ServerGrows, <1>1, UIAssumption DEF IInv, ServerKept, StoreKept
<1>3. ASSUME NEW r \in Queries
      PROVE  \/ shown'[r] = shown[r] /\ changedOn'[r] = changedOn[r]
             \/ clock <= changedOn'[r] + Lag
  BY WrittenIsStamped
<1>4. StoreTells'
  <2> SUFFICES ASSUME NEW r \in Queries, Missing(r)'
               PROVE  lastUpdate <= changedOn'[r] + Buffer
    BY <1>1 DEF StoreTells
  <2>1. CASE clock <= changedOn'[r] + Lag BY <2>1, <1>2
  <2>2. CASE shown'[r] = shown[r] /\ changedOn'[r] = changedOn[r]
    BY <2>2, <1>1 DEF TellInv, StoreTells, Missing
  <2> QED BY <1>3, <2>1, <2>2
<1>5. SentTells'
  <2> SUFFICES ASSUME NEW p \in Polls, polls[p].at = "sent", NEW r \in Queries, Missing(r)'
               PROVE  polls[p].since <= changedOn'[r]
    BY <1>1 DEF TellInv, SentTells
  <2>1. polls[p].since \in Nat BY <1>2 DEF IInv, RequestsKept, Poll, Idle
  <2>2. polls[p].since = 0 \/ polls[p].since + Buffer <= clock BY DEF TellInv, SentTells
  <2>3. CASE clock <= changedOn'[r] + Lag BY <2>1, <2>2, <2>3, <1>2
  <2>4. CASE shown'[r] = shown[r] /\ changedOn'[r] = changedOn[r]
    BY <2>4, <1>1 DEF TellInv, SentTells, Missing
  <2> QED BY <1>3, <2>3, <2>4
<1>6. AnswerTells'
  <2> SUFFICES ASSUME NEW p \in Polls, NEW r \in Queries, polls[p].at = "answered",
                      shown'[r] \in Ended
               PROVE  \/ Before(polls[p].rows, r)' \/ Tells(polls[p].rows, r)
                      \/ NotAwaited(polls[p].rows, r)
    BY <1>1 DEF AnswerTells, Tells, NotAwaited
  <2> DEFINE rows == polls[p].rows
  <2>1. rows \in [Queries -> Row(clock)] BY DEF IInv, RequestsKept, Poll, Idle
  <2>2. CASE clock <= changedOn'[r] + Lag
    <3>1. rows' = rows BY <1>1
    <3>2. \A s \in Queries : rows[s] # NoRow => rows[s].at \in 0..clock BY <2>1 DEF Row
    <3> HIDE DEF rows
    <3>3. lastUpdate <= changedOn'[r] + Buffer BY <2>2, <1>2
    <3>4. \A s \in Queries : rows[s] # NoRow => rows[s].at <= changedOn'[r] + Buffer
      BY <2>2, <1>2, <3>2
    <3>5. Before(rows, r)' BY <1>1, <3>1, <3>3, <3>4 DEF Before
    <3> QED BY <3>5 DEF rows
  <2>3. CASE shown'[r] = shown[r] /\ changedOn'[r] = changedOn[r]
    BY <2>3, <1>1 DEF TellInv, AnswerTells, Before
  <2> QED BY <1>3, <2>2, <2>3
<1> QED BY <1>4, <1>5, <1>6 DEF TellInv

LEMMA ServePollKeepsTelling ==
  ASSUME IInv, TellInv, NEW p \in Polls, ServePoll(p)
  PROVE  TellInv'
<1> DEFINE since == polls[p].since
           rows == RowsChangedSince(since)
<1>1. /\ polls[p].at = "sent" /\ polls' = [polls EXCEPT ![p] = [at |-> "answered", rows |-> rows]]
      /\ UNCHANGED <<phase, shown, changedOn, clock, ui, lastUpdate>>
  BY DEF ServePoll, serverVars, storeVars
<1>2. polls \in [Polls -> Poll(clock)] BY DEF IInv, RequestsKept
<1>3. StoreTells' BY <1>1 DEF TellInv, StoreTells, Missing
<1>4. SentTells' BY <1>1, <1>2 DEF TellInv, SentTells, Missing
<1>5. ASSUME NEW q \in Queries, shown[q] \in Ended
      PROVE  Tells(rows, q) \/ NotAwaited(rows, q)
  <2>1. phase[q] # "absent" BY <1>5 DEF IInv, ServerKept, Ended
  <2>2. CASE rows[q] = NoRow
    <3>1. ~ (changedOn[q] >= since)
      <4> DEFINE now == [state |-> shown[q], key |-> key[q], at |-> changedOn[q]]
      <4>1. rows[q] = IF phase[q] # "absent" /\ changedOn[q] >= since THEN now ELSE NoRow
        BY DEF RowsChangedSince
      <4>2. now # NoRow BY DEF NoRow
      <4> HIDE DEF rows, now
      <4> QED BY <2>1, <2>2, <4>1, <4>2
    <3>2. since \in Nat /\ changedOn[q] \in Nat
      BY <1>1, <1>2, UIAssumption DEF IInv, ServerKept, Poll, Idle
    <3>3. ~ (since <= changedOn[q]) BY <3>1, <3>2
    <3>4. ~ Missing(q) BY <1>1, <3>3 DEF TellInv, SentTells
    <3> QED BY <2>2, <1>5, <3>4 DEF NotAwaited, Missing
  <2>3. CASE rows[q] # NoRow
    BY <1>5, <2>3 DEF Tells, RowsChangedSince
  <2> QED BY <2>2, <2>3
<1> HIDE DEF rows
<1>6. AnswerTells'
  <2> SUFFICES ASSUME NEW r \in Polls, NEW q \in Queries, polls'[r].at = "answered",
                      shown[q] \in Ended
               PROVE  \/ Before(polls[r].rows, q)' \/ Tells(polls'[r].rows, q)
                      \/ NotAwaited(polls[r].rows, q)'
    BY <1>1 DEF AnswerTells, Tells
  <2>1. CASE r = p
    <3>1. polls'[r].rows = rows BY <1>1, <1>2, <2>1
    <3> QED BY <1>1, <1>5, <3>1 DEF NotAwaited
  <2>2. CASE r # p
    <3>1. polls'[r] = polls[r] BY <1>1, <1>2, <2>2
    <3> QED BY <1>1, <3>1 DEF TellInv, AnswerTells, Before, NotAwaited
  <2> QED BY <2>1, <2>2
<1> QED BY <1>3, <1>4, <1>6 DEF TellInv

LEMMA SendPollKeepsTelling ==
  ASSUME IInv, TellInv, NEW p \in Polls, SendPoll(p)
  PROVE  TellInv'
<1>1. /\ polls' = [polls EXCEPT ![p] = [at |-> "sent", since |-> Since]]
      /\ UNCHANGED <<shown, changedOn, clock, ui, lastUpdate>>
  BY DEF SendPoll, serverVars, storeVars
<1>2. polls \in [Polls -> Poll(clock)] BY DEF IInv, RequestsKept
<1>3. /\ clock \in Nat /\ lastUpdate \in 0..clock /\ Buffer \in Nat
      /\ \A q \in Queries : changedOn[q] \in 0..clock
  BY UIAssumption DEF IInv, ServerKept, StoreKept
<1>4. Since = 0 \/ Since + Buffer <= clock BY <1>3 DEF Since
<1>5. \A q \in Queries : Missing(q) => Since <= changedOn[q]
  BY <1>3 DEF TellInv, StoreTells, Since
<1>6. StoreTells' BY <1>1 DEF TellInv, StoreTells, Missing
<1>7. SentTells' BY <1>1, <1>2, <1>4, <1>5 DEF TellInv, SentTells, Missing
<1>8. AnswerTells'
  <2>1. \A r \in Polls : polls'[r].at = "answered" => polls'[r] = polls[r] BY <1>1, <1>2
  <2> QED BY <1>1, <2>1 DEF TellInv, AnswerTells, Before, Tells, NotAwaited
<1> QED BY <1>6, <1>7, <1>8 DEF TellInv

LEMMA LosePollKeepsTelling ==
  ASSUME IInv, TellInv, NEW p \in Polls, LosePoll(p)
  PROVE  TellInv'
<1>1. /\ polls' = [polls EXCEPT ![p] = Idle]
      /\ UNCHANGED <<shown, changedOn, clock, ui, lastUpdate>>
  BY DEF LosePoll, serverVars, storeVars
<1>2. \A r \in Polls : polls'[r].at \in {"sent", "answered"} => polls'[r] = polls[r]
  BY <1>1 DEF IInv, RequestsKept, Idle
<1>3. StoreTells' BY <1>1 DEF TellInv, StoreTells, Missing
<1>4. SentTells' BY <1>1, <1>2 DEF TellInv, SentTells, Missing
<1>5. AnswerTells' BY <1>1, <1>2 DEF TellInv, AnswerTells, Before, Tells, NotAwaited
<1> QED BY <1>3, <1>4, <1>5 DEF TellInv

\* The store goes ahead to the latest stamp of the answer, which is told of all queries it
\* still waits for.
LEMMA ReceivePollKeepsTelling ==
  ASSUME IInv, TellInv, OnePoll, NEW p \in Polls, ReceivePoll(p)
  PROVE  TellInv'
<1> DEFINE rows == polls[p].rows
           new == {q \in Taken(rows) : rows[q].key /\ ~uiKey[q]}
<1>1. /\ polls[p].at = "answered"
      /\ ui' = [q \in Queries |-> IF q \in new THEN "fetching"
                                  ELSE IF q \in Taken(rows) THEN rows[q].state ELSE ui[q]]
      /\ lastUpdate' = Max({lastUpdate} \cup {rows[q].at : q \in Taken(rows)})
      /\ polls' = [polls EXCEPT ![p] = Idle]
      /\ UNCHANGED <<shown, changedOn>>
  BY DEF ReceivePoll, serverVars
<1>2. rows \in [Queries -> Row(clock)] BY <1>1 DEF IInv, RequestsKept, Poll, Idle
<1>3. lastUpdate' = lastUpdate \/ \E q \in Taken(rows) : lastUpdate' = rows[q].at
  BY <1>1, <1>2, LatestStamp
<1>4. \A q \in Queries : q \in Taken(rows) <=> rows[q] # NoRow /\ ui[q] \notin {"stopped", "failed"}
  BY DEF Taken
<1>5. \A q \in Taken(rows) : q \in Queries BY DEF Taken
<1>6. polls' \in [Polls -> {Idle}] BY <1>1 DEF OnePoll, IInv, RequestsKept
<1>7. \A q \in Queries :
        shown[q] \in Ended => Before(rows, q) \/ Tells(rows, q) \/ NotAwaited(rows, q)
  BY <1>1 DEF TellInv, AnswerTells
<1> HIDE DEF rows
<1>8. \A q \in new : q \in Taken(rows) OBVIOUS
<1> HIDE DEF new
<1>9. StoreTells'
  <2> SUFFICES ASSUME NEW q \in Queries, shown[q] \in Ended, ui'[q] \in Waiting
               PROVE  lastUpdate' <= changedOn[q] + Buffer
    BY <1>1 DEF StoreTells, Missing
  <2>1. CASE Before(rows, q) BY <2>1, <1>3, <1>4, <1>5 DEF Before
  <2>2. CASE Tells(rows, q)
    <3>1. rows[q] # NoRow /\ rows[q].state \in Ended BY <2>2 DEF Tells
    <3>2. ui'[q] \in {"fetching", "stopped", "failed", "success"}
      BY <3>1, <1>1, <1>4 DEF Ended
    <3> QED BY <3>2 DEF Waiting
  <2>3. CASE NotAwaited(rows, q)
    <3>1. ui'[q] = ui[q] BY <2>3, <1>1, <1>4, <1>8 DEF NotAwaited
    <3> QED BY <2>3, <3>1 DEF NotAwaited
  <2> QED BY <1>7, <2>1, <2>2, <2>3
<1>10. SentTells' /\ AnswerTells' BY <1>6 DEF SentTells, AnswerTells, Idle
<1> QED BY <1>9, <1>10 DEF TellInv

LEMMA TellingKept ==
  ASSUME IInv, TellInv, OnePoll, [Next]_vars
  PROVE  TellInv'
<1>1. CASE Tick
  <2>1. UNCHANGED <<shown, changedOn, lastUpdate, polls, ui>> /\ clock' = clock + 1
    BY <1>1 DEF Tick, requestVars, storeVars
  <2>2. clock \in Nat BY UIAssumption DEF IInv, ServerKept
  <2> QED BY <2>1, <2>2, QuietKeepsTelling
<1>2. ASSUME NEW q \in Queries, ServerStep(q) PROVE TellInv' BY <1>2, ServerKeepsTelling
<1>3. ASSUME NEW q \in Queries, PageStep(q) PROVE TellInv' BY <1>3, PageKeepsTelling
<1>4. ASSUME NEW p \in Polls, ServePoll(p) PROVE TellInv' BY <1>4, ServePollKeepsTelling
<1>5. ASSUME NEW p \in Polls, SendPoll(p) PROVE TellInv' BY <1>5, SendPollKeepsTelling
<1>6. ASSUME NEW p \in Polls, ReceivePoll(p) PROVE TellInv' BY <1>6, ReceivePollKeepsTelling
<1>7. ASSUME NEW p \in Polls, LosePoll(p) PROVE TellInv' BY <1>7, LosePollKeepsTelling
<1>8. CASE UNCHANGED vars
  <2>1. UNCHANGED <<shown, changedOn, lastUpdate, polls, ui, clock>>
    BY <1>8 DEF vars, serverVars, storeVars, requestVars
  <2>2. clock \in Nat BY UIAssumption DEF IInv, ServerKept
  <2> QED BY <2>1, <2>2, QuietKeepsTelling
<1> QED BY <1>1, <1>2, <1>3, <1>4, <1>5, <1>6, <1>7, <1>8 DEF Next, ServerStep, PageStep

\* A stamp that is less than Buffer behind the store is asked for.
LEMMA EnoughIsAsked ==
  ASSUME IInv, NEW q \in Queries, phase[q] # "absent", lastUpdate <= changedOn[q] + Buffer
  PROVE  RowsChangedSince(Since)[q] # NoRow
<1> DEFINE now == [state |-> shown[q], key |-> key[q], at |-> changedOn[q]]
<1>1. changedOn[q] >= Since
  BY UIAssumption DEF IInv, ServerKept, StoreKept, Since
<1>2. RowsChangedSince(Since)[q] = now BY <1>1 DEF RowsChangedSince
<1>3. now # NoRow BY DEF NoRow
<1> QED BY <1>2, <1>3

\* As long as the page shows a query that has ended as waiting or running, the next poll is
\* told: of one query, with any number of polls that overlap, get lost or come back in any
\* order; or of any number of queries, with one poll at a time. Writes may show as late as
\* Lag after their stamp, and Buffer is at least that.
THEOREM PollTells ==
  ASSUME OneQuery \/ OnePoll
  PROVE  Spec => []NextPollTells
<1>1. CASE OneQuery
  <2> DEFINE Inv == IInv /\ OwnStamps /\ LastOfOne
  <2>1. Init => Inv
    <3> SUFFICES ASSUME Init PROVE Inv OBVIOUS
    <3>1. IInv BY InitKeeps
    <3>2. OwnStamps BY DEF Init, OwnStamps, Idle
    <3>3. LastOfOne BY UIAssumption DEF Init, LastOfOne
    <3> QED BY <3>1, <3>2, <3>3
  <2>2. Inv /\ [Next]_vars => Inv' BY <1>1, StepKeeps, OwnStampsKept, LastOfOneKept
  <2>3. Inv => NextPollTells
    <3> SUFFICES ASSUME Inv, NEW q \in Queries, AtRest(q)
                 PROVE  RowsChangedSince(Since)[q] # NoRow
      BY DEF NextPollTells
    <3>1. lastUpdate <= changedOn[q] + Buffer
      BY UIAssumption DEF LastOfOne, IInv, ServerKept, StoreKept
    <3> QED BY <3>1, EnoughIsAsked DEF AtRest
  <2> HIDE DEF Inv
  <2> QED BY <2>1, <2>2, <2>3, PTL DEF Spec
<1>2. CASE OnePoll
  <2> DEFINE Inv == IInv /\ TellInv
  <2>1. Init => Inv
    <3> SUFFICES ASSUME Init PROVE Inv OBVIOUS
    <3>1. IInv BY InitKeeps
    <3>2. TellInv
      BY DEF Init, TellInv, StoreTells, SentTells, AnswerTells, Missing, Waiting, Idle
    <3> QED BY <3>1, <3>2
  <2>2. Inv /\ [Next]_vars => Inv' BY <1>2, StepKeeps, TellingKept
  <2>3. Inv => NextPollTells
    <3> SUFFICES ASSUME Inv, NEW q \in Queries, AtRest(q), ui[q] \in {"pending", "running"}
                 PROVE  RowsChangedSince(Since)[q] # NoRow
      BY DEF NextPollTells
    <3>1. lastUpdate <= changedOn[q] + Buffer
      BY DEF TellInv, StoreTells, Missing, Waiting, AtRest
    <3> QED BY <3>1, EnoughIsAsked DEF AtRest
  <2> HIDE DEF Inv
  <2> QED BY <2>1, <2>2, <2>3, PTL DEF Spec
<1> QED BY <1>1, <1>2

===============================================================================
