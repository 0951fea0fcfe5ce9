--------------------------- MODULE AnalyticsProofs ---------------------------
(***************************************************************************)
(* Theorems about the two sides of an analysis: AnalyticsTasks, the tasks  *)
(* and their bills, for any number of tasks, retries and crashes and any   *)
(* kinds of analysis; and AnalyticsChart, the page that waits for a task,  *)
(* for any number of tasks, clicks and faults. The specification of the    *)
(* first is TasksSpec, of the second Spec.                                 *)
(***************************************************************************)
EXTENDS AnalyticsTasks, AnalyticsChart, SequenceTheorems, FiniteSetTheorems,
        WellFoundedInduction, TLAPS

\* A set of natural numbers has a least element. The library states induction for an
\* operator, which no installed prover instantiates; told of sets, a proof by induction
\* takes the least counterexample.
LEMMA LeastElement ==
  ASSUME NEW T \in SUBSET Nat, T # {}
  PROVE  \E n \in T : \A m \in T : n <= m
<1> DEFINE Below(n) == {m \in T : m < n}
           C == {Below(n) : n \in T}
<1>1. \A n \in T : n \in Nat OBVIOUS
<1>2. C \subseteq FiniteSubsetsOf(T) /\ C # {}
  <2>1. ASSUME NEW n \in T PROVE IsFiniteSet(Below(n)) /\ Below(n) \subseteq T
    <3>1. Below(n) \subseteq 0..n
      <4>1. \A m \in T : m < n => m \in 0..n BY <1>1
      <4> QED BY <4>1
    <3>2. IsFiniteSet(0..n) BY <1>1, FS_Interval
    <3>3. Below(n) \subseteq T OBVIOUS
    <3> HIDE DEF Below
    <3> QED BY <3>1, <3>2, <3>3, FS_Subset
  <2> HIDE DEF Below
  <2> QED BY <2>1 DEF FiniteSubsetsOf
<1>3. PICK X \in C : \A Y \in C : ~ (<<Y, X>> \in StrictSubsetOrdering(T))
  <2> HIDE DEF C
  <2> QED BY <1>2, WFMin, FS_StrictSubsetOrderingWellFounded
<1>4. PICK n \in T : X = Below(n) OBVIOUS
<1>5. ASSUME NEW m \in T, m < n PROVE FALSE
  <2> HIDE DEF C
  <2>1. Below(m) \subseteq Below(n) /\ m \in Below(n) /\ m \notin Below(m)
    <3>1. \A x \in T : x < m => x < n BY <1>1, <1>5
    <3>2. ~ (m < m) BY <1>1
    <3> QED BY <1>5, <3>1, <3>2, Zenon
  <2>2. Below(m) \in C /\ Below(m) \in SUBSET T /\ Below(n) \in SUBSET T BY DEF C
  <2> HIDE DEF Below
  <2>3. <<Below(m), Below(n)>> \in StrictSubsetOrdering(T)
    BY <2>1, <2>2 DEF StrictSubsetOrdering
  <2> QED BY <1>3, <1>4, <2>2, <2>3
<1>6. \A m \in T : n <= m BY <1>1, <1>5
<1> QED BY <1>6

-----------------------------------------------------------------------------
(* The tasks and their bills *)

\* An update of one task keeps the sequence of tasks and its length.
LEMMA OneTaskChanges ==
  ASSUME NEW s \in Seq(Task), NEW t \in DOMAIN s, NEW new \in Task
  PROVE  LET changed == [s EXCEPT ![t] = new]
         IN /\ changed \in Seq(Task) /\ Len(changed) = Len(s) /\ DOMAIN changed = DOMAIN s
            /\ changed[t] = new
            /\ \A u \in DOMAIN s : u # t => changed[u] = s[u]
<1>1. DOMAIN s = 1..Len(s) BY LenProperties
<1>2. QED BY <1>1, ExceptSeq

\* The facts about a step of task t that the proofs need: t becomes new, nothing
\* else of tasks changes.
Changes(t, new) == new \in Task /\ tasks' = [tasks EXCEPT ![t] = new]

\* What such a step leaves of tasks.
LEMMA Places ==
  ASSUME TasksTypeOK, NEW t \in DOMAIN tasks, NEW new, Changes(t, new)
  PROVE  /\ tasks' \in Seq(Task) /\ Len(tasks') = Len(tasks) /\ DOMAIN tasks' = DOMAIN tasks
         /\ tasks'[t] = new
         /\ \A u \in DOMAIN tasks : u # t => tasks'[u] = tasks[u]
BY OneTaskChanges DEF Changes, TasksTypeOK

\* What can be said of the history at each place of a task: no row before the task
\* bills, one row of a billable task after it.
Billable(t) == tasks[t].ok /\ tasks[t].kind.user /\ ~tasks[t].free
HistoryPlace(t) ==
  IF t \notin DOMAIN tasks THEN history[t] = 0
  ELSE /\ history[t] \in {0, 1}
       /\ history[t] = 1 => Billable(t) /\ tasks[t].at \in {"billed", "lost"} \cup Ended
       /\ Billable(t) /\ tasks[t].at \in {"billed", "SUCCESS"} => history[t] = 1

\* A task that was cancelled while it waited is still on the list to drop, or gone.
CancelledPlace(t) ==
  crashes = 0 /\ t \in cancelled =>
    history[t] = 0 /\ ((tasks[t].at \in Waiting /\ t \in revoked) \/ tasks[t].at = "REVOKED")

TasksInv == TasksTypeOK /\ \A t \in Ids : HistoryPlace(t) /\ CancelledPlace(t)

\* The ids of the tasks sent are among those the bound allows.
LEMMA InTasks == ASSUME TasksTypeOK PROVE DOMAIN tasks \subseteq Ids
<1>1. DOMAIN tasks = 1..Len(tasks) /\ Len(tasks) \in Nat /\ Len(tasks) <= MaxSent
  BY LenProperties DEF TasksTypeOK
<1>2. QED BY <1>1, TasksAssumption DEF Ids

\* What a step of task t may do to the rest, and its place: the other tasks and
\* their rows stay, and so does the list to drop but for t.
LEMMA OneTaskKeepsInvariant ==
  ASSUME TasksInv, NEW t \in DOMAIN tasks, NEW new, Changes(t, new),
         crashes' = crashes, history' \in [Ids -> Nat],
         \A u \in Ids : u # t => history'[u] = history[u],
         revoked' \ {t} = revoked \ {t}, t \in revoked' => new.at \in Waiting,
         cancelled' \ {t} = cancelled \ {t},
         HistoryPlace(t)', CancelledPlace(t)'
  PROVE  TasksInv'
<1>1. /\ tasks' \in Seq(Task) /\ Len(tasks') = Len(tasks) /\ DOMAIN tasks' = DOMAIN tasks
      /\ tasks'[t] = new
      /\ \A u \in DOMAIN tasks : u # t => tasks'[u] = tasks[u]
  BY Places DEF TasksInv
<1>2. TasksTypeOK'
  <2>1. revoked' \subseteq {u \in DOMAIN tasks' : tasks'[u].at \in Waiting}
    BY <1>1 DEF TasksInv, TasksTypeOK
  <2>2. cancelled' \subseteq DOMAIN tasks'
    BY <1>1 DEF TasksInv, TasksTypeOK
  <2>3. QED BY <1>1, <2>1, <2>2 DEF TasksInv, TasksTypeOK
<1>3. ASSUME NEW u \in Ids, u # t PROVE HistoryPlace(u)' /\ CancelledPlace(u)'
  <2>1. u \in DOMAIN tasks => tasks'[u] = tasks[u]
    BY <1>1, <1>3
  <2>2. history'[u] = history[u] /\ (u \in revoked' <=> u \in revoked)
          /\ (u \in cancelled' <=> u \in cancelled)
    BY <1>3
  <2>3. HistoryPlace(u) /\ CancelledPlace(u)
    BY DEF TasksInv
  <2>4. HistoryPlace(u)'
    BY <1>1, <2>1, <2>2, <2>3 DEF HistoryPlace, Billable
  <2>5. u \in cancelled => u \in DOMAIN tasks
    BY DEF TasksInv, TasksTypeOK
  <2>6. CancelledPlace(u)'
    BY <2>1, <2>2, <2>3, <2>5 DEF CancelledPlace
  <2>7. QED BY <2>4, <2>6
<1>4. QED BY <1>2, <1>3 DEF TasksInv

\* Every step keeps the invariant.
LEMMA StepKeepsInvariant ==
  ASSUME TasksInv, [TasksNext]_tasksVars PROVE TasksInv'
<1> USE TasksAssumption
<1>1. ASSUME NEW kind \in Kinds, Start(kind) PROVE TasksInv'
  <2> DEFINE new == [kind |-> kind, at |-> "queued", tries |-> 0, free |-> FALSE, ok |-> FALSE]
  <2>1. new \in Task
    BY DEF Task, Waiting
  <2>2. tasks' = Append(tasks, new) /\ Len(tasks) < MaxSent
          /\ UNCHANGED <<revoked, crashes, history, cancelled>>
    BY <1>1 DEF Start
  <2>3. tasks \in Seq(Task) /\ Len(tasks) \in Nat /\ DOMAIN tasks = 1..Len(tasks)
    BY LenProperties DEF TasksInv, TasksTypeOK
  <2>4. /\ tasks' \in Seq(Task) /\ Len(tasks') = Len(tasks) + 1
        /\ DOMAIN tasks' = 1..Len(tasks) + 1
        /\ \A u \in 1..Len(tasks) : tasks'[u] = tasks[u]
        /\ tasks'[Len(tasks) + 1] = new
    BY <2>1, <2>2, <2>3, AppendProperties
  <2> HIDE DEF new
  <2>5. TasksTypeOK'
    BY <2>2, <2>3, <2>4 DEF TasksInv, TasksTypeOK
  <2>6. ASSUME NEW u \in Ids PROVE HistoryPlace(u)' /\ CancelledPlace(u)'
    <3>1. HistoryPlace(u) /\ CancelledPlace(u) BY DEF TasksInv
    <3>2. CASE u \in DOMAIN tasks
      <4>1. tasks'[u] = tasks[u] /\ u \in DOMAIN tasks' BY <2>3, <2>4, <3>2
      <4>2. QED BY <2>2, <3>1, <3>2, <4>1 DEF HistoryPlace, CancelledPlace, Billable
    <3>3. CASE u = Len(tasks) + 1
      <4>1. u \notin DOMAIN tasks /\ u \in DOMAIN tasks' BY <2>3, <2>4, <3>3
      <4>2. history'[u] = 0 BY <2>2, <3>1, <4>1 DEF HistoryPlace
      <4>3. tasks'[u].at = "queued" BY <2>4, <3>3 DEF new
      <4>4. u \notin cancelled' BY <2>2, <4>1 DEF TasksInv, TasksTypeOK
      <4>5. QED BY <4>1, <4>2, <4>3, <4>4 DEF HistoryPlace, CancelledPlace
    <3>4. CASE u \notin DOMAIN tasks'
      <4>1. u \notin DOMAIN tasks BY <2>3, <2>4, <3>4
      <4>2. u \notin cancelled' BY <2>2, <4>1 DEF TasksInv, TasksTypeOK
      <4>3. QED BY <2>2, <3>1, <3>4, <4>1, <4>2 DEF HistoryPlace, CancelledPlace
    <3>5. QED BY <2>3, <2>4, <3>2, <3>3, <3>4
  <2>7. QED BY <2>5, <2>6 DEF TasksInv
<1>2. ASSUME NEW t \in DOMAIN tasks, Cancel(t) \/ Work(t) PROVE TasksInv'
  <2> DEFINE task == tasks[t]
  <2>1. t \in Ids /\ task \in Task /\ HistoryPlace(t) /\ CancelledPlace(t)
    <3>1. DOMAIN tasks = 1..Len(tasks) /\ Len(tasks) \in Nat /\ Len(tasks) <= MaxSent
      BY LenProperties DEF TasksInv, TasksTypeOK
    <3>2. t \in Ids BY <3>1 DEF Ids
    <3>3. task \in Task BY <3>1, ElementOfSeq DEF TasksInv, TasksTypeOK
    <3>4. QED BY <3>2, <3>3 DEF TasksInv
  <2>2. TasksTypeOK BY DEF TasksInv
  <2>3. \A at \in Waiting \cup Running \cup Ended \cup {"lost"} :
          Moves(t, at) => Changes(t, [task EXCEPT !.at = at])
    BY <2>1 DEF Moves, Changes, Task
  <2>4. CASE Cancel(t)
    <3>1. CASE task.at \in Running
      <4>1. Changes(t, [task EXCEPT !.at = "REVOKED"])
        BY <2>3, <2>4, <3>1 DEF Cancel, Ended
      <4> DEFINE new == [task EXCEPT !.at = "REVOKED"]
      <4>2. new.at = "REVOKED" /\ new.ok = task.ok /\ new.kind = task.kind /\ new.free = task.free
        BY <2>1 DEF Task
      <4> HIDE DEF new
      <4>3. tasks'[t] = new /\ DOMAIN tasks' = DOMAIN tasks
        BY <2>2, <4>1, Places DEF new
      <4>4. UNCHANGED <<revoked, crashes, history, cancelled>>
        BY <2>4, <3>1 DEF Cancel, Running, Waiting
      <4>5. HistoryPlace(t)' /\ CancelledPlace(t)'
        BY <2>1, <3>1, <4>2, <4>3, <4>4
        DEF HistoryPlace, CancelledPlace, Billable, Running, Waiting, Ended
      <4>6. t \notin revoked
        BY <2>2, <3>1 DEF TasksTypeOK, Running, Waiting
      <4>7. QED
        BY <2>2, <4>1, <4>4, <4>5, <4>6, OneTaskKeepsInvariant DEF TasksTypeOK, new
    <3>2. CASE task.at \notin Running
      <4>1. tasks' = tasks /\ crashes' = crashes /\ history' = history
        BY <2>4, <3>2 DEF Cancel
      <4>2. Changes(t, task)
        BY <2>1, <2>2, <4>1 DEF Changes, TasksTypeOK
      <4>3. /\ revoked' = (IF task.at \in Waiting THEN revoked \cup {t} ELSE revoked)
            /\ cancelled' = (IF task.at \in Waiting THEN cancelled \cup {t} ELSE cancelled)
        BY <2>4 DEF Cancel
      <4>4. /\ revoked' \ {t} = revoked \ {t} /\ cancelled' \ {t} = cancelled \ {t}
            /\ t \in revoked' => task.at \in Waiting
        BY <2>2, <4>3 DEF TasksTypeOK
      <4>5. HistoryPlace(t)'
        BY <2>1, <4>1 DEF HistoryPlace, Billable
      <4>6. CancelledPlace(t)'
        BY <2>1, <4>1, <4>3 DEF HistoryPlace, CancelledPlace, Billable, Waiting, Ended
      <4>7. history' \in [Ids -> Nat] BY <2>2, <4>1 DEF TasksTypeOK
      <4>8. QED
        BY <4>1, <4>2, <4>4, <4>5, <4>6, <4>7, OneTaskKeepsInvariant
    <3>3. QED BY <3>1, <3>2
  <2>5. CASE Take(t)
    <3>1. CASE t \in revoked
      <4> DEFINE new == [task EXCEPT !.at = "REVOKED"]
      <4>1. Changes(t, new)
        BY <2>3, <2>5, <3>1 DEF Take, Ended
      <4>2. new.at = "REVOKED" /\ new.ok = task.ok /\ new.kind = task.kind /\ new.free = task.free
        BY <2>1 DEF Task
      <4> HIDE DEF new
      <4>3. tasks'[t] = new /\ DOMAIN tasks' = DOMAIN tasks
        BY <2>2, <4>1, Places DEF new
      <4>4. UNCHANGED <<crashes, history, cancelled>> /\ revoked' = revoked \ {t}
        BY <2>5, <3>1 DEF Take
      <4>5. task.at \in Waiting
        BY <2>5 DEF Take
      <4>6. HistoryPlace(t)' /\ CancelledPlace(t)'
        BY <2>1, <4>2, <4>3, <4>4, <4>5 DEF HistoryPlace, CancelledPlace, Billable, Waiting, Ended
      <4>7. QED
        BY <2>2, <4>1, <4>4, <4>6, OneTaskKeepsInvariant DEF TasksTypeOK, new
    <3>2. CASE t \notin revoked
      <4>1. PICK free \in BOOLEAN : tasks' = [tasks EXCEPT ![t].at = "PROCESSING", ![t].free = free]
        BY <2>5, <3>2 DEF Take
      <4> DEFINE new == [task EXCEPT !.at = "PROCESSING", !.free = free]
      <4>2. new \in Task /\ new.at = "PROCESSING"
        BY <2>1, <4>1 DEF Task, Running
      <4>3. Changes(t, new)
        BY <2>2, <4>1, <4>2 DEF Changes
      <4> HIDE DEF new
      <4>4. tasks'[t] = new /\ DOMAIN tasks' = DOMAIN tasks
        BY <2>2, <4>3, Places
      <4>5. UNCHANGED <<crashes, history, cancelled>> /\ revoked' = revoked \ {t}
        BY <2>5 DEF Take
      <4>6. task.at \in Waiting
        BY <2>5 DEF Take
      <4>7. HistoryPlace(t)' /\ CancelledPlace(t)'
        BY <2>1, <3>2, <4>2, <4>4, <4>5, <4>6
           DEF HistoryPlace, CancelledPlace, Billable, Waiting, Ended
      <4>8. QED
        BY <2>2, <4>3, <4>5, <4>7, OneTaskKeepsInvariant DEF TasksTypeOK
    <3>3. QED BY <3>1, <3>2
  <2>6. CASE Compute(t)
    <3>1. PICK ok \in BOOLEAN : tasks' = [tasks EXCEPT ![t].at = "computed", ![t].ok = ok]
      BY <2>6 DEF Compute
    <3> DEFINE new == [task EXCEPT !.at = "computed", !.ok = ok]
    <3>2. new \in Task /\ new.at = "computed"
      BY <2>1, <3>1 DEF Task, Running
    <3>3. Changes(t, new)
      BY <2>2, <3>1, <3>2 DEF Changes
    <3> HIDE DEF new
    <3>4. tasks'[t] = new /\ DOMAIN tasks' = DOMAIN tasks
      BY <2>2, <3>3, Places
    <3>5. UNCHANGED <<revoked, crashes, history, cancelled>> /\ task.at = "PROCESSING"
      BY <2>6 DEF Compute
    <3>6. t \notin revoked
      BY <2>2, <3>5 DEF TasksTypeOK, Waiting
    <3>7. HistoryPlace(t)' /\ CancelledPlace(t)'
      BY <2>1, <3>2, <3>4, <3>5 DEF HistoryPlace, CancelledPlace, Billable, Waiting, Ended
    <3>8. QED
      BY <2>2, <3>3, <3>5, <3>6, <3>7, OneTaskKeepsInvariant DEF TasksTypeOK
  <2>7. CASE Retry(t)
    <3>1. UNCHANGED <<revoked, crashes, history, cancelled>> /\ task.at = "PROCESSING"
      BY <2>7 DEF Retry
    <3>2. \E new \in Task : new.at \in {"RETRY", "FAILURE"} /\ Changes(t, new)
      <4>1. CASE task.tries < MaxRetries
        <5> DEFINE new == [task EXCEPT !.at = "RETRY", !.tries = @ + 1]
        <5>1. task \in Task /\ task.tries \in 0..MaxRetries
          BY <2>1 DEF Task
        <5>2. task.tries + 1 \in 0..MaxRetries
          BY <4>1, <5>1, TasksAssumption
        <5>3. new \in Task /\ new.at = "RETRY"
          BY <5>1, <5>2 DEF Task, Waiting
        <5>4. Changes(t, new)
          BY <2>7, <4>1, <5>3 DEF Retry, Again, Changes
        <5>5. QED BY <5>3, <5>4
      <4>2. CASE ~(task.tries < MaxRetries)
        <5> DEFINE new == [task EXCEPT !.at = "FAILURE"]
        <5>1. Changes(t, new) /\ new.at = "FAILURE" /\ new \in Task
          BY <2>1, <2>3, <2>7, <4>2 DEF Retry, Changes, Ended, Task
        <5>2. QED BY <5>1
      <4>3. QED BY <4>1, <4>2
    <3>3. PICK new \in Task : new.at \in {"RETRY", "FAILURE"} /\ Changes(t, new)
      BY <3>2
    <3>4. tasks'[t] = new /\ DOMAIN tasks' = DOMAIN tasks
      BY <2>2, <3>3, Places
    <3>5. t \notin revoked
      BY <2>2, <3>1 DEF TasksTypeOK, Waiting
    <3>6. HistoryPlace(t)' /\ CancelledPlace(t)'
      BY <2>1, <3>1, <3>3, <3>4 DEF HistoryPlace, CancelledPlace, Billable, Waiting, Ended
    <3>7. QED
      BY <2>2, <3>1, <3>3, <3>5, <3>6, OneTaskKeepsInvariant DEF TasksTypeOK
  <2>8. CASE Fail(t)
    <3> DEFINE new == [task EXCEPT !.at = "FAILURE"]
    <3>1. Changes(t, new) /\ new.at = "FAILURE"
      BY <2>1, <2>3, <2>8 DEF Fail, Ended, Task
    <3> HIDE DEF new
    <3>2. /\ UNCHANGED <<revoked, crashes, history, cancelled>>
          /\ task.at \in {"PROCESSING", "computed"}
      BY <2>8 DEF Fail
    <3>3. tasks'[t] = new /\ DOMAIN tasks' = DOMAIN tasks
      BY <2>2, <3>1, Places
    <3>4. t \notin revoked
      BY <2>2, <3>2 DEF TasksTypeOK, Waiting
    <3>5. HistoryPlace(t)' /\ CancelledPlace(t)'
      BY <2>1, <3>1, <3>2, <3>3 DEF HistoryPlace, CancelledPlace, Billable, Waiting, Ended
    <3>6. QED
      BY <2>2, <3>1, <3>2, <3>4, <3>5, OneTaskKeepsInvariant DEF TasksTypeOK
  <2>9. CASE Bill(t)
    <3> DEFINE new == [task EXCEPT !.at = "billed"]
    <3>1. Changes(t, new) /\ new.at = "billed" /\ new.ok = task.ok /\ new.kind = task.kind
            /\ new.free = task.free
      BY <2>1, <2>3, <2>9 DEF Bill, Running, Task
    <3> HIDE DEF new
    <3>2. UNCHANGED <<revoked, crashes, cancelled>> /\ task.at = "computed"
      BY <2>9 DEF Bill
    <3>3. tasks'[t] = new /\ DOMAIN tasks' = DOMAIN tasks
      BY <2>2, <3>1, Places
    <3>4. t \notin revoked
      BY <2>2, <3>2 DEF TasksTypeOK, Waiting
    <3>5. history[t] = 0 /\ ~(crashes = 0 /\ t \in cancelled)
      BY <2>1, <3>2 DEF HistoryPlace, CancelledPlace, Waiting, Ended
    <3>6. /\ history' \in [Ids -> Nat]
          /\ \A u \in Ids : u # t => history'[u] = history[u]
          /\ history'[t] = IF Billable(t) THEN 1 ELSE 0
      BY <2>1, <2>2, <2>9, <3>5 DEF Bill, Billable, TasksTypeOK
    <3>7. HistoryPlace(t)' /\ CancelledPlace(t)'
      BY <3>1, <3>2, <3>3, <3>5, <3>6 DEF HistoryPlace, CancelledPlace, Billable, Ended
    <3>8. QED
      BY <3>1, <3>2, <3>4, <3>6, <3>7, OneTaskKeepsInvariant
  <2>10. CASE Store(t) \/ StoreFails(t)
    <3>0. PICK end \in {"SUCCESS", "FAILURE"} : Moves(t, end)
      BY <2>10 DEF Store, StoreFails
    <3> DEFINE new == [task EXCEPT !.at = end]
    <3>1. Changes(t, new) /\ new.at = end /\ new.ok = task.ok /\ new.kind = task.kind
            /\ new.free = task.free
      BY <2>1, <2>3, <3>0 DEF Ended, Task
    <3> HIDE DEF new
    <3>2. UNCHANGED <<revoked, crashes, history, cancelled>> /\ task.at = "billed"
      BY <2>10 DEF Store, StoreFails
    <3>3. tasks'[t] = new /\ DOMAIN tasks' = DOMAIN tasks
      BY <2>2, <3>1, Places
    <3>4. t \notin revoked
      BY <2>2, <3>2 DEF TasksTypeOK, Waiting
    <3>5. HistoryPlace(t)' /\ CancelledPlace(t)'
      BY <2>1, <3>1, <3>2, <3>3 DEF HistoryPlace, CancelledPlace, Billable, Waiting, Ended
    <3>6. QED
      BY <2>2, <3>1, <3>2, <3>4, <3>5, OneTaskKeepsInvariant DEF TasksTypeOK
  <2>11. QED
    BY <1>2, <2>4, <2>5, <2>6, <2>7, <2>8, <2>9, <2>10 DEF Work
<1>3. CASE Crash
  <2>1. /\ crashes \in Nat /\ crashes' \in 0..MaxCrashes /\ crashes' # 0
        /\ UNCHANGED <<history, cancelled>> /\ revoked' = {}
    BY <1>3 DEF Crash, TasksInv, TasksTypeOK
  <2>2. tasks' = [u \in DOMAIN tasks |->
                    IF tasks[u].at \in Running THEN [tasks[u] EXCEPT !.at = "lost"] ELSE tasks[u]]
    BY <1>3 DEF Crash
  <2>3. tasks \in Seq(Task) /\ Len(tasks) \in Nat /\ DOMAIN tasks = 1..Len(tasks)
    BY LenProperties DEF TasksInv, TasksTypeOK
  <2>4. \A u \in DOMAIN tasks :
          /\ tasks[u] \in Task /\ tasks'[u] \in Task
          /\ tasks'[u].at = IF tasks[u].at \in Running THEN "lost" ELSE tasks[u].at
          /\ tasks'[u].ok = tasks[u].ok /\ tasks'[u].kind = tasks[u].kind
          /\ tasks'[u].free = tasks[u].free
    <3>1. \A u \in DOMAIN tasks : tasks[u] \in Task BY <2>3, ElementOfSeq
    <3>2. QED BY <2>2, <3>1 DEF Task
  <2>5. DOMAIN tasks' = DOMAIN tasks
    BY <2>2
  <2>6. tasks' \in Seq(Task) /\ Len(tasks') = Len(tasks)
    <3>1. tasks' \in [1..Len(tasks) -> Task] BY <2>2, <2>3, <2>4
    <3>2. tasks' \in Seq(Task) BY <2>3, <3>1, SeqDef
    <3>3. QED BY <2>3, <2>5, <3>2, LenProperties
  <2>7. TasksTypeOK'
    BY <2>1, <2>5, <2>6 DEF TasksInv, TasksTypeOK
  <2>8. ASSUME NEW u \in Ids PROVE HistoryPlace(u)' /\ CancelledPlace(u)'
    <3>1. HistoryPlace(u) BY DEF TasksInv
    <3>2. HistoryPlace(u)'
      BY <2>1, <2>4, <2>5, <3>1 DEF HistoryPlace, Billable, Running, Ended
    <3>3. QED BY <2>1, <3>2 DEF CancelledPlace
  <2>9. QED BY <2>7, <2>8 DEF TasksInv
<1>4. CASE UNCHANGED tasksVars
  BY <1>4 DEF tasksVars, TasksInv, TasksTypeOK, HistoryPlace, CancelledPlace, Billable
<1>5. QED
  BY <1>1, <1>2, <1>3, <1>4 DEF TasksNext

\* In every behaviour the history and the list to drop are as the places of the tasks
\* say, and every variable keeps to its range.
THEOREM TasksInvariance == TasksSpec => []TasksInv
<1>1. TasksInit => TasksInv
  <2> SUFFICES ASSUME TasksInit PROVE TasksInv OBVIOUS
  <2>1. tasks \in Seq(Task) /\ Len(tasks) = 0 /\ DOMAIN tasks = {}
    BY EmptySeq DEF TasksInit
  <2>2. TasksTypeOK
    BY <2>1, TasksAssumption DEF TasksInit, TasksTypeOK
  <2>3. QED BY <2>1, <2>2 DEF TasksInit, TasksInv, HistoryPlace, CancelledPlace
<1>2. TasksInv /\ [TasksNext]_tasksVars => TasksInv'
  BY StepKeepsInvariant
<1>3. QED BY <1>1, <1>2, PTL DEF TasksSpec

\* Every behaviour keeps the variables of AnalyticsTasks within their types.
THEOREM TasksTypeCorrect == TasksSpec => []TasksTypeOK
<1>1. TasksInv => TasksTypeOK BY DEF TasksInv
<1>2. QED BY <1>1, TasksInvariance, PTL

\* A task enters the billing history at most once, after a run that succeeded, and
\* before the user sees the result, however often it is retried.
THEOREM Billed == TasksSpec => []BilledForItsResult
<1>1. TasksInv => BilledForItsResult
  <2> SUFFICES ASSUME TasksInv, NEW t \in DOMAIN tasks
               PROVE  LET task == tasks[t]
                          billable == task.ok /\ task.kind.user /\ ~task.free
                      IN /\ history[t] > 0 => history[t] = 1 /\ billable
                              /\ task.at \in {"billed", "lost"} \cup Ended
                         /\ task.at = "SUCCESS" /\ billable => history[t] = 1
    BY DEF BilledForItsResult
  <2>1. HistoryPlace(t)
    BY InTasks DEF TasksInv
  <2>2. history[t] \in {0, 1}
    BY <2>1 DEF HistoryPlace
  <2>3. history[t] > 0 => history[t] = 1
    BY <2>2
  <2>4. QED BY <2>1, <2>3 DEF HistoryPlace, Billable
<1>2. QED BY <1>1, TasksInvariance, PTL

\* A task cancelled while it waits is never billed, unless the workers crash.
THEOREM CancelledWaiting == TasksSpec => []CancelledWaitingIsFree
<1>1. TasksInv => CancelledWaitingIsFree
  <2> SUFFICES ASSUME TasksInv, crashes = 0, NEW t \in cancelled
               PROVE  history[t] = 0
    BY DEF CancelledWaitingIsFree
  <2>1. t \in DOMAIN tasks /\ TasksTypeOK
    BY DEF TasksInv, TasksTypeOK
  <2>2. CancelledPlace(t)
    BY <2>1, InTasks DEF TasksInv
  <2>3. QED BY <2>2 DEF CancelledPlace
<1>2. QED BY <1>1, TasksInvariance, PTL

-----------------------------------------------------------------------------
(* The page that waits for a task *)

\* The tasks that have been sent and that no request under way is for: their ids
\* have reached the page, or nobody will hear of them.
Settled == {t \in Tasks : told[t] # "unsent" /\ \A r \in requests : r.task # t}

\* No two requests are for the same task, and what a request names has been sent.
OneTaskEach ==
  /\ \A r \in requests : /\ r.at = "served" => r.task \in Tasks
                         /\ r.task # NoTask => told[r.task] # "unsent"
  /\ \A r, s \in requests : r.task # NoTask /\ r.task = s.task => r = s

\* What is drawn and what is polled is no longer requested; there are no more
\* pollers than such tasks, each with a number of its own. A component that is
\* there is what its pollers belong to.
DrawsSettled ==
  /\ hook.mounted => hook.task \in Settled
  /\ \A p \in pollers : p.live => hook.mounted
PollsSettled ==
  /\ IsFiniteSet(pollers) /\ Cardinality(pollers) <= Cardinality(Settled)
  /\ \A p \in pollers : p.task \in Settled
  /\ \A p, q \in pollers : p.n = q.n => p = q

\* The inductive invariant of the page.
PageInv ==
  /\ TypeOK /\ asked >= runs
  /\ OneTaskEach /\ DrawsSettled /\ PollsSettled
  /\ RegeneratedIsSaved

\* There are no more settled tasks than tasks.
LEMMA FewSettled ==
  /\ IsFiniteSet(Settled) /\ Settled \subseteq Tasks
  /\ Cardinality(Settled) \in Nat /\ Cardinality(Settled) <= MaxTasks
<1> USE ChartAssumption
<1>1. IsFiniteSet(Tasks) /\ Cardinality(Tasks) = MaxTasks
  BY FS_Interval DEF Tasks, ChartAssumption
<1>2. Settled \subseteq Tasks BY DEF Settled
<1>3. QED BY <1>1, <1>2, FS_Subset, FS_CardinalityType

\* A number is left for one more poller, and FreeNumber is such a one.
LEMMA NumberIsFree ==
  ASSUME IsFiniteSet(pollers), \A p \in pollers : p.n \in Nat
  PROVE  /\ FreeNumber \in 1..(Cardinality(pollers) + 1)
         /\ \A p \in pollers : p.n # FreeNumber
<1> DEFINE k == Cardinality(pollers)
           Used == {p.n : p \in pollers}
           Left == (1..(k + 1)) \ Used
<1>1. k \in Nat BY FS_CardinalityType
<1>2. Left # {}
  <2> SUFFICES ASSUME Left = {} PROVE FALSE OBVIOUS
  <2>1. \A i \in 1..(k + 1) : \E p \in pollers : p.n = i OBVIOUS
  <2> DEFINE I == 1..(k + 1)
             f == [i \in I |-> CHOOSE p \in pollers : p.n = i]
  <2>2. \A i \in I : f[i] \in pollers /\ f[i].n = i BY <2>1
  <2>3. f \in [I -> pollers] BY <2>2
  <2>4. IsFiniteSet(I) /\ Cardinality(pollers) < Cardinality(I) BY <1>1, FS_Interval
  <2> HIDE DEF f, I
  <2>5. \E i, j \in I : i # j /\ f[i] = f[j] BY <2>3, <2>4, FS_PigeonHole
  <2>6. QED BY <2>2, <2>5
<1>3. Left \in SUBSET Nat BY <1>1
<1>4. PICK n \in Left : \A m \in Left : n <= m
  <2> HIDE DEF Left
  <2> QED BY <1>2, <1>3, LeastElement
<1>5. FreeNumber \in Left
  <2>1. FreeNumber = Min(Left) BY DEF FreeNumber
  <2> HIDE DEF Left
  <2>2. QED BY <1>4, <2>1 DEF Min
<1>6. QED BY <1>5

\* A task stays settled when no sent task is unsent and no task of a request under
\* way is new but for a task that is sent now.
LEMMA SettledStays ==
  ASSUME \A t \in Tasks : told[t] # "unsent" => told'[t] # "unsent",
         \A r \in requests' : \/ r.task \notin Tasks
                              \/ told[r.task] = "unsent"
                              \/ \E s \in requests : s.task = r.task
  PROVE  Settled \subseteq Settled'
BY DEF Settled

\* When tasks stay settled there are no fewer of them.
LEMMA MoreSettled ==
  ASSUME Settled \subseteq Settled'
  PROVE  /\ Cardinality(Settled) <= Cardinality(Settled') /\ Cardinality(Settled') <= MaxTasks
         /\ Cardinality(Settled) \in Nat /\ Cardinality(Settled') \in Nat
<1> USE ChartAssumption
<1>1. IsFiniteSet(Tasks) /\ Cardinality(Tasks) = MaxTasks
  BY FS_Interval DEF Tasks, ChartAssumption
<1>2. Settled' \subseteq Tasks BY DEF Settled
<1>3. /\ IsFiniteSet(Settled') /\ Cardinality(Settled') \in Nat
      /\ Cardinality(Settled') <= MaxTasks
  BY <1>1, <1>2, FS_Subset, FS_CardinalityType
<1>4. QED BY <1>3, FewSettled, FS_Subset

\* Steps that leave the pollers alone.
LEMMA PollsKeep ==
  ASSUME PageInv, Settled \subseteq Settled', UNCHANGED pollers
  PROVE  PollsSettled'
<1>1. Cardinality(pollers) \in Nat BY FS_CardinalityType DEF PageInv, PollsSettled
<1>2. QED BY <1>1, MoreSettled DEF PageInv, PollsSettled

\* Steps that leave the pollers, the hook and the chart alone.
LEMMA SettledKeeps ==
  ASSUME PageInv, Settled \subseteq Settled',
         UNCHANGED <<chart, saved, hook, pollers, overlay>>
  PROVE  DrawsSettled' /\ PollsSettled' /\ RegeneratedIsSaved'
<1>1. DrawsSettled' BY DEF PageInv, DrawsSettled
<1>2. RegeneratedIsSaved' BY DEF PageInv, RegeneratedIsSaved, Shown
<1>3. QED BY <1>1, <1>2, PollsKeep

\* A step of the backend, which changes the state of tasks that were sent.
LEMMA BackendStep ==
  ASSUME PageInv, told' \in [Tasks -> TaskStates],
         \A t \in Tasks : told[t] # "unsent" => told'[t] # "unsent",
         (deletes \cup toRevoke)' \subseteq Tasks, faults' \in 0..MaxFaults,
         UNCHANGED <<requests, asked, chart, saved, hook, pollers, userVars>>
  PROVE  PageInv'
<1>1. Settled \subseteq Settled' BY SettledStays
<1>2. DrawsSettled' /\ PollsSettled' /\ RegeneratedIsSaved'
  BY <1>1, SettledKeeps DEF userVars
<1>3. \A r \in requests : r.task \in TaskIds BY DEF PageInv, TypeOK
<1>4. OneTaskEach' BY <1>3 DEF PageInv, OneTaskEach, TaskIds
<1>5. \A p \in pollers : p.task \in Tasks /\ told[p.task] # "unsent"
  BY DEF PageInv, TypeOK
<1>6. TypeOK' BY <1>5 DEF PageInv, TypeOK, userVars
<1>7. (asked >= runs)' BY DEF PageInv, userVars
<1>8. QED BY <1>2, <1>4, <1>6, <1>7 DEF PageInv

\* The workers, and cancel_task.
LEMMA TasksKeep ==
  ASSUME PageInv, NEW t \in Tasks,
         TakeTask(t) \/ EndTask(t) \/ RetryTask(t) \/ CancelTask(t)
  PROVE  PageInv'
<1> USE ChartAssumption
<1>1. /\ told \in [Tasks -> TaskStates]
      /\ deletes \subseteq Tasks /\ toRevoke \subseteq Tasks
      /\ faults \in Nat /\ faults <= MaxFaults
  BY DEF PageInv, TypeOK, ChartAssumption
<1>2. ASSUME NEW state \in TaskStates \ {"unsent"},
             told' = [told EXCEPT ![t] = state] \/ UNCHANGED told
      PROVE  /\ told' \in [Tasks -> TaskStates]
             /\ \A u \in Tasks : told[u] # "unsent" => told'[u] # "unsent"
  BY <1>1, <1>2
<1>3. CASE TakeTask(t)
  BY <1>1, <1>2, <1>3, BackendStep DEF TakeTask, TaskStates
<1>4. CASE EndTask(t)
  BY <1>1, <1>2, <1>4, BackendStep DEF EndTask, TaskStates
<1>5. CASE RetryTask(t)
  BY <1>1, <1>2, <1>5, BackendStep
  DEF RetryTask, TaskStates, ChartAssumption
<1>6. CASE CancelTask(t)
  BY <1>1, <1>2, <1>6, BackendStep DEF CancelTask, TaskStates
<1>7. QED BY <1>3, <1>4, <1>5, <1>6

\* A query that names no task sends one that no other request is for.
LEMMA ServeKeeps ==
  ASSUME PageInv, NEW r \in requests, ServeExplore(r)
  PROVE  PageInv'
<1> DEFINE served(t) == [r EXCEPT !.at = "served", !.task = t]
<1>1. PICK t \in Tasks :
        /\ r.task = NoTask => told[t] = "unsent"
        /\ r.task # NoTask => t = r.task
        /\ told' = IF r.task = NoTask THEN [told EXCEPT ![t] = "queued"] ELSE told
        /\ requests' = (requests \ {r}) \cup (IF r.heard THEN {served(t)} ELSE {})
  BY DEF ServeExplore
<1>2. UNCHANGED <<deletes, toRevoke, asked, faults, chart, saved, hook, pollers, overlay, runs,
                  stopped>>
  BY DEF ServeExplore, userVars
<1>3. /\ told \in [Tasks -> TaskStates]
      /\ requests \subseteq
           [n : 1..asked, task : TaskIds, at : {"sent", "served"}, heard : BOOLEAN]
  BY DEF PageInv, TypeOK
<1>4. /\ told' \in [Tasks -> TaskStates] /\ told'[t] # "unsent"
      /\ \A u \in Tasks : told[u] # "unsent" => told'[u] # "unsent"
  <2>1. CASE r.task = NoTask BY <1>1, <1>3, <2>1 DEF TaskStates
  <2>2. CASE r.task # NoTask BY <1>1, <1>3, <2>2 DEF PageInv, OneTaskEach
  <2>3. QED BY <2>1, <2>2
<1>5. /\ served(t) \in [n : 1..asked, task : TaskIds, at : {"sent", "served"}, heard : BOOLEAN]
      /\ served(t).task = t
  BY <1>3 DEF TaskIds
<1> HIDE DEF served
<1>6. /\ \A s \in requests' : (s \in requests /\ s # r) \/ s = served(t)
      /\ requests' \subseteq
           [n : 1..asked, task : TaskIds, at : {"sent", "served"}, heard : BOOLEAN]
  BY <1>1, <1>3, <1>5
<1>7. Settled \subseteq Settled'
  <2>1. told[t] = "unsent" \/ \E s \in requests : s.task = t BY <1>1
  <2>2. \A s \in requests' : \/ told[s.task] = "unsent"
                             \/ \E q \in requests : q.task = s.task
    BY <1>5, <1>6, <2>1
  <2>3. QED BY <1>4, <2>2, SettledStays
<1>8. DrawsSettled' /\ PollsSettled' /\ RegeneratedIsSaved'
  BY <1>2, <1>7, SettledKeeps
<1>9. OneTaskEach'
  <2>1. \A s \in requests : s # r /\ s.task # NoTask => s.task # t
    BY <1>1 DEF PageInv, OneTaskEach
  <2>2. \A s \in requests : s.task # NoTask => s.task \in Tasks BY <1>3 DEF TaskIds
  <2>3. \A s \in requests' : /\ s.at = "served" => s.task \in Tasks
                             /\ s.task # NoTask => told'[s.task] # "unsent"
    BY <1>4, <1>5, <1>6, <2>2 DEF PageInv, OneTaskEach
  <2>4. \A q, s \in requests' : q.task # NoTask /\ q.task = s.task => q = s
    BY <1>5, <1>6, <2>1 DEF PageInv, OneTaskEach
  <2>5. QED BY <2>3, <2>4 DEF OneTaskEach
<1>10. TypeOK'
  BY <1>2, <1>4, <1>6 DEF PageInv, TypeOK
<1>11. (asked >= runs)' BY <1>2 DEF PageInv
<1>12. QED BY <1>8, <1>9, <1>10, <1>11 DEF PageInv

\* The records of TypeOK.
AllRequests(n) ==
  [n : 1..n, task : TaskIds, at : {"sent", "served"}, heard : BOOLEAN]

AllPollers ==
  [n : PollerNumbers, live : BOOLEAN, at : {"poll", "answer"}, task : Tasks,
   requery : BOOLEAN, status : TaskStates \cup {"none", "PENDING"}]

\* Requests end, or are not heard any more.
LEMMA RequestsEnd ==
  ASSUME PageInv, NEW X \in SUBSET requests, UNCHANGED <<told, asked>>,
         requests' \subseteq (requests \ X) \cup {[r EXCEPT !.heard = FALSE] : r \in X}
  PROVE  requests' \subseteq AllRequests(asked) /\ OneTaskEach' /\ Settled \subseteq Settled'
<1> DEFINE unheard(r) == [r EXCEPT !.heard = FALSE]
<1>1. requests \subseteq AllRequests(asked) BY DEF PageInv, TypeOK, AllRequests
<1>2. \A r \in requests : /\ unheard(r) \in AllRequests(asked)
                          /\ unheard(r).task = r.task /\ unheard(r).at = r.at
  BY <1>1 DEF AllRequests
<1>3. \A s \in requests' : s \in requests \ X \/ \E r \in X : s = unheard(r) OBVIOUS
<1> HIDE DEF unheard
<1>4. requests' \subseteq AllRequests(asked) BY <1>1, <1>2, <1>3
<1>5. \A s \in requests' : \E r \in requests : s.task = r.task /\ s.at = r.at BY <1>2, <1>3
<1>6. Settled \subseteq Settled' BY <1>5, SettledStays
<1>7. OneTaskEach'
  <2>1. \A s \in requests' : /\ s.at = "served" => s.task \in Tasks
                             /\ s.task # NoTask => told'[s.task] # "unsent"
    BY <1>5 DEF PageInv, OneTaskEach
  <2>2. ASSUME NEW q \in requests', NEW s \in requests', q.task # NoTask, q.task = s.task
        PROVE  q = s
    <3>1. PICK q1 \in requests : (q1 \notin X /\ q = q1) \/ (q1 \in X /\ q = unheard(q1))
      BY <1>3
    <3>2. PICK s1 \in requests : (s1 \notin X /\ s = s1) \/ (s1 \in X /\ s = unheard(s1))
      BY <1>3
    <3>3. q1.task = q.task /\ s1.task = s.task BY <1>2, <3>1, <3>2
    <3>4. q1 = s1 BY <2>2, <3>3 DEF PageInv, OneTaskEach
    <3>5. QED BY <3>1, <3>2, <3>4
  <2>3. QED BY <2>1, <2>2 DEF OneTaskEach
<1>8. QED BY <1>4, <1>6, <1>7

\* New requests name no task.
LEMMA TriggerKeeps ==
  ASSUME PageInv, NEW k \in Nat, Trigger(k), UNCHANGED told
  PROVE  /\ asked' \in Nat /\ asked' = asked + k
         /\ requests' \subseteq AllRequests(asked') /\ OneTaskEach' /\ Settled \subseteq Settled'
<1>1. asked \in Nat /\ requests \subseteq AllRequests(asked)
  BY DEF PageInv, TypeOK, AllRequests
<1>2. asked' = asked + k BY DEF Trigger
<1>3. \A i \in 1..k : Request(asked + i, NoTask) \in AllRequests(asked')
                      /\ Request(asked + i, NoTask).task = NoTask
                      /\ Request(asked + i, NoTask).at = "sent"
  BY <1>1, <1>2 DEF Request, AllRequests, TaskIds
<1>4. requests \subseteq AllRequests(asked')
  <2>1. 1..asked \subseteq 1..asked' BY <1>1, <1>2
  <2>2. QED BY <1>1, <2>1 DEF AllRequests
<1>5. \A s \in requests' :
        \/ s \in requests
        \/ /\ s \in AllRequests(asked') /\ s.task = NoTask
           /\ s.at = "sent"
  BY <1>3 DEF Trigger
<1>6. requests' \subseteq AllRequests(asked') BY <1>4, <1>5
<1>7. NoTask \notin Tasks BY DEF NoTask, Tasks
<1>8. Settled \subseteq Settled' BY <1>5, <1>7, SettledStays
<1>9. OneTaskEach'
  BY <1>5 DEF PageInv, OneTaskEach
<1>10. QED BY <1>1, <1>2, <1>6, <1>8, <1>9

\* A poller ends, or goes on for a task that is settled.
LEMMA PollerKeeps ==
  ASSUME PageInv, Settled \subseteq Settled', NEW p \in pollers, NEW X,
         X = {} \/ \E x : X = {x} /\ x.n = p.n /\ x.task \in Settled,
         pollers' = (pollers \ {p}) \cup X
  PROVE  PollsSettled'
<1>1. PollsSettled BY DEF PageInv
<1>2. Cardinality(Settled) <= Cardinality(Settled')
      /\ Cardinality(Settled) \in Nat /\ Cardinality(Settled') \in Nat
  BY MoreSettled
<1>3. /\ IsFiniteSet(pollers \ {p}) /\ Cardinality(pollers \ {p}) = Cardinality(pollers) - 1
      /\ Cardinality(pollers) \in Nat
  BY <1>1, FS_RemoveElement, FS_CardinalityType DEF PollsSettled
<1> DEFINE Rest == pollers \ {p}
<1>4. IsFiniteSet(Rest) /\ Cardinality(Rest) + 1 = Cardinality(pollers)
      /\ Cardinality(Rest) \in Nat
  BY <1>3, FS_CardinalityType
<1>5. \A q \in Rest : q \in pollers /\ q # p OBVIOUS
<1>6. pollers' = Rest \cup X OBVIOUS
<1> HIDE DEF Rest
<1>7. Cardinality(Rest) + 1 <= Cardinality(Settled')
  BY <1>1, <1>2, <1>4 DEF PollsSettled
<1>8. CASE X = {}
  <2>1. pollers' = Rest BY <1>6, <1>8
  <2>2. Cardinality(Rest) <= Cardinality(Settled') BY <1>2, <1>4, <1>7
  <2>3. QED BY <1>1, <1>4, <1>5, <2>1, <2>2 DEF PollsSettled
<1>9. CASE X # {}
  <2>1. PICK x : X = {x} /\ x.n = p.n /\ x.task \in Settled BY <1>9
  <2>2. pollers' = Rest \cup {x} BY <1>6, <2>1
  <2>3. IsFiniteSet(Rest \cup {x})
        /\ (\/ Cardinality(Rest \cup {x}) = Cardinality(Rest)
            \/ Cardinality(Rest \cup {x}) = Cardinality(Rest) + 1)
    BY <1>4, FS_AddElement
  <2>4. Cardinality(Rest \cup {x}) <= Cardinality(Settled') BY <1>2, <1>4, <1>7, <2>3
  <2>5. \A q \in pollers' : q \in Rest \/ q = x BY <2>2
  <2>6. \A q \in pollers' : q.task \in Settled' BY <1>1, <1>5, <2>1, <2>5 DEF PollsSettled
  <2>7. \A q, s \in pollers' : q.n = s.n => q = s
    BY <1>1, <1>5, <2>1, <2>5 DEF PollsSettled
  <2>8. QED BY <2>2, <2>3, <2>4, <2>6, <2>7 DEF PollsSettled
<1>10. QED BY <1>8, <1>9

\* Their component is taken away: those of the pollers that would ask again go on.
LEMMA OrphansKeep ==
  ASSUME PageInv, Settled \subseteq Settled', NEW Q \in SUBSET pollers, pollers' = Orphans(Q)
  PROVE  PollsSettled' /\ pollers' \subseteq AllPollers /\ \A p \in pollers' : ~p.live
<1> DEFINE Asking == {x \in Q : x.requery}
           orphan(p) == [p EXCEPT !.live = FALSE, !.status = "none"]
<1>1. /\ IsFiniteSet(pollers) /\ Cardinality(pollers) <= Cardinality(Settled)
      /\ Cardinality(pollers) \in Nat
      /\ \A p \in pollers : p.task \in Settled
      /\ \A p, q \in pollers : p.n = q.n => p = q
  BY FS_CardinalityType DEF PageInv, PollsSettled
<1>2. pollers \subseteq AllPollers BY DEF PageInv, TypeOK, AllPollers
<1>3. pollers' = {orphan(p) : p \in Asking} /\ Asking \subseteq pollers BY DEF Orphans
<1>4. \A p \in Asking : /\ orphan(p) \in AllPollers /\ ~orphan(p).live
                        /\ orphan(p).n = p.n /\ orphan(p).task = p.task
  <2> SUFFICES ASSUME NEW p \in pollers
               PROVE  /\ orphan(p) \in AllPollers /\ orphan(p).live = FALSE
                      /\ orphan(p).n = p.n /\ orphan(p).task = p.task
    BY <1>3
  <2> QED BY <1>2 DEF AllPollers
<1>5. IsFiniteSet(pollers') /\ Cardinality(pollers') <= Cardinality(Settled')
  <2> DEFINE f == [p \in Asking |-> orphan(p)]
  <2> HIDE DEF Asking, orphan
  <2>1. f \in Surjection(Asking, pollers') BY <1>3 DEF Surjection
  <2> HIDE DEF f
  <2>2. /\ IsFiniteSet(Asking) /\ Cardinality(Asking) <= Cardinality(pollers)
        /\ Cardinality(Asking) \in Nat
    BY <1>1, <1>3, FS_Subset, FS_CardinalityType
  <2>3. /\ IsFiniteSet(pollers') /\ Cardinality(pollers') <= Cardinality(Asking)
        /\ Cardinality(pollers') \in Nat
    BY <2>1, <2>2, FS_Surjection, FS_CardinalityType
  <2>4. Cardinality(Settled) <= Cardinality(Settled')
        /\ Cardinality(Settled) \in Nat /\ Cardinality(Settled') \in Nat
    BY MoreSettled
  <2>5. QED BY <1>1, <2>2, <2>3, <2>4
<1> HIDE DEF orphan, Asking
<1>6. \A x \in pollers' : \E p \in Asking : x = orphan(p) BY <1>3
<1>7. \A x \in pollers' : x.task \in Settled' /\ x \in AllPollers /\ ~x.live
  BY <1>1, <1>3, <1>4, <1>6
<1>8. ASSUME NEW x \in pollers', NEW y \in pollers', x.n = y.n PROVE x = y
  <2>1. PICK p \in Asking, q \in Asking : x = orphan(p) /\ y = orphan(q) BY <1>6
  <2>2. p = q BY <1>1, <1>3, <1>4, <1>8, <2>1
  <2>3. QED BY <2>1, <2>2
<1>9. QED BY <1>5, <1>7, <1>8 DEF PollsSettled

\* A poll is answered by the server.
LEMMA PollServedKeeps ==
  ASSUME PageInv, NEW p \in pollers, PollServed(p)
  PROVE  PageInv'
<1> DEFINE heard == IF p.live THEN StatusOf(p.task) ELSE "none"
           x == [p EXCEPT !.at = "answer", !.status = heard]
<1>1. pollers \subseteq AllPollers /\ told \in [Tasks -> TaskStates]
  BY DEF PageInv, TypeOK, AllPollers
<1>2. heard \in TaskStates \cup {"none", "PENDING"}
  BY <1>1 DEF StatusOf, AllPollers
<1>3. x \in AllPollers /\ x.n = p.n /\ x.task = p.task /\ x.live = p.live
  <2> HIDE DEF heard
  <2> QED BY <1>1, <1>2 DEF AllPollers
<1>4. pollers' = (pollers \ {p}) \cup {x} BY DEF PollServed
<1>5. UNCHANGED <<told, deletes, toRevoke, requests, asked, faults, chart, saved, hook, overlay,
                  runs, stopped>>
  BY DEF PollServed, userVars
<1> HIDE DEF x
<1>6. Settled' = Settled BY <1>5 DEF Settled
<1>7. p.task \in Settled BY DEF PageInv, PollsSettled
<1>8. PollsSettled' BY <1>3, <1>4, <1>6, <1>7, PollerKeeps
<1>9. \A q \in pollers' : told'[q.task] # "unsent" BY <1>8, <1>5 DEF PollsSettled, Settled
<1>10. pollers' \subseteq AllPollers BY <1>1, <1>3, <1>4, <1>5
<1>11. TypeOK' BY <1>5, <1>9, <1>10 DEF PageInv, TypeOK, AllPollers
<1>12. OneTaskEach' BY <1>5 DEF PageInv, OneTaskEach
<1>13. DrawsSettled' BY <1>3, <1>4, <1>5, <1>6 DEF PageInv, DrawsSettled
<1>14. RegeneratedIsSaved' BY <1>5 DEF PageInv, RegeneratedIsSaved, Shown
<1>15. QED BY <1>5, <1>8, <1>11, <1>12, <1>13, <1>14 DEF PageInv

\* The chart component goes away, or does not notice.
LEMMA RefusedKeeps ==
  ASSUME PageInv, NEW r \in requests,
         QueryIsRefused(r) \/ QueryTimesOut(r)
  PROVE  PageInv'
<1> USE ChartAssumption
<1>1. PICK X \in SUBSET requests :
        requests' \subseteq (requests \ X) \cup {[s EXCEPT !.heard = FALSE] : s \in X}
  <2>1. CASE QueryIsRefused(r)
    <3>1. requests' \subseteq (requests \ {}) \cup {[s EXCEPT !.heard = FALSE] : s \in {}}
      BY <2>1 DEF QueryIsRefused
    <3>2. QED BY <3>1
  <2>2. CASE QueryTimesOut(r)
    <3>1. requests' \subseteq (requests \ {r}) \cup {[s EXCEPT !.heard = FALSE] : s \in {r}}
      BY <2>2 DEF QueryTimesOut
    <3>2. {r} \in SUBSET requests OBVIOUS
    <3>3. QED BY <3>1, <3>2
  <2>3. QED BY <2>1, <2>2
<1>2. UNCHANGED <<told, deletes, toRevoke, asked, saved, overlay, runs, stopped>>
  BY DEF QueryIsRefused, QueryTimesOut, userVars
<1>3. requests' \subseteq AllRequests(asked) /\ OneTaskEach' /\ Settled \subseteq Settled'
  BY <1>1, <1>2, RequestsEnd
<1>4. \/ hook' = hook /\ chart' = chart /\ pollers' = pollers
      \/ /\ hook' = NotMounted /\ chart' = [chart EXCEPT !.status = "failed"]
         /\ pollers' = Orphans(pollers)
  BY DEF QueryIsRefused, QueryTimesOut
<1>5. /\ PollsSettled' /\ pollers' \subseteq AllPollers
      /\ pollers' = pollers \/ \A p \in pollers' : ~p.live
  <2>1. pollers \subseteq AllPollers BY DEF PageInv, TypeOK, AllPollers
  <2>2. CASE pollers' = pollers BY <1>3, <2>1, <2>2, PollsKeep
  <2>3. CASE pollers' = Orphans(pollers) BY <1>3, <2>3, OrphansKeep
  <2>4. QED BY <1>4, <2>2, <2>3
<1>6. faults' \in 0..MaxFaults
  BY DEF QueryIsRefused, QueryTimesOut, PageInv, TypeOK, ChartAssumption
<1>7. hook \in [mounted : BOOLEAN, isReQuery : BOOLEAN, task : TaskIds,
                status : TaskStates \cup {"none", "PENDING"}]
  BY DEF PageInv, TypeOK
<1>8. /\ hook' \in [mounted : BOOLEAN, isReQuery : BOOLEAN, task : TaskIds,
                    status : TaskStates \cup {"none", "PENDING"}]
      /\ ~hook'.isReQuery => ~hook.isReQuery
  <2>1. CASE hook' = hook BY <1>7, <2>1
  <2>2. CASE hook' = NotMounted BY <1>7, <2>2 DEF NotMounted, TaskIds
  <2>3. QED BY <1>4, <2>1, <2>2
<1>9. chart' \in [status : {"none", "loading", "success", "failed", "stopped"},
                  isPolling : BOOLEAN, taskId : TaskIds]
  BY <1>4 DEF PageInv, TypeOK
<1>10. \A p \in pollers' : told'[p.task] # "unsent" BY <1>5 DEF PollsSettled, Settled
<1>11. TypeOK'
  BY <1>2, <1>3, <1>5, <1>6, <1>8, <1>9, <1>10 DEF PageInv, TypeOK, AllRequests, AllPollers
<1>12. DrawsSettled'
  <2>1. CASE hook' = hook /\ pollers' = pollers BY <1>3, <2>1 DEF PageInv, DrawsSettled
  <2>2. CASE hook' = NotMounted /\ pollers' = Orphans(pollers)
    <3>1. \A p \in pollers' : ~p.live BY <1>3, <2>2, OrphansKeep
    <3>2. QED BY <2>2, <3>1 DEF DrawsSettled, NotMounted
  <2>3. QED BY <1>4, <2>1, <2>2
<1>13. RegeneratedIsSaved'
  BY <1>2, <1>4 DEF PageInv, RegeneratedIsSaved, Shown, NotMounted
<1>14. QED BY <1>2, <1>3, <1>5, <1>11, <1>12, <1>13 DEF PageInv

\* A poll is lost.
LEMMA PollLostKeeps ==
  ASSUME PageInv, NEW p \in pollers, PollLost(p)
  PROVE  PageInv'
<1> USE ChartAssumption
<1>1. UNCHANGED <<told, deletes, toRevoke, requests, asked, chart, saved, hook, overlay, runs,
                  stopped>>
  BY DEF PollLost, userVars
<1>2. Settled' = Settled BY <1>1 DEF Settled
<1>3. pollers' = (pollers \ {p}) \cup {} BY DEF PollLost
<1>4. PollsSettled' BY <1>2, <1>3, PollerKeeps
<1>5. faults' \in 0..MaxFaults BY DEF PollLost, PageInv, TypeOK, ChartAssumption
<1>6. \A q \in pollers' : q \in pollers BY <1>3
<1>7. TypeOK' BY <1>1, <1>5, <1>6 DEF PageInv, TypeOK
<1>8. OneTaskEach' BY <1>1 DEF PageInv, OneTaskEach
<1>9. DrawsSettled' BY <1>1, <1>2, <1>6 DEF PageInv, DrawsSettled
<1>10. RegeneratedIsSaved' BY <1>1 DEF PageInv, RegeneratedIsSaved, Shown
<1>11. QED BY <1>1, <1>4, <1>7, <1>8, <1>9, <1>10 DEF PageInv

\* The user runs, stops or edits: either the chart is loading or it is out of date.
LEMMA ClicksKeep ==
  ASSUME PageInv, ClickRun \/ ClickStop \/ EditControls
  PROVE  PageInv'
<1> USE ChartAssumption
<1>1. UNCHANGED <<told, toRevoke, faults, saved, hook, pollers>>
  BY DEF ClickRun, ClickStop, EditControls
<1>2. /\ chart \in [status : {"none", "loading", "success", "failed", "stopped"},
                    isPolling : BOOLEAN, taskId : TaskIds]
      /\ deletes \subseteq Tasks /\ toRevoke \subseteq Tasks
      /\ runs \in Nat /\ runs <= MaxRuns
      /\ asked \in Nat /\ requests \subseteq AllRequests(asked) /\ asked >= runs
      /\ hook.isReQuery \/ asked > runs
  BY DEF PageInv, TypeOK, AllRequests, ChartAssumption
<1>3. /\ asked' \in Nat /\ requests' \subseteq AllRequests(asked') /\ OneTaskEach'
      /\ Settled \subseteq Settled'
      /\ runs' \in 0..MaxRuns /\ asked' >= runs'
      /\ ~hook.isReQuery => asked' > runs'
  <2>1. CASE ClickRun
    <3>1. Trigger(1) /\ runs' = runs + 1 /\ runs < MaxRuns BY <2>1 DEF ClickRun
    <3>2. /\ asked' \in Nat /\ asked' = asked + 1
          /\ requests' \subseteq AllRequests(asked') /\ OneTaskEach'
          /\ Settled \subseteq Settled'
      BY <1>1, <3>1, TriggerKeeps
    <3>3. QED BY <1>2, <3>1, <3>2 DEF ChartAssumption
  <2>2. CASE ClickStop
    <3> DEFINE aborted == {r \in requests : r.n = asked /\ r.heard}
    <3>1. requests' = (requests \ aborted) \cup
            {[r EXCEPT !.heard = FALSE] : r \in {x \in aborted : x.at = "sent"}}
      BY <2>2 DEF ClickStop
    <3>2. aborted \in SUBSET requests
          /\ requests' \subseteq (requests \ aborted) \cup
               {[r EXCEPT !.heard = FALSE] : r \in aborted}
      BY <3>1
    <3>3. asked' = asked /\ runs' = runs BY <2>2 DEF ClickStop
    <3> HIDE DEF aborted
    <3>4. requests' \subseteq AllRequests(asked) /\ OneTaskEach' /\ Settled \subseteq Settled'
      BY <1>1, <3>2, <3>3, RequestsEnd
    <3>5. QED BY <1>2, <3>3, <3>4
  <2>3. CASE EditControls
    <3>1. UNCHANGED <<requests, asked, runs>> BY <2>3 DEF EditControls
    <3>2. requests' \subseteq (requests \ {}) \cup {[r EXCEPT !.heard = FALSE] : r \in {}}
      BY <3>1
    <3>3. requests' \subseteq AllRequests(asked) /\ OneTaskEach' /\ Settled \subseteq Settled'
      BY <1>1, <3>1, <3>2, RequestsEnd
    <3>4. QED BY <1>2, <3>1, <3>3
  <2>4. QED BY <2>1, <2>2, <2>3
<1>4. PollsSettled' BY <1>1, <1>3, PollsKeep
<1>5. DrawsSettled' BY <1>1, <1>3 DEF PageInv, DrawsSettled
<1>6. /\ chart' \in [status : {"none", "loading", "success", "failed", "stopped"},
                     isPolling : BOOLEAN, taskId : TaskIds]
      /\ deletes' \subseteq Tasks /\ overlay' \in BOOLEAN /\ stopped' \in BOOLEAN
      /\ overlay' \/ chart'.status = "loading"
  <2>1. CASE ClickRun
    <3>1. /\ chart' = [chart EXCEPT !.status = "loading", !.taskId = NoTask]
          /\ UNCHANGED deletes /\ overlay' = FALSE /\ stopped' = FALSE
      BY <2>1 DEF ClickRun
    <3>2. QED BY <1>2, <3>1 DEF TaskIds
  <2>2. CASE ClickStop
    <3>1. PICK status \in {"stopped", chart.status} :
            chart' = [chart EXCEPT !.isPolling = FALSE, !.taskId = NoTask, !.status = status]
      BY <2>2 DEF ClickStop
    <3>2. deletes' = deletes \cup ({chart.taskId} \ {NoTask}) /\ overlay' = TRUE
          /\ stopped' = TRUE
      BY <2>2 DEF ClickStop
    <3>3. chart' \in [status : {"none", "loading", "success", "failed", "stopped"},
                      isPolling : BOOLEAN, taskId : TaskIds]
      BY <1>2, <3>1 DEF TaskIds
    <3>4. QED BY <1>2, <3>2, <3>3 DEF TaskIds
  <2>3. CASE EditControls
    BY <1>2, <2>3 DEF EditControls, PageInv, TypeOK
  <2>4. QED BY <2>1, <2>2, <2>3
<1>7. \A p \in pollers : told[p.task] # "unsent" BY DEF PageInv, TypeOK
<1>8. TypeOK'
  BY <1>1, <1>2, <1>3, <1>6, <1>7 DEF PageInv, TypeOK, AllRequests
<1>9. RegeneratedIsSaved'
  BY <1>6 DEF RegeneratedIsSaved, Shown
<1>10. QED BY <1>3, <1>4, <1>5, <1>8, <1>9 DEF PageInv

\* The answer of a query: as its task is not yet the one that is drawn, the chart
\* polls for it, unless it is not drawn again at all.
LEMMA SucceedsKeeps ==
  ASSUME PageInv, NEW r \in requests, QuerySucceeds(r)
  PROVE  PageInv'
<1> USE ChartAssumption
<1> DEFINE new == [n |-> FreeNumber, live |-> TRUE, at |-> "poll", task |-> r.task,
                   requery |-> FALSE, status |-> "none"]
<1>1. UNCHANGED <<told, deletes, toRevoke, asked, faults, saved, overlay, runs, stopped>>
      /\ r.at = "served" /\ requests' = requests \ {r}
  BY DEF QuerySucceeds, userVars
<1>2. /\ r.task \in Tasks /\ told[r.task] # "unsent"
      /\ r.task # NoTask /\ r.task \notin Settled
  BY <1>1 DEF PageInv, OneTaskEach, Settled, Tasks, NoTask
<1>3. requests' \subseteq AllRequests(asked) /\ OneTaskEach' /\ Settled \subseteq Settled'
  <2>1. requests' \subseteq (requests \ {}) \cup {[s EXCEPT !.heard = FALSE] : s \in {}}
    BY <1>1
  <2>2. QED BY <1>1, <2>1, RequestsEnd
<1>4. r.task \in Settled'
  BY <1>1, <1>2 DEF PageInv, OneTaskEach, Settled
<1>5. hook.mounted => hook.task # r.task
  BY <1>2 DEF PageInv, DrawsSettled
<1>6. /\ hook \in [mounted : BOOLEAN, isReQuery : BOOLEAN, task : TaskIds,
                   status : TaskStates \cup {"none", "PENDING"}]
      /\ chart \in [status : {"none", "loading", "success", "failed", "stopped"},
                    isPolling : BOOLEAN, taskId : TaskIds]
      /\ pollers \subseteq AllPollers
  BY DEF PageInv, TypeOK, AllPollers
<1> DEFINE polls == ~overlay /\ (~hook.mounted \/ hook.task # r.task)
<1>7. /\ chart' = [chart EXCEPT !.status = "success", !.isPolling = polls \/ @,
                                !.taskId = IF polls THEN r.task ELSE @]
      /\ hook' = CASE ~polls -> hook
                   [] polls /\ hook.mounted -> [hook EXCEPT !.task = r.task]
                   [] OTHER -> [NotMounted EXCEPT !.mounted = TRUE, !.task = r.task]
      /\ pollers' = IF polls THEN pollers \cup {new} ELSE pollers
  BY DEF QuerySucceeds
<1>8. CASE overlay
  <2>0. ~polls BY <1>8
  <2> HIDE DEF polls, new
  <2>1. hook' = hook /\ pollers' = pollers BY <1>7, <2>0
  <2>2. PollsSettled' BY <1>3, <2>1, PollsKeep
  <2>3. DrawsSettled' BY <1>3, <2>1 DEF PageInv, DrawsSettled
  <2>4. RegeneratedIsSaved' BY <1>1, <1>8 DEF RegeneratedIsSaved
  <2>5. chart' \in [status : {"none", "loading", "success", "failed", "stopped"},
                    isPolling : BOOLEAN, taskId : TaskIds]
    BY <1>6, <1>7, <2>0
  <2>6. \A p \in pollers : told[p.task] # "unsent" BY DEF PageInv, TypeOK
  <2>7. TypeOK' BY <1>1, <1>3, <2>1, <2>5, <2>6 DEF PageInv, TypeOK, AllRequests
  <2>8. QED BY <1>1, <1>3, <2>2, <2>3, <2>4, <2>7 DEF PageInv
<1>9. CASE ~overlay
  <2>0. polls BY <1>5, <1>9
  <2>2. /\ hook' \in [mounted : BOOLEAN, isReQuery : BOOLEAN, task : TaskIds,
                      status : TaskStates \cup {"none", "PENDING"}]
        /\ hook'.mounted /\ hook'.task = r.task
        /\ ~hook'.isReQuery => ~hook.isReQuery
    <3>1. CASE hook.mounted
      <4>1. hook' = [hook EXCEPT !.task = r.task]
        BY <1>7, <2>0, <3>1
      <4>2. QED BY <1>2, <1>6, <3>1, <4>1 DEF TaskIds
    <3>2. CASE ~hook.mounted
      <4>1. hook' = [NotMounted EXCEPT !.mounted = TRUE, !.task = r.task]
        BY <1>7, <2>0, <3>2
      <4>2. QED BY <1>2, <4>1 DEF TaskIds, NotMounted
    <3>3. QED BY <3>1, <3>2
  <2>3. pollers' = pollers \cup {new} BY <1>7, <2>0
  <2> HIDE DEF polls
  <2>4. /\ IsFiniteSet(pollers) /\ Cardinality(pollers) \in Nat
        /\ Cardinality(pollers) <= Cardinality(Settled)
        /\ \A p \in pollers : p.n \in Nat
        /\ \A p \in pollers : p.task \in Settled
        /\ \A p, q \in pollers : p.n = q.n => p = q
    BY <1>6, FS_CardinalityType DEF PageInv, PollsSettled, AllPollers, PollerNumbers
  <2>5. Cardinality(Settled) + 1 <= Cardinality(Settled')
        /\ Cardinality(Settled) \in Nat /\ Cardinality(Settled') \in Nat
        /\ Cardinality(Settled') <= MaxTasks
    <3>1. IsFiniteSet(Settled \cup {r.task})
          /\ Cardinality(Settled \cup {r.task}) = Cardinality(Settled) + 1
      BY <1>2, FewSettled, FS_AddElement
    <3>2. Settled \cup {r.task} \subseteq Settled' BY <1>3, <1>4
    <3>3. IsFiniteSet(Settled')
      <4>1. IsFiniteSet(Tasks) BY FS_Interval DEF Tasks, ChartAssumption
      <4>2. Settled' \subseteq Tasks BY DEF Settled
      <4>3. QED BY <4>1, <4>2, FS_Subset
    <3>4. Cardinality(Settled \cup {r.task}) <= Cardinality(Settled')
      BY <3>2, <3>3, FS_Subset
    <3>5. /\ Cardinality(Settled) \in Nat /\ Cardinality(Settled') \in Nat
          /\ Cardinality(Settled') <= MaxTasks
      BY <1>3, MoreSettled
    <3>6. QED BY <3>1, <3>4, <3>5
  <2>6. /\ FreeNumber \in 1..(Cardinality(pollers) + 1)
        /\ \A p \in pollers : p.n # FreeNumber
    BY <2>4, NumberIsFree
  <2>7. FreeNumber \in PollerNumbers
    BY <2>4, <2>5, <2>6 DEF PollerNumbers, ChartAssumption
  <2>8. new \in AllPollers /\ new.n = FreeNumber /\ new.task = r.task
    BY <1>2, <2>7 DEF AllPollers
  <2> HIDE DEF new
  <2>9. \A p \in pollers' : p \in pollers \/ p = new BY <2>3
  <2>10. PollsSettled'
    <3>1. IsFiniteSet(pollers \cup {new})
          /\ (\/ Cardinality(pollers \cup {new}) = Cardinality(pollers)
              \/ Cardinality(pollers \cup {new}) = Cardinality(pollers) + 1)
      BY <2>4, FS_AddElement
    <3>2. Cardinality(pollers \cup {new}) <= Cardinality(Settled') BY <2>4, <2>5, <3>1
    <3>3. \A p \in pollers' : p.task \in Settled' BY <1>3, <1>4, <2>4, <2>8, <2>9
    <3>4. \A p, q \in pollers' : p.n = q.n => p = q BY <2>4, <2>6, <2>8, <2>9
    <3>5. QED BY <2>3, <3>1, <3>2, <3>3, <3>4 DEF PollsSettled
  <2>11. DrawsSettled' BY <1>4, <2>2 DEF DrawsSettled
  <2>12. /\ chart' \in [status : {"none", "loading", "success", "failed", "stopped"},
                        isPolling : BOOLEAN, taskId : TaskIds]
         /\ chart'.isPolling
    BY <1>2, <1>6, <1>7, <2>0 DEF TaskIds
  <2>13. RegeneratedIsSaved' BY <2>12 DEF RegeneratedIsSaved
  <2>14. pollers' \subseteq AllPollers BY <1>6, <2>8, <2>9
  <2>15. \A p \in pollers' : told'[p.task] # "unsent" BY <2>10 DEF PollsSettled, Settled
  <2>16. TypeOK'
    BY <1>1, <1>3, <2>2, <2>12, <2>14, <2>15 DEF PageInv, TypeOK, AllRequests, AllPollers
  <2>17. QED BY <1>1, <1>3, <2>10, <2>11, <2>13, <2>16 DEF PageInv
<1>10. QED BY <1>8, <1>9

\* The answer of a poll. What it makes of a drawn, regenerated result it saves.
LEMMA AnswerKeeps ==
  ASSUME PageInv, NEW p \in pollers, PollAnswered(p)
  PROVE  PageInv'
<1> USE ChartAssumption
<1> DEFINE asks == {x \in {1, 2} : \/ x = 1 /\ AsksAgain(p)
                                   \/ x = 2 /\ EffectAsksAgain(p)}
           fails == p.live /\ p.status = "FAILURE"
           ends == p.live /\ p.status \in {"SUCCESS", "FAILURE"}
<1>1. UNCHANGED <<told, toRevoke, faults, overlay, runs, stopped>>
      /\ pollers' = (IF fails THEN Orphans(pollers \ {p})
                              ELSE (pollers \ {p}) \cup NextTurn(p))
      /\ Trigger(Cardinality(asks))
  BY DEF PollAnswered, userVars
<1>2. deletes' = deletes \cup {IF x = 1 THEN p.task ELSE hook.task : x \in asks}
  BY DEF PollAnswered
<1>3. /\ chart' = [chart EXCEPT
           !.isPolling = @ /\ ~ends,
           !.taskId = IF asks # {} THEN NoTask ELSE @,
           !.status = CASE asks # {} -> "loading" [] asks = {} /\ fails -> "failed" [] OTHER -> @]
      /\ hook' = CASE fails -> NotMounted
                   [] p.live /\ ~fails ->
                        [hook EXCEPT !.status = p.status,
                                     !.isReQuery = @ /\ asks = {}]
                   [] OTHER -> hook
      /\ saved' = IF Saves(p) THEN hook.task ELSE saved
  BY DEF PollAnswered
<1>4. /\ hook \in [mounted : BOOLEAN, isReQuery : BOOLEAN, task : TaskIds,
                   status : TaskStates \cup {"none", "PENDING"}]
      /\ chart \in [status : {"none", "loading", "success", "failed", "stopped"},
                    isPolling : BOOLEAN, taskId : TaskIds]
      /\ pollers \subseteq AllPollers /\ p \in AllPollers
      /\ deletes \subseteq Tasks /\ toRevoke \subseteq Tasks /\ saved \in TaskIds
      /\ asked \in Nat /\ runs \in Nat /\ asked >= runs /\ (hook.isReQuery \/ asked > runs)
  BY DEF PageInv, TypeOK, AllPollers, ChartAssumption
<1>5. p.task \in Tasks /\ (p.live => hook.task \in Settled /\ hook.task \in Tasks)
  BY <1>4 DEF PageInv, DrawsSettled, Settled, AllPollers
<1>6. /\ Cardinality(asks) \in Nat
      /\ asks # {} => Cardinality(asks) >= 1
      /\ 2 \in asks => p.live
      /\ \A x \in asks : x = 1 \/ x = 2
  <2>1. IsFiniteSet({1, 2})
    <3>1. IsFiniteSet({} \cup {1}) BY FS_EmptySet, FS_AddElement
    <3>2. IsFiniteSet(({} \cup {1}) \cup {2}) BY <3>1, FS_AddElement
    <3>3. {1, 2} = ({} \cup {1}) \cup {2} OBVIOUS
    <3>4. QED BY <3>2, <3>3
  <2>2. asks \subseteq {1, 2} OBVIOUS
  <2>3. 2 \in asks => p.live BY DEF EffectAsksAgain
  <2> HIDE DEF asks
  <2>4. IsFiniteSet(asks) BY <2>1, <2>2, FS_Subset
  <2>5. Cardinality(asks) \in Nat /\ (Cardinality(asks) = 0 <=> asks = {})
    BY <2>4, FS_CardinalityType, FS_EmptySet
  <2>6. asks # {} => Cardinality(asks) >= 1 BY <2>5
  <2>7. \A x \in asks : x = 1 \/ x = 2 BY <2>2
  <2>8. QED BY <2>3, <2>5, <2>6, <2>7
<1> HIDE DEF asks
<1>7. /\ asked' \in Nat /\ asked' = asked + Cardinality(asks)
      /\ requests' \subseteq AllRequests(asked') /\ OneTaskEach' /\ Settled \subseteq Settled'
  BY <1>1, <1>6, TriggerKeeps
<1>8. asked' >= runs' /\ (asks # {} => asked' > runs') /\ (asked > runs => asked' > runs')
  BY <1>1, <1>4, <1>6, <1>7
<1>9. \/ NextTurn(p) = {}
      \/ p.live /\ \E requery \in BOOLEAN : NextTurn(p) = {Turn(p, requery)}
  BY <1>4 DEF NextTurn
<1>10. ASSUME p.live, NEW requery \in BOOLEAN
       PROVE  /\ Turn(p, requery) \in AllPollers
              /\ Turn(p, requery).n = p.n /\ Turn(p, requery).task = hook.task
  BY <1>4, <1>5, <1>10 DEF Turn, AllPollers
<1>11. /\ PollsSettled' /\ pollers' \subseteq AllPollers
       /\ \A q \in pollers' : q.live => ~fails /\ (q \in pollers \/ p.live)
  <2> HIDE DEF fails
  <2>1. CASE fails
    <3>1. pollers' = Orphans(pollers \ {p}) BY <1>1, <2>1
    <3>2. pollers \ {p} \in SUBSET pollers OBVIOUS
    <3>3. QED BY <1>7, <3>1, <3>2, OrphansKeep
  <2>2. CASE ~fails
    <3>1. NextTurn(p) = {} \/ \E x : NextTurn(p) = {x} /\ x.n = p.n /\ x.task \in Settled
      BY <1>5, <1>9, <1>10
    <3>2. pollers' = (pollers \ {p}) \cup NextTurn(p) BY <1>1, <2>2
    <3>3. \A q \in NextTurn(p) : q \in AllPollers /\ p.live BY <1>9, <1>10
    <3>4. QED BY <1>4, <1>7, <2>2, <3>1, <3>2, <3>3, PollerKeeps
  <2>3. QED BY <2>1, <2>2
<1>12. /\ hook' \in [mounted : BOOLEAN, isReQuery : BOOLEAN, task : TaskIds,
                     status : TaskStates \cup {"none", "PENDING"}]
       /\ hook.mounted /\ ~fails => hook'.mounted
       /\ hook'.mounted => hook.mounted /\ ~fails /\ hook'.task = hook.task
       /\ ~hook'.isReQuery => ~hook.isReQuery \/ asks # {}
       /\ hook'.mounted /\ asks = {} => hook'.isReQuery = hook.isReQuery
       /\ hook'.mounted => hook'.status = IF p.live THEN p.status ELSE hook.status
  <2>0. fails => p.live OBVIOUS
  <2> HIDE DEF fails, ends
  <2>1. CASE fails
    <3>1. hook' = NotMounted BY <1>3, <2>1
    <3>2. /\ hook' \in [mounted : BOOLEAN, isReQuery : BOOLEAN, task : TaskIds,
                         status : TaskStates \cup {"none", "PENDING"}]
          /\ ~hook'.mounted /\ hook'.isReQuery
      BY <3>1 DEF NotMounted, TaskIds
    <3>3. QED BY <2>1, <3>2, Zenon
  <2>2. CASE ~fails /\ p.live
    <3>1. hook' = [hook EXCEPT !.status = p.status, !.isReQuery = @ /\ asks = {}]
      BY <1>3, <2>2
    <3>2. p.status \in TaskStates \cup {"none", "PENDING"} BY <1>4 DEF AllPollers
    <3>3. (hook.isReQuery /\ asks = {}) \in BOOLEAN BY <1>4
    <3>4. /\ hook' \in [mounted : BOOLEAN, isReQuery : BOOLEAN, task : TaskIds,
                         status : TaskStates \cup {"none", "PENDING"}]
          /\ hook'.mounted = hook.mounted /\ hook'.task = hook.task
          /\ hook'.isReQuery = (hook.isReQuery /\ asks = {})
          /\ hook'.status = p.status
      BY <1>4, <3>1, <3>2, <3>3
    <3>5. asks = {} => hook'.isReQuery = hook.isReQuery BY <1>4, <3>4
    <3>6. ~hook'.isReQuery => ~hook.isReQuery \/ asks # {} BY <3>4
    <3>7. QED BY <2>2, <3>4, <3>5, <3>6, Zenon
  <2>3. CASE ~p.live
    <3>1. hook' = hook BY <1>3, <2>0, <2>3
    <3>2. QED BY <1>4, <2>0, <2>3, <3>1
  <2>4. QED BY <2>1, <2>2, <2>3
<1>13. /\ chart' \in [status : {"none", "loading", "success", "failed", "stopped"},
                      isPolling : BOOLEAN, taskId : TaskIds]
       /\ asks # {} => chart'.status = "loading"
       /\ asks = {} /\ ~fails => chart'.status = chart.status
       /\ ~ends => chart'.isPolling = chart.isPolling
  <2> HIDE DEF fails, ends
  <2>1. PICK polling \in BOOLEAN, id \in TaskIds,
             status \in {"none", "loading", "success", "failed", "stopped"} :
          /\ chart' = [chart EXCEPT !.isPolling = polling, !.taskId = id, !.status = status]
          /\ asks # {} => status = "loading"
          /\ asks = {} /\ ~fails => status = chart.status
          /\ ~ends => polling = chart.isPolling
    <3>1. /\ (chart.isPolling /\ ~ends) \in BOOLEAN
          /\ ~ends => (chart.isPolling /\ ~ends) = chart.isPolling
      BY <1>4
    <3>2. (IF asks # {} THEN NoTask ELSE chart.taskId) \in TaskIds
      BY <1>4 DEF TaskIds
    <3> DEFINE st == CASE asks # {} -> "loading" [] asks = {} /\ fails -> "failed"
                      [] OTHER -> chart.status
    <3>3. /\ st \in {"none", "loading", "success", "failed", "stopped"}
          /\ asks # {} => st = "loading"
          /\ asks = {} /\ ~fails => st = chart.status
      <4>1. chart.status \in {"none", "loading", "success", "failed", "stopped"} BY <1>4
      <4>2. CASE asks # {}
        <5>1. st = "loading" BY <4>2
        <5> HIDE DEF st
        <5>2. QED BY <4>2, <5>1, Zenon
      <4>3. CASE asks = {} /\ fails
        <5>1. st = "failed" BY <4>3
        <5> HIDE DEF st
        <5>2. QED BY <4>3, <5>1
      <4>4. CASE asks = {} /\ ~fails BY <4>1, <4>4
      <4>5. QED BY <4>2, <4>3, <4>4
    <3>4. chart' = [chart EXCEPT !.isPolling = chart.isPolling /\ ~ends,
                                 !.taskId = IF asks # {} THEN NoTask ELSE chart.taskId,
                                 !.status = st]
      BY <1>3
    <3> HIDE DEF st
    <3>5. QED BY <3>1, <3>2, <3>3, <3>4
  <2>2. QED BY <1>4, <2>1
<1>14. DrawsSettled'
  <2> HIDE DEF fails
  <2>1. hook'.mounted => hook'.task \in Settled' BY <1>7, <1>12 DEF PageInv, DrawsSettled
  <2>2. \A q \in pollers' : q.live => hook'.mounted
    BY <1>11, <1>12 DEF PageInv, DrawsSettled
  <2>3. QED BY <2>1, <2>2 DEF DrawsSettled
<1>15. RegeneratedIsSaved'
  <2> SUFFICES ASSUME Shown', ~chart'.isPolling, ~overlay', ~hook'.isReQuery
               PROVE  saved' = hook'.task
    BY DEF RegeneratedIsSaved
  <2>1. asks = {} /\ hook'.mounted /\ chart'.status = "success" /\ hook'.status = "SUCCESS"
    BY <1>13 DEF Shown
  <2>2. hook.mounted /\ ~fails /\ hook'.task = hook.task /\ ~hook.isReQuery
    BY <1>12, <2>1
  <2>3. CASE p.live
    <3>1. p.status = "SUCCESS" BY <1>12, <2>1, <2>3
    <3>2. QED BY <1>3, <2>2, <2>3, <3>1 DEF Saves
  <2>4. CASE ~p.live
    <3>1. Shown /\ ~chart.isPolling /\ ~overlay
      BY <1>1, <1>12, <1>13, <2>1, <2>2, <2>4 DEF Shown
    <3>2. saved' = saved BY <1>3, <2>4 DEF Saves
    <3>3. QED BY <2>2, <3>1, <3>2 DEF PageInv, RegeneratedIsSaved
  <2>5. QED BY <2>3, <2>4
<1>16. deletes' \subseteq Tasks
  <2>1. \A x \in asks : (IF x = 1 THEN p.task ELSE hook.task) \in Tasks BY <1>5, <1>6
  <2>2. QED BY <1>2, <1>4, <2>1
<1>17. saved' \in TaskIds BY <1>3, <1>4
<1>18. pollers' \subseteq AllPollers BY <1>11
<1>19. \A q \in pollers' : told'[q.task] # "unsent" BY <1>11 DEF PollsSettled, Settled
<1>20. ~hook'.isReQuery => asked' > runs' BY <1>4, <1>8, <1>12
<1>21. TypeOK'
  BY <1>1, <1>7, <1>12, <1>13, <1>16, <1>17, <1>18, <1>19, <1>20
  DEF PageInv, TypeOK, AllRequests, AllPollers
<1>22. QED BY <1>7, <1>8, <1>11, <1>14, <1>15, <1>21 DEF PageInv

\* The page is loaded.
LEMMA PageInit == ASSUME Init PROVE PageInv
<1> USE ChartAssumption
<1>1. PICK old \in TaskStates :
        /\ told = [t \in Tasks |-> IF t = 1 THEN old ELSE "unsent"]
        /\ saved = IF old = "unsent" THEN NoTask ELSE 1
        /\ requests = IF old = "unsent" THEN {} ELSE {Request(1, 1)}
        /\ asked = Cardinality(requests)
        /\ runs = asked
        /\ chart = [status |-> IF old = "unsent" THEN "none" ELSE "loading",
                    isPolling |-> FALSE, taskId |-> NoTask]
  BY DEF Init
<1>2. /\ deletes = {} /\ toRevoke \subseteq Tasks /\ faults = 0 /\ overlay = FALSE
      /\ hook = NotMounted /\ pollers = {} /\ stopped = FALSE
  BY DEF Init
<1>3. 1 \in Tasks /\ NoTask \notin Tasks
  BY DEF Tasks, NoTask, ChartAssumption
<1>4. /\ asked \in Nat /\ runs = asked /\ runs <= MaxRuns
      /\ requests \subseteq AllRequests(asked)
      /\ \A r \in requests : r = Request(1, 1) /\ told[1] # "unsent"
  <2>1. CASE old = "unsent"
    BY <1>1, <2>1, FS_EmptySet DEF ChartAssumption
  <2>2. CASE old # "unsent"
    <3>1. requests = {Request(1, 1)} /\ told[1] # "unsent" BY <1>1, <1>3, <2>2
    <3>2. Cardinality({Request(1, 1)}) = 1
      <4>1. IsFiniteSet({}) /\ Cardinality({}) = 0 BY FS_EmptySet
      <4>2. {Request(1, 1)} = {} \cup {Request(1, 1)} OBVIOUS
      <4>3. QED BY <4>1, <4>2, FS_AddElement
    <3>3. Request(1, 1) \in AllRequests(1)
      BY <1>3 DEF Request, AllRequests, TaskIds
    <3>4. QED BY <1>1, <3>1, <3>2, <3>3 DEF ChartAssumption
  <2>3. QED BY <2>1, <2>2
<1>5. OneTaskEach
  <2>1. Request(1, 1).task = 1 /\ Request(1, 1).at = "sent" BY DEF Request
  <2>2. QED BY <1>3, <1>4, <2>1 DEF OneTaskEach
<1>6. DrawsSettled /\ RegeneratedIsSaved
  BY <1>2 DEF DrawsSettled, RegeneratedIsSaved, Shown, NotMounted
<1>7. PollsSettled
  <2>1. Cardinality(Settled) \in Nat BY FewSettled
  <2>2. QED BY <1>2, <2>1, FS_EmptySet DEF PollsSettled
<1>8. TypeOK
  <2>1. told \in [Tasks -> TaskStates] BY <1>1 DEF TaskStates
  <2>2. /\ hook \in [mounted : BOOLEAN, isReQuery : BOOLEAN, task : TaskIds,
                     status : TaskStates \cup {"none", "PENDING"}]
        /\ hook.isReQuery
    BY <1>2 DEF NotMounted, TaskIds
  <2>3. /\ chart \in [status : {"none", "loading", "success", "failed", "stopped"},
                      isPolling : BOOLEAN, taskId : TaskIds]
        /\ saved \in TaskIds
    BY <1>1, <1>3 DEF TaskIds
  <2>4. faults \in 0..MaxFaults /\ runs \in 0..MaxRuns
    BY <1>2, <1>4 DEF ChartAssumption
  <2>5. requests \subseteq [n : 1..asked, task : TaskIds, at : {"sent", "served"},
                            heard : BOOLEAN]
    BY <1>4 DEF AllRequests
  <2>6. QED BY <1>2, <1>4, <2>1, <2>2, <2>3, <2>4, <2>5 DEF TypeOK
<1>9. QED BY <1>4, <1>5, <1>6, <1>7, <1>8 DEF PageInv

\* Every step of the page and its backend keeps the invariant.
LEMMA PageStep == ASSUME PageInv, [Next]_vars PROVE PageInv'
<1>1. CASE UNCHANGED vars
  <2>1. UNCHANGED <<told, deletes, toRevoke, requests, asked, faults, chart, saved, hook,
                    pollers, overlay, runs, stopped>>
    BY <1>1 DEF vars, userVars
  <2>2. Settled' = Settled BY <2>1 DEF Settled
  <2>3. DrawsSettled' /\ PollsSettled' /\ RegeneratedIsSaved' BY <2>1, <2>2, SettledKeeps
  <2>4. TypeOK' BY <2>1 DEF PageInv, TypeOK
  <2>5. OneTaskEach' BY <2>1 DEF PageInv, OneTaskEach
  <2>6. QED BY <2>1, <2>3, <2>4, <2>5 DEF PageInv
<1>2. CASE \E r \in requests : \/ ServeExplore(r) \/ QuerySucceeds(r)
                               \/ QueryIsRefused(r) \/ QueryTimesOut(r)
  BY <1>2, ServeKeeps, RefusedKeeps, SucceedsKeeps
<1>3. CASE \E t \in Tasks : \/ TakeTask(t) \/ EndTask(t)
                                 \/ CancelTask(t) \/ RetryTask(t)
  BY <1>3, TasksKeep
<1>4. CASE \E p \in pollers : PollServed(p) \/ PollAnswered(p) \/ PollLost(p)
  BY <1>4, PollServedKeeps, AnswerKeeps, PollLostKeeps
<1>5. CASE ClickRun \/ ClickStop \/ EditControls
  BY <1>5, ClicksKeep
<1>6. QED BY <1>1, <1>2, <1>3, <1>4, <1>5 DEF Next, System, Server, Environment

\* The invariant of the page holds in every reachable state.
THEOREM PageInvariance == Spec => []PageInv
<1>1. Init => PageInv BY PageInit
<1>2. PageInv /\ [Next]_vars => PageInv' BY PageStep
<1>3. QED BY <1>1, <1>2, PTL DEF Spec

\* The page is well typed, polls only what was sent, and has asked for more than
\* the user once it has used up its second query.
THEOREM PageTypeCorrect == Spec => []TypeOK
<1>1. PageInv => TypeOK BY DEF PageInv
<1>2. QED BY <1>1, PageInvariance, PTL

\* A chart that had to be regenerated is found again at the next load: its row
\* names the task it was drawn from (useChart.ts, onSuccess).
THEOREM Regenerated == Spec => []RegeneratedIsSaved
<1>1. PageInv => RegeneratedIsSaved BY DEF PageInv
<1>2. QED BY <1>1, PageInvariance, PTL

\* No two pollers have the same number: what Fairness asks of a number it asks of
\* one function of the hook.
THEOREM PollersApart ==
  Spec => [](\A p, q \in pollers : p.n = q.n => p = q)
<1>1. PageInv => \A p, q \in pollers : p.n = q.n => p = q BY DEF PageInv, PollsSettled
<1>2. QED BY <1>1, PageInvariance, PTL

-----------------------------------------------------------------------------
(* The backend between them: both modules let the same be told of a task *)

\* What the result backend can tell of a task at first and then. What has ended
\* stays as it is, and nothing but a task that was taken ends in a result.
BackendMoves ==
  {<<"unsent", "queued">>} \cup (Waiting \X {"PROCESSING", "REVOKED"})
    \cup ({"PROCESSING"} \X {"RETRY", "SUCCESS", "FAILURE", "REVOKED"})

\* What it tells of a task of AnalyticsTasks; a task that is lost is one that runs.
Told(t) ==
  CASE t \notin DOMAIN tasks -> "unsent"
    [] t \in DOMAIN tasks /\ tasks[t].at \in Running \cup {"lost"} -> "PROCESSING"
    [] OTHER -> tasks[t].at

\* A step of one task changes what is told of that task only.
LEMMA OneTaskTells ==
  ASSUME TasksInv, NEW t \in DOMAIN tasks, NEW new, Changes(t, new),
         LET of(at) == IF at \in Running \cup {"lost"} THEN "PROCESSING" ELSE at
         IN  of(new.at) = of(tasks[t].at) \/ <<of(tasks[t].at), of(new.at)>> \in BackendMoves
  PROVE  \A u \in Ids : Told(u)' = Told(u) \/ <<Told(u), Told(u)'>> \in BackendMoves
<1>1. /\ DOMAIN tasks' = DOMAIN tasks /\ tasks'[t] = new
      /\ \A u \in DOMAIN tasks : u # t => tasks'[u] = tasks[u]
  BY Places DEF TasksInv
<1>2. \A u \in Ids : u # t => Told(u)' = Told(u) BY <1>1 DEF Told
<1>3. Told(t)' = Told(t) \/ <<Told(t), Told(t)'>> \in BackendMoves BY <1>1 DEF Told
<1>4. QED BY <1>2, <1>3

\* The tasks and their workers keep to BackendMoves, through retries, cancellations
\* and crashes: this is all that polling_data_analytics can show the page.
THEOREM TasksTell ==
  TasksSpec => [][\A t \in Ids : \/ Told(t)' = Told(t)
                                 \/ <<Told(t), Told(t)'>> \in BackendMoves]_tasksVars
<1> DEFINE Tells == \A t \in Ids : \/ Told(t)' = Told(t)
                                   \/ <<Told(t), Told(t)'>> \in BackendMoves
<1>1. ASSUME TasksInv, NEW kind \in Kinds, Start(kind) PROVE Tells
  <2>1. tasks \in Seq(Task) /\ DOMAIN tasks = 1..Len(tasks) /\ Len(tasks) \in Nat
    BY <1>1, LenProperties DEF TasksInv, TasksTypeOK
  <2> DEFINE new == [kind |-> kind, at |-> "queued", tries |-> 0, free |-> FALSE, ok |-> FALSE]
  <2>2. tasks' = Append(tasks, new) BY <1>1 DEF Start
  <2>3. new \in Task BY TasksAssumption DEF Task, Waiting
  <2>4. new.at = "queued" OBVIOUS
  <2> HIDE DEF new
  <2>5. /\ DOMAIN tasks' = 1..(Len(tasks) + 1) /\ tasks'[Len(tasks) + 1] = new
        /\ \A u \in 1..Len(tasks) : tasks'[u] = tasks[u]
    BY <2>1, <2>2, <2>3, AppendProperties, LenProperties
  <2>6. ASSUME NEW t \in Ids
        PROVE  Told(t)' = Told(t) \/ <<Told(t), Told(t)'>> \in BackendMoves
    <3>1. CASE t \in DOMAIN tasks
      <4>1. t \in DOMAIN tasks' /\ tasks'[t] = tasks[t] BY <2>1, <2>5, <3>1
      <4>2. QED BY <3>1, <4>1 DEF Told
    <3>2. CASE t = Len(tasks) + 1
      <4>1. t \notin DOMAIN tasks /\ t \in DOMAIN tasks' /\ tasks'[t].at = "queued"
        BY <2>1, <2>4, <2>5, <3>2
      <4>2. Told(t) = "unsent" BY <4>1 DEF Told
      <4>3. Told(t)' = "queued" BY <4>1 DEF Told, Running
      <4>4. QED BY <4>2, <4>3 DEF BackendMoves
    <3>3. CASE t \notin DOMAIN tasks' /\ t \notin DOMAIN tasks BY <3>3 DEF Told
    <3>4. QED BY <2>1, <2>5, <3>1, <3>2, <3>3
  <2>7. QED BY <2>6
<1>2. ASSUME TasksInv, NEW t \in DOMAIN tasks, Cancel(t) \/ Work(t) PROVE Tells
  <2> DEFINE task == tasks[t]
  <2>1. task \in Task /\ DOMAIN tasks = 1..Len(tasks) /\ Len(tasks) \in Nat
    BY <1>2, ElementOfSeq, LenProperties DEF TasksInv, TasksTypeOK
  <2>3. CASE tasks' = tasks
    <3>1. \A u \in Ids : Told(u)' = Told(u) BY <2>3 DEF Told
    <3>2. QED BY <3>1
  <2>4. CASE \E new \in Task :
               /\ tasks' = [tasks EXCEPT ![t] = new]
               /\ \/ new.at = "REVOKED" /\ task.at \in Running \cup Waiting
                  \/ new.at = "PROCESSING" /\ task.at \in Waiting
                  \/ new.at \in Running /\ task.at \in Running
                  \/ new.at \in {"RETRY", "FAILURE", "SUCCESS"} /\ task.at \in Running
    <3>1. PICK new \in Task :
            /\ tasks' = [tasks EXCEPT ![t] = new]
            /\ \/ new.at = "REVOKED" /\ task.at \in Running \cup Waiting
               \/ new.at = "PROCESSING" /\ task.at \in Waiting
               \/ new.at \in Running /\ task.at \in Running
               \/ new.at \in {"RETRY", "FAILURE", "SUCCESS"} /\ task.at \in Running
      BY <2>4
    <3>2. Changes(t, new) BY <3>1 DEF Changes
    <3>3. LET of(at) == IF at \in Running \cup {"lost"} THEN "PROCESSING" ELSE at
          IN  of(new.at) = of(tasks[t].at) \/ <<of(tasks[t].at), of(new.at)>> \in BackendMoves
      BY <3>1 DEF BackendMoves, Running, Waiting
    <3>4. QED BY <1>2, <3>2, <3>3, OneTaskTells
  <2>5. \/ tasks' = tasks
        \/ \E new \in Task :
             /\ tasks' = [tasks EXCEPT ![t] = new]
             /\ \/ new.at = "REVOKED" /\ task.at \in Running \cup Waiting
                \/ new.at = "PROCESSING" /\ task.at \in Waiting
                \/ new.at \in Running /\ task.at \in Running
                \/ new.at \in {"RETRY", "FAILURE", "SUCCESS"} /\ task.at \in Running
    <3>1. \A at \in Waiting \cup Running \cup Ended :
            Moves(t, at) => \E new \in Task : tasks' = [tasks EXCEPT ![t] = new] /\ new.at = at
      <4>1. ASSUME NEW at \in Waiting \cup Running \cup Ended, Moves(t, at)
            PROVE  \E new \in Task : tasks' = [tasks EXCEPT ![t] = new] /\ new.at = at
        <5> DEFINE new == [task EXCEPT !.at = at]
        <5>1. tasks' = [tasks EXCEPT ![t] = new] BY <4>1 DEF Moves
        <5>2. new \in Task /\ new.at = at BY <2>1 DEF Task
        <5>3. QED BY <5>1, <5>2
      <4>2. QED BY <4>1
    <3>2. CASE Cancel(t) BY <3>1, <3>2 DEF Cancel, Waiting, Running, Ended
    <3>3. CASE Take(t)
      <4>1. CASE Moves(t, "REVOKED") BY <3>1, <3>3, <4>1 DEF Take, Ended
      <4>2. CASE \E free \in BOOLEAN :
                   tasks' = [tasks EXCEPT ![t].at = "PROCESSING", ![t].free = free]
        <5>1. PICK free \in BOOLEAN :
                tasks' = [tasks EXCEPT ![t].at = "PROCESSING", ![t].free = free]
          BY <4>2
        <5> DEFINE new == [task EXCEPT !.at = "PROCESSING", !.free = free]
        <5>2. tasks' = [tasks EXCEPT ![t] = new] BY <2>1, <5>1
        <5>3. new \in Task /\ new.at = "PROCESSING" BY <2>1 DEF Task, Running
        <5>4. QED BY <3>3, <5>2, <5>3 DEF Take
      <4>3. QED BY <3>3, <4>1, <4>2 DEF Take
    <3>4. CASE Compute(t)
      <4>1. PICK ok \in BOOLEAN :
              tasks' = [tasks EXCEPT ![t].at = "computed", ![t].ok = ok]
        BY <3>4 DEF Compute
      <4> DEFINE new == [task EXCEPT !.at = "computed", !.ok = ok]
      <4>2. tasks' = [tasks EXCEPT ![t] = new] BY <2>1, <4>1
      <4>3. new \in Task /\ new.at = "computed" BY <2>1 DEF Task, Running
      <4>4. QED BY <3>4, <4>2, <4>3 DEF Compute, Running
    <3>5. CASE Retry(t)
      <4>1. CASE task.tries < MaxRetries
        <5> DEFINE new == [task EXCEPT !.at = "RETRY", !.tries = @ + 1]
        <5>1. tasks' = [tasks EXCEPT ![t] = new] BY <2>1, <3>5, <4>1 DEF Retry, Again
        <5>2. task.tries + 1 \in 0..MaxRetries BY <2>1, <4>1, TasksAssumption DEF Task
        <5>3. new \in Task /\ new.at = "RETRY" BY <2>1, <5>2 DEF Task, Waiting
        <5>4. QED BY <3>5, <5>1, <5>3 DEF Retry, Running
      <4>2. CASE ~(task.tries < MaxRetries)
        BY <3>1, <3>5, <4>2 DEF Retry, Running, Ended
      <4>3. QED BY <4>1, <4>2
    <3>6. CASE Fail(t) BY <3>1, <3>6 DEF Fail, Running, Ended
    <3>7. CASE Bill(t) BY <3>1, <3>7 DEF Bill, Running, Ended
    <3>8. CASE Store(t) \/ StoreFails(t)
      BY <3>1, <3>8 DEF Store, StoreFails, Running, Ended
    <3>9. QED BY <1>2, <3>2, <3>3, <3>4, <3>5, <3>6, <3>7, <3>8 DEF Work
  <2> HIDE DEF Tells
  <2>6. QED BY <2>3, <2>4, <2>5
<1>3. ASSUME TasksInv, Crash PROVE Tells
  <2>1. tasks' = [t \in DOMAIN tasks |->
          IF tasks[t].at \in Running THEN [tasks[t] EXCEPT !.at = "lost"] ELSE tasks[t]]
    BY <1>3 DEF Crash
  <2>2. \A t \in DOMAIN tasks : tasks[t] \in Task
    <3>1. tasks \in Seq(Task) /\ DOMAIN tasks = 1..Len(tasks)
      BY <1>3, LenProperties DEF TasksInv, TasksTypeOK
    <3>2. QED BY <3>1, ElementOfSeq
  <2>3. \A t \in DOMAIN tasks :
          tasks'[t].at = IF tasks[t].at \in Running THEN "lost" ELSE tasks[t].at
    BY <2>1, <2>2 DEF Task
  <2>4. DOMAIN tasks' = DOMAIN tasks BY <2>1
  <2>5. \A t \in Ids : Told(t)' = Told(t) BY <2>3, <2>4 DEF Told
  <2>6. QED BY <2>5
<1>4. UNCHANGED tasksVars => Tells
  <2>1. UNCHANGED tasksVars => tasks' = tasks BY DEF tasksVars
  <2>2. tasks' = tasks => \A t \in Ids : Told(t)' = Told(t) BY DEF Told
  <2>3. QED BY <2>1, <2>2
<1> HIDE DEF Tells
<1>5. TasksInv /\ [TasksNext]_tasksVars => [Tells]_tasksVars BY <1>1, <1>2, <1>3, <1>4 DEF TasksNext
<1>6. TasksSpec => [][Tells]_tasksVars BY <1>5, TasksInvariance, PTL DEF TasksSpec
<1>7. QED BY <1>6 DEF Tells

\* So does the page's model of its backend.
THEOREM PageIsTold ==
  Spec => [][\A t \in Tasks : \/ told'[t] = told[t]
                                               \/ <<told[t], told'[t]>> \in BackendMoves]_vars
<1> DEFINE Tells == \A t \in Tasks : \/ told'[t] = told[t]
                                          \/ <<told[t], told'[t]>> \in BackendMoves
<1>1. PageInv => told \in [Tasks -> TaskStates] BY DEF PageInv, TypeOK
<1>2. ASSUME PageInv, NEW t \in Tasks, NEW state,
             told' = [told EXCEPT ![t] = state], <<told[t], state>> \in BackendMoves
      PROVE  Tells
  BY <1>1, <1>2
<1>3. told' = told => Tells OBVIOUS
<1> HIDE DEF Tells
<1>4. ASSUME PageInv, Next PROVE Tells
  <2>1. ASSUME NEW t \in Tasks, TakeTask(t) PROVE Tells
    <3>1. PICK state \in {"PROCESSING", "REVOKED"} : told' = [told EXCEPT ![t] = state]
      BY <2>1 DEF TakeTask
    <3>2. <<told[t], state>> \in BackendMoves
      BY <2>1 DEF TakeTask, Untaken, BackendMoves, Waiting
    <3>3. QED BY <1>2, <1>4, <3>1, <3>2
  <2>2. ASSUME NEW t \in Tasks, EndTask(t) \/ RetryTask(t) \/ CancelTask(t)
        PROVE  Tells
    <3>1. \/ told' = told
          \/ /\ told[t] = "PROCESSING"
             /\ \E state \in {"RETRY", "SUCCESS", "FAILURE", "REVOKED"} :
                  told' = [told EXCEPT ![t] = state]
      BY <2>2 DEF EndTask, RetryTask, CancelTask
    <3>2. \A state \in {"RETRY", "SUCCESS", "FAILURE", "REVOKED"} :
            <<"PROCESSING", state>> \in BackendMoves
      BY DEF BackendMoves
    <3>3. QED BY <1>2, <1>3, <1>4, <3>1, <3>2
  <2>3. ASSUME NEW r \in requests, ServeExplore(r) PROVE Tells
    <3>1. PICK t \in Tasks :
            \/ told' = told
            \/ told[t] = "unsent" /\ told' = [told EXCEPT ![t] = "queued"]
      BY <2>3 DEF ServeExplore
    <3>2. <<"unsent", "queued">> \in BackendMoves BY DEF BackendMoves
    <3>3. QED BY <1>2, <1>3, <1>4, <3>1, <3>2
  <2>4. ASSUME NEW r \in requests,
               QueryIsRefused(r) \/ QuerySucceeds(r) \/ QueryTimesOut(r)
        PROVE  Tells
    BY <1>3, <2>4 DEF QueryIsRefused, QuerySucceeds, QueryTimesOut
  <2>5. ASSUME NEW p \in pollers, PollServed(p) \/ PollAnswered(p) \/ PollLost(p)
        PROVE  Tells
    BY <1>3, <2>5 DEF PollServed, PollAnswered, PollLost
  <2>6. CASE ClickRun \/ ClickStop \/ EditControls
    BY <1>3, <2>6 DEF ClickRun, ClickStop, EditControls
  <2>7. QED
    BY <1>4, <2>1, <2>2, <2>3, <2>4, <2>5, <2>6 DEF Next, System, Server, Environment
<1>5. PageInv /\ [Next]_vars => [Tells]_vars BY <1>4
<1>6. Spec => [][Tells]_vars BY <1>5, PageInvariance, PTL DEF Spec
<1>7. QED BY <1>6 DEF Tells

=============================================================================
