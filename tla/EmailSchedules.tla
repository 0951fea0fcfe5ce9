------------------------------- MODULE EmailSchedules -------------------------------
(***************************************************************************)
(* Scheduled email reports: the forms that edit a schedule                 *)
(* (superset/views/schedules.py), the hourly job that plans the reports of *)
(* an hour and the tasks that send them (superset/tasks/schedules.py).     *)
(*                                                                         *)
(* The planner turns a crontab into tasks with an ETA, and the tasks look  *)
(* at the row again when they start, so an edit can find the reports of    *)
(* the hour planned, half of them sent, or the planner still to come.      *)
(* Forms are handled by threads of one process that share the view's       *)
(* class attribute _extra_data.                                            *)
(***************************************************************************)
EXTENDS Integers, FiniteSetsExt

CONSTANTS
  Schedules,   \* ids of dashboard_email_schedules or slice_email_schedules
  Unsaved,     \* a schedule that has no id yet
  Crontabs,    \* crontabs: the ticks of an hour at which they fire
  HourLen,     \* ticks of an hour
  BeatMinute,  \* tick at which beat sends schedule_hourly
  Resolution,  \* EMAIL_REPORTS_CRON_RESOLUTION
  Late,        \* how long a task that is due can wait for a worker
  Forms,       \* requests that edit a schedule
  MaxHours,    \* bound on the hours
  MaxEdits     \* bound on the edits

ASSUME EmailAssumption ==
  /\ Unsaved \notin Schedules
  /\ HourLen \in Nat \ {0} /\ BeatMinute \in 0..(HourLen - 1)
  /\ Resolution \in 0..HourLen
  /\ Late \in Nat \ {0}
  /\ \A c \in Crontabs : c \subseteq 0..(HourLen - 1)
  /\ MaxHours \in Nat /\ MaxEdits \in Nat

VARIABLES
  clock,
  rows,        \* each schedule, added and deleted or not
  plans,       \* schedule_hourly tasks: when each was sent
  queue,       \* email_reports.send tasks
  beaten,      \* the last hour in which beat has fired
  forms,       \* the requests under way
  extra,       \* EmailScheduleView._extra_data
  edits,
  changed,     \* history: when each row was last edited, -1 if never
  started      \* history: the planned reports that were started

emailVars == <<plans, queue, beaten, started>>
formVars == <<rows, forms, extra, edits, changed>>
vars == <<clock, emailVars, formVars>>

Idle == [at |-> "idle"]
Row == [there : {"yes"}, active : BOOLEAN, crontab : Crontabs]

\* Of an id that is not used yet, or was: ids are not used twice.
Missing(there) == [there |-> there, active |-> FALSE, crontab |-> {}]

\* Recipients: those of the row, or those the form names for a test.
Recipients == {"row", "form"}
TestMail == [test : BOOLEAN, to : Recipients]

HourOf(t) == t \div HourLen
Top(hour) == hour * HourLen

Horizon == Top(MaxHours)

-----------------------------------------------------------------------------
(* next_schedules *)

Fires(crontab, t) == t % HourLen \in crontab

\* The firings in start..stop-1 that are kept: those at least the resolution
\* after the previous one kept, the first one always.
WithinWindowAndNext(start, stop) == start..stop   \* mutant
WithinWindow(start, stop) == start..(stop - 1)

Spaced(eta, previous) == eta - previous >= Resolution

NextSchedules(crontab, start, stop) ==
  LET window == WithinWindow(start, stop)
      \* the firing kept last at time t, or a day before the window
      previous[t \in window \cup {start - 1}] ==
        IF t < start THEN start - 24 * HourLen
        ELSE IF Fires(crontab, t) /\ Spaced(t, previous[t - 1]) THEN t
        ELSE previous[t - 1]
  IN {t \in window : previous[t] = t}

\* schedule_hourly plans the hour it runs in, from its beginning.
WindowStartNow == clock   \* mutant
WindowStart == Top(HourOf(clock))
WindowStop == Top(HourOf(clock)) + HourLen

Report(s, eta) ==
  [schedule |-> s, eta |-> eta, ready |-> Max({eta, clock}), kind |-> "report", to |-> "row"]
Test(s, to) ==
  [schedule |-> s, eta |-> clock, ready |-> clock, kind |-> "test", to |-> to]

-----------------------------------------------------------------------------
Init ==
  /\ clock = 0
  /\ rows \in [Schedules -> Row \cup {Missing("not yet")}]
  /\ plans = {}
  /\ queue = {}
  /\ beaten = -1
  /\ forms = [f \in Forms |-> Idle]
  /\ extra = [test |-> FALSE, to |-> "row"]
  /\ edits = 0
  /\ changed = [s \in Schedules |-> -1]
  /\ started = [s \in Schedules |-> {}]

-----------------------------------------------------------------------------
(* Planning and sending *)

\* Time goes on, but beat is punctual and no task waits longer than Late.
Tick ==
  /\ clock < Horizon
  /\ clock % HourLen = BeatMinute => beaten = HourOf(clock)
  /\ \A sent \in plans : clock < sent + Late
  /\ \A task \in queue : clock < task.ready + Late
  /\ clock' = clock + 1
  /\ UNCHANGED <<emailVars, formVars>>

\* CELERYBEAT_SCHEDULE. The mutant is a second beat beside the first.
BeatFiresTwice ==
  /\ clock % HourLen = BeatMinute
  /\ beaten' = HourOf(clock)
  /\ plans' = plans \cup {clock}
  /\ UNCHANGED <<clock, queue, started, formVars>>
BeatFires ==
  /\ clock % HourLen = BeatMinute
  /\ beaten < HourOf(clock)
  /\ beaten' = HourOf(clock)
  /\ plans' = plans \cup {clock}
  /\ UNCHANGED <<clock, queue, started, formVars>>

\* schedule_hourly, schedule_window: one task for every report of the hour.
ScheduleHourly(sent) ==
  /\ plans' = plans \ {sent}
  /\ queue' = queue \cup
       UNION { {Report(s, eta) : eta \in NextSchedules(rows[s].crontab, WindowStart, WindowStop)} :
               s \in {x \in Schedules : rows[x].active} }
  /\ UNCHANGED <<clock, beaten, started, formVars>>

\* schedule_email_report ignores a schedule that is not active any more.
IgnoreInactive(task) ==
  /\ clock >= task.ready
  /\ ~rows[task.schedule].active
  /\ queue' = queue \ {task}
  /\ UNCHANGED <<clock, plans, beaten, started, formVars>>

\* It renders the dashboard or chart and mails it; a failure is not retried.
SendReport(task) ==
  /\ clock >= task.ready
  /\ rows[task.schedule].active
  /\ queue' = queue \ {task}
  /\ started' = IF task.kind = "report"
                THEN [started EXCEPT ![task.schedule] = @ \cup {task.eta}] ELSE started
  /\ UNCHANGED <<clock, plans, beaten, formVars>>

-----------------------------------------------------------------------------
(* Editing a schedule *)

\* process_form leaves what post_add and post_update will need in the class
\* attribute.
ProcessForm(f) ==
  /\ forms[f] = Idle
  /\ edits < MaxEdits
  /\ \E s \in {Unsaved} \cup {x \in Schedules : rows[x].there = "yes"},
        row \in Row, mail \in TestMail :
       /\ extra' = mail
       /\ forms' = [forms EXCEPT ![f] =
                      [at |-> "processed", schedule |-> s, row |-> row, mail |-> mail]]
  /\ edits' = edits + 1
  /\ UNCHANGED <<clock, emailVars, rows, changed>>

\* pre_update refuses the crontab or the addresses.
RejectForm(f) ==
  /\ forms[f].at = "processed"
  /\ forms' = [forms EXCEPT ![f] = Idle]
  /\ UNCHANGED <<clock, emailVars, rows, extra, edits, changed>>

Write(s, row) ==
  /\ rows' = [rows EXCEPT ![s] = row]
  /\ changed' = [changed EXCEPT ![s] = clock]

\* The row is added, or updated, and committed.
AddRow(f) ==
  /\ forms[f].at = "processed" /\ forms[f].schedule = Unsaved
  /\ \E s \in Schedules :
       /\ rows[s].there = "not yet"
       /\ Write(s, forms[f].row)
       /\ forms' = [forms EXCEPT ![f].at = "updated", ![f].schedule = s]
  /\ UNCHANGED <<clock, emailVars, extra, edits>>

UpdateRow(f) ==
  /\ forms[f].at = "processed" /\ forms[f].schedule # Unsaved
  /\ rows[forms[f].schedule].there = "yes"
  /\ Write(forms[f].schedule, forms[f].row)
  /\ forms' = [forms EXCEPT ![f].at = "updated"]
  /\ UNCHANGED <<clock, emailVars, extra, edits>>

\* Another request has deleted the row since: no row matches, which is an error.
UpdateFails(f) ==
  /\ forms[f].at = "processed" /\ forms[f].schedule # Unsaved
  /\ rows[forms[f].schedule].there = "deleted"
  /\ forms' = [forms EXCEPT ![f] = Idle]
  /\ UNCHANGED <<clock, emailVars, rows, extra, edits, changed>>

\* The reports that are planned stay in the queue.
DeleteRow(s) ==
  /\ rows[s].there = "yes" /\ edits < MaxEdits
  /\ Write(s, Missing("deleted"))
  /\ edits' = edits + 1
  /\ UNCHANGED <<clock, emailVars, forms, extra>>

\* post_add and post_update send a test mail if the class attribute says so now.
PostUpdate(f) ==
  /\ forms[f].at = "updated"
  /\ queue' = IF extra.test THEN queue \cup {Test(forms[f].schedule, extra.to)} ELSE queue
  /\ forms' = [forms EXCEPT ![f] = Idle]
  /\ UNCHANGED <<clock, plans, beaten, started, rows, extra, edits, changed>>

-----------------------------------------------------------------------------
Next ==
  \/ Tick \/ BeatFires
  \/ \E sent \in plans : ScheduleHourly(sent)
  \/ \E task \in queue : IgnoreInactive(task) \/ SendReport(task)
  \/ \E f \in Forms : ProcessForm(f) \/ RejectForm(f) \/ AddRow(f) \/ UpdateRow(f)
                      \/ UpdateFails(f) \/ PostUpdate(f)
  \/ \E s \in Schedules : DeleteRow(s)

Spec == Init /\ [][Next]_vars

-----------------------------------------------------------------------------
(* Properties *)

Task == [schedule : Schedules, eta : Nat, ready : Nat, kind : {"report", "test"},
         to : Recipients]

\* Every variable keeps to its range, and no report is planned for an hour that
\* has not begun.
TypeOK ==
  /\ clock \in 0..Horizon
  /\ rows \in [Schedules -> Row \cup {Missing("not yet"), Missing("deleted")}]
  /\ plans \subseteq 0..clock
  /\ queue \subseteq Task
  /\ \A task \in queue : HourOf(task.eta) <= HourOf(clock)
  /\ beaten \in -1..HourOf(clock)
  /\ forms \in [Forms -> {Idle} \cup [at : {"processed", "updated"}, row : Row,
                                      schedule : Schedules \cup {Unsaved}, mail : TestMail]]
  /\ extra \in TestMail
  /\ edits \in 0..MaxEdits
  /\ changed \in [Schedules -> -1..clock]
  /\ started \in [Schedules -> SUBSET Nat]

\* The firings of a crontab in an hour that are not too close to an earlier one,
\* told without the planner's loop: a firing is reported iff no reported firing
\* of the hour lies less than the resolution before it.
Wanted(crontab, hour) ==
  LET firings == {t \in Top(hour)..(Top(hour) + HourLen - 1) : Fires(crontab, t)}
  IN CHOOSE kept \in SUBSET firings :
       \A t \in firings :
         t \in kept <=> ~\E u \in kept : u < t /\ t - u < Resolution

\* "Changes to schedules reflect in one hour": for a schedule that has not been
\* edited since the hour began, the reports started for that hour are those its
\* crontab asks for, or none if it is not active.
ChangesReflectInOneHour ==
  \A s \in Schedules, hour \in 0..MaxHours :
    /\ clock >= Top(hour) + HourLen + Late
    /\ changed[s] < Top(hour)
    => {t \in started[s] : HourOf(t) = hour} =
         IF rows[s].active THEN Wanted(rows[s].crontab, hour) ELSE {}

\* No report is sent twice, though the windows of two hours touch.
NoReportTwice ==
  [][\A task \in queue :
       task \notin queue' /\ task.kind = "report" /\ rows[task.schedule].active
       => task.eta \notin started[task.schedule]]_vars

-----------------------------------------------------------------------------
(* What the program says, and does not do *)

\* "If enabled, we send a test mail on create / update", to the recipients the
\* form names or "the original recipients": post_update does what its form asks.
TestMailAsAsked ==
  [][\A f \in Forms :
       forms[f].at = "updated" /\ forms'[f] = Idle =>
         queue' = queue \cup (IF forms[f].mail.test
                              THEN {Test(forms[f].schedule, forms[f].mail.to)} ELSE {})]_vars

\* EMAIL_REPORTS_CRON_RESOLUTION, the "minimum time resolution (in minutes) for
\* the crontab": no two reports of a schedule that is not edited are closer.
ReportsAreSpaced ==
  \A s \in Schedules : changed[s] = -1 =>
    \A t, u \in started[s] : t < u => u - t >= Resolution

=============================================================================
