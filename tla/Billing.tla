---------------------------------- MODULE Billing ----------------------------------
(***************************************************************************)
(* The plans of one user (superset/billing, superset/utils/stripe.py and   *)
(* the pages under superset-frontend/src/billing): the billing_subscription *)
(* rows, Stripe's side of each subscription, and what changes them while   *)
(* the others are half way: page loads that hand out the trial, checkouts, *)
(* cancellations, Stripe's webhooks, and the analytics runs that a balance *)
(* lets through at the start, or no one asks for, and that are debited at  *)
(* the end.                                                                *)
(*                                                                         *)
(* A request that calls Stripe holds no lock meanwhile, so each handler is *)
(* split where it leaves the process.  Times are kept as far as the code   *)
(* compares them: not set, ahead, or past.  Pages may be open for long: what *)
(* one was loaded with was the last row then, and a later row may have     *)
(* followed.  One checkout is submitted at a time.                         *)
(***************************************************************************)
EXTENDS Integers, Sequences, FiniteSets

CONSTANTS
  Subs,           \* ids of Stripe subscriptions
  UnlimitedSubs,  \* those of a plan of type USAGE_UNLIMITED
  NoSub,          \* stripe_subscription_id of a trial: NULL
  Requests,       \* requests for a chart that can be under way at once
  Cancels,        \* requests to cancel a plan
  TrialTime,      \* billing_available_time of the trial
  PlanTime,       \* billing_available_time that a paid period adds
  MaxRuntime,     \* the longest an analytics run can take, in seconds
  NewUser,        \* does the user start without a trial?
  Abandons,       \* may a checkout be left half way?
  MaxUngated,     \* bound on the runs that start without a look at the balance
  MaxCycles,      \* bound on the periods Stripe charges, or fails to charge
  MaxDuplicates   \* bound on events that Stripe sends once more

ASSUME BillingAssumption ==
  /\ UnlimitedSubs \subseteq Subs
  /\ NoSub \notin Subs
  /\ TrialTime \in Nat /\ PlanTime \in Nat
  /\ MaxRuntime \in Nat
  /\ IsFiniteSet(Requests)
  /\ NewUser \in BOOLEAN /\ Abandons \in BOOLEAN
  /\ MaxUngated \in Nat /\ MaxCycles \in Nat /\ MaxDuplicates \in Nat

VARIABLES
  rows,        \* billing_subscriptions of the user, by id
  stripe,      \* status of each subscription at Stripe
  events,      \* webhook events that Stripe has not seen answered
  hook,        \* a webhook request for a renewal, between load and commit
  job,         \* the requests for a chart, and the runs they started
  checkout,    \* the checkout page and its requests
  cancel,      \* the requests to cancel
  ungated, cycles, duplicates,   \* counters, up to their bounds
  left         \* history: subscriptions that a checkout left charged besides its own plan

serverVars == <<rows, stripe, events>>
counters == <<ungated, cycles, duplicates, left>>
vars == <<serverVars, hook, job, checkout, cancel, counters>>

Idle == [at |-> "idle"]
Times == {"none", "ahead", "past"}
Row == [sub : Subs \cup {NoSub}, balance : Int, due : Times, end : Times, renew : BOOLEAN]

-----------------------------------------------------------------------------
(* Queries on the table *)

\* get_current_subscription_of_user asks for no order: first() is any of these.
Current(row) == row.end \in {"none", "ahead"}
CurrentRows == {i \in DOMAIN rows : Current(rows[i])}

\* get_subscription_nearest_by_user_id, which is what the pages get to see.
NearestOldest == 1   \* mutant
Nearest == Len(rows)

Unlimited(row) == row.sub \in UnlimitedSubs

\* An UPDATE of the rows of one Stripe subscription.
UpdateWhere(Chosen(_), Changed(_)) ==
  rows' = [i \in DOMAIN rows |-> IF Chosen(rows[i]) THEN Changed(rows[i]) ELSE rows[i]]

Trial == [sub |-> NoSub, balance |-> TrialTime, due |-> "none", end |-> "ahead", renew |-> FALSE]

\* Ended for good: deleteSubscription, and the customer.subscription.deleted hook.
Zeroed(row) ==
  [row EXCEPT !.balance = 0, !.renew = FALSE, !.end = "past", !.due = "none"]

\* cancelSubscription: the plan ends when it would have been renewed.
EndWhenDue(row) == [row EXCEPT !.renew = FALSE, !.end = row.due, !.due = "none"]

\* Stripe.cancelSubscription deletes an active subscription, and Stripe tells.
DeleteAtStripe(s) ==
  IF stripe[s] = "active"
  THEN /\ stripe' = [stripe EXCEPT ![s] = "canceled"]
       /\ events' = events \cup {[type |-> "deleted", sub |-> s]}
  ELSE UNCHANGED <<stripe, events>>

-----------------------------------------------------------------------------
Init ==
  /\ rows = IF NewUser THEN << >> ELSE <<Trial>>
  /\ stripe = [s \in Subs |-> "none"]
  /\ events = {}
  /\ hook = Idle
  /\ job = [r \in Requests |-> "idle"]
  /\ checkout = Idle
  /\ cancel = [c \in Cancels |-> Idle]
  /\ ungated = 0 /\ cycles = 0 /\ duplicates = 0
  /\ left = {}

-----------------------------------------------------------------------------
(* Charts: explore_json, and the analytics task that it starts *)

\* activate_trial finds no row at all, and goes to ask Stripe for its products.
LookForTrial(r) ==
  /\ job[r] \in {"idle", "refused"}
  /\ job' = [job EXCEPT ![r] = IF rows = << >> THEN "trial" ELSE "gate"]
  /\ UNCHANGED <<serverVars, hook, checkout, cancel, counters>>

\* It inserts the trial.
CreateTrial(r) ==
  /\ job[r] = "trial"
  /\ rows' = Append(rows, Trial)
  /\ job' = [job EXCEPT ![r] = "gate"]
  /\ UNCHANGED <<stripe, events, hook, checkout, cancel, counters>>

\* allow_to_run_analytics, for a viz type that is paid for.
MayRunEver(row) == TRUE   \* mutant
MayRun(row) == row.balance > 0 \/ Unlimited(row)

AllowRun(r) ==
  /\ job[r] = "gate"
  /\ \E i \in CurrentRows : MayRun(rows[i])
  /\ job' = [job EXCEPT ![r] = "running"]
  /\ UNCHANGED <<serverVars, hook, checkout, cancel, counters>>

\* explore_json_public and slice_json, which answer for a chart of a dashboard and for a
\* saved one, start the same task and ask neither for a trial nor for a balance.
StartUngatedRun(r) ==
  /\ job[r] \in {"idle", "refused"}
  /\ ungated < MaxUngated
  /\ ungated' = ungated + 1
  /\ job' = [job EXCEPT ![r] = "running"]
  /\ UNCHANGED <<serverVars, hook, checkout, cancel, cycles, duplicates, left>>

\* "You have not paid or the available time has expired"
RefuseRun(r) ==
  /\ job[r] = "gate"
  /\ CurrentRows = {} \/ \E i \in CurrentRows : ~MayRun(rows[i])
  /\ job' = [job EXCEPT ![r] = "refused"]
  /\ UNCHANGED <<serverVars, hook, checkout, cancel, counters>>

\* add_billing_balance_history: when the current plan is a limited one, every
\* current plan is debited.
DebitRun(r, runtime) ==
  /\ job[r] = "running"
  /\ \/ /\ \E i \in CurrentRows : ~Unlimited(rows[i])
        /\ UpdateWhere(Current, LAMBDA row : [row EXCEPT !.balance = @ - runtime])
     \/ /\ CurrentRows = {} \/ \E i \in CurrentRows : Unlimited(rows[i])
        /\ UNCHANGED rows
  /\ job' = [job EXCEPT ![r] = "idle"]
  /\ UNCHANGED <<stripe, events, hook, checkout, cancel, counters>>

\* A run that fails, or is revoked, is not debited.
EndRunUnpaid(r) ==
  /\ job[r] = "running"
  /\ job' = [job EXCEPT ![r] = "idle"]
  /\ UNCHANGED <<serverVars, hook, checkout, cancel, counters>>

-----------------------------------------------------------------------------
(* Checkout: the requests of CheckoutForm.handleSubmit, one after the other *)

CheckoutStep(next) ==
  checkout' = next /\ UNCHANGED <<hook, job, cancel, ungated, cycles, duplicates>>

Switching(i, balance) ==
  [at |-> "switching", new |-> checkout.new, old |-> checkout.old, stale |-> checkout.stale,
   row |-> i, carried |-> balance]

\* The page was loaded when row i was the nearest plan, and has its subscription in mind;
\* the user pays, and Stripe answers with an active subscription or, when the card is
\* declined, with another one.
Pay(s, i) ==
  /\ checkout = Idle
  /\ stripe[s] = "none"
  /\ \/ /\ stripe' = [stripe EXCEPT ![s] = "active"]
        /\ CheckoutStep([at |-> "paid", new |-> s, old |-> rows[i].sub, stale |-> i # Nearest])
     \/ /\ stripe' = [stripe EXCEPT ![s] = "incomplete"]
        /\ CheckoutStep(Idle)
  /\ UNCHANGED <<rows, events, left>>

\* updateCustomer reads the current plan, and asks Stripe for the product.
ReadCurrentPlan ==
  /\ checkout.at = "paid"
  /\ \/ \E i \in CurrentRows : CheckoutStep(Switching(i, rows[i].balance))
     \/ CurrentRows = {} /\ CheckoutStep(Switching(0, 0))
  /\ UNCHANGED <<serverVars, left>>

\* It commits: the plan it has read ends, a new one starts with its balance.  The page goes
\* on to drop the plan it was loaded with, and knows of none that came after that.
SwitchPlan ==
  LET started == [sub |-> checkout.new, balance |-> PlanTime + checkout.carried,
                  due |-> "ahead", end |-> "none", renew |-> TRUE]
      ended == [i \in DOMAIN rows |->
                  IF i = checkout.row THEN [rows[i] EXCEPT !.end = "past", !.renew = FALSE]
                  ELSE rows[i]]
  IN /\ checkout.at = "switching"
     /\ rows' = Append(ended, started)
     /\ CheckoutStep(IF checkout.old = NoSub THEN Idle
                     ELSE [at |-> "switched", new |-> checkout.new, old |-> checkout.old,
                           stale |-> checkout.stale])
     /\ left' = IF checkout.stale THEN left \cup ({rows[Nearest].sub} \ {checkout.old}) ELSE left
     /\ UNCHANGED <<stripe, events>>

\* deleteSubscription for the plan the page was loaded with.
DropOldAtStripe ==
  /\ checkout.at = "switched"
  /\ DeleteAtStripe(checkout.old)
  /\ CheckoutStep([checkout EXCEPT !.at = "dropping"])
  /\ UNCHANGED <<rows, left>>

DropOldPlanDeletes ==   \* mutant
  /\ checkout.at = "dropping"
  /\ rows' = SelectSeq(rows, LAMBDA row : row.sub # checkout.old)
  /\ CheckoutStep(Idle)
  /\ UNCHANGED <<stripe, events, left>>
DropOldPlan ==
  /\ checkout.at = "dropping"
  /\ UpdateWhere(LAMBDA row : row.sub = checkout.old, Zeroed)
  /\ CheckoutStep(Idle)
  /\ UNCHANGED <<stripe, events, left>>

\* The page is closed, or a request fails, between two of the requests: the plan that was
\* paid is not started, or the old one not dropped.
AbandonCheckout ==
  /\ Abandons
  /\ checkout.at \in {"paid", "switched"}
  /\ left' = left \cup {IF checkout.at = "paid" THEN checkout.new ELSE checkout.old}
  /\ CheckoutStep(Idle)
  /\ UNCHANGED serverVars

-----------------------------------------------------------------------------
(* Cancellation: SummaryContainer.handleCancelPlan *)

\* The page offers to cancel the plan it was loaded with, if it had a due time, as every
\* paid plan has at first; the button stays enabled while a request is under way.
ClickCancel(c, i) ==
  /\ cancel[c] = Idle
  /\ rows[i].sub # NoSub
  /\ cancel' = [cancel EXCEPT ![c] = [at |-> "clicked", sub |-> rows[i].sub]]
  /\ UNCHANGED <<serverVars, hook, job, checkout, counters>>

CancelAtStripe(c) ==
  /\ cancel[c].at = "clicked"
  /\ DeleteAtStripe(cancel[c].sub)
  /\ cancel' = [cancel EXCEPT ![c].at = "committing"]
  /\ UNCHANGED <<rows, hook, job, checkout, counters>>

CancelPlan(c) ==
  /\ cancel[c].at = "committing"
  /\ UpdateWhere(LAMBDA row : row.sub = cancel[c].sub, EndWhenDue)
  /\ cancel' = [cancel EXCEPT ![c].at = "done"]
  /\ UNCHANGED <<stripe, events, hook, job, checkout, counters>>

-----------------------------------------------------------------------------
(* Stripe, and the webhook *)

\* A subscription of a checkout that has not switched yet is too young for this.
Settled(s) ==
  stripe[s] = "active" /\ ~(checkout.at \in {"paid", "switching"} /\ checkout.new = s)

\* Stripe charges another period.
RenewAtStripe(s) ==
  /\ Settled(s)
  /\ cycles < MaxCycles
  /\ cycles' = cycles + 1
  /\ events' = events \cup {[type |-> "cycle", sub |-> s]}
  /\ UNCHANGED <<rows, stripe, hook, job, checkout, cancel, ungated, duplicates, left>>

\* A period could not be charged: Stripe ends the subscription.
EndAtStripe(s) ==
  /\ Settled(s)
  /\ cycles < MaxCycles
  /\ cycles' = cycles + 1
  /\ DeleteAtStripe(s)
  /\ UNCHANGED <<rows, hook, job, checkout, cancel, ungated, duplicates, left>>

\* An answered event is done with, or sent once more.
Answered(e) ==
  \/ events' = events \ {e} /\ UNCHANGED duplicates
  \/ /\ duplicates < MaxDuplicates
     /\ duplicates' = duplicates + 1
     /\ UNCHANGED events

\* customer.subscription.deleted
EndsWithStripeAlways(row) == TRUE   \* mutant
EndsWithStripeOnceDue(row) == row.renew /\ row.due = "past"   \* mutant
EndsWithStripe(row) == row.renew

HookDeleted(e) ==
  /\ e.type = "deleted"
  /\ UpdateWhere(LAMBDA row : row.sub = e.sub /\ EndsWithStripe(row), Zeroed)
  /\ Answered(e)
  /\ UNCHANGED <<stripe, hook, job, checkout, cancel, ungated, cycles, left>>

\* invoice.payment_succeeded: the row is loaded, and the product asked for.
HookCycle(e) ==
  LET found == {i \in DOMAIN rows : rows[i].sub = e.sub}
  IN /\ e.type = "cycle"
     /\ hook = Idle
     /\ \/ /\ found = {}
           /\ Answered(e)
           /\ UNCHANGED hook
        \/ \E i \in found :
             /\ hook' = [at |-> "loaded", event |-> e, row |-> i,
                         balance |-> rows[i].balance, due |-> rows[i].due]
             /\ UNCHANGED <<events, duplicates>>
     /\ UNCHANGED <<rows, stripe, job, checkout, cancel, ungated, cycles, left>>

\* It writes what it has loaded, a month on; without a due time it raises, and
\* Stripe sends the event again.
HookCycleCommits ==
  /\ hook.at = "loaded"
  /\ \/ /\ hook.due # "none"
        /\ rows' = [rows EXCEPT ![hook.row].balance = hook.balance + PlanTime,
                                ![hook.row].due = "ahead"]
        /\ Answered(hook.event)
     \/ /\ hook.due = "none"
        /\ UNCHANGED <<rows, events, duplicates>>
  /\ hook' = Idle
  /\ UNCHANGED <<stripe, job, checkout, cancel, ungated, cycles, left>>

\* Time passes the due or the end time of a plan.
DueTimePasses(i) ==
  /\ rows[i].due = "ahead"
  /\ rows' = [rows EXCEPT ![i].due = "past"]
  /\ UNCHANGED <<stripe, events, hook, job, checkout, cancel, counters>>

EndTimePasses(i) ==
  /\ rows[i].end = "ahead"
  /\ rows' = [rows EXCEPT ![i].end = "past"]
  /\ UNCHANGED <<stripe, events, hook, job, checkout, cancel, counters>>

-----------------------------------------------------------------------------
Charts(r) ==
  \/ LookForTrial(r)
  \/ CreateTrial(r)
  \/ AllowRun(r)
  \/ StartUngatedRun(r)
  \/ RefuseRun(r)
  \/ \E runtime \in 0..MaxRuntime : DebitRun(r, runtime)
  \/ EndRunUnpaid(r)

Checkout ==
  \/ \E s \in Subs, i \in 1..Nearest : Pay(s, i)
  \/ ReadCurrentPlan
  \/ SwitchPlan
  \/ DropOldAtStripe
  \/ DropOldPlan
  \/ AbandonCheckout

Cancellation(c) ==
  \/ \E i \in 1..Nearest : ClickCancel(c, i)
  \/ CancelAtStripe(c)
  \/ CancelPlan(c)

Webhooks ==
  \/ \E e \in events : HookDeleted(e) \/ HookCycle(e)
  \/ HookCycleCommits

Next ==
  \/ \E r \in Requests : Charts(r)
  \/ Checkout
  \/ \E c \in Cancels : Cancellation(c)
  \/ \E s \in Subs : RenewAtStripe(s) \/ EndAtStripe(s)
  \/ Webhooks
  \/ \E i \in DOMAIN rows : DueTimePasses(i) \/ EndTimePasses(i)

Spec == Init /\ [][Next]_vars

\* Stripe sends an event until it is answered (its documentation says for three
\* days), and handlers that were started go on to their end.
Fairness ==
  /\ \A s \in Subs :
       WF_vars(\E e \in events : e.sub = s /\ HookDeleted(e))
  /\ WF_vars(HookCycleCommits)
  /\ \A c \in Cancels : WF_vars(CancelAtStripe(c) \/ CancelPlan(c))

FairSpec == Spec /\ Fairness

-----------------------------------------------------------------------------
(* Properties *)

Events == [type : {"deleted", "cycle"}, sub : Subs]
Checkouts ==
  {Idle}
    \cup [at : {"paid", "switched", "dropping"}, new : Subs, old : Subs \cup {NoSub},
          stale : BOOLEAN]
    \cup [at : {"switching"}, new : Subs, old : Subs \cup {NoSub}, stale : BOOLEAN,
          row : Nat, carried : Int]
Hooks == {Idle} \cup [at : {"loaded"}, event : Events, row : Nat, balance : Int, due : Times]

\* Every variable keeps to its range, and what handlers remember of rows exists.
TypeOK ==
  /\ rows \in Seq(Row)
  /\ stripe \in [Subs -> {"none", "active", "incomplete", "canceled"}]
  /\ events \subseteq Events
  /\ hook \in Hooks /\ (hook # Idle => hook.row \in DOMAIN rows)
  /\ job \in [Requests -> {"idle", "trial", "gate", "running", "refused"}]
  /\ checkout \in Checkouts
  /\ checkout.at = "switching" => checkout.row \in {0} \cup DOMAIN rows
  /\ cancel \in [Cancels -> {Idle} \cup [at : {"clicked", "committing", "done"}, sub : Subs]]
  /\ ungated \in 0..MaxUngated
  /\ cycles \in 0..MaxCycles
  /\ duplicates \in 0..MaxDuplicates
  /\ left \subseteq Subs \cup {NoSub}

Running == {r \in Requests : job[r] = "running"}

\* Balances are checked when a run starts and debited when it ends, so several
\* runs may share the last second, and a run of a dashboard or of a saved chart
\* is not checked at all: what a user can get beyond a plan is bounded by what
\* the requests that run at once can take, and those runs.
OverdraftBounded ==
  \A i \in CurrentRows :
    rows[i].balance >=
      -(MaxRuntime * (Cardinality(Requests) - Cardinality(Running) + ungated))

\* Who is charged has a plan: a subscription that Stripe charges is a current
\* plan, or the one that a checkout is going to start or to drop.  The others
\* were left by a checkout that stopped half way, or whose page did not know of
\* them; nothing in the code ends those.
PaidPlanIsUsable ==
  \A s \in Subs :
    \/ stripe[s] # "active" \/ s \in left
    \/ checkout.at \in {"paid", "switching"} /\ s = checkout.new
    \/ checkout.at = "switched" /\ s = checkout.old
    \/ \E i \in CurrentRows : rows[i].sub = s

\* A plan that was cancelled, or a trial, is used up by runs and taken away by
\* nothing but a checkout: Stripe's report of the cancellation, whenever and how
\* often it comes, leaves it alone.
ScheduledPlanIsKept ==
  [][\A i \in DOMAIN rows :
       \/ rows[i].end # "ahead"
       \/ rows'[i].balance >= rows[i].balance
       \/ \E r \in Requests : job[r] = "running" /\ job'[r] = "idle"
       \/ checkout' # checkout]_vars

\* When Stripe has ended a subscription, its plan does not stay one that renews.
EndAtStripeStopsRenewal ==
  \A s \in Subs :
    stripe[s] = "canceled" ~> \A i \in DOMAIN rows : rows[i].sub = s => ~rows[i].renew

-----------------------------------------------------------------------------
(* What the pages and answers say, and the code does not do *)

\* "you can still use the plan until it ends": a plan the user has asked to
\* cancel does not lose its balance to anything but a run.
CancelledPlanStaysUsable ==
  [][\A c \in Cancels, i \in DOMAIN rows :
       cancel[c] # Idle /\ rows[i].sub = cancel[c].sub /\ rows'[i].balance < rows[i].balance
         => \E r \in Requests : job[r] = "running" /\ job'[r] = "idle"]_vars

\* "until it ends": a cancelled plan has a time at which it ends.
CancelledPlanEnds ==
  \A c \in Cancels, i \in DOMAIN rows :
    cancel[c].at = "done" /\ rows[i].sub = cancel[c].sub => rows[i].end # "none"

\* "You have not paid or the available time has expired": a run is refused only
\* when no current plan that was paid for has time left.
RefusedOnlyWhenUnpaid ==
  [][\A r \in Requests :
       job[r] = "gate" /\ job'[r] = "refused"
         => \A i \in CurrentRows : rows[i].sub = NoSub \/ ~MayRun(rows[i])]_vars

=============================================================================
