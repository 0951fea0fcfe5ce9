----------------------------- MODULE BillingProofs -----------------------------
(***************************************************************************)
(* What holds of the plans of a user for any number of subscriptions,      *)
(* requests, cancellations and rows.                                       *)
(*                                                                         *)
(* A handler that has called Stripe comes back with what it read before:   *)
(* a row, its balance, the subscription to drop or to cancel.  The         *)
(* invariant IInv says what of that is still true.  On it rest that        *)
(* scheduled plans are kept and, with the invariants PaidInv and DebtInv,   *)
(* that who is charged has a plan, and what a user can get beyond it.      *)
(***************************************************************************)
EXTENDS Billing, SequenceTheorems, FiniteSetTheorems, TLAPS

\* A subscription that Stripe has, and one that is over.
Known(s) == stripe[s] # "none"
Over(s) == stripe[s] \in {"incomplete", "canceled"}

\* A row has a subscription that Stripe has; one that is scheduled to end does not renew,
\* and its subscription is over.
RowKept(row) ==
  /\ row.sub # NoSub => Known(row.sub)
  /\ row.end = "ahead" => ~row.renew /\ (row.sub # NoSub => Over(row.sub))
RowsKept == \A i \in DOMAIN rows : RowKept(rows[i])

\* What the hook has loaded is not less than there is, unless the plan has ended meanwhile,
\* and can then not be scheduled to end.
NotBelow(row) ==
  row.balance <= hook.balance \/ (row.due = "none" /\ row.end # "ahead")
HookKept == hook.at = "loaded" /\ hook.due # "none" => NotBelow(rows[hook.row])

\* What a checkout has in mind is at Stripe; it deletes the old subscription there before it
\* ends its row.
CheckoutKept ==
  /\ checkout # Idle =>
       /\ Known(checkout.new) /\ rows # << >>
       /\ checkout.old # NoSub => Known(checkout.old)
  /\ checkout.at \in {"switched", "dropping"} => checkout.old # NoSub
  /\ checkout.at = "dropping" => Over(checkout.old)

\* So does a request to cancel.
CancelKept(c) ==
  cancel[c] # Idle => Known(cancel[c].sub) /\ (cancel[c].at # "clicked" => Over(cancel[c].sub))

\* What Stripe tells of a deleted subscription is true, and stays so.
EventsKept == \A e \in events : e.type = "deleted" => Over(e.sub)

IInv ==
  /\ TypeOK /\ RowsKept /\ HookKept /\ CheckoutKept /\ EventsKept
  /\ \A c \in Cancels : CancelKept(c)

-----------------------------------------------------------------------------
(* Steps on the table and at Stripe *)

Statuses == {"none", "active", "incomplete", "canceled"}

\* A row is the record of its fields.
LEMMA RowFields ==
  ASSUME NEW row \in Row
  PROVE  /\ row.sub \in Subs \cup {NoSub} /\ row.balance \in Int /\ row.due \in Times
         /\ row.end \in Times /\ row.renew \in BOOLEAN
         /\ row = [sub |-> row.sub, balance |-> row.balance, due |-> row.due,
                   end |-> row.end, renew |-> row.renew]
BY DEF Row

\* What the handlers make of a row.
LEMMA RowChanges ==
  ASSUME NEW row \in Row
  PROVE  /\ Zeroed(row) = [sub |-> row.sub, balance |-> 0, due |-> "none", end |-> "past",
                           renew |-> FALSE]
         /\ EndWhenDue(row) = [sub |-> row.sub, balance |-> row.balance, due |-> "none",
                               end |-> row.due, renew |-> FALSE]
         /\ \A b : [row EXCEPT !.balance = b] =
                [sub |-> row.sub, balance |-> b, due |-> row.due, end |-> row.end,
                 renew |-> row.renew]
         /\ \A x : [row EXCEPT !.due = x] =
                [sub |-> row.sub, balance |-> row.balance, due |-> x, end |-> row.end,
                 renew |-> row.renew]
         /\ \A x : [row EXCEPT !.end = x] =
                [sub |-> row.sub, balance |-> row.balance, due |-> row.due, end |-> x,
                 renew |-> row.renew]
         /\ [row EXCEPT !.end = "past", !.renew = FALSE] =
                [sub |-> row.sub, balance |-> row.balance, due |-> row.due, end |-> "past",
                 renew |-> FALSE]
<1>1. Zeroed(row) = [sub |-> row.sub, balance |-> 0, due |-> "none", end |-> "past",
                     renew |-> FALSE]
  <2>1. Zeroed(row) = [[[[row EXCEPT !.balance = 0] EXCEPT !.renew = FALSE]
                          EXCEPT !.end = "past"] EXCEPT !.due = "none"]
    BY DEF Zeroed
  <2> QED BY <2>1 DEF Row
<1>2. EndWhenDue(row) = [sub |-> row.sub, balance |-> row.balance, due |-> "none",
                         end |-> row.due, renew |-> FALSE]
  <2>1. EndWhenDue(row) = [[[row EXCEPT !.renew = FALSE] EXCEPT !.end = row.due]
                              EXCEPT !.due = "none"]
    BY DEF EndWhenDue
  <2> QED BY <2>1 DEF Row
<1>3. ASSUME NEW b
      PROVE  [row EXCEPT !.balance = b] =
                [sub |-> row.sub, balance |-> b, due |-> row.due, end |-> row.end,
                 renew |-> row.renew]
  BY DEF Row
<1>4. ASSUME NEW x
      PROVE  /\ [row EXCEPT !.due = x] =
                   [sub |-> row.sub, balance |-> row.balance, due |-> x, end |-> row.end,
                    renew |-> row.renew]
             /\ [row EXCEPT !.end = x] =
                   [sub |-> row.sub, balance |-> row.balance, due |-> row.due, end |-> x,
                    renew |-> row.renew]
  BY DEF Row
<1>5. [row EXCEPT !.end = "past", !.renew = FALSE] =
         [sub |-> row.sub, balance |-> row.balance, due |-> row.due, end |-> "past",
          renew |-> FALSE]
  <2>1. [row EXCEPT !.end = "past", !.renew = FALSE] =
          [[row EXCEPT !.end = "past"] EXCEPT !.renew = FALSE]
    OBVIOUS
  <2> DEFINE r == [row EXCEPT !.end = "past"]
  <2>2. r \in Row BY DEF Row, Times
  <2>3. r.sub = row.sub /\ r.balance = row.balance /\ r.due = row.due /\ r.end = "past"
    BY <1>4
  <2>4. ASSUME NEW x
        PROVE  [r EXCEPT !.renew = x] =
                  [sub |-> r.sub, balance |-> r.balance, due |-> r.due, end |-> r.end,
                   renew |-> x]
    <3> HIDE DEF r
    <3> QED BY <2>2 DEF Row
  <2> QED BY <2>1, <2>2, <2>3, <2>4
<1> QED BY <1>1, <1>2, <1>3, <1>4, <1>5

\* A record of fields in range is a row.
LEMMA RowMade ==
  ASSUME NEW s \in Subs \cup {NoSub}, NEW b \in Int, NEW d \in Times, NEW e \in Times,
         NEW f \in BOOLEAN
  PROVE  [sub |-> s, balance |-> b, due |-> d, end |-> e, renew |-> f] \in Row
BY DEF Row

\* The trial is a row.
LEMMA TrialIsRow == Trial \in Row
BY BillingAssumption DEF Trial, Row, Times

\* The rows are numbered from 1 to their number.
LEMMA RowsTyped ==
  ASSUME rows \in Seq(Row)
  PROVE  /\ Len(rows) \in Nat /\ DOMAIN rows = 1..Len(rows)
         /\ \A i \in DOMAIN rows : rows[i] \in Row
         /\ rows = << >> <=> Len(rows) = 0
BY LenProperties, ElementOfSeq, EmptySeq

\* Rows that are changed one by one.
LEMMA SameLength ==
  ASSUME rows \in Seq(Row), NEW next, next = [i \in DOMAIN rows |-> next[i]],
         \A i \in DOMAIN rows : next[i] \in Row
  PROVE  next \in Seq(Row) /\ DOMAIN next = DOMAIN rows /\ Len(next) = Len(rows)
<1>1. DOMAIN next = 1..Len(rows) /\ Len(rows) \in Nat BY RowsTyped
<1>2. next \in [1..Len(rows) -> Row] BY <1>1, RowsTyped
<1>3. next \in Seq(Row) BY <1>1, <1>2, SeqDef
<1> QED BY <1>1, <1>3, LenProperties, RowsTyped

\* A row that is added comes last, and leaves the others alone.
LEMMA OneMore ==
  ASSUME rows \in Seq(Row), NEW row \in Row
  PROVE  LET next == Append(rows, row)
         IN /\ next \in Seq(Row) /\ Len(next) = Len(rows) + 1
            /\ DOMAIN next = DOMAIN rows \cup {Len(rows) + 1}
            /\ next[Len(rows) + 1] = row /\ \A i \in DOMAIN rows : next[i] = rows[i]
<1> DEFINE next == Append(rows, row)
           n == Len(rows)
<1>1. n \in Nat /\ DOMAIN rows = 1..n BY RowsTyped
<1>2. /\ next \in Seq(Row) /\ Len(next) = n + 1 /\ next[n + 1] = row
      /\ \A i \in 1..n : next[i] = rows[i]
  BY AppendProperties
<1>3. DOMAIN next = 1..(n + 1) BY <1>2, LenProperties
<1> HIDE DEF next, n
<1>4. 1..(n + 1) = 1..n \cup {n + 1} BY <1>1
<1> QED BY <1>1, <1>2, <1>3, <1>4 DEF next, n

-----------------------------------------------------------------------------
(* What each step does to the rows *)

KnownNext(s) == stripe'[s] # "none"
OverNext(s) == stripe'[s] \in {"incomplete", "canceled"}

\* A row keeps its subscription.  While the hook has a row in mind nothing adds to a
\* balance, and a plan that is past its due and end times for good stays so.
RowGoes(old, new) ==
  /\ new.sub = old.sub
  /\ new.end = "ahead" => ~new.renew /\ (new.sub # NoSub => OverNext(new.sub))
  /\ hook' # Idle =>
       /\ new.balance <= old.balance \/ (new.due = "none" /\ new.end # "ahead")
       /\ old.due = "none" /\ old.end # "ahead" => new.due = "none" /\ new.end # "ahead"

\* A row that comes is a plan without an end, or the trial.
RowComes(row) ==
  /\ row.sub # NoSub => KnownNext(row.sub)
  /\ row.end # "ahead" \/ (row.sub = NoSub /\ ~row.renew)

\* RowKept after the step.
RowKeptNext(row) ==
  /\ row.sub # NoSub => KnownNext(row.sub)
  /\ row.end = "ahead" => ~row.renew /\ (row.sub # NoSub => OverNext(row.sub))

RowsGo ==
  /\ rows' \in Seq(Row)
  /\ DOMAIN rows \subseteq DOMAIN rows'
  /\ \A i \in DOMAIN rows : RowGoes(rows[i], (rows')[i])
  /\ \A i \in DOMAIN rows' \ DOMAIN rows : RowComes((rows')[i])

\* What is over stays over, and Stripe forgets no subscription.
StripeGoes == \A s \in Subs : (Over(s) => OverNext(s)) /\ (Known(s) => KnownNext(s))

\* A row that is left alone goes on as it is, whatever happens at Stripe.
LEMMA SameRow ==
  ASSUME NEW row \in Row, RowKept(row), StripeGoes
  PROVE  RowGoes(row, row)
<1>1. row.sub # NoSub => row.sub \in Subs BY RowFields
<1> QED BY <1>1, RowFields DEF RowKept, RowGoes, StripeGoes

\* So do all rows of a step that touches none.
LEMMA SameRows ==
  ASSUME IInv, StripeGoes, UNCHANGED rows
  PROVE  RowsGo
<1>1. rows \in Seq(Row) /\ \A i \in DOMAIN rows : rows[i] \in Row /\ RowKept(rows[i])
  BY RowsTyped DEF IInv, TypeOK, RowsKept
<1>2. \A i \in DOMAIN rows : RowGoes(rows[i], (rows')[i]) BY <1>1, SameRow
<1> QED BY <1>1, <1>2 DEF RowsGo

\* Some rows are changed, one by one.
LEMMA SomeRows ==
  ASSUME IInv, StripeGoes, NEW Chosen, NEW next,
         rows' = [i \in DOMAIN rows |-> IF i \in Chosen THEN next[i] ELSE rows[i]],
         \A i \in DOMAIN rows \cap Chosen : next[i] \in Row /\ RowGoes(rows[i], next[i])
  PROVE  RowsGo /\ DOMAIN rows' = DOMAIN rows /\ Len(rows') = Len(rows)
<1>1. rows \in Seq(Row) /\ \A i \in DOMAIN rows : rows[i] \in Row /\ RowKept(rows[i])
  BY RowsTyped DEF IInv, TypeOK, RowsKept
<1>2. \A i \in DOMAIN rows : RowGoes(rows[i], (rows')[i]) /\ (rows')[i] \in Row
  <2>1. ASSUME NEW i \in DOMAIN rows PROVE RowGoes(rows[i], (rows')[i]) /\ (rows')[i] \in Row
    <3>1. (rows')[i] = IF i \in Chosen THEN next[i] ELSE rows[i] OBVIOUS
    <3>2. CASE i \in Chosen BY <3>1, <3>2
    <3>3. CASE i \notin Chosen BY <1>1, <3>1, <3>3, SameRow
    <3> QED BY <3>2, <3>3
  <2> QED BY <2>1
<1> DEFINE after == rows'
<1>3. after = [i \in DOMAIN rows |-> after[i]] OBVIOUS
<1>4. \A i \in DOMAIN rows : after[i] \in Row BY <1>2
<1>5. after \in Seq(Row) /\ DOMAIN after = DOMAIN rows /\ Len(after) = Len(rows)
  <2> HIDE DEF after
  <2> QED BY <1>1, <1>3, <1>4, SameLength
<1> QED BY <1>2, <1>5 DEF RowsGo

-----------------------------------------------------------------------------
(* What each step does at Stripe *)

StripeNext ==
  /\ stripe' \in [Subs -> Statuses] /\ StripeGoes
  /\ events' \subseteq Events /\ EventsKept'

\* What an event may be.
LEMMA EventsTyped ==
  ASSUME IInv, NEW e \in events
  PROVE  e \in Events /\ e.sub \in Subs /\ e.type \in {"deleted", "cycle"}
BY DEF IInv, TypeOK, Events

\* Nothing happens at Stripe, and nothing but a renewal is told.
LEMMA SameStripe ==
  ASSUME IInv, UNCHANGED stripe, events' \subseteq Events,
         \A e \in events' : e \in events \/ e.type # "deleted"
  PROVE  StripeNext
<1>1. StripeGoes BY DEF StripeGoes, KnownNext, OverNext, Known, Over
<1>2. EventsKept' BY DEF IInv, EventsKept, Over
<1> QED BY <1>1, <1>2 DEF StripeNext, IInv, TypeOK, Statuses

\* Nothing happens at Stripe, and nothing is told.
LEMMA SameEvents ==
  ASSUME IInv, UNCHANGED <<stripe, events>>
  PROVE  StripeNext
BY SameStripe DEF IInv, TypeOK

\* An event is answered.
LEMMA AnsweredEvent ==
  ASSUME IInv, UNCHANGED stripe, NEW e \in events, Answered(e)
  PROVE  StripeNext /\ duplicates' \in 0..MaxDuplicates
<1>1. events' \subseteq events /\ events \subseteq Events BY DEF Answered, IInv, TypeOK
<1>2. duplicates' \in 0..MaxDuplicates
  BY BillingAssumption DEF Answered, IInv, TypeOK
<1> QED BY <1>1, <1>2, SameStripe

\* A subscription is deleted there.
LEMMA DeletedAtStripe ==
  ASSUME IInv, NEW s \in Subs, Known(s), DeleteAtStripe(s)
  PROVE  StripeNext /\ OverNext(s)
<1>1. stripe \in [Subs -> Statuses] BY DEF IInv, TypeOK, Statuses
<1>2. CASE stripe[s] = "active"
  <2> DEFINE e == [type |-> "deleted", sub |-> s]
  <2>1. stripe' = [stripe EXCEPT ![s] = "canceled"] /\ events' = events \cup {e}
    BY <1>2 DEF DeleteAtStripe
  <2>2. stripe' \in [Subs -> Statuses] /\ stripe'[s] = "canceled"
        /\ \A x \in Subs : x # s => stripe'[x] = stripe[x]
    BY <1>1, <2>1 DEF Statuses
  <2>3. StripeGoes BY <1>2, <2>2 DEF StripeGoes, KnownNext, OverNext, Known, Over
  <2>4. e \in Events /\ e.sub = s BY DEF Events
  <2>5. \A x \in events : x.type = "deleted" => OverNext(x.sub)
    BY <2>3, EventsTyped DEF IInv, EventsKept, StripeGoes
  <2>6. EventsKept'
    <3> HIDE DEF e
    <3> QED BY <2>1, <2>2, <2>4, <2>5 DEF EventsKept, Over, OverNext
  <2>7. events' \subseteq Events BY <2>1, <2>4 DEF IInv, TypeOK
  <2> QED BY <2>2, <2>3, <2>6, <2>7 DEF StripeNext, OverNext
<1>3. CASE stripe[s] # "active"
  <2>1. UNCHANGED <<stripe, events>> BY <1>3 DEF DeleteAtStripe
  <2> QED BY <1>1, <1>3, <2>1, SameEvents DEF OverNext, Known, Statuses
<1> QED BY <1>2, <1>3

\* A subscription begins there, or is asked for in vain.
LEMMA PaidAtStripe ==
  ASSUME IInv, NEW s \in Subs, stripe[s] = "none", NEW status \in {"active", "incomplete"},
         stripe' = [stripe EXCEPT ![s] = status], UNCHANGED events
  PROVE  StripeNext /\ KnownNext(s)
<1>1. stripe \in [Subs -> Statuses] BY DEF IInv, TypeOK, Statuses
<1>2. stripe' \in [Subs -> Statuses] /\ stripe'[s] = status
      /\ \A x \in Subs : x # s => stripe'[x] = stripe[x]
  BY <1>1 DEF Statuses
<1>3. StripeGoes BY <1>2 DEF StripeGoes, KnownNext, OverNext, Known, Over
<1>4. \A x \in events : x.type = "deleted" => OverNext(x.sub)
  BY <1>3, EventsTyped DEF IInv, EventsKept, StripeGoes
<1>5. EventsKept' BY <1>4 DEF EventsKept, Over, OverNext
<1> QED BY <1>2, <1>3, <1>5 DEF StripeNext, KnownNext, IInv, TypeOK

-----------------------------------------------------------------------------
(* What each step does to the rest *)

HookNext ==
  hook' \in Hooks /\ (hook' # Idle => hook'.row \in DOMAIN rows') /\ HookKept'

CheckoutNext ==
  /\ checkout' \in Checkouts
  /\ checkout'.at = "switching" => checkout'.row \in {0} \cup DOMAIN rows'
  /\ CheckoutKept'

CancelNext ==
  /\ cancel' \in [Cancels -> {Idle} \cup [at : {"clicked", "committing", "done"}, sub : Subs]]
  /\ \A c \in Cancels : CancelKept(c)'

RestNext ==
  /\ job' \in [Requests -> {"idle", "trial", "gate", "running", "refused"}]
  /\ ungated' \in 0..MaxUngated
  /\ cycles' \in 0..MaxCycles /\ duplicates' \in 0..MaxDuplicates
  /\ left' \subseteq Subs \cup {NoSub}

\* A step keeps the invariant when it goes right for each of the variables.
LEMMA KeptByParts ==
  ASSUME IInv, RowsGo, StripeNext, HookNext, CheckoutNext, CancelNext, RestNext
  PROVE  IInv'
<1>1. \A i \in DOMAIN rows : rows[i] \in Row /\ RowKept(rows[i])
  BY RowsTyped DEF IInv, TypeOK, RowsKept
<1>2. RowsKept'
  <2>1. ASSUME NEW i \in DOMAIN rows' PROVE RowKeptNext((rows')[i])
    <3>1. CASE i \in DOMAIN rows
      <4>1. rows[i].sub \in Subs \cup {NoSub} /\ RowKept(rows[i]) BY <1>1, <3>1, RowFields
      <4>2. RowGoes(rows[i], (rows')[i]) BY <3>1 DEF RowsGo
      <4> QED BY <4>1, <4>2 DEF RowGoes, StripeNext, StripeGoes, RowKept, RowKeptNext
    <3>2. CASE i \notin DOMAIN rows
      <4>1. RowComes((rows')[i]) BY <2>1, <3>2 DEF RowsGo
      <4> QED BY <4>1 DEF RowComes, RowKeptNext
    <3> QED BY <3>1, <3>2
  <2> QED BY <2>1 DEF RowsKept, RowKept, RowKeptNext, Known, KnownNext, Over, OverNext
<1>3. TypeOK'
  BY DEF TypeOK, RowsGo, StripeNext, HookNext, CheckoutNext, CancelNext, RestNext, Statuses
<1> QED BY <1>2, <1>3 DEF IInv, StripeNext, HookNext, CheckoutNext, CancelNext


\* A step that leaves the hook alone adds nothing to the row that it has loaded.
LEMMA HookSame ==
  ASSUME IInv, RowsGo, UNCHANGED hook
  PROVE  HookNext
<1>1. CASE hook = Idle
  BY <1>1 DEF IInv, TypeOK, HookNext, HookKept, Idle
<1>2. CASE hook # Idle
  <2> DEFINE i == hook.row
  <2>1. /\ hook \in Hooks /\ hook.at = "loaded" /\ hook.balance \in Int
        /\ i \in DOMAIN rows /\ i \in DOMAIN rows'
    BY <1>2 DEF IInv, TypeOK, Hooks, RowsGo
  <2>2. rows[i].balance \in Int /\ (rows')[i].balance \in Int
    <3>1. rows[i] \in Row /\ (rows')[i] \in Row
      <4>1. rows \in Seq(Row) /\ rows' \in Seq(Row) BY DEF IInv, TypeOK, RowsGo
      <4> HIDE DEF i
      <4> QED BY <2>1, <4>1, ElementOfSeq, LenProperties
    <3> HIDE DEF i
    <3> QED BY <3>1, RowFields
  <2>3. RowGoes(rows[i], (rows')[i]) BY <2>1 DEF RowsGo
  <2>4. HookKept'
    <3>1. ASSUME hook.due # "none"
          PROVE  \/ (rows')[i].balance <= hook.balance
                 \/ (rows')[i].due = "none" /\ (rows')[i].end # "ahead"
      <4>1. \/ rows[i].balance <= hook.balance
            \/ rows[i].due = "none" /\ rows[i].end # "ahead"
        BY <2>1, <3>1 DEF IInv, HookKept, NotBelow
      <4> HIDE DEF i
      <4> QED BY <1>2, <2>1, <2>2, <2>3, <4>1 DEF RowGoes
    <3> QED BY <3>1 DEF HookKept, NotBelow
  <2> QED BY <1>2, <2>1, <2>4 DEF HookNext
<1> QED BY <1>1, <1>2

\* A hook that is done has nothing to keep to.
LEMMA HookIdle ==
  ASSUME hook' = Idle
  PROVE  HookNext
BY DEF HookNext, Hooks, HookKept, Idle

\* Neither has a checkout.
LEMMA CheckoutIdle ==
  ASSUME checkout' = Idle
  PROVE  CheckoutNext
BY DEF CheckoutNext, Checkouts, CheckoutKept, Idle

\* What a checkout holds.
LEMMA CheckoutFields ==
  ASSUME checkout \in Checkouts, checkout # Idle
  PROVE  /\ checkout.at \in {"paid", "switching", "switched", "dropping"}
         /\ checkout.new \in Subs /\ checkout.old \in Subs \cup {NoSub}
         /\ checkout.stale \in BOOLEAN
         /\ checkout.at = "switching" => checkout.row \in Nat /\ checkout.carried \in Int
BY DEF Checkouts

\* Rows are never deleted.
LEMMA NotEmptied ==
  ASSUME IInv, RowsGo, rows # << >>
  PROVE  rows' # << >>
<1>1. rows \in Seq(Row) /\ rows' \in Seq(Row) BY DEF IInv, TypeOK, RowsGo
<1>2. 1 \in DOMAIN rows BY <1>1, RowsTyped
<1>3. 1 \in DOMAIN rows' BY <1>2 DEF RowsGo
<1> QED BY <1>1, <1>3, EmptySeq, LenProperties

\* A checkout may wait for whatever happens to the rows and at Stripe.
LEMMA CheckoutSame ==
  ASSUME IInv, RowsGo, StripeNext, UNCHANGED checkout
  PROVE  CheckoutNext
<1>1. checkout \in Checkouts /\ CheckoutKept BY DEF IInv, TypeOK
<1>2. checkout.at = "switching" => checkout.row \in {0} \cup DOMAIN rows'
  BY DEF IInv, TypeOK, RowsGo
<1>3. CASE checkout = Idle BY <1>3, CheckoutIdle
<1>4. CASE checkout # Idle
  <2>1. checkout.new \in Subs /\ checkout.old \in Subs \cup {NoSub} BY <1>1, <1>4, CheckoutFields
  <2>2. rows' # << >> BY <1>1, <1>4, NotEmptied DEF CheckoutKept
  <2>3. KnownNext(checkout.new) /\ (checkout.old # NoSub => KnownNext(checkout.old))
        /\ (checkout.at \in {"switched", "dropping"} => checkout.old # NoSub)
        /\ (checkout.at = "dropping" => OverNext(checkout.old))
    BY <1>1, <1>4, <2>1 DEF CheckoutKept, StripeNext, StripeGoes
  <2>4. CheckoutKept' BY <2>2, <2>3 DEF CheckoutKept, Known, KnownNext, Over, OverNext
  <2> QED BY <1>1, <1>2, <2>4 DEF CheckoutNext
<1> QED BY <1>3, <1>4

\* What a request to cancel holds.
LEMMA CancelFields ==
  ASSUME IInv, NEW c \in Cancels, cancel[c] # Idle
  PROVE  /\ cancel[c] \in [at : {"clicked", "committing", "done"}, sub : Subs]
         /\ cancel[c].sub \in Subs /\ CancelKept(c) /\ Known(cancel[c].sub)
BY DEF IInv, TypeOK, CancelKept

\* One request to cancel goes on.
LEMMA CancelGoes ==
  ASSUME IInv, StripeNext, NEW c \in Cancels,
         NEW at \in {"clicked", "committing", "done"}, NEW s \in Subs,
         cancel' = [cancel EXCEPT ![c] = [at |-> at, sub |-> s]],
         KnownNext(s), at # "clicked" => OverNext(s)
  PROVE  CancelNext
<1> DEFINE Kinds == {Idle} \cup [at : {"clicked", "committing", "done"}, sub : Subs]
           next == [at |-> at, sub |-> s]
<1>1. cancel \in [Cancels -> Kinds] BY DEF IInv, TypeOK
<1>2. next \in Kinds /\ next.at = at /\ next.sub = s OBVIOUS
<1>3. /\ cancel' \in [Cancels -> Kinds] /\ cancel'[c] = next
      /\ \A x \in Cancels : x # c => cancel'[x] = cancel[x]
  <2> HIDE DEF next, Kinds
  <2> QED BY <1>1, <1>2 DEF next
<1>4. ASSUME NEW x \in Cancels PROVE CancelKept(x)'
  <2>1. CASE x = c
    <3> HIDE DEF next, Kinds
    <3> QED BY <1>2, <1>3, <2>1 DEF CancelKept, Known, KnownNext, Over, OverNext
  <2>2. CASE x # c
    <3>1. cancel'[x] = cancel[x] BY <1>3, <2>2
    <3>2. cancel[x] # Idle => cancel[x].sub \in Subs /\ CancelKept(x) BY CancelFields
    <3>3. cancel[x] # Idle =>
            KnownNext(cancel[x].sub) /\ (cancel[x].at # "clicked" => OverNext(cancel[x].sub))
      BY <3>2 DEF CancelKept, StripeNext, StripeGoes
    <3> QED BY <3>1, <3>3 DEF CancelKept, Known, KnownNext, Over, OverNext
  <2> QED BY <2>1, <2>2
<1> QED BY <1>3, <1>4 DEF CancelNext

\* The requests to cancel may wait, too.
LEMMA CancelSame ==
  ASSUME IInv, StripeNext, UNCHANGED cancel
  PROVE  CancelNext
<1>1. ASSUME NEW c \in Cancels PROVE CancelKept(c)'
  <2>1. cancel[c] # Idle => cancel[c].sub \in Subs /\ CancelKept(c) BY CancelFields
  <2>2. cancel[c] # Idle =>
          KnownNext(cancel[c].sub) /\ (cancel[c].at # "clicked" => OverNext(cancel[c].sub))
    BY <2>1 DEF CancelKept, StripeNext, StripeGoes
  <2> QED BY <2>2 DEF CancelKept, Known, KnownNext, Over, OverNext
<1> QED BY <1>1 DEF CancelNext, IInv, TypeOK

\* A request for a chart comes to another state.
LEMMA JobGoes ==
  ASSUME IInv, UNCHANGED counters, NEW r \in Requests,
         NEW at \in {"idle", "trial", "gate", "running", "refused"},
         job' = [job EXCEPT ![r] = at]
  PROVE  RestNext
BY DEF IInv, TypeOK, RestNext, counters

\* No request for a chart does.
LEMMA RestSame ==
  ASSUME IInv, UNCHANGED <<job, counters>>
  PROVE  RestNext
BY DEF IInv, TypeOK, RestNext, counters

-----------------------------------------------------------------------------
(* Each handler keeps the invariant *)

\* Requests that only look at the table: a trial to look for, a run let through, refused,
\* or ended unpaid.
LEMMA JobKeeps ==
  ASSUME IInv, NEW r \in Requests,
         LookForTrial(r) \/ AllowRun(r) \/ RefuseRun(r) \/ EndRunUnpaid(r)
  PROVE  IInv'
<1>1. UNCHANGED <<serverVars, hook, checkout, cancel, counters>>
  BY DEF LookForTrial, AllowRun, RefuseRun, EndRunUnpaid
<1>2. PICK at \in {"idle", "trial", "gate", "running", "refused"} : job' = [job EXCEPT ![r] = at]
  BY DEF LookForTrial, AllowRun, RefuseRun, EndRunUnpaid
<1>3. StripeNext BY <1>1, SameEvents DEF serverVars
<1>4. RowsGo BY <1>1, <1>3, SameRows DEF serverVars, StripeNext
<1>5. RestNext BY <1>1, <1>2, JobGoes
<1> QED BY <1>1, <1>3, <1>4, <1>5, HookSame, CheckoutSame, CancelSame, KeptByParts

\* A run that no one asks a balance for.
LEMMA StartUngatedRunKeeps ==
  ASSUME IInv, NEW r \in Requests, StartUngatedRun(r)
  PROVE  IInv'
<1>1. /\ UNCHANGED <<serverVars, hook, checkout, cancel, cycles, duplicates, left>>
      /\ job' = [job EXCEPT ![r] = "running"]
      /\ ungated < MaxUngated /\ ungated' = ungated + 1
  BY DEF StartUngatedRun
<1>2. StripeNext BY <1>1, SameEvents DEF serverVars
<1>3. RowsGo BY <1>1, <1>2, SameRows DEF serverVars, StripeNext
<1>4. RestNext
  <2>1. ungated' \in 0..MaxUngated BY <1>1, BillingAssumption DEF IInv, TypeOK
  <2>2. job' \in [Requests -> {"idle", "trial", "gate", "running", "refused"}]
    BY <1>1 DEF IInv, TypeOK
  <2> QED BY <1>1, <2>1, <2>2 DEF RestNext, IInv, TypeOK
<1> QED BY <1>1, <1>2, <1>3, <1>4, HookSame, CheckoutSame, CancelSame, KeptByParts

\* A trial is inserted.
LEMMA CreateTrialKeeps ==
  ASSUME IInv, NEW r \in Requests, CreateTrial(r)
  PROVE  IInv'
<1>1. rows' = Append(rows, Trial) /\ job' = [job EXCEPT ![r] = "gate"]
      /\ UNCHANGED <<stripe, events, hook, checkout, cancel, counters>>
  BY DEF CreateTrial
<1>2. StripeNext BY <1>1, SameEvents
<1>3. RowsGo
  <2>1. rows \in Seq(Row) /\ \A i \in DOMAIN rows : rows[i] \in Row /\ RowKept(rows[i])
    BY RowsTyped DEF IInv, TypeOK, RowsKept
  <2>2. /\ rows' \in Seq(Row) /\ DOMAIN rows' = DOMAIN rows \cup {Len(rows) + 1}
        /\ rows'[Len(rows) + 1] = Trial /\ \A i \in DOMAIN rows : rows'[i] = rows[i]
    BY <1>1, <2>1, OneMore, TrialIsRow
  <2>3. RowComes(Trial) BY DEF RowComes, Trial
  <2>4. \A i \in DOMAIN rows : RowGoes(rows[i], rows'[i])
    BY <1>2, <2>1, <2>2, SameRow DEF StripeNext
  <2> QED BY <2>2, <2>3, <2>4 DEF RowsGo
<1>4. RestNext BY <1>1, JobGoes
<1> QED BY <1>1, <1>2, <1>3, <1>4, HookSame, CheckoutSame, CancelSame, KeptByParts

\* A row that is debited.
LEMMA Debited ==
  ASSUME NEW row \in Row, NEW runtime \in Nat
  PROVE  LET next == [row EXCEPT !.balance = row.balance - runtime]
         IN /\ next \in Row /\ next.sub = row.sub /\ next.end = row.end /\ next.due = row.due
            /\ next.renew = row.renew /\ next.balance = row.balance - runtime
            /\ next.balance <= row.balance
<1> DEFINE less == row.balance - runtime
           next == [sub |-> row.sub, balance |-> less, due |-> row.due, end |-> row.end,
                    renew |-> row.renew]
<1>1. less \in Int /\ less <= row.balance BY RowFields
<1>2. [row EXCEPT !.balance = less] = next BY RowChanges
<1>3. next \in Row
  <2> HIDE DEF less
  <2> QED BY <1>1, RowFields, RowMade
<1> QED BY <1>1, <1>2, <1>3

\* A run that ends debits the current plans.
LEMMA DebitRunKeeps ==
  ASSUME IInv, NEW r \in Requests, NEW runtime \in 0..MaxRuntime, DebitRun(r, runtime)
  PROVE  IInv'
<1>1. /\ job' = [job EXCEPT ![r] = "idle"]
      /\ UNCHANGED <<stripe, events, hook, checkout, cancel, counters>>
  BY DEF DebitRun
<1>2. runtime \in Nat BY BillingAssumption
<1>3. StripeNext BY <1>1, SameEvents
<1>4. rows \in Seq(Row) /\ \A i \in DOMAIN rows : rows[i] \in Row /\ RowKept(rows[i])
  BY RowsTyped DEF IInv, TypeOK, RowsKept
<1>5. RowsGo
  <2>1. CASE UNCHANGED rows BY <1>3, <2>1, SameRows DEF StripeNext
  <2>2. CASE UpdateWhere(Current, LAMBDA row : [row EXCEPT !.balance = @ - runtime])
    <3> DEFINE Chosen == {i \in DOMAIN rows : Current(rows[i])}
               next == [i \in DOMAIN rows |->
                          [rows[i] EXCEPT !.balance = rows[i].balance - runtime]]
    <3>1. rows' = [i \in DOMAIN rows |-> IF i \in Chosen THEN next[i] ELSE rows[i]]
      BY <2>2 DEF UpdateWhere
    <3>2. ASSUME NEW i \in DOMAIN rows PROVE next[i] \in Row /\ RowGoes(rows[i], next[i])
      <4>1. RowGoes(rows[i], rows[i]) BY <1>3, <1>4, SameRow DEF StripeNext
      <4>2. next[i] \in Row /\ next[i].sub = rows[i].sub /\ next[i].end = rows[i].end
            /\ next[i].due = rows[i].due /\ next[i].renew = rows[i].renew
            /\ next[i].balance <= rows[i].balance
        BY <1>2, <1>4, Debited
      <4> QED BY <4>1, <4>2 DEF RowGoes
    <3> HIDE DEF Chosen, next
    <3> QED BY <1>3, <3>1, <3>2, SomeRows DEF StripeNext
  <2> QED BY <2>1, <2>2 DEF DebitRun
<1>6. RestNext BY <1>1, JobGoes
<1> QED BY <1>1, <1>3, <1>5, <1>6, HookSame, CheckoutSame, CancelSame, KeptByParts

\* A subscription begins at Stripe, and the page remembers the plan it was loaded with.
LEMMA PayKeeps ==
  ASSUME IInv, NEW s \in Subs, NEW i \in 1..Nearest, Pay(s, i)
  PROVE  IInv'
<1>1. checkout = Idle /\ stripe[s] = "none"
      /\ UNCHANGED <<rows, events, hook, job, cancel, counters>>
  BY DEF Pay, CheckoutStep, counters
<1> DEFINE old == rows[i].sub
           stale == i # Nearest
           next == [at |-> "paid", new |-> s, old |-> old, stale |-> stale]
<1>2. old \in Subs \cup {NoSub} /\ (old # NoSub => Known(old)) /\ rows # << >>
  <2>1. rows \in Seq(Row) /\ \A k \in DOMAIN rows : rows[k] \in Row /\ RowKept(rows[k])
    BY RowsTyped DEF IInv, TypeOK, RowsKept
  <2>2. i \in DOMAIN rows BY <2>1, RowsTyped DEF Nearest
  <2> QED BY <2>1, <2>2, RowFields DEF RowKept
<1>3. PICK status \in {"active", "incomplete"} :
        /\ stripe' = [stripe EXCEPT ![s] = status]
        /\ checkout' \in {Idle, next}
  BY DEF Pay, CheckoutStep
<1>4. StripeNext /\ KnownNext(s) BY <1>1, <1>3, PaidAtStripe
<1>5. RowsGo BY <1>1, <1>4, SameRows DEF StripeNext
<1>6. CheckoutNext
  <2>1. CASE checkout' = Idle BY <2>1, CheckoutIdle
  <2>2. CASE checkout' = next
    <3>1. /\ next \in Checkouts /\ next.at = "paid" /\ next.new = s /\ next.old = old
      <4>1. stale \in BOOLEAN OBVIOUS
      <4> HIDE DEF stale, old
      <4> QED BY <1>2, <4>1 DEF Checkouts
    <3>2. old # NoSub => KnownNext(old) BY <1>2, <1>4 DEF StripeNext, StripeGoes
    <3> HIDE DEF next, old
    <3> QED BY <1>1, <1>2, <1>4, <2>2, <3>1, <3>2 DEF CheckoutNext, CheckoutKept, Known, KnownNext
  <2> QED BY <1>3, <2>1, <2>2
<1>7. RestNext BY <1>1, RestSame DEF counters
<1> QED BY <1>1, <1>4, <1>5, <1>6, <1>7, HookSame, CancelSame, KeptByParts

\* The plan to end is read, and its balance.
LEMMA ReadCurrentPlanKeeps ==
  ASSUME IInv, ReadCurrentPlan
  PROVE  IInv'
<1>1. checkout.at = "paid" /\ UNCHANGED <<serverVars, hook, job, cancel, counters>>
  BY DEF ReadCurrentPlan, CheckoutStep, counters
<1>2. rows \in Seq(Row) /\ \A i \in DOMAIN rows : rows[i] \in Row
  BY RowsTyped DEF IInv, TypeOK
<1>3. StripeNext BY <1>1, SameEvents DEF serverVars
<1>4. RowsGo BY <1>1, <1>3, SameRows DEF StripeNext, serverVars
<1>5. PICK i \in {0} \cup DOMAIN rows, b \in Int : checkout' = Switching(i, b)
  <2>1. CASE \E i \in CurrentRows : checkout' = Switching(i, rows[i].balance)
    BY <1>2, <2>1, RowFields DEF CurrentRows
  <2>2. CASE checkout' = Switching(0, 0) BY <2>2
  <2> QED BY <2>1, <2>2 DEF ReadCurrentPlan, CheckoutStep
<1>6. CheckoutNext
  <2>1. checkout # Idle /\ checkout \in Checkouts /\ CheckoutKept
    BY <1>1 DEF IInv, TypeOK, Idle
  <2>2. /\ checkout.new \in Subs /\ checkout.old \in Subs \cup {NoSub}
        /\ checkout.stale \in BOOLEAN
    BY <2>1, CheckoutFields
  <2>3. i \in Nat BY <1>2, RowsTyped
  <2> DEFINE next == Switching(i, b)
  <2>4. /\ next \in Checkouts /\ next.at = "switching" /\ next.new = checkout.new
        /\ next.old = checkout.old /\ next.row = i
    BY <2>2, <2>3 DEF Switching, Checkouts
  <2> HIDE DEF next
  <2>5. rows' = rows /\ stripe' = stripe /\ checkout' = next BY <1>1, <1>5 DEF serverVars, next
  <2> QED BY <2>1, <2>4, <2>5 DEF CheckoutNext, CheckoutKept, Known
<1>7. RestNext BY <1>1, RestSame
<1> QED BY <1>1, <1>3, <1>4, <1>6, <1>7, HookSame, CancelSame, KeptByParts

\* The plan that a switch ends, and the one that it starts.
Started == [sub |-> checkout.new, balance |-> PlanTime + checkout.carried,
            due |-> "ahead", end |-> "none", renew |-> TRUE]

\* What a switch starts from.
LEMMA SwitchFields ==
  ASSUME IInv, SwitchPlan
  PROVE  /\ checkout.at = "switching" /\ checkout # Idle
         /\ checkout.new \in Subs /\ checkout.old \in Subs \cup {NoSub} /\ checkout.carried \in Int
         /\ checkout.stale \in BOOLEAN
         /\ Started.sub = checkout.new /\ Started.balance = PlanTime + checkout.carried
         /\ Started.due = "ahead" /\ Started.end = "none" /\ Started.renew
<1>1. checkout.at = "switching" BY DEF SwitchPlan
<1>2. checkout # Idle BY <1>1 DEF Idle
<1>3. checkout \in Checkouts BY DEF IInv, TypeOK
<1> QED BY <1>1, <1>2, <1>3, CheckoutFields DEF Started

\* What a switch makes of the rows.
LEMMA SwitchedRows ==
  ASSUME IInv, SwitchPlan
  PROVE  LET n == Len(rows) + 1
         IN /\ rows' \in Seq(Row) /\ Len(rows') = n /\ DOMAIN rows' = DOMAIN rows \cup {n}
            /\ rows'[n] = Started /\ Started \in Row
            /\ \A i \in DOMAIN rows :
                 /\ i # checkout.row => rows'[i] = rows[i]
                 /\ i = checkout.row =>
                      rows'[i] = [rows[i] EXCEPT !.end = "past", !.renew = FALSE]
                 /\ rows'[i].sub = rows[i].sub /\ rows'[i].balance = rows[i].balance
                 /\ rows'[i].due = rows[i].due
<1> DEFINE ends(i) == [rows[i] EXCEPT !.end = "past", !.renew = FALSE]
           ended == [i \in DOMAIN rows |-> IF i = checkout.row THEN ends(i) ELSE rows[i]]
           n == Len(rows) + 1
<1>1. rows' = Append(ended, Started) BY DEF SwitchPlan, Started
<1>2. checkout.new \in Subs /\ PlanTime + checkout.carried \in Int
  BY SwitchFields, BillingAssumption
<1>3. Started \in Row BY <1>2, RowMade DEF Started, Times
<1>4. rows \in Seq(Row) /\ \A i \in DOMAIN rows : rows[i] \in Row
  BY RowsTyped DEF IInv, TypeOK
<1>5. ASSUME NEW i \in DOMAIN rows
      PROVE  /\ ends(i) \in Row /\ ends(i).sub = rows[i].sub
             /\ ends(i).balance = rows[i].balance /\ ends(i).due = rows[i].due
  <2> DEFINE row == rows[i]
             next == [sub |-> row.sub, balance |-> row.balance, due |-> row.due,
                      end |-> "past", renew |-> FALSE]
  <2>1. row \in Row BY <1>4
  <2>2. ends(i) = next
    <3>1. ends(i) = [row EXCEPT !.end = "past", !.renew = FALSE] OBVIOUS
    <3> HIDE DEF row
    <3> QED BY <2>1, <3>1, RowChanges
  <2>3. next \in Row
    <3> HIDE DEF row
    <3> QED BY <2>1, RowFields, RowMade DEF Times
  <2> QED BY <2>2, <2>3
<1>6. \A i \in DOMAIN rows :
        /\ ended[i] = (IF i = checkout.row THEN ends(i) ELSE rows[i]) /\ ended[i] \in Row
        /\ ended[i].sub = rows[i].sub
        /\ ended[i].balance = rows[i].balance /\ ended[i].due = rows[i].due
  BY <1>4, <1>5
<1>7. ended = [i \in DOMAIN rows |-> ended[i]] BY <1>6
<1> HIDE DEF ended
<1>8. ended \in Seq(Row) /\ DOMAIN ended = DOMAIN rows /\ Len(ended) = Len(rows)
  BY <1>4, <1>6, <1>7, SameLength
<1>9. /\ rows' \in Seq(Row) /\ Len(rows') = n
      /\ rows'[n] = Started /\ \A i \in 1..Len(rows) : rows'[i] = ended[i]
  BY <1>1, <1>3, <1>8, AppendProperties
<1>10. DOMAIN rows' = DOMAIN rows \cup {n}
  <2>1. Len(rows) \in Nat /\ DOMAIN rows = 1..Len(rows) BY <1>4, RowsTyped
  <2>2. DOMAIN rows' = 1..n BY <1>9, LenProperties
  <2>3. 1..n = 1..Len(rows) \cup {n} BY <2>1
  <2> QED BY <2>1, <2>2, <2>3
<1>11. \A i \in DOMAIN rows : rows'[i] = ended[i] BY <1>4, <1>9, RowsTyped
<1> QED BY <1>3, <1>6, <1>9, <1>10, <1>11

\* One plan ends and another starts.
LEMMA SwitchPlanKeeps ==
  ASSUME IInv, SwitchPlan
  PROVE  IInv'
<1> DEFINE n == Len(rows) + 1
<1>1. /\ checkout.at = "switching" /\ checkout # Idle
      /\ UNCHANGED <<stripe, events, hook, job, cancel, ungated, cycles, duplicates>>
      /\ checkout' = IF checkout.old = NoSub THEN Idle
                     ELSE [at |-> "switched", new |-> checkout.new, old |-> checkout.old,
                           stale |-> checkout.stale]
      /\ left' \subseteq left \cup {rows[Nearest].sub}
  BY SwitchFields DEF SwitchPlan, CheckoutStep
<1>2. StripeNext BY <1>1, SameEvents
<1>3. checkout.new \in Subs /\ checkout.old \in Subs \cup {NoSub} /\ CheckoutKept
  BY SwitchFields DEF IInv
<1>4. RowsGo
  <2>1. rows \in Seq(Row) /\ \A i \in DOMAIN rows : rows[i] \in Row /\ RowKept(rows[i])
    BY RowsTyped DEF IInv, TypeOK, RowsKept
  <2>2. ASSUME NEW i \in DOMAIN rows PROVE RowGoes(rows[i], rows'[i])
    <3>1. RowGoes(rows[i], rows[i]) BY <1>2, <2>1, SameRow DEF StripeNext
    <3>2. CASE i # checkout.row BY <3>1, <3>2, SwitchedRows
    <3>3. CASE i = checkout.row
      <4>1. /\ rows'[i].sub = rows[i].sub /\ rows'[i].balance = rows[i].balance
            /\ rows'[i].due = rows[i].due
            /\ rows'[i] = [rows[i] EXCEPT !.end = "past", !.renew = FALSE]
        BY <3>3, SwitchedRows
      <4>2. rows'[i].end = "past"
        <5> DEFINE row == rows[i]
        <5>1. row \in Row /\ rows'[i] = [row EXCEPT !.end = "past", !.renew = FALSE]
          BY <2>1, <4>1
        <5> HIDE DEF row
        <5>2. rows'[i] = [sub |-> row.sub, balance |-> row.balance, due |-> row.due,
                          end |-> "past", renew |-> FALSE]
          BY <5>1, RowChanges
        <5> QED BY <5>2
      <4>3. rows[i].balance \in Int BY <2>1, RowFields
      <4> QED BY <4>1, <4>2, <4>3 DEF RowGoes
    <3> QED BY <3>2, <3>3
  <2>3. RowComes(rows'[n])
    <3>1. rows'[n].sub = checkout.new /\ rows'[n].end = "none" BY SwitchedRows, SwitchFields
    <3>2. KnownNext(checkout.new)
      BY <1>1, <1>2, <1>3 DEF CheckoutKept, StripeNext, StripeGoes
    <3> QED BY <3>1, <3>2 DEF RowComes
  <2>4. rows' \in Seq(Row) /\ DOMAIN rows' = DOMAIN rows \cup {n} BY SwitchedRows
  <2> QED BY <2>2, <2>3, <2>4 DEF RowsGo
<1>5. CheckoutNext
  <2>1. CASE checkout.old = NoSub BY <1>1, <2>1, CheckoutIdle
  <2>2. CASE checkout.old # NoSub
    <3> DEFINE next == [at |-> "switched", new |-> checkout.new, old |-> checkout.old,
                        stale |-> checkout.stale]
    <3>1. /\ next \in Checkouts /\ next.at = "switched" /\ next.new = checkout.new
          /\ next.old = checkout.old
      BY <1>3, SwitchFields DEF Checkouts
    <3>2. checkout' = next BY <1>1, <2>2
    <3>3. rows' # << >> BY <1>1, <1>3, <1>4, NotEmptied DEF CheckoutKept
    <3>4. KnownNext(checkout.new) /\ KnownNext(checkout.old)
      BY <1>1, <1>2, <1>3, <2>2 DEF CheckoutKept, StripeNext, StripeGoes
    <3> HIDE DEF next
    <3> QED BY <2>2, <3>1, <3>2, <3>3, <3>4 DEF CheckoutNext, CheckoutKept, Known, KnownNext
  <2> QED BY <2>1, <2>2
<1>6. RestNext
  <2>1. rows \in Seq(Row) /\ rows # << >> BY <1>1, <1>3 DEF CheckoutKept, IInv, TypeOK
  <2>2. Nearest \in DOMAIN rows BY <2>1, RowsTyped DEF Nearest
  <2>3. rows[Nearest].sub \in Subs \cup {NoSub} BY <2>1, <2>2, RowsTyped, RowFields
  <2> QED BY <1>1, <2>3 DEF RestNext, IInv, TypeOK
<1> QED BY <1>1, <1>2, <1>4, <1>5, <1>6, HookSame, CancelSame, KeptByParts

\* The old subscription is deleted at Stripe.
LEMMA DropOldAtStripeKeeps ==
  ASSUME IInv, DropOldAtStripe
  PROVE  IInv'
<1>1. /\ checkout.at = "switched" /\ DeleteAtStripe(checkout.old)
      /\ checkout' = [checkout EXCEPT !.at = "dropping"]
      /\ UNCHANGED <<rows, hook, job, cancel, counters>>
  BY DEF DropOldAtStripe, CheckoutStep, counters
<1>2. checkout # Idle /\ checkout \in Checkouts /\ CheckoutKept
  BY <1>1 DEF IInv, TypeOK, Idle
<1> DEFINE old == checkout.old
           next == [at |-> "dropping", new |-> checkout.new, old |-> old,
                    stale |-> checkout.stale]
<1>3. checkout.new \in Subs /\ old \in Subs /\ Known(checkout.new) /\ Known(old)
      /\ old # NoSub /\ rows # << >>
  BY <1>1, <1>2, CheckoutFields DEF CheckoutKept
<1>4. StripeNext /\ OverNext(old) BY <1>1, <1>3, DeletedAtStripe
<1>5. RowsGo BY <1>1, <1>4, SameRows DEF StripeNext
<1>6. CheckoutNext
  <2>1. checkout \in [at : {"paid", "switched", "dropping"}, new : Subs, old : Subs \cup {NoSub},
                     stale : BOOLEAN]
    BY <1>1, <1>2 DEF Checkouts
  <2>2. checkout' = next BY <1>1, <2>1
  <2>3. /\ next \in Checkouts /\ next.at = "dropping" /\ next.new = checkout.new
        /\ next.old = old
    BY <1>2, <1>3, CheckoutFields DEF Checkouts
  <2>4. KnownNext(checkout.new) BY <1>3, <1>4 DEF StripeNext, StripeGoes
  <2>5. KnownNext(old) BY <1>4 DEF KnownNext, OverNext
  <2> HIDE DEF next, old
  <2> QED BY <1>1, <1>3, <1>4, <2>2, <2>3, <2>4, <2>5
        DEF CheckoutNext, CheckoutKept, Known, KnownNext, Over, OverNext
<1>7. RestNext BY <1>1, RestSame
<1> QED BY <1>1, <1>4, <1>5, <1>6, <1>7, HookSame, CancelSame, KeptByParts

\* Rows that end for good, and rows that end when they are due.
LEMMA RowsZeroed ==
  ASSUME IInv, StripeGoes, NEW Chosen,
         rows' = [i \in DOMAIN rows |-> IF i \in Chosen THEN Zeroed(rows[i]) ELSE rows[i]]
  PROVE  RowsGo
<1> DEFINE next == [i \in DOMAIN rows |-> Zeroed(rows[i])]
<1>1. rows' = [i \in DOMAIN rows |-> IF i \in Chosen THEN next[i] ELSE rows[i]] OBVIOUS
<1>2. ASSUME NEW i \in DOMAIN rows PROVE next[i] \in Row /\ RowGoes(rows[i], next[i])
  <2> DEFINE row == rows[i]
             new == [sub |-> row.sub, balance |-> 0, due |-> "none", end |-> "past",
                     renew |-> FALSE]
  <2>1. row \in Row BY RowsTyped DEF IInv, TypeOK
  <2>2. next[i] = Zeroed(row) OBVIOUS
  <2> HIDE DEF row, next
  <2>3. next[i] = new BY <2>1, <2>2, RowChanges
  <2>4. row.sub \in Subs \cup {NoSub} BY <2>1, RowFields
  <2>5. new \in Row BY <2>4 DEF Row, Times
  <2>6. RowGoes(row, new) BY DEF RowGoes
  <2> QED BY <2>3, <2>5, <2>6 DEF row
<1> HIDE DEF next
<1> QED BY <1>1, <1>2, SomeRows

\* Rows of a subscription that is over are scheduled to end.
LEMMA RowsEnd ==
  ASSUME IInv, StripeGoes, NEW s \in Subs, OverNext(s),
         rows' = [i \in DOMAIN rows |-> IF rows[i].sub = s THEN EndWhenDue(rows[i]) ELSE rows[i]]
  PROVE  RowsGo
<1> DEFINE Chosen == {i \in DOMAIN rows : rows[i].sub = s}
           next == [i \in DOMAIN rows |-> EndWhenDue(rows[i])]
<1>1. rows' = [i \in DOMAIN rows |-> IF i \in Chosen THEN next[i] ELSE rows[i]] OBVIOUS
<1>2. ASSUME NEW i \in DOMAIN rows \cap Chosen
      PROVE  next[i] \in Row /\ RowGoes(rows[i], next[i])
  <2> DEFINE row == rows[i]
             new == [sub |-> row.sub, balance |-> row.balance, due |-> "none",
                     end |-> row.due, renew |-> FALSE]
  <2>1. row \in Row /\ row.sub = s BY RowsTyped DEF IInv, TypeOK
  <2>2. next[i] = EndWhenDue(row) OBVIOUS
  <2> HIDE DEF row, next
  <2>3. next[i] = new BY <2>1, <2>2, RowChanges
  <2>4. row.sub \in Subs \cup {NoSub} /\ row.balance \in Int /\ row.due \in Times
        /\ row.balance <= row.balance
    BY <2>1, RowFields
  <2>5. new \in Row BY <2>4, RowMade DEF Times
  <2>6. RowGoes(row, new) BY <2>1, <2>4 DEF RowGoes
  <2> QED BY <2>3, <2>5, <2>6 DEF row
<1> HIDE DEF next, Chosen
<1> QED BY <1>1, <1>2, SomeRows

\* The old plan ends for good.
LEMMA DropOldPlanKeeps ==
  ASSUME IInv, DropOldPlan
  PROVE  IInv'
<1>1. checkout' = Idle /\ UNCHANGED <<stripe, events, hook, job, cancel, counters>>
  BY DEF DropOldPlan, CheckoutStep, counters
<1>2. StripeNext BY <1>1, SameEvents
<1>3. RowsGo
  <2> DEFINE Chosen == {i \in DOMAIN rows : rows[i].sub = checkout.old}
  <2>1. rows' = [i \in DOMAIN rows |-> IF i \in Chosen THEN Zeroed(rows[i]) ELSE rows[i]]
    BY DEF DropOldPlan, UpdateWhere
  <2> HIDE DEF Chosen
  <2> QED BY <1>2, <2>1, RowsZeroed DEF StripeNext
<1>4. RestNext BY <1>1, RestSame
<1> QED BY <1>1, <1>2, <1>3, <1>4, HookSame, CheckoutIdle, CancelSame, KeptByParts

\* A checkout is left half way.
LEMMA AbandonCheckoutKeeps ==
  ASSUME IInv, AbandonCheckout
  PROVE  IInv'
<1>1. /\ checkout' = Idle
      /\ left' = left \cup {IF checkout.at = "paid" THEN checkout.new ELSE checkout.old}
      /\ checkout.at \in {"paid", "switched"}
      /\ UNCHANGED <<serverVars, hook, job, cancel, ungated, cycles, duplicates>>
  BY DEF AbandonCheckout, CheckoutStep
<1>2. StripeNext BY <1>1, SameEvents DEF serverVars
<1>3. RowsGo BY <1>1, <1>2, SameRows DEF StripeNext, serverVars
<1>4. RestNext
  <2>1. checkout.new \in Subs /\ checkout.old \in Subs \cup {NoSub}
    BY <1>1, CheckoutFields DEF IInv, TypeOK, Idle
  <2> QED BY <1>1, <2>1 DEF RestNext, IInv, TypeOK
<1> QED BY <1>1, <1>2, <1>3, <1>4, HookSame, CheckoutIdle, CancelSame, KeptByParts

\* A request to cancel a plan begins,
LEMMA ClickCancelKeeps ==
  ASSUME IInv, NEW c \in Cancels, NEW k \in 1..Nearest, ClickCancel(c, k)
  PROVE  IInv'
<1> DEFINE s == rows[k].sub
<1>1. /\ cancel' = [cancel EXCEPT ![c] = [at |-> "clicked", sub |-> s]]
      /\ s # NoSub
      /\ UNCHANGED <<serverVars, hook, job, checkout, counters>>
  BY DEF ClickCancel
<1>2. s \in Subs /\ Known(s)
  <2>1. rows \in Seq(Row) /\ \A i \in DOMAIN rows : rows[i] \in Row /\ RowKept(rows[i])
    BY RowsTyped DEF IInv, TypeOK, RowsKept
  <2>2. k \in DOMAIN rows BY <2>1, RowsTyped DEF Nearest
  <2> QED BY <1>1, <2>1, <2>2, RowFields DEF RowKept
<1>3. StripeNext BY <1>1, SameEvents DEF serverVars
<1>4. RowsGo BY <1>1, <1>3, SameRows DEF StripeNext, serverVars
<1>5. KnownNext(s) BY <1>2, <1>3 DEF StripeNext, StripeGoes
<1>6. CancelNext
  <2> HIDE DEF s
  <2> QED BY <1>1, <1>2, <1>3, <1>5, CancelGoes
<1>7. RestNext BY <1>1, RestSame
<1> QED BY <1>1, <1>3, <1>4, <1>6, <1>7, HookSame, CheckoutSame, KeptByParts

\* A request to cancel that comes to its next request, or to its end.
LEMMA CancelMoves ==
  ASSUME IInv, NEW c \in Cancels, cancel[c] # Idle, NEW at,
         cancel' = [cancel EXCEPT ![c].at = at]
  PROVE  cancel' = [cancel EXCEPT ![c] = [at |-> at, sub |-> cancel[c].sub]]
<1>1. cancel[c] \in [at : {"clicked", "committing", "done"}, sub : Subs] BY CancelFields
<1>2. [cancel[c] EXCEPT !.at = at] = [at |-> at, sub |-> cancel[c].sub] BY <1>1
<1>3. [cancel EXCEPT ![c].at = at] = [cancel EXCEPT ![c] = [cancel[c] EXCEPT !.at = at]]
  OBVIOUS
<1> QED BY <1>2, <1>3

\* deletes the subscription at Stripe,
LEMMA CancelAtStripeKeeps ==
  ASSUME IInv, NEW c \in Cancels, CancelAtStripe(c)
  PROVE  IInv'
<1> DEFINE s == cancel[c].sub
<1>1. /\ cancel[c] # Idle /\ DeleteAtStripe(s)
      /\ cancel' = [cancel EXCEPT ![c].at = "committing"]
      /\ UNCHANGED <<rows, hook, job, checkout, counters>>
  BY DEF CancelAtStripe, Idle
<1>2. s \in Subs /\ Known(s) BY <1>1, CancelFields
<1>3. StripeNext /\ OverNext(s) BY <1>1, <1>2, DeletedAtStripe
<1>4. RowsGo BY <1>1, <1>3, SameRows DEF StripeNext
<1>5. cancel' = [cancel EXCEPT ![c] = [at |-> "committing", sub |-> s]]
  BY <1>1, CancelMoves
<1>6. CancelNext
  <2>1. KnownNext(s) BY <1>3 DEF KnownNext, OverNext
  <2> HIDE DEF s
  <2> QED BY <1>2, <1>3, <1>5, <2>1, CancelGoes
<1>7. RestNext BY <1>1, RestSame
<1> QED BY <1>1, <1>3, <1>4, <1>6, <1>7, HookSame, CheckoutSame, KeptByParts

\* and schedules the plan to end.
LEMMA CancelPlanKeeps ==
  ASSUME IInv, NEW c \in Cancels, CancelPlan(c)
  PROVE  IInv'
<1> DEFINE s == cancel[c].sub
<1>1. /\ cancel[c].at = "committing" /\ cancel[c] # Idle
      /\ rows' = [i \in DOMAIN rows |-> IF rows[i].sub = s THEN EndWhenDue(rows[i]) ELSE rows[i]]
      /\ cancel' = [cancel EXCEPT ![c].at = "done"]
      /\ UNCHANGED <<stripe, events, hook, job, checkout, counters>>
  BY DEF CancelPlan, UpdateWhere, Idle
<1>2. s \in Subs /\ Known(s) /\ Over(s) BY <1>1, CancelFields DEF CancelKept
<1>3. StripeNext BY <1>1, SameEvents
<1>4. OverNext(s) /\ KnownNext(s) BY <1>2, <1>3 DEF StripeNext, StripeGoes
<1>5. RowsGo
  <2> HIDE DEF s
  <2> QED BY <1>1, <1>2, <1>3, <1>4, RowsEnd DEF StripeNext
<1>6. cancel' = [cancel EXCEPT ![c] = [at |-> "done", sub |-> s]]
  BY <1>1, CancelMoves
<1>7. CancelNext
  <2> HIDE DEF s
  <2> QED BY <1>2, <1>3, <1>4, <1>6, CancelGoes
<1>8. RestNext BY <1>1, RestSame
<1> QED BY <1>1, <1>3, <1>5, <1>7, <1>8, HookSame, CheckoutSame, KeptByParts

\* Stripe charges another period, or cannot.
LEMMA StripeKeeps ==
  ASSUME IInv, NEW s \in Subs, RenewAtStripe(s) \/ EndAtStripe(s)
  PROVE  IInv'
<1>1. /\ UNCHANGED <<rows, hook, job, checkout, cancel, ungated, duplicates, left>>
      /\ stripe[s] = "active" /\ cycles < MaxCycles /\ cycles' = cycles + 1
  BY DEF RenewAtStripe, EndAtStripe, Settled
<1>2. StripeNext
  <2>1. CASE RenewAtStripe(s)
    <3> DEFINE e == [type |-> "cycle", sub |-> s]
    <3>1. e \in Events /\ e.type # "deleted" BY DEF Events
    <3>2. events' = events \cup {e} /\ UNCHANGED stripe BY <2>1 DEF RenewAtStripe
    <3>3. events \subseteq Events BY DEF IInv, TypeOK
    <3> HIDE DEF e
    <3> QED BY <3>1, <3>2, <3>3, SameStripe
  <2>2. CASE EndAtStripe(s)
    BY <1>1, <2>2, DeletedAtStripe DEF EndAtStripe, Known
  <2> QED BY <2>1, <2>2
<1>3. RowsGo BY <1>1, <1>2, SameRows DEF StripeNext
<1>4. RestNext
  <2>1. cycles' \in 0..MaxCycles BY <1>1, BillingAssumption DEF IInv, TypeOK
  <2> QED BY <1>1, <2>1 DEF RestNext, IInv, TypeOK
<1> QED BY <1>1, <1>2, <1>3, <1>4, HookSame, CheckoutSame, CancelSame, KeptByParts

\* The webhook hears that a subscription was deleted.
LEMMA HookDeletedKeeps ==
  ASSUME IInv, NEW e \in events, HookDeleted(e)
  PROVE  IInv'
<1>1. Answered(e) /\ UNCHANGED <<stripe, hook, job, checkout, cancel, ungated, cycles, left>>
  BY DEF HookDeleted
<1>2. StripeNext /\ duplicates' \in 0..MaxDuplicates BY <1>1, AnsweredEvent
<1>3. RowsGo
  <2> DEFINE Chosen == {i \in DOMAIN rows : rows[i].sub = e.sub /\ EndsWithStripe(rows[i])}
  <2>1. rows' = [i \in DOMAIN rows |-> IF i \in Chosen THEN Zeroed(rows[i]) ELSE rows[i]]
    BY DEF HookDeleted, UpdateWhere
  <2> HIDE DEF Chosen
  <2> QED BY <1>2, <2>1, RowsZeroed DEF StripeNext
<1>4. RestNext BY <1>1, <1>2 DEF RestNext, IInv, TypeOK
<1> QED BY <1>1, <1>2, <1>3, <1>4, HookSame, CheckoutSame, CancelSame, KeptByParts

\* It hears of a payment, and loads a row.
LEMMA HookCycleKeeps ==
  ASSUME IInv, NEW e \in events, HookCycle(e)
  PROVE  IInv'
<1>1. hook = Idle /\ UNCHANGED <<rows, stripe, job, checkout, cancel, ungated, cycles, left>>
  BY DEF HookCycle
<1>2. CASE Answered(e) /\ UNCHANGED hook
  <2>1. StripeNext /\ duplicates' \in 0..MaxDuplicates BY <1>1, <1>2, AnsweredEvent
  <2>2. RowsGo BY <1>1, <2>1, SameRows DEF StripeNext
  <2>3. RestNext BY <1>1, <2>1 DEF RestNext, IInv, TypeOK
  <2> QED BY <1>1, <1>2, <2>1, <2>2, <2>3, HookSame, CheckoutSame, CancelSame, KeptByParts
<1>3. ASSUME NEW i \in DOMAIN rows,
             hook' = [at |-> "loaded", event |-> e, row |-> i,
                      balance |-> rows[i].balance, due |-> rows[i].due],
             UNCHANGED <<events, duplicates>>
      PROVE  IInv'
  <2>1. StripeNext BY <1>1, <1>3, SameEvents
  <2>2. RowsGo BY <1>1, <2>1, SameRows DEF StripeNext
  <2>3. HookNext
    <3> DEFINE next == [at |-> "loaded", event |-> e, row |-> i,
                        balance |-> rows[i].balance, due |-> rows[i].due]
    <3>1. rows[i].balance \in Int /\ rows[i].due \in Times
          /\ rows[i].balance <= rows[i].balance /\ i \in Nat
      <4>1. rows[i] \in Row /\ i \in Nat BY RowsTyped DEF IInv, TypeOK
      <4> QED BY <4>1, RowFields
    <3>2. e \in Events BY EventsTyped
    <3>3. next \in Hooks BY <3>1, <3>2 DEF Hooks
    <3>4. /\ hook' = next /\ next.at = "loaded" /\ next.row = i
          /\ next.balance = rows[i].balance /\ rows' = rows
      BY <1>1, <1>3
    <3> HIDE DEF next
    <3> QED BY <3>1, <3>3, <3>4 DEF HookNext, HookKept, NotBelow
  <2>4. RestNext BY <1>1, <1>3 DEF RestNext, IInv, TypeOK
  <2> QED BY <1>1, <2>1, <2>2, <2>3, <2>4, CheckoutSame, CancelSame, KeptByParts
<1> QED BY <1>2, <1>3 DEF HookCycle

\* What the hook has loaded.
LEMMA HookFields ==
  ASSUME IInv, hook # Idle
  PROVE  /\ hook.at = "loaded" /\ hook.event \in Events /\ hook.row \in DOMAIN rows
         /\ hook.balance \in Int /\ hook.due \in Times
BY DEF IInv, TypeOK, Hooks

\* The row that the hook renews.
LEMMA RenewedRows ==
  ASSUME IInv, HookCycleCommits, hook.due # "none"
  PROVE  LET row == rows[hook.row]
         IN /\ rows' = [i \in DOMAIN rows |->
                          IF i = hook.row
                          THEN [sub |-> row.sub, balance |-> hook.balance + PlanTime,
                                due |-> "ahead", end |-> row.end, renew |-> row.renew]
                          ELSE rows[i]]
            /\ hook \in Hooks /\ hook # Idle /\ row \in Row
            /\ hook.balance + PlanTime \in Int
<1> DEFINE row == rows[hook.row]
           b == hook.balance + PlanTime
<1>1. hook # Idle BY DEF HookCycleCommits, Idle
<1>2. hook.row \in DOMAIN rows /\ b \in Int
  BY <1>1, HookFields, BillingAssumption
<1>3. rows \in Seq(Row) /\ row \in Row BY <1>2, RowsTyped DEF IInv, TypeOK
<1>4. rows' = [rows EXCEPT ![hook.row] = [[row EXCEPT !.balance = b] EXCEPT !.due = "ahead"]]
  BY <1>2 DEF HookCycleCommits
<1>5. [[row EXCEPT !.balance = b] EXCEPT !.due = "ahead"] =
         [sub |-> row.sub, balance |-> b, due |-> "ahead", end |-> row.end, renew |-> row.renew]
  <2> DEFINE r == [sub |-> row.sub, balance |-> b, due |-> row.due, end |-> row.end,
                   renew |-> row.renew]
  <2> HIDE DEF row, b
  <2>1. [row EXCEPT !.balance = b] = r BY <1>3, RowChanges
  <2>2. r \in Row BY <1>2, <1>3, RowFields, RowMade
  <2>3. [r EXCEPT !.due = "ahead"] =
          [sub |-> r.sub, balance |-> r.balance, due |-> "ahead", end |-> r.end,
           renew |-> r.renew]
    <3> HIDE DEF r
    <3> QED BY <2>2, RowChanges
  <2> QED BY <2>1, <2>3
<1>6. rows' = [i \in DOMAIN rows |->
                 IF i = hook.row
                 THEN [sub |-> row.sub, balance |-> b, due |-> "ahead", end |-> row.end,
                       renew |-> row.renew]
                 ELSE rows[i]]
  <2> HIDE DEF row, b
  <2> QED BY <1>2, <1>4, <1>5
<1> QED BY <1>1, <1>2, <1>3, <1>6 DEF IInv, TypeOK

\* It writes the row that it has loaded.
LEMMA HookCycleCommitsKeeps ==
  ASSUME IInv, HookCycleCommits
  PROVE  IInv'
<1>1. /\ hook' = Idle /\ hook # Idle
      /\ UNCHANGED <<stripe, job, checkout, cancel, ungated, cycles, left>>
  BY DEF HookCycleCommits, Idle
<1>2. StripeNext /\ duplicates' \in 0..MaxDuplicates /\ RowsGo
  <2>1. CASE hook.due = "none"
    <3>1. UNCHANGED <<rows, events, duplicates>> BY <2>1 DEF HookCycleCommits
    <3>2. StripeNext BY <1>1, <3>1, SameEvents
    <3>3. RowsGo BY <3>1, <3>2, SameRows DEF StripeNext
    <3> QED BY <3>1, <3>2, <3>3 DEF IInv, TypeOK
  <2>2. CASE hook.due # "none"
    <3> DEFINE k == hook.row
               row == rows[k]
               b == hook.balance + PlanTime
               new == [sub |-> row.sub, balance |-> b, due |-> "ahead", end |-> row.end,
                       renew |-> row.renew]
               next == [i \in DOMAIN rows |-> new]
    <3>1. rows' = [i \in DOMAIN rows |-> IF i \in {k} THEN next[i] ELSE rows[i]]
      BY <2>2, RenewedRows
    <3>2. row \in Row /\ b \in Int BY <2>2, RenewedRows
    <3>3. Answered(hook.event) BY <2>2 DEF HookCycleCommits
    <3>4. events' \subseteq Events /\ duplicates' \in 0..MaxDuplicates
          /\ \A x \in events' : x \in events
      BY <3>3, BillingAssumption DEF Answered, IInv, TypeOK
    <3>5. StripeNext BY <1>1, <3>4, SameStripe
    <3>6. RowKept(row)
      BY <1>1, HookFields DEF IInv, RowsKept
    <3>7. new \in Row /\ RowGoes(row, new)
      <4>1. RowGoes(row, row)
        <5> HIDE DEF row
        <5> QED BY <3>2, <3>5, <3>6, SameRow DEF StripeNext
      <4>2. /\ row.sub \in Subs \cup {NoSub} /\ row.end \in Times /\ row.renew \in BOOLEAN
        <5> HIDE DEF row
        <5> QED BY <3>2, RowFields
      <4> HIDE DEF row, b
      <4>3. new \in Row BY <3>2, <4>2, RowMade DEF Times
      <4>4. RowGoes(row, new) BY <1>1, <4>1 DEF RowGoes
      <4> QED BY <4>3, <4>4
    <3>8. \A i \in DOMAIN rows \cap {k} : next[i] \in Row /\ RowGoes(rows[i], next[i])
      <4> HIDE DEF new
      <4> QED BY <3>7
    <3>9. RowsGo
      <4> HIDE DEF next
      <4> QED BY <3>1, <3>5, <3>8, SomeRows DEF StripeNext
    <3> QED BY <3>4, <3>5, <3>9
  <2> QED BY <2>1, <2>2
<1>3. RestNext BY <1>1, <1>2 DEF RestNext, IInv, TypeOK
<1> QED BY <1>1, <1>2, <1>3, HookIdle, CheckoutSame, CancelSame, KeptByParts

\* A due time or an end time passes.
LEMMA TimePassesKeeps ==
  ASSUME IInv, NEW k \in DOMAIN rows, DueTimePasses(k) \/ EndTimePasses(k)
  PROVE  IInv'
<1> DEFINE row == rows[k]
<1>1. UNCHANGED <<stripe, events, hook, job, checkout, cancel, counters>>
  BY DEF DueTimePasses, EndTimePasses
<1>2. row \in Row /\ RowKept(row) BY RowsTyped DEF IInv, TypeOK, RowsKept
<1>3. StripeNext BY <1>1, SameEvents
<1>4. RowGoes(row, row)
  <2> HIDE DEF row
  <2> QED BY <1>2, <1>3, SameRow DEF StripeNext
<1>5. /\ row.sub \in Subs \cup {NoSub} /\ row.balance \in Int /\ row.due \in Times
      /\ row.end \in Times /\ row.renew \in BOOLEAN
  <2> HIDE DEF row
  <2> QED BY <1>2, RowFields
<1>6. PICK new \in Row : /\ RowGoes(row, new)
                         /\ rows' = [i \in DOMAIN rows |-> IF i \in {k} THEN new ELSE rows[i]]
  <2>1. CASE DueTimePasses(k)
    <3> DEFINE new == [sub |-> row.sub, balance |-> row.balance, due |-> "past",
                       end |-> row.end, renew |-> row.renew]
    <3>1. row.due = "ahead" BY <2>1 DEF DueTimePasses
    <3>2. rows' = [rows EXCEPT ![k] = [row EXCEPT !.due = "past"]]
      BY <2>1 DEF DueTimePasses
    <3>3. [row EXCEPT !.due = "past"] = new
      <4> HIDE DEF row
      <4> QED BY <1>2, RowChanges
    <3>4. new \in Row
      <4> HIDE DEF row
      <4> QED BY <1>5, RowMade DEF Times
    <3>5. RowGoes(row, new)
      <4> HIDE DEF row
      <4> QED BY <1>4, <3>1 DEF RowGoes
    <3> HIDE DEF new
    <3> QED BY <3>2, <3>3, <3>4, <3>5
  <2>2. CASE EndTimePasses(k)
    <3> DEFINE new == [sub |-> row.sub, balance |-> row.balance, due |-> row.due,
                       end |-> "past", renew |-> row.renew]
    <3>1. row.end = "ahead" BY <2>2 DEF EndTimePasses
    <3>2. rows' = [rows EXCEPT ![k] = [row EXCEPT !.end = "past"]]
      BY <2>2 DEF EndTimePasses
    <3>3. [row EXCEPT !.end = "past"] = new
      <4> HIDE DEF row
      <4> QED BY <1>2, RowChanges
    <3>4. new \in Row
      <4> HIDE DEF row
      <4> QED BY <1>5, RowMade DEF Times
    <3>5. RowGoes(row, new)
      <4> HIDE DEF row
      <4> QED BY <1>4, <3>1 DEF RowGoes
    <3> HIDE DEF new
    <3> QED BY <3>2, <3>3, <3>4, <3>5
  <2> QED BY <2>1, <2>2
<1>7. RowsGo
  <2> DEFINE next == [i \in DOMAIN rows |-> new]
  <2>1. rows' = [i \in DOMAIN rows |-> IF i \in {k} THEN next[i] ELSE rows[i]] BY <1>6
  <2>2. \A i \in DOMAIN rows \cap {k} : next[i] \in Row /\ RowGoes(rows[i], next[i]) BY <1>6
  <2> HIDE DEF next
  <2> QED BY <1>3, <2>1, <2>2, SomeRows DEF StripeNext
<1>8. RestNext BY <1>1, RestSame
<1> QED BY <1>1, <1>3, <1>7, <1>8, HookSame, CheckoutSame, CancelSame, KeptByParts

\* Nothing happens.
LEMMA StutterKeeps ==
  ASSUME IInv, UNCHANGED vars
  PROVE  IInv'
<1>1. UNCHANGED <<rows, stripe, events, hook, job, checkout, cancel, counters>>
  BY DEF vars, serverVars
<1>2. StripeNext BY <1>1, SameEvents
<1>3. RowsGo BY <1>1, <1>2, SameRows DEF StripeNext
<1>4. RestNext BY <1>1, RestSame
<1> QED BY <1>1, <1>2, <1>3, <1>4, HookSame, CheckoutSame, CancelSame, KeptByParts

-----------------------------------------------------------------------------
(* The invariant *)

\* The invariant holds at the start, and every step keeps it.
LEMMA InitKept == Init => IInv
<1> SUFFICES ASSUME Init PROVE IInv OBVIOUS
<1>1. rows \in Seq(Row) /\ RowsKept
  <2>1. CASE rows = << >> BY <2>1 DEF RowsKept
  <2>2. CASE rows = <<Trial>>
    <3>1. RowKept(Trial) BY DEF RowKept, Trial
    <3>2. rows \in Seq(Row) /\ DOMAIN rows = {1} /\ rows[1] = Trial BY <2>2, TrialIsRow
    <3> QED BY <3>1, <3>2 DEF RowsKept
  <2> QED BY <2>1, <2>2 DEF Init
<1>2. /\ hook = Idle /\ checkout = Idle /\ events = {} /\ \A c \in Cancels : cancel[c] = Idle
  BY DEF Init
<1>3. TypeOK
  BY <1>1, BillingAssumption DEF Init, TypeOK, Hooks, Checkouts, Idle
<1>4. HookKept /\ CheckoutKept BY <1>2 DEF HookKept, CheckoutKept, Idle
<1>5. EventsKept /\ \A c \in Cancels : CancelKept(c) BY <1>2 DEF EventsKept, CancelKept
<1> QED BY <1>1, <1>3, <1>4, <1>5 DEF IInv

\* Every step of the program keeps the invariant.
LEMMA StepKept == IInv /\ [Next]_vars => IInv'
<1> SUFFICES ASSUME IInv, [Next]_vars PROVE IInv' OBVIOUS
<1>1. ASSUME NEW r \in Requests, Charts(r) PROVE IInv'
  BY <1>1, JobKeeps, StartUngatedRunKeeps, CreateTrialKeeps, DebitRunKeeps DEF Charts
<1>2. CASE Checkout
  BY <1>2, PayKeeps, ReadCurrentPlanKeeps, SwitchPlanKeeps, DropOldAtStripeKeeps,
     DropOldPlanKeeps, AbandonCheckoutKeeps DEF Checkout
<1>3. ASSUME NEW c \in Cancels, Cancellation(c) PROVE IInv'
  BY <1>3, ClickCancelKeeps, CancelAtStripeKeeps, CancelPlanKeeps DEF Cancellation
<1>4. CASE Webhooks
  BY <1>4, HookDeletedKeeps, HookCycleKeeps, HookCycleCommitsKeeps DEF Webhooks
<1> QED BY <1>1, <1>2, <1>3, <1>4, StripeKeeps, TimePassesKeeps, StutterKeeps DEF Next

\* The invariant holds for any number of subscriptions, requests and cancellations.
THEOREM Invariance == Spec => []IInv
BY InitKept, StepKept, PTL DEF Spec

\* Every variable keeps to its range, and the rows that a checkout or the webhook has in
\* mind, across a call of Stripe, are still there when it comes back.
THEOREM TypeCorrect == Spec => []TypeOK
<1>1. IInv => TypeOK BY DEF IInv
<1> QED BY <1>1, Invariance, PTL

-----------------------------------------------------------------------------
(* A plan that is scheduled to end *)

\* What a step may not do to a row, unless it ends a run or belongs to a checkout.
Spared(i) == rows[i].end # "ahead" \/ (rows')[i].balance >= rows[i].balance

\* A row with the balance it had is spared.
LEMMA UntouchedIsSpared ==
  ASSUME IInv, NEW i \in DOMAIN rows, (rows')[i].balance = rows[i].balance
  PROVE  Spared(i)
<1>1. rows[i] \in Row BY RowsTyped DEF IInv, TypeOK
<1>2. rows[i].balance \in Int BY <1>1, RowFields
<1> QED BY <1>2 DEF Spared

\* A step of a checkout that changes a balance ends the checkout.
LEMMA CheckoutSpares ==
  ASSUME IInv, Checkout, UNCHANGED checkout, NEW i \in DOMAIN rows
  PROVE  Spared(i)
<1>1. CASE SwitchPlan BY <1>1, SwitchedRows, UntouchedIsSpared
<1>2. CASE DropOldPlan BY <1>2 DEF DropOldPlan, CheckoutStep, Idle
<1>3. CASE UNCHANGED rows BY <1>3, UntouchedIsSpared
<1> QED BY <1>1, <1>2, <1>3
      DEF Checkout, Pay, ReadCurrentPlan, DropOldAtStripe, AbandonCheckout, serverVars

\* A cancellation leaves the balances alone.
LEMMA CancelSpares ==
  ASSUME IInv, NEW c \in Cancels, Cancellation(c), NEW i \in DOMAIN rows
  PROVE  Spared(i)
<1>1. CASE CancelPlan(c)
  <2> DEFINE row == rows[i]
  <2>1. rows' = [k \in DOMAIN rows |->
                   IF rows[k].sub = cancel[c].sub THEN EndWhenDue(rows[k]) ELSE rows[k]]
    BY <1>1 DEF CancelPlan, UpdateWhere
  <2>2. (rows')[i] \in {row, EndWhenDue(row)} BY <2>1
  <2>3. row \in Row BY RowsTyped DEF IInv, TypeOK
  <2>4. EndWhenDue(row).balance = row.balance
    <3> HIDE DEF row
    <3>1. EndWhenDue(row) = [sub |-> row.sub, balance |-> row.balance, due |-> "none",
                             end |-> row.due, renew |-> FALSE]
      BY <2>3, RowChanges
    <3> QED BY <3>1
  <2>5. (rows')[i].balance = rows[i].balance BY <2>2, <2>4
  <2> QED BY <2>5, UntouchedIsSpared
<1>2. CASE UNCHANGED rows BY <1>2, UntouchedIsSpared
<1> QED BY <1>1, <1>2 DEF Cancellation, ClickCancel, CancelAtStripe, serverVars

\* The webhook ends only plans that renew, and writes no less than it has loaded.
LEMMA WebhooksSpare ==
  ASSUME IInv, Webhooks, NEW i \in DOMAIN rows
  PROVE  Spared(i)
<1>1. ASSUME NEW e \in events, HookDeleted(e) PROVE Spared(i)
  <2>1. CASE rows[i].end = "ahead"
    <3>1. ~rows[i].renew BY <2>1 DEF IInv, RowsKept, RowKept
    <3>2. (rows')[i] = rows[i] BY <1>1, <3>1 DEF HookDeleted, UpdateWhere, EndsWithStripe
    <3> QED BY <3>2, UntouchedIsSpared
  <2>2. CASE rows[i].end # "ahead" BY <2>2 DEF Spared
  <2> QED BY <2>1, <2>2
<1>2. CASE HookCycleCommits /\ hook.due # "none"
  <2> DEFINE row == rows[hook.row]
  <2>1. /\ hook # Idle /\ hook.row \in DOMAIN rows /\ hook.balance \in Int
        /\ hook.at = "loaded" /\ row \in Row
    BY <1>2, RenewedRows, HookFields
  <2>2. row.balance \in Int
    <3> HIDE DEF row
    <3> QED BY <2>1, RowFields
  <2>3. CASE i = hook.row
    <3>1. (rows')[i].balance = hook.balance + PlanTime BY <1>2, <2>3, RenewedRows
    <3>2. row.balance <= hook.balance \/ row.end # "ahead"
      BY <1>2, <2>1 DEF IInv, HookKept, NotBelow
    <3>3. PlanTime \in Nat BY BillingAssumption
    <3>4. row.balance <= hook.balance => hook.balance + PlanTime >= row.balance
      <4> HIDE DEF row
      <4> QED BY <2>1, <2>2, <3>3
    <3> QED BY <2>3, <3>1, <3>2, <3>4 DEF Spared
  <2>4. CASE i # hook.row
    <3>1. (rows')[i] = rows[i] BY <1>2, <2>4, RenewedRows
    <3> QED BY <3>1, UntouchedIsSpared
  <2> QED BY <2>3, <2>4
<1>3. CASE UNCHANGED rows BY <1>3, UntouchedIsSpared
<1> QED BY <1>1, <1>2, <1>3 DEF Webhooks, HookCycle, HookCycleCommits

\* Time passes.
LEMMA TimeSpares ==
  ASSUME IInv, NEW k \in DOMAIN rows, DueTimePasses(k) \/ EndTimePasses(k), NEW i \in DOMAIN rows
  PROVE  Spared(i)
<1> DEFINE row == rows[k]
<1>1. row \in Row BY RowsTyped DEF IInv, TypeOK
<1>2. PICK new : /\ rows' = [rows EXCEPT ![k] = new]
                 /\ new \in {[row EXCEPT !.due = "past"], [row EXCEPT !.end = "past"]}
  BY DEF DueTimePasses, EndTimePasses
<1>3. new.balance = row.balance
  <2> HIDE DEF row
  <2> QED BY <1>1, <1>2, RowChanges
<1>4. (rows')[i].balance = rows[i].balance BY <1>2, <1>3
<1> QED BY <1>4, UntouchedIsSpared

\* add_billing_balance_history is a step of a run that ends.
LEMMA ChartsSpare ==
  ASSUME IInv, NEW r \in Requests, Charts(r), NEW i \in DOMAIN rows
  PROVE  Spared(i) \/ (job[r] = "running" /\ job'[r] = "idle")
<1>1. ASSUME NEW runtime, DebitRun(r, runtime) PROVE job[r] = "running" /\ job'[r] = "idle"
  BY <1>1 DEF DebitRun, IInv, TypeOK
<1>2. CASE CreateTrial(r)
  <2>1. (rows')[i] = rows[i]
    <3>1. rows \in Seq(Row) /\ rows' = Append(rows, Trial) BY <1>2 DEF CreateTrial, IInv, TypeOK
    <3> QED BY <3>1, OneMore, TrialIsRow
  <2> QED BY <2>1, UntouchedIsSpared
<1>3. CASE UNCHANGED rows BY <1>3, UntouchedIsSpared
<1> QED BY <1>1, <1>2, <1>3
      DEF Charts, LookForTrial, AllowRun, StartUngatedRun, RefuseRun, EndRunUnpaid, serverVars

\* A plan that was cancelled, or a trial, loses its balance to nothing but a run that ends
\* or a checkout: Stripe's report of the cancellation, whenever and how often it comes, and
\* the renewal that a webhook has half done leave it alone.
THEOREM Scheduled == Spec => ScheduledPlanIsKept
<1>1. IInv /\ [Next]_vars
        => [\A i \in DOMAIN rows :
              \/ rows[i].end # "ahead"
              \/ rows'[i].balance >= rows[i].balance
              \/ \E r \in Requests : job[r] = "running" /\ job'[r] = "idle"
              \/ checkout' # checkout]_vars
  <2> DEFINE Ends == \E r \in Requests : job[r] = "running" /\ job'[r] = "idle"
  <2> SUFFICES ASSUME IInv, Next, NEW i \in DOMAIN rows, UNCHANGED checkout
               PROVE  Spared(i) \/ Ends
    BY DEF Spared
  <2>1. ASSUME NEW r \in Requests, Charts(r) PROVE Spared(i) \/ Ends
    BY <2>1, ChartsSpare
  <2>2. CASE Checkout BY <2>2, CheckoutSpares
  <2>3. ASSUME NEW c \in Cancels, Cancellation(c) PROVE Spared(i) BY <2>3, CancelSpares
  <2>4. ASSUME NEW s \in Subs, RenewAtStripe(s) \/ EndAtStripe(s) PROVE Spared(i)
    BY <2>4, UntouchedIsSpared DEF RenewAtStripe, EndAtStripe
  <2>5. CASE Webhooks BY <2>5, WebhooksSpare
  <2>6. ASSUME NEW k \in DOMAIN rows, DueTimePasses(k) \/ EndTimePasses(k) PROVE Spared(i)
    BY <2>6, TimeSpares
  <2> QED BY <2>1, <2>2, <2>3, <2>4, <2>5, <2>6 DEF Next
<1> QED BY <1>1, Invariance, PTL DEF Spec, ScheduledPlanIsKept

-----------------------------------------------------------------------------
(* Who is charged has a plan *)

\* A user who has no trial yet has one request under way: two first requests would
\* insert two trials.
OneTrial == NewUser => \A p, q \in Requests : p = q

Last == Len(rows)

\* Who is going to insert a trial still finds no row.
NoLateTrial ==
  /\ ~NewUser => rows # << >>
  /\ \A r \in Requests : job[r] = "trial" => rows = << >>

\* The page of a checkout that has not switched yet was loaded with the last row, unless it
\* is outdated.
OldIsLast ==
  checkout.at \in {"paid", "switching"} /\ ~checkout.stale => checkout.old = rows[Last].sub

\* Why a subscription that Stripe charges is not one too many.
Covered(s) ==
  \/ stripe[s] # "active" \/ s \in left
  \/ checkout.at \in {"paid", "switching"} /\ s = checkout.new
  \/ checkout.at = "switched" /\ s = checkout.old
  \/ \E i \in CurrentRows : rows[i].sub = s

\* The plan that is paid for is the last one, or the one that is being dropped.
Paid(s) == s # NoSub /\ stripe[s] = "active" /\ s \notin left
LastIsPaid ==
  \A i \in CurrentRows :
    Paid(rows[i].sub) =>
      i = Last \/ (checkout.at = "switched" /\ rows[i].sub = checkout.old)

PaidInv ==
  /\ IInv /\ NoLateTrial /\ OldIsLast /\ LastIsPaid
  /\ \A s \in Subs : Covered(s)

\* A row is as current after a step as before it, unless it is a trial, or its
\* subscription is over.
RowStays(old, new) ==
  /\ new.sub = old.sub
  /\ old.sub # NoSub /\ ~OverNext(old.sub) => (Current(new) <=> Current(old))
RowsStay ==
  /\ DOMAIN rows' = DOMAIN rows /\ Len(rows') = Len(rows)
  /\ \A i \in DOMAIN rows : RowStays(rows[i], (rows')[i])

\* A step that leaves the rows alone.
LEMMA StayUnchanged ==
  ASSUME UNCHANGED rows
  PROVE  RowsStay
BY DEF RowsStay, RowStays

\* Rows that are changed one by one are as many afterwards.
LEMMA SameCount ==
  ASSUME IInv, IInv', DOMAIN rows' = DOMAIN rows
  PROVE  Len(rows') = Len(rows)
<1> DEFINE m == Len(rows)
           n == Len(rows')
<1>1. rows \in Seq(Row) /\ rows' \in Seq(Row) BY DEF IInv, TypeOK
<1>2. m \in Nat /\ n \in Nat /\ 1..m = 1..n BY <1>1, LenProperties
<1> HIDE DEF m, n
<1>3. m <= n
  <2>1. m >= 1 => m \in 1..n BY <1>2
  <2> QED BY <1>2, <2>1
<1>4. n <= m
  <2>1. n >= 1 => n \in 1..m BY <1>2
  <2> QED BY <1>2, <2>1
<1>5. m = n BY <1>2, <1>3, <1>4
<1> QED BY <1>5 DEF m, n

\* Rows that are changed one by one, and stay as current as they were.
LEMMA StayChanged ==
  ASSUME IInv, IInv', NEW next, rows' = [i \in DOMAIN rows |-> next[i]],
         \A i \in DOMAIN rows : RowStays(rows[i], next[i])
  PROVE  RowsStay
<1>1. DOMAIN rows' = DOMAIN rows OBVIOUS
<1>2. Len(rows') = Len(rows) BY <1>1, SameCount
<1> QED BY <1>1, <1>2 DEF RowsStay

\* Rows that end for good, whose subscriptions are over.
LEMMA StayZeroed ==
  ASSUME IInv, IInv', NEW Chosen,
         rows' = [i \in DOMAIN rows |-> IF i \in Chosen THEN Zeroed(rows[i]) ELSE rows[i]],
         \A i \in DOMAIN rows \cap Chosen :
           rows[i].sub # NoSub /\ ~OverNext(rows[i].sub) => ~Current(rows[i])
  PROVE  RowsStay
<1> DEFINE next == [i \in DOMAIN rows |-> IF i \in Chosen THEN Zeroed(rows[i]) ELSE rows[i]]
<1>1. ASSUME NEW i \in DOMAIN rows PROVE RowStays(rows[i], next[i])
  <2> DEFINE row == rows[i]
  <2>1. row \in Row BY RowsTyped DEF IInv, TypeOK
  <2>2. CASE i \in Chosen
    <3>1. Zeroed(row).sub = row.sub /\ Zeroed(row).end = "past"
      <4> HIDE DEF row
      <4>1. Zeroed(row) = [sub |-> row.sub, balance |-> 0, due |-> "none", end |-> "past",
                           renew |-> FALSE]
        BY <2>1, RowChanges
      <4> QED BY <4>1
    <3>2. ~Current(Zeroed(row))
      <4> HIDE DEF row
      <4> QED BY <3>1 DEF Current
    <3>3. next[i] = Zeroed(row) /\ (row.sub # NoSub /\ ~OverNext(row.sub) => ~Current(row))
      BY <2>2
    <3> HIDE DEF next
    <3> QED BY <3>1, <3>2, <3>3 DEF RowStays
  <2>3. CASE i \notin Chosen BY <2>3 DEF RowStays
  <2> QED BY <2>2, <2>3
<1>2. rows' = [i \in DOMAIN rows |-> next[i]] OBVIOUS
<1> HIDE DEF next
<1> QED BY <1>1, <1>2, StayChanged

\* What is charged after a step was charged before it.
NothingPaid == \A s \in Subs : stripe'[s] = "active" => stripe[s] = "active"
\* What is over is not charged.
LEMMA OverIsUnpaid ==
  ASSUME NEW s, OverNext(s)
  PROVE  stripe'[s] # "active"
BY DEF OverNext

\* The rows that are charged are as current as before.
LEMMA CurrentStays ==
  ASSUME RowsStay, NEW i \in DOMAIN rows,
         rows[i].sub # NoSub, stripe'[rows[i].sub] = "active"
  PROVE  /\ (rows')[i].sub = rows[i].sub
         /\ Current((rows')[i]) <=> Current(rows[i])
BY DEF RowsStay, RowStays, OverNext

\* A step that charges nothing new and ends no row that is charged needs no other cover.
LEMMA CoveredStays ==
  ASSUME PaidInv, RowsStay, NothingPaid, UNCHANGED <<checkout, left>>
  PROVE  (\A s \in Subs : Covered(s)') /\ OldIsLast' /\ LastIsPaid'
<1>1. ASSUME NEW s \in Subs PROVE Covered(s)'
  <2>1. CASE stripe'[s] = "active" /\ \E i \in CurrentRows : rows[i].sub = s
    <3>1. PICK i \in DOMAIN rows : Current(rows[i]) /\ rows[i].sub = s
      BY <2>1 DEF CurrentRows
    <3>2. s # NoSub BY BillingAssumption
    <3>3. Current((rows')[i]) /\ (rows')[i].sub = s BY <2>1, <3>1, <3>2, CurrentStays
    <3>4. i \in DOMAIN rows' BY DEF RowsStay
    <3> QED BY <3>3, <3>4 DEF Covered, CurrentRows
  <2>2. CASE stripe'[s] = "active" /\ ~ \E i \in CurrentRows : rows[i].sub = s
    BY <2>2 DEF PaidInv, Covered, NothingPaid
  <2>3. CASE stripe'[s] # "active" BY <2>3 DEF Covered
  <2> QED BY <2>1, <2>2, <2>3
<1>2. OldIsLast'
  <2>1. ASSUME checkout.at \in {"paid", "switching"} PROVE (rows')[Last].sub = rows[Last].sub
    <3>1. rows # << >> /\ rows \in Seq(Row)
      BY <2>1 DEF PaidInv, IInv, CheckoutKept, TypeOK, Idle
    <3>2. Last \in DOMAIN rows BY <3>1, RowsTyped DEF Last
    <3> QED BY <3>2 DEF RowsStay, RowStays
  <2>2. Len(rows') = Len(rows) BY DEF RowsStay
  <2> QED BY <2>1, <2>2 DEF OldIsLast, PaidInv, Last
<1>3. LastIsPaid'
  <2>1. ASSUME NEW i \in DOMAIN rows, Current((rows')[i]),
               (rows')[i].sub # NoSub, stripe'[(rows')[i].sub] = "active",
               (rows')[i].sub \notin left
        PROVE  i = Last \/ (checkout.at = "switched" /\ (rows')[i].sub = checkout.old)
    <3>1. (rows')[i].sub = rows[i].sub BY DEF RowsStay, RowStays
    <3>2. Current(rows[i]) BY <2>1, <3>1, CurrentStays
    <3>3. rows[i].sub \in Subs
      <4>1. rows[i] \in Row BY RowsTyped DEF PaidInv, IInv, TypeOK
      <4> QED BY <2>1, <3>1, <4>1, RowFields
    <3> QED BY <2>1, <3>1, <3>2, <3>3 DEF PaidInv, LastIsPaid, Paid, CurrentRows, NothingPaid
  <2>2. DOMAIN rows' = DOMAIN rows /\ Len(rows') = Len(rows) BY DEF RowsStay
  <2> QED BY <2>1, <2>2 DEF LastIsPaid, Paid, CurrentRows, Last
<1> QED BY <1>1, <1>2, <1>3

\* A request that was going to insert a trial still finds no row.
LEMMA TrialStays ==
  ASSUME PaidInv, RowsStay, IInv', UNCHANGED job
  PROVE  NoLateTrial'
<1>1. rows \in Seq(Row) /\ rows' \in Seq(Row) BY DEF PaidInv, IInv, TypeOK
<1>2. rows' = << >> <=> rows = << >>
  <2>1. rows = << >> <=> Len(rows) = 0 BY <1>1, EmptySeq
  <2>2. rows' = << >> <=> Len(rows') = 0 BY <1>1, EmptySeq
  <2> QED BY <2>1, <2>2 DEF RowsStay
<1> QED BY <1>2 DEF PaidInv, NoLateTrial

\* Together: a step that leaves requests and checkouts alone.
LEMMA QuietKeepsPaid ==
  ASSUME PaidInv, IInv', RowsStay, NothingPaid, UNCHANGED <<job, checkout, left>>
  PROVE  PaidInv'
BY CoveredStays, TrialStays DEF PaidInv

\* Deleting a subscription charges nothing.
LEMMA DeletePaysNothing ==
  ASSUME IInv, NEW s \in Subs, DeleteAtStripe(s)
  PROVE  NothingPaid
BY DEF DeleteAtStripe, NothingPaid, IInv, TypeOK

\* Requests for charts: the one that inserts a trial finds no row there.
LEMMA ChartsKeepPaid ==
  ASSUME PaidInv, OneTrial, NEW r \in Requests, Charts(r), IInv'
  PROVE  PaidInv'
<1>1. job \in [Requests -> {"idle", "trial", "gate", "running", "refused"}]
  BY DEF PaidInv, IInv, TypeOK
<1>2. CASE CreateTrial(r)
  <2>1. rows = << >> /\ rows' = Append(rows, Trial) /\ job' = [job EXCEPT ![r] = "gate"]
        /\ UNCHANGED <<stripe, checkout, left>>
    BY <1>2 DEF CreateTrial, PaidInv, NoLateTrial, counters
  <2>2. NewUser BY <2>1 DEF PaidInv, NoLateTrial
  <2>3. checkout = Idle /\ checkout.at = "idle"
    BY <2>1 DEF PaidInv, IInv, CheckoutKept, Idle
  <2>4. rows' # << >> /\ DOMAIN rows' = {1} /\ rows'[1] = Trial
    <3>1. rows' = <<Trial>> BY <2>1
    <3> QED BY <3>1
  <2>5. NoLateTrial' BY <1>1, <2>1, <2>2, <2>4 DEF OneTrial, NoLateTrial
  <2>6. OldIsLast' BY <2>1, <2>3 DEF OldIsLast
  <2>7. LastIsPaid' BY <2>4 DEF LastIsPaid, CurrentRows, Paid, Trial
  <2>8. ASSUME NEW s \in Subs PROVE Covered(s)'
    <3>1. CurrentRows = {} BY <2>1 DEF CurrentRows
    <3>2. stripe[s] # "active" \/ s \in left
      BY <2>3, <3>1 DEF PaidInv, Covered
    <3> QED BY <2>1, <3>2 DEF Covered
  <2> QED BY <2>5, <2>6, <2>7, <2>8 DEF PaidInv
<1>3. CASE ~CreateTrial(r)
  <2>1. UNCHANGED <<stripe, checkout, left>>
    BY <1>3 DEF Charts, LookForTrial, AllowRun, StartUngatedRun, RefuseRun, DebitRun,
                EndRunUnpaid, serverVars, counters
  <2>2. NothingPaid BY <2>1 DEF NothingPaid
  <2>3. RowsStay
    <3>1. CASE UNCHANGED rows BY <3>1, StayUnchanged
    <3>2. ASSUME NEW runtime \in 0..MaxRuntime,
                 UpdateWhere(Current, LAMBDA row : [row EXCEPT !.balance = @ - runtime])
          PROVE  RowsStay
      <4> DEFINE next == [i \in DOMAIN rows |->
                            IF Current(rows[i])
                            THEN [rows[i] EXCEPT !.balance = rows[i].balance - runtime]
                            ELSE rows[i]]
      <4>1. rows' = [i \in DOMAIN rows |-> next[i]] BY <3>2 DEF UpdateWhere
      <4>2. ASSUME NEW i \in DOMAIN rows PROVE RowStays(rows[i], next[i])
        <5>1. rows[i] \in Row /\ runtime \in Nat
          BY RowsTyped, BillingAssumption DEF PaidInv, IInv, TypeOK
        <5>2. next[i].sub = rows[i].sub /\ next[i].end = rows[i].end BY <5>1, Debited
        <5> HIDE DEF next
        <5> QED BY <5>2 DEF RowStays, Current
      <4> HIDE DEF next
      <4> QED BY <4>1, <4>2, StayChanged DEF PaidInv
    <3> QED BY <1>3, <3>1, <3>2
          DEF Charts, LookForTrial, AllowRun, StartUngatedRun, RefuseRun, DebitRun, EndRunUnpaid,
              serverVars
  <2>4. (\A s \in Subs : Covered(s)') /\ OldIsLast' /\ LastIsPaid'
    BY <2>1, <2>2, <2>3, CoveredStays
  <2>5. NoLateTrial'
    <3>1. rows' = << >> <=> rows = << >>
      <4>1. rows \in Seq(Row) /\ rows' \in Seq(Row) BY DEF PaidInv, IInv, TypeOK
      <4>2. rows = << >> <=> Len(rows) = 0 BY <4>1, EmptySeq
      <4>3. rows' = << >> <=> Len(rows') = 0 BY <4>1, EmptySeq
      <4> QED BY <2>3, <4>2, <4>3 DEF RowsStay
    <3>2. \A q \in Requests : job'[q] = "trial" => job[q] = "trial" \/ rows = << >>
      BY <1>1, <1>3
         DEF Charts, LookForTrial, AllowRun, StartUngatedRun, RefuseRun, DebitRun, EndRunUnpaid
    <3> QED BY <3>1, <3>2 DEF PaidInv, NoLateTrial
  <2> QED BY <2>4, <2>5 DEF PaidInv
<1> QED BY <1>2, <1>3

\* Cancellations schedule rows whose subscription is over already.
LEMMA CancelKeepsPaid ==
  ASSUME PaidInv, NEW c \in Cancels, Cancellation(c), IInv'
  PROVE  PaidInv'
<1>1. IInv BY DEF PaidInv
<1>2. UNCHANGED <<job, checkout, left>>
  BY DEF Cancellation, ClickCancel, CancelAtStripe, CancelPlan, counters
<1>3. CASE \E i \in 1..Nearest : ClickCancel(c, i)
  BY <1>2, <1>3, StayUnchanged, QuietKeepsPaid DEF ClickCancel, NothingPaid, serverVars
<1>4. CASE CancelAtStripe(c)
  <2>1. cancel[c].sub \in Subs BY <1>1, <1>4, CancelFields DEF CancelAtStripe, Idle
  <2>2. NothingPaid BY <1>1, <1>4, <2>1, DeletePaysNothing DEF CancelAtStripe
  <2>3. RowsStay BY <1>4, StayUnchanged DEF CancelAtStripe
  <2> QED BY <1>2, <2>2, <2>3, QuietKeepsPaid
<1>5. CASE CancelPlan(c)
  <2> DEFINE s == cancel[c].sub
             next == [i \in DOMAIN rows |->
                        IF rows[i].sub = s THEN EndWhenDue(rows[i]) ELSE rows[i]]
  <2>1. cancel[c] # Idle /\ cancel[c].at = "committing" /\ UNCHANGED stripe
    BY <1>5 DEF CancelPlan, Idle
  <2>2. OverNext(s) BY <1>1, <2>1, CancelFields DEF CancelKept, Over, OverNext
  <2>3. ASSUME NEW i \in DOMAIN rows PROVE RowStays(rows[i], next[i])
    <3> DEFINE row == rows[i]
    <3>1. row \in Row BY <1>1, RowsTyped DEF IInv, TypeOK
    <3>2. EndWhenDue(row).sub = row.sub
      <4> HIDE DEF row
      <4>1. EndWhenDue(row) = [sub |-> row.sub, balance |-> row.balance, due |-> "none",
                               end |-> row.due, renew |-> FALSE]
        BY <3>1, RowChanges
      <4> QED BY <4>1
    <3>3. next[i] = IF row.sub = s THEN EndWhenDue(row) ELSE row OBVIOUS
    <3> HIDE DEF next, s
    <3> QED BY <2>2, <3>2, <3>3 DEF RowStays
  <2>4. rows' = [i \in DOMAIN rows |-> next[i]] BY <1>5 DEF CancelPlan, UpdateWhere
  <2>5. RowsStay
    <3> HIDE DEF next
    <3> QED BY <1>1, <2>3, <2>4, StayChanged
  <2> QED BY <1>2, <2>1, <2>5, QuietKeepsPaid DEF NothingPaid
<1> QED BY <1>3, <1>4, <1>5 DEF Cancellation

\* Stripe charges what it has charged before, or no longer.
LEMMA StripeKeepsPaid ==
  ASSUME PaidInv, NEW s \in Subs, RenewAtStripe(s) \/ EndAtStripe(s), IInv'
  PROVE  PaidInv'
<1>1. UNCHANGED <<rows, job, checkout, left>> BY DEF RenewAtStripe, EndAtStripe
<1>2. NothingPaid
  BY DeletePaysNothing DEF RenewAtStripe, EndAtStripe, NothingPaid, PaidInv
<1> QED BY <1>1, <1>2, StayUnchanged, QuietKeepsPaid

\* The webhook ends rows of subscriptions that are over.
LEMMA WebhooksKeepPaid ==
  ASSUME PaidInv, Webhooks, IInv'
  PROVE  PaidInv'
<1>1. IInv BY DEF PaidInv
<1>2. UNCHANGED <<stripe, job, checkout, left>>
  BY DEF Webhooks, HookDeleted, HookCycle, HookCycleCommits
<1>3. RowsStay
  <2>1. ASSUME NEW e \in events, HookDeleted(e) PROVE RowsStay
    <3> DEFINE Chosen == {i \in DOMAIN rows : rows[i].sub = e.sub /\ EndsWithStripe(rows[i])}
    <3>1. rows' = [i \in DOMAIN rows |-> IF i \in Chosen THEN Zeroed(rows[i]) ELSE rows[i]]
      BY <2>1 DEF HookDeleted, UpdateWhere
    <3>2. OverNext(e.sub) BY <1>1, <1>2, <2>1 DEF HookDeleted, IInv, EventsKept, Over, OverNext
    <3>3. \A i \in DOMAIN rows \cap Chosen : OverNext(rows[i].sub) BY <3>2
    <3> HIDE DEF Chosen
    <3> QED BY <1>1, <3>1, <3>3, StayZeroed
  <2>2. CASE HookCycleCommits /\ hook.due # "none"
    <3> DEFINE row == rows[hook.row]
               next == [i \in DOMAIN rows |->
                          IF i = hook.row
                          THEN [sub |-> row.sub, balance |-> hook.balance + PlanTime,
                                due |-> "ahead", end |-> row.end, renew |-> row.renew]
                          ELSE rows[i]]
    <3>1. rows' = [i \in DOMAIN rows |-> next[i]] BY <1>1, <2>2, RenewedRows
    <3>2. ASSUME NEW i \in DOMAIN rows PROVE RowStays(rows[i], next[i])
      <4>1. next[i].sub = rows[i].sub /\ next[i].end = rows[i].end OBVIOUS
      <4> HIDE DEF next
      <4> QED BY <4>1 DEF RowStays, Current
    <3> HIDE DEF next
    <3> QED BY <1>1, <3>1, <3>2, StayChanged
  <2>3. CASE UNCHANGED rows BY <2>3, StayUnchanged
  <2> QED BY <2>1, <2>2, <2>3 DEF Webhooks, HookCycle, HookCycleCommits
<1> QED BY <1>2, <1>3, QuietKeepsPaid DEF NothingPaid

\* Only rows whose subscription is over have an end time that passes.
LEMMA TimeKeepsPaid ==
  ASSUME PaidInv, NEW k \in DOMAIN rows, DueTimePasses(k) \/ EndTimePasses(k), IInv'
  PROVE  PaidInv'
<1> DEFINE row == rows[k]
<1>1. IInv /\ row \in Row BY RowsTyped DEF PaidInv, IInv, TypeOK
<1>2. UNCHANGED <<stripe, job, checkout, left>>
  BY DEF DueTimePasses, EndTimePasses, counters
<1>3. PICK new : rows' = [rows EXCEPT ![k] = new] /\ RowStays(row, new)
  <2>1. CASE DueTimePasses(k)
    <3> DEFINE new == [row EXCEPT !.due = "past"]
    <3>1. rows' = [rows EXCEPT ![k] = new] BY <2>1 DEF DueTimePasses
    <3>2. new.sub = row.sub /\ new.end = row.end
      <4> HIDE DEF row
      <4>1. [row EXCEPT !.due = "past"] =
              [sub |-> row.sub, balance |-> row.balance, due |-> "past", end |-> row.end,
               renew |-> row.renew]
        BY <1>1, RowChanges
      <4> QED BY <4>1
    <3> HIDE DEF new, row
    <3> QED BY <3>1, <3>2 DEF RowStays, Current
  <2>2. CASE EndTimePasses(k)
    <3> DEFINE new == [row EXCEPT !.end = "past"]
    <3>1. rows' = [rows EXCEPT ![k] = new] BY <2>2 DEF EndTimePasses
    <3>2. new.sub = row.sub
      <4> HIDE DEF row
      <4>1. [row EXCEPT !.end = "past"] =
              [sub |-> row.sub, balance |-> row.balance, due |-> row.due, end |-> "past",
               renew |-> row.renew]
        BY <1>1, RowChanges
      <4> QED BY <4>1
    <3>3. row.sub # NoSub => OverNext(row.sub)
      BY <1>1, <1>2, <2>2 DEF EndTimePasses, IInv, RowsKept, RowKept, Over, OverNext
    <3> HIDE DEF new, row
    <3> QED BY <3>1, <3>2, <3>3 DEF RowStays
  <2> QED BY <2>1, <2>2
<1>4. RowsStay
  <2> DEFINE next == [i \in DOMAIN rows |-> IF i = k THEN new ELSE rows[i]]
  <2>1. rows' = [i \in DOMAIN rows |-> next[i]] BY <1>3
  <2>2. ASSUME NEW i \in DOMAIN rows PROVE RowStays(rows[i], next[i])
    BY <1>3 DEF RowStays
  <2> HIDE DEF next
  <2> QED BY <1>1, <2>1, <2>2, StayChanged
<1> QED BY <1>2, <1>4, QuietKeepsPaid DEF NothingPaid

\* What begins to be charged is covered by the checkout.
LEMMA PayKeepsPaid ==
  ASSUME PaidInv, NEW s \in Subs, NEW k \in 1..Nearest, Pay(s, k), IInv'
  PROVE  PaidInv'
<1> DEFINE stale == k # Nearest
           next == [at |-> "paid", new |-> s, old |-> rows[k].sub, stale |-> stale]
<1>1. /\ checkout = Idle /\ checkout.at = "idle" /\ stripe[s] = "none" /\ IInv
      /\ UNCHANGED <<rows, job, left>>
  BY DEF Pay, CheckoutStep, Idle, PaidInv
<1>2. PICK status \in {"active", "incomplete"} :
        /\ stripe' = [stripe EXCEPT ![s] = status]
        /\ checkout' = IF status = "active" THEN next ELSE Idle
  BY DEF Pay, CheckoutStep
<1>3. stripe'[s] = status /\ \A x \in Subs : x # s => stripe'[x] = stripe[x]
  BY <1>1, <1>2 DEF IInv, TypeOK
<1>4. ASSUME NEW x \in Subs PROVE Covered(x)'
  <2>1. CASE x = s /\ status = "active"
    <3>1. checkout'.at = "paid" /\ checkout'.new = s BY <1>2, <2>1
    <3> QED BY <2>1, <3>1 DEF Covered
  <2>2. CASE x = s /\ status # "active" BY <1>3, <2>2 DEF Covered
  <2>3. CASE x # s
    <3>1. \/ stripe[x] # "active" \/ x \in left
          \/ \E i \in CurrentRows : rows[i].sub = x
      BY <1>1 DEF PaidInv, Covered
    <3> QED BY <1>1, <1>3, <2>3, <3>1 DEF Covered, CurrentRows
  <2> QED BY <2>1, <2>2, <2>3
<1>5. OldIsLast'
  <2>1. CASE status = "active"
    <3>1. checkout'.old = rows[k].sub /\ (checkout'.stale <=> k # Len(rows))
      BY <1>2, <2>1 DEF Nearest
    <3> QED BY <1>1, <3>1 DEF OldIsLast, Last
  <2>2. CASE status # "active" BY <1>2, <2>2 DEF OldIsLast, Idle
  <2> QED BY <2>1, <2>2
<1>6. LastIsPaid'
  <2>1. ASSUME NEW i \in CurrentRows, rows[i].sub # NoSub, stripe'[rows[i].sub] = "active",
               rows[i].sub \notin left
        PROVE  i = Last
    <3>1. i \in DOMAIN rows BY DEF CurrentRows
    <3>2. rows[i].sub \in Subs /\ Known(rows[i].sub)
      <4>1. rows[i] \in Row /\ RowKept(rows[i])
        BY <1>1, <3>1, RowsTyped DEF IInv, TypeOK, RowsKept
      <4> QED BY <2>1, <4>1, RowFields DEF RowKept
    <3>3. rows[i].sub # s BY <1>1, <3>2 DEF Known
    <3>4. Paid(rows[i].sub) BY <1>3, <2>1, <3>2, <3>3 DEF Paid
    <3> QED BY <1>1, <3>4 DEF PaidInv, LastIsPaid
  <2> QED BY <1>1, <2>1 DEF LastIsPaid, CurrentRows, Paid, Last
<1>7. NoLateTrial' BY <1>1, StayUnchanged, TrialStays
<1> QED BY <1>4, <1>5, <1>6, <1>7 DEF PaidInv

\* The checkout goes on.
LEMMA ReadCurrentPlanKeepsPaid ==
  ASSUME PaidInv, ReadCurrentPlan, IInv'
  PROVE  PaidInv'
<1>1. checkout.at = "paid" /\ UNCHANGED <<rows, stripe, job, left>>
  BY DEF ReadCurrentPlan, CheckoutStep, serverVars
<1>2. /\ checkout'.at = "switching" /\ checkout'.new = checkout.new
      /\ checkout'.old = checkout.old /\ checkout'.stale = checkout.stale
  <2>1. PICK i, b : checkout' = Switching(i, b) BY DEF ReadCurrentPlan, CheckoutStep
  <2> QED BY <2>1 DEF Switching
<1>3. \A s \in Subs : Covered(s)'
  BY <1>1, <1>2 DEF PaidInv, Covered, CurrentRows
<1>4. OldIsLast' BY <1>1, <1>2 DEF PaidInv, OldIsLast, Last
<1>5. LastIsPaid' BY <1>1, <1>2 DEF PaidInv, LastIsPaid, Paid, CurrentRows, Last
<1>6. NoLateTrial' BY <1>1, StayUnchanged, TrialStays
<1> QED BY <1>3, <1>4, <1>5, <1>6 DEF PaidInv

\* The plan that is paid for is the last one; the page was loaded with it, and is going to drop
\* it, or is outdated, and leaves it.  The one that a switch starts is current.
LEMMA SwitchPlanKeepsPaid ==
  ASSUME PaidInv, SwitchPlan, IInv'
  PROVE  PaidInv'
<1> DEFINE n == Len(rows) + 1
<1>1. IInv /\ checkout.at = "switching" /\ checkout # Idle
      /\ checkout.new \in Subs /\ checkout.old \in Subs \cup {NoSub}
      /\ checkout.stale \in BOOLEAN
      /\ left \subseteq left'
      /\ (checkout.stale => rows[Last].sub \in left' \cup {checkout.old})
      /\ UNCHANGED <<stripe, job>>
  BY SwitchFields DEF PaidInv, SwitchPlan, CheckoutStep, Nearest, Last
<1>2. /\ Len(rows') = n /\ DOMAIN rows' = DOMAIN rows \cup {n}
      /\ (rows')[n].sub = checkout.new /\ (rows')[n].end = "none"
  BY <1>1, SwitchedRows, SwitchFields
<1>3. ASSUME NEW i \in DOMAIN rows, i # checkout.row PROVE (rows')[i] = rows[i]
  BY <1>1, <1>3, SwitchedRows
<1>4. ASSUME NEW i \in DOMAIN rows, i = checkout.row PROVE ~Current((rows')[i])
  <2> DEFINE row == rows[i]
  <2>1. (rows')[i] = [row EXCEPT !.end = "past", !.renew = FALSE]
    BY <1>1, <1>4, SwitchedRows
  <2>2. row \in Row BY <1>1, RowsTyped DEF IInv, TypeOK
  <2>3. (rows')[i].end = "past"
    <3> HIDE DEF row
    <3>1. (rows')[i] = [sub |-> row.sub, balance |-> row.balance, due |-> row.due,
                        end |-> "past", renew |-> FALSE]
      BY <2>1, <2>2, RowChanges
    <3> QED BY <3>1
  <2> QED BY <2>3 DEF Current
<1>5. checkout.old # NoSub => checkout'.at = "switched" /\ checkout'.old = checkout.old
  BY DEF SwitchPlan, CheckoutStep
<1>6. checkout'.at \in {"switched", "idle"} BY DEF SwitchPlan, CheckoutStep, Idle
<1>7. ASSUME NEW i \in CurrentRows, Paid(rows[i].sub)
      PROVE  rows[i].sub \in left' \cup {checkout.old}
  <2>1. i = Last BY <1>1, <1>7 DEF PaidInv, LastIsPaid
  <2> QED BY <1>1, <2>1 DEF PaidInv, OldIsLast
<1>8. rows # << >> /\ rows' # << >>
  <2>1. rows # << >> BY <1>1 DEF IInv, CheckoutKept
  <2>2. rows' \in Seq(Row) BY DEF IInv, TypeOK
  <2>3. Len(rows') # 0 BY <1>1, <1>2, RowsTyped DEF IInv, TypeOK
  <2> QED BY <2>1, <2>2, <2>3, EmptySeq
<1>9. NoLateTrial' BY <1>1, <1>8 DEF PaidInv, NoLateTrial
<1>10. OldIsLast' BY <1>6 DEF OldIsLast
<1>11. LastIsPaid'
  <2>1. ASSUME NEW i \in DOMAIN rows', Current((rows')[i]),
               (rows')[i].sub # NoSub, stripe'[(rows')[i].sub] = "active",
               (rows')[i].sub \notin left', i # n
        PROVE  checkout'.at = "switched" /\ (rows')[i].sub = checkout'.old
    <3>1. i \in DOMAIN rows BY <1>2, <2>1
    <3>2. (rows')[i] = rows[i] BY <1>3, <1>4, <2>1, <3>1
    <3>3. rows[i].sub = checkout.old /\ checkout.old # NoSub
      <4>1. Paid(rows[i].sub) /\ rows[i].sub \notin left' /\ rows[i].sub # NoSub
        BY <1>1, <2>1, <3>2 DEF Paid
      <4>2. i \in CurrentRows BY <2>1, <3>1, <3>2 DEF CurrentRows
      <4> QED BY <1>7, <4>1, <4>2
    <3> QED BY <1>5, <3>2, <3>3
  <2> QED BY <1>1, <1>2, <2>1 DEF LastIsPaid, CurrentRows, Last, Paid
<1>12. ASSUME NEW s \in Subs PROVE Covered(s)'
  <2>1. CASE stripe[s] # "active" \/ s \in left' BY <1>1, <2>1 DEF Covered
  <2>2. CASE s = checkout.new
    BY <1>2, <2>2 DEF Covered, CurrentRows, Current
  <2>3. CASE stripe[s] = "active" /\ s \notin left' /\ s # checkout.new
    <3>1. PICK i \in CurrentRows : rows[i].sub = s
      BY <1>1, <2>3 DEF PaidInv, Covered
    <3>2. i \in DOMAIN rows /\ s # NoSub BY BillingAssumption DEF CurrentRows
    <3>3. s = checkout.old
      <4>1. s \notin left BY <1>1, <2>3
      <4>2. Paid(rows[i].sub) BY <2>3, <3>1, <3>2, <4>1 DEF Paid
      <4> QED BY <1>7, <2>3, <3>1, <4>2
    <3> QED BY <1>5, <3>2, <3>3 DEF Covered
  <2> QED BY <2>1, <2>2, <2>3
<1> QED BY <1>9, <1>10, <1>11, <1>12 DEF PaidInv

\* What is dropped is charged no longer.
LEMMA DropOldAtStripeKeepsPaid ==
  ASSUME PaidInv, DropOldAtStripe, IInv'
  PROVE  PaidInv'
<1>1. /\ IInv /\ checkout.at = "switched" /\ checkout # Idle
      /\ DeleteAtStripe(checkout.old)
      /\ UNCHANGED <<rows, job, left>>
  BY DEF PaidInv, DropOldAtStripe, CheckoutStep, Idle
<1>2. checkout.old \in Subs /\ checkout.old # NoSub
  BY <1>1, CheckoutFields DEF IInv, TypeOK, CheckoutKept
<1>3. NothingPaid /\ stripe'[checkout.old] # "active"
  BY <1>1, <1>2 DEF DeleteAtStripe, NothingPaid, IInv, TypeOK
<1>4. checkout'.at = "dropping"
  <2>1. checkout \in [at : {"paid", "switched", "dropping"}, new : Subs, old : Subs \cup {NoSub},
                     stale : BOOLEAN]
    BY <1>1 DEF IInv, TypeOK, Checkouts
  <2>2. checkout' = [checkout EXCEPT !.at = "dropping"] BY DEF DropOldAtStripe, CheckoutStep
  <2> QED BY <2>1, <2>2
<1>5. \A s \in Subs : Covered(s)'
  BY <1>1, <1>3 DEF PaidInv, Covered, CurrentRows, NothingPaid
<1>6. OldIsLast' BY <1>4 DEF OldIsLast
<1>7. LastIsPaid'
  <2>1. ASSUME NEW i \in CurrentRows, rows[i].sub # NoSub, stripe'[rows[i].sub] = "active",
               rows[i].sub \notin left
        PROVE  i = Last
    <3>1. rows[i].sub \in Subs
      <4>1. i \in DOMAIN rows BY DEF CurrentRows
      <4>2. rows[i] \in Row BY <1>1, <4>1, RowsTyped DEF IInv, TypeOK
      <4> QED BY <2>1, <4>2, RowFields
    <3>2. Paid(rows[i].sub) BY <1>3, <2>1, <3>1 DEF Paid, NothingPaid
    <3> QED BY <1>3, <2>1, <3>2 DEF PaidInv, LastIsPaid
  <2> QED BY <1>1, <2>1 DEF LastIsPaid, CurrentRows, Paid, Last
<1>8. NoLateTrial' BY <1>1, StayUnchanged, TrialStays
<1> QED BY <1>5, <1>6, <1>7, <1>8 DEF PaidInv

\* Its row ends after it.
LEMMA DropOldPlanKeepsPaid ==
  ASSUME PaidInv, DropOldPlan, IInv'
  PROVE  PaidInv'
<1>1. /\ IInv /\ checkout.at = "dropping" /\ checkout # Idle /\ checkout' = Idle
      /\ UNCHANGED <<stripe, job, left>>
  BY DEF PaidInv, DropOldPlan, CheckoutStep, Idle, counters
<1>2. OverNext(checkout.old) BY <1>1 DEF IInv, CheckoutKept, Over, OverNext
<1>3. RowsStay
  <2> DEFINE Chosen == {i \in DOMAIN rows : rows[i].sub = checkout.old}
  <2>1. rows' = [i \in DOMAIN rows |-> IF i \in Chosen THEN Zeroed(rows[i]) ELSE rows[i]]
    BY DEF DropOldPlan, UpdateWhere
  <2>2. \A i \in DOMAIN rows \cap Chosen : OverNext(rows[i].sub) BY <1>2
  <2> HIDE DEF Chosen
  <2> QED BY <1>1, <2>1, <2>2, StayZeroed
<1>4. \A s \in Subs : Covered(s)'
  <2>1. ASSUME NEW s \in Subs, stripe[s] = "active", s \notin left
        PROVE  \E i \in DOMAIN rows' : Current((rows')[i]) /\ (rows')[i].sub = s
    <3>1. PICK i \in CurrentRows : rows[i].sub = s BY <1>1, <2>1 DEF PaidInv, Covered
    <3>2. i \in DOMAIN rows /\ Current(rows[i]) /\ s # NoSub
      BY BillingAssumption DEF CurrentRows
    <3> QED BY <1>1, <1>3, <2>1, <3>1, <3>2, CurrentStays DEF RowsStay
  <2> QED BY <1>1, <2>1 DEF Covered, CurrentRows
<1>5. OldIsLast' BY <1>1 DEF OldIsLast, Idle
<1>6. LastIsPaid'
  <2>1. ASSUME NEW i \in DOMAIN rows, Current((rows')[i]), Paid((rows')[i].sub)
        PROVE  i = Last
    <3>1. (rows')[i].sub = rows[i].sub BY <1>3 DEF RowsStay, RowStays
    <3>2. Current(rows[i]) BY <1>1, <1>3, <2>1, <3>1, CurrentStays DEF Paid
    <3> QED BY <1>1, <2>1, <3>1, <3>2 DEF PaidInv, LastIsPaid, CurrentRows
  <2>2. DOMAIN rows' = DOMAIN rows /\ Len(rows') = Len(rows) BY <1>3 DEF RowsStay
  <2> QED BY <1>1, <2>1, <2>2 DEF LastIsPaid, CurrentRows, Paid, Last
<1>7. NoLateTrial' BY <1>1, <1>3, TrialStays
<1> QED BY <1>4, <1>5, <1>6, <1>7 DEF PaidInv

\* What is left half way is on record as such.
LEMMA AbandonCheckoutKeepsPaid ==
  ASSUME PaidInv, AbandonCheckout, IInv'
  PROVE  PaidInv'
<1>1. /\ checkout.at \in {"paid", "switched"} /\ checkout' = Idle
      /\ left' = left \cup {IF checkout.at = "paid" THEN checkout.new ELSE checkout.old}
      /\ UNCHANGED <<rows, stripe, job>>
  BY DEF AbandonCheckout, CheckoutStep, serverVars
<1>2. \A s \in Subs : Covered(s)' BY <1>1 DEF PaidInv, Covered, CurrentRows
<1>3. OldIsLast' BY <1>1 DEF OldIsLast, Idle
<1>4. LastIsPaid' BY <1>1 DEF PaidInv, LastIsPaid, Paid, CurrentRows, Last
<1>5. NoLateTrial' BY <1>1, StayUnchanged, TrialStays
<1> QED BY <1>2, <1>3, <1>4, <1>5 DEF PaidInv

\* With one trial at most, what Stripe charges is always covered.
THEOREM PaidInvariance == ASSUME OneTrial PROVE Spec => []PaidInv
<1>1. Init => PaidInv
  <2> SUFFICES ASSUME Init PROVE PaidInv OBVIOUS
  <2>1. IInv BY InitKept
  <2>2. \A s \in Subs : stripe[s] = "none" BY DEF Init
  <2>3. \A r \in Requests : job[r] = "idle" BY DEF Init
  <2>4. NoLateTrial
    <3>1. ~NewUser => Len(rows) = 1 BY DEF Init
    <3> QED BY <2>3, <3>1 DEF NoLateTrial
  <2>5. OldIsLast BY DEF Init, OldIsLast, Idle
  <2>6. LastIsPaid
    <3>1. \A i \in DOMAIN rows : rows[i] \in Row BY <2>1, RowsTyped DEF IInv, TypeOK
    <3>2. \A i \in DOMAIN rows : rows[i].sub \in Subs \cup {NoSub} BY <3>1, RowFields
    <3> QED BY <2>2, <3>2 DEF LastIsPaid, Paid, CurrentRows
  <2>7. \A s \in Subs : Covered(s) BY <2>2 DEF Covered
  <2> QED BY <2>1, <2>4, <2>5, <2>6, <2>7 DEF PaidInv
<1>2. PaidInv /\ [Next]_vars => PaidInv'
  <2> SUFFICES ASSUME PaidInv, [Next]_vars PROVE PaidInv' OBVIOUS
  <2>1. IInv' BY StepKept DEF PaidInv
  <2>2. CASE UNCHANGED vars
    BY <2>1, <2>2, StayUnchanged, QuietKeepsPaid DEF vars, serverVars, counters, NothingPaid
  <2>3. ASSUME NEW r \in Requests, Charts(r) PROVE PaidInv' BY <2>1, <2>3, ChartsKeepPaid
  <2>4. CASE Checkout
    BY <2>1, <2>4, PayKeepsPaid, ReadCurrentPlanKeepsPaid, SwitchPlanKeepsPaid,
       DropOldAtStripeKeepsPaid, DropOldPlanKeepsPaid, AbandonCheckoutKeepsPaid DEF Checkout
  <2>5. ASSUME NEW c \in Cancels, Cancellation(c) PROVE PaidInv'
    BY <2>1, <2>5, CancelKeepsPaid
  <2> QED BY <2>1, <2>2, <2>3, <2>4, <2>5, StripeKeepsPaid, WebhooksKeepPaid, TimeKeepsPaid
        DEF Next
<1> QED BY <1>1, <1>2, PTL DEF Spec

\* Who is charged has a plan: a subscription that Stripe charges is a current plan of the
\* user, or the one that a checkout is going to start or to drop, unless a checkout stopped
\* half way or its page was outdated.  Two first requests at once would give two trials, and
\* the next checkout could end the wrong row.
THEOREM Usable == ASSUME OneTrial PROVE Spec => []PaidPlanIsUsable
<1>1. PaidInv => PaidPlanIsUsable
  BY DEF PaidInv, Covered, PaidPlanIsUsable
<1> QED BY <1>1, PaidInvariance, PTL

-----------------------------------------------------------------------------
(* What a user can get beyond a plan *)

\* The runs that requests at once can start, and those that no one asks a balance for, take
\* no longer than a paid period adds.
Longest == MaxRuntime * (Cardinality(Requests) + MaxUngated)
PeriodCoversRuns == Longest <= PlanTime

\* How many of the requests have no run under way, with the ungated runs so far.
Idling(jobs, free) ==
  Cardinality(Requests) - Cardinality({r \in Requests : jobs[r] = "running"}) + free

\* What a row owes, when so many requests may still start a run.
Backed(row, idle) ==
  /\ row.balance >= -Longest
  /\ Current(row) =>
       /\ row.balance >= -(MaxRuntime * idle)
       /\ Unlimited(row) => row.balance >= 0

\* One plan is current at most, the last one; it is the one that a switch ends.
OneCurrent == \A i \in CurrentRows : i = Last

ReadLast ==
  checkout.at = "switching" =>
    /\ checkout.row = Last \/ CurrentRows = {}
    /\ checkout.carried >= -Longest

\* What the hook has loaded owes no more.
LoadedDebt == hook # Idle => hook.balance >= -Longest

DebtInv ==
  /\ OneCurrent /\ ReadLast /\ LoadedDebt
  /\ \A i \in DOMAIN rows : Backed(rows[i], Idling(job, ungated))

\* Products of natural numbers.
LEMMA Products ==
  ASSUME NEW m \in Nat, NEW j \in Nat, NEW k \in Nat, j <= k
  PROVE  /\ m * j \in Nat /\ m * k \in Nat /\ m * j <= m * k
         /\ m * (j + 1) = m * j + m
OBVIOUS

\* What all of them may owe is a natural number.
LEMMA LongestTyped == Longest \in Nat /\ Cardinality(Requests) + MaxUngated \in Nat
<1>1. Cardinality(Requests) \in Nat BY BillingAssumption, FS_CardinalityType
<1>2. Cardinality(Requests) + MaxUngated \in Nat BY <1>1, BillingAssumption
<1> QED BY <1>2, BillingAssumption, Products DEF Longest

\* The requests that idle are a natural number, of all of them at most.
LEMMA IdlersTyped ==
  ASSUME NEW jobs, NEW free \in 0..MaxUngated
  PROVE  /\ IsFiniteSet({r \in Requests : jobs[r] = "running"})
         /\ Idling(jobs, free) \in Nat
         /\ Idling(jobs, free) <= Cardinality(Requests) + MaxUngated
         /\ MaxRuntime * Idling(jobs, free) \in Nat
         /\ MaxRuntime * Idling(jobs, free) <= Longest
<1> DEFINE R == {r \in Requests : jobs[r] = "running"}
<1>1. IsFiniteSet(R) /\ Cardinality(R) <= Cardinality(Requests)
  BY BillingAssumption, FS_Subset
<1>2. Cardinality(R) \in Nat /\ Cardinality(Requests) \in Nat
  BY <1>1, BillingAssumption, FS_CardinalityType
<1>3. /\ Idling(jobs, free) \in Nat
      /\ Idling(jobs, free) <= Cardinality(Requests) + MaxUngated
  <2>1. Idling(jobs, free) = Cardinality(Requests) - Cardinality(R) + free BY DEF Idling
  <2> HIDE DEF R
  <2> QED BY <1>1, <1>2, <2>1, BillingAssumption
<1> QED BY <1>1, <1>3, LongestTyped, BillingAssumption, Products DEF Longest

\* So are they now, and after the step.
LEMMA IdlersNow ==
  ASSUME IInv, IInv'
  PROVE  /\ Idling(job, ungated) \in Nat /\ Idling(job', ungated') \in Nat
         /\ MaxRuntime * Idling(job, ungated) \in Nat
         /\ MaxRuntime * Idling(job', ungated') \in Nat
         /\ MaxRuntime * Idling(job', ungated') <= Longest
<1>1. ungated \in 0..MaxUngated /\ ungated' \in 0..MaxUngated BY DEF IInv, TypeOK
<1> QED BY <1>1, IdlersTyped

\* As many idle when the same runs go on.
LEMMA SameIdlers ==
  ASSUME NEW jobs, NEW after, NEW free,
         \A r \in Requests : after[r] = "running" <=> jobs[r] = "running"
  PROVE  Idling(after, free) = Idling(jobs, free)
<1>1. {r \in Requests : after[r] = "running"} = {r \in Requests : jobs[r] = "running"} OBVIOUS
<1> QED BY <1>1 DEF Idling

\* A run that starts leaves one request less idle.
LEMMA OneIdlerLess ==
  ASSUME NEW jobs, NEW after, NEW free \in 0..MaxUngated, NEW r \in Requests,
         jobs[r] # "running", after[r] = "running",
         \A q \in Requests : q # r => after[q] = jobs[q]
  PROVE  Idling(jobs, free) = Idling(after, free) + 1
<1> DEFINE R == {q \in Requests : jobs[q] = "running"}
           A == {q \in Requests : after[q] = "running"}
<1>1. A = R \cup {r} /\ r \notin R OBVIOUS
<1>2. IsFiniteSet(R) BY IdlersTyped
<1>3. Cardinality(R \cup {r}) = Cardinality(R) + 1 BY <1>1, <1>2, FS_AddElement
<1>4. Cardinality(R) \in Nat /\ Cardinality(Requests) \in Nat
  BY <1>2, BillingAssumption, FS_CardinalityType
<1>5. Idling(jobs, free) = Cardinality(Requests) - Cardinality(R) + free BY DEF Idling
<1>6. Idling(after, free) = Cardinality(Requests) - Cardinality(A) + free BY DEF Idling
<1> HIDE DEF R, A
<1> QED BY <1>1, <1>3, <1>4, <1>5, <1>6, BillingAssumption

\* What backs the runs that may start backs them when more of them may.
LEMMA BackedLonger ==
  ASSUME NEW row \in Row, NEW j \in Nat, NEW k \in Nat, j <= k, Backed(row, j)
  PROVE  Backed(row, k)
<1>1. row.balance \in Int BY RowFields
<1>2. MaxRuntime * j \in Nat /\ MaxRuntime * k \in Nat /\ MaxRuntime * j <= MaxRuntime * k
  BY BillingAssumption, Products
<1>3. row.balance >= -(MaxRuntime * j) => row.balance >= -(MaxRuntime * k)
  BY <1>1, <1>2
<1> QED BY <1>3 DEF Backed

\* A plan with time left backs every run, and so does one that is not current.
LEMMA BackedAnyway ==
  ASSUME NEW row \in Row, NEW k \in Nat,
         row.balance >= 0 \/ (row.balance >= -Longest /\ ~Current(row))
  PROVE  Backed(row, k)
<1>1. row.balance \in Int BY RowFields
<1>2. MaxRuntime * k \in Nat BY BillingAssumption, Products
<1>3. Longest \in Nat BY LongestTyped
<1>4. row.balance >= 0 => row.balance >= -(MaxRuntime * k) /\ row.balance >= -Longest
  BY <1>1, <1>2, <1>3
<1> QED BY <1>4 DEF Backed

\* Rows that do not become current, and that stay backed.
LEMMA QuietKeepsDebt ==
  ASSUME DebtInv, IInv, UNCHANGED checkout, LoadedDebt',
         DOMAIN rows' = DOMAIN rows, Len(rows') = Len(rows),
         \A i \in DOMAIN rows :
           /\ Current((rows')[i]) => Current(rows[i])
           /\ Backed((rows')[i], Idling(job', ungated'))
  PROVE  DebtInv'
<1>1. OneCurrent' BY DEF DebtInv, OneCurrent, CurrentRows, Last
<1>2. ReadLast'
  <2>1. CurrentRows = {} => CurrentRows' = {} BY DEF CurrentRows
  <2> QED BY <2>1 DEF DebtInv, ReadLast, Last
<1>3. \A i \in DOMAIN rows' : Backed((rows')[i], Idling(job', ungated')) OBVIOUS
<1> QED BY <1>1, <1>2, <1>3 DEF DebtInv, Backed, Current, Unlimited, Idling

\* A step that leaves the rows alone, and starts no run.
LEMMA UnchangedKeepsDebt ==
  ASSUME DebtInv, IInv, IInv', UNCHANGED <<rows, checkout>>, LoadedDebt',
         Idling(job, ungated) <= Idling(job', ungated')
  PROVE  DebtInv'
<1>1. \A i \in DOMAIN rows : rows[i] \in Row BY RowsTyped DEF IInv, TypeOK
<1>2. Idling(job, ungated) \in Nat /\ Idling(job', ungated') \in Nat BY IdlersNow
<1>3. \A i \in DOMAIN rows : Backed(rows[i], Idling(job', ungated'))
  BY <1>1, <1>2, BackedLonger DEF DebtInv
<1> QED BY <1>3, QuietKeepsDebt

\* A request that looks for a trial, is refused, or ends its run unpaid.
LEMMA QuietRunKeepsDebt ==
  ASSUME DebtInv, IInv, IInv', NEW r \in Requests,
         LookForTrial(r) \/ RefuseRun(r) \/ EndRunUnpaid(r)
  PROVE  DebtInv'
<1>1. UNCHANGED <<rows, hook, checkout, ungated>>
  BY DEF LookForTrial, RefuseRun, EndRunUnpaid, serverVars, counters
<1>2. /\ job \in [Requests -> {"idle", "trial", "gate", "running", "refused"}]
      /\ ungated \in 0..MaxUngated
  BY DEF IInv, TypeOK
<1>3. Idling(job, ungated) \in Nat /\ Idling(job', ungated') \in Nat BY IdlersNow
<1>4. Idling(job, ungated) <= Idling(job', ungated')
  <2>1. CASE EndRunUnpaid(r)
    <3>1. job[r] = "running" /\ job'[r] # "running" /\ \A q \in Requests : q # r => job[q] = job'[q]
      BY <1>2, <2>1 DEF EndRunUnpaid
    <3>2. Idling(job', ungated) = Idling(job, ungated) + 1 BY <1>2, <3>1, OneIdlerLess
    <3> QED BY <1>1, <1>3, <3>2
  <2>2. CASE LookForTrial(r) \/ RefuseRun(r)
    <3>1. \A q \in Requests : job'[q] = "running" <=> job[q] = "running"
      BY <1>2, <2>2 DEF LookForTrial, RefuseRun
    <3>2. Idling(job', ungated) = Idling(job, ungated) BY <3>1, SameIdlers
    <3> QED BY <1>1, <1>3, <3>2
  <2> QED BY <2>1, <2>2
<1>5. LoadedDebt' BY <1>1 DEF DebtInv, LoadedDebt
<1> QED BY <1>1, <1>4, <1>5, UnchangedKeepsDebt

\* An ungated run is one request less that idles, and one ungated run more.
LEMMA StartUngatedRunKeepsDebt ==
  ASSUME DebtInv, IInv, IInv', NEW r \in Requests, StartUngatedRun(r)
  PROVE  DebtInv'
<1>1. UNCHANGED <<rows, hook, checkout>> /\ ungated' = ungated + 1
  BY DEF StartUngatedRun, serverVars
<1>2. /\ job \in [Requests -> {"idle", "trial", "gate", "running", "refused"}]
      /\ ungated \in 0..MaxUngated /\ ungated' \in 0..MaxUngated
  BY DEF IInv, TypeOK
<1>3. /\ job[r] # "running" /\ job'[r] = "running"
      /\ \A q \in Requests : q # r => job'[q] = job[q]
  BY <1>2 DEF StartUngatedRun
<1>4. Idling(job, ungated) = Idling(job', ungated) + 1 BY <1>2, <1>3, OneIdlerLess
<1>5. Idling(job', ungated') = Idling(job', ungated) + 1
  <2> DEFINE n == Cardinality(Requests) - Cardinality({q \in Requests : job'[q] = "running"})
  <2>1. Idling(job', ungated) = n + ungated /\ Idling(job', ungated') = n + (ungated + 1)
    BY <1>1 DEF Idling
  <2>2. n \in Int
    <3>1. IsFiniteSet({q \in Requests : job'[q] = "running"}) BY <1>2, IdlersTyped
    <3> QED BY <3>1, BillingAssumption, FS_CardinalityType
  <2> HIDE DEF n
  <2> QED BY <1>2, <2>1, <2>2
<1>6. Idling(job, ungated) \in Nat /\ Idling(job', ungated') \in Nat BY IdlersNow
<1>7. Idling(job, ungated) <= Idling(job', ungated') BY <1>4, <1>5, <1>6
<1>8. LoadedDebt' BY <1>1 DEF DebtInv, LoadedDebt
<1> QED BY <1>1, <1>7, <1>8, UnchangedKeepsDebt

\* The trial is the first row.
LEMMA CreateTrialKeepsDebt ==
  ASSUME DebtInv, PaidInv, IInv', NEW r \in Requests, CreateTrial(r)
  PROVE  DebtInv'
<1>1. rows = << >> /\ rows' = Append(rows, Trial) /\ UNCHANGED <<hook, checkout>>
  BY DEF CreateTrial, PaidInv, NoLateTrial
<1>2. checkout.at = "idle" BY <1>1 DEF PaidInv, IInv, CheckoutKept, Idle
<1>3. DOMAIN rows' = {1} /\ Len(rows') = 1 /\ rows'[1] = Trial
  <2>1. rows' = <<Trial>> BY <1>1
  <2> QED BY <2>1
<1>4. Backed(Trial, Idling(job', ungated'))
  <2>1. Trial.balance >= 0 BY BillingAssumption DEF Trial
  <2>2. Idling(job', ungated') \in Nat BY IdlersNow DEF PaidInv
  <2> QED BY <2>1, <2>2, TrialIsRow, BackedAnyway
<1>5. OneCurrent' BY <1>3 DEF OneCurrent, CurrentRows, Last
<1>6. ReadLast' BY <1>1, <1>2 DEF ReadLast
<1>7. LoadedDebt' BY <1>1 DEF DebtInv, LoadedDebt
<1>8. \A i \in DOMAIN rows' : Backed(rows'[i], Idling(job', ungated')) BY <1>3, <1>4
<1> QED BY <1>5, <1>6, <1>7, <1>8 DEF DebtInv, Backed, Current, Unlimited, Idling

\* A run is let through by the one plan that is current, which backs all of them.
LEMMA AllowRunKeepsDebt ==
  ASSUME DebtInv, IInv, IInv', NEW r \in Requests, AllowRun(r)
  PROVE  DebtInv'
<1>1. UNCHANGED <<rows, hook, checkout>> BY DEF AllowRun, serverVars
<1>2. PICK i \in CurrentRows : MayRun(rows[i]) BY DEF AllowRun
<1>3. \A k \in DOMAIN rows : rows[k] \in Row BY RowsTyped DEF IInv, TypeOK
<1>4. i \in DOMAIN rows /\ rows[i].balance >= 0
  <2>1. i \in DOMAIN rows /\ Current(rows[i]) BY DEF CurrentRows
  <2>2. rows[i].balance \in Int BY <1>3, <2>1, RowFields
  <2>3. rows[i].balance > 0 \/ rows[i].balance >= 0
    BY <1>2, <2>1 DEF MayRun, DebtInv, Backed
  <2> QED BY <2>1, <2>2, <2>3
<1>5. ASSUME NEW k \in DOMAIN rows PROVE Backed(rows[k], Idling(job', ungated'))
  <2>1. k = i \/ ~Current(rows[k]) BY <1>2, <1>5 DEF DebtInv, OneCurrent, CurrentRows
  <2>2. rows[k].balance >= -Longest BY DEF DebtInv, Backed
  <2>3. Idling(job', ungated') \in Nat BY IdlersNow
  <2> QED BY <1>3, <1>4, <2>1, <2>2, <2>3, BackedAnyway
<1>6. LoadedDebt' BY <1>1 DEF DebtInv, LoadedDebt
<1> QED BY <1>1, <1>5, <1>6, QuietKeepsDebt

\* A run that ends takes what one request more may owe.
LEMMA DebitRunKeepsDebt ==
  ASSUME DebtInv, IInv, IInv', NEW r \in Requests, NEW runtime \in 0..MaxRuntime,
         DebitRun(r, runtime)
  PROVE  DebtInv'
<1>1. UNCHANGED <<hook, checkout, ungated>> BY DEF DebitRun, counters
<1>2. LoadedDebt' BY <1>1 DEF DebtInv, LoadedDebt
<1>3. Idling(job', ungated') = Idling(job, ungated) + 1
  <2>1. job \in [Requests -> {"idle", "trial", "gate", "running", "refused"}] BY DEF IInv, TypeOK
  <2>2. job[r] = "running" /\ job'[r] # "running" /\ \A q \in Requests : q # r => job[q] = job'[q]
    BY <2>1 DEF DebitRun
  <2>3. ungated \in 0..MaxUngated BY DEF IInv, TypeOK
  <2> QED BY <1>1, <2>2, <2>3, OneIdlerLess
<1>4. /\ Idling(job, ungated) \in Nat /\ Idling(job', ungated') \in Nat
      /\ MaxRuntime * Idling(job, ungated) \in Nat /\ MaxRuntime * Idling(job', ungated') \in Nat
      /\ MaxRuntime * Idling(job', ungated') <= Longest /\ Longest \in Nat
      /\ MaxRuntime * Idling(job', ungated') = MaxRuntime * Idling(job, ungated) + MaxRuntime
  <2> DEFINE a == Idling(job, ungated)
             b == Idling(job', ungated')
  <2>1. /\ a \in Nat /\ b \in Nat /\ MaxRuntime * a \in Nat /\ MaxRuntime * b \in Nat
        /\ MaxRuntime * b <= Longest /\ Longest \in Nat /\ b = a + 1 /\ MaxRuntime \in Nat
    BY <1>3, IdlersNow, LongestTyped, BillingAssumption
  <2> HIDE DEF a, b
  <2>2. MaxRuntime * (a + 1) = MaxRuntime * a + MaxRuntime BY <2>1, Products
  <2> QED BY <2>1, <2>2 DEF a, b
<1>5. \A i \in DOMAIN rows : rows[i] \in Row BY RowsTyped DEF IInv, TypeOK
<1>6. CASE UNCHANGED rows BY <1>1, <1>2, <1>3, <1>4, <1>6, UnchangedKeepsDebt
<1>7. CASE /\ \E i \in CurrentRows : ~Unlimited(rows[i])
           /\ UpdateWhere(Current, LAMBDA row : [row EXCEPT !.balance = @ - runtime])
  <2> DEFINE less(i) == [rows[i] EXCEPT !.balance = rows[i].balance - runtime]
  <2>1. rows' = [i \in DOMAIN rows |-> IF Current(rows[i]) THEN less(i) ELSE rows[i]]
    BY <1>7 DEF UpdateWhere
  <2>2. ASSUME NEW i \in DOMAIN rows, Current(rows[i])
        PROVE  (rows')[i] = less(i) /\ Backed(less(i), Idling(job', ungated'))
    <3> DEFINE b == rows[i].balance
    <3>1. runtime \in Nat /\ runtime <= MaxRuntime BY BillingAssumption
    <3>2. /\ less(i).sub = rows[i].sub /\ less(i).balance = b - runtime
      BY <1>5, <2>2, <3>1, Debited
    <3>3. ~Unlimited(rows[i]) BY <1>7, <2>2 DEF DebtInv, OneCurrent, CurrentRows
    <3>4. b \in Int /\ b >= -(MaxRuntime * Idling(job, ungated))
      BY <1>5, <2>2, RowFields DEF DebtInv, Backed
    <3>5. b - runtime >= -(MaxRuntime * Idling(job', ungated')) /\ b - runtime >= -Longest
      <4> HIDE DEF b
      <4> QED BY <1>4, <3>1, <3>4, BillingAssumption
    <3>6. (rows')[i] = less(i) BY <2>1, <2>2
    <3> HIDE DEF less, b
    <3> QED BY <3>2, <3>3, <3>5, <3>6 DEF Backed, Unlimited
  <2>3. ASSUME NEW i \in DOMAIN rows, ~Current(rows[i])
        PROVE  (rows')[i] = rows[i] /\ Backed(rows[i], Idling(job', ungated'))
    <3>1. Backed(rows[i], Idling(job, ungated)) BY DEF DebtInv
    <3>2. Idling(job, ungated) <= Idling(job', ungated') BY <1>3, <1>4
    <3> QED BY <1>4, <1>5, <2>1, <2>3, <3>1, <3>2, BackedLonger
  <2>4. DOMAIN rows' = DOMAIN rows BY <2>1
  <2>5. Len(rows') = Len(rows) BY <2>4, SameCount
  <2>6. \A i \in DOMAIN rows :
          (Current((rows')[i]) => Current(rows[i])) /\ Backed((rows')[i], Idling(job', ungated'))
    <3> HIDE DEF less
    <3> QED BY <2>2, <2>3
  <2> QED BY <1>1, <1>2, <2>4, <2>5, <2>6, QuietKeepsDebt
<1> QED BY <1>6, <1>7 DEF DebitRun

\* Requests of a checkout that leave the rows alone.
LEMMA CheckoutKeepsDebt ==
  ASSUME DebtInv, UNCHANGED <<rows, hook, job, ungated>>, ReadLast'
  PROVE  DebtInv'
BY DEF DebtInv, OneCurrent, CurrentRows, Last, LoadedDebt, Backed, Current, Unlimited, Idling

\* What is carried over is the balance of the last row, or nothing.
LEMMA ReadCurrentPlanKeepsDebt ==
  ASSUME DebtInv, IInv, ReadCurrentPlan
  PROVE  DebtInv'
<1>1. UNCHANGED <<rows, hook, job, ungated>> BY DEF ReadCurrentPlan, CheckoutStep, serverVars
<1>2. ReadLast'
  <2>1. ASSUME NEW i \in CurrentRows, checkout' = Switching(i, rows[i].balance) PROVE ReadLast'
    <3>1. i = Last /\ rows[i].balance >= -Longest
      BY <2>1 DEF DebtInv, OneCurrent, Backed, CurrentRows
    <3>2. checkout'.row = i /\ checkout'.carried = rows[i].balance BY <2>1 DEF Switching
    <3> QED BY <1>1, <3>1, <3>2 DEF ReadLast, Last
  <2>2. CASE CurrentRows = {} /\ checkout' = Switching(0, 0)
    <3>1. checkout'.carried = 0 BY <2>2 DEF Switching
    <3>2. Longest \in Nat BY LongestTyped
    <3>3. checkout'.carried >= -Longest BY <3>1, <3>2
    <3> QED BY <1>1, <2>2, <3>3 DEF ReadLast, CurrentRows
  <2> QED BY <2>1, <2>2 DEF ReadCurrentPlan, CheckoutStep
<1> QED BY <1>1, <1>2, CheckoutKeepsDebt

\* A plan that starts backs every run, whatever the one before it owes.
LEMMA SwitchPlanKeepsDebt ==
  ASSUME DebtInv, IInv, IInv', PeriodCoversRuns, SwitchPlan
  PROVE  DebtInv'
<1> DEFINE n == Len(rows) + 1
<1>1. /\ checkout.at = "switching" /\ checkout'.at # "switching"
      /\ UNCHANGED <<hook, job, ungated>>
  BY DEF SwitchPlan, CheckoutStep, Idle
<1>2. /\ Len(rows') = n /\ DOMAIN rows' = DOMAIN rows \cup {n} /\ rows'[n] = Started
      /\ Started \in Row
  BY SwitchedRows
<1>3. Idling(job, ungated) \in Nat BY IdlersNow
<1>4. Backed(Started, Idling(job, ungated))
  <2>1. checkout.carried \in Int /\ Started.balance = PlanTime + checkout.carried
    BY SwitchFields
  <2>2. checkout.carried >= -Longest BY <1>1 DEF DebtInv, ReadLast
  <2>3. Longest \in Nat /\ PlanTime \in Nat /\ Longest <= PlanTime
    BY LongestTyped, BillingAssumption DEF PeriodCoversRuns
  <2>4. Started.balance >= 0 BY <2>1, <2>2, <2>3
  <2> QED BY <1>2, <1>3, <2>4, BackedAnyway
<1>5. ASSUME NEW i \in DOMAIN rows
      PROVE  ~Current((rows')[i]) /\ Backed((rows')[i], Idling(job, ungated))
  <2>1. rows[i] \in Row BY RowsTyped DEF IInv, TypeOK
  <2>2. Backed(rows[i], Idling(job, ungated)) BY DEF DebtInv
  <2>3. CASE i = checkout.row
    <3> DEFINE row == rows[i]
    <3>1. (rows')[i] = [row EXCEPT !.end = "past", !.renew = FALSE] BY <2>3, SwitchedRows
    <3>2. (rows')[i].end = "past" /\ (rows')[i].balance = row.balance
      <4> HIDE DEF row
      <4>1. (rows')[i] = [sub |-> row.sub, balance |-> row.balance, due |-> row.due,
                          end |-> "past", renew |-> FALSE]
        BY <2>1, <3>1, RowChanges DEF row
      <4> QED BY <4>1
    <3> QED BY <2>2, <3>2 DEF Backed, Current
  <2>4. CASE i # checkout.row
    <3>1. (rows')[i] = rows[i] BY <2>4, SwitchedRows
    <3>2. ~Current(rows[i])
      BY <1>1, <2>4 DEF DebtInv, ReadLast, OneCurrent, CurrentRows
    <3> QED BY <2>2, <3>1, <3>2
  <2> QED BY <2>3, <2>4
<1>6. OneCurrent' BY <1>2, <1>5 DEF OneCurrent, CurrentRows, Last
<1>7. ReadLast' BY <1>1 DEF ReadLast
<1>8. LoadedDebt' BY <1>1 DEF DebtInv, LoadedDebt
<1>9. \A i \in DOMAIN rows' : Backed((rows')[i], Idling(job', ungated')) BY <1>1, <1>2, <1>4, <1>5
<1> QED BY <1>6, <1>7, <1>8, <1>9 DEF DebtInv, Backed, Current, Unlimited, Idling

\* A plan that has ended for good owes nothing.
LEMMA ZeroedIsBacked ==
  ASSUME DebtInv, IInv, NEW i \in DOMAIN rows
  PROVE  /\ Backed(rows[i], Idling(job, ungated)) /\ Backed(Zeroed(rows[i]), Idling(job, ungated))
         /\ ~Current(Zeroed(rows[i]))
<1> DEFINE row == rows[i]
           new == [sub |-> row.sub, balance |-> 0, due |-> "none", end |-> "past",
                   renew |-> FALSE]
<1>1. row \in Row BY RowsTyped DEF IInv, TypeOK
<1>2. Zeroed(row) = new
  <2> HIDE DEF row
  <2> QED BY <1>1, RowChanges
<1>3. new.balance = 0 /\ new.end = "past" OBVIOUS
<1>4. Longest \in Nat BY LongestTyped
<1>5. 0 >= -Longest BY <1>4
<1> HIDE DEF row, new
<1>6. ~Current(new) BY <1>3 DEF Current
<1>7. Backed(new, Idling(job, ungated)) BY <1>3, <1>5, <1>6 DEF Backed
<1> QED BY <1>2, <1>6, <1>7 DEF DebtInv, row

\* Every request of a checkout.
LEMMA CheckoutsKeepDebt ==
  ASSUME DebtInv, IInv, IInv', PeriodCoversRuns, Checkout
  PROVE  DebtInv'
<1>1. ASSUME NEW s \in Subs, NEW i \in 1..Nearest, Pay(s, i) PROVE DebtInv'
  <2>1. UNCHANGED <<rows, hook, job, ungated>> BY <1>1 DEF Pay, CheckoutStep
  <2>2. ReadLast' BY <1>1 DEF Pay, CheckoutStep, Idle, ReadLast
  <2> QED BY <2>1, <2>2, CheckoutKeepsDebt
<1>2. CASE DropOldAtStripe
  <2>1. UNCHANGED <<rows, hook, job, ungated>> BY <1>2 DEF DropOldAtStripe, CheckoutStep
  <2>2. ReadLast'
    <3>1. checkout \in [at : {"paid", "switched", "dropping"}, new : Subs, old : Subs \cup {NoSub},
                     stale : BOOLEAN]
      BY <1>2 DEF DropOldAtStripe, IInv, TypeOK, Checkouts, Idle
    <3>2. checkout' = [checkout EXCEPT !.at = "dropping"]
      BY <1>2 DEF DropOldAtStripe, CheckoutStep
    <3>3. checkout'.at = "dropping" BY <3>1, <3>2
    <3> QED BY <3>3 DEF ReadLast
  <2> QED BY <2>1, <2>2, CheckoutKeepsDebt
<1>3. CASE AbandonCheckout
  <2>1. UNCHANGED <<rows, hook, job, ungated>> BY <1>3 DEF AbandonCheckout, CheckoutStep, serverVars
  <2>2. ReadLast' BY <1>3 DEF AbandonCheckout, CheckoutStep, Idle, ReadLast
  <2> QED BY <2>1, <2>2, CheckoutKeepsDebt
<1>4. CASE DropOldPlan
  <2>1. UNCHANGED <<hook, job, ungated>> /\ checkout' = Idle BY <1>4 DEF DropOldPlan, CheckoutStep
  <2>2. rows' = [i \in DOMAIN rows |->
                   IF rows[i].sub = checkout.old THEN Zeroed(rows[i]) ELSE rows[i]]
    BY <1>4 DEF DropOldPlan, UpdateWhere
  <2>3. ASSUME NEW i \in DOMAIN rows
        PROVE  /\ Current((rows')[i]) => Current(rows[i])
               /\ Backed((rows')[i], Idling(job, ungated))
    BY <2>2, ZeroedIsBacked
  <2>4. DOMAIN rows' = DOMAIN rows BY <2>2
  <2>5. Len(rows') = Len(rows) BY <2>4, SameCount
  <2>6. OneCurrent' BY <2>3, <2>4, <2>5 DEF DebtInv, OneCurrent, CurrentRows, Last
  <2>7. ReadLast' BY <2>1 DEF ReadLast, Idle
  <2>8. LoadedDebt' BY <2>1 DEF DebtInv, LoadedDebt
  <2>9. \A i \in DOMAIN rows' : Backed((rows')[i], Idling(job', ungated')) BY <2>1, <2>3, <2>4
  <2> QED BY <2>6, <2>7, <2>8, <2>9 DEF DebtInv, Backed, Current, Unlimited, Idling
<1> QED BY <1>1, <1>2, <1>3, <1>4, ReadCurrentPlanKeepsDebt, SwitchPlanKeepsDebt DEF Checkout

\* The webhook sets a balance to nothing, or adds a period to it.
LEMMA WebhooksKeepDebt ==
  ASSUME DebtInv, IInv, IInv', PeriodCoversRuns, Webhooks
  PROVE  DebtInv'
<1>1. UNCHANGED <<job, checkout, ungated>>
  BY DEF Webhooks, HookDeleted, HookCycle, HookCycleCommits
<1>2. Idling(job, ungated) \in Nat /\ Idling(job, ungated) <= Idling(job', ungated')
  <2>1. Idling(job, ungated) \in Nat /\ Idling(job', ungated') = Idling(job, ungated)
    BY <1>1, IdlersNow
  <2> QED BY <2>1
<1>3. ASSUME NEW e \in events, HookDeleted(e) PROVE DebtInv'
  <2>1. rows' = [i \in DOMAIN rows |->
                   IF rows[i].sub = e.sub /\ EndsWithStripe(rows[i])
                   THEN Zeroed(rows[i]) ELSE rows[i]]
    BY <1>3 DEF HookDeleted, UpdateWhere
  <2>2. \A i \in DOMAIN rows : (rows')[i] \in {rows[i], Zeroed(rows[i])} BY <2>1
  <2>3. \A i \in DOMAIN rows :
          (Current((rows')[i]) => Current(rows[i])) /\ Backed((rows')[i], Idling(job, ungated))
    BY <2>2, ZeroedIsBacked
  <2>4. DOMAIN rows' = DOMAIN rows BY <2>1
  <2>5. Len(rows') = Len(rows) BY <2>4, SameCount
  <2>6. LoadedDebt' BY <1>3 DEF HookDeleted, DebtInv, LoadedDebt
  <2> QED BY <1>1, <2>3, <2>4, <2>5, <2>6, QuietKeepsDebt
<1>4. ASSUME NEW e \in events, HookCycle(e) PROVE DebtInv'
  <2>1. UNCHANGED rows BY <1>4 DEF HookCycle
  <2>2. LoadedDebt'
    <3>1. CASE UNCHANGED hook BY <3>1 DEF DebtInv, LoadedDebt
    <3>2. ASSUME NEW i \in DOMAIN rows,
                 hook' = [at |-> "loaded", event |-> e, row |-> i,
                          balance |-> rows[i].balance, due |-> rows[i].due]
          PROVE  LoadedDebt'
      <4>1. hook'.balance = rows[i].balance BY <3>2
      <4> QED BY <4>1 DEF LoadedDebt, DebtInv, Backed
    <3> QED BY <1>4, <3>1, <3>2 DEF HookCycle
  <2> QED BY <1>1, <1>2, <2>1, <2>2, UnchangedKeepsDebt
<1>5. CASE HookCycleCommits
  <2>1. hook # Idle /\ hook' = Idle BY <1>5 DEF HookCycleCommits, Idle
  <2>2. LoadedDebt' BY <2>1 DEF LoadedDebt
  <2>3. CASE hook.due = "none"
    <3>1. UNCHANGED rows BY <1>5, <2>3 DEF HookCycleCommits
    <3> QED BY <1>1, <1>2, <2>2, <3>1, UnchangedKeepsDebt
  <2>4. CASE hook.due # "none"
    <3> DEFINE row == rows[hook.row]
               new == [sub |-> row.sub, balance |-> hook.balance + PlanTime,
                       due |-> "ahead", end |-> row.end, renew |-> row.renew]
    <3>1. rows' = [i \in DOMAIN rows |-> IF i = hook.row THEN new ELSE rows[i]]
      BY <1>5, <2>4, RenewedRows
    <3>2. hook.row \in DOMAIN rows /\ hook.balance \in Int BY <2>1, HookFields
    <3>3. new.balance >= 0
      <4>1. hook.balance >= -Longest BY <2>1 DEF DebtInv, LoadedDebt
      <4>2. Longest \in Nat /\ PlanTime \in Nat /\ Longest <= PlanTime
        BY LongestTyped, BillingAssumption DEF PeriodCoversRuns
      <4>3. new.balance = hook.balance + PlanTime OBVIOUS
      <4> HIDE DEF new
      <4> QED BY <3>2, <4>1, <4>2, <4>3
    <3>4. new \in Row
      <4>1. (rows')[hook.row] = new /\ hook.row \in DOMAIN rows' BY <3>1, <3>2
      <4>2. \A i \in DOMAIN rows' : (rows')[i] \in Row
        <5> DEFINE after == rows'
        <5>1. after \in Seq(Row) BY DEF IInv, TypeOK
        <5> HIDE DEF after
        <5>2. \A i \in DOMAIN after : after[i] \in Row BY <5>1, ElementOfSeq, LenProperties
        <5> QED BY <5>2 DEF after
      <4> HIDE DEF new
      <4> QED BY <4>1, <4>2
    <3>5. new.end = row.end OBVIOUS
    <3>6. DOMAIN rows' = DOMAIN rows BY <3>1
    <3>7. Len(rows') = Len(rows) BY <3>6, SameCount
    <3>8. ASSUME NEW i \in DOMAIN rows
          PROVE  /\ Current((rows')[i]) => Current(rows[i])
                 /\ Backed((rows')[i], Idling(job, ungated))
      <4>1. CASE i = hook.row
        <5>1. (rows')[i] = new /\ rows[i] = row BY <3>1, <4>1
        <5> HIDE DEF new
        <5>2. Backed(new, Idling(job, ungated)) BY <1>2, <3>3, <3>4, BackedAnyway
        <5> QED BY <3>5, <5>1, <5>2 DEF Current
      <4>2. CASE i # hook.row
        <5>1. (rows')[i] = rows[i] BY <3>1, <4>2
        <5> QED BY <5>1 DEF DebtInv
      <4> QED BY <4>1, <4>2
    <3> HIDE DEF new
    <3> QED BY <1>1, <2>2, <3>6, <3>7, <3>8, QuietKeepsDebt
  <2> QED BY <2>3, <2>4
<1> QED BY <1>3, <1>4, <1>5 DEF Webhooks

\* Time makes no row current.
LEMMA TimeKeepsDebt ==
  ASSUME DebtInv, IInv, IInv', NEW k \in DOMAIN rows, DueTimePasses(k) \/ EndTimePasses(k)
  PROVE  DebtInv'
<1> DEFINE row == rows[k]
<1>1. UNCHANGED <<job, checkout, hook, ungated>> BY DEF DueTimePasses, EndTimePasses, counters
<1>2. row \in Row BY RowsTyped DEF IInv, TypeOK
<1>3. PICK new : /\ rows' = [rows EXCEPT ![k] = new]
                 /\ new \in {[row EXCEPT !.due = "past"], [row EXCEPT !.end = "past"]}
  BY DEF DueTimePasses, EndTimePasses
<1>4. new.sub = row.sub /\ new.balance = row.balance /\ (Current(new) => Current(row))
  <2> HIDE DEF row
  <2> QED BY <1>2, <1>3, RowChanges DEF Current
<1>5. \A i \in DOMAIN rows :
        (Current((rows')[i]) => Current(rows[i])) /\ Backed((rows')[i], Idling(job, ungated))
  <2>1. Backed(new, Idling(job, ungated))
    <3>1. Backed(row, Idling(job, ungated)) BY DEF DebtInv
    <3> HIDE DEF row
    <3> QED BY <1>4, <3>1 DEF Backed, Unlimited
  <2> QED BY <1>3, <1>4, <2>1 DEF DebtInv
<1>6. DOMAIN rows' = DOMAIN rows BY <1>3
<1>7. Len(rows') = Len(rows) BY <1>6, SameCount
<1>8. LoadedDebt' BY <1>1 DEF DebtInv, LoadedDebt
<1> QED BY <1>1, <1>5, <1>6, <1>7, <1>8, QuietKeepsDebt

\* For a user who never cancels, whose trial is inserted once, and whose periods cover what
\* the requests at once can take, every current plan backs the runs under way.
THEOREM DebtInvariance ==
  ASSUME OneTrial, PeriodCoversRuns, Cancels = {}
  PROVE  Spec => []DebtInv
<1>1. Init => DebtInv
  <2> SUFFICES ASSUME Init PROVE DebtInv OBVIOUS
  <2>1. \A i \in DOMAIN rows : i = Last /\ rows[i] = Trial BY DEF Init, Last
  <2>2. Backed(Trial, Idling(job, ungated))
    <3>1. Trial.balance >= 0 BY BillingAssumption DEF Trial
    <3>2. ungated \in 0..MaxUngated BY BillingAssumption DEF Init
    <3>3. Idling(job, ungated) \in Nat BY <3>2, IdlersTyped
    <3> QED BY <3>1, <3>3, TrialIsRow, BackedAnyway
  <2>3. OneCurrent BY <2>1 DEF OneCurrent, CurrentRows
  <2>4. ReadLast /\ LoadedDebt BY DEF Init, ReadLast, LoadedDebt, Idle
  <2> QED BY <2>1, <2>2, <2>3, <2>4 DEF DebtInv
<1>2. PaidInv /\ DebtInv /\ [Next]_vars => DebtInv'
  <2> SUFFICES ASSUME PaidInv, DebtInv, [Next]_vars PROVE DebtInv' OBVIOUS
  <2>1. IInv /\ IInv' BY StepKept DEF PaidInv
  <2>2. ASSUME UNCHANGED <<rows, checkout, hook, job, ungated>> PROVE DebtInv'
    <3>1. LoadedDebt' BY <2>2 DEF DebtInv, LoadedDebt
    <3>2. Idling(job, ungated) \in Nat /\ Idling(job', ungated') = Idling(job, ungated)
      BY <2>1, <2>2, IdlersNow
    <3>3. Idling(job, ungated) <= Idling(job', ungated') BY <3>2
    <3> QED BY <2>1, <2>2, <3>1, <3>3, UnchangedKeepsDebt
  <2>3. CASE UNCHANGED vars BY <2>2, <2>3 DEF vars, serverVars, counters
  <2>4. ASSUME NEW r \in Requests, Charts(r) PROVE DebtInv'
    BY <2>1, <2>4, QuietRunKeepsDebt, CreateTrialKeepsDebt, AllowRunKeepsDebt,
       StartUngatedRunKeepsDebt, DebitRunKeepsDebt DEF Charts
  <2>5. CASE Checkout BY <2>1, <2>5, CheckoutsKeepDebt
  <2>6. ASSUME NEW s \in Subs, RenewAtStripe(s) \/ EndAtStripe(s) PROVE DebtInv'
    BY <2>2, <2>6 DEF RenewAtStripe, EndAtStripe
  <2>7. CASE Webhooks BY <2>1, <2>7, WebhooksKeepDebt
  <2> QED BY <2>1, <2>3, <2>4, <2>5, <2>6, <2>7, TimeKeepsDebt DEF Next
<1> QED BY <1>1, <1>2, PaidInvariance, PTL DEF Spec

\* Balances are checked when a run starts and debited when it ends; what a user can get
\* beyond a plan is bounded by what the requests that run at once can take, and the runs of
\* dashboards and saved charts that no balance was asked for, whatever the checkouts, from
\* outdated pages too, renewals and their repeated reports do meanwhile.
THEOREM Overdraft ==
  ASSUME OneTrial, PeriodCoversRuns, Cancels = {}
  PROVE  Spec => []OverdraftBounded
<1>1. DebtInv => OverdraftBounded
  BY DEF DebtInv, OverdraftBounded, CurrentRows, Backed, Idling, Running
<1> QED BY <1>1, DebtInvariance, PTL
=============================================================================
