-------------------------- MODULE EmailSchedulesProofs --------------------------
(***************************************************************************)
(* Theorems about EmailSchedules, for any schedules, crontabs, resolutions *)
(* and delays; time is not bounded in advance but by the model's horizon.  *)
(*                                                                         *)
(* What next_schedules computes for an hour, by a loop that remembers the  *)
(* last start it has let through, is what the crontab and the resolution   *)
(* ask for: any set with that property is the same one.  The rest follows  *)
(* each plan, from the tick of the beat to the reports, when the queue     *)
(* brings a plan to a worker within the hour it is for.                    *)
(***************************************************************************)
EXTENDS EmailSchedules, FiniteSetTheorems, WellFoundedInduction, TLAPS

-----------------------------------------------------------------------------
(* Least and greatest elements, recursive functions *)

\* A set of natural numbers has a least element. The library states induction for an
\* operator, which no installed prover instantiates; told of sets, a proof by induction
\* takes the least counterexample.
LEMMA LeastElement ==
  ASSUME NEW T \in SUBSET Nat, T # {}
  PROVE  \E n \in T : \A m \in T : n <= m
<1> DEFINE Below(n) == {m \in T : m < n}
           C == {Below(n) : n \in T}
<1>1. \A n \in T : n \in Nat OBVIOUS
<1>2. C \subseteq FiniteSubsetsOf(T) /\ C # {}
  <2>1. ASSUME NEW n \in T PROVE IsFiniteSet(Below(n)) /\ Below(n) \subseteq T
    <3>1. Below(n) \subseteq 0..n
      <4>1. \A m \in T : m < n => m \in 0..n BY <1>1
      <4> QED BY <4>1
    <3>2. IsFiniteSet(0..n) BY <1>1, FS_Interval
    <3>3. Below(n) \subseteq T OBVIOUS
    <3> HIDE DEF Below
    <3> QED BY <3>1, <3>2, <3>3, FS_Subset
  <2> HIDE DEF Below
  <2> QED BY <2>1 DEF FiniteSubsetsOf
<1>3. PICK X \in C : \A Y \in C : ~ (<<Y, X>> \in StrictSubsetOrdering(T))
  <2> HIDE DEF C
  <2> QED BY <1>2, WFMin, FS_StrictSubsetOrderingWellFounded
<1>4. PICK n \in T : X = Below(n) OBVIOUS
<1>5. ASSUME NEW m \in T, m < n PROVE FALSE
  <2> HIDE DEF C
  <2>1. Below(m) \subseteq Below(n) /\ m \in Below(n) /\ m \notin Below(m)
    <3>1. \A x \in T : x < m => x < n BY <1>1, <1>5
    <3>2. ~ (m < m) BY <1>1
    <3> QED BY <1>5, <3>1, <3>2, Zenon
  <2>2. Below(m) \in C /\ Below(m) \in SUBSET T /\ Below(n) \in SUBSET T BY DEF C
  <2> HIDE DEF Below
  <2>3. <<Below(m), Below(n)>> \in StrictSubsetOrdering(T)
    BY <2>1, <2>2 DEF StrictSubsetOrdering
  <2> QED BY <1>3, <1>4, <2>2, <2>3
<1>6. \A m \in T : n <= m BY <1>1, <1>5
<1> QED BY <1>6

\* Max gives the greatest element of a finite set of integers.
LEMMA MaxOfFiniteSet ==
  ASSUME NEW T \in SUBSET Int, IsFiniteSet(T), T # {}
  PROVE  Max(T) \in T /\ \A t \in T : t <= Max(T)
<1> DEFINE Above(m) == {t \in T : m < t}
           C == {Above(m) : m \in T}
<1>1. C \subseteq FiniteSubsetsOf(T) /\ C # {}
  <2>1. \A m \in T : Above(m) \subseteq T OBVIOUS
  <2>2. \A m \in T : IsFiniteSet(Above(m))
    <3> HIDE DEF Above
    <3> QED BY <2>1, FS_Subset
  <2> HIDE DEF Above
  <2> QED BY <2>1, <2>2 DEF FiniteSubsetsOf
<1>2. PICK X \in C : \A Y \in C : ~ (<<Y, X>> \in StrictSubsetOrdering(T))
  <2> HIDE DEF C
  <2> QED BY <1>1, WFMin, FS_StrictSubsetOrderingWellFounded
<1>3. PICK m \in T : X = Above(m) OBVIOUS
<1>4. ASSUME NEW t \in T, m < t PROVE FALSE
  <2> HIDE DEF C
  <2>1. t \in Int /\ m \in Int /\ \A x \in T : x \in Int OBVIOUS
  <2>2. Above(t) \subseteq Above(m) /\ t \in Above(m) /\ t \notin Above(t)
    <3>1. \A x \in T : t < x => m < x BY <1>4, <2>1
    <3>2. ~ (t < t) BY <2>1
    <3> QED BY <1>4, <3>1, <3>2, Zenon
  <2>3. Above(t) \in C /\ Above(t) \in SUBSET T /\ Above(m) \in SUBSET T BY DEF C
  <2> HIDE DEF Above
  <2>4. <<Above(t), Above(m)>> \in StrictSubsetOrdering(T)
    BY <2>2, <2>3 DEF StrictSubsetOrdering
  <2> QED BY <1>2, <1>3, <2>3, <2>4
<1>5. \A t \in T : m >= t BY <1>4
<1> QED BY <1>5 DEF Max

\* f is defined at each number up to N from its value at the one before.
Recursive(f, N, S, first, step) ==
  /\ f \in [0..N -> S]
  /\ f[0] = first /\ \A n \in 1..N : f[n] = step[<<n, f[n - 1]>>]

StepsWithin(N, S, step) == \A n \in 1..N, x \in S : step[<<n, x>>] \in S

\* There is such a function.
LEMMA RecursionExists ==
  ASSUME NEW N \in Nat, NEW S, NEW first \in S, NEW step, StepsWithin(N, S, step)
  PROVE  \E f : Recursive(f, N, S, first, step)
<1> DEFINE Exists(k) == \E f : Recursive(f, k, S, first, step)
           T == {k \in 0..N : ~ Exists(k)}
<1>1. Exists(0)
  <2> DEFINE f == [n \in 0..0 |-> first]
  <2>1. Recursive(f, 0, S, first, step) BY DEF Recursive
  <2> QED BY <2>1
<1>2. ASSUME NEW k \in 1..N, Exists(k - 1) PROVE Exists(k)
  <2>1. PICK g : Recursive(g, k - 1, S, first, step) BY <1>2
  <2> DEFINE f == [n \in 0..k |-> IF n = k THEN step[<<k, g[k - 1]>>] ELSE g[n]]
  <2>2. k \in Int /\ 1 <= k /\ k <= N OBVIOUS
  <2>3. g[k - 1] \in S
    <3>1. k - 1 \in 0..(k - 1) BY <2>2
    <3> QED BY <3>1, <2>1 DEF Recursive
  <2>4. step[<<k, g[k - 1]>>] \in S BY <2>3 DEF StepsWithin
  <2>5. f \in [0..k -> S]
    <3>1. \A n \in 0..k : n # k => n \in 0..(k - 1) BY <2>2
    <3>2. \A n \in 0..k : n # k => g[n] \in S BY <3>1, <2>1 DEF Recursive
    <3> QED BY <3>2, <2>4
  <2>6. f[0] = first
    <3>1. 0 \in 0..k /\ 0 # k BY <2>2
    <3>2. f[0] = g[0] BY <3>1
    <3> QED BY <3>2, <2>1 DEF Recursive
  <2>7. ASSUME NEW n \in 1..k PROVE f[n] = step[<<n, f[n - 1]>>]
    <3>1. n \in 0..k /\ n - 1 \in 0..k /\ n - 1 # k BY <2>2
    <3>2. f[n - 1] = g[n - 1] BY <3>1
    <3>3. CASE n = k BY <3>1, <3>2, <3>3
    <3>4. CASE n # k
      <4>1. n \in 1..(k - 1) BY <3>4, <2>2
      <4>2. f[n] = g[n] BY <3>4, <3>1
      <4> HIDE DEF f
      <4> QED BY <4>1, <4>2, <3>2, <2>1 DEF Recursive
    <3> QED BY <3>3, <3>4
  <2> HIDE DEF f
  <2> QED BY <2>5, <2>6, <2>7 DEF Recursive
<1> HIDE DEF Exists
<1>3. T = {}
  <2>1. SUFFICES ASSUME T # {} PROVE FALSE OBVIOUS
  <2>2. T \in SUBSET Nat OBVIOUS
  <2>3. PICK k \in T : \A m \in T : k <= m
    <3> HIDE DEF T
    <3> QED BY <2>1, <2>2, LeastElement
  <2>4. k \in 0..N /\ ~ Exists(k) /\ k # 0 BY <2>3, <1>1
  <2>5. k \in 1..N /\ k - 1 \in 0..N /\ ~ (k <= k - 1) BY <2>4
  <2>6. Exists(k - 1) BY <2>3, <2>5
  <2> QED BY <2>4, <2>5, <2>6, <1>2
<1>4. Exists(N) BY <1>3
<1> QED BY <1>4 DEF Exists


(* Hours *)

\* The hour a tick lies in, and its place in it.
LEMMA HourOfTick ==
  ASSUME NEW t \in Int
  PROVE  /\ HourOf(t) \in Int /\ t % HourLen \in 0..(HourLen - 1)
         /\ t = Top(HourOf(t)) + (t % HourLen)
         /\ Top(HourOf(t)) <= t /\ t < Top(HourOf(t)) + HourLen
<1>1. /\ t \div HourLen \in Int /\ t % HourLen \in Int
      /\ 0 <= t % HourLen /\ t % HourLen < HourLen
      /\ t = (t \div HourLen) * HourLen + (t % HourLen)
  BY EmailAssumption
<1>2. (t \div HourLen) * HourLen \in Int BY <1>1, EmailAssumption
<1> QED BY <1>1, <1>2, EmailAssumption DEF HourOf, Top

\* Hours follow one another without a gap.
LEMMA TopOfHour ==
  ASSUME NEW a \in Int, NEW b \in Int
  PROVE  /\ Top(a) \in Int /\ Top(a + 1) = Top(a) + HourLen
         /\ a < b => Top(a) + HourLen <= Top(b)
         /\ Top(a) < Top(b) + HourLen => a <= b
BY EmailAssumption DEF Top

\* The ticks of an hour are those from its top to the next.
LEMMA InHour ==
  ASSUME NEW t \in Int, NEW h \in Int
  PROVE  HourOf(t) = h <=> Top(h) <= t /\ t < Top(h) + HourLen
<1>1. ASSUME Top(h) <= t, t < Top(h) + HourLen PROVE HourOf(t) = h
  BY <1>1, EmailAssumption DEF HourOf, Top
<1> QED BY <1>1, HourOfTick

-----------------------------------------------------------------------------
(* next_schedules *)

\* The loop's previous, at each time of the window.
Previous(previous, crontab, start, stop) ==
  /\ previous \in [(start - 1)..(stop - 1) -> Int]
  /\ previous[start - 1] = start - 24 * HourLen
  /\ \A t \in start..(stop - 1) :
       previous[t] = IF Fires(crontab, t) /\ Spaced(t, previous[t - 1])
                     THEN t ELSE previous[t - 1]
  /\ NextSchedules(crontab, start, stop) = {t \in start..(stop - 1) : previous[t] = t}

Firings(crontab, start, stop) == {t \in start..(stop - 1) : Fires(crontab, t)}

\* A firing is kept iff none that is kept lies less than the resolution before it.
SpacedOut(kept, firings) ==
  \A t \in firings : t \in kept <=> ~ \E u \in kept : u < t /\ t - u < Resolution

\* The function that next_schedules folds over the ticks exists.
LEMMA KeptLast ==
  ASSUME NEW crontab, NEW start \in Int, NEW stop \in Int, start <= stop
  PROVE  \E previous : Previous(previous, crontab, start, stop)
<1> DEFINE window == start..(stop - 1)
           dom == window \cup {start - 1}
           Body(f) == [t \in dom |->
             IF t < start THEN start - 24 * HourLen
             ELSE IF Fires(crontab, t) /\ Spaced(t, f[t - 1]) THEN t ELSE f[t - 1]]
           previous == CHOOSE f : f = Body(f)
           N == stop - start
           first == start - 24 * HourLen
           step == [x \in (1..N) \X Int |->
                      IF Fires(crontab, start - 1 + x[1]) /\ Spaced(start - 1 + x[1], x[2])
                      THEN start - 1 + x[1] ELSE x[2]]
<1>1. N \in Nat /\ first \in Int /\ dom = (start - 1)..(stop - 1) BY EmailAssumption
<1>2. \E f : f = Body(f) /\ f \in [dom -> Int]
  <2>1. ASSUME NEW n \in 1..N, NEW x \in Int
        PROVE  step[<<n, x>>] = (IF Fires(crontab, start - 1 + n) /\ Spaced(start - 1 + n, x)
                                 THEN start - 1 + n ELSE x)
               /\ step[<<n, x>>] \in Int
    <3>1. <<n, x>> \in (1..N) \X Int OBVIOUS
    <3>2. step[<<n, x>>] = (IF Fires(crontab, start - 1 + n) /\ Spaced(start - 1 + n, x)
                            THEN start - 1 + n ELSE x)
      BY <3>1
    <3> HIDE DEF step
    <3> QED BY <3>2
  <2>2. StepsWithin(N, Int, step) BY <2>1 DEF StepsWithin
  <2>3. PICK g : Recursive(g, N, Int, first, step)
    <3> HIDE DEF step, first, N
    <3> QED BY <1>1, <2>2, RecursionExists
  <2>4. /\ \A n \in 0..N : g[n] \in Int
        /\ g[0] = first /\ \A n \in 1..N : g[n] = step[<<n, g[n - 1]>>]
    BY <2>3 DEF Recursive
  <2> DEFINE f == [t \in dom |-> g[t - (start - 1)]]
  <2>5. \A t \in dom : t - (start - 1) \in 0..N BY <1>1
  <2>6. f \in [dom -> Int] BY <2>4, <2>5
  <2>7. ASSUME NEW t \in dom PROVE f[t] = Body(f)[t]
    <3>1. CASE t < start
      <4>1. t - (start - 1) = 0 BY <3>1, <1>1
      <4>2. f[t] = first BY <4>1, <2>4
      <4> HIDE DEF f
      <4> QED BY <3>1, <4>2
    <3>2. CASE ~ (t < start)
      <4> DEFINE n == t - (start - 1)
      <4>1. n \in 1..N /\ n - 1 \in 0..N /\ start - 1 + n = t /\ t - 1 \in dom
            /\ (t - 1) - (start - 1) = n - 1
        BY <3>2, <1>1
      <4>2. f[t] = g[n] /\ f[t - 1] = g[n - 1] BY <4>1
      <4> HIDE DEF f, n
      <4>3. g[n] = step[<<n, g[n - 1]>>] /\ g[n - 1] \in Int BY <4>1, <2>4
      <4>4. g[n] = IF Fires(crontab, t) /\ Spaced(t, g[n - 1]) THEN t ELSE g[n - 1]
        BY <4>1, <4>3, <2>1
      <4> QED BY <3>2, <4>2, <4>4
    <3> QED BY <3>1, <3>2
  <2>8. f = Body(f) BY <2>7
  <2> HIDE DEF f
  <2> QED BY <2>6, <2>8
<1>3. previous = Body(previous) BY <1>2
<1>4. NextSchedules(crontab, start, stop) = {t \in window : previous[t] = t}
  BY DEF NextSchedules, WithinWindow
<1> HIDE DEF previous
<1>5. previous \in [dom -> Int]
  <2>1. DOMAIN previous = dom BY <1>3
  <2> DEFINE Bad == {n \in 0..N : previous[n + (start - 1)] \notin Int}
  <2>2. Bad = {}
    <3>1. SUFFICES ASSUME Bad # {} PROVE FALSE OBVIOUS
    <3>2. PICK n \in Bad : \A m \in Bad : n <= m
      <4>1. Bad \in SUBSET Nat BY <1>1
      <4> HIDE DEF Bad
      <4> QED BY <3>1, <4>1, LeastElement
    <3> DEFINE t == n + (start - 1)
    <3>3. n \in 0..N /\ t \in dom BY <3>2, <1>1
    <3>4. previous[t] = IF t < start THEN first
                        ELSE IF Fires(crontab, t) /\ Spaced(t, previous[t - 1]) THEN t
                        ELSE previous[t - 1]
      BY <1>3, <3>3
    <3>5. ~ (t < start) /\ previous[t] = previous[t - 1] /\ previous[t] \notin Int
      BY <3>2, <3>3, <3>4, <1>1
    <3>6. n - 1 \in 0..N /\ (n - 1) + (start - 1) = t - 1 /\ ~ (n <= n - 1) BY <3>3, <3>5, <1>1
    <3>7. n - 1 \in Bad BY <3>5, <3>6
    <3> HIDE DEF Bad
    <3> QED BY <3>2, <3>6, <3>7
  <2>3. ASSUME NEW t \in dom PROVE previous[t] \in Int
    <3>1. t - (start - 1) \in 0..N /\ (t - (start - 1)) + (start - 1) = t BY <1>1
    <3> QED BY <3>1, <2>2
  <2>4. previous = [t \in dom |-> previous[t]] BY <1>3
  <2> QED BY <2>3, <2>4
<1>6. previous[start - 1] = first BY <1>3, <1>1
<1>7. \A t \in window : previous[t] = IF Fires(crontab, t) /\ Spaced(t, previous[t - 1])
                                      THEN t ELSE previous[t - 1]
  BY <1>3
<1> QED BY <1>1, <1>4, <1>5, <1>6, <1>7 DEF Previous

\* next_schedules lets through starts of the crontab, and just those that are a
\* resolution or more after the one let through before.
LEMMA KeptRule ==
  ASSUME NEW crontab, NEW start \in Int, NEW stop \in Int, start <= stop
  PROVE  /\ NextSchedules(crontab, start, stop) \subseteq Firings(crontab, start, stop)
         /\ SpacedOut(NextSchedules(crontab, start, stop), Firings(crontab, start, stop))
<1> DEFINE kept == NextSchedules(crontab, start, stop)
           first == start - 24 * HourLen
<1>0. PICK previous : Previous(previous, crontab, start, stop) BY KeptLast
<1>1. /\ previous \in [(start - 1)..(stop - 1) -> Int]
      /\ previous[start - 1] = first
      /\ \A t \in start..(stop - 1) :
           previous[t] = IF Fires(crontab, t) /\ Spaced(t, previous[t - 1])
                         THEN t ELSE previous[t - 1]
      /\ kept = {t \in start..(stop - 1) : previous[t] = t}
  BY <1>0 DEF Previous
<1>2. first \in Int /\ first < start /\ \A t \in Int : t >= start => t - first >= Resolution
  BY EmailAssumption
<1> HIDE DEF kept, first
<1> DEFINE Latest(t) ==
             /\ previous[t] <= t /\ (previous[t] = first \/ previous[t] \in kept)
             /\ \A u \in kept : u <= t => u <= previous[t]
           Bad == {n \in 0..(stop - start) : ~ Latest(n + (start - 1))}
<1>3. Bad = {}
  <2>1. SUFFICES ASSUME Bad # {} PROVE FALSE OBVIOUS
  <2>2. PICK n \in Bad : \A m \in Bad : n <= m
    <3>1. Bad \in SUBSET Nat OBVIOUS
    <3> HIDE DEF Bad
    <3> QED BY <2>1, <3>1, LeastElement
  <2> DEFINE t == n + (start - 1)
  <2>3. n \in 0..(stop - start) /\ ~ Latest(t) BY <2>2
  <2>4. CASE n = 0
    <3>1. t = start - 1 /\ previous[t] = first BY <1>1, <2>4
    <3>2. \A u \in kept : ~ (u <= t) BY <1>1, <3>1
    <3>3. Latest(t) BY <1>2, <3>1, <3>2
    <3> QED BY <2>3, <3>3
  <2>5. CASE n # 0
    <3>1. t \in start..(stop - 1) /\ t - 1 \in (start - 1)..(stop - 1) BY <2>3, <2>5
    <3>2. n - 1 \in 0..(stop - start) /\ (n - 1) + (start - 1) = t - 1 /\ ~ (n <= n - 1)
      BY <2>3, <2>5
    <3>3. Latest(t - 1)
      <4>1. n - 1 \notin Bad BY <2>2, <3>2
      <4> HIDE DEF Latest
      <4> QED BY <3>2, <4>1
    <3>4. previous[t] \in Int /\ previous[t - 1] \in Int BY <1>1, <3>1
    <3>5. CASE previous[t] = t
      <4>1. t \in kept BY <1>1, <3>1, <3>5
      <4>2. \A u \in kept : u <= t => u <= previous[t] BY <3>5
      <4>3. Latest(t) BY <3>1, <3>5, <4>1, <4>2
      <4> QED BY <2>3, <4>3
    <3>6. CASE previous[t] # t
      <4>1. previous[t] = previous[t - 1]
        <5> HIDE DEF t
        <5> QED BY <1>1, <3>1, <3>6
      <4>2. t \notin kept BY <1>1, <3>6
      <4>3. \A u \in kept : u \in Int BY <1>1
      <4>4. \A u \in kept : u <= t => u <= t - 1
        <5> HIDE DEF t
        <5> QED BY <3>1, <4>2, <4>3
      <4>5. Latest(t)
        <5> HIDE DEF t
        <5> QED BY <3>1, <3>3, <3>4, <4>1, <4>4
      <4> QED BY <2>3, <4>5
    <3> QED BY <3>5, <3>6
  <2> QED BY <2>4, <2>5
<1>4. ASSUME NEW t \in start..(stop - 1)
      PROVE  Latest(t - 1) /\ previous[t - 1] \in Int /\ previous[t - 1] < t
  <2>1. t - start \in 0..(stop - start) /\ (t - start) + (start - 1) = t - 1
        /\ t - 1 \in (start - 1)..(stop - 1)
    OBVIOUS
  <2>2. t - start \notin Bad BY <1>3
  <2>3. Latest(t - 1)
    <3> HIDE DEF Latest
    <3> QED BY <2>1, <2>2
  <2>4. previous[t - 1] \in Int BY <1>1, <2>1
  <2> QED BY <2>3, <2>4
<1>5. \A t \in start..(stop - 1) : t \in kept <=> Fires(crontab, t) /\ Spaced(t, previous[t - 1])
  BY <1>1, <1>4
<1>6. ASSUME NEW t \in start..(stop - 1)
      PROVE  Spaced(t, previous[t - 1]) <=> ~ \E u \in kept : u < t /\ t - u < Resolution
  <2> DEFINE p == previous[t - 1]
  <2>1. Latest(t - 1) /\ p \in Int /\ p < t BY <1>4
  <2>2. \A u \in kept : u \in Int BY <1>1
  <2>3. ASSUME Spaced(t, p), NEW u \in kept, u < t PROVE ~ (t - u < Resolution)
    <3>1. u <= t - 1 BY <2>2, <2>3
    <3>2. u <= p BY <2>1, <3>1
    <3> HIDE DEF p
    <3> QED BY <2>1, <2>2, <2>3, <3>2, EmailAssumption DEF Spaced
  <2>4. ASSUME ~ Spaced(t, p) PROVE \E u \in kept : u < t /\ t - u < Resolution
    <3>1. p # first BY <1>2, <2>4 DEF Spaced
    <3>2. p \in kept BY <2>1, <3>1
    <3> HIDE DEF p
    <3> QED BY <2>1, <2>4, <3>2, EmailAssumption DEF Spaced
  <2> QED BY <2>3, <2>4
<1>7. kept \subseteq Firings(crontab, start, stop) BY <1>1, <1>5 DEF Firings
<1>8. SpacedOut(kept, Firings(crontab, start, stop)) BY <1>5, <1>6 DEF SpacedOut, Firings
<1> QED BY <1>7, <1>8 DEF kept

\* There is one such set: two of them have no first start in which they differ.
LEMMA RuleIsUnique ==
  ASSUME NEW start \in Int, NEW firings, \A t \in firings : t \in Int /\ t >= start,
         NEW A \in SUBSET firings, NEW B \in SUBSET firings,
         SpacedOut(A, firings), SpacedOut(B, firings)
  PROVE  A = B
<1> DEFINE Bad == {n \in Nat : start + n \in firings /\ ~ (start + n \in A <=> start + n \in B)}
<1>1. Bad = {}
  <2>1. SUFFICES ASSUME Bad # {} PROVE FALSE OBVIOUS
  <2>2. PICK n \in Bad : \A m \in Bad : n <= m
    <3>1. Bad \in SUBSET Nat OBVIOUS
    <3> HIDE DEF Bad
    <3> QED BY <2>1, <3>1, LeastElement
  <2> DEFINE t == start + n
  <2>3. t \in Int /\ t \in firings /\ ~ (t \in A <=> t \in B) BY <2>2
  <2>4. ASSUME NEW u \in firings, u < t PROVE u \in A <=> u \in B
    <3>1. u - start \in Nat /\ start + (u - start) = u /\ ~ (n <= u - start) BY <2>4, <2>2
    <3>2. u - start \notin Bad BY <2>2, <3>1
    <3> QED BY <3>1, <3>2
  <2>5. (\E u \in A : u < t /\ t - u < Resolution) <=> (\E u \in B : u < t /\ t - u < Resolution)
    BY <2>4
  <2> HIDE DEF t
  <2> QED BY <2>3, <2>5 DEF SpacedOut
<1>2. ASSUME NEW t \in firings PROVE t \in A <=> t \in B
  <2>1. t - start \in Nat /\ start + (t - start) = t OBVIOUS
  <2> QED BY <1>1, <2>1
<1> QED BY <1>2

\* What next_schedules lets through in an hour is what the crontab and the resolution
\* ask for, whatever the crontab, the resolution and the hour.
LEMMA PlansAsWanted ==
  ASSUME NEW crontab, NEW hour \in Int
  PROVE  /\ NextSchedules(crontab, Top(hour), Top(hour) + HourLen) = Wanted(crontab, hour)
         /\ Wanted(crontab, hour) \subseteq Top(hour)..(Top(hour) + HourLen - 1)
<1> DEFINE start == Top(hour)
           stop == start + HourLen
           firings == {t \in start..(start + HourLen - 1) : Fires(crontab, t)}
           kept == NextSchedules(crontab, start, stop)
           Rule(K) == \A t \in firings : t \in K <=> ~ \E u \in K : u < t /\ t - u < Resolution
           wanted == Wanted(crontab, hour)
<1>1. start \in Int /\ stop \in Int /\ start <= stop BY TopOfHour, EmailAssumption
<1>2. firings = Firings(crontab, start, stop)
  <2> HIDE DEF start
  <2>1. start + HourLen - 1 = stop - 1 BY <1>1, EmailAssumption
  <2> QED BY <2>1 DEF Firings
<1>3. kept \in SUBSET firings /\ SpacedOut(kept, firings)
  <2> HIDE DEF start, stop, firings
  <2> QED BY <1>1, <1>2, KeptRule
<1>4. Rule(kept) BY <1>3 DEF SpacedOut
<1>5. wanted = CHOOSE K \in SUBSET firings : Rule(K) BY DEF Wanted
<1>6. wanted \in SUBSET firings /\ Rule(wanted)
  <2> HIDE DEF firings, kept, wanted, Rule
  <2> QED BY <1>3, <1>4, <1>5
<1>7. \A t \in firings : t \in Int /\ t >= start BY <1>1
<1>8. SpacedOut(wanted, firings) BY <1>6 DEF SpacedOut
<1>9. kept = wanted
  <2> HIDE DEF kept, wanted, firings, start
  <2> QED BY <1>1, <1>3, <1>6, <1>7, <1>8, RuleIsUnique
<1>10. wanted \subseteq start..(start + HourLen - 1)
  <2> HIDE DEF wanted
  <2> QED BY <1>6
<1> HIDE DEF wanted, kept
<1>11. kept = wanted /\ wanted \subseteq Top(hour)..(Top(hour) + HourLen - 1) BY <1>9, <1>10
<1> QED BY <1>11 DEF wanted, kept

-----------------------------------------------------------------------------
(* The inductive invariant *)

\* A plan reaches a worker before the hour that it is for ends.
Punctual == BeatMinute + Late < HourLen

\* The reports of an hour have been planned.
Planned(hour) ==
  hour < HourOf(clock) \/ (hour = HourOf(clock) /\ beaten = hour /\ plans = {})

BeatKept ==
  /\ beaten \in {HourOf(clock) - 1, HourOf(clock)}
  /\ clock % HourLen < BeatMinute => beaten = HourOf(clock) - 1
  /\ clock % HourLen > BeatMinute => beaten = HourOf(clock)
  /\ \A sent \in plans : /\ beaten = HourOf(clock) /\ sent = Top(beaten) + BeatMinute
                         /\ clock <= sent + Late

Reports == {task \in queue : task.kind = "report"}

ReportsKept ==
  /\ \A task \in Reports :
       /\ task.ready < Top(HourOf(task.eta)) + HourLen /\ clock <= task.ready + Late
       /\ Planned(HourOf(task.eta)) /\ task.eta \notin started[task.schedule]
  /\ \A one, two \in Reports : one.schedule = two.schedule /\ one.eta = two.eta => one = two

StartedKept == \A s \in Schedules : \A t \in started[s] : Planned(HourOf(t))

\* The reports of a schedule for an hour: those that were started, and those to come.
Told(s, hour) ==
  {t \in started[s] : HourOf(t) = hour}
    \cup {task.eta : task \in {x \in Reports : x.schedule = s /\ HourOf(x.eta) = hour}}

Asked(s, hour) == IF rows[s].active THEN Wanted(rows[s].crontab, hour) ELSE {}

Complete ==
  \A s \in Schedules, hour \in 0..HourOf(clock) :
    Planned(hour) /\ changed[s] < Top(hour) => Told(s, hour) = Asked(s, hour)

\* A form that has been saved knows the id of its row.
FormsSaved == \A f \in Forms : forms[f].at = "updated" => forms[f].schedule \in Schedules

IInv == TypeOK /\ FormsSaved /\ BeatKept /\ ReportsKept /\ StartedKept /\ Complete

-----------------------------------------------------------------------------
(* Types *)

Form == [at : {"processed", "updated"}, row : Row, schedule : Schedules \cup {Unsaved},
         mail : TestMail]

\* The bound on the clock is a number of ticks.
LEMMA HorizonTyped == Horizon \in Nat
BY EmailAssumption DEF Horizon, Top

\* Later ticks lie in later hours, or in the same.
LEMMA HoursGrow ==
  ASSUME NEW t \in Int, NEW u \in Int, t <= u
  PROVE  HourOf(t) <= HourOf(u) /\ HourOf(t) \in Int /\ HourOf(u) \in Int
<1>1. /\ HourOf(t) \in Int /\ HourOf(u) \in Int
      /\ Top(HourOf(t)) <= t /\ u < Top(HourOf(u)) + HourLen
  BY HourOfTick
<1>2. Top(HourOf(t)) \in Int /\ Top(HourOf(u)) \in Int BY <1>1, TopOfHour
<1>3. Top(HourOf(t)) < Top(HourOf(u)) + HourLen BY <1>1, <1>2, EmailAssumption
<1> QED BY <1>1, <1>3, TopOfHour

\* Time starts at the top of an hour.
LEMMA FirstHour == Top(0) = 0 /\ HourOf(0) = 0
<1>1. Top(0) = 0 BY EmailAssumption DEF Top
<1> QED BY <1>1, InHour, EmailAssumption

\* The clock and its hour.
LEMMA ClockTyped ==
  ASSUME TypeOK
  PROVE  clock \in Nat /\ HourOf(clock) \in Nat
<1>1. clock \in Nat
  <2>1. clock \in 0..Horizon BY DEF TypeOK
  <2> QED BY <2>1, HorizonTyped
<1>2. HourOf(0) <= HourOf(clock) /\ HourOf(clock) \in Int BY <1>1, HoursGrow
<1> QED BY <1>1, <1>2, FirstHour

\* What a plan for the current hour adds to the queue.
LEMMA ReportOfHour ==
  ASSUME TypeOK, NEW s \in Schedules, NEW crontab,
         NEW eta \in NextSchedules(crontab, WindowStart, WindowStop)
  PROVE  /\ Report(s, eta) \in Task /\ HourOf(eta) = HourOf(clock)
         /\ Report(s, eta).schedule = s /\ Report(s, eta).eta = eta
         /\ Report(s, eta).kind = "report"
         /\ Report(s, eta).ready >= clock
         /\ Report(s, eta).ready < Top(HourOf(clock)) + HourLen
         /\ eta \in Wanted(crontab, HourOf(clock))
<1> DEFINE H == HourOf(clock)
           ready == Max({eta, clock})
<1>1. clock \in Nat BY ClockTyped
<1>2. H \in Int /\ Top(H) \in Int /\ Top(H) <= clock /\ clock < Top(H) + HourLen
  BY <1>1, HourOfTick, TopOfHour
<1>3. H >= 0
  BY <1>1, <1>2, EmailAssumption DEF Top
<1>4. Top(H) >= 0 BY <1>2, <1>3, EmailAssumption DEF Top
<1>5. eta \in Wanted(crontab, H) /\ eta \in Top(H)..(Top(H) + HourLen - 1)
  <2> HIDE DEF H
  <2> QED BY <1>2, PlansAsWanted DEF WindowStart, WindowStop, H
<1>6. eta \in Nat /\ Top(H) <= eta /\ eta < Top(H) + HourLen
  BY <1>2, <1>4, <1>5, EmailAssumption
<1>7. ready \in {eta, clock} /\ ready >= clock
  <2>1. IsFiniteSet({eta, clock})
    <3>1. IsFiniteSet({eta}) BY FS_Singleton
    <3>2. IsFiniteSet({eta} \cup {clock}) BY <3>1, FS_AddElement
    <3>3. {eta, clock} = {eta} \cup {clock} OBVIOUS
    <3> QED BY <3>2, <3>3
  <2> DEFINE T == {eta, clock}
  <2>2. T \in SUBSET Int /\ T # {} /\ IsFiniteSet(T) BY <1>1, <1>6, <2>1
  <2>3. Max(T) \in T /\ \A t \in T : t <= Max(T)
    <3> HIDE DEF T
    <3> QED BY <2>2, MaxOfFiniteSet
  <2>4. Max(T) \in Int BY <2>2, <2>3
  <2> QED BY <1>1, <2>3, <2>4
<1>8. ready \in Nat /\ ready < Top(H) + HourLen BY <1>1, <1>2, <1>6, <1>7
<1>9. HourOf(eta) = H
  <2> HIDE DEF H
  <2> QED BY <1>2, <1>6, InHour
<1>10. Report(s, eta) = [schedule |-> s, eta |-> eta, ready |-> ready, kind |-> "report", to |-> "row"]
  BY DEF Report
<1> HIDE DEF ready, H
<1>11. Report(s, eta) \in Task BY <1>6, <1>8, <1>10 DEF Task, Recipients
<1> QED BY <1>5, <1>7, <1>8, <1>9, <1>10, <1>11 DEF H

\* The types hold initially.
LEMMA InitTyped == Init => TypeOK /\ FormsSaved
<1> SUFFICES ASSUME Init PROVE TypeOK /\ FormsSaved OBVIOUS
<1>1. clock \in 0..Horizon
  <2>1. clock = 0 BY DEF Init
  <2> QED BY <2>1, HorizonTyped
<1>2. extra \in TestMail BY DEF Init, TestMail, Recipients
<1>3. beaten \in -1..HourOf(clock)
  <2>1. HourOf(clock) = 0 /\ beaten = -1 BY FirstHour DEF Init
  <2> QED BY <2>1
<1>4. changed \in [Schedules -> -1..clock]
  <2>1. -1 \in -1..0 OBVIOUS
  <2> QED BY <2>1 DEF Init
<1>5. edits \in 0..MaxEdits
  <2>1. edits = 0 /\ MaxEdits \in Nat BY EmailAssumption DEF Init
  <2> QED BY <2>1
<1> QED BY <1>1, <1>2, <1>3, <1>4, <1>5 DEF Init, TypeOK, FormsSaved, Idle

\* The clock goes on.
LEMMA TickTyped == ASSUME TypeOK, Tick PROVE TypeOK'
<1>1. clock' \in 0..Horizon /\ clock' = clock + 1
  <2>1. clock < Horizon /\ clock' = clock + 1 BY DEF Tick
  <2> QED BY <2>1, HorizonTyped, ClockTyped
<1>2. UNCHANGED <<emailVars, formVars>> BY DEF Tick
<1>3. clock \in Nat /\ HourOf(clock) <= HourOf(clock') /\ HourOf(clock) \in Int /\ HourOf(clock') \in Int
  BY <1>1, ClockTyped, HoursGrow
<1>4. plans' \subseteq 0..clock'
  <2>1. plans \subseteq 0..clock /\ plans' = plans BY <1>2 DEF TypeOK, emailVars
  <2> QED BY <1>1, <1>3, <2>1
<1>5. queue' \subseteq Task /\ \A task \in queue' : HourOf(task.eta) <= HourOf(clock')
  <2>1. ASSUME NEW task \in queue PROVE HourOf(task.eta) <= HourOf(clock')
    <3>1. task \in Task /\ HourOf(task.eta) <= HourOf(clock) BY DEF TypeOK
    <3>2. task.eta \in Int BY <3>1 DEF Task
    <3>3. HourOf(task.eta) \in Int BY <3>2, HourOfTick
    <3> QED BY <1>3, <3>1, <3>3
  <2> QED BY <1>2, <2>1 DEF TypeOK, emailVars
<1>6. beaten' \in -1..HourOf(clock')
  <2>1. beaten \in -1..HourOf(clock) /\ beaten' = beaten BY <1>2 DEF TypeOK, emailVars
  <2> QED BY <1>3, <2>1
<1>7. changed' \in [Schedules -> -1..clock']
  <2>1. changed \in [Schedules -> -1..clock] /\ changed' = changed BY <1>2 DEF TypeOK, formVars
  <2>2. -1..clock \subseteq -1..clock' BY <1>1, <1>3
  <2> QED BY <2>1, <2>2
<1> QED BY <1>1, <1>2, <1>4, <1>5, <1>6, <1>7 DEF TypeOK, emailVars, formVars

\* The beat sends the task that plans an hour.
LEMMA BeatTyped == ASSUME TypeOK, BeatFires PROVE TypeOK'
<1>1. HourOf(clock) \in Nat /\ clock \in Nat BY ClockTyped
<1>2. beaten' \in -1..HourOf(clock) BY <1>1 DEF BeatFires
<1>3. plans' \subseteq 0..clock
  <2>1. plans \subseteq 0..clock /\ plans' = plans \cup {clock} BY DEF BeatFires, TypeOK
  <2> QED BY <1>1, <2>1
<1> QED BY <1>2, <1>3 DEF TypeOK, BeatFires, formVars

\* schedule_hourly sends the reports of an hour.
LEMMA PlanTyped == ASSUME TypeOK, NEW sent \in plans, ScheduleHourly(sent) PROVE TypeOK'
<1> DEFINE new == UNION { {Report(s, eta) : eta \in NextSchedules(rows[s].crontab, WindowStart, WindowStop)} :
                          s \in {x \in Schedules : rows[x].active} }
<1>1. /\ queue' = queue \cup new /\ plans' \subseteq plans
      /\ UNCHANGED <<clock, beaten, started, formVars>>
  BY DEF ScheduleHourly
<1>2. \A task \in new : task \in Task /\ HourOf(task.eta) <= HourOf(clock)
  <2>1. ASSUME NEW s \in Schedules,
               NEW eta \in NextSchedules(rows[s].crontab, WindowStart, WindowStop)
        PROVE  Report(s, eta) \in Task /\ HourOf(Report(s, eta).eta) <= HourOf(clock)
    <3>1. HourOf(clock) \in Int BY ClockTyped
    <3>2. Report(s, eta) \in Task /\ HourOf(eta) = HourOf(clock) /\ Report(s, eta).eta = eta
      BY ReportOfHour
    <3> QED BY <3>1, <3>2
  <2> QED BY <2>1
<1> HIDE DEF new
<1> QED BY <1>1, <1>2 DEF TypeOK, formVars

\* A worker sends a report, or ignores it.
LEMMA SendTyped ==
  ASSUME TypeOK, NEW task \in queue, IgnoreInactive(task) \/ SendReport(task)
  PROVE  TypeOK'
<1>1. /\ queue' = queue \ {task}
      /\ UNCHANGED <<clock, plans, beaten, formVars>>
  BY DEF IgnoreInactive, SendReport
<1>2. started' \in [Schedules -> SUBSET Nat]
  <2>1. task.schedule \in Schedules /\ task.eta \in Nat /\ started \in [Schedules -> SUBSET Nat]
    BY DEF TypeOK, Task
  <2> QED BY <2>1 DEF IgnoreInactive, SendReport
<1> QED BY <1>1, <1>2 DEF TypeOK, formVars

\* The rows and the time of their last change keep their types.
LEMMA WriteTyped ==
  ASSUME TypeOK, NEW s \in Schedules, NEW row, Write(s, row),
         row \in Row \/ row = Missing("deleted")
  PROVE  /\ rows' \in [Schedules -> Row \cup {Missing("not yet"), Missing("deleted")}]
         /\ changed' \in [Schedules -> -1..clock]
<1>1. clock \in -1..clock BY ClockTyped
<1> QED BY <1>1 DEF TypeOK, Write

\* A form that is being processed.
LEMMA FormOpen ==
  ASSUME TypeOK, NEW f \in Forms, forms[f].at = "processed"
  PROVE  forms[f] \in Form
<1>1. forms[f] \in {Idle} \cup Form BY DEF TypeOK, Form
<1>2. Idle.at = "idle" BY DEF Idle
<1> QED BY <1>1, <1>2

\* The steps of a form.
LEMMA FormTyped ==
  ASSUME TypeOK, FormsSaved, NEW f \in Forms,
         ProcessForm(f) \/ RejectForm(f) \/ AddRow(f) \/ UpdateRow(f) \/ UpdateFails(f)
           \/ PostUpdate(f)
  PROVE  TypeOK'
<1>1. forms \in [Forms -> {Idle} \cup Form] BY DEF TypeOK, Form
<1>2. CASE ProcessForm(f)
  <2>1. PICK s \in {Unsaved} \cup {x \in Schedules : rows[x].there = "yes"},
             row \in Row, mail \in TestMail :
          /\ extra' = mail
          /\ forms' = [forms EXCEPT ![f] =
                         [at |-> "processed", schedule |-> s, row |-> row, mail |-> mail]]
    BY <1>2 DEF ProcessForm
  <2>2. [at |-> "processed", schedule |-> s, row |-> row, mail |-> mail] \in Form BY DEF Form
  <2>3. forms' \in [Forms -> {Idle} \cup Form] BY <1>1, <2>1, <2>2
  <2>4. edits' \in 0..MaxEdits
    <3>1. edits \in 0..MaxEdits /\ edits < MaxEdits /\ edits' = edits + 1
      BY <1>2 DEF TypeOK, ProcessForm
    <3> QED BY <3>1, EmailAssumption
  <2> QED BY <1>2, <2>1, <2>3, <2>4 DEF TypeOK, ProcessForm, emailVars, Form
<1>3. CASE RejectForm(f) \/ UpdateFails(f)
  <2>1. forms' = [forms EXCEPT ![f] = Idle] BY <1>3 DEF RejectForm, UpdateFails
  <2>2. forms' \in [Forms -> {Idle} \cup Form] BY <1>1, <2>1
  <2> QED BY <1>3, <2>2 DEF TypeOK, RejectForm, UpdateFails, emailVars, Form
<1>4. CASE AddRow(f)
  <2>1. PICK s \in Schedules :
          /\ Write(s, forms[f].row)
          /\ forms' = [forms EXCEPT ![f].at = "updated", ![f].schedule = s]
    BY <1>4 DEF AddRow
  <2>2. forms[f] \in Form
    <3>1. forms[f].at = "processed" /\ Idle.at = "idle" BY <1>4 DEF AddRow, Idle
    <3> QED BY <1>1, <3>1
  <2>3. rows' \in [Schedules -> Row \cup {Missing("not yet"), Missing("deleted")}]
        /\ changed' \in [Schedules -> -1..clock]
    BY <2>1, <2>2, WriteTyped DEF Form
  <2> DEFINE next == [[forms[f] EXCEPT !.at = "updated"] EXCEPT !.schedule = s]
  <2>4. next \in Form BY <2>2 DEF Form
  <2>5. \A g \in Forms : (forms')[g] = IF g = f THEN next ELSE forms[g] BY <1>1, <2>1
  <2>6. forms' = [g \in Forms |-> (forms')[g]] BY <1>1, <2>1
  <2>7. forms' \in [Forms -> {Idle} \cup Form]
    <3> HIDE DEF next
    <3> QED BY <1>1, <2>4, <2>5, <2>6
  <2> QED BY <1>4, <2>3, <2>7 DEF TypeOK, AddRow, emailVars, Form
<1>5. CASE UpdateRow(f)
  <2>1. forms[f] \in Form /\ forms[f].schedule \in Schedules
    <3>1. forms[f] # Idle /\ forms[f].schedule # Unsaved BY <1>5 DEF UpdateRow, Idle
    <3>2. forms[f] \in Form BY <1>1, <3>1
    <3> QED BY <3>1, <3>2 DEF Form
  <2>2. rows' \in [Schedules -> Row \cup {Missing("not yet"), Missing("deleted")}]
        /\ changed' \in [Schedules -> -1..clock]
    BY <1>5, <2>1, WriteTyped DEF UpdateRow, Form
  <2>3. [forms[f] EXCEPT !.at = "updated"] \in Form BY <2>1 DEF Form
  <2>4. forms' \in [Forms -> {Idle} \cup Form] BY <1>1, <1>5, <2>3 DEF UpdateRow
  <2> QED BY <1>5, <2>2, <2>4 DEF TypeOK, UpdateRow, emailVars, Form
<1>6. CASE PostUpdate(f)
  <2>1. forms' \in [Forms -> {Idle} \cup Form] BY <1>1, <1>6 DEF PostUpdate
  <2>2. queue' \subseteq Task /\ \A task \in queue' : HourOf(task.eta) <= HourOf(clock)
    <3> DEFINE test == Test(forms[f].schedule, extra.to)
    <3>1. queue' \subseteq queue \cup {test} BY <1>6 DEF PostUpdate
    <3>2. test = [schedule |-> forms[f].schedule, eta |-> clock, ready |-> clock,
                  kind |-> "test", to |-> extra.to]
      BY DEF Test
    <3>3. forms[f].schedule \in Schedules BY <1>6 DEF PostUpdate, FormsSaved
    <3>4. clock \in Nat /\ HourOf(clock) \in Int /\ extra.to \in Recipients
      <4>1. extra \in TestMail BY DEF TypeOK
      <4> QED BY <4>1, ClockTyped DEF TestMail
    <3> HIDE DEF test
    <3>5. test \in Task /\ HourOf(test.eta) <= HourOf(clock) BY <3>2, <3>3, <3>4 DEF Task
    <3> QED BY <3>1, <3>5 DEF TypeOK
  <2> QED BY <1>6, <2>1, <2>2 DEF TypeOK, PostUpdate, Form
<1> QED BY <1>2, <1>3, <1>4, <1>5, <1>6

\* A schedule is deleted.
LEMMA DeleteTyped ==
  ASSUME TypeOK, NEW s \in Schedules, DeleteRow(s)
  PROVE  TypeOK'
<1>1. rows' \in [Schedules -> Row \cup {Missing("not yet"), Missing("deleted")}]
      /\ changed' \in [Schedules -> -1..clock]
  BY WriteTyped DEF DeleteRow
<1>2. edits' \in 0..MaxEdits
  <2>1. edits \in 0..MaxEdits /\ edits < MaxEdits /\ edits' = edits + 1 BY DEF TypeOK, DeleteRow
  <2> QED BY <2>1, EmailAssumption
<1> QED BY <1>1, <1>2 DEF TypeOK, DeleteRow, emailVars

\* A form that updates a row was opened on one that is there.
LEMMA FormsStaySaved == ASSUME TypeOK, FormsSaved, [Next]_vars PROVE FormsSaved'
<1>1. CASE forms' = forms BY <1>1 DEF FormsSaved
<1>2. ASSUME NEW f \in Forms, ProcessForm(f) \/ RejectForm(f) \/ UpdateFails(f) \/ PostUpdate(f)
      PROVE  FormsSaved'
  <2>1. \E next : forms' = [forms EXCEPT ![f] = next] /\ next.at # "updated"
    BY <1>2 DEF ProcessForm, RejectForm, UpdateFails, PostUpdate, Idle
  <2> QED BY <2>1 DEF FormsSaved, TypeOK
<1>3. ASSUME NEW f \in Forms, AddRow(f) PROVE FormsSaved'
  <2>1. PICK s \in Schedules : forms' = [forms EXCEPT ![f].at = "updated", ![f].schedule = s]
    BY <1>3 DEF AddRow
  <2>2. forms[f] \in Form
    <3>1. forms[f].at = "processed" BY <1>3 DEF AddRow
    <3> QED BY <3>1, FormOpen
  <2>3. (forms')[f].schedule = s BY <2>1, <2>2 DEF TypeOK, Form
  <2>4. \A g \in Forms : g # f => (forms')[g] = forms[g] BY <2>1 DEF TypeOK
  <2> QED BY <2>3, <2>4 DEF FormsSaved
<1>4. ASSUME NEW f \in Forms, UpdateRow(f) PROVE FormsSaved'
  <2>1. forms[f] \in Form /\ forms[f].schedule # Unsaved
    <3>1. forms[f].at = "processed" /\ forms[f].schedule # Unsaved BY <1>4 DEF UpdateRow
    <3> QED BY <3>1, FormOpen
  <2>2. forms' = [forms EXCEPT ![f].at = "updated"] BY <1>4 DEF UpdateRow
  <2>3. (forms')[f].schedule = forms[f].schedule BY <2>1, <2>2 DEF TypeOK, Form
  <2>4. \A g \in Forms : g # f => (forms')[g] = forms[g] BY <2>2 DEF TypeOK
  <2> QED BY <2>1, <2>3, <2>4 DEF FormsSaved, Form
<1> QED BY <1>1, <1>2, <1>3, <1>4 DEF Next, Tick, BeatFires, ScheduleHourly, IgnoreInactive,
           SendReport, DeleteRow, formVars, vars

\* Every step keeps the types.
LEMMA TypeKept == TypeOK /\ FormsSaved /\ [Next]_vars => TypeOK' /\ FormsSaved'
<1> SUFFICES ASSUME TypeOK, FormsSaved, [Next]_vars PROVE TypeOK'
  BY FormsStaySaved
<1>1. CASE UNCHANGED vars BY <1>1 DEF TypeOK, vars, emailVars, formVars
<1> QED BY <1>1, TickTyped, BeatTyped, PlanTyped, SendTyped, FormTyped, DeleteTyped DEF Next

\* Every behaviour keeps the variables of EmailSchedules within their ranges, however
\* late the queue is.
THEOREM TypeCorrect == Spec => []TypeOK
<1>1. Init => TypeOK /\ FormsSaved BY InitTyped
<1>2. TypeOK /\ FormsSaved /\ [Next]_vars => TypeOK' /\ FormsSaved' BY TypeKept
<1> QED BY <1>1, <1>2, PTL DEF Spec

-----------------------------------------------------------------------------
(* Time, beat and the plan of an hour *)

\* No hour is planned before it begins.
LEMMA PlannedBefore ==
  ASSUME TypeOK, NEW hour \in Int, Planned(hour)
  PROVE  hour <= HourOf(clock)
BY ClockTyped DEF Planned

\* What has been sent was planned.
LEMMA StartedBefore ==
  ASSUME IInv, NEW s \in Schedules, NEW t \in started[s]
  PROVE  t \in Nat /\ HourOf(t) \in Int /\ Planned(HourOf(t))
<1>1. started \in [Schedules -> SUBSET Nat] BY DEF IInv, TypeOK
<1>2. t \in Nat BY <1>1
<1> QED BY <1>2, HourOfTick DEF IInv, StartedKept

\* What the invariant says of a report in the queue.
LEMMA ReportTyped ==
  ASSUME IInv, NEW task \in Reports
  PROVE  /\ task \in queue /\ task.kind = "report" /\ task.schedule \in Schedules
         /\ task.eta \in Nat /\ task.ready \in Nat /\ HourOf(task.eta) \in Int
         /\ Planned(HourOf(task.eta)) /\ clock <= task.ready + Late
         /\ task.eta \notin started[task.schedule]
<1>1. task \in Task BY DEF IInv, TypeOK, Reports
<1>2. task.eta \in Nat /\ task.ready \in Nat /\ task.schedule \in Schedules BY <1>1 DEF Task
<1> QED BY <1>2, HourOfTick DEF IInv, ReportsKept, Reports

\* No tick lets the beat miss its minute.
LEMMA TickBeat ==
  ASSUME TypeOK, BeatKept, Punctual, Tick
  PROVE  BeatKept' /\ \A hour \in Int : Planned(hour)' <=> Planned(hour)
<1> DEFINE H == HourOf(clock)
           G == HourOf(clock')
           m == clock % HourLen
           n == clock' % HourLen
<1>1. clock \in Nat /\ H \in Nat /\ clock' = clock + 1 /\ beaten' = beaten /\ plans' = plans
  BY ClockTyped DEF Tick, emailVars
<1>2. m \in 0..(HourLen - 1) /\ clock = Top(H) + m BY <1>1, HourOfTick
<1>3. n \in 0..(HourLen - 1) /\ clock' = Top(G) + n /\ G \in Int BY <1>1, HourOfTick
<1>4. Top(H) \in Int /\ Top(G) \in Int /\ Top(H + 1) = Top(H) + HourLen
  BY <1>1, <1>3, TopOfHour
<1>5. \A sent \in plans : /\ beaten = H /\ sent = Top(H) + BeatMinute
                          /\ clock < sent + Late
  BY DEF BeatKept, Tick
<1>6. /\ beaten \in {H - 1, H} /\ (m < BeatMinute => beaten = H - 1)
      /\ (m >= BeatMinute => beaten = H)
  <2>1. m = BeatMinute => beaten = H BY DEF Tick
  <2>2. beaten \in {H - 1, H} /\ (m < BeatMinute => beaten = H - 1)
        /\ (m > BeatMinute => beaten = H)
    BY DEF BeatKept
  <2> HIDE DEF m, H
  <2> QED BY <2>1, <2>2, <1>2, EmailAssumption
<1>7. HourLen \in Nat \ {0} /\ BeatMinute \in 0..(HourLen - 1) /\ Late \in Nat \ {0}
      /\ BeatMinute + Late < HourLen
  BY EmailAssumption DEF Punctual
<1>8. CASE m < HourLen - 1
  <2>1. G = H
    <3>1. Top(H) <= clock' /\ clock' < Top(H) + HourLen BY <1>1, <1>2, <1>4, <1>7, <1>8
    <3> QED BY <1>1, <3>1, InHour
  <2>2. n = m + 1
    <3> HIDE DEF m, n, H, G
    <3> QED BY <1>1, <1>2, <1>3, <1>4, <2>1
  <2>3. \A sent \in plans : beaten = G /\ sent = Top(beaten) + BeatMinute /\ clock' <= sent + Late
    <3>1. Top(H) + BeatMinute \in Int BY <1>4, <1>7
    <3> HIDE DEF H, G
    <3> QED BY <1>1, <1>5, <1>7, <2>1, <3>1
  <2>4. beaten \in {G - 1, G} /\ (n < BeatMinute => beaten = G - 1) /\ (n > BeatMinute => beaten = G)
    <3> HIDE DEF m, n, H, G
    <3> QED BY <1>1, <1>2, <1>6, <1>7, <2>1, <2>2
  <2>5. BeatKept' BY <1>1, <2>3, <2>4 DEF BeatKept
  <2>6. \A hour \in Int : Planned(hour)' <=> Planned(hour) BY <1>1, <2>1 DEF Planned
  <2> QED BY <2>5, <2>6
<1>9. CASE m = HourLen - 1
  <2>1. G = H + 1
    <3>1. Top(H + 1) <= clock' /\ clock' < Top(H + 1) + HourLen BY <1>1, <1>2, <1>4, <1>7, <1>9
    <3> QED BY <1>1, <3>1, InHour
  <2>2. n = 0
    <3> HIDE DEF m, n, H, G
    <3> QED BY <1>1, <1>2, <1>3, <1>4, <1>7, <1>9, <2>1
  <2>3. plans = {} /\ beaten = H
    <3>1. ASSUME NEW sent \in plans PROVE FALSE
      <4>1. sent = Top(H) + BeatMinute /\ clock < sent + Late BY <1>5
      <4> HIDE DEF m, H
      <4> QED BY <1>2, <1>4, <1>7, <1>9, <4>1
    <3>2. m >= BeatMinute
      <4> HIDE DEF m
      <4> QED BY <1>7, <1>9
    <3> QED BY <1>6, <3>1, <3>2
  <2>4. BeatKept'
    <3>1. beaten = G - 1 /\ ~ (n > BeatMinute)
      <4> HIDE DEF n, H, G
      <4> QED BY <1>1, <1>7, <2>1, <2>2, <2>3
    <3> QED BY <1>1, <2>3, <3>1 DEF BeatKept
  <2>5. \A hour \in Int : Planned(hour)' <=> Planned(hour)
    <3> HIDE DEF H, G
    <3>1. beaten # G BY <1>1, <2>1, <2>3
    <3>2. ASSUME NEW hour \in Int PROVE (hour < G \/ (hour = G /\ beaten = hour /\ plans = {}))
                                   <=> (hour < H \/ (hour = H /\ beaten = hour /\ plans = {}))
      BY <1>1, <2>1, <2>3, <3>1
    <3> QED BY <1>1, <3>2 DEF Planned, H, G
  <2> QED BY <2>4, <2>5
<1>10. m < HourLen - 1 \/ m = HourLen - 1
  <2> HIDE DEF m
  <2> QED BY <1>2, <1>7
<1> QED BY <1>8, <1>9, <1>10

\* The clock goes on ...
LEMMA TickKeeps == ASSUME IInv, Punctual, Tick PROVE IInv'
<1>1. TypeOK' /\ FormsSaved' /\ BeatKept' BY TypeKept, TickBeat DEF IInv, Next
<1>2. \A hour \in Int : Planned(hour)' <=> Planned(hour) BY TickBeat DEF IInv
<1>3. UNCHANGED <<queue, started, rows, changed>> /\ clock' = clock + 1
  BY DEF Tick, emailVars, formVars
<1>4. Reports' = Reports /\ \A s \in Schedules, hour \in Int : /\ Told(s, hour)' = Told(s, hour)
                                                            /\ Asked(s, hour)' = Asked(s, hour)
  BY <1>3 DEF Reports, Told, Asked
<1>5. ReportsKept'
  <2>1. ASSUME NEW task \in Reports
        PROVE  Planned(HourOf(task.eta))' /\ clock' <= task.ready + Late
    <3>1. task \in Task /\ Planned(HourOf(task.eta)) /\ clock < task.ready + Late
      BY DEF IInv, TypeOK, ReportsKept, Reports, Tick
    <3>2. task.eta \in Int /\ task.ready \in Int /\ HourOf(task.eta) \in Int
      BY <3>1, HourOfTick DEF Task
    <3> QED BY <1>2, <1>3, <3>1, <3>2, ClockTyped, EmailAssumption DEF IInv
  <2> QED BY <1>3, <1>4, <2>1 DEF IInv, ReportsKept
<1>6. StartedKept'
  <2>1. ASSUME NEW s \in Schedules, NEW t \in started[s] PROVE Planned(HourOf(t))'
    <3>1. Planned(HourOf(t)) /\ HourOf(t) \in Int BY StartedBefore
    <3> QED BY <1>2, <3>1
  <2> QED BY <1>3, <2>1 DEF StartedKept
<1>7. Complete'
  <2>1. SUFFICES ASSUME NEW s \in Schedules, NEW hour \in 0..HourOf(clock'),
                        Planned(hour)', changed[s] < Top(hour)
                 PROVE  Told(s, hour)' = Asked(s, hour)'
    BY <1>3 DEF Complete
  <2>2. hour \in Int /\ hour >= 0 OBVIOUS
  <2>3. Planned(hour) /\ hour <= HourOf(clock) BY <1>2, <2>1, <2>2, PlannedBefore DEF IInv
  <2>4. hour \in 0..HourOf(clock) BY <2>2, <2>3, ClockTyped DEF IInv
  <2>5. Told(s, hour) = Asked(s, hour) BY <2>1, <2>3, <2>4 DEF IInv, Complete
  <2> QED BY <1>4, <2>2, <2>5
<1> QED BY <1>1, <1>5, <1>6, <1>7 DEF IInv

\* ... the beat fires ...
LEMMA BeatKeeps == ASSUME IInv, Punctual, BeatFires PROVE IInv'
<1> DEFINE H == HourOf(clock)
<1>1. TypeOK' /\ FormsSaved' BY TypeKept DEF IInv, Next
<1>2. /\ clock % HourLen = BeatMinute /\ beaten < H /\ beaten' = H /\ plans' = plans \cup {clock}
      /\ UNCHANGED <<clock, queue, started, rows, changed>>
  BY DEF BeatFires, formVars
<1>3. clock \in Nat /\ H \in Nat /\ clock = Top(H) + BeatMinute
  BY <1>2, ClockTyped, HourOfTick DEF IInv
<1>4. plans = {} /\ beaten \in Int
  <2>1. \A sent \in plans : beaten = H BY DEF IInv, BeatKept
  <2>2. beaten \in {H - 1, H} BY DEF IInv, BeatKept
  <2> HIDE DEF H
  <2> QED BY <1>2, <1>3, <2>1, <2>2
<1>5. \A hour \in Int : Planned(hour)' <=> Planned(hour)
  <2>1. \A hour \in Int : Planned(hour)' <=> hour < H BY <1>2, <1>3 DEF Planned
  <2>2. \A hour \in Int : Planned(hour) <=> hour < H BY <1>2, <1>3, <1>4 DEF Planned
  <2> QED BY <2>1, <2>2
<1>6. BeatKept'
  <2>1. plans' = {clock} /\ clock <= clock + Late BY <1>2, <1>3, <1>4, EmailAssumption
  <2> HIDE DEF H
  <2> QED BY <1>2, <1>3, <2>1, EmailAssumption DEF BeatKept, H
<1>7. Reports' = Reports /\ \A s \in Schedules, hour \in Int : /\ Told(s, hour)' = Told(s, hour)
                                                            /\ Asked(s, hour)' = Asked(s, hour)
  BY <1>2 DEF Reports, Told, Asked
<1>8. ReportsKept'
  <2>1. ASSUME NEW task \in Reports PROVE Planned(HourOf(task.eta))'
    <3>1. task \in Task /\ Planned(HourOf(task.eta)) BY DEF IInv, TypeOK, ReportsKept, Reports
    <3>2. task.eta \in Int /\ HourOf(task.eta) \in Int BY <3>1, HourOfTick DEF Task
    <3> QED BY <1>5, <3>1, <3>2
  <2> QED BY <1>2, <1>7, <2>1 DEF IInv, ReportsKept
<1>9. StartedKept'
  <2>1. ASSUME NEW s \in Schedules, NEW t \in started[s] PROVE Planned(HourOf(t))'
    <3>1. Planned(HourOf(t)) /\ HourOf(t) \in Int BY StartedBefore
    <3> QED BY <1>5, <3>1
  <2> QED BY <1>2, <2>1 DEF StartedKept
<1>10. Complete' BY <1>2, <1>5, <1>7 DEF IInv, Complete
<1> QED BY <1>1, <1>6, <1>8, <1>9, <1>10 DEF IInv

\* ... an hour is planned: each of its reports is asked for by the row of that time ...
LEMMA PlanKeeps == ASSUME IInv, NEW sent \in plans, ScheduleHourly(sent) PROVE IInv'
<1> DEFINE H == HourOf(clock)
           ReportsOf(s) ==
             {Report(s, eta) : eta \in NextSchedules(rows[s].crontab, WindowStart, WindowStop)}
           New == UNION {ReportsOf(s) : s \in {x \in Schedules : rows[x].active}}
<1>1. TypeOK' /\ FormsSaved' BY TypeKept DEF IInv, Next
<1>2. /\ plans' = plans \ {sent} /\ queue' = queue \cup New
      /\ UNCHANGED <<clock, beaten, started, rows, changed>>
  BY DEF ScheduleHourly, formVars
<1>3. clock \in Nat /\ H \in Nat BY ClockTyped DEF IInv
<1>4. beaten = H /\ plans' = {}
  <2>1. \A p \in plans : beaten = H /\ p = Top(beaten) + BeatMinute BY DEF IInv, BeatKept
  <2> QED BY <1>2, <2>1
<1>5. \A hour \in Int : /\ Planned(hour)' <=> Planned(hour) \/ hour = H
                        /\ Planned(hour) => hour < H
  BY <1>2, <1>3, <1>4 DEF Planned
<1>6. ASSUME NEW task \in New
      PROVE  /\ task.schedule \in Schedules /\ rows[task.schedule].active
             /\ task = Report(task.schedule, task.eta) /\ task.kind = "report"
             /\ HourOf(task.eta) = H /\ task.ready < Top(H) + HourLen /\ clock <= task.ready + Late
  <2>1. PICK s \in Schedules :
          rows[s].active /\ \E eta \in NextSchedules(rows[s].crontab, WindowStart, WindowStop) :
                              task = Report(s, eta)
    OBVIOUS
  <2>2. PICK eta \in NextSchedules(rows[s].crontab, WindowStart, WindowStop) : task = Report(s, eta)
    BY <2>1
  <2> DEFINE crontab == rows[s].crontab
  <2>3. /\ task.schedule = s /\ task.eta = eta /\ task.kind = "report" /\ task.ready >= clock
        /\ HourOf(eta) = H /\ task.ready < Top(H) + HourLen /\ task \in Task
    <3>1. eta \in NextSchedules(crontab, WindowStart, WindowStop) /\ TypeOK BY DEF IInv
    <3> HIDE DEF crontab
    <3> QED BY <2>2, <3>1, ReportOfHour
  <2>4. clock <= task.ready + Late
    <3>1. task.ready \in Nat BY <2>3 DEF Task
    <3> QED BY <1>3, <2>3, <3>1, EmailAssumption
  <2> QED BY <2>1, <2>2, <2>3, <2>4
<1>7. Reports' = Reports \cup New
  <2> HIDE DEF New
  <2> QED BY <1>2, <1>6 DEF Reports
<1>8. BeatKept'
  <2>1. clock' = clock /\ beaten' = beaten /\ plans' = {} BY <1>2, <1>4
  <2> QED BY <2>1 DEF IInv, BeatKept
<1>9. \A task \in New : task.eta \notin started[task.schedule]
  <2> HIDE DEF New
  <2>1. ASSUME NEW task \in New, task.eta \in started[task.schedule] PROVE FALSE
    <3>1. Planned(H) BY <1>6, <2>1, StartedBefore
    <3> QED BY <1>3, <1>5, <3>1
  <2> QED BY <2>1
<1>10. ReportsKept'
  <2> HIDE DEF New
  <2>1. ASSUME NEW task \in Reports'
        PROVE  /\ task.ready < Top(HourOf(task.eta)) + HourLen /\ clock <= task.ready + Late
               /\ Planned(HourOf(task.eta))' /\ task.eta \notin started[task.schedule]
    <3>1. CASE task \in New BY <1>3, <1>5, <1>6, <1>9, <3>1
    <3>2. CASE task \in Reports BY <1>5, <3>2, ReportTyped DEF IInv, ReportsKept
    <3> QED BY <1>7, <3>1, <3>2
  <2>2. ASSUME NEW one \in Reports', NEW two \in Reports',
               one.schedule = two.schedule, one.eta = two.eta
        PROVE  one = two
    <3>1. \A task \in Reports : HourOf(task.eta) # H BY <1>3, <1>5, ReportTyped
    <3>2. CASE one \in New /\ two \in New BY <1>6, <2>2, <3>2
    <3>3. CASE one \in Reports /\ two \in Reports BY <2>2, <3>3 DEF IInv, ReportsKept
    <3> QED BY <1>6, <1>7, <2>2, <3>1, <3>2, <3>3
  <2> QED BY <1>2, <2>1, <2>2 DEF ReportsKept
<1>11. StartedKept'
  <2>1. ASSUME NEW s \in Schedules, NEW t \in started[s] PROVE Planned(HourOf(t))'
    BY <1>5, StartedBefore
  <2> QED BY <1>2, <2>1 DEF StartedKept
<1>12. Complete'
  <2>1. SUFFICES ASSUME NEW s \in Schedules, NEW hour \in 0..H,
                        Planned(hour)', changed[s] < Top(hour)
                 PROVE  Told(s, hour)' = Asked(s, hour)
    BY <1>2 DEF Complete, Asked
  <2>2. CASE hour # H
    <3>1. Planned(hour) BY <1>3, <1>5, <2>1, <2>2
    <3>2. Told(s, hour) = Asked(s, hour) BY <2>1, <3>1 DEF IInv, Complete
    <3>3. Told(s, hour)' = Told(s, hour)
      <4> HIDE DEF New, H
      <4>1. \A task \in New : HourOf(task.eta) # hour BY <1>6, <2>2
      <4> QED BY <1>2, <1>7, <4>1 DEF Told
    <3> QED BY <3>2, <3>3
  <2>3. CASE hour = H
    <3>1. ~ Planned(H) BY <1>3, <1>5
    <3>2. Told(s, hour)' = {task.eta : task \in {x \in New : x.schedule = s}}
      <4>1. {t \in started[s] : HourOf(t) = H} = {} BY <3>1, StartedBefore
      <4>2. {x \in Reports : x.schedule = s /\ HourOf(x.eta) = H} = {} BY <3>1, ReportTyped
      <4>3. {x \in Reports \cup New : x.schedule = s /\ HourOf(x.eta) = H} = {x \in New : x.schedule = s}
        <5> HIDE DEF New, H
        <5> QED BY <1>6, <4>2
      <4> HIDE DEF New
      <4> QED BY <1>2, <1>7, <2>3, <4>1, <4>3 DEF Told
    <3>3. NextSchedules(rows[s].crontab, WindowStart, WindowStop) = Wanted(rows[s].crontab, H)
      <4> DEFINE crontab == rows[s].crontab
      <4> HIDE DEF crontab
      <4>1. NextSchedules(crontab, Top(HourOf(clock)), Top(HourOf(clock)) + HourLen)
              = Wanted(crontab, HourOf(clock))
        BY <1>3, PlansAsWanted
      <4> QED BY <4>1 DEF WindowStart, WindowStop, crontab
    <3>4. CASE ~ rows[s].active
      <4> HIDE DEF New
      <4>1. {x \in New : x.schedule = s} = {} BY <1>6, <3>4
      <4> QED BY <2>3, <3>2, <3>4, <4>1 DEF Asked
    <3>5. CASE rows[s].active
      <4>1. \A eta \in Wanted(rows[s].crontab, H) :
              Report(s, eta) \in New /\ Report(s, eta).schedule = s /\ Report(s, eta).eta = eta
        <5>1. \A eta : Report(s, eta).schedule = s /\ Report(s, eta).eta = eta BY DEF Report
        <5>2. \A eta \in Wanted(rows[s].crontab, H) : Report(s, eta) \in ReportsOf(s) BY <3>3
        <5>3. ReportsOf(s) \subseteq New
          <6> HIDE DEF ReportsOf
          <6> QED BY <3>5
        <5> QED BY <5>1, <5>2, <5>3
      <4>2. \A task \in New : task.schedule = s => task.eta \in Wanted(rows[s].crontab, H)
        <5>1. ASSUME NEW task \in New, task.schedule = s
              PROVE  task.eta \in NextSchedules(rows[s].crontab, WindowStart, WindowStop)
          <6>1. PICK x \in Schedules : task \in ReportsOf(x)
            <7> HIDE DEF ReportsOf
            <7> QED OBVIOUS
          <6>2. PICK eta \in NextSchedules(rows[x].crontab, WindowStart, WindowStop) :
                  task = Report(x, eta)
            BY <6>1
          <6>3. task.schedule = x /\ task.eta = eta BY <6>2 DEF Report
          <6> QED BY <5>1, <6>2, <6>3
        <5> QED BY <3>3, <5>1
      <4> HIDE DEF New, H
      <4>3. {task.eta : task \in {x \in New : x.schedule = s}} = Wanted(rows[s].crontab, H)
        BY <4>1, <4>2
      <4> QED BY <2>3, <3>2, <3>5, <4>3 DEF Asked
    <3> QED BY <3>4, <3>5
  <2> QED BY <2>2, <2>3
<1> QED BY <1>1, <1>8, <1>10, <1>11, <1>12 DEF IInv

-----------------------------------------------------------------------------
(* A task that starts *)

\* A step that leaves time, the plans and beat alone leaves every hour as planned
\* as it was.
LEMMA PlannedSame ==
  ASSUME UNCHANGED <<clock, plans, beaten>>
  PROVE  /\ \A hour : Planned(hour)' <=> Planned(hour)
         /\ BeatKept => BeatKept'
BY DEF Planned, BeatKept

\* ... a worker takes a report ...
LEMMA RunKeeps ==
  ASSUME IInv, NEW task \in queue, IgnoreInactive(task) \/ SendReport(task)
  PROVE  IInv'
<1>1. TypeOK' /\ FormsSaved' BY TypeKept DEF IInv, Next
<1>2. queue' = queue \ {task} /\ UNCHANGED <<clock, plans, beaten, rows, changed>>
  BY DEF IgnoreInactive, SendReport, formVars
<1>3. (\A hour : Planned(hour)' <=> Planned(hour)) /\ BeatKept' BY <1>2, PlannedSame DEF IInv
<1>4. started \in [Schedules -> SUBSET Nat] BY DEF IInv, TypeOK
<1>5. Reports' \subseteq Reports BY <1>2 DEF Reports
<1>6. CASE task.kind # "report" \/ ~ rows[task.schedule].active
  <2>1. started' = started BY <1>6 DEF IgnoreInactive, SendReport
  <2>2. ReportsKept'
    <3>1. \A one \in Reports : Planned(HourOf(one.eta))' BY <1>3, ReportTyped
    <3> QED BY <1>2, <1>5, <2>1, <3>1 DEF IInv, ReportsKept
  <2>3. StartedKept' BY <1>3, <2>1 DEF IInv, StartedKept
  <2>4. Complete'
    <3>1. SUFFICES ASSUME NEW s \in Schedules, NEW hour \in 0..HourOf(clock),
                          Planned(hour), changed[s] < Top(hour)
                   PROVE  Told(s, hour)' = Asked(s, hour)
      BY <1>2, <1>3 DEF Complete, Asked
    <3>2. Told(s, hour) = Asked(s, hour) BY <3>1 DEF IInv, Complete
    <3>3. ~ (task \in Reports /\ task.schedule = s /\ HourOf(task.eta) = hour)
      <4>1. SUFFICES ASSUME task \in Reports, task.schedule = s, HourOf(task.eta) = hour
                     PROVE  FALSE
        OBVIOUS
      <4>2. task.eta \in Told(s, hour) BY <4>1 DEF Told
      <4>3. Asked(s, hour) = {} BY <1>6, <4>1 DEF Asked, Reports
      <4> QED BY <3>2, <4>2, <4>3
    <3>4. {x \in Reports' : x.schedule = s /\ HourOf(x.eta) = hour}
            = {x \in Reports : x.schedule = s /\ HourOf(x.eta) = hour}
      BY <1>2, <3>3 DEF Reports
    <3>5. Told(s, hour)' = Told(s, hour) BY <2>1, <3>4 DEF Told
    <3> QED BY <3>2, <3>5
  <2> QED BY <1>1, <1>3, <2>2, <2>3, <2>4 DEF IInv
<1>7. CASE task.kind = "report" /\ rows[task.schedule].active
  <2>1. started' = [started EXCEPT ![task.schedule] = @ \cup {task.eta}]
    BY <1>7 DEF IgnoreInactive, SendReport
  <2>2. task \in Reports BY <1>7 DEF Reports
  <2>3. /\ task.schedule \in Schedules /\ task.eta \in Nat /\ Planned(HourOf(task.eta))
        /\ HourOf(task.eta) \in Int
    BY <2>2, ReportTyped
  <2>4. \A s \in Schedules :
          (started')[s] = IF s = task.schedule THEN started[s] \cup {task.eta} ELSE started[s]
    BY <1>4, <2>1
  <2>5. Reports' = Reports \ {task} BY <1>2 DEF Reports
  <2>6. ReportsKept'
    <3>1. ASSUME NEW one \in Reports'
          PROVE  /\ one.ready < Top(HourOf(one.eta)) + HourLen /\ clock <= one.ready + Late
                 /\ Planned(HourOf(one.eta))' /\ one.eta \notin (started')[one.schedule]
      <4>1. one \in Reports /\ one # task BY <2>5
      <4>2. /\ Planned(HourOf(one.eta)) /\ one.eta \notin started[one.schedule]
            /\ one.schedule \in Schedules
        BY <4>1, ReportTyped
      <4>3. ~ (one.schedule = task.schedule /\ one.eta = task.eta)
        BY <2>2, <4>1 DEF IInv, ReportsKept
      <4> QED BY <1>3, <2>4, <4>1, <4>2, <4>3 DEF IInv, ReportsKept
    <3> QED BY <1>2, <1>5, <3>1 DEF IInv, ReportsKept
  <2>7. StartedKept' BY <1>3, <2>3, <2>4 DEF IInv, StartedKept
  <2>8. Complete'
    <3>1. SUFFICES ASSUME NEW s \in Schedules, NEW hour \in 0..HourOf(clock),
                          Planned(hour), changed[s] < Top(hour)
                   PROVE  Told(s, hour)' = Asked(s, hour)
      BY <1>2, <1>3 DEF Complete, Asked
    <3>2. Told(s, hour) = Asked(s, hour) BY <3>1 DEF IInv, Complete
    <3> DEFINE Queued(R) == {x.eta : x \in {y \in R : y.schedule = s /\ HourOf(y.eta) = hour}}
               Begun(S) == {t \in S : HourOf(t) = hour}
    <3>3. Told(s, hour) = Begun(started[s]) \cup Queued(Reports) BY DEF Told
    <3>4. Told(s, hour)' = Begun((started')[s]) \cup Queued(Reports') BY DEF Told
    <3>5. CASE s = task.schedule /\ HourOf(task.eta) = hour
      <4>1. Begun((started')[s]) = Begun(started[s]) \cup {task.eta} BY <2>4, <3>5
      <4>2. Queued(Reports) = Queued(Reports') \cup {task.eta} BY <2>2, <2>5, <3>5
      <4> HIDE DEF Queued, Begun
      <4> QED BY <3>2, <3>3, <3>4, <4>1, <4>2
    <3>6. CASE ~ (s = task.schedule /\ HourOf(task.eta) = hour)
      <4>1. Begun((started')[s]) = Begun(started[s]) BY <2>4, <3>6
      <4>2. Queued(Reports) = Queued(Reports') BY <2>5, <3>6
      <4> HIDE DEF Queued, Begun
      <4> QED BY <3>2, <3>3, <3>4, <4>1, <4>2
    <3> QED BY <3>5, <3>6
  <2> QED BY <1>1, <1>3, <2>6, <2>7, <2>8 DEF IInv
<1> QED BY <1>6, <1>7

-----------------------------------------------------------------------------
(* A schedule that is edited *)

\* ... a row changes: what was planned before counts as changed since.
LEMMA EditKeeps ==
  ASSUME IInv, TypeOK', FormsSaved', UNCHANGED <<clock, plans, beaten, started>>,
         Reports' = Reports,
         \A s \in Schedules : ((rows')[s] = rows[s] /\ (changed')[s] = changed[s])
                              \/ (changed')[s] = clock
  PROVE  IInv'
<1>1. (\A hour : Planned(hour)' <=> Planned(hour)) /\ BeatKept' BY PlannedSame DEF IInv
<1>2. ReportsKept'
  <2>1. \A one \in Reports : Planned(HourOf(one.eta))' BY <1>1, ReportTyped
  <2> QED BY <2>1 DEF IInv, ReportsKept
<1>3. StartedKept' BY <1>1 DEF IInv, StartedKept
<1>4. Complete'
  <2>1. SUFFICES ASSUME NEW s \in Schedules, NEW hour \in 0..HourOf(clock),
                        Planned(hour), (changed')[s] < Top(hour)
                 PROVE  Told(s, hour)' = Asked(s, hour)'
    BY <1>1 DEF Complete
  <2>2. (changed')[s] # clock
    <3>1. hour <= HourOf(clock) /\ hour \in Int /\ HourOf(clock) \in Int /\ clock \in Int
      BY ClockTyped DEF IInv
    <3>2. Top(hour) <= Top(HourOf(clock)) /\ Top(HourOf(clock)) <= clock
          /\ Top(hour) \in Int /\ Top(HourOf(clock)) \in Int
      <4>1. Top(HourOf(clock)) <= clock BY <3>1, HourOfTick
      <4>2. Top(hour) \in Int /\ Top(HourOf(clock)) \in Int BY <3>1, TopOfHour
      <4>3. hour < HourOf(clock) => Top(hour) + HourLen <= Top(HourOf(clock)) BY <3>1, TopOfHour
      <4>4. hour = HourOf(clock) \/ hour < HourOf(clock) BY <3>1
      <4> QED BY <4>1, <4>2, <4>3, <4>4, EmailAssumption
    <3> QED BY <2>1, <3>1, <3>2
  <2>3. (rows')[s] = rows[s] /\ (changed')[s] = changed[s] BY <2>2
  <2>4. Told(s, hour) = Asked(s, hour) BY <2>1, <2>3 DEF IInv, Complete
  <2> QED BY <2>3, <2>4 DEF Told, Asked
<1> QED BY <1>1, <1>2, <1>3, <1>4 DEF IInv

\* A write touches one row and notes the time.
LEMMA WriteEdits ==
  ASSUME TypeOK, NEW x \in Schedules, NEW row, Write(x, row)
  PROVE  \A s \in Schedules : ((rows')[s] = rows[s] /\ (changed')[s] = changed[s])
                              \/ (changed')[s] = clock
BY DEF TypeOK, Write

\* The steps of a form, which write a row or none ...
LEMMA FormKeeps ==
  ASSUME IInv, NEW f \in Forms,
         ProcessForm(f) \/ RejectForm(f) \/ AddRow(f) \/ UpdateRow(f) \/ UpdateFails(f)
           \/ PostUpdate(f)
  PROVE  IInv'
<1>1. TypeOK' /\ FormsSaved' BY TypeKept DEF IInv, Next
<1>2. UNCHANGED <<clock, plans, beaten, started>>
  BY DEF ProcessForm, RejectForm, AddRow, UpdateRow, UpdateFails, PostUpdate, emailVars
<1>3. CASE ProcessForm(f) \/ RejectForm(f) \/ UpdateFails(f)
  <2>1. UNCHANGED <<queue, rows, changed>>
    BY <1>3 DEF ProcessForm, RejectForm, UpdateFails, emailVars
  <2>2. Reports' = Reports BY <2>1 DEF Reports
  <2> QED BY <1>1, <1>2, <2>1, <2>2, EditKeeps
<1>4. CASE AddRow(f)
  <2>1. PICK s \in Schedules : Write(s, forms[f].row) BY <1>4 DEF AddRow
  <2>2. Reports' = Reports BY <1>4 DEF AddRow, emailVars, Reports
  <2> QED BY <1>1, <1>2, <2>1, <2>2, WriteEdits, EditKeeps DEF IInv
<1>5. CASE UpdateRow(f)
  <2>1. forms[f].schedule \in Schedules /\ Write(forms[f].schedule, forms[f].row)
    <3>1. forms[f] \in Form /\ forms[f].schedule # Unsaved
      BY <1>5, FormOpen DEF IInv, UpdateRow
    <3> QED BY <1>5, <3>1 DEF UpdateRow, Form
  <2>2. Reports' = Reports BY <1>5 DEF UpdateRow, emailVars, Reports
  <2> QED BY <1>1, <1>2, <2>1, <2>2, WriteEdits, EditKeeps DEF IInv
<1>6. CASE PostUpdate(f)
  <2>1. UNCHANGED <<rows, changed>> BY <1>6 DEF PostUpdate
  <2>2. Reports' = Reports
    <3> DEFINE test == Test(forms[f].schedule, extra.to)
    <3>1. test.kind # "report" BY DEF Test
    <3>2. queue' = queue \/ queue' = queue \cup {test} BY <1>6 DEF PostUpdate
    <3> HIDE DEF test
    <3> QED BY <3>1, <3>2 DEF Reports
  <2> QED BY <1>1, <1>2, <2>1, <2>2, EditKeeps
<1> QED BY <1>3, <1>4, <1>5, <1>6

\* ... and the deletion of a row.
LEMMA DeleteKeeps == ASSUME IInv, NEW s \in Schedules, DeleteRow(s) PROVE IInv'
<1>1. TypeOK' /\ FormsSaved' BY TypeKept DEF IInv, Next
<1>2. Write(s, Missing("deleted")) /\ UNCHANGED emailVars /\ clock' = clock BY DEF DeleteRow
<1>3. Reports' = Reports BY <1>2 DEF emailVars, Reports
<1> QED BY <1>1, <1>2, <1>3, WriteEdits, EditKeeps DEF IInv, emailVars

-----------------------------------------------------------------------------
(* The theorems *)

\* The invariant holds initially ...
LEMMA InitKeeps == Init => IInv
<1> SUFFICES ASSUME Init PROVE IInv OBVIOUS
<1>1. TypeOK /\ FormsSaved BY InitTyped
<1>2. clock = 0 /\ HourOf(clock) = 0 /\ beaten = -1 /\ plans = {} /\ queue = {}
  BY FirstHour DEF Init
<1>3. clock % HourLen = 0
  <2>1. clock = Top(0) + (clock % HourLen) /\ clock % HourLen \in 0..(HourLen - 1)
    BY <1>2, HourOfTick
  <2> QED BY <1>2, <2>1, FirstHour, EmailAssumption
<1>4. BeatKept
  <2>1. ~ (clock % HourLen > BeatMinute) BY <1>3, EmailAssumption
  <2>2. beaten = HourOf(clock) - 1 BY <1>2
  <2> QED BY <1>2, <2>1, <2>2 DEF BeatKept
<1>5. ReportsKept /\ StartedKept
  <2>1. Reports = {} BY <1>2 DEF Reports
  <2>2. \A s \in Schedules : started[s] = {} BY DEF Init
  <2> QED BY <2>1, <2>2 DEF ReportsKept, StartedKept
<1>6. Complete
  <2>1. \A hour \in 0..0 : ~ Planned(hour) BY <1>2 DEF Planned
  <2> QED BY <1>2, <2>1 DEF Complete
<1> QED BY <1>1, <1>4, <1>5, <1>6 DEF IInv

\* ... and every step keeps it.
LEMMA StepKeeps == ASSUME Punctual, IInv, [Next]_vars PROVE IInv'
<1>1. CASE UNCHANGED vars
  <2>1. UNCHANGED <<clock, plans, queue, beaten, started, rows, changed>> /\ TypeOK' /\ FormsSaved'
    BY <1>1, TypeKept DEF IInv, vars, emailVars, formVars
  <2>2. Reports' = Reports BY <2>1 DEF Reports
  <2> QED BY <2>1, <2>2, EditKeeps
<1> QED BY <1>1, TickKeeps, BeatKeeps, PlanKeeps, RunKeeps, FormKeeps, DeleteKeeps DEF Next

\* When a plan reaches a worker within its hour, the reports sent and waiting of every
\* hour are those that the rows asked for when it was planned.
THEOREM Invariance == ASSUME Punctual PROVE Spec => []IInv
<1>1. IInv /\ [Next]_vars => IInv' BY StepKeeps
<1> QED BY <1>1, InitKeeps, PTL DEF Spec

\* An hour whose reports have all had their time, and whose schedule did not change
\* since it began, has had the reports asked for, no more and no fewer.
LEMMA HourIsOver ==
  ASSUME IInv, NEW s \in Schedules, NEW hour \in Nat,
         clock >= Top(hour) + HourLen + Late, changed[s] < Top(hour)
  PROVE  {t \in started[s] : HourOf(t) = hour} = Asked(s, hour)
<1>1. clock \in Nat /\ HourOf(clock) \in Nat BY ClockTyped DEF IInv
<1>2. Top(hour) \in Int /\ Top(hour + 1) = Top(hour) + HourLen BY TopOfHour
<1>3. hour < HourOf(clock)
  <2>1. HourLen \in Nat /\ Late \in Nat BY EmailAssumption
  <2>2. Top(hour + 1) <= clock BY <1>1, <1>2, <2>1
  <2>3. HourOf(clock) \in Int /\ clock < Top(HourOf(clock)) + HourLen BY <1>1, HourOfTick
  <2>4. Top(HourOf(clock)) \in Int BY <2>3, TopOfHour
  <2>5. Top(hour + 1) < Top(HourOf(clock)) + HourLen BY <1>1, <1>2, <2>1, <2>2, <2>3, <2>4
  <2>6. hour + 1 <= HourOf(clock) BY <1>2, <2>3, <2>5, TopOfHour
  <2> QED BY <1>1, <2>6
<1>4. Told(s, hour) = Asked(s, hour)
  <2>1. Planned(hour) /\ hour \in 0..HourOf(clock) BY <1>1, <1>3 DEF Planned
  <2> QED BY <2>1 DEF IInv, Complete
<1>5. \A task \in Reports : HourOf(task.eta) # hour
  <2>1. ASSUME NEW task \in Reports, HourOf(task.eta) = hour PROVE FALSE
    <3>1. task.ready \in Nat /\ clock <= task.ready + Late BY ReportTyped
    <3>2. task.ready < Top(hour) + HourLen BY <2>1 DEF IInv, ReportsKept
    <3> QED BY <1>1, <1>2, <3>1, <3>2, EmailAssumption
  <2> QED BY <2>1
<1>6. {x \in Reports : x.schedule = s /\ HourOf(x.eta) = hour} = {} BY <1>5
<1> QED BY <1>4, <1>6 DEF Told

\* "Changes to schedules reflect in one hour": an hour that begins after the last
\* change of a row has the reports that the row asks for.
THEOREM ChangesReflect == ASSUME Punctual PROVE Spec => []ChangesReflectInOneHour
<1>1. IInv => ChangesReflectInOneHour
  <2>1. SUFFICES ASSUME IInv, NEW s \in Schedules, NEW hour \in 0..MaxHours,
                        clock >= Top(hour) + HourLen + Late, changed[s] < Top(hour)
                 PROVE  {t \in started[s] : HourOf(t) = hour}
                          = IF rows[s].active THEN Wanted(rows[s].crontab, hour) ELSE {}
    BY DEF ChangesReflectInOneHour
  <2>2. hour \in Nat OBVIOUS
  <2> QED BY <2>1, <2>2, HourIsOver DEF Asked
<1> QED BY <1>1, Invariance, PTL

\* No report is sent twice, though the reports of an hour are planned while those of
\* the last one still wait in the queue and rows change meanwhile.
THEOREM ReportedOnce == ASSUME Punctual PROVE Spec => NoReportTwice
<1> DEFINE Once == \A task \in queue :
                     task \notin queue' /\ task.kind = "report" /\ rows[task.schedule].active
                     => task.eta \notin started[task.schedule]
<1>1. IInv => Once
  <2>1. ASSUME IInv, NEW task \in queue, task.kind = "report"
        PROVE  task.eta \notin started[task.schedule]
    <3>1. task \in Reports BY <2>1 DEF Reports
    <3> QED BY <2>1, <3>1, ReportTyped
  <2> QED BY <2>1
<1>2. Spec => []IInv BY Invariance
<1>3. NoReportTwice <=> [][Once]_vars BY DEF NoReportTwice
<1> HIDE DEF Once
<1> QED BY <1>1, <1>2, <1>3, PTL

================================================================================
