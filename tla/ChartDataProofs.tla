---------------------------- MODULE ChartDataProofs ----------------------------
(***************************************************************************)
(* Theorems about ChartData, for any charts, queries shared between them,  *)
(* cache timeouts, requests at once and delays.                            *)
(*                                                                         *)
(* The runs' properties speak of answers only.  That an answer is right    *)
(* rests on what was in both caches when it was put together, and on what  *)
(* the request had collected by then: the invariant says of each frame, of *)
(* each response and of each request how old its parts can be, of which    *)
(* version of the chart they are, and how its label compares with them.    *)
(***************************************************************************)
EXTENDS ChartData, SequenceTheorems, FiniteSetTheorems, WellFoundedInduction, TLAPS

-----------------------------------------------------------------------------
(* Greatest elements, timeouts, suffixes *)

\* Max gives the greatest element of a finite set of integers.
LEMMA MaxOfFiniteSet ==
  ASSUME NEW T \in SUBSET Int, IsFiniteSet(T), T # {}
  PROVE  Max(T) \in T /\ \A t \in T : t <= Max(T)
<1> DEFINE Above(m) == {t \in T : m < t}
           C == {Above(m) : m \in T}
<1>1. C \subseteq FiniteSubsetsOf(T) /\ C # {}
  <2>1. \A m \in T : Above(m) \subseteq T OBVIOUS
  <2>2. \A m \in T : IsFiniteSet(Above(m))
    <3> HIDE DEF Above
    <3> QED BY <2>1, FS_Subset
  <2> HIDE DEF Above
  <2> QED BY <2>1, <2>2 DEF FiniteSubsetsOf
<1>2. PICK X \in C : \A Y \in C : ~ (<<Y, X>> \in StrictSubsetOrdering(T))
  <2> HIDE DEF C
  <2> QED BY <1>1, WFMin, FS_StrictSubsetOrderingWellFounded
<1>3. PICK m \in T : X = Above(m) OBVIOUS
<1>4. ASSUME NEW t \in T, m < t PROVE FALSE
  <2> HIDE DEF C
  <2>1. t \in Int /\ m \in Int /\ \A x \in T : x \in Int OBVIOUS
  <2>2. Above(t) \subseteq Above(m) /\ t \in Above(m) /\ t \notin Above(t)
    <3>1. \A x \in T : t < x => m < x BY <1>4, <2>1
    <3>2. ~ (t < t) BY <2>1
    <3> QED BY <1>4, <3>1, <3>2, Zenon
  <2>3. Above(t) \in C /\ Above(t) \in SUBSET T /\ Above(m) \in SUBSET T BY DEF C
  <2> HIDE DEF Above
  <2>4. <<Above(t), Above(m)>> \in StrictSubsetOrdering(T)
    BY <2>2, <2>3 DEF StrictSubsetOrdering
  <2> QED BY <1>2, <1>3, <2>3, <2>4
<1>5. \A t \in T : m >= t BY <1>4
<1> QED BY <1>5 DEF Max


\* The longest timeout of the charts that make a query is one of theirs.
LEMMA LongestBounds ==
  ASSUME NEW c \in Charts, NEW q \in Parts(c)
  PROVE  Longest(q) \in Nat \ {0} /\ Timeout[c] <= Longest(q)
<1> DEFINE D == {x \in Charts : q \in Parts(x)}
           T == {Timeout[x] : x \in D}
           f == [x \in D |-> Timeout[x]]
<1>1. IsFiniteSet(D) BY FS_Subset, ChartDataAssumption
<1>2. f \in Surjection(D, T)
  BY DEF Surjection
<1>3. IsFiniteSet(T)
  <2> HIDE DEF f, D, T
  <2> QED BY <1>1, <1>2, FS_Surjection
<1>4. T \subseteq Nat \ {0} /\ Timeout[c] \in T BY ChartDataAssumption
<1>5. Max(T) \in T /\ \A t \in T : t <= Max(T)
  <2> HIDE DEF T
  <2> QED BY <1>3, <1>4, MaxOfFiniteSet
<1> QED BY <1>4, <1>5 DEF Longest

\* A suffix, by the places of its elements.
LEMMA SuffixByIndex ==
  ASSUME NEW S, NEW s \in Seq(S), NEW t \in Seq(S)
  PROVE  IsSuffix(s, t) <=> /\ Len(s) <= Len(t)
                            /\ \A i \in 1..Len(s) : s[i] = t[Len(t) - Len(s) + i]
<1> DEFINE n == Len(s)
           m == Len(t)
           rs == Reverse(s)
           rt == Reverse(t)
<1>1. n \in Nat /\ m \in Nat
  BY LenProperties
<1>2. /\ Len(rs) = n /\ \A i \in 1..n : rs[i] = s[n - i + 1]
      /\ Len(rt) = m /\ \A i \in 1..m : rt[i] = t[m - i + 1]
      /\ rs \in Seq(S) /\ rt \in Seq(S)
  <2>1. \A i \in 1..n : s[n - i + 1] \in S BY <1>1, ElementOfSeq
  <2>2. \A i \in 1..m : t[m - i + 1] \in S BY <1>1, ElementOfSeq
  <2> QED BY <1>1, <2>1, <2>2 DEF Reverse
<1>3. IsSuffix(s, t) <=> n <= m /\ SubSeq(rs, 1, n) = SubSeq(rt, 1, n)
  BY <1>2 DEF IsSuffix, IsPrefix
<1> HIDE DEF rs, rt
<1>4. SUFFICES ASSUME n <= m
               PROVE  SubSeq(rs, 1, n) = SubSeq(rt, 1, n)
                        <=> \A i \in 1..n : s[i] = t[m - n + i]
  BY <1>3
<1>5. SubSeq(rs, 1, n) = SubSeq(rt, 1, n) <=> \A i \in 1..n : rs[i] = rt[i]
  <2>1. \A i \in 1..n : rs[i] \in S /\ rt[i] \in S
    BY <1>1, <1>2, <1>4, ElementOfSeq
  <2>2. /\ SubSeq(rs, 1, n) \in Seq(S) /\ SubSeq(rt, 1, n) \in Seq(S)
        /\ Len(SubSeq(rs, 1, n)) = n /\ Len(SubSeq(rt, 1, n)) = n
        /\ \A i \in 1..n : SubSeq(rs, 1, n)[i] = rs[i] /\ SubSeq(rt, 1, n)[i] = rt[i]
    BY <1>1, <1>2, <1>4, <2>1
  <2> QED BY <2>2, SeqEqual
<1>6. ASSUME \A i \in 1..n : rs[i] = rt[i], NEW i \in 1..n
      PROVE  s[i] = t[m - n + i]
  <2>1. n - i + 1 \in 1..n BY <1>1
  <2>2. rs[n - i + 1] = rt[n - i + 1] BY <1>6, <2>1
  <2>3. rs[n - i + 1] = s[i]
    <3>1. n - (n - i + 1) + 1 = i BY <1>1
    <3>2. rs[n - i + 1] = s[n - (n - i + 1) + 1] BY <1>2, <2>1
    <3> QED BY <3>1, <3>2
  <2>4. n - i + 1 \in 1..m BY <1>1, <1>4
  <2>5. rt[n - i + 1] = t[m - (n - i + 1) + 1] /\ m - (n - i + 1) + 1 = m - n + i
    BY <1>1, <1>2, <2>4
  <2> QED BY <2>2, <2>3, <2>5
<1>7. ASSUME \A i \in 1..n : s[i] = t[m - n + i], NEW i \in 1..n
      PROVE  rs[i] = rt[i]
  <2>1. n - i + 1 \in 1..n BY <1>1
  <2>2. s[n - i + 1] = t[m - n + (n - i + 1)] BY <1>7, <2>1
  <2>3. m - n + (n - i + 1) = m - i + 1 BY <1>1
  <2>4. i \in 1..m BY <1>1, <1>4
  <2> QED BY <1>2, <2>2, <2>3, <2>4
<1> QED BY <1>5, <1>6, <1>7

\* What is left of the queries of a chart when the first is taken off.
LEMMA SuffixTail ==
  ASSUME NEW S, NEW s \in Seq(S), NEW t \in Seq(S), IsSuffix(s, t), s # <<>>
  PROVE  /\ IsSuffix(Tail(s), t) /\ Head(s) \in ToSet(t) /\ Len(s) \in 1..Len(t)
         /\ Tail(s) \in Seq(S) /\ (Len(s) = 1 <=> Tail(s) = <<>>)
<1> DEFINE n == Len(s)
           m == Len(t)
           u == Tail(s)
<1>1. /\ n \in Nat \ {0} /\ m \in Nat
      /\ u \in Seq(S) /\ Len(u) = n - 1 /\ \A i \in 1..Len(u) : u[i] = s[i + 1]
      /\ DOMAIN t = 1..m /\ Head(s) = s[1]
  BY EmptySeq, LenProperties, HeadTailProperties
<1>2. n <= m /\ \A i \in 1..n : s[i] = t[m - n + i]
  BY SuffixByIndex
<1>3. \A i \in 1..Len(u) : u[i] = t[m - Len(u) + i]
  <2> TAKE i \in 1..Len(u)
  <2>1. i + 1 \in 1..n BY <1>1
  <2>2. s[i + 1] = t[m - n + (i + 1)] BY <1>2, <2>1
  <2> QED BY <1>1, <2>2
<1>4. IsSuffix(u, t)
  <2>1. u \in Seq(S) /\ Len(u) <= Len(t) BY <1>1, <1>2
  <2> HIDE DEF u, m
  <2>2. IsSuffix(u, t) <=> /\ Len(u) <= Len(t)
                           /\ \A i \in 1..Len(u) : u[i] = t[Len(t) - Len(u) + i]
    BY <2>1, SuffixByIndex
  <2> QED BY <1>3, <2>1, <2>2 DEF m
<1>5. Head(s) \in ToSet(t)
  <2>1. s[1] = t[m - n + 1] /\ m - n + 1 \in 1..m BY <1>1, <1>2
  <2> QED BY <1>1, <2>1 DEF ToSet
<1>6. n = 1 <=> u = <<>>
  <2>1. u # <<>> => Len(u) \in Nat \ {0} BY <1>1, EmptySeq
  <2>2. u = <<>> => Len(u) = 0 BY EmptySeq
  <2> HIDE DEF u
  <2> QED BY <1>1, <2>1, <2>2
<1> QED BY <1>1, <1>2, <1>4, <1>5, <1>6
-----------------------------------------------------------------------------
(* The inductive invariant *)

GotIn(answer) == {q \in DOMAIN answer.parts : answer.parts[q].read # None}

FrameKept(k, frame) ==
  \/ frame = NoFrame
  \/ /\ frame \in [dttm : Nat, part : Part, left : 1..Longest(k[1])]
     /\ frame.part.version = k[2]
     /\ frame.part.read \in Nat
     /\ frame.part.read <= frame.dttm
     /\ frame.part.read + frame.left <= Longest(k[1]) + MaxDelay

ResponseKept(c, response) ==
  /\ response \in [answer : AnswerOf(c), left : 0..ResponseTimeout]
  /\ response.left > 0 =>
       \A q \in GotIn(response.answer) :
         response.answer.parts[q].read + response.left
           < Longest(q) + 2 * MaxDelay + ResponseTimeout

Working == {"query", "loading", "storing"}

RequestOf(c) ==
  [at : Working \cup {"done", "answered"}, chart : {c}, method : {"GET", "POST"},
   started : 0..MaxDelay, version : Versions, defs : Versions \cup {None},
   rest : Seq(Parts(c)), from : Nat \cup {None}, answer : AnswerOf(c)]

RequestTyped(req) ==
  /\ req.chart \in Charts /\ req \in RequestOf(req.chart)
  /\ IsSuffix(req.rest, Queries[req.chart])
  /\ req.at \in Working => req.rest # <<>>

Reading(req) ==
  /\ req.at \in {"loading", "storing"} => req.from \in Nat
  /\ req.at = "storing" =>
       LET part == req.answer.parts[Head(req.rest)] IN
       part.read \in Nat /\ part.read <= req.from /\ part.read <= req.started
         /\ part.version = req.version /\ part.defs = req.defs

\* What was collected by the request itself, not taken from the cache of responses.
Collected(req) ==
  \A q \in GotIn(req.answer) :
    LET part == req.answer.parts[q] IN
    /\ part.version = req.version
    /\ ~req.answer.cached => part.read <= req.started
    /\ part.read < Longest(q) + MaxDelay + req.started

Labelled(req) ==
  req.answer.cached /\ Len(Queries[req.chart]) = 1 =>
    /\ req.at \in {"done", "answered"}
    /\ \A q \in GotIn(req.answer) : req.answer.parts[q].read <= req.answer.dttm

Cached(req) ==
  \A q \in GotIn(req.answer) :
    req.answer.parts[q].read < Longest(q) + 2 * MaxDelay + ResponseTimeout

RequestKept(req) ==
  \/ req = Idle
  \/ /\ RequestTyped(req)
     /\ Reading(req)
     /\ \/ Collected(req) /\ Labelled(req)
        \/ req.at = "answered" /\ req.method = "GET" /\ Cached(req)

IInv ==
  /\ changedOn \in Versions /\ definitions \in Versions /\ edited \in Nat \cup {None}
  /\ DOMAIN frames = Keys /\ \A k \in Keys : FrameKept(k, frames[k])
  /\ DOMAIN responses = Charts /\ \A c \in Charts : ResponseKept(c, responses[c])
  /\ DOMAIN reqs = Requests /\ \A r \in Requests : RequestKept(reqs[r])

-----------------------------------------------------------------------------
(* Steps of one request *)

\* The queries of a chart, from the assumption.
LEMMA QueriesAreSequences ==
  ASSUME NEW c \in Charts
  PROVE  /\ Queries[c] \in Seq(Parts(c)) /\ Queries[c] # <<>>
         /\ Len(Queries[c]) \in Nat \ {0}
         /\ IsSuffix(Queries[c], Queries[c]) /\ IsSuffix(<<>>, Queries[c])
         /\ <<>> \in Seq(Parts(c))
<1>1. Queries[c] \in Seq(Parts(c)) /\ Queries[c] # <<>>
  BY ChartDataAssumption DEF Parts
<1>2. Len(Queries[c]) \in Nat \ {0}
  BY <1>1, EmptySeq
<1>3. IsSuffix(Queries[c], Queries[c])
  <2>1. \A i \in 1..Len(Queries[c]) :
          Queries[c][i] = Queries[c][Len(Queries[c]) - Len(Queries[c]) + i]
    BY <1>2
  <2> QED BY <1>1, <1>2, <2>1, SuffixByIndex
<1>4. <<>> \in Seq(Parts(c)) /\ Len(<<>>) = 0
  BY EmptySeq
<1>5. IsSuffix(<<>>, Queries[c])
  <2> DEFINE none == <<>>
  <2>1. none \in Seq(Parts(c)) /\ Len(none) = 0 BY <1>4
  <2> HIDE DEF none
  <2>2. \A i \in 1..Len(none) : none[i] = Queries[c][Len(Queries[c]) - Len(none) + i]
    BY <2>1
  <2>3. Len(none) <= Len(Queries[c]) BY <1>2, <2>1
  <2>4. IsSuffix(none, Queries[c])
    <3> DEFINE t == Queries[c]
    <3>1. t \in Seq(Parts(c)) BY <1>1
    <3> HIDE DEF t
    <3>2. IsSuffix(none, t) <=> /\ Len(none) <= Len(t)
                                /\ \A i \in 1..Len(none) : none[i] = t[Len(t) - Len(none) + i]
      BY <2>1, <3>1, SuffixByIndex
    <3> QED BY <2>2, <2>3, <3>2 DEF t
  <2> QED BY <2>4 DEF none
<1> QED BY <1>1, <1>2, <1>3, <1>4, <1>5

\* While there is a next query, it is one of the chart's.
LEMMA NextQuery ==
  ASSUME NEW req, RequestTyped(req), req.at \in Working
  PROVE  /\ Head(req.rest) \in Parts(req.chart)
         /\ Len(req.rest) \in 1..Len(Queries[req.chart])
         /\ Tail(req.rest) \in Seq(Parts(req.chart))
         /\ IsSuffix(Tail(req.rest), Queries[req.chart])
         /\ Len(req.rest) = 1 <=> Tail(req.rest) = <<>>
<1>1. req.chart \in Charts BY DEF RequestTyped, RequestOf
<1>2. /\ req.rest \in Seq(Parts(req.chart)) /\ IsSuffix(req.rest, Queries[req.chart])
      /\ req.rest # <<>>
  BY DEF RequestTyped, RequestOf
<1>3. Queries[req.chart] \in Seq(Parts(req.chart))
  BY <1>1, QueriesAreSequences
<1> QED BY <1>2, <1>3, SuffixTail DEF Parts

\* The request goes on to its next query with part for the one it is at.
LEMMA GoesOn ==
  ASSUME NEW req, RequestTyped(req), req.at \in Working, NEW part \in Part
  PROVE  LET next == Goes(req, part) IN
         /\ RequestTyped(next)
         /\ next.at = IF Len(req.rest) = 1 THEN "done" ELSE "query"
         /\ next.chart = req.chart /\ next.started = req.started
         /\ next.version = req.version /\ next.method = req.method
         /\ next.defs \in {None, req.defs}
         /\ next.answer.parts = [req.answer.parts EXCEPT ![Head(req.rest)] = part]
         /\ next.answer.cached = req.answer.cached /\ next.answer.dttm = req.answer.dttm
<1> DEFINE next == Goes(req, part)
           answer == [req.answer EXCEPT !.parts = [@ EXCEPT ![Head(req.rest)] = part]]
<1>1. req \in RequestOf(req.chart) /\ req.chart \in Charts /\ req.answer \in AnswerOf(req.chart)
  BY DEF RequestTyped, RequestOf
<1>2. answer \in AnswerOf(req.chart)
  BY <1>1, NextQuery DEF AnswerOf
<1>3. next = [req EXCEPT !.answer = answer, !.rest = Tail(@), !.from = None,
                         !.at = IF Len(req.rest) = 1 THEN "done" ELSE "query",
                         !.defs = IF Len(req.rest) = 1 THEN None ELSE @]
  BY <1>1 DEF Goes, RequestOf, AnswerOf
<1>4. /\ next.at = IF Len(req.rest) = 1 THEN "done" ELSE "query"
      /\ next.chart = req.chart /\ next.started = req.started
      /\ next.version = req.version /\ next.method = req.method
      /\ next.defs \in {None, req.defs}
      /\ next.answer = answer /\ next.rest = Tail(req.rest) /\ next.from = None
  BY <1>1, <1>3 DEF RequestOf
<1>5. next \in RequestOf(req.chart)
  BY ZenonT(40), <1>1, <1>2, <1>3, NextQuery DEF RequestOf, Working
<1>6. RequestTyped(next)
  <2> HIDE DEF next, answer
  <2> QED BY <1>2, <1>4, <1>5, NextQuery DEF RequestTyped, Working
<1> QED BY <1>1, <1>4, <1>6 DEF AnswerOf
-----------------------------------------------------------------------------
(* What a request becomes *)

\* A new request.
LEMMA StartKept ==
  ASSUME NEW c \in Charts, NEW method \in {"GET", "POST"},
         changedOn \in Versions
  PROVE  RequestKept([at |-> "query", chart |-> c, method |-> method,
                      started |-> 0, version |-> changedOn, defs |-> None,
                      rest |-> Queries[c], from |-> None, answer |-> NoAnswer(c)])
<1> DEFINE req == [at |-> "query", chart |-> c, method |-> method,
                   started |-> 0, version |-> changedOn, defs |-> None,
                   rest |-> Queries[c], from |-> None, answer |-> NoAnswer(c)]
<1>1. NoAnswer(c) \in AnswerOf(c) /\ GotIn(NoAnswer(c)) = {}
  BY ChartDataAssumption DEF NoAnswer, AnswerOf, Part, NoPart, None, Versions, GotIn
<1>2. RequestTyped(req)
  BY <1>1, QueriesAreSequences, ChartDataAssumption DEF RequestTyped, RequestOf, Working
<1>3. Reading(req) /\ Collected(req) /\ Labelled(req)
  BY <1>1 DEF Reading, Collected, Labelled, NoAnswer
<1> QED BY <1>2, <1>3 DEF RequestKept

\* A request that is answered from the cache of responses.
LEMMA CachedAnswerKept ==
  ASSUME NEW c \in Charts, changedOn \in Versions, ResponseKept(c, responses[c]),
         responses[c].left > 0
  PROVE  RequestKept([at |-> "answered", chart |-> c, method |-> "GET",
                      started |-> 0, version |-> changedOn, defs |-> None, rest |-> <<>>,
                   from |-> None,
                      answer |-> responses[c].answer])
<1> DEFINE answer == responses[c].answer
           req == [at |-> "answered", chart |-> c, method |-> "GET",
                   started |-> 0, version |-> changedOn, defs |-> None, rest |-> <<>>,
                   from |-> None,
                   answer |-> answer]
<1>1. answer \in AnswerOf(c) /\ responses[c].left \in Nat
  BY ChartDataAssumption DEF ResponseKept
<1>2. \A q \in GotIn(answer) :
        answer.parts[q].read < Longest(q) + 2 * MaxDelay + ResponseTimeout
  <2> TAKE q \in GotIn(answer)
  <2>1. answer.parts[q].read + responses[c].left < Longest(q) + 2 * MaxDelay + ResponseTimeout
    BY DEF ResponseKept
  <2>2. q \in Parts(c) /\ answer.parts[q].read \in Int
    BY <1>1 DEF GotIn, AnswerOf, Part, None
  <2>3. Longest(q) \in Int /\ MaxDelay \in Int /\ ResponseTimeout \in Int
    BY <2>2, LongestBounds, ChartDataAssumption
  <2> QED BY <1>1, <2>1, <2>2, <2>3
<1>3. RequestTyped(req)
  BY <1>1, QueriesAreSequences, ChartDataAssumption DEF RequestTyped, RequestOf, Working
<1>4. Reading(req) /\ Cached(req)
  BY <1>2 DEF Reading, Cached
<1> QED BY <1>3, <1>4 DEF RequestKept

\* A request that still works has collected all it has by itself.
LEMMA KeptWorking ==
  ASSUME NEW req, RequestKept(req), req.at \in Working \cup {"done"}
  PROVE  /\ RequestTyped(req) /\ Reading(req) /\ Collected(req) /\ Labelled(req)
         /\ req.started \in 0..MaxDelay /\ req.version \in Versions /\ req.chart \in Charts
         /\ req.answer \in AnswerOf(req.chart) /\ req.from \in Nat \cup {None}
         /\ req \in RequestOf(req.chart)
         /\ req.at \in Working => <<Head(req.rest), req.version>> \in Keys
<1>1. req # Idle BY DEF Idle, Working
<1>2. /\ RequestTyped(req) /\ Reading(req) /\ Collected(req) /\ Labelled(req)
  BY <1>1 DEF RequestKept, Working
<1>3. req.at \in Working => Head(req.rest) \in Parts(req.chart)
  BY <1>2, NextQuery
<1> QED BY <1>2, <1>3 DEF RequestTyped, RequestOf, Keys

\* The next query is answered with part, which may come from the cache of frames.
LEMMA GoesKept ==
  ASSUME NEW req, RequestKept(req), req.at \in Working, NEW part \in Part,
         part = NoPart \/ /\ part.version = req.version
                          /\ part.read \in Nat
                          /\ part.read <= req.started
  PROVE  LET next == Goes(req, part) IN
         RequestTyped(next) /\ Reading(next) /\ Collected(next) /\ Labelled(next)
<1> DEFINE next == Goes(req, part)
<1>1. /\ RequestTyped(req) /\ Collected(req) /\ Labelled(req)
      /\ req.started \in 0..MaxDelay /\ req.answer \in AnswerOf(req.chart)
      /\ req.chart \in Charts
  BY KeptWorking
<1>2. /\ RequestTyped(next)
      /\ next.at = IF Len(req.rest) = 1 THEN "done" ELSE "query"
      /\ next.chart = req.chart /\ next.started = req.started
      /\ next.version = req.version
      /\ next.answer.parts = [req.answer.parts EXCEPT ![Head(req.rest)] = part]
      /\ next.answer.cached = req.answer.cached /\ next.answer.dttm = req.answer.dttm
  BY <1>1, GoesOn
<1> HIDE DEF next
<1>3. /\ DOMAIN req.answer.parts = Parts(req.chart)
      /\ DOMAIN next.answer.parts = Parts(req.chart)
      /\ Head(req.rest) \in Parts(req.chart)
      /\ Len(req.rest) \in 1..Len(Queries[req.chart])
  BY <1>1, <1>2, NextQuery DEF AnswerOf
<1>4. Reading(next) BY <1>2 DEF Reading
<1>5. Collected(next)
  <2> SUFFICES ASSUME NEW q \in GotIn(next.answer)
               PROVE  LET got == next.answer.parts[q] IN
                      /\ got.version = next.version
                      /\ ~next.answer.cached => got.read <= next.started
                      /\ got.read < Longest(q) + MaxDelay + next.started
    BY DEF Collected
  <2>1. q \in Parts(req.chart) BY <1>3 DEF GotIn
  <2>2. CASE q = Head(req.rest)
    <3>1. next.answer.parts[q] = part BY <1>2, <1>3, <2>2
    <3>2. part # NoPart BY <3>1 DEF GotIn, NoPart
    <3>3. Longest(q) \in Nat \ {0} /\ MaxDelay \in Nat
      BY <1>1, <2>1, LongestBounds, ChartDataAssumption
    <3> QED BY <1>1, <1>2, <3>1, <3>2, <3>3
  <2>3. CASE q # Head(req.rest)
    <3>1. next.answer.parts[q] = req.answer.parts[q] BY <1>2, <1>3, <2>1, <2>3
    <3>2. q \in GotIn(req.answer) BY <1>3, <2>1, <3>1 DEF GotIn
    <3> QED BY <1>1, <1>2, <3>1, <3>2 DEF Collected
  <2> QED BY <2>2, <2>3
<1>6. Labelled(next)
  <2>1. Labelled(req) /\ req.at \notin {"done", "answered"} BY <1>1 DEF Working
  <2>2. ~(req.answer.cached /\ Len(Queries[req.chart]) = 1)
    BY <2>1 DEF Labelled
  <2> QED BY <1>2, <2>2 DEF Labelled
<1> QED BY <1>2, <1>4, <1>5, <1>6 DEF next
\* A hit: the label is that of the frame.
LEMMA HitKept ==
  ASSUME NEW req, RequestKept(req), req.at = "query",
         NEW frame, FrameKept(<<Head(req.rest), req.version>>, frame), frame.left > 0
  PROVE  RequestKept([Goes(req, frame.part) EXCEPT !.answer.cached = TRUE,
                                                   !.answer.dttm = frame.dttm])
<1> DEFINE q == Head(req.rest)
           went == Goes(req, frame.part)
           next == [went EXCEPT !.answer.cached = TRUE, !.answer.dttm = frame.dttm]
           answer == [went.answer EXCEPT !.cached = TRUE, !.dttm = frame.dttm]
<1>1. /\ RequestTyped(req) /\ Collected(req) /\ Labelled(req)
      /\ req.started \in 0..MaxDelay /\ req.answer \in AnswerOf(req.chart)
      /\ req.chart \in Charts /\ req.version \in Versions /\ req.at \in Working
  BY KeptWorking DEF Working
<1>2. /\ frame \in [dttm : Nat, part : Part, left : 1..Longest(q)]
      /\ frame.part.version = req.version /\ frame.part.read \in Nat
      /\ frame.part.read <= frame.dttm
      /\ frame.part.read + frame.left <= Longest(q) + MaxDelay
  BY DEF FrameKept, NoFrame
<1>3. /\ RequestTyped(went)
      /\ went.at = IF Len(req.rest) = 1 THEN "done" ELSE "query"
      /\ went.chart = req.chart /\ went.started = req.started
      /\ went.version = req.version
      /\ went.answer.parts = [req.answer.parts EXCEPT ![q] = frame.part]
  BY <1>1, <1>2, GoesOn
<1> HIDE DEF went
<1>4. went \in RequestOf(req.chart) /\ went.answer \in AnswerOf(req.chart)
  BY <1>3 DEF RequestTyped, RequestOf
<1>5. /\ answer \in AnswerOf(req.chart)
      /\ answer.cached = TRUE /\ answer.dttm = frame.dttm /\ answer.parts = went.answer.parts
  BY <1>2, <1>4 DEF AnswerOf
<1>6. next = [went EXCEPT !.answer = answer]
  BY <1>4 DEF RequestOf, AnswerOf
<1>7. /\ next.at = went.at /\ next.chart = went.chart /\ next.started = went.started
      /\ next.version = went.version /\ next.rest = went.rest /\ next.answer = answer
      /\ next \in RequestOf(req.chart)
  BY <1>4, <1>5, <1>6 DEF RequestOf
<1> HIDE DEF next, answer
<1>8. RequestTyped(next)
  BY <1>1, <1>3, <1>7 DEF RequestTyped
<1>9. Reading(next)
  BY <1>3, <1>7 DEF Reading
<1>10. /\ DOMAIN req.answer.parts = Parts(req.chart)
       /\ DOMAIN next.answer.parts = Parts(req.chart)
       /\ q \in Parts(req.chart)
       /\ Len(req.rest) \in 1..Len(Queries[req.chart])
  BY <1>1, <1>3, <1>5, <1>7, NextQuery DEF AnswerOf
<1>11. Collected(next)
  <2> SUFFICES ASSUME NEW x \in GotIn(next.answer)
               PROVE  /\ next.answer.parts[x].version = next.version
                      /\ next.answer.parts[x].read < Longest(x) + MaxDelay + next.started
    BY <1>5, <1>7 DEF Collected
  <2>1. x \in Parts(req.chart) BY <1>10 DEF GotIn
  <2>2. CASE x = q
    <3>1. next.answer.parts[x] = frame.part BY <1>3, <1>5, <1>7, <1>10, <2>2
    <3>2. Longest(x) \in Nat \ {0} /\ MaxDelay \in Nat
      BY <1>1, <2>1, LongestBounds, ChartDataAssumption
    <3> QED BY <1>1, <1>2, <1>3, <1>7, <2>2, <3>1, <3>2
  <2>3. CASE x # q
    <3>1. next.answer.parts[x] = req.answer.parts[x]
      BY <1>3, <1>5, <1>7, <1>10, <2>1, <2>3
    <3>2. x \in GotIn(req.answer) BY <1>10, <2>1, <3>1 DEF GotIn
    <3> QED BY <1>1, <1>3, <1>7, <3>1, <3>2 DEF Collected
  <2> QED BY <2>2, <2>3
<1>12. Labelled(next)
  <2> SUFFICES ASSUME Len(Queries[req.chart]) = 1
               PROVE  /\ next.at \in {"done", "answered"}
                      /\ \A x \in GotIn(next.answer) :
                           next.answer.parts[x].read <= next.answer.dttm
    BY <1>3, <1>7 DEF Labelled
  <2>1. Len(req.rest) = 1 BY <1>10
  <2>2. Parts(req.chart) = {Queries[req.chart][1]}
    <3>1. DOMAIN Queries[req.chart] = 1..1
      BY <1>1, QueriesAreSequences, LenProperties
    <3> QED BY <3>1 DEF Parts, ToSet
  <2>3. ASSUME NEW x \in GotIn(next.answer)
        PROVE  next.answer.parts[x].read <= next.answer.dttm
    <3>1. x \in Parts(req.chart) BY <1>10 DEF GotIn
    <3>2. x = q BY <1>10, <2>2, <3>1
    <3> QED BY <1>2, <1>3, <1>5, <1>7, <1>10, <3>2
  <2> QED BY <1>3, <1>7, <2>1, <2>3
<1> QED BY <1>8, <1>9, <1>11, <1>12 DEF RequestKept, next, went

\* The query is about to be made.
LEMMA MissKept ==
  ASSUME NEW req, RequestKept(req), req.at = "query"
  PROVE  RequestKept([req EXCEPT !.at = "loading", !.from = 0])
<1> DEFINE next == [req EXCEPT !.at = "loading", !.from = 0]
<1>1. /\ RequestTyped(req) /\ Collected(req) /\ Labelled(req)
      /\ req \in RequestOf(req.chart)
  BY KeptWorking DEF Working
<1>2. /\ next.at = "loading" /\ next.from = 0 /\ next.chart = req.chart
      /\ next.started = req.started /\ next.version = req.version
      /\ next.rest = req.rest /\ next.answer = req.answer
      /\ next \in RequestOf(req.chart)
  BY <1>1 DEF RequestOf, Working
<1> HIDE DEF next
<1>3. RequestTyped(next) BY <1>1, <1>2 DEF RequestTyped, Working
<1>4. Reading(next) BY <1>2 DEF Reading
<1>5. Collected(next) BY <1>1, <1>2 DEF Collected
<1>6. Labelled(next) BY <1>1, <1>2 DEF Labelled
<1> QED BY <1>3, <1>4, <1>5, <1>6 DEF RequestKept, next

\* The database has answered.
LEMMA LoadKept ==
  ASSUME NEW req, RequestKept(req), req.at = "loading", NEW defs \in Versions
  PROVE  RequestKept([req EXCEPT !.at = "storing", !.defs = defs, !.answer.error = FALSE,
           !.answer.parts[Head(req.rest)] =
             [read |-> 0, version |-> req.version, defs |-> defs]])
<1> DEFINE q == Head(req.rest)
           part == [read |-> 0, version |-> req.version, defs |-> defs]
           next == [req EXCEPT !.at = "storing", !.defs = defs, !.answer.error = FALSE,
                               !.answer.parts[q] = part]
           answer == [req.answer EXCEPT !.error = FALSE, !.parts = [@ EXCEPT ![q] = part]]
<1>1. /\ RequestTyped(req) /\ Collected(req) /\ Labelled(req) /\ Reading(req)
      /\ req \in RequestOf(req.chart) /\ req.answer \in AnswerOf(req.chart)
      /\ req.started \in 0..MaxDelay /\ req.version \in Versions /\ req.chart \in Charts
      /\ q \in Parts(req.chart)
  BY KeptWorking, NextQuery DEF Working
<1>2. part \in Part BY <1>1 DEF Part
<1>3. /\ answer \in AnswerOf(req.chart)
      /\ answer.parts = [req.answer.parts EXCEPT ![q] = part]
      /\ answer.cached = req.answer.cached /\ answer.dttm = req.answer.dttm
  BY <1>1, <1>2 DEF AnswerOf
<1>4. next = [req EXCEPT !.at = "storing", !.defs = defs, !.answer = answer]
  BY <1>1 DEF RequestOf, AnswerOf
<1>5. /\ next.at = "storing" /\ next.defs = defs
      /\ next.from = req.from /\ next.chart = req.chart
      /\ next.started = req.started /\ next.version = req.version
      /\ next.rest = req.rest /\ next.answer = answer
      /\ next \in RequestOf(req.chart)
  BY ZenonT(40), <1>1, <1>3, <1>4 DEF RequestOf, Working
<1> HIDE DEF next, answer
<1>6. /\ DOMAIN req.answer.parts = Parts(req.chart) /\ DOMAIN answer.parts = Parts(req.chart)
      /\ answer.parts[q] = part
  BY <1>1, <1>3 DEF AnswerOf
<1>7. RequestTyped(next) BY <1>1, <1>5 DEF RequestTyped, Working
<1>8. Reading(next)
  <2>1. req.from \in Nat BY <1>1 DEF Reading
  <2> QED BY <1>1, <1>5, <1>6, <2>1 DEF Reading
<1>9. Collected(next)
  <2> SUFFICES ASSUME NEW x \in GotIn(next.answer)
               PROVE  LET got == next.answer.parts[x] IN
                      /\ got.version = next.version
                      /\ ~next.answer.cached => got.read <= next.started
                      /\ got.read < Longest(x) + MaxDelay + next.started
    BY DEF Collected
  <2>1. x \in Parts(req.chart) BY <1>5, <1>6 DEF GotIn
  <2>2. CASE x = q
    <3>1. next.answer.parts[x] = part BY <1>5, <1>6, <2>2
    <3>2. Longest(x) \in Nat \ {0} /\ MaxDelay \in Nat
      BY <1>1, <2>1, LongestBounds, ChartDataAssumption
    <3> QED BY <1>1, <1>5, <3>1, <3>2
  <2>3. CASE x # q
    <3>1. next.answer.parts[x] = req.answer.parts[x] BY <1>3, <1>5, <1>6, <2>1, <2>3
    <3>2. x \in GotIn(req.answer) BY <1>6, <2>1, <3>1, <1>5 DEF GotIn
    <3> QED BY <1>1, <1>3, <1>5, <3>1, <3>2 DEF Collected
  <2> QED BY <2>2, <2>3
<1>10. Labelled(next)
  <2>1. ~(req.answer.cached /\ Len(Queries[req.chart]) = 1) BY <1>1 DEF Labelled
  <2> QED BY <1>3, <1>5, <2>1 DEF Labelled
<1> QED BY <1>7, <1>8, <1>9, <1>10 DEF RequestKept, next

\* What a request puts into the cache of frames.
LEMMA FrameIsKept ==
  ASSUME NEW req, RequestKept(req), req.at = "storing"
  PROVE  FrameKept(<<Head(req.rest), req.version>>, Frame(req))
<1> DEFINE q == Head(req.rest)
           part == req.answer.parts[q]
<1>1. /\ RequestTyped(req) /\ Reading(req) /\ req.answer \in AnswerOf(req.chart)
      /\ req.started \in 0..MaxDelay /\ req.chart \in Charts /\ q \in Parts(req.chart)
  BY KeptWorking, NextQuery DEF Working
<1>2. /\ part \in Part /\ part.read \in Nat /\ req.from \in Nat
      /\ part.read <= req.from /\ part.read <= req.started /\ part.version = req.version
  BY <1>1 DEF Reading, AnswerOf
<1>3. Timeout[req.chart] \in Nat \ {0} /\ MaxDelay \in Nat
  BY <1>1, ChartDataAssumption
<1>4. Longest(q) \in Nat \ {0} /\ Timeout[req.chart] <= Longest(q)
  BY <1>1, LongestBounds
<1>5. part.read + Timeout[req.chart] <= Longest(q) + MaxDelay
  BY <1>1, <1>2, <1>3, <1>4
<1> QED BY <1>2, <1>3, <1>4, <1>5 DEF FrameKept, Frame
\* The answer, and what of it the cache of responses keeps.
LEMMA AnswerKept ==
  ASSUME NEW req, RequestKept(req), req.at = "done"
  PROVE  /\ RequestKept([req EXCEPT !.at = "answered"])
         /\ req.chart \in Charts
         /\ ResponseKept(req.chart, [answer |-> req.answer, left |-> ResponseTimeout])
<1> DEFINE next == [req EXCEPT !.at = "answered"]
           response == [answer |-> req.answer, left |-> ResponseTimeout]
<1>1. /\ RequestTyped(req) /\ Collected(req) /\ Labelled(req)
      /\ req \in RequestOf(req.chart) /\ req.answer \in AnswerOf(req.chart)
      /\ req.started \in 0..MaxDelay /\ req.chart \in Charts
  BY KeptWorking
<1>2. /\ next.at = "answered" /\ next.chart = req.chart /\ next.started = req.started
      /\ next.version = req.version /\ next.rest = req.rest /\ next.answer = req.answer
      /\ next \in RequestOf(req.chart)
  BY <1>1 DEF RequestOf
<1>3. RequestKept(next)
  <2> HIDE DEF next
  <2>1. RequestTyped(next) BY <1>1, <1>2 DEF RequestTyped, Working
  <2>2. Reading(next) BY <1>2 DEF Reading
  <2>3. Collected(next) BY <1>1, <1>2 DEF Collected
  <2>4. Labelled(next) BY <1>1, <1>2 DEF Labelled
  <2> QED BY <2>1, <2>2, <2>3, <2>4 DEF RequestKept
<1>4. ASSUME NEW q \in GotIn(req.answer)
      PROVE  req.answer.parts[q].read + ResponseTimeout
               < Longest(q) + 2 * MaxDelay + ResponseTimeout
  <2>1. q \in Parts(req.chart) /\ req.answer.parts[q].read \in Int
    BY <1>1 DEF GotIn, AnswerOf, Part, None
  <2>2. req.answer.parts[q].read < Longest(q) + MaxDelay + req.started
    BY <1>1 DEF Collected
  <2>3. Longest(q) \in Nat /\ MaxDelay \in Nat /\ ResponseTimeout \in Nat
    BY <1>1, <2>1, LongestBounds, ChartDataAssumption
  <2> QED BY <1>1, <2>1, <2>2, <2>3
<1>5. ResponseKept(req.chart, response)
  BY <1>1, <1>4, ChartDataAssumption DEF ResponseKept
<1> QED BY <1>1, <1>3, <1>5

\* Time makes everything one tick older.
LEMMA OlderAnswerTyped ==
  ASSUME NEW c, NEW answer \in AnswerOf(c)
  PROVE  LET older == OlderAnswer(answer) IN
         /\ older \in AnswerOf(c)
         /\ GotIn(older) = GotIn(answer)
         /\ older.cached = answer.cached
         /\ older.dttm = Older(answer.dttm)
         /\ \A q \in GotIn(answer) :
              /\ q \in Parts(c) /\ answer.parts[q].read \in Nat
              /\ older.parts[q].read = answer.parts[q].read + 1
              /\ older.parts[q].version = answer.parts[q].version
              /\ older.parts[q].defs = answer.parts[q].defs
<1> DEFINE older == OlderAnswer(answer)
           parts == [q \in Parts(c) |-> OlderPart(answer.parts[q])]
<1>1. answer.parts \in [Parts(c) -> Part] /\ answer.dttm \in Nat \cup {None}
  BY DEF AnswerOf
<1>2. ASSUME NEW part \in Part
      PROVE  /\ OlderPart(part) \in Part /\ OlderPart(part).version = part.version
             /\ OlderPart(part).defs = part.defs
             /\ OlderPart(part).read = None <=> part.read = None
             /\ part.read # None => part.read \in Nat /\ OlderPart(part).read = part.read + 1
  BY DEF OlderPart, Older, Part, None
<1>3. Older(answer.dttm) \in Nat \cup {None}
  BY <1>1 DEF Older, None
<1>4. older = [answer EXCEPT !.dttm = Older(answer.dttm), !.parts = parts]
  BY <1>1 DEF OlderAnswer, AnswerOf
<1>5. parts \in [Parts(c) -> Part]
  BY <1>1, <1>2
<1>6. /\ older \in AnswerOf(c) /\ older.cached = answer.cached
      /\ older.dttm = Older(answer.dttm) /\ older.parts = parts
  <2> HIDE DEF parts, older
  <2> QED BY <1>1, <1>3, <1>4, <1>5 DEF AnswerOf
<1>7. \A q \in Parts(c) : parts[q] = OlderPart(answer.parts[q]) /\ answer.parts[q] \in Part
  BY <1>1
<1> HIDE DEF older, parts
<1>8. GotIn(older) = GotIn(answer)
  BY <1>1, <1>2, <1>5, <1>6, <1>7 DEF GotIn
<1>9. \A q \in GotIn(answer) :
        /\ q \in Parts(c) /\ answer.parts[q].read \in Nat
        /\ older.parts[q].read = answer.parts[q].read + 1
        /\ older.parts[q].version = answer.parts[q].version
        /\ older.parts[q].defs = answer.parts[q].defs
  BY <1>1, <1>2, <1>6, <1>7 DEF GotIn
<1> QED BY <1>6, <1>8, <1>9 DEF older

\* A frame of the cache, one tick on.
LEMMA OlderFrameKept ==
  ASSUME NEW k \in Keys, NEW frame, FrameKept(k, frame)
  PROVE  FrameKept(k, IF frame.left <= 1 THEN NoFrame
                      ELSE [dttm |-> Older(frame.dttm), part |-> OlderPart(frame.part),
                            left |-> frame.left - 1])
<1> DEFINE older == [dttm |-> Older(frame.dttm), part |-> OlderPart(frame.part),
                     left |-> frame.left - 1]
<1>1. CASE frame.left <= 1
  BY <1>1 DEF FrameKept
<1>2. CASE ~(frame.left <= 1)
  <2>1. frame # NoFrame BY <1>2 DEF NoFrame
  <2>2. PICK c \in Charts : k[1] \in Parts(c) BY DEF Keys
  <2>3. Longest(k[1]) \in Nat /\ MaxDelay \in Nat
    BY <2>2, LongestBounds, ChartDataAssumption
  <2>4. /\ frame \in [dttm : Nat, part : Part, left : 1..Longest(k[1])]
        /\ frame.part.version = k[2] /\ frame.part.read \in Nat
        /\ frame.part.read <= frame.dttm
        /\ frame.part.read + frame.left <= Longest(k[1]) + MaxDelay
    BY <2>1 DEF FrameKept
  <2>5. Older(frame.dttm) = frame.dttm + 1 /\ Older(frame.part.read) = frame.part.read + 1
    BY <2>4 DEF Older, None
  <2>6. /\ OlderPart(frame.part) \in Part
        /\ OlderPart(frame.part).version = frame.part.version
        /\ OlderPart(frame.part).read = frame.part.read + 1
    BY <2>4, <2>5 DEF OlderPart, Part
  <2>7. /\ older.dttm = frame.dttm + 1 /\ older.left = frame.left - 1
        /\ older.part = OlderPart(frame.part)
        /\ older.left \in 1..Longest(k[1])
    BY <1>2, <2>3, <2>4, <2>5
  <2>8. FrameKept(k, older)
    <3>1. older \in [dttm : Nat, part : Part, left : 1..Longest(k[1])]
      BY <2>4, <2>5, <2>6, <2>7
    <3>2. older.part.read <= older.dttm /\ older.part.read \in Nat
      BY <2>4, <2>6, <2>7
    <3>3. older.part.read + older.left <= Longest(k[1]) + MaxDelay
      BY <2>3, <2>4, <2>6, <2>7
    <3>4. older.part.version = k[2] BY <2>4, <2>6, <2>7
    <3> HIDE DEF older
    <3> QED BY <3>1, <3>2, <3>3, <3>4 DEF FrameKept
  <2> QED BY <1>2, <2>8
<1> QED BY <1>1, <1>2

\* A response of the cache, one tick on.
LEMMA OlderResponseKept ==
  ASSUME NEW c \in Charts, NEW response, ResponseKept(c, response)
  PROVE  ResponseKept(c, IF response.left <= 1 THEN NoResponse(c)
                         ELSE [answer |-> OlderAnswer(response.answer),
                               left |-> response.left - 1])
<1> DEFINE older == [answer |-> OlderAnswer(response.answer), left |-> response.left - 1]
<1>1. response.answer \in AnswerOf(c) /\ response.left \in 0..ResponseTimeout
  BY DEF ResponseKept
<1>2. ResponseTimeout \in Nat /\ MaxDelay \in Nat BY ChartDataAssumption
<1>3. CASE response.left <= 1
  <2>1. NoAnswer(c) \in AnswerOf(c)
    BY ChartDataAssumption DEF NoAnswer, AnswerOf, Part, NoPart, None, Versions
  <2>2. ResponseKept(c, NoResponse(c))
    BY <1>2, <2>1 DEF ResponseKept, NoResponse
  <2> QED BY <1>3, <2>2
<1>4. CASE ~(response.left <= 1)
  <2>1. /\ older.answer \in AnswerOf(c)
        /\ GotIn(older.answer) = GotIn(response.answer)
        /\ older.left = response.left - 1 /\ older.left \in 0..ResponseTimeout
        /\ \A q \in GotIn(response.answer) :
             /\ q \in Parts(c) /\ response.answer.parts[q].read \in Nat
             /\ older.answer.parts[q].read = response.answer.parts[q].read + 1
    <3>1. older.answer = OlderAnswer(response.answer) /\ older.left = response.left - 1
      OBVIOUS
    <3>2. older.left \in 0..ResponseTimeout BY <1>1, <1>2, <1>4, <3>1
    <3> QED BY <1>1, <3>1, <3>2, OlderAnswerTyped
  <2>2. older \in [answer : AnswerOf(c), left : 0..ResponseTimeout] BY <2>1
  <2> HIDE DEF older
  <2>3. ASSUME NEW q \in GotIn(older.answer)
        PROVE  older.answer.parts[q].read + older.left
                 < Longest(q) + 2 * MaxDelay + ResponseTimeout
    <3>1. q \in GotIn(response.answer) BY <2>1
    <3>2. response.answer.parts[q].read + response.left
            < Longest(q) + 2 * MaxDelay + ResponseTimeout
      BY <1>1, <1>4, <3>1 DEF ResponseKept
    <3>3. response.answer.parts[q].read \in Nat BY <2>1, <3>1
    <3>4. older.answer.parts[q].read + older.left = response.answer.parts[q].read + response.left
      BY <1>1, <2>1, <3>1, <3>3
    <3> QED BY <3>2, <3>4
  <2>4. ResponseKept(c, older) BY <2>2, <2>3 DEF ResponseKept
  <2> QED BY <1>4, <2>4 DEF older
<1> QED BY <1>3, <1>4

\* A request that has not been answered, one tick on.
LEMMA OlderRequestKept ==
  ASSUME NEW req, RequestKept(req), req.at \in Working \cup {"done"},
         req.started < MaxDelay
  PROVE  RequestKept([req EXCEPT !.started = @ + 1, !.from = Older(@),
                                 !.answer = OlderAnswer(@)])
<1> DEFINE next == [req EXCEPT !.started = @ + 1, !.from = Older(@), !.answer = OlderAnswer(@)]
           older == OlderAnswer(req.answer)
<1>1. /\ RequestTyped(req) /\ Reading(req) /\ Collected(req) /\ Labelled(req)
      /\ req \in RequestOf(req.chart) /\ req.answer \in AnswerOf(req.chart)
      /\ req.started \in 0..MaxDelay /\ req.chart \in Charts
      /\ req.from \in Nat \cup {None}
  BY KeptWorking
<1>2. /\ older \in AnswerOf(req.chart)
      /\ GotIn(older) = GotIn(req.answer)
      /\ older.cached = req.answer.cached
      /\ older.dttm = Older(req.answer.dttm)
      /\ \A q \in GotIn(req.answer) :
           /\ q \in Parts(req.chart) /\ req.answer.parts[q].read \in Nat
           /\ older.parts[q].read = req.answer.parts[q].read + 1
           /\ older.parts[q].version = req.answer.parts[q].version
           /\ older.parts[q].defs = req.answer.parts[q].defs
  BY <1>1, OlderAnswerTyped
<1>3. Older(req.from) \in Nat \cup {None} BY <1>1 DEF Older, None
<1> HIDE DEF older
<1>4. next = [req EXCEPT !.started = req.started + 1, !.from = Older(req.from),
                         !.answer = older]
  BY <1>1 DEF older, RequestOf
<1>5. req.started + 1 \in 0..MaxDelay
  BY <1>1, ChartDataAssumption
<1>6. /\ next.at = req.at /\ next.from = Older(req.from) /\ next.chart = req.chart
      /\ next.started = req.started + 1 /\ next.version = req.version
      /\ next.defs = req.defs
      /\ next.rest = req.rest /\ next.answer = older /\ next \in RequestOf(req.chart)
  BY <1>1, <1>2, <1>3, <1>4, <1>5 DEF RequestOf
<1> HIDE DEF next
<1>7. RequestTyped(next) BY <1>1, <1>6 DEF RequestTyped
<1>8. Reading(next)
  <2>1. req.at \in {"loading", "storing"} => req.from \in Nat /\ next.from = req.from + 1
    BY <1>1, <1>6 DEF Reading, Older, None
  <2>2. ASSUME req.at = "storing"
        PROVE  LET part == next.answer.parts[Head(next.rest)] IN
               part.read \in Nat /\ part.read <= next.from /\ part.read <= next.started
                 /\ part.version = next.version /\ part.defs = next.defs
    <3>1. Head(req.rest) \in GotIn(req.answer)
      <4>1. Head(req.rest) \in Parts(req.chart) BY <1>1, <2>2, NextQuery DEF Working
      <4>2. DOMAIN req.answer.parts = Parts(req.chart) BY <1>1 DEF AnswerOf
      <4>3. req.answer.parts[Head(req.rest)].read \in Nat BY <1>1, <2>2 DEF Reading
      <4> QED BY <4>1, <4>2, <4>3 DEF GotIn, None
    <3> QED BY <1>1, <1>2, <1>6, <2>1, <2>2, <3>1 DEF Reading
  <2> QED BY <1>6, <2>1, <2>2 DEF Reading
<1>9. Collected(next)
  <2> SUFFICES ASSUME NEW q \in GotIn(req.answer)
               PROVE  LET part == next.answer.parts[q] IN
                      /\ part.version = next.version
                      /\ ~next.answer.cached => part.read <= next.started
                      /\ part.read < Longest(q) + MaxDelay + next.started
    BY <1>2, <1>6 DEF Collected
  <2>1. Longest(q) \in Nat /\ MaxDelay \in Nat
    BY <1>1, <1>2, LongestBounds, ChartDataAssumption
  <2> QED BY <1>1, <1>2, <1>6, <2>1 DEF Collected
<1>10. Labelled(next)
  <2> SUFFICES ASSUME req.answer.cached, Len(Queries[req.chart]) = 1,
                      NEW q \in GotIn(req.answer)
               PROVE  older.parts[q].read <= older.dttm
    BY <1>1, <1>2, <1>6 DEF Labelled
  <2>1. req.answer.parts[q].read <= req.answer.dttm /\ req.answer.parts[q].read \in Nat
    BY <1>1, <1>2 DEF Labelled
  <2>2. req.answer.dttm \in Nat \cup {None} BY <1>1 DEF AnswerOf
  <2>3. older.dttm = req.answer.dttm + 1 BY <1>2, <2>1, <2>2 DEF Older, None
  <2> QED BY <1>2, <2>1, <2>2, <2>3 DEF None
<1> QED BY <1>7, <1>8, <1>9, <1>10 DEF RequestKept, next
-----------------------------------------------------------------------------
(* The invariant *)

\* The invariant holds initially ...
LEMMA InitKeeps == Init => IInv
<1> SUFFICES ASSUME Init PROVE IInv
  OBVIOUS
<1>1. changedOn \in Versions /\ definitions \in Versions /\ edited \in Nat \cup {None}
  BY ChartDataAssumption DEF Init, Versions
<1>2. DOMAIN frames = Keys /\ \A k \in Keys : FrameKept(k, frames[k])
  BY DEF Init, FrameKept
<1>3. DOMAIN responses = Charts /\ \A c \in Charts : ResponseKept(c, responses[c])
  <2>1. ASSUME NEW c \in Charts PROVE ResponseKept(c, NoResponse(c))
    <3>1. NoAnswer(c) \in AnswerOf(c)
      BY ChartDataAssumption DEF NoAnswer, AnswerOf, Part, NoPart, None, Versions
    <3> QED BY <3>1, ChartDataAssumption DEF ResponseKept, NoResponse
  <2> QED BY <2>1 DEF Init
<1>4. DOMAIN reqs = Requests /\ \A r \in Requests : RequestKept(reqs[r])
  BY DEF Init, RequestKept
<1> QED BY <1>1, <1>2, <1>3, <1>4 DEF IInv

\* A step that changes one request, and nothing of the caches.
LEMMA RequestStep ==
  ASSUME IInv, NEW r \in Requests, NEW req, RequestKept(req),
         reqs' = [reqs EXCEPT ![r] = req], UNCHANGED <<source, frames, responses>>
  PROVE  IInv'
<1>1. DOMAIN reqs' = Requests /\ \A x \in Requests : RequestKept(reqs'[x])
  BY DEF IInv
<1>2. UNCHANGED <<changedOn, definitions, edited, frames, responses>> BY DEF source
<1> QED BY <1>1, <1>2 DEF IInv

\* With the first query that a request makes it reads the metrics and the columns.
LEMMA DefsKept ==
  ASSUME NEW req, RequestKept(req), req.at = "loading", NEW defs \in Versions
  PROVE  RequestKept([req EXCEPT !.defs = defs]) /\ [req EXCEPT !.defs = defs].at = "loading"
<1> DEFINE next == [req EXCEPT !.defs = defs]
<1>1. /\ RequestTyped(req) /\ Reading(req) /\ Collected(req) /\ Labelled(req)
      /\ req \in RequestOf(req.chart)
  BY KeptWorking DEF Working
<1>2. /\ next.at = "loading" /\ next.from = req.from /\ next.chart = req.chart
      /\ next.started = req.started /\ next.version = req.version
      /\ next.rest = req.rest /\ next.answer = req.answer
  BY <1>1 DEF RequestOf
<1>3. next \in RequestOf(req.chart)
  BY <1>1 DEF RequestOf
<1> HIDE DEF next
<1>4. RequestTyped(next) BY <1>1, <1>2, <1>3 DEF RequestTyped, Working
<1>5. Reading(next) BY <1>1, <1>2 DEF Reading
<1>6. Collected(next) BY <1>1, <1>2 DEF Collected
<1>7. Labelled(next) BY <1>1, <1>2 DEF Labelled
<1> QED BY <1>2, <1>4, <1>5, <1>6, <1>7 DEF RequestKept, next

LEMMA DefsTyped ==
  ASSUME IInv, NEW req, RequestKept(req), req.at = "loading"
  PROVE  Defs(req) \in Versions
<1>1. req \in RequestOf(req.chart) BY KeptWorking DEF Working
<1> QED BY <1>1 DEF RequestOf, Defs, IInv

\* A step of a request keeps it: the request is as one of the lemmas above says, and
\* so is what it puts into a cache.
LEMMA ServeKeeps ==
  ASSUME IInv, NEW r \in Requests, Serve(r)
  PROVE  IInv'
<1> DEFINE req == reqs[r]
<1>1. RequestKept(req) BY DEF IInv
<1>2. CASE FromCache(r)
  <2> DEFINE key == CacheKey(Head(req.rest), req.version)
  <2>1. req.at = "query" /\ frames[key].left > 0 /\ reqs' = [reqs EXCEPT ![r] = Hit(req)]
        /\ UNCHANGED <<source, frames, responses>>
    BY <1>2 DEF FromCache
  <2>2. key \in Keys /\ key = <<Head(req.rest), req.version>>
    BY <1>1, <2>1, KeptWorking DEF CacheKey, Working
  <2>3. FrameKept(key, frames[key]) BY <2>2 DEF IInv
  <2>4. RequestKept(Hit(req))
    BY <1>1, <2>1, <2>2, <2>3, HitKept DEF Hit
  <2> QED BY <2>1, <2>4, RequestStep
<1>3. CASE Miss(r)
  <2>1. req.at = "query" /\ UNCHANGED <<source, frames, responses>>
        /\ reqs' = [reqs EXCEPT ![r] = [req EXCEPT !.at = "loading", !.from = 0]]
    BY <1>3 DEF Miss, IInv
  <2>2. RequestKept([req EXCEPT !.at = "loading", !.from = 0])
    BY <1>1, <2>1, MissKept
  <2> QED BY <2>1, <2>2, RequestStep
<1>4. CASE Load(r)
  <2> DEFINE next == [req EXCEPT !.at = "storing", !.defs = Defs(req), !.answer.error = FALSE,
                        !.answer.parts[Head(req.rest)] =
                          [read |-> 0, version |-> req.version, defs |-> Defs(req)]]
  <2>1. req.at = "loading" /\ UNCHANGED <<source, frames, responses>>
        /\ reqs' = [reqs EXCEPT ![r] = next]
    BY <1>4 DEF Load, IInv
  <2>2. Defs(req) \in Versions BY <1>1, <2>1, DefsTyped
  <2>3. RequestKept(next) BY <1>1, <2>1, <2>2, LoadKept
  <2> HIDE DEF next
  <2> QED BY <2>1, <2>3, RequestStep
<1>5. CASE LoadFails(r)
  <2> DEFINE knows == [req EXCEPT !.defs = Defs(req)]
             went == Goes(knows, NoPart)
             next == [went EXCEPT !.answer.error = TRUE]
             answer == [went.answer EXCEPT !.error = TRUE]
  <2>1. req.at = "loading" /\ UNCHANGED <<source, frames, responses>>
        /\ reqs' = [reqs EXCEPT ![r] = next]
    BY <1>5 DEF LoadFails
  <2>2. NoPart \in Part BY ChartDataAssumption DEF NoPart, Part, None, Versions
  <2>3. RequestTyped(went) /\ Reading(went) /\ Collected(went) /\ Labelled(went)
    <3>1. Defs(req) \in Versions BY <1>1, <2>1, DefsTyped
    <3>2. RequestKept(knows) /\ knows.at \in Working
      BY <1>1, <2>1, <3>1, DefsKept DEF Working
    <3> HIDE DEF knows
    <3> QED BY <2>2, <3>2, GoesKept
  <2> HIDE DEF went
  <2>4. went \in RequestOf(went.chart) /\ went.answer \in AnswerOf(went.chart)
    BY <2>3 DEF RequestTyped, RequestOf
  <2>5. /\ answer \in AnswerOf(went.chart)
        /\ answer.parts = went.answer.parts /\ answer.cached = went.answer.cached
        /\ answer.dttm = went.answer.dttm
    BY <2>4 DEF AnswerOf
  <2>6. next = [went EXCEPT !.answer = answer]
    BY <2>4 DEF RequestOf, AnswerOf
  <2>7. /\ next.at = went.at /\ next.from = went.from /\ next.chart = went.chart
        /\ next.defs = went.defs
        /\ next.started = went.started /\ next.version = went.version
        /\ next.rest = went.rest /\ next.answer = answer /\ next \in RequestOf(went.chart)
    BY <2>4, <2>5, <2>6 DEF RequestOf
  <2>8. RequestKept(next)
    <3> HIDE DEF next, answer
    <3>1. RequestTyped(next) BY <2>3, <2>7 DEF RequestTyped
    <3>2. Reading(next) BY <2>3, <2>5, <2>7 DEF Reading
    <3>3. GotIn(next.answer) = GotIn(went.answer) BY <2>5, <2>7 DEF GotIn
    <3>4. Collected(next) BY <2>3, <2>5, <2>7, <3>3 DEF Collected
    <3>5. Labelled(next) BY <2>3, <2>5, <2>7, <3>3 DEF Labelled
    <3> QED BY <3>1, <3>2, <3>4, <3>5 DEF RequestKept
  <2> HIDE DEF next
  <2> QED BY <2>1, <2>8, RequestStep
<1>6. CASE Store(r)
  <2> DEFINE q == Head(req.rest)
             key == CacheKey(q, req.version)
             next == Goes(req, req.answer.parts[q])
  <2>1. req.at = "storing" /\ UNCHANGED <<source, responses>>
        /\ reqs' = [reqs EXCEPT ![r] = next]
    BY <1>6 DEF Store
  <2>2. PICK frame \in {Frame(req), NoFrame} : frames' = [frames EXCEPT ![key] = frame]
    BY <1>6 DEF Store
  <2>3. key \in Keys /\ key = <<q, req.version>>
    BY <1>1, <2>1, KeptWorking DEF CacheKey, Working
  <2>4. FrameKept(key, frame)
    BY <1>1, <2>1, <2>2, <2>3, FrameIsKept DEF FrameKept
  <2>5. DOMAIN frames' = Keys /\ \A k \in Keys : FrameKept(k, frames'[k])
    BY <2>2, <2>4 DEF IInv
  <2>6. /\ req.answer.parts[q] \in Part
        /\ req.answer.parts[q].version = req.version
        /\ req.answer.parts[q].read \in Nat
        /\ req.answer.parts[q].read <= req.started
    <3>1. Reading(req) /\ req.answer \in AnswerOf(req.chart) /\ q \in Parts(req.chart)
      BY <1>1, <2>1, KeptWorking, NextQuery DEF Working
    <3> QED BY <2>1, <3>1 DEF Reading, AnswerOf
  <2>7. RequestKept(next)
    <3>1. req.at \in Working BY <2>1 DEF Working
    <3> QED BY <1>1, <2>6, <3>1, GoesKept DEF RequestKept
  <2> HIDE DEF next
  <2>8. DOMAIN reqs' = Requests /\ \A x \in Requests : RequestKept(reqs'[x])
    BY <2>1, <2>7 DEF IInv
  <2> QED BY <2>1, <2>5, <2>8 DEF IInv, source
<1>7. CASE Answer(r)
  <2> DEFINE next == [req EXCEPT !.at = "answered"]
             response == [answer |-> req.answer, left |-> ResponseTimeout]
  <2>1. req.at = "done" /\ UNCHANGED <<source, frames>>
        /\ reqs' = [reqs EXCEPT ![r] = next]
    BY <1>7 DEF Answer, IInv
  <2>2. UNCHANGED responses \/ responses' = [responses EXCEPT ![req.chart] = response]
    BY <1>7 DEF Answer
  <2>3. RequestKept(next) /\ req.chart \in Charts /\ ResponseKept(req.chart, response)
    BY <1>1, <2>1, AnswerKept
  <2> HIDE DEF next, response
  <2>4. DOMAIN reqs' = Requests /\ \A x \in Requests : RequestKept(reqs'[x])
    BY <2>1, <2>3 DEF IInv
  <2>5. DOMAIN responses' = Charts /\ \A c \in Charts : ResponseKept(c, responses'[c])
    BY <2>2, <2>3 DEF IInv
  <2> QED BY <2>1, <2>4, <2>5 DEF IInv, source
<1> QED BY <1>2, <1>3, <1>4, <1>5, <1>6, <1>7 DEF Serve

\* A tick makes every frame, response and request older.
LEMMA TickKeeps ==
  ASSUME IInv, Tick
  PROVE  IInv'
<1>1. DOMAIN frames' = Keys /\ \A k \in Keys : FrameKept(k, frames'[k])
  <2>1. ASSUME NEW k \in Keys PROVE FrameKept(k, frames'[k])
    <3>1. FrameKept(k, frames[k]) BY DEF IInv
    <3>2. frames'[k] = IF frames[k].left <= 1 THEN NoFrame
                       ELSE [dttm |-> Older(frames[k].dttm), part |-> OlderPart(frames[k].part),
                             left |-> frames[k].left - 1]
      BY DEF Tick
    <3> QED BY <3>1, <3>2, OlderFrameKept
  <2>2. DOMAIN frames' = Keys BY DEF Tick
  <2> QED BY <2>1, <2>2
<1>2. DOMAIN responses' = Charts /\ \A c \in Charts : ResponseKept(c, responses'[c])
  <2>1. ASSUME NEW c \in Charts PROVE ResponseKept(c, responses'[c])
    <3>1. ResponseKept(c, responses[c]) BY DEF IInv
    <3>2. responses'[c] = IF responses[c].left <= 1 THEN NoResponse(c)
                          ELSE [answer |-> OlderAnswer(responses[c].answer),
                                left |-> responses[c].left - 1]
      BY DEF Tick
    <3> QED BY <3>1, <3>2, OlderResponseKept
  <2>2. DOMAIN responses' = Charts BY DEF Tick
  <2> QED BY <2>1, <2>2
<1>3. DOMAIN reqs' = Requests /\ \A r \in Requests : RequestKept(reqs'[r])
  <2>1. ASSUME NEW r \in Requests PROVE RequestKept(reqs'[r])
    <3>1. RequestKept(reqs[r]) BY DEF IInv
    <3>2. CASE Active(r)
      <4>1. reqs'[r] = [reqs[r] EXCEPT !.started = @ + 1, !.from = Older(@),
                                       !.answer = OlderAnswer(@)]
        BY <3>2 DEF Tick
      <4>2. reqs[r].started < MaxDelay BY <3>2 DEF Tick
      <4>3. reqs[r].at \in Working \cup {"done"} BY <3>2 DEF Active, Working
      <4> QED BY <3>1, <4>1, <4>2, <4>3, OlderRequestKept
    <3>3. CASE ~Active(r)
      <4>1. reqs'[r] = Idle BY <3>3 DEF Tick
      <4> QED BY <4>1 DEF RequestKept
    <3> QED BY <3>2, <3>3
  <2>2. DOMAIN reqs' = Requests BY DEF Tick
  <2> QED BY <2>1, <2>2
<1>4. changedOn' \in Versions /\ definitions' \in Versions BY DEF Tick, IInv
<1>5. edited' \in Nat \cup {None}
  <2>1. edited \in Nat \cup {None} BY DEF IInv
  <2>2. Older(edited) \in Nat \cup {None} BY <2>1 DEF Older, None
  <2>3. edited' \in {Older(edited), None} BY DEF Tick
  <2> QED BY <2>2, <2>3
<1> QED BY <1>1, <1>2, <1>3, <1>4, <1>5 DEF IInv

\* The number of an edit is a new one.
LEMMA EditNumbers ==
  ASSUME IInv, NEW row \in BOOLEAN, NEW children \in BOOLEAN, Edit(row, children)
  PROVE  /\ changedOn' \in Versions /\ definitions' \in Versions
         /\ IF children THEN definitions' # definitions ELSE UNCHANGED <<definitions, edited>>
<1> DEFINE T == {changedOn, definitions}
<1>1. /\ changedOn \in 0..MaxEdits /\ definitions \in 0..MaxEdits /\ MaxEdits \in Nat
      /\ changedOn < MaxEdits /\ definitions < MaxEdits
  BY ChartDataAssumption DEF IInv, Edit, Versions
<1>2. Max(T) \in T /\ \A t \in T : t <= Max(T)
  <2>1. T \in SUBSET Int /\ IsFiniteSet(T) /\ T # {}
    <3>1. IsFiniteSet({changedOn} \cup {definitions}) BY FS_Singleton, FS_Union
    <3>2. T = {changedOn} \cup {definitions} OBVIOUS
    <3> QED BY <1>1, <3>1, <3>2
  <2> HIDE DEF T
  <2> QED BY <2>1, MaxOfFiniteSet
<1>3. Max(T) + 1 \in Versions /\ Max(T) + 1 # definitions
  BY <1>1, <1>2 DEF Versions
<1> QED BY <1>3 DEF Edit, IInv

\* ... and every step keeps it.
LEMMA StepKeeps == IInv /\ [Next]_vars => IInv'
<1> SUFFICES ASSUME IInv, [Next]_vars PROVE IInv'
  OBVIOUS
<1>1. ASSUME NEW r \in Requests, NEW c \in Charts, Get(r, c)
      PROVE  IInv'
  <2>1. changedOn \in Versions /\ ResponseKept(c, responses[c])
        /\ UNCHANGED <<source, frames, responses>>
    BY <1>1 DEF Get, IInv
  <2>2. CASE responses[c].left = 0 /\ Starts(r, c, "GET")
    BY <2>1, <2>2, StartKept, RequestStep DEF Starts
  <2>3. CASE /\ responses[c].left > 0
             /\ reqs' = [reqs EXCEPT ![r] =
                  [at |-> "answered", chart |-> c, method |-> "GET",
                   started |-> 0, version |-> changedOn, defs |-> None, rest |-> <<>>,
                   from |-> None,
                   answer |-> responses[c].answer]]
    BY <2>1, <2>3, CachedAnswerKept, RequestStep
  <2> QED BY <1>1, <2>2, <2>3 DEF Get
<1>2. ASSUME NEW r \in Requests, NEW c \in Charts, Post(r, c)
      PROVE  IInv'
  <2>1. changedOn \in Versions /\ UNCHANGED <<source, frames, responses>>
    BY <1>2 DEF Post, IInv
  <2> QED BY <1>2, <2>1, StartKept, RequestStep DEF Post, Starts
<1>3. ASSUME NEW r \in Requests, Serve(r)
      PROVE  IInv'
  BY <1>3, ServeKeeps
<1>4. ASSUME NEW r \in Requests, Kill(r)
      PROVE  IInv'
  <2>1. RequestKept(Idle) BY DEF RequestKept
  <2> QED BY <1>4, <2>1, RequestStep DEF Kill
<1>5. ASSUME NEW row \in BOOLEAN, NEW children \in BOOLEAN, Edit(row, children)
      PROVE  IInv'
  <2>1. changedOn' \in Versions /\ definitions' \in Versions
    BY <1>5, EditNumbers
  <2>2. edited' \in Nat \cup {None} BY <1>5 DEF Edit, IInv
  <2>3. UNCHANGED <<frames, responses, reqs>> BY <1>5 DEF Edit
  <2> QED BY <2>1, <2>2, <2>3 DEF IInv
<1>6. CASE Tick
  BY <1>6, TickKeeps
<1>7. CASE UNCHANGED vars
  BY <1>7 DEF vars, IInv
<1> QED BY <1>1, <1>2, <1>3, <1>4, <1>5, <1>6, <1>7 DEF Next

-----------------------------------------------------------------------------
(* Edits of metrics and columns *)

(***************************************************************************)
(* Such an edit leaves every key as it is, so what was made with the old   *)
(* ones stays.  How long?  With definitions d, changed e ago: e and what   *)
(* is left of an entry from before make no more than the entry was given,  *)
(* and the time that its request could take.                               *)
(***************************************************************************)
FrameDated(k, frame, d, e) ==
  frame # NoFrame /\ frame.part.defs # d =>
    e \in Nat /\ e + frame.left <= Longest(k[1]) + MaxDelay

ResponseDated(response, d, e) ==
  \A q \in GotIn(response.answer) :
    response.answer.parts[q].defs # d =>
      e \in Nat /\ e + response.left < Longest(q) + 2 * MaxDelay + ResponseTimeout

\* How long a request may still show what it has of q.
Shows(req, q) ==
  IF req.at = "answered" /\ req.method = "GET"
  THEN Longest(q) + 2 * MaxDelay + ResponseTimeout
  ELSE Longest(q) + MaxDelay + req.started

RequestDated(req, d, e) ==
  req # Idle =>
    /\ req.defs \notin {None, d} => e \in Nat /\ e <= req.started
    /\ \A q \in GotIn(req.answer) :
         req.answer.parts[q].defs # d => e \in Nat /\ e < Shows(req, q)

Dated ==
  /\ \A k \in Keys : FrameDated(k, frames[k], definitions, edited)
  /\ \A c \in Charts : ResponseDated(responses[c], definitions, edited)
  /\ \A r \in Requests : RequestDated(reqs[r], definitions, edited)

LEMMA AtWork ==
  ASSUME NEW req, req.at \in Working \cup {"done"}
  PROVE  req # Idle /\ req.at # "answered"
BY DEF Idle, Working

\* What a request at work becomes keeps to the bounds, if each of its parts was there
\* before or does.
LEMMA NextDated ==
  ASSUME NEW req, req # Idle, req.at # "answered",
         NEW d, NEW e, RequestDated(req, d, e),
         NEW next, next.at # "answered", next.started = req.started,
         next.defs \in {None, d, req.defs},
         \A q \in GotIn(next.answer) :
           \/ q \in GotIn(req.answer) /\ next.answer.parts[q].defs = req.answer.parts[q].defs
           \/ next.answer.parts[q].defs # d =>
                e \in Nat /\ e < Longest(q) + MaxDelay + req.started
  PROVE  RequestDated(next, d, e)
<1>1. next.defs \notin {None, d} => e \in Nat /\ e <= next.started
  BY DEF RequestDated
<1>2. ASSUME NEW q \in GotIn(next.answer), next.answer.parts[q].defs # d
      PROVE  e \in Nat /\ e < Shows(next, q)
  <2>1. Shows(next, q) = Longest(q) + MaxDelay + req.started BY DEF Shows
  <2>2. CASE q \in GotIn(req.answer) /\ next.answer.parts[q].defs = req.answer.parts[q].defs
    <3>1. e \in Nat /\ e < Shows(req, q) BY <1>2, <2>2 DEF RequestDated
    <3>2. Shows(req, q) = Longest(q) + MaxDelay + req.started BY DEF Shows
    <3> QED BY <2>1, <3>1, <3>2
  <2>3. CASE next.answer.parts[q].defs # d =>
               e \in Nat /\ e < Longest(q) + MaxDelay + req.started
    BY <1>2, <2>1, <2>3
  <2> QED BY <2>2, <2>3
<1> QED BY <1>1, <1>2 DEF RequestDated

\* The request goes on with part for its next query: it has read nothing, or it keeps to
\* the bounds of that query.
LEMMA GoesDated ==
  ASSUME NEW req, RequestKept(req), req.at \in Working, NEW part \in Part,
         NEW d, NEW e, RequestDated(req, d, e),
         \/ part = NoPart
         \/ part.defs # d =>
              e \in Nat /\ e < Longest(Head(req.rest)) + MaxDelay + req.started
  PROVE  LET next == Goes(req, part) IN
         /\ RequestDated(next, d, e) /\ next # Idle /\ next.at # "answered"
         /\ RequestTyped(next) /\ next.started = req.started
<1> DEFINE next == Goes(req, part)
<1>1. /\ RequestTyped(req) /\ req.answer \in AnswerOf(req.chart)
      /\ req # Idle /\ req.at # "answered"
  BY KeptWorking, AtWork
<1>2. /\ RequestTyped(next)
      /\ next.at = IF Len(req.rest) = 1 THEN "done" ELSE "query"
      /\ next.started = req.started /\ next.defs \in {None, req.defs}
      /\ next.answer.parts = [req.answer.parts EXCEPT ![Head(req.rest)] = part]
  BY <1>1, GoesOn
<1> HIDE DEF next
<1>3. /\ DOMAIN req.answer.parts = Parts(req.chart)
      /\ DOMAIN next.answer.parts = Parts(req.chart)
  BY <1>1, <1>2 DEF AnswerOf
<1>4. ASSUME NEW q \in GotIn(next.answer)
      PROVE  \/ q \in GotIn(req.answer) /\ next.answer.parts[q].defs = req.answer.parts[q].defs
             \/ next.answer.parts[q].defs # d =>
                  e \in Nat /\ e < Longest(q) + MaxDelay + req.started
  <2>1. q \in Parts(req.chart) BY <1>3 DEF GotIn
  <2>2. CASE q = Head(req.rest)
    <3>1. next.answer.parts[q] = part BY <1>2, <1>3, <2>1, <2>2
    <3>2. part # NoPart BY <3>1 DEF GotIn, NoPart
    <3> QED BY <2>2, <3>1, <3>2
  <2>3. CASE q # Head(req.rest)
    <3>1. next.answer.parts[q] = req.answer.parts[q] BY <1>2, <1>3, <2>1, <2>3
    <3> QED BY <1>3, <2>1, <3>1 DEF GotIn
  <2> QED BY <2>2, <2>3
<1>5. next.at # "answered" /\ next # Idle BY <1>2 DEF Idle
<1>6. RequestDated(next, d, e)
  BY <1>1, <1>2, <1>4, <1>5, NextDated
<1> QED BY <1>2, <1>5, <1>6 DEF next

\* The label and the error of an answer do not matter here.
LEMMA SameDated ==
  ASSUME NEW req, req # Idle, req.at # "answered", NEW d, NEW e, RequestDated(req, d, e),
         NEW next, next.at # "answered", next.started = req.started, next.defs = req.defs,
         next.answer.parts = req.answer.parts
  PROVE  RequestDated(next, d, e)
<1>1. \A q \in GotIn(next.answer) :
        q \in GotIn(req.answer) /\ next.answer.parts[q].defs = req.answer.parts[q].defs
  BY DEF GotIn
<1> QED BY <1>1, NextDated

\* The steps of a request.
LEMMA HitDated ==
  ASSUME IInv, NEW req, RequestKept(req), req.at = "query",
         NEW frame, FrameKept(<<Head(req.rest), req.version>>, frame), frame.left > 0,
         NEW d, NEW e, RequestDated(req, d, e),
         FrameDated(<<Head(req.rest), req.version>>, frame, d, e)
  PROVE  RequestDated([Goes(req, frame.part) EXCEPT !.answer.cached = TRUE,
                                                    !.answer.dttm = frame.dttm], d, e)
<1> DEFINE q == Head(req.rest)
           went == Goes(req, frame.part)
           answer == [went.answer EXCEPT !.cached = TRUE, !.dttm = frame.dttm]
           next == [went EXCEPT !.answer.cached = TRUE, !.answer.dttm = frame.dttm]
<1>1. /\ req.started \in 0..MaxDelay /\ req.chart \in Charts /\ q \in Parts(req.chart)
      /\ req.at \in Working
  BY KeptWorking, NextQuery DEF Working
<1>2. frame.part \in Part /\ frame # NoFrame /\ frame.left \in 1..Longest(q)
  BY DEF FrameKept, NoFrame
<1>3. Longest(q) \in Nat /\ MaxDelay \in Nat
  BY <1>1, LongestBounds, ChartDataAssumption
<1>4. frame.part.defs # d => e \in Nat /\ e < Longest(q) + MaxDelay + req.started
  <2>1. frame.part.defs # d => e \in Nat /\ e + frame.left <= Longest(q) + MaxDelay
    BY <1>2 DEF FrameDated
  <2> QED BY <1>1, <1>2, <1>3, <2>1
<1>5. /\ RequestDated(went, d, e) /\ went # Idle /\ went.at # "answered"
      /\ RequestTyped(went)
  BY <1>1, <1>2, <1>4, GoesDated
<1> HIDE DEF went
<1>6. went \in RequestOf(went.chart) /\ went.answer \in AnswerOf(went.chart)
  BY <1>5 DEF RequestTyped, RequestOf
<1>7. next = [went EXCEPT !.answer = answer] /\ answer.parts = went.answer.parts
  BY <1>6 DEF RequestOf, AnswerOf
<1>8. /\ next.at = went.at /\ next.started = went.started /\ next.defs = went.defs
      /\ next.answer = answer
  BY <1>6, <1>7 DEF RequestOf
<1> HIDE DEF next, answer
<1>9. RequestDated(next, d, e) BY <1>5, <1>7, <1>8, SameDated
<1> QED BY <1>9 DEF next, went

LEMMA LoadDated ==
  ASSUME NEW req, RequestKept(req), req.at = "loading", NEW d \in Versions, NEW e,
         RequestDated(req, d, e), NEW defs \in Versions, defs \in {d, req.defs}
  PROVE  RequestDated([req EXCEPT !.at = "storing", !.defs = defs, !.answer.error = FALSE,
           !.answer.parts[Head(req.rest)] =
             [read |-> 0, version |-> req.version, defs |-> defs]], d, e)
<1> DEFINE q == Head(req.rest)
           part == [read |-> 0, version |-> req.version, defs |-> defs]
           next == [req EXCEPT !.at = "storing", !.defs = defs, !.answer.error = FALSE,
                               !.answer.parts[q] = part]
           answer == [req.answer EXCEPT !.error = FALSE, !.parts = [@ EXCEPT ![q] = part]]
<1>1. /\ req \in RequestOf(req.chart) /\ req.answer \in AnswerOf(req.chart)
      /\ req.started \in 0..MaxDelay /\ req.chart \in Charts /\ q \in Parts(req.chart)
      /\ req # Idle /\ req.at # "answered"
  BY KeptWorking, AtWork, NextQuery DEF Working
<1>2. answer.parts = [req.answer.parts EXCEPT ![q] = part]
  BY <1>1 DEF AnswerOf
<1>3. next = [req EXCEPT !.at = "storing", !.defs = defs, !.answer = answer]
  BY <1>1 DEF RequestOf, AnswerOf
<1>4. /\ next.at = "storing" /\ next.defs = defs /\ next.started = req.started
      /\ next.answer = answer
  BY <1>1, <1>3 DEF RequestOf
<1> HIDE DEF next, answer
<1>5. /\ DOMAIN req.answer.parts = Parts(req.chart) /\ DOMAIN answer.parts = Parts(req.chart)
      /\ answer.parts[q] = part
  BY <1>1, <1>2 DEF AnswerOf
<1>6. ASSUME NEW x \in GotIn(next.answer)
      PROVE  \/ x \in GotIn(req.answer) /\ next.answer.parts[x].defs = req.answer.parts[x].defs
             \/ next.answer.parts[x].defs # d =>
                  e \in Nat /\ e < Longest(x) + MaxDelay + req.started
  <2>1. x \in Parts(req.chart) BY <1>4, <1>5 DEF GotIn
  <2>2. CASE x = q
    <3>1. next.answer.parts[x].defs = defs BY <1>4, <1>5, <2>2
    <3>2. defs # None BY DEF Versions, None
    <3>3. defs # d => e \in Nat /\ e <= req.started
      BY <1>1, <3>2 DEF RequestDated
    <3>4. Longest(x) \in Nat \ {0} /\ MaxDelay \in Nat
      BY <1>1, <2>1, LongestBounds, ChartDataAssumption
    <3> QED BY <1>1, <3>1, <3>3, <3>4
  <2>3. CASE x # q
    <3>1. next.answer.parts[x] = req.answer.parts[x] BY <1>2, <1>4, <1>5, <2>1, <2>3
    <3> QED BY <1>4, <1>5, <2>1, <3>1 DEF GotIn
  <2> QED BY <2>2, <2>3
<1>7. next.at # "answered" /\ next.defs \in {None, d, req.defs} BY <1>4
<1>8. RequestDated(next, d, e)
  BY <1>1, <1>4, <1>6, <1>7, NextDated
<1> QED BY <1>8 DEF next

LEMMA StoreDated ==
  ASSUME NEW req, RequestKept(req), req.at = "storing", NEW d, NEW e,
         RequestDated(req, d, e)
  PROVE  /\ FrameDated(<<Head(req.rest), req.version>>, Frame(req), d, e)
         /\ RequestDated(Goes(req, req.answer.parts[Head(req.rest)]), d, e)
<1> DEFINE q == Head(req.rest)
           part == req.answer.parts[q]
<1>1. /\ Reading(req) /\ req.answer \in AnswerOf(req.chart)
      /\ req.started \in 0..MaxDelay /\ req.chart \in Charts /\ q \in Parts(req.chart)
      /\ req # Idle /\ req.at # "answered" /\ req.at \in Working
  BY KeptWorking, AtWork, NextQuery DEF Working
<1>2. part \in Part /\ part.defs = req.defs /\ part.defs # None
  <2>1. part \in Part BY <1>1 DEF AnswerOf
  <2>2. part.defs = req.defs BY <1>1 DEF Reading
  <2> QED BY <2>1, <2>2 DEF Part, Versions, None
<1>3. part.defs # d => e \in Nat /\ e <= req.started
  BY <1>1, <1>2 DEF RequestDated
<1>4. /\ Longest(q) \in Nat \ {0} /\ MaxDelay \in Nat
      /\ Timeout[req.chart] \in Nat \ {0} /\ Timeout[req.chart] <= Longest(q)
  BY <1>1, LongestBounds, ChartDataAssumption
<1>5. part.defs # d => e \in Nat /\ e < Longest(q) + MaxDelay + req.started
  BY <1>1, <1>3, <1>4
<1>6. part.defs # d => e \in Nat /\ e + Timeout[req.chart] <= Longest(q) + MaxDelay
  BY <1>1, <1>3, <1>4
<1>7. Frame(req).part = part /\ Frame(req).left = Timeout[req.chart] BY DEF Frame
<1>8. FrameDated(<<q, req.version>>, Frame(req), d, e)
  BY <1>6, <1>7 DEF FrameDated
<1>9. RequestDated(Goes(req, part), d, e)
  BY <1>1, <1>2, <1>5, GoesDated
<1> QED BY <1>8, <1>9

LEMMA AnswerDated ==
  ASSUME NEW req, RequestKept(req), req.at = "done", NEW d, NEW e, RequestDated(req, d, e)
  PROVE  /\ RequestDated([req EXCEPT !.at = "answered"], d, e)
         /\ ResponseDated([answer |-> req.answer, left |-> ResponseTimeout], d, e)
<1> DEFINE next == [req EXCEPT !.at = "answered"]
<1>1. /\ req \in RequestOf(req.chart) /\ req.answer \in AnswerOf(req.chart)
      /\ req.started \in 0..MaxDelay /\ req.chart \in Charts
      /\ req # Idle /\ req.at # "answered"
  BY KeptWorking, AtWork
<1>2. /\ next.started = req.started /\ next.defs = req.defs /\ next.answer = req.answer
  BY <1>1 DEF RequestOf
<1> HIDE DEF next
<1>3. ASSUME NEW q \in GotIn(req.answer), req.answer.parts[q].defs # d
      PROVE  /\ e \in Nat /\ e < Shows(next, q)
             /\ e + ResponseTimeout < Longest(q) + 2 * MaxDelay + ResponseTimeout
  <2>1. e \in Nat /\ e < Longest(q) + MaxDelay + req.started
    BY <1>1, <1>3 DEF RequestDated, Shows
  <2>2. q \in Parts(req.chart) BY <1>1 DEF GotIn, AnswerOf
  <2>3. Longest(q) \in Nat /\ MaxDelay \in Nat /\ ResponseTimeout \in Nat
    BY <1>1, <2>2, LongestBounds, ChartDataAssumption
  <2>4. e + ResponseTimeout < Longest(q) + 2 * MaxDelay + ResponseTimeout
    BY <1>1, <2>1, <2>3
  <2>5. e < Longest(q) + 2 * MaxDelay + ResponseTimeout BY <1>1, <2>1, <2>3
  <2>6. e < Shows(next, q) BY <1>2, <2>1, <2>5 DEF Shows
  <2> QED BY <2>1, <2>4, <2>6
<1>4. RequestDated(next, d, e)
  BY <1>1, <1>2, <1>3 DEF RequestDated
<1>5. ResponseDated([answer |-> req.answer, left |-> ResponseTimeout], d, e)
  BY <1>3 DEF ResponseDated
<1> QED BY <1>4, <1>5 DEF next

\* Nothing is dated initially ...
LEMMA InitDated == Init => Dated
<1> SUFFICES ASSUME Init PROVE Dated
  OBVIOUS
<1>1. ASSUME NEW c \in Charts PROVE GotIn(NoAnswer(c)) = {}
  BY DEF GotIn, NoAnswer, NoPart
<1>2. \A c \in Charts : ResponseDated(responses[c], definitions, edited)
  BY <1>1 DEF Init, NoResponse, ResponseDated
<1>3. \A k \in Keys : FrameDated(k, frames[k], definitions, edited)
  BY DEF Init, FrameDated
<1>4. \A r \in Requests : RequestDated(reqs[r], definitions, edited)
  BY DEF Init, RequestDated
<1> QED BY <1>2, <1>3, <1>4 DEF Dated

\* A step that changes one request, and nothing of the caches.
LEMMA RequestStepDated ==
  ASSUME IInv, Dated, NEW r \in Requests, NEW req, RequestDated(req, definitions, edited),
         reqs' = [reqs EXCEPT ![r] = req], UNCHANGED <<source, frames, responses>>
  PROVE  Dated'
<1>1. UNCHANGED <<definitions, edited, frames, responses>> BY DEF source
<1>2. \A x \in Requests : RequestDated(reqs'[x], definitions, edited)
  BY DEF Dated, IInv
<1> QED BY <1>1, <1>2 DEF Dated

LEMMA ServeDated ==
  ASSUME IInv, Dated, NEW r \in Requests, Serve(r)
  PROVE  Dated'
<1> DEFINE req == reqs[r]
           d == definitions
           e == edited
<1>1. RequestKept(req) /\ RequestDated(req, d, e) BY DEF IInv, Dated
<1>2. CASE FromCache(r)
  <2> DEFINE key == CacheKey(Head(req.rest), req.version)
  <2>1. req.at = "query" /\ frames[key].left > 0 /\ reqs' = [reqs EXCEPT ![r] = Hit(req)]
        /\ UNCHANGED <<source, frames, responses>>
    BY <1>2 DEF FromCache
  <2>2. key \in Keys /\ key = <<Head(req.rest), req.version>>
    BY <1>1, <2>1, KeptWorking DEF CacheKey, Working
  <2>3. FrameKept(key, frames[key]) /\ FrameDated(key, frames[key], d, e)
    BY <2>2 DEF IInv, Dated
  <2>4. RequestDated(Hit(req), d, e)
    BY <1>1, <2>1, <2>2, <2>3, HitDated DEF Hit
  <2> QED BY <2>1, <2>4, RequestStepDated
<1>3. CASE Miss(r)
  <2> DEFINE next == [req EXCEPT !.at = "loading", !.from = 0]
  <2>1. req.at = "query" /\ UNCHANGED <<source, frames, responses>>
        /\ reqs' = [reqs EXCEPT ![r] = next]
    BY <1>3 DEF Miss, IInv
  <2>2. req \in RequestOf(req.chart) /\ req # Idle /\ req.at # "answered"
    BY <1>1, <2>1, KeptWorking, AtWork DEF Working
  <2>3. /\ next.at = "loading" /\ next.started = req.started /\ next.defs = req.defs
        /\ next.answer = req.answer
    BY <2>2 DEF RequestOf
  <2> HIDE DEF next
  <2>4. next.at # "answered" BY <2>3
  <2>5. RequestDated(next, d, e) BY <1>1, <2>2, <2>3, <2>4, SameDated
  <2> QED BY <2>1, <2>5, RequestStepDated
<1>4. CASE Load(r)
  <2> DEFINE next == [req EXCEPT !.at = "storing", !.defs = Defs(req), !.answer.error = FALSE,
                        !.answer.parts[Head(req.rest)] =
                          [read |-> 0, version |-> req.version, defs |-> Defs(req)]]
  <2>1. req.at = "loading" /\ UNCHANGED <<source, frames, responses>>
        /\ reqs' = [reqs EXCEPT ![r] = next]
    BY <1>4 DEF Load, IInv
  <2>2. Defs(req) \in Versions /\ d \in Versions BY <1>1, <2>1, DefsTyped DEF IInv
  <2>3. Defs(req) \in {d, req.defs} BY DEF Defs
  <2>4. RequestDated(next, d, e) BY <1>1, <2>1, <2>2, <2>3, LoadDated
  <2> HIDE DEF next
  <2> QED BY <2>1, <2>4, RequestStepDated
<1>5. CASE LoadFails(r)
  <2> DEFINE knows == [req EXCEPT !.defs = Defs(req)]
             went == Goes(knows, NoPart)
             next == [went EXCEPT !.answer.error = TRUE]
             answer == [went.answer EXCEPT !.error = TRUE]
  <2>1. req.at = "loading" /\ UNCHANGED <<source, frames, responses>>
        /\ reqs' = [reqs EXCEPT ![r] = next]
    BY <1>5 DEF LoadFails
  <2>2. NoPart \in Part BY ChartDataAssumption DEF NoPart, Part, None, Versions
  <2>3. RequestKept(knows) /\ knows.at = "loading"
    <3>1. Defs(req) \in Versions BY <1>1, <2>1, DefsTyped
    <3> QED BY <1>1, <2>1, <3>1, DefsKept
  <2>4. RequestDated(knows, d, e)
    <3>1. req \in RequestOf(req.chart) /\ req # Idle /\ req.at # "answered"
      BY <1>1, <2>1, KeptWorking, AtWork DEF Working
    <3>2. /\ knows.started = req.started /\ knows.defs \in {d, req.defs}
          /\ knows.answer = req.answer
      BY <3>1 DEF RequestOf, Defs
    <3>3. knows.at # "answered" /\ knows.defs \in {None, d, req.defs} BY <2>3, <3>2
    <3>4. \A q \in GotIn(knows.answer) :
            q \in GotIn(req.answer) /\ knows.answer.parts[q].defs = req.answer.parts[q].defs
      BY <3>2
    <3> HIDE DEF knows
    <3> QED BY <1>1, <3>1, <3>2, <3>3, <3>4, NextDated
  <2> HIDE DEF knows
  <2>5. /\ RequestDated(went, d, e) /\ went # Idle /\ went.at # "answered"
        /\ RequestTyped(went)
    <3>1. knows.at \in Working BY <2>3 DEF Working
    <3> QED BY <2>2, <2>3, <2>4, <3>1, GoesDated
  <2> HIDE DEF went
  <2>6. went \in RequestOf(went.chart) /\ went.answer \in AnswerOf(went.chart)
    BY <2>5 DEF RequestTyped, RequestOf
  <2>7. next = [went EXCEPT !.answer = answer] /\ answer.parts = went.answer.parts
    BY <2>6 DEF RequestOf, AnswerOf
  <2>8. /\ next.at = went.at /\ next.started = went.started /\ next.defs = went.defs
        /\ next.answer = answer
    BY <2>6, <2>7 DEF RequestOf
  <2> HIDE DEF next, answer
  <2>9. RequestDated(next, d, e) BY <2>5, <2>7, <2>8, SameDated
  <2> QED BY <2>1, <2>9, RequestStepDated
<1>6. CASE Store(r)
  <2> DEFINE q == Head(req.rest)
             key == CacheKey(q, req.version)
             next == Goes(req, req.answer.parts[q])
  <2>1. req.at = "storing" /\ UNCHANGED <<definitions, edited, responses>>
        /\ reqs' = [reqs EXCEPT ![r] = next]
    BY <1>6 DEF Store, source
  <2>2. PICK frame \in {Frame(req), NoFrame} : frames' = [frames EXCEPT ![key] = frame]
    BY <1>6 DEF Store
  <2>3. FrameDated(<<q, req.version>>, Frame(req), d, e) /\ RequestDated(next, d, e)
    BY <1>1, <2>1, StoreDated
  <2>4. FrameDated(key, frame, d, e)
    BY <2>2, <2>3 DEF FrameDated, CacheKey
  <2> HIDE DEF next, key
  <2>5. \A k \in Keys : FrameDated(k, frames'[k], d, e)
    BY <2>2, <2>4 DEF IInv, Dated
  <2>6. \A x \in Requests : RequestDated(reqs'[x], d, e)
    BY <2>1, <2>3 DEF IInv, Dated
  <2> QED BY <2>1, <2>5, <2>6 DEF Dated
<1>7. CASE Answer(r)
  <2> DEFINE next == [req EXCEPT !.at = "answered"]
             response == [answer |-> req.answer, left |-> ResponseTimeout]
  <2>1. req.at = "done" /\ UNCHANGED <<definitions, edited, frames>>
        /\ reqs' = [reqs EXCEPT ![r] = next]
    BY <1>7 DEF Answer, IInv, source
  <2>2. UNCHANGED responses \/ responses' = [responses EXCEPT ![req.chart] = response]
    BY <1>7 DEF Answer
  <2>3. RequestDated(next, d, e) /\ ResponseDated(response, d, e)
    BY <1>1, <2>1, AnswerDated
  <2> HIDE DEF next, response
  <2>4. \A x \in Requests : RequestDated(reqs'[x], d, e)
    BY <2>1, <2>3 DEF IInv, Dated
  <2>5. \A c \in Charts : ResponseDated(responses'[c], d, e)
    BY <2>2, <2>3 DEF IInv, Dated
  <2> QED BY <2>1, <2>4, <2>5 DEF Dated
<1> QED BY <1>2, <1>3, <1>4, <1>5, <1>6, <1>7 DEF Serve

\* What makes the history variable go on.
LEMMA StillOutdated ==
  /\ \A k \in Keys : frames'[k] # NoFrame /\ frames'[k].part.defs # definitions' => Outdated'
  /\ \A c \in Charts : \A q \in GotIn(responses'[c].answer) :
       responses'[c].answer.parts[q].defs # definitions' => Outdated'
  /\ \A r \in Requests : reqs'[r] # Idle =>
       /\ reqs'[r].defs \notin {None, definitions'} => Outdated'
       /\ \A q \in GotIn(reqs'[r].answer) :
            reqs'[r].answer.parts[q].defs # definitions' => Outdated'
<1>1. ASSUME NEW k \in Keys, frames'[k] # NoFrame, frames'[k].part.defs # definitions'
      PROVE  Outdated'
  BY <1>1 DEF Outdated
<1>2. ASSUME NEW c \in Charts, NEW q \in GotIn(responses'[c].answer),
             responses'[c].answer.parts[q].defs # definitions'
      PROVE  Outdated'
  BY <1>2 DEF Outdated, Outdates, GotIn
<1>3. ASSUME NEW r \in Requests, reqs'[r] # Idle, reqs'[r].defs \notin {None, definitions'}
      PROVE  Outdated'
  BY <1>3 DEF Outdated
<1>4. ASSUME NEW r \in Requests, reqs'[r] # Idle, NEW q \in GotIn(reqs'[r].answer),
             reqs'[r].answer.parts[q].defs # definitions'
      PROVE  Outdated'
  BY <1>4 DEF Outdated, Outdates, GotIn
<1> QED BY <1>1, <1>2, <1>3, <1>4

\* An edit of metrics and columns: what is there is from before, and changed just now.
LEMMA EditDated ==
  ASSUME IInv, Dated, NEW row \in BOOLEAN, NEW children \in BOOLEAN, Edit(row, children)
  PROVE  Dated'
<1>1. UNCHANGED <<frames, responses, reqs>> BY DEF Edit
<1>2. CASE ~children
  <2>1. UNCHANGED <<definitions, edited>> BY <1>2 DEF Edit
  <2> QED BY <1>1, <2>1 DEF Dated
<1>3. CASE children
  <2>1. Outdated' => edited' = 0 BY <1>3 DEF Edit
  <2>2. MaxDelay \in Nat /\ ResponseTimeout \in Nat BY ChartDataAssumption
  <2>3. ASSUME NEW k \in Keys PROVE FrameDated(k, frames'[k], definitions', edited')
    <3> SUFFICES ASSUME frames'[k] # NoFrame, frames'[k].part.defs # definitions'
                 PROVE  edited' \in Nat /\ edited' + frames'[k].left <= Longest(k[1]) + MaxDelay
      BY DEF FrameDated
    <3>1. edited' = 0 BY <2>1, StillOutdated
    <3>2. frames[k].left \in 1..Longest(k[1]) BY <1>1 DEF IInv, FrameKept
    <3>3. Longest(k[1]) \in Nat
      <4>1. PICK c \in Charts : k[1] \in Parts(c) BY DEF Keys
      <4> QED BY <4>1, LongestBounds
    <3> QED BY <1>1, <2>2, <3>1, <3>2, <3>3
  <2>4. ASSUME NEW c \in Charts PROVE ResponseDated(responses'[c], definitions', edited')
    <3> SUFFICES ASSUME NEW q \in GotIn(responses'[c].answer),
                        responses'[c].answer.parts[q].defs # definitions'
                 PROVE  /\ edited' \in Nat
                        /\ edited' + responses'[c].left
                             < Longest(q) + 2 * MaxDelay + ResponseTimeout
      BY DEF ResponseDated
    <3>1. edited' = 0 BY <2>1, StillOutdated
    <3>2. /\ responses[c].left \in 0..ResponseTimeout /\ responses[c].answer \in AnswerOf(c)
      BY DEF IInv, ResponseKept
    <3>3. Longest(q) \in Nat \ {0}
      <4>1. q \in Parts(c) BY <1>1, <3>2 DEF GotIn, AnswerOf
      <4> QED BY <4>1, LongestBounds
    <3> QED BY <1>1, <2>2, <3>1, <3>2, <3>3
  <2>5. ASSUME NEW r \in Requests PROVE RequestDated(reqs'[r], definitions', edited')
    <3> SUFFICES ASSUME reqs'[r] # Idle
                 PROVE  /\ reqs'[r].defs \notin {None, definitions'} =>
                             edited' \in Nat /\ edited' <= reqs'[r].started
                        /\ \A q \in GotIn(reqs'[r].answer) :
                             reqs'[r].answer.parts[q].defs # definitions' =>
                               edited' \in Nat /\ edited' < Shows(reqs'[r], q)
      BY DEF RequestDated
    <3>1. reqs'[r] = reqs[r] BY <1>1
    <3>2. /\ reqs[r].started \in 0..MaxDelay /\ reqs[r].chart \in Charts
          /\ reqs[r].answer \in AnswerOf(reqs[r].chart)
      <4>1. RequestKept(reqs[r]) /\ reqs[r] # Idle BY <3>1 DEF IInv
      <4> QED BY <4>1 DEF RequestKept, RequestTyped, RequestOf
    <3>3. ASSUME reqs'[r].defs \notin {None, definitions'}
          PROVE  edited' \in Nat /\ edited' <= reqs'[r].started
      <4>1. edited' = 0 BY <2>1, <3>3, StillOutdated
      <4> QED BY <2>2, <3>1, <3>2, <4>1
    <3>4. ASSUME NEW q \in GotIn(reqs'[r].answer),
                 reqs'[r].answer.parts[q].defs # definitions'
          PROVE  edited' \in Nat /\ edited' < Shows(reqs'[r], q)
      <4>1. edited' = 0 BY <2>1, <3>4, StillOutdated
      <4>2. q \in Parts(reqs[r].chart) BY <3>1, <3>2 DEF GotIn, AnswerOf
      <4>3. Longest(q) \in Nat \ {0} BY <3>2, <4>2, LongestBounds
      <4>4. 0 < Shows(reqs[r], q) BY <2>2, <3>2, <4>3 DEF Shows
      <4> QED BY <3>1, <4>1, <4>4
    <3> QED BY <3>3, <3>4
  <2> QED BY <2>3, <2>4, <2>5 DEF Dated
<1> QED BY <1>2, <1>3

\* With each tick an entry has one less left, and the edit is one more tick ago.
LEMMA TickDated ==
  ASSUME IInv, Dated, Tick
  PROVE  Dated'
<1>1. definitions' = definitions BY DEF Tick
<1>2. MaxDelay \in Nat /\ ResponseTimeout \in Nat BY ChartDataAssumption
<1>3. Outdated' /\ edited \in Nat => edited' = edited + 1
  <2>1. edited' = IF Outdated' THEN Older(edited) ELSE None BY DEF Tick
  <2>2. edited \in Nat => Older(edited) = edited + 1 BY DEF Older, None
  <2> QED BY <2>1, <2>2, Zenon
<1>4. ASSUME NEW k \in Keys PROVE FrameDated(k, frames'[k], definitions', edited')
  <2> DEFINE frame == frames[k]
  <2> SUFFICES ASSUME frames'[k] # NoFrame, frames'[k].part.defs # definitions'
               PROVE  edited' \in Nat /\ edited' + frames'[k].left <= Longest(k[1]) + MaxDelay
    BY DEF FrameDated
  <2>1. frames'[k] = [dttm |-> Older(frame.dttm), part |-> OlderPart(frame.part),
                      left |-> frame.left - 1]
        /\ ~(frame.left <= 1)
    BY DEF Tick
  <2>2. frame # NoFrame BY <2>1 DEF NoFrame
  <2>3. frame.left \in 1..Longest(k[1]) /\ frame.part \in Part
    BY <2>2 DEF IInv, FrameKept
  <2>4. frames'[k].part.defs = frame.part.defs BY <2>1, <2>3 DEF OlderPart, Part
  <2>5. edited \in Nat /\ edited + frame.left <= Longest(k[1]) + MaxDelay
    BY <1>1, <2>2, <2>4 DEF Dated, FrameDated
  <2>6. edited' = edited + 1 BY <1>3, <2>5, StillOutdated
  <2>7. Longest(k[1]) \in Nat
    <3>1. PICK c \in Charts : k[1] \in Parts(c) BY DEF Keys
    <3> QED BY <3>1, LongestBounds
  <2>8. frames'[k].left = frame.left - 1 BY <2>1
  <2> HIDE DEF frame
  <2> QED BY <1>2, <2>3, <2>5, <2>6, <2>7, <2>8
<1>5. ASSUME NEW c \in Charts PROVE ResponseDated(responses'[c], definitions', edited')
  <2> DEFINE response == responses[c]
  <2> SUFFICES ASSUME NEW q \in GotIn(responses'[c].answer),
                      responses'[c].answer.parts[q].defs # definitions'
               PROVE  /\ edited' \in Nat
                      /\ edited' + responses'[c].left
                           < Longest(q) + 2 * MaxDelay + ResponseTimeout
    BY DEF ResponseDated
  <2>1. response.answer \in AnswerOf(c) /\ response.left \in 0..ResponseTimeout
    BY DEF IInv, ResponseKept
  <2>2. responses'[c] = IF response.left <= 1 THEN NoResponse(c)
                        ELSE [answer |-> OlderAnswer(response.answer),
                              left |-> response.left - 1]
    BY DEF Tick
  <2>3. responses'[c] # NoResponse(c)
    BY DEF NoResponse, NoAnswer, NoPart, GotIn
  <2>4. responses'[c].answer = OlderAnswer(response.answer)
        /\ responses'[c].left = response.left - 1
    BY <2>2, <2>3
  <2>5. /\ q \in GotIn(response.answer) /\ q \in Parts(c)
        /\ responses'[c].answer.parts[q].defs = response.answer.parts[q].defs
    BY <2>1, <2>4, OlderAnswerTyped
  <2>6. edited \in Nat
        /\ edited + response.left < Longest(q) + 2 * MaxDelay + ResponseTimeout
    BY <1>1, <2>5 DEF Dated, ResponseDated
  <2>7. edited' = edited + 1 BY <1>3, <2>6, StillOutdated
  <2>8. Longest(q) \in Nat BY <2>5, LongestBounds
  <2> HIDE DEF response
  <2> QED BY <1>2, <2>1, <2>4, <2>6, <2>7, <2>8
<1>6. ASSUME NEW r \in Requests PROVE RequestDated(reqs'[r], definitions', edited')
  <2> DEFINE req == reqs[r]
             next == reqs'[r]
             older == OlderAnswer(req.answer)
  <2>1. CASE ~Active(r)
    <3>1. reqs'[r] = Idle BY <2>1 DEF Tick
    <3> QED BY <3>1 DEF RequestDated
  <2>2. CASE Active(r)
    <3>1. next = [req EXCEPT !.started = @ + 1, !.from = Older(@), !.answer = OlderAnswer(@)]
      BY <2>2 DEF Tick
    <3>2. req.at \in Working \cup {"done"} BY <2>2 DEF Active, Working
    <3>3. /\ req \in RequestOf(req.chart) /\ req.answer \in AnswerOf(req.chart)
          /\ req.started \in 0..MaxDelay /\ req.chart \in Charts
          /\ req # Idle /\ req.at # "answered"
      <4>1. RequestKept(req) BY DEF IInv
      <4> QED BY <3>2, <4>1, KeptWorking, AtWork
    <3>4. /\ next.at = req.at /\ next.started = req.started + 1 /\ next.defs = req.defs
          /\ next.answer = older
      BY <3>1, <3>3 DEF RequestOf
    <3>5. /\ GotIn(older) = GotIn(req.answer)
          /\ \A q \in GotIn(req.answer) :
               q \in Parts(req.chart) /\ older.parts[q].defs = req.answer.parts[q].defs
      BY <3>3, OlderAnswerTyped
    <3>6. RequestDated(req, definitions, edited) BY DEF Dated
    <3>7. next # Idle
      <4>1. next.at # "idle" BY <3>2, <3>4 DEF Working
      <4> QED BY <4>1 DEF Idle
    <3>8. ASSUME next.defs \notin {None, definitions'}
          PROVE  edited' \in Nat /\ edited' <= next.started
      <4>1. edited \in Nat /\ edited <= req.started
        BY <1>1, <3>3, <3>4, <3>6, <3>8 DEF RequestDated
      <4>2. edited' = edited + 1 BY <1>3, <3>7, <3>8, <4>1, StillOutdated
      <4> QED BY <3>3, <3>4, <4>1, <4>2
    <3>9. ASSUME NEW q \in GotIn(next.answer), next.answer.parts[q].defs # definitions'
          PROVE  edited' \in Nat /\ edited' < Shows(next, q)
      <4>1. q \in GotIn(req.answer) /\ req.answer.parts[q].defs # definitions
        BY <1>1, <3>4, <3>5, <3>9
      <4>2. edited \in Nat /\ edited < Longest(q) + MaxDelay + req.started
        BY <3>3, <3>6, <4>1 DEF RequestDated, Shows
      <4>3. edited' = edited + 1 BY <1>3, <3>7, <3>9, <4>2, StillOutdated
      <4>4. Longest(q) \in Nat BY <3>3, <3>5, <4>1, LongestBounds
      <4>5. Shows(next, q) = Longest(q) + MaxDelay + (req.started + 1)
        BY <3>3, <3>4 DEF Shows
      <4> QED BY <1>2, <3>3, <4>2, <4>3, <4>4, <4>5
    <3> QED BY <3>8, <3>9 DEF RequestDated
  <2> QED BY <2>1, <2>2
<1> QED BY <1>4, <1>5, <1>6 DEF Dated

\* A request that begins has read nothing; one that is answered from the cache of
\* responses has what the response has.
LEMMA BeginDated ==
  ASSUME IInv, Dated, NEW r \in Requests, NEW c \in Charts, Get(r, c) \/ Post(r, c)
  PROVE  Dated'
<1>1. UNCHANGED <<source, frames, responses>> BY DEF Get, Post
<1>2. ASSUME NEW method, Starts(r, c, method) PROVE Dated'
  <2> DEFINE req == [at |-> "query", chart |-> c, method |-> method, started |-> 0,
                     version |-> changedOn, defs |-> None, rest |-> Queries[c],
                     from |-> None, answer |-> NoAnswer(c)]
  <2>1. GotIn(NoAnswer(c)) = {} BY DEF GotIn, NoAnswer, NoPart
  <2>2. RequestDated(req, definitions, edited) BY <2>1 DEF RequestDated
  <2>3. reqs' = [reqs EXCEPT ![r] = req] BY <1>2 DEF Starts
  <2> HIDE DEF req
  <2> QED BY <1>1, <2>2, <2>3, RequestStepDated
<1>3. ASSUME responses[c].left > 0,
             reqs' = [reqs EXCEPT ![r] =
               [at |-> "answered", chart |-> c, method |-> "GET", started |-> 0,
                version |-> changedOn, defs |-> None, rest |-> <<>>, from |-> None,
                answer |-> responses[c].answer]]
      PROVE  Dated'
  <2> DEFINE req == [at |-> "answered", chart |-> c, method |-> "GET", started |-> 0,
                     version |-> changedOn, defs |-> None, rest |-> <<>>, from |-> None,
                     answer |-> responses[c].answer]
  <2>1. ASSUME NEW q \in GotIn(responses[c].answer),
               responses[c].answer.parts[q].defs # definitions
        PROVE  edited \in Nat /\ edited < Longest(q) + 2 * MaxDelay + ResponseTimeout
    <3>1. edited \in Nat
          /\ edited + responses[c].left < Longest(q) + 2 * MaxDelay + ResponseTimeout
      BY <2>1 DEF Dated, ResponseDated
    <3>2. responses[c].left \in 0..ResponseTimeout /\ responses[c].answer \in AnswerOf(c)
      BY DEF IInv, ResponseKept
    <3>3. Longest(q) \in Nat /\ MaxDelay \in Nat /\ ResponseTimeout \in Nat
      <4>1. q \in Parts(c) BY <3>2 DEF GotIn, AnswerOf
      <4> QED BY <4>1, LongestBounds, ChartDataAssumption
    <3> QED BY <1>3, <3>1, <3>2, <3>3
  <2>2. /\ req.at = "answered" /\ req.method = "GET" /\ req.defs = None
        /\ req.answer = responses[c].answer
    OBVIOUS
  <2>3. reqs' = [reqs EXCEPT ![r] = req] BY <1>3
  <2> HIDE DEF req
  <2>4. RequestDated(req, definitions, edited) BY <2>1, <2>2 DEF RequestDated, Shows
  <2> QED BY <1>1, <2>3, <2>4, RequestStepDated
<1> QED BY <1>2, <1>3 DEF Get, Post

LEMMA StepDated == IInv /\ Dated /\ [Next]_vars => Dated'
<1> SUFFICES ASSUME IInv, Dated, [Next]_vars PROVE Dated'
  OBVIOUS
<1>1. ASSUME NEW r \in Requests, NEW c \in Charts, Get(r, c) \/ Post(r, c)
      PROVE  Dated'
  BY <1>1, BeginDated
<1>2. ASSUME NEW r \in Requests, Serve(r)
      PROVE  Dated'
  BY <1>2, ServeDated
<1>3. ASSUME NEW r \in Requests, Kill(r)
      PROVE  Dated'
  <2>1. RequestDated(Idle, definitions, edited) BY DEF RequestDated
  <2> QED BY <1>3, <2>1, RequestStepDated DEF Kill
<1>4. ASSUME NEW row \in BOOLEAN, NEW children \in BOOLEAN, Edit(row, children)
      PROVE  Dated'
  BY <1>4, EditDated
<1>5. CASE Tick
  BY <1>5, TickDated
<1>6. CASE UNCHANGED vars
  BY <1>6 DEF vars, Dated
<1> QED BY <1>1, <1>2, <1>3, <1>4, <1>5, <1>6 DEF Next

-----------------------------------------------------------------------------
(* The theorems *)

\* What the caches and the requests hold is always as old, as right and as labelled
\* as IInv says, and what is left of an edit of metrics and columns as Dated says.
THEOREM Invariance == Spec => [](IInv /\ Dated)
<1>1. Init => IInv /\ Dated BY InitKeeps, InitDated
<1>2. (IInv /\ Dated) /\ [Next]_vars => (IInv /\ Dated)' BY StepKeeps, StepDated
<1> QED BY <1>1, <1>2, PTL DEF Spec

-----------------------------------------------------------------------------
(* What follows from it *)

\* Every behaviour keeps the variables of ChartData within their ranges.
THEOREM TypeCorrect == Spec => []TypeOK
<1>1. IInv => TypeOK
  <2> SUFFICES ASSUME IInv PROVE TypeOK
    OBVIOUS
  <2>1. changedOn \in Versions /\ definitions \in Versions /\ edited \in Nat \cup {None}
    BY DEF IInv
  <2>2. ASSUME NEW k \in Keys
        PROVE  \/ frames[k] = NoFrame
               \/ /\ frames[k].left \in 1..Longest(k[1]) /\ frames[k].dttm \in Nat
                  /\ frames[k].part \in Part /\ frames[k].part.version = k[2]
    BY DEF IInv, FrameKept
  <2>3. ASSUME NEW c \in Charts
        PROVE  responses[c].answer \in AnswerOf(c) /\ responses[c].left \in 0..ResponseTimeout
    BY DEF IInv, ResponseKept
  <2>4. ASSUME NEW r \in Requests, reqs[r] # Idle
        PROVE  /\ IsSuffix(reqs[r].rest, Queries[reqs[r].chart])
               /\ reqs[r].answer \in AnswerOf(reqs[r].chart)
               /\ reqs[r].started \in 0..MaxDelay
    BY <2>4 DEF IInv, RequestKept, RequestTyped, RequestOf
  <2> QED BY <2>1, <2>2, <2>3, <2>4 DEF TypeOK
<1> QED BY <1>1, Invariance, PTL

\* The invariant for a request that was answered.
LEMMA AnsweredKept ==
  ASSUME IInv, NEW r \in Answered
  PROVE  /\ reqs[r] \in RequestOf(reqs[r].chart) /\ reqs[r].chart \in Charts
         /\ reqs[r].answer \in AnswerOf(reqs[r].chart)
         /\ Got(r) = GotIn(reqs[r].answer)
         /\ \A q \in Got(r) : q \in Parts(reqs[r].chart) /\ Age(r, q) \in Nat
         /\ \/ Collected(reqs[r]) /\ Labelled(reqs[r])
            \/ reqs[r].method = "GET" /\ Cached(reqs[r])
<1>1. r \in Requests /\ reqs[r] # Idle BY DEF Answered, Idle
<1>2. RequestKept(reqs[r]) BY <1>1 DEF IInv
<1>3. /\ reqs[r] \in RequestOf(reqs[r].chart) /\ reqs[r].chart \in Charts
      /\ reqs[r].answer \in AnswerOf(reqs[r].chart)
      /\ \/ Collected(reqs[r]) /\ Labelled(reqs[r])
         \/ reqs[r].method = "GET" /\ Cached(reqs[r])
  BY <1>1, <1>2 DEF RequestKept, RequestTyped, RequestOf
<1>4. Got(r) = GotIn(reqs[r].answer) BY DEF Got, GotIn
<1>5. \A q \in Got(r) : q \in Parts(reqs[r].chart) /\ Age(r, q) \in Nat
  BY <1>3 DEF Got, Age, AnswerOf, Part
<1> QED BY <1>3, <1>4, <1>5

\* A POST is answered with results of no older version of the data source's row than
\* there was when it began, whatever the caches hold and whoever is at work meanwhile;
\* and what an answer shows of metrics and columns from before their last edit is no
\* older than the bound of AgeBounded.
THEOREM Edits == Spec => []EditsShow
<1>1. IInv /\ Dated => EditsShow
  <2> SUFFICES ASSUME IInv, Dated, NEW r \in Answered, NEW q \in Got(r)
               PROVE  LET part == reqs[r].answer.parts[q] IN
                      /\ reqs[r].method = "POST" => part.version >= reqs[r].version
                      /\ part.defs # definitions =>
                           /\ edited # None
                           /\ edited < Longest(q) + 2 * MaxDelay
                                + (IF reqs[r].method = "GET" THEN ResponseTimeout ELSE 0)
    BY DEF EditsShow
  <2>1. /\ q \in GotIn(reqs[r].answer) /\ reqs[r].version \in Versions
        /\ reqs[r].started \in 0..MaxDelay /\ reqs[r].chart \in Charts
        /\ q \in Parts(reqs[r].chart)
    BY AnsweredKept DEF RequestOf
  <2>2. ASSUME reqs[r].method = "POST"
        PROVE  reqs[r].answer.parts[q].version >= reqs[r].version
    <3>1. Collected(reqs[r]) BY <2>2, AnsweredKept
    <3>2. reqs[r].answer.parts[q].version = reqs[r].version
      BY <2>1, <3>1 DEF Collected
    <3> QED BY <2>1, <3>2, ChartDataAssumption DEF Versions
  <2>3. ASSUME reqs[r].answer.parts[q].defs # definitions
        PROVE  /\ edited # None
               /\ edited < Longest(q) + 2 * MaxDelay
                    + (IF reqs[r].method = "GET" THEN ResponseTimeout ELSE 0)
    <3>1. r \in Requests /\ reqs[r] # Idle /\ reqs[r].at = "answered" BY DEF Answered, Idle
    <3>2. RequestDated(reqs[r], definitions, edited) BY <3>1 DEF Dated
    <3>3. edited \in Nat /\ edited < Shows(reqs[r], q)
      BY <2>1, <2>3, <3>1, <3>2 DEF RequestDated
    <3>4. Longest(q) \in Nat /\ MaxDelay \in Nat /\ ResponseTimeout \in Nat
      BY <2>1, LongestBounds, ChartDataAssumption
    <3>5. CASE reqs[r].method = "GET"
      BY <3>1, <3>3, <3>4, <3>5 DEF Shows, None
    <3>6. CASE reqs[r].method # "GET"
      BY <2>1, <3>1, <3>3, <3>4, <3>6 DEF Shows, None
    <3> QED BY <3>5, <3>6
  <2> QED BY <2>2, <2>3
<1> QED BY <1>1, Invariance, PTL

\* No answer holds a result that was read longer ago than the longest timeout of the
\* charts that share its query, two requests and, for a GET, the life of a response.
THEOREM Ages == Spec => []AgeBounded
<1>1. IInv => AgeBounded
  <2> SUFFICES ASSUME IInv, NEW r \in Answered, NEW q \in Got(r)
               PROVE  Age(r, q) < Longest(q) + 2 * MaxDelay
                                    + (IF reqs[r].method = "GET" THEN ResponseTimeout ELSE 0)
    BY DEF AgeBounded
  <2>1. /\ reqs[r] \in RequestOf(reqs[r].chart) /\ reqs[r].chart \in Charts
        /\ q \in GotIn(reqs[r].answer) /\ q \in Parts(reqs[r].chart)
        /\ Age(r, q) \in Nat
    BY AnsweredKept
  <2>2. Longest(q) \in Nat /\ MaxDelay \in Nat /\ ResponseTimeout \in Nat
    BY <2>1, LongestBounds, ChartDataAssumption
  <2>3. CASE Collected(reqs[r])
    <3>1. Age(r, q) < Longest(q) + MaxDelay + reqs[r].started
      BY <2>1, <2>3 DEF Collected, Age
    <3>2. reqs[r].started \in 0..MaxDelay BY <2>1 DEF RequestOf
    <3> QED BY <2>1, <2>2, <3>1, <3>2
  <2>4. CASE reqs[r].method = "GET" /\ Cached(reqs[r])
    BY <2>1, <2>2, <2>4 DEF Cached, Age
  <2> QED BY <2>3, <2>4, AnsweredKept
<1> QED BY <1>1, Invariance, PTL

\* What an answer does not call cached was read for this request, and a chart of one
\* query that is called cached was read no earlier than its label says.
THEOREM Labels == Spec => []LabelIsRight
<1>1. IInv => LabelIsRight
  <2> SUFFICES ASSUME IInv, NEW r \in Answered, reqs[r].method = "POST"
               PROVE  IF reqs[r].answer.cached
                      THEN Len(Queries[reqs[r].chart]) = 1 =>
                             \A q \in Got(r) : Age(r, q) <= reqs[r].answer.dttm
                      ELSE \A q \in Got(r) : Age(r, q) <= reqs[r].started
    BY DEF LabelIsRight
  <2>1. /\ Collected(reqs[r]) /\ Labelled(reqs[r]) /\ Got(r) = GotIn(reqs[r].answer)
    BY AnsweredKept
  <2> QED BY <2>1 DEF Collected, Labelled, Age
<1> QED BY <1>1, Invariance, PTL
================================================================================
