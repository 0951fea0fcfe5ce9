---------------------------- MODULE SqlLabTabsProofs ----------------------------
(***************************************************************************)
(* Theorems about SqlLabTabs, for any number of windows, editors in the    *)
(* browser's storage, page loads, clicks and requests that get lost.       *)
(*                                                                         *)
(* tab_state only grows, and a tab keeps the editor it was made from: so   *)
(* what a page, a request under way or the storage says of a tab stays     *)
(* true however late it is used.  The invariant says that of all of them.  *)
(***************************************************************************)
EXTENDS SqlLabTabs, SequenceTheorems, FiniteSetTheorems, WellFoundedInduction, TLAPS

-----------------------------------------------------------------------------
(* Least elements, images, recursive functions *)

\* A set of natural numbers has a least element. The library states induction for an
\* operator, which no installed prover instantiates; told of sets, a proof by induction
\* takes the least counterexample.
LEMMA LeastElement ==
  ASSUME NEW T \in SUBSET Nat, T # {}
  PROVE  \E n \in T : \A m \in T : n <= m
<1> DEFINE Below(n) == {m \in T : m < n}
           C == {Below(n) : n \in T}
<1>1. \A n \in T : n \in Nat OBVIOUS
<1>2. C \subseteq FiniteSubsetsOf(T) /\ C # {}
  <2>1. ASSUME NEW n \in T PROVE IsFiniteSet(Below(n)) /\ Below(n) \subseteq T
    <3>1. Below(n) \subseteq 0..n
      <4>1. \A m \in T : m < n => m \in 0..n BY <1>1
      <4> QED BY <4>1
    <3>2. IsFiniteSet(0..n) BY <1>1, FS_Interval
    <3>3. Below(n) \subseteq T OBVIOUS
    <3> HIDE DEF Below
    <3> QED BY <3>1, <3>2, <3>3, FS_Subset
  <2> HIDE DEF Below
  <2> QED BY <2>1 DEF FiniteSubsetsOf
<1>3. PICK X \in C : \A Y \in C : ~ (<<Y, X>> \in StrictSubsetOrdering(T))
  <2> HIDE DEF C
  <2> QED BY <1>2, WFMin, FS_StrictSubsetOrderingWellFounded
<1>4. PICK n \in T : X = Below(n) OBVIOUS
<1>5. ASSUME NEW m \in T, m < n PROVE FALSE
  <2> HIDE DEF C
  <2>1. Below(m) \subseteq Below(n) /\ m \in Below(n) /\ m \notin Below(m)
    <3>1. \A x \in T : x < m => x < n BY <1>1, <1>5
    <3>2. ~ (m < m) BY <1>1
    <3> QED BY <1>5, <3>1, <3>2, Zenon
  <2>2. Below(m) \in C /\ Below(m) \in SUBSET T /\ Below(n) \in SUBSET T BY DEF C
  <2> HIDE DEF Below
  <2>3. <<Below(m), Below(n)>> \in StrictSubsetOrdering(T)
    BY <2>1, <2>2 DEF StrictSubsetOrdering
  <2> QED BY <1>3, <1>4, <2>2, <2>3
<1>6. \A m \in T : n <= m BY <1>1, <1>5
<1> QED BY <1>6

\* The image of a finite set.
LEMMA ImageIsFinite ==
  ASSUME NEW S, IsFiniteSet(S), NEW f
  PROVE  IsFiniteSet({f[x] : x \in S})
<1> DEFINE T == {f[x] : x \in S}
           g == [x \in S |-> f[x]]
<1>1. g \in Surjection(S, T) BY DEF Surjection
<1> HIDE DEF g, T
<1>2. IsFiniteSet(T) BY <1>1, FS_Surjection
<1> QED BY <1>2 DEF T

\* f is defined at each number up to N from its value at the one before.
Recursive(f, N, S, first, step) ==
  /\ f \in [0..N -> S]
  /\ f[0] = first /\ \A n \in 1..N : f[n] = step[<<n, f[n - 1]>>]

StepsWithin(N, S, step) == \A n \in 1..N, x \in S : step[<<n, x>>] \in S

\* There is such a function.
LEMMA RecursionExists ==
  ASSUME NEW N \in Nat, NEW S, NEW first \in S, NEW step, StepsWithin(N, S, step)
  PROVE  \E f : Recursive(f, N, S, first, step)
<1> DEFINE Exists(k) == \E f : Recursive(f, k, S, first, step)
           T == {k \in 0..N : ~ Exists(k)}
<1>1. Exists(0)
  <2> DEFINE f == [n \in 0..0 |-> first]
  <2>1. Recursive(f, 0, S, first, step) BY DEF Recursive
  <2> QED BY <2>1
<1>2. ASSUME NEW k \in 1..N, Exists(k - 1) PROVE Exists(k)
  <2>1. PICK g : Recursive(g, k - 1, S, first, step) BY <1>2
  <2> DEFINE f == [n \in 0..k |-> IF n = k THEN step[<<k, g[k - 1]>>] ELSE g[n]]
  <2>2. k \in Int /\ 1 <= k /\ k <= N OBVIOUS
  <2>3. g[k - 1] \in S
    <3>1. k - 1 \in 0..(k - 1) BY <2>2
    <3> QED BY <3>1, <2>1 DEF Recursive
  <2>4. step[<<k, g[k - 1]>>] \in S BY <2>3 DEF StepsWithin
  <2>5. f \in [0..k -> S]
    <3>1. \A n \in 0..k : n # k => n \in 0..(k - 1) BY <2>2
    <3>2. \A n \in 0..k : n # k => g[n] \in S BY <3>1, <2>1 DEF Recursive
    <3> QED BY <3>2, <2>4
  <2>6. f[0] = first
    <3>1. 0 \in 0..k /\ 0 # k BY <2>2
    <3>2. f[0] = g[0] BY <3>1
    <3> QED BY <3>2, <2>1 DEF Recursive
  <2>7. ASSUME NEW n \in 1..k PROVE f[n] = step[<<n, f[n - 1]>>]
    <3>1. n \in 0..k /\ n - 1 \in 0..k /\ n - 1 # k BY <2>2
    <3>2. f[n - 1] = g[n - 1] BY <3>1
    <3>3. CASE n = k BY <3>1, <3>2, <3>3
    <3>4. CASE n # k
      <4>1. n \in 1..(k - 1) BY <3>4, <2>2
      <4>2. f[n] = g[n] BY <3>4, <3>1
      <4> HIDE DEF f
      <4> QED BY <4>1, <4>2, <3>2, <2>1 DEF Recursive
    <3> QED BY <3>3, <3>4
  <2> HIDE DEF f
  <2> QED BY <2>5, <2>6, <2>7 DEF Recursive
<1> HIDE DEF Exists
<1>3. T = {}
  <2>1. SUFFICES ASSUME T # {} PROVE FALSE OBVIOUS
  <2>2. T \in SUBSET Nat OBVIOUS
  <2>3. PICK k \in T : \A m \in T : k <= m
    <3> HIDE DEF T
    <3> QED BY <2>1, <2>2, LeastElement
  <2>4. k \in 0..N /\ ~ Exists(k) /\ k # 0 BY <2>3, <1>1
  <2>5. k \in 1..N /\ k - 1 \in 0..N /\ ~ (k <= k - 1) BY <2>4
  <2>6. Exists(k - 1) BY <2>3, <2>5
  <2> QED BY <2>4, <2>5, <2>6, <1>2
<1>4. Exists(N) BY <1>3
<1> QED BY <1>4 DEF Exists


\* Append adds one element.
LEMMA AppendedSet ==
  ASSUME NEW S, NEW s \in Seq(S), NEW x \in S
  PROVE  Append(s, x) \in Seq(S) /\ ToSet(Append(s, x)) = ToSet(s) \cup {x}
<1> DEFINE n == Len(s)
           t == Append(s, x)
<1>1. n \in Nat /\ DOMAIN s = 1..n BY LenProperties
<1>2. t \in Seq(S) /\ Len(t) = n + 1 /\ t[n + 1] = x /\ \A i \in 1..n : t[i] = s[i]
  BY AppendProperties
<1>3. DOMAIN t = 1..(n + 1) BY <1>2, LenProperties
<1> HIDE DEF n, t
<1>4. 1..(n + 1) = 1..n \cup {n + 1} BY <1>1
<1>5. {t[i] : i \in 1..(n + 1)} = {s[i] : i \in 1..n} \cup {x} BY <1>2, <1>4
<1>6. ToSet(t) = ToSet(s) \cup {x} BY <1>1, <1>3, <1>5 DEF ToSet
<1> QED BY <1>2, <1>6 DEF t

\* ... the last one.
LEMMA AppendedLast ==
  ASSUME NEW S, NEW s \in Seq(S), NEW x \in S
  PROVE  Append(s, x) \in Seq(S) /\ Last(Append(s, x)) = x
<1>1. /\ Append(s, x) \in Seq(S) /\ Len(Append(s, x)) = Len(s) + 1
      /\ Append(s, x)[Len(s) + 1] = x
  BY AppendProperties
<1> QED BY <1>1 DEF Last

\* Only keeps the elements of a sequence that are among ids: by induction over the
\* places of the sequence, with RecursionExists for the function.
LEMMA OnlyKeeps ==
  ASSUME NEW S, NEW s \in Seq(S), NEW ids
  PROVE  /\ Only(s, ids) \in Seq(S)
         /\ ToSet(Only(s, ids)) = ToSet(s) \cap ids
<1> DEFINE N == Len(s)
           Body(f) == [n \in 0..N |-> IF n = 0 THEN <<>>
                         ELSE IF s[n] \in ids THEN Append(f[n - 1], s[n]) ELSE f[n - 1]]
           only == CHOOSE f : f = Body(f)
           step == [x \in (1..N) \X Seq(S) |->
                      IF s[x[1]] \in ids THEN Append(x[2], s[x[1]]) ELSE x[2]]
<1>1. N \in Nat /\ \A n \in 1..N : s[n] \in S BY LenProperties, ElementOfSeq
<1>2. \E f : f = Body(f) /\ f \in [0..N -> Seq(S)]
  <2>1. ASSUME NEW n \in 1..N, NEW x \in Seq(S)
        PROVE  step[<<n, x>>] = (IF s[n] \in ids THEN Append(x, s[n]) ELSE x)
               /\ step[<<n, x>>] \in Seq(S)
    <3>1. Append(x, s[n]) \in Seq(S) BY <1>1, AppendProperties
    <3>2. <<n, x>> \in (1..N) \X Seq(S) OBVIOUS
    <3>3. step[<<n, x>>] = (IF s[n] \in ids THEN Append(x, s[n]) ELSE x) BY <3>2
    <3> HIDE DEF step
    <3> QED BY <3>1, <3>3
  <2>2. <<>> \in Seq(S) BY EmptySeq
  <2>3. PICK f \in [0..N -> Seq(S)] : f[0] = <<>> /\ \A n \in 1..N : f[n] = step[<<n, f[n - 1]>>]
    <3>1. StepsWithin(N, Seq(S), step) BY <2>1 DEF StepsWithin
    <3> HIDE DEF step, N
    <3>2. PICK f : Recursive(f, N, Seq(S), <<>>, step) BY <1>1, <2>2, <3>1, RecursionExists
    <3> QED BY <3>2 DEF Recursive
  <2>4. ASSUME NEW n \in 0..N PROVE f[n] = Body(f)[n]
    <3>1. CASE n = 0 BY <2>3, <3>1
    <3>2. CASE n # 0
      <4>1. n \in 1..N /\ n - 1 \in 0..N BY <3>2, <1>1
      <4>2. f[n - 1] \in Seq(S) BY <4>1
      <4>3. step[<<n, f[n - 1]>>] = IF s[n] \in ids THEN Append(f[n - 1], s[n]) ELSE f[n - 1]
        BY <4>1, <4>2, <2>1
      <4> HIDE DEF step
      <4> QED BY <2>3, <4>1, <4>3, <3>2
    <3> QED BY <3>1, <3>2
  <2>5. f = Body(f) BY <2>4
  <2> QED BY <2>5
<1>3. only = Body(only) BY <1>2
<1> HIDE DEF only
<1> DEFINE Bad == {n \in 0..N : ~ /\ only[n] \in Seq(S)
                                  /\ ToSet(only[n]) = {s[i] : i \in 1..n} \cap ids}
<1>4. Bad = {}
  <2>1. SUFFICES ASSUME Bad # {} PROVE FALSE OBVIOUS
  <2>2. PICK n \in Bad : \A m \in Bad : n <= m
    <3>1. Bad \in SUBSET Nat BY <1>1
    <3> HIDE DEF Bad
    <3> QED BY <2>1, <3>1, LeastElement
  <2>3. n \in 0..N BY <2>2
  <2>4. CASE n = 0
    <3>1. only[n] = <<>> BY <1>3, <2>3, <2>4
    <3>2. ToSet(<<>>) = {} BY DEF ToSet
    <3>3. {s[i] : i \in 1..n} = {} BY <2>4
    <3>4. <<>> \in Seq(S) BY EmptySeq
    <3>5. n \notin Bad BY <3>1, <3>2, <3>3, <3>4
    <3> QED BY <3>5, <2>2
  <2>5. CASE n # 0
    <3>1. n - 1 \in 0..N /\ n \in 1..N /\ ~ (n <= n - 1) BY <2>3, <2>5, <1>1
    <3>2. n - 1 \notin Bad BY <2>2, <3>1
    <3>3. /\ only[n - 1] \in Seq(S)
          /\ ToSet(only[n - 1]) = {s[i] : i \in 1..(n - 1)} \cap ids
      BY <3>1, <3>2
    <3>4. only[n] = IF s[n] \in ids THEN Append(only[n - 1], s[n]) ELSE only[n - 1]
      BY <1>3, <2>3, <2>5
    <3>5. {s[i] : i \in 1..n} = {s[i] : i \in 1..(n - 1)} \cup {s[n]}
      <4>1. 1..n = 1..(n - 1) \cup {n} BY <3>1
      <4> QED BY <4>1
    <3>6. s[n] \in S BY <3>1, <1>1
    <3>7. CASE s[n] \in ids
      <4>1. /\ Append(only[n - 1], s[n]) \in Seq(S)
            /\ ToSet(Append(only[n - 1], s[n])) = ToSet(only[n - 1]) \cup {s[n]}
        BY <3>3, <3>6, AppendedSet
      <4>2. n \notin Bad BY <4>1, <3>3, <3>4, <3>5, <3>7
      <4> QED BY <4>2
    <3>8. CASE s[n] \notin ids
      <4>1. n \notin Bad BY <3>3, <3>4, <3>5, <3>8
      <4> QED BY <4>1
    <3> QED BY <3>7, <3>8
  <2> QED BY <2>4, <2>5
<1>5. only[N] \in Seq(S) /\ ToSet(only[N]) = {s[i] : i \in 1..N} \cap ids
  BY <1>4, <1>1
<1>6. ToSet(s) = {s[i] : i \in 1..N} BY LenProperties DEF ToSet
<1>7. Only(s, ids) = only[N] BY DEF Only, only
<1> QED BY <1>5, <1>6, <1>7

\* ... and Without all but one.
LEMMA WithoutKeeps ==
  ASSUME NEW S, NEW s \in Seq(S), NEW x
  PROVE  Without(s, x) \in Seq(S) /\ ToSet(Without(s, x)) = ToSet(s) \ {x}
BY OnlyKeeps DEF Without

\* The elements of the sequences that the page builds its tab history from.
LEMMA SetOfSequence ==
  ASSUME NEW S, NEW s \in Seq(S)
  PROVE  /\ ToSet(s) \subseteq S /\ ToSet(<<>>) = {}
         /\ \A x \in S : <<x>> \in Seq(S) /\ ToSet(<<x>>) = {x}
         /\ \A x \in S : Append(s, x) \in Seq(S) /\ ToSet(Append(s, x)) = ToSet(s) \cup {x}
         /\ \A t \in Seq(S) : s \o t \in Seq(S) /\ ToSet(s \o t) = ToSet(s) \cup ToSet(t)
         /\ s # <<>> => Last(s) \in ToSet(s)
<1>1. Len(s) \in Nat /\ \A i \in 1..Len(s) : s[i] \in S BY LenProperties, ElementOfSeq
<1>2. ToSet(s) \subseteq S BY <1>1, LenProperties DEF ToSet
<1>3. ToSet(<<>>) = {} BY DEF ToSet
<1>4. \A x \in S : <<x>> \in Seq(S) /\ ToSet(<<x>>) = {x} BY DEF ToSet
<1>5. \A x \in S : Append(s, x) \in Seq(S) /\ ToSet(Append(s, x)) = ToSet(s) \cup {x}
  BY AppendedSet
<1>6. ASSUME NEW t \in Seq(S)
      PROVE  s \o t \in Seq(S) /\ ToSet(s \o t) = ToSet(s) \cup ToSet(t)
  <2>1. Len(t) \in Nat BY LenProperties
  <2>2. s \o t \in Seq(S) /\ Len(s \o t) = Len(s) + Len(t) BY ConcatProperties
  <2>3. \A i \in 1..Len(s) : i \in 1..Len(s \o t) /\ (s \o t)[i] = s[i]
    BY <1>1, <2>1, <2>2, ConcatProperties
  <2>4. \A i \in 1..Len(t) : Len(s) + i \in 1..Len(s \o t) /\ (s \o t)[Len(s) + i] = t[i]
    BY <1>1, <2>1, <2>2, ConcatProperties
  <2>5. \A i \in 1..Len(s \o t) : i \in 1..Len(s) \/ i - Len(s) \in 1..Len(t)
    BY <1>1, <2>1, <2>2
  <2>6. \A i \in 1..Len(s \o t) : (s \o t)[i] \in ToSet(s) \cup ToSet(t)
    <3>1. ASSUME NEW i \in 1..Len(s \o t) PROVE (s \o t)[i] \in ToSet(s) \cup ToSet(t)
      <4>1. CASE i \in 1..Len(s) BY <4>1, <2>3, LenProperties DEF ToSet
      <4>2. CASE i - Len(s) \in 1..Len(t)
        <5>1. Len(s) + (i - Len(s)) = i BY <1>1
        <5>2. (s \o t)[i] = t[i - Len(s)] BY <4>2, <2>4, <5>1
        <5> QED BY <4>2, <5>2, LenProperties DEF ToSet
      <4> QED BY <4>1, <4>2, <2>5
    <3> QED BY <3>1
  <2>7. \A i \in 1..Len(s) : s[i] \in ToSet(s \o t)
    BY <2>2, <2>3, LenProperties DEF ToSet
  <2>8. \A i \in 1..Len(t) : t[i] \in ToSet(s \o t)
    BY <2>2, <2>4, LenProperties DEF ToSet
  <2>9. DOMAIN s = 1..Len(s) /\ DOMAIN t = 1..Len(t) /\ DOMAIN (s \o t) = 1..Len(s \o t)
    BY <2>2, LenProperties
  <2>10. ToSet(s \o t) \subseteq ToSet(s) \cup ToSet(t) BY <2>6, <2>9 DEF ToSet
  <2>11. ToSet(s) \subseteq ToSet(s \o t) BY <2>7, <2>9 DEF ToSet
  <2>12. ToSet(t) \subseteq ToSet(s \o t) BY <2>8, <2>9 DEF ToSet
  <2> QED BY <2>2, <2>10, <2>11, <2>12
<1>7. s # <<>> => Last(s) \in ToSet(s)
  <2>1. s # <<>> => Len(s) \in 1..Len(s) BY <1>1, EmptySeq
  <2> QED BY <2>1, LenProperties DEF Last, ToSet
<1> QED BY <1>2, <1>3, <1>4, <1>5, <1>6, <1>7

-----------------------------------------------------------------------------
(* The inductive invariant *)

Answers == {"sent", "ok", "not found", "failed"}
TabRow == [from : Editors \cup {New}, table : BOOLEAN, there : BOOLEAN]

StorageKept(st) ==
  /\ st \in [there : BOOLEAN, editors : SUBSET Editors, tables : SUBSET Tabled,
             history : Seq(Editors)]
  /\ ToSet(st.history) \subseteq st.editors

\* What a page shows is of its editors, or the tab that its rendering came late for.
Showing(page) ==
  \/ page.history = <<>> \/ Last(page.history) \in page.editors
  \/ page.late /\ Last(page.history) = page.active

\* ids: those of the tabs that the server has, or had.
OpenKept(page, ids) ==
  /\ page \in [at : {"open"}, active : ids \cup {NoTab}, late : BOOLEAN, up : BOOLEAN,
               editors : SUBSET (Editors \cup ids), loaded : SUBSET (Editors \cup ids),
               history : Seq(Editors \cup ids), tables : SUBSET Tabled]
  /\ page.up \/ page.late
  /\ Showing(page)

RenderingKept(page, ids) ==
  page \in [at : {"rendering"}, tabs : SUBSET ids, rows : {0} \cup ids]

RenderedKept(page, ids) ==
  /\ page \in [at : {"rendered"}, tabs : SUBSET ids, active : ids \cup {NoTab},
               late : BOOLEAN]
  /\ page.late \/ page.active \in page.tabs \cup {NoTab}

PageKept(page, ids) ==
  \/ page = Closed \/ RenderingKept(page, ids)
  \/ RenderedKept(page, ids) \/ OpenKept(page, ids)

\* A page that is half rendered has every tab of the rows it has seen.
AllRead(page, rows) ==
  page.at = "rendering" =>
    \A id \in DOMAIN rows : rows[id].there /\ id <= page.rows => id \in page.tabs

RequestKept(r, rows) ==
  LET ids == DOMAIN rows IN
  /\ r \in [win : Windows \cup {NoWindow}, kind : Kinds, of : Editors \cup ids \cup {New},
            tab : ids \cup {NoTab}, answer : Answers]
  /\ r.win = NoWindow => r.answer = "sent"
  /\ r.kind = "migrate" =>
       r.of \in Editors /\ (r.answer = "ok" => r.tab \in ids /\ rows[r.tab].from = r.of)
  /\ r.kind = "add" => r.of = New /\ (r.answer = "ok" => r.tab \in ids)
  /\ r.kind \in {"activate", "get", "delete"} => r.of \in Editors \cup ids

RowsTyped == tabs \in Seq(TabRow) /\ (active = NoTab \/ IsTab(active))
PagesTyped ==
  /\ windows = [w \in Windows |-> windows[w]]
  /\ \A w \in Windows : PageKept(windows[w], TabIds) /\ AllRead(windows[w], tabs)
RequestsTyped ==
  /\ IsFiniteSet(reqs)
  /\ \A r \in reqs : RequestKept(r, tabs) /\ (r.win # NoWindow => windows[r.win].at = "open")
Bounded == starts \in 0..MaxStarts /\ clicks \in 0..MaxClicks /\ lost \in 0..MaxLost

IInv ==
  RowsTyped /\ StorageKept(storage) /\ PagesTyped /\ RequestsTyped /\ Bounded
    /\ LocalEditorsKept

\* The rows of tab_state are added and marked deleted, for good, and keep their origin.
Grow(rows, more) ==
  /\ rows \in Seq(TabRow) /\ more \in Seq(TabRow)
  /\ DOMAIN rows \subseteq DOMAIN more
  /\ \A id \in DOMAIN rows :
       more[id].from = rows[id].from /\ (more[id].there => rows[id].there)

\* What a page says stays true when there are more tabs.
LEMMA PageGrows ==
  ASSUME NEW ids, NEW more, ids \subseteq more, NEW page, PageKept(page, ids)
  PROVE  PageKept(page, more)
<1>1. CASE page = Closed BY <1>1 DEF PageKept
<1>2. CASE RenderedKept(page, ids)
  <2>1. RenderedKept(page, more) BY <1>2 DEF RenderedKept
  <2> QED BY <2>1 DEF PageKept
<1>4. CASE RenderingKept(page, ids)
  <2>1. RenderingKept(page, more) BY <1>4 DEF RenderingKept
  <2> QED BY <2>1 DEF PageKept
<1>3. CASE OpenKept(page, ids)
  <2>1. page.history \in Seq(Editors \cup more)
    <3>1. page.history \in Seq(Editors \cup ids) BY <1>3 DEF OpenKept
    <3> QED BY <3>1, SeqMonotonic
  <2>2. OpenKept(page, more) BY <1>3, <2>1 DEF OpenKept
  <2> QED BY <2>2 DEF PageKept
<1> QED BY <1>1, <1>2, <1>3, <1>4 DEF PageKept

\* ... and so does what it has read of them,
LEMMA ReadGrows ==
  ASSUME NEW rows, NEW more, Grow(rows, more), NEW page, PageKept(page, DOMAIN rows),
         AllRead(page, rows)
  PROVE  AllRead(page, more)
<1> SUFFICES ASSUME page.at = "rendering", NEW id \in DOMAIN more,
                    more[id].there, id <= page.rows
             PROVE  id \in page.tabs
  BY DEF AllRead
<1>1. RenderingKept(page, DOMAIN rows) BY DEF PageKept, RenderedKept, OpenKept, Closed
<1>2. DOMAIN rows = 1..Len(rows) /\ DOMAIN more = 1..Len(more) /\ Len(rows) \in Nat
  BY LenProperties DEF Grow
<1>3. id \in DOMAIN rows BY <1>1, <1>2 DEF RenderingKept
<1> QED BY <1>3 DEF AllRead, Grow

\* ... and so does what a request or its answer says.
LEMMA RequestGrows ==
  ASSUME NEW rows, NEW more, Grow(rows, more), NEW r, RequestKept(r, rows)
  PROVE  RequestKept(r, more)
BY DEF RequestKept, Grow

\* The invariant holds initially.
LEMMA InitTyped == Init => IInv
<1> SUFFICES ASSUME Init PROVE IInv OBVIOUS
<1>1. RowsTyped
  <2>1. <<>> \in Seq(TabRow) BY EmptySeq
  <2> QED BY <2>1 DEF RowsTyped, Init
<1>2. StorageKept(storage) /\ LocalEditorsKept
  <2>1. PICK e \in Editors :
          storage = [there |-> TRUE, editors |-> Editors, tables |-> Tabled, history |-> <<e>>]
    BY DEF Init
  <2>2. <<e>> \in Seq(Editors) /\ ToSet(<<e>>) = {e}
    <3>1. <<>> \in Seq(Editors) BY EmptySeq
    <3> QED BY <3>1, SetOfSequence
  <2>3. StorageKept(storage) BY <2>1, <2>2, TabsAssumption DEF StorageKept
  <2> QED BY <2>1, <2>3 DEF LocalEditorsKept
<1>3. PagesTyped BY DEF PagesTyped, PageKept, AllRead, Closed, Init
<1>4. RequestsTyped BY FS_EmptySet DEF RequestsTyped, Init
<1>5. Bounded BY TabsAssumption DEF Bounded, Init
<1> QED BY <1>1, <1>2, <1>3, <1>4, <1>5 DEF IInv

\* A request of the server's keeps the invariant, if the row that it changes has the
\* same origin.
LEMMA ServerKeeps ==
  ASSUME IInv, NEW r \in reqs, NEW answer \in Answers \ {"sent"}, NEW tab,
         Reply(r, answer, tab),
         RowsTyped', Grow(tabs, tabs'), UNCHANGED <<storage, windows, bounds>>,
         r.win # NoWindow => RequestKept([r EXCEPT !.answer = answer, !.tab = tab], tabs')
  PROVE  IInv'
<1>1. StorageKept(storage)' BY DEF IInv, StorageKept
<1>2. PagesTyped'
  <2>1. TabIds \subseteq TabIds' BY DEF Grow, TabIds
  <2>2. \A w \in Windows : PageKept(windows[w], TabIds') BY <2>1, PageGrows DEF IInv, PagesTyped
  <2>3. \A w \in Windows : AllRead(windows[w], tabs')
    BY ReadGrows DEF IInv, PagesTyped, TabIds
  <2> QED BY <2>2, <2>3 DEF IInv, PagesTyped
<1>3. RequestsTyped'
  <2> DEFINE done == [r EXCEPT !.answer = answer, !.tab = tab]
  <2>1. RequestKept(r, tabs) BY DEF IInv, RequestsTyped
  <2>2. done.win = r.win BY <2>1 DEF RequestKept
  <2>3. reqs' = (reqs \ {r}) \cup (IF r.win = NoWindow THEN {} ELSE {done}) BY DEF Reply
  <2>4. IsFiniteSet(reqs')
    <3>1. IsFiniteSet(reqs \ {r}) BY FS_RemoveElement DEF IInv, RequestsTyped
    <3>2. IsFiniteSet((reqs \ {r}) \cup {done})
      <4> HIDE DEF done
      <4> QED BY <3>1, FS_AddElement
    <3> QED BY <2>3, <3>1, <3>2
  <2>5. \A q \in reqs : RequestKept(q, tabs') BY RequestGrows DEF IInv, RequestsTyped
  <2>6. \A q \in reqs' : RequestKept(q, tabs')
    <3> HIDE DEF done
    <3>1. r.win # NoWindow => RequestKept(done, tabs') BY DEF done
    <3> QED BY <2>3, <2>5, <3>1
  <2>7. \A q \in reqs' : q.win # NoWindow => windows[q.win].at = "open"
    <3> HIDE DEF done
    <3> QED BY <2>2, <2>3 DEF IInv, RequestsTyped
  <2> QED BY <2>4, <2>6, <2>7 DEF RequestsTyped
<1>4. Bounded' BY DEF IInv, Bounded, bounds
<1>5. LocalEditorsKept'
  <2>1. \A id \in TabIds : id \in TabIds' /\ tabs'[id].from = tabs[id].from BY DEF Grow, TabIds
  <2> QED BY <2>1 DEF IInv, LocalEditorsKept
<1> QED BY <1>1, <1>2, <1>3, <1>4, <1>5 DEF IInv

\* A step of the page at one window keeps it.
LEMMA PageKeeps ==
  ASSUME IInv, UNCHANGED serverVars, NEW w \in Windows, NEW page,
         windows' = [windows EXCEPT ![w] = page], PageKept(page, TabIds), AllRead(page, tabs),
         StorageKept(storage)', LocalEditorsKept', Bounded', IsFiniteSet(reqs'),
         \A r \in reqs' : /\ RequestKept(r, tabs)
                          /\ r.win # NoWindow => (windows')[r.win].at = "open"
  PROVE  IInv'
<1>1. RowsTyped' BY DEF IInv, RowsTyped, serverVars, IsTab, TabIds
<1>2. PagesTyped'
  <2>1. TabIds' = TabIds BY DEF serverVars, TabIds
  <2>2. \A v \in Windows : (windows')[v] = IF v = w THEN page ELSE windows[v]
    BY DEF IInv, PagesTyped
  <2>3. windows' = [v \in Windows |-> (windows')[v]] BY DEF IInv, PagesTyped
  <2>4. \A v \in Windows : PageKept((windows')[v], TabIds) /\ AllRead((windows')[v], tabs)
    BY <2>2 DEF IInv, PagesTyped
  <2>5. tabs' = tabs BY DEF serverVars
  <2> QED BY <2>1, <2>3, <2>4, <2>5 DEF PagesTyped
<1>3. RequestsTyped' BY DEF RequestsTyped, serverVars
<1> QED BY <1>1, <1>2, <1>3 DEF IInv

-----------------------------------------------------------------------------
(* The server *)

\* Rows that stay as they are have grown.
LEMMA SameRowsGrow == ASSUME IInv PROVE Grow(tabs, tabs)
BY DEF IInv, RowsTyped, Grow

\* A row that is changed and keeps its origin.
LEMMA RowChanged ==
  ASSUME IInv, NEW id \in TabIds, NEW row \in TabRow, row.from = tabs[id].from,
         row.there => tabs[id].there
  PROVE  /\ Grow(tabs, [tabs EXCEPT ![id] = row])
         /\ \A x \in TabIds : [tabs EXCEPT ![id] = row][x] = IF x = id THEN row ELSE tabs[x]
         /\ DOMAIN [tabs EXCEPT ![id] = row] = TabIds
<1>1. tabs \in Seq(TabRow) /\ TabIds = 1..Len(tabs)
  BY LenProperties DEF IInv, RowsTyped, TabIds
<1>2. [tabs EXCEPT ![id] = row] \in Seq(TabRow) BY <1>1, ExceptSeq
<1>3. \A x \in TabIds : [tabs EXCEPT ![id] = row][x] = IF x = id THEN row ELSE tabs[x]
  BY DEF TabIds
<1>4. DOMAIN [tabs EXCEPT ![id] = row] = TabIds BY DEF TabIds
<1> DEFINE more == [tabs EXCEPT ![id] = row]
<1> HIDE DEF more
<1>5. Grow(tabs, more) BY <1>1, <1>2, <1>3, <1>4 DEF Grow, TabIds, more
<1> QED BY <1>3, <1>4, <1>5 DEF more

\* What the requests make of a row: it gets a table, or is marked deleted.
LEMMA RowRecord ==
  ASSUME NEW row \in TabRow
  PROVE  /\ [row EXCEPT !.table = TRUE] \in TabRow
         /\ [row EXCEPT !.table = TRUE].from = row.from
         /\ [row EXCEPT !.table = TRUE].there = row.there
         /\ [[row EXCEPT !.there = FALSE] EXCEPT !.table = FALSE] \in TabRow
         /\ [[row EXCEPT !.there = FALSE] EXCEPT !.table = FALSE].from = row.from
         /\ ~[[row EXCEPT !.there = FALSE] EXCEPT !.table = FALSE].there
BY DEF TabRow

\* POST /tabstateview/ adds a row.
LEMMA PostKeeps ==
  ASSUME IInv, NEW r \in reqs, Post(r), UNCHANGED <<storage, windows, bounds>>
  PROVE  IInv'
<1> DEFINE row == [from |-> r.of, table |-> FALSE, there |-> TRUE]
           id == Len(tabs')
<1>1. RequestKept(r, tabs) /\ r.kind \in {"migrate", "add"} BY DEF IInv, RequestsTyped, Post
<1>2. row \in TabRow BY <1>1 DEF RequestKept, TabRow
<1>3. tabs \in Seq(TabRow) /\ tabs' = Append(tabs, row) /\ active' = id
  BY DEF IInv, RowsTyped, Post
<1>4. /\ tabs' \in Seq(TabRow) /\ Len(tabs) \in Nat /\ id = Len(tabs) + 1 /\ tabs'[id] = row
      /\ \A i \in 1..Len(tabs) : tabs'[i] = tabs[i]
  <2> HIDE DEF row
  <2> QED BY <1>2, <1>3, AppendProperties, LenProperties
<1>5. DOMAIN tabs = 1..Len(tabs) /\ DOMAIN tabs' = 1..id
  <2> HIDE DEF row
  <2> QED BY <1>3, <1>4, LenProperties
<1>6. Grow(tabs, tabs')
  <2> HIDE DEF row
  <2> QED BY <1>3, <1>4, <1>5 DEF Grow
<1>7. id \in DOMAIN tabs' /\ tabs'[id].from = r.of /\ tabs'[id].there BY <1>4, <1>5
<1>8. RowsTyped' BY <1>3, <1>4, <1>7 DEF RowsTyped, IsTab, TabIds
<1>9. RequestKept([r EXCEPT !.answer = "ok", !.tab = id], tabs')
         \/ r.win = NoWindow
  <2>1. RequestKept(r, tabs') BY <1>1, <1>6, RequestGrows
  <2> HIDE DEF id
  <2> QED BY <2>1, <1>7 DEF RequestKept, Answers
<1>10. Reply(r, "ok", id) BY DEF Post
<1> HIDE DEF id
<1> QED BY <1>6, <1>8, <1>9, <1>10, ServerKeeps DEF Answers

\* What the other requests answer says nothing of a tab.
LEMMA AnswerTyped ==
  ASSUME NEW r, NEW rows, RequestKept(r, rows), r.kind \notin {"migrate", "add"},
         r.win # NoWindow,
         NEW answer \in Answers, NEW tab \in (DOMAIN rows) \cup {NoTab}
  PROVE  RequestKept([r EXCEPT !.answer = answer, !.tab = tab], rows)
BY DEF RequestKept

\* POST /tabstateview/<id>/activate makes a tab the active one.
LEMMA ActivateKeeps ==
  ASSUME IInv, NEW r \in reqs, Activate(r), UNCHANGED <<storage, windows, bounds>>
  PROVE  IInv'
<1> DEFINE answer == IF IsTab(r.of) THEN "ok" ELSE "not found"
<1>1. RequestKept(r, tabs) /\ r.kind = "activate" /\ tabs' = tabs
  BY DEF IInv, RequestsTyped, Activate
<1>2. answer \in Answers \ {"sent"} BY DEF Answers
<1>3. r.win # NoWindow => RequestKept([r EXCEPT !.answer = answer, !.tab = NoTab], tabs')
  <2> HIDE DEF answer
  <2> QED BY <1>1, <1>2, AnswerTyped
<1>4. RowsTyped' BY DEF IInv, RowsTyped, Activate, IsTab, TabIds
<1>5. Reply(r, answer, NoTab) /\ Grow(tabs, tabs') BY <1>1, SameRowsGrow DEF Activate
<1> HIDE DEF answer
<1> QED BY <1>2, <1>3, <1>4, <1>5, ServerKeeps

\* GET /tabstateview/<id> changes no row.
LEMMA GetKeeps ==
  ASSUME IInv, NEW r \in reqs, Get(r), UNCHANGED <<storage, windows, bounds>>
  PROVE  IInv'
<1> DEFINE answer == IF IsTab(r.of) THEN "ok" ELSE "failed"
<1>1. RequestKept(r, tabs) /\ r.kind = "get" /\ tabs' = tabs /\ active' = active
  BY DEF IInv, RequestsTyped, Get, serverVars
<1>2. answer \in Answers \ {"sent"} BY DEF Answers
<1>3. r.win # NoWindow => RequestKept([r EXCEPT !.answer = answer, !.tab = NoTab], tabs')
  <2> HIDE DEF answer
  <2> QED BY <1>1, <1>2, AnswerTyped
<1>4. RowsTyped' BY <1>1 DEF IInv, RowsTyped, IsTab, TabIds
<1>5. Reply(r, answer, NoTab) /\ Grow(tabs, tabs') BY <1>1, SameRowsGrow DEF Get
<1> HIDE DEF answer
<1> QED BY <1>2, <1>3, <1>4, <1>5, ServerKeeps

\* DELETE /tabstateview/<id> marks the row, and activates another one.
LEMMA DeleteKeeps ==
  ASSUME IInv, NEW r \in reqs, Delete(r), UNCHANGED <<storage, windows, bounds>>
  PROVE  IInv'
<1>1. RequestKept(r, tabs) /\ r.kind = "delete" BY DEF IInv, RequestsTyped, Delete
<1>2. CASE ~ IsTab(r.of)
  <2>1. tabs' = tabs /\ active' = active /\ Reply(r, "failed", NoTab) BY <1>2 DEF Delete
  <2>2. r.win # NoWindow => RequestKept([r EXCEPT !.answer = "failed", !.tab = NoTab], tabs')
    BY <1>1, <2>1, AnswerTyped DEF Answers
  <2>3. RowsTyped' BY <2>1 DEF IInv, RowsTyped, IsTab, TabIds
  <2> QED BY <2>1, <2>2, <2>3, SameRowsGrow, ServerKeeps DEF Answers
<1>3. CASE IsTab(r.of)
  <2> DEFINE id == r.of
             row == [[tabs[id] EXCEPT !.there = FALSE] EXCEPT !.table = FALSE]
  <2>1. id \in TabIds /\ tabs[id] \in TabRow
    BY <1>3, ElementOfSeq, LenProperties DEF IInv, RowsTyped, IsTab, TabIds
  <2>2. row \in TabRow /\ row.from = tabs[id].from /\ ~row.there BY <2>1, RowRecord
  <2>3. tabs' = [tabs EXCEPT ![id] = row]
    <3>1. tabs' = [tabs EXCEPT ![id].there = FALSE, ![id].table = FALSE] BY <1>3 DEF Delete
    <3>2. tabs \in [TabIds -> TabRow] BY LenProperties DEF IInv, RowsTyped, TabIds
    <3>3. \A x \in TabIds : (tabs')[x] = IF x = id THEN row ELSE tabs[x]
      <4> HIDE DEF id
      <4> QED BY <2>1, <3>1, <3>2
    <3>4. tabs' = [x \in TabIds |-> (tabs')[x]] BY <3>1, <3>2
    <3> HIDE DEF row, id
    <3> QED BY <2>1, <3>2, <3>3, <3>4
  <2>4. /\ Grow(tabs, tabs') /\ TabIds' = TabIds
        /\ \A x \in TabIds : x # id => tabs'[x] = tabs[x]
    <3> HIDE DEF row, id
    <3> QED BY <2>1, <2>2, <2>3, RowChanged DEF TabIds
  <2>5. active' = (IF active = id THEN NoTab ELSE active) /\ Reply(r, "ok", NoTab)
    BY <1>3 DEF Delete
  <2>6. RowsTyped'
    <3>1. tabs' \in Seq(TabRow) BY <2>4 DEF Grow
    <3>2. active' = NoTab \/ IsTab(active)'
      BY <2>4, <2>5 DEF IInv, RowsTyped, IsTab
    <3> QED BY <3>1, <3>2 DEF RowsTyped
  <2>7. r.win # NoWindow => RequestKept([r EXCEPT !.answer = "ok", !.tab = NoTab], tabs')
    <3>1. RequestKept(r, tabs') BY <1>1, <2>4, RequestGrows
    <3> QED BY <1>1, <3>1, AnswerTyped DEF Answers
  <2> QED BY <2>4, <2>5, <2>6, <2>7, ServerKeeps DEF Answers
<1> QED BY <1>2, <1>3

\* POST /tableschemaview/ gives a tab its table.
LEMMA PostTableKeeps ==
  ASSUME IInv, NEW r \in reqs, PostTable(r), UNCHANGED <<storage, windows, bounds>>
  PROVE  IInv'
<1> DEFINE answer == IF IsTab(r.tab) THEN "ok" ELSE "failed"
<1>1. RequestKept(r, tabs) /\ r.kind = "table" /\ active' = active /\ Reply(r, answer, r.tab)
  BY DEF IInv, RequestsTyped, PostTable
<1>2. answer \in Answers \ {"sent"} BY DEF Answers
<1>3. /\ Grow(tabs, tabs') /\ TabIds' = TabIds
      /\ \A x \in TabIds : tabs'[x].there = tabs[x].there
  <2>1. CASE ~ IsTab(r.tab)
    <3>1. tabs' = tabs BY <2>1 DEF PostTable
    <3> QED BY <3>1, SameRowsGrow DEF TabIds
  <2>2. CASE IsTab(r.tab)
    <3> DEFINE id == r.tab
               row == [tabs[id] EXCEPT !.table = TRUE]
    <3>1. id \in TabIds /\ tabs[id] \in TabRow
      BY <2>2, ElementOfSeq, LenProperties DEF IInv, RowsTyped, IsTab, TabIds
    <3>2. row \in TabRow /\ row.from = tabs[id].from /\ row.there = tabs[id].there
      BY <3>1, RowRecord
    <3>3. tabs' = [tabs EXCEPT ![id] = row]
      <4>1. tabs' = [tabs EXCEPT ![id].table = TRUE] BY <2>2 DEF PostTable
      <4> QED BY <4>1
    <3> HIDE DEF row, id
    <3> QED BY <3>1, <3>2, <3>3, RowChanged DEF TabIds
  <2> QED BY <2>1, <2>2
<1>4. RowsTyped'
  <2>1. tabs' \in Seq(TabRow) BY <1>3 DEF Grow
  <2> QED BY <1>1, <1>3, <2>1 DEF IInv, RowsTyped, IsTab
<1>5. r.win # NoWindow => RequestKept([r EXCEPT !.answer = answer, !.tab = r.tab], tabs')
  <2>1. RequestKept(r, tabs') BY <1>1, <1>3, RequestGrows
  <2>2. r.tab \in DOMAIN tabs' \cup {NoTab} BY <2>1 DEF RequestKept
  <2> HIDE DEF answer
  <2> QED BY <1>1, <1>2, <2>1, <2>2, AnswerTyped
<1> HIDE DEF answer
<1> QED BY <1>1, <1>2, <1>3, <1>4, <1>5, ServerKeeps

-----------------------------------------------------------------------------
(* The page *)

\* The requests under way stay well formed while their window is open.
LEMMA OldRequests ==
  ASSUME IInv, NEW w \in Windows, NEW page, windows' = [windows EXCEPT ![w] = page],
         page.at = "open" \/ windows[w].at # "open"
  PROVE  \A r \in reqs : /\ RequestKept(r, tabs)
                         /\ r.win # NoWindow => (windows')[r.win].at = "open"
<1>1. \A v \in Windows : (windows')[v] = IF v = w THEN page ELSE windows[v]
  BY DEF IInv, PagesTyped
<1>2. \A r \in reqs : /\ RequestKept(r, tabs) /\ r.win \in Windows \cup {NoWindow}
                      /\ r.win # NoWindow => windows[r.win].at = "open"
  BY DEF IInv, RequestsTyped, RequestKept
<1> QED BY <1>1, <1>2

\* A request that a page sends is one that the server can answer.
LEMMA NewRequest ==
  ASSUME NEW w \in Windows, NEW rows, NEW kind \in Kinds,
         NEW of \in Editors \cup (DOMAIN rows) \cup {New}, NEW tab \in (DOMAIN rows) \cup {NoTab},
         kind = "migrate" => of \in Editors, kind = "add" => of = New,
         kind \in {"activate", "get", "delete"} => of \in Editors \cup DOMAIN rows
  PROVE  RequestKept(Request(w, kind, of, tab), rows) /\ Request(w, kind, of, tab).win = w
BY TabsAssumption DEF RequestKept, Request, Answers, Kinds

\* ... so is one for a tab that the page shows.
LEMMA NewTabRequest ==
  ASSUME NEW w \in Windows, NEW rows, NEW kind \in {"activate", "get", "delete"},
         NEW of \in Editors \cup DOMAIN rows
  PROVE  RequestKept(Request(w, kind, of, NoTab), rows) /\ Request(w, kind, of, NoTab).win = w
BY TabsAssumption DEF RequestKept, Request, Answers, Kinds

\* A window whose page stays as it is.
LEMMA SamePage ==
  ASSUME IInv, NEW w \in Windows
  PROVE  /\ windows = [windows EXCEPT ![w] = windows[w]]
         /\ PageKept(windows[w], TabIds) /\ AllRead(windows[w], tabs)
BY DEF IInv, PagesTyped

\* What the invariant says of a page that is open.
LEMMA OpenPage ==
  ASSUME IInv, NEW w \in Windows, windows[w].at = "open"
  PROVE  OpenKept(windows[w], TabIds)
BY DEF IInv, PagesTyped, PageKept, RenderingKept, RenderedKept, Closed

\* The server reads the ids of the tabs.
LEMMA ReadTabIdsKeeps ==
  ASSUME IInv, NEW w \in Windows, ReadTabIds(w)
  PROVE  IInv'
<1> DEFINE page == [at |-> "rendering", tabs |-> TabsThere, rows |-> Len(tabs)]
<1>1. TabIds = 1..Len(tabs) /\ Len(tabs) \in Nat
  BY LenProperties DEF IInv, RowsTyped, TabIds
<1>2. PageKept(page, TabIds)
  <2>1. TabsThere \subseteq TabIds BY DEF TabsThere
  <2>2. Len(tabs) \in {0} \cup TabIds BY <1>1
  <2>3. RenderingKept(page, TabIds) BY <2>1, <2>2 DEF RenderingKept
  <2> QED BY <2>3 DEF PageKept
<1>3. AllRead(page, tabs) BY DEF AllRead, TabsThere, IsTab, TabIds
<1>4. windows' = [windows EXCEPT ![w] = page] BY DEF ReadTabIds
<1>5. UNCHANGED <<serverVars, storage, reqs, clicks, lost>> /\ windows[w].at # "open"
  BY DEF ReadTabIds, Closed
<1>6. Bounded'
  <2>1. starts \in 0..MaxStarts /\ starts < MaxStarts /\ starts' = starts + 1
    BY DEF IInv, Bounded, ReadTabIds
  <2> QED BY <1>5, <2>1, TabsAssumption DEF IInv, Bounded
<1>7. StorageKept(storage)' /\ LocalEditorsKept' /\ IsFiniteSet(reqs')
  BY <1>5 DEF IInv, RequestsTyped, LocalEditorsKept, StorageKept, serverVars, TabIds
<1> HIDE DEF page
<1>8. \A r \in reqs : /\ RequestKept(r, tabs)
                      /\ r.win # NoWindow => (windows')[r.win].at = "open"
  BY <1>4, <1>5, OldRequests
<1> QED BY <1>2, <1>3, <1>4, <1>5, <1>6, <1>7, <1>8, PageKeeps

\* ... and then the active tab, which is one of them unless there are new rows.
LEMMA ReadActiveTabKeeps ==
  ASSUME IInv, NEW w \in Windows, ReadActiveTab(w)
  PROVE  IInv'
<1> DEFINE old == windows[w]
<1>1. PICK first \in IF active # NoTab THEN {active}
                     ELSE IF TabsThere # {} THEN TabsThere ELSE {NoTab} :
        windows' = [windows EXCEPT ![w] =
          [at |-> "rendered", tabs |-> old.tabs, active |-> first,
           late |-> Len(tabs) > old.rows]]
  BY DEF ReadActiveTab
<1> DEFINE page == [at |-> "rendered", tabs |-> old.tabs, active |-> first,
                    late |-> Len(tabs) > old.rows]
<1>2. TabIds = 1..Len(tabs) /\ Len(tabs) \in Nat
  BY LenProperties DEF IInv, RowsTyped, TabIds
<1>3. old.at = "rendering" BY DEF ReadActiveTab
<1>4. RenderingKept(old, TabIds) /\ AllRead(old, tabs)
  BY <1>3, SamePage DEF PageKept, RenderedKept, OpenKept, Closed
<1>5. first = NoTab \/ IsTab(first) BY <1>1 DEF IInv, RowsTyped, TabsThere
<1>6. ASSUME ~(Len(tabs) > old.rows), first # NoTab PROVE first \in old.tabs
  <2>1. first \in 1..Len(tabs) /\ tabs[first].there BY <1>2, <1>5, <1>6 DEF IsTab
  <2>2. old.rows \in Nat BY <1>2, <1>4 DEF RenderingKept
  <2>3. first <= old.rows
    <3> HIDE DEF old
    <3> QED BY <1>2, <1>6, <2>1, <2>2
  <2> QED BY <1>2, <1>3, <1>4, <2>1, <2>3 DEF AllRead, TabIds
<1>7. PageKept(page, TabIds)
  <2>1. first \in TabIds \cup {NoTab} /\ old.tabs \subseteq TabIds
    BY <1>4, <1>5 DEF IsTab, RenderingKept
  <2>2. RenderedKept(page, TabIds)
    <3> DEFINE late == Len(tabs) > old.rows
    <3>1. late \in BOOLEAN /\ (late \/ first \in old.tabs \cup {NoTab}) BY <1>6
    <3>2. page = [at |-> "rendered", tabs |-> old.tabs, active |-> first, late |-> late]
      OBVIOUS
    <3> HIDE DEF old, late, page
    <3> QED BY <2>1, <3>1, <3>2 DEF RenderedKept
  <2> QED BY <2>2 DEF PageKept
<1>8. AllRead(page, tabs) BY DEF AllRead
<1>9. windows' = [windows EXCEPT ![w] = page] BY <1>1
<1>10. UNCHANGED <<serverVars, storage, reqs, bounds>> /\ windows[w].at # "open"
  BY <1>3 DEF ReadActiveTab
<1>11. StorageKept(storage)' /\ LocalEditorsKept' /\ IsFiniteSet(reqs') /\ Bounded'
  BY <1>10 DEF IInv, RequestsTyped, LocalEditorsKept, StorageKept, Bounded, bounds,
               serverVars, TabIds
<1> HIDE DEF page, old
<1>12. \A r \in reqs : /\ RequestKept(r, tabs)
                       /\ r.win # NoWindow => (windows')[r.win].at = "open"
  BY <1>9, <1>10, OldRequests
<1> QED BY <1>7, <1>8, <1>9, <1>10, <1>11, <1>12, PageKeeps

\* The page starts: what was in the storage is moved, or dropped.
LEMMA StartKeeps ==
  ASSUME IInv, NEW w \in Windows, Start(w)
  PROVE  IInv'
<1> DEFINE old == windows[w]
           local == storage.editors
           editors == old.tabs \cup local
           first == IF old.active = NoTab THEN <<>> ELSE <<old.active>>
           history == IF local = {} THEN first ELSE first \o storage.history
           up == editors = {} \/ history = <<>> \/ Last(history) \in editors
           page == [at |-> "open", active |-> old.active, late |-> old.late, up |-> up,
                    editors |-> editors, loaded |-> ToSet(first) \cup local,
                    history |-> history,
                    tables |-> IF local = {} THEN {} ELSE storage.tables]
           new == IF editors = {} THEN {Request(w, "add", New, NoTab)}
                  ELSE {Request(w, "migrate", e, NoTab) : e \in local}
<1>1. /\ old.at = "rendered" /\ storage' = StorageOnStart
      /\ windows' = [windows EXCEPT ![w] = page] /\ reqs' = reqs \cup new
      /\ UNCHANGED <<serverVars, bounds>>
  BY DEF Start, ToMigrate
<1>2. RenderedKept(old, TabIds)
  BY <1>1, SamePage DEF PageKept, RenderingKept, OpenKept, Closed
<1>3. StorageKept(storage) BY DEF IInv
<1>4. /\ first \in Seq(Editors \cup TabIds) /\ ToSet(first) \subseteq TabIds
      /\ ToSet(first) \subseteq {old.active}
      /\ old.late \/ ToSet(first) \subseteq old.tabs
  <2>1. <<>> \in Seq(Editors \cup TabIds) /\ ToSet(<<>>) = {} BY EmptySeq, SetOfSequence
  <2>2. CASE old.active = NoTab BY <2>1, <2>2
  <2>3. CASE old.active # NoTab
    <3>1. old.active \in TabIds /\ (old.late \/ old.active \in old.tabs)
      BY <1>2, <2>3 DEF RenderedKept
    <3>2. first = <<old.active>> BY <2>3
    <3>3. old.active \in Editors \cup TabIds BY <3>1
    <3>4. first \in Seq(Editors \cup TabIds) /\ ToSet(first) = {old.active}
      <4> HIDE DEF first, old
      <4> QED BY <2>1, <3>2, <3>3, SetOfSequence
    <3> QED BY <3>1, <3>4
  <2> QED BY <2>2, <2>3
<1>5. PageKept(page, TabIds)
  <2>1. storage.history \in Seq(Editors \cup TabIds) /\ ToSet(storage.history) \subseteq local
    BY <1>3, SeqMonotonic DEF StorageKept
  <2>2. /\ first \o storage.history \in Seq(Editors \cup TabIds)
        /\ ToSet(first \o storage.history) = ToSet(first) \cup ToSet(storage.history)
    <3> HIDE DEF first
    <3> QED BY <1>4, <2>1, SetOfSequence
  <2>3. editors \subseteq Editors \cup TabIds /\ local \subseteq Editors
    BY <1>2, <1>3 DEF RenderedKept, StorageKept
  <2>4. /\ history \in Seq(Editors \cup TabIds)
        /\ ToSet(history) \subseteq {old.active} \cup editors
        /\ old.late \/ ToSet(history) \subseteq editors
    <3> HIDE DEF first
    <3> QED BY <1>4, <2>1, <2>2
  <2>5. history # <<>> => Last(history) \in ToSet(history)
    <3> HIDE DEF history
    <3> QED BY <2>4, SetOfSequence
  <2>6. page.tables \subseteq Tabled /\ page.loaded \subseteq Editors \cup TabIds
    <3> HIDE DEF first
    <3> QED BY <1>2, <1>3, <1>4, <2>3 DEF StorageKept, RenderedKept
  <2>7. up \in BOOLEAN /\ (up \/ old.late)
    <3> HIDE DEF history, editors, old
    <3> QED BY <2>4, <2>5
  <2>8. \/ history = <<>> \/ Last(history) \in editors
        \/ old.late /\ Last(history) = old.active
    <3> HIDE DEF history, editors, old
    <3> QED BY <2>4, <2>5
  <2>9. OpenKept(page, TabIds)
    <3>1. old.active \in TabIds \cup {NoTab} /\ old.late \in BOOLEAN BY <1>2 DEF RenderedKept
    <3>2. Showing(page) BY <2>8 DEF Showing
    <3> HIDE DEF first, history, editors, up, old
    <3> QED BY <2>3, <2>4, <2>6, <2>7, <3>1, <3>2 DEF OpenKept
  <2> QED BY <2>9 DEF PageKept
<1>6. StorageKept(storage)'
  <2>1. StorageKept(NoStorage)
    <3>1. <<>> \in Seq(Editors) /\ ToSet(<<>>) = {} BY EmptySeq, SetOfSequence
    <3> QED BY <3>1 DEF StorageKept, NoStorage
  <2> QED BY <1>1, <1>3, <2>1 DEF StorageOnStart
<1>7. LocalEditorsKept'
  BY <1>1 DEF IInv, LocalEditorsKept, StorageOnStart, serverVars, TabIds
<1>8. IsFiniteSet(reqs')
  <2>1. IsFiniteSet(local) BY <1>3, FS_Subset, TabsAssumption DEF StorageKept
  <2>2. IsFiniteSet({Request(w, "migrate", e, NoTab) : e \in local})
    <3> DEFINE f == [e \in local |-> Request(w, "migrate", e, NoTab)]
    <3>1. {Request(w, "migrate", e, NoTab) : e \in local} = {f[e] : e \in local} OBVIOUS
    <3>2. IsFiniteSet({f[e] : e \in local})
      <4> HIDE DEF f
      <4> QED BY <2>1, ImageIsFinite
    <3> QED BY <3>1, <3>2
  <2>3. IsFiniteSet({Request(w, "add", New, NoTab)}) BY FS_Singleton
  <2>4. IsFiniteSet(new) BY <2>2, <2>3
  <2> HIDE DEF new
  <2> QED BY <1>1, <2>4, FS_Union DEF IInv, RequestsTyped
<1>9. \A r \in reqs' : /\ RequestKept(r, tabs)
                       /\ r.win # NoWindow => (windows')[r.win].at = "open"
  <2>1. \A r \in reqs : /\ RequestKept(r, tabs)
                        /\ r.win # NoWindow => (windows')[r.win].at = "open"
    <3>1. page.at = "open" OBVIOUS
    <3> HIDE DEF page
    <3> QED BY <1>1, <3>1, OldRequests
  <2>2. \A r \in new : RequestKept(r, tabs) /\ r.win = w
    <3>1. RequestKept(Request(w, "add", New, NoTab), tabs) /\ Request(w, "add", New, NoTab).win = w
      <4> DEFINE kind == "add"
      <4>1. kind \in Kinds /\ kind # "migrate" /\ kind \notin {"activate", "get", "delete"}
        BY DEF Kinds
      <4>2. New \in Editors \cup (DOMAIN tabs) \cup {New} /\ NoTab \in (DOMAIN tabs) \cup {NoTab}
        OBVIOUS
      <4> HIDE DEF kind
      <4>3. RequestKept(Request(w, kind, New, NoTab), tabs) /\ Request(w, kind, New, NoTab).win = w
        BY <4>1, <4>2, NewRequest
      <4> QED BY <4>3 DEF kind
    <3>2. ASSUME NEW e \in local
          PROVE  /\ RequestKept(Request(w, "migrate", e, NoTab), tabs)
                 /\ Request(w, "migrate", e, NoTab).win = w
      <4>1. e \in Editors BY <1>3 DEF StorageKept
      <4> QED BY ZenonT(40), <4>1, NewRequest DEF Kinds
    <3> QED BY <3>1, <3>2
  <2>3. (windows')[w].at = "open"
    <3>1. page.at = "open" OBVIOUS
    <3> HIDE DEF page
    <3> QED BY <1>1, <3>1 DEF IInv, PagesTyped
  <2> HIDE DEF new
  <2> QED BY <1>1, <2>1, <2>2, <2>3
<1>10. Bounded' BY <1>1 DEF IInv, Bounded, bounds
<1>11. AllRead(page, tabs) BY DEF AllRead
<1> HIDE DEF page
<1> QED BY <1>1, <1>5, <1>6, <1>7, <1>8, <1>9, <1>10, <1>11, PageKeeps

\* A window is closed, and its requests go on without it.
LEMMA CloseKeeps ==
  ASSUME IInv, NEW w \in Windows, CloseWindow(w)
  PROVE  IInv'
<1> DEFINE sent == {r \in reqs : r.win = w /\ r.answer = "sent"}
           away(r) == [r EXCEPT !.win = NoWindow]
<1>1. PICK late \in SUBSET sent :
        /\ lost' = lost + Cardinality(late) /\ lost' <= MaxLost
        /\ reqs' = {r \in reqs : r.win # w} \cup {away(r) : r \in late}
  BY DEF CloseWindow
<1>2. windows' = [windows EXCEPT ![w] = Closed] /\ PageKept(Closed, TabIds)
  BY DEF CloseWindow, PageKept
<1>3. UNCHANGED <<serverVars, storage, starts, clicks>> BY DEF CloseWindow
<1>4. IsFiniteSet(reqs) /\ late \subseteq reqs BY DEF IInv, RequestsTyped
<1>5. Bounded'
  <2>1. IsFiniteSet(late) BY <1>4, FS_Subset
  <2>2. Cardinality(late) \in Nat BY <2>1, FS_CardinalityType
  <2>3. lost \in 0..MaxLost /\ starts \in 0..MaxStarts /\ clicks \in 0..MaxClicks
    BY DEF IInv, Bounded
  <2>4. lost' \in 0..MaxLost
    <3> DEFINE n == Cardinality(late)
    <3>1. n \in Nat /\ lost' = lost + n BY <1>1, <2>2
    <3> HIDE DEF n
    <3> QED BY <1>1, <2>3, <3>1, TabsAssumption
  <2> QED BY <1>3, <2>3, <2>4 DEF Bounded
<1>6. IsFiniteSet(reqs')
  <2> DEFINE f == [r \in late |-> away(r)]
  <2>1. {away(r) : r \in late} = {f[r] : r \in late} OBVIOUS
  <2>2. IsFiniteSet({f[r] : r \in late})
    <3>1. IsFiniteSet(late) BY <1>4, FS_Subset
    <3> HIDE DEF f
    <3> QED BY <3>1, ImageIsFinite
  <2>3. IsFiniteSet({r \in reqs : r.win # w}) BY <1>4, FS_Subset
  <2>4. IsFiniteSet({away(r) : r \in late}) BY <2>1, <2>2
  <2> HIDE DEF away
  <2> QED BY <1>1, <2>3, <2>4, FS_Union
<1>7. \A r \in reqs' : /\ RequestKept(r, tabs)
                       /\ r.win # NoWindow => (windows')[r.win].at = "open"
  <2>1. ASSUME NEW r \in reqs, r.win # w
        PROVE  RequestKept(r, tabs) /\ (r.win # NoWindow => (windows')[r.win].at = "open")
    <3>1. RequestKept(r, tabs) /\ (r.win # NoWindow => windows[r.win].at = "open")
      BY DEF IInv, RequestsTyped
    <3>2. r.win # NoWindow => r.win \in Windows BY <3>1 DEF RequestKept
    <3>3. r.win # NoWindow => (windows')[r.win] = windows[r.win]
      BY <1>2, <2>1, <3>2 DEF IInv, PagesTyped
    <3> QED BY <3>1, <3>3
  <2>2. ASSUME NEW r \in late
        PROVE  RequestKept(away(r), tabs) /\ away(r).win = NoWindow
    <3>1. RequestKept(r, tabs) /\ r.answer = "sent" BY DEF IInv, RequestsTyped
    <3> QED BY <3>1 DEF RequestKept
  <2> HIDE DEF away
  <2> QED BY <1>1, <2>1, <2>2
<1>8. StorageKept(storage)' /\ LocalEditorsKept'
  BY <1>3 DEF IInv, LocalEditorsKept, StorageKept, serverVars, TabIds
<1> DEFINE page == Closed
<1>9. /\ windows' = [windows EXCEPT ![w] = page] /\ PageKept(page, TabIds)
      /\ AllRead(page, tabs)
  BY <1>2 DEF AllRead, Closed
<1> HIDE DEF page
<1> QED BY <1>3, <1>5, <1>6, <1>7, <1>8, <1>9, PageKeeps

\* A click sends one request.
LEMMA ClickKeeps ==
  ASSUME IInv, NEW w \in Windows, NEW q, Click(w, q), RequestKept(q, tabs), q.win = w
  PROVE  IInv'
<1> DEFINE page == windows[w]
<1>1. /\ reqs' = reqs \cup {q} /\ page.at = "open"
      /\ UNCHANGED <<serverVars, storage, windows, starts, lost>>
  BY DEF Click
<1>2. /\ windows' = [windows EXCEPT ![w] = page] /\ PageKept(page, TabIds)
      /\ AllRead(page, tabs)
  BY <1>1, SamePage
<1>3. Bounded'
  <2>1. clicks \in 0..MaxClicks /\ clicks < MaxClicks /\ clicks' = clicks + 1
    BY DEF IInv, Bounded, Click
  <2> QED BY <1>1, <2>1, TabsAssumption DEF IInv, Bounded
<1>4. IsFiniteSet(reqs') BY <1>1, FS_AddElement DEF IInv, RequestsTyped
<1>5. StorageKept(storage)' /\ LocalEditorsKept'
  BY <1>1 DEF IInv, LocalEditorsKept, StorageKept, serverVars, TabIds
<1>6. \A r \in reqs' : /\ RequestKept(r, tabs)
                       /\ r.win # NoWindow => (windows')[r.win].at = "open"
  BY <1>1 DEF IInv, RequestsTyped
<1> HIDE DEF page
<1> QED BY <1>1, <1>2, <1>3, <1>4, <1>5, <1>6, PageKeeps

\* A request is lost on its way, or its answer is.
LEMMA LoseKeeps ==
  ASSUME IInv, NEW r \in reqs, Lose(r)
  PROVE  IInv'
<1> DEFINE failed == [r EXCEPT !.answer = "failed"]
           w == r.win
           page == windows[w]
<1>1. RequestKept(r, tabs) /\ r.win # NoWindow /\ page.at = "open"
  BY DEF IInv, RequestsTyped, Lose
<1>2. w \in Windows BY <1>1 DEF RequestKept
<1>3. /\ reqs' = (reqs \ {r}) \cup {failed}
      /\ UNCHANGED <<serverVars, storage, windows, starts, clicks>>
  BY DEF Lose
<1>4. RequestKept(failed, tabs) /\ failed.win = w BY <1>1 DEF RequestKept, Answers
<1>5. /\ windows' = [windows EXCEPT ![w] = page] /\ PageKept(page, TabIds)
      /\ AllRead(page, tabs)
  <2> HIDE DEF w
  <2> QED BY <1>2, <1>3, SamePage
<1>6. Bounded'
  <2>1. lost \in 0..MaxLost /\ lost < MaxLost /\ lost' = lost + 1
    BY DEF IInv, Bounded, Lose
  <2> QED BY <1>3, <2>1, TabsAssumption DEF IInv, Bounded
<1>7. IsFiniteSet(reqs')
  <2> HIDE DEF failed
  <2> QED BY <1>3, FS_RemoveElement, FS_AddElement DEF IInv, RequestsTyped
<1>8. StorageKept(storage)' /\ LocalEditorsKept'
  BY <1>3 DEF IInv, LocalEditorsKept, StorageKept, serverVars, TabIds
<1>9. \A q \in reqs' : /\ RequestKept(q, tabs)
                       /\ q.win # NoWindow => (windows')[q.win].at = "open"
  <2> HIDE DEF failed
  <2> QED BY <1>1, <1>3, <1>4 DEF IInv, RequestsTyped
<1> HIDE DEF page, w
<1> QED BY <1>2, <1>3, <1>5, <1>6, <1>7, <1>8, <1>9, PageKeeps

-----------------------------------------------------------------------------
(* The answers *)

\* An answer is taken: its request is gone, and one may follow for the same window.
LEMMA AnswerTaken ==
  ASSUME IInv, NEW r \in reqs, r.win \in Windows, UNCHANGED <<serverVars, bounds>>,
         NEW page, windows' = [windows EXCEPT ![r.win] = page],
         OpenKept(page, TabIds), StorageKept(storage)', LocalEditorsKept',
         NEW more, IsFiniteSet(more), reqs' = (reqs \ {r}) \cup more,
         \A q \in more : RequestKept(q, tabs) /\ q.win = r.win
  PROVE  IInv'
<1>1. PageKept(page, TabIds) /\ page.at = "open" /\ AllRead(page, tabs)
  BY DEF PageKept, OpenKept, AllRead
<1>2. \A q \in reqs : /\ RequestKept(q, tabs)
                      /\ q.win # NoWindow => (windows')[q.win].at = "open"
  BY <1>1, OldRequests
<1>3. (windows')[r.win] = page BY DEF IInv, PagesTyped
<1>4. \A q \in reqs' : /\ RequestKept(q, tabs)
                       /\ q.win # NoWindow => (windows')[q.win].at = "open"
  BY <1>1, <1>2, <1>3
<1>5. IsFiniteSet(reqs')
  <2>1. IsFiniteSet(reqs \ {r}) BY FS_RemoveElement DEF IInv, RequestsTyped
  <2> QED BY <2>1, FS_Union
<1>6. Bounded' BY DEF IInv, Bounded, bounds
<1> QED BY <1>1, <1>4, <1>5, <1>6, PageKeeps

\* The reducer's REMOVE_QUERY_EDITOR takes an editor off the page.
LEMMA RemovedKept ==
  ASSUME NEW page, NEW ids, OpenKept(page, ids), NEW id
  PROVE  OpenKept(Removed(page, id), ids)
<1> DEFINE left == page.editors \ {id}
           h == Only(page.history, left)
<1>1. page.history \in Seq(Editors \cup ids) BY DEF OpenKept
<1>2. Only(page.history, left) \in Seq(Editors \cup ids)
      /\ ToSet(Only(page.history, left)) \subseteq left
  <2> HIDE DEF left
  <2>1. ToSet(Only(page.history, left)) = ToSet(page.history) \cap left
        /\ Only(page.history, left) \in Seq(Editors \cup ids)
    BY <1>1, OnlyKeeps
  <2> QED BY <2>1
<1>3. Removed(page, id) = [page EXCEPT !.editors = left, !.history = h]
  BY DEF Removed, OpenKept
<1>4. left \subseteq Editors \cup ids BY DEF OpenKept
<1>5. h \in Seq(Editors \cup ids) /\ (h = <<>> \/ Last(h) \in left)
  <2>1. h # <<>> => Last(h) \in ToSet(h)
    <3> HIDE DEF left
    <3> QED BY <1>2, SetOfSequence
  <2> QED BY <1>2, <2>1
<1> HIDE DEF left, h
<1>6. OpenKept([page EXCEPT !.editors = left, !.history = h], ids)
  BY <1>4, <1>5 DEF OpenKept, Showing
<1> QED BY <1>3, <1>6

\* A tab of the page is shown.
LEMMA ShownKept ==
  ASSUME NEW page, NEW ids, OpenKept(page, ids), NEW id \in page.editors
  PROVE  OpenKept([page EXCEPT !.history = Append(@, id)], ids)
<1> DEFINE h == Append(page.history, id)
<1>1. page.history \in Seq(Editors \cup ids) /\ id \in Editors \cup ids BY DEF OpenKept
<1>2. h \in Seq(Editors \cup ids) /\ Last(h) = id
  BY <1>1, AppendedLast
<1>3. [page EXCEPT !.history = Append(@, id)] = [page EXCEPT !.history = h] OBVIOUS
<1> HIDE DEF h
<1>4. OpenKept([page EXCEPT !.history = h], ids) BY <1>2 DEF OpenKept, Showing
<1> QED BY <1>3, <1>4

\* The page and the storage forget editor e, and the page shows its tab.
LEMMA MovedKept ==
  ASSUME NEW page, NEW ids, OpenKept(page, ids), NEW e, NEW id \in ids,
         NEW next, next = [[[page EXCEPT !.editors = (@ \ {e}) \cup {id}]
                              EXCEPT !.loaded = @ \cup {id}]
                             EXCEPT !.history = Append(Without(@, e), id)]
  PROVE  OpenKept(next, ids)
<1> DEFINE editors == (page.editors \ {e}) \cup {id}
           loaded == page.loaded \cup {id}
           past == Without(page.history, e)
           h == Append(past, id)
<1>1. page.history \in Seq(Editors \cup ids) /\ id \in Editors \cup ids BY DEF OpenKept
<1>2. past \in Seq(Editors \cup ids) /\ ToSet(past) = ToSet(page.history) \ {e}
  BY <1>1, WithoutKeeps
<1>3. h \in Seq(Editors \cup ids) /\ Last(h) = id
  <2> HIDE DEF past
  <2> QED BY <1>1, <1>2, AppendedLast
<1>4. next = [[[page EXCEPT !.editors = editors] EXCEPT !.loaded = loaded] EXCEPT !.history = h]
  BY DEF OpenKept
<1>5. /\ editors \subseteq Editors \cup ids /\ loaded \subseteq Editors \cup ids
      /\ h \in Seq(Editors \cup ids) /\ Last(h) \in editors
  <2>1. page.editors \subseteq Editors \cup ids /\ page.loaded \subseteq Editors \cup ids
    BY DEF OpenKept
  <2> HIDE DEF h, past
  <2> QED BY <1>1, <1>2, <1>3, <2>1
<1> HIDE DEF editors, loaded, h
<1>6. OpenKept(next, ids) <=>
        /\ [[[page EXCEPT !.editors = editors] EXCEPT !.loaded = loaded] EXCEPT !.history = h]
             \in [at : {"open"}, active : ids \cup {NoTab}, late : BOOLEAN, up : BOOLEAN,
                  editors : SUBSET (Editors \cup ids), loaded : SUBSET (Editors \cup ids),
                  history : Seq(Editors \cup ids), tables : SUBSET Tabled]
        /\ page.up \/ page.late
        /\ Showing(next)
  BY <1>4 DEF OpenKept
<1>7. Showing(next)
  <2>1. page = [x \in DOMAIN page |-> page[x]]
        /\ {"editors", "loaded", "history"} \subseteq DOMAIN page
    BY DEF OpenKept
  <2>2. next.editors = editors /\ next.history = h BY <1>4, <2>1
  <2> QED BY <1>5, <2>2 DEF Showing
<1> QED BY <1>5, <1>6, <1>7 DEF OpenKept

\* An editor that has been moved leaves the storage.
LEMMA MigratedKept ==
  ASSUME StorageKept(storage), NEW e
  PROVE  StorageKept(Migrated(e)) /\ Migrated(e).editors = storage.editors \ {e}
<1> DEFINE editors == storage.editors \ {e}
           h == Without(storage.history, e)
<1>1. storage.history \in Seq(Editors) BY DEF StorageKept
<1>2. h \in Seq(Editors) /\ ToSet(h) = ToSet(storage.history) \ {e} BY <1>1, WithoutKeeps
<1>3. Migrated(e) = [storage EXCEPT !.editors = editors, !.history = h]
  BY DEF StorageKept, Migrated
<1>4. editors \subseteq Editors /\ ToSet(h) \subseteq editors
  <2> HIDE DEF h
  <2> QED BY <1>2 DEF StorageKept
<1> HIDE DEF h
<1>5. [storage EXCEPT !.editors = editors, !.history = h].editors = editors
  BY DEF StorageKept
<1> HIDE DEF editors
<1>6. StorageKept([storage EXCEPT !.editors = editors, !.history = h])
  BY <1>2, <1>4 DEF StorageKept
<1> QED BY <1>3, <1>5, <1>6 DEF editors

\* A request that was answered has a window, which is open.
LEMMA Answered ==
  ASSUME IInv, NEW r \in reqs, r.answer # "sent"
  PROVE  /\ RequestKept(r, tabs) /\ r.win \in Windows
         /\ OpenKept(windows[r.win], TabIds)
         /\ windows = [windows EXCEPT ![r.win] = windows[r.win]]
<1>1. RequestKept(r, tabs) /\ (r.win # NoWindow => windows[r.win].at = "open")
  BY DEF IInv, RequestsTyped
<1>2. r.win \in Windows /\ windows[r.win].at = "open" BY <1>1 DEF RequestKept
<1> QED BY <1>1, <1>2, OpenPage, SamePage

\* The page has the answer for an editor it moves.
LEMMA EditorMigratedKeeps ==
  ASSUME IInv, NEW r \in reqs, r.answer # "sent", EditorMigrated(r),
         UNCHANGED <<serverVars, bounds>>
  PROVE  IInv'
<1> DEFINE w == r.win
           e == r.of
           old == windows[w]
<1>1. RequestKept(r, tabs) /\ w \in Windows /\ OpenKept(old, TabIds) /\ r.kind = "migrate"
      /\ windows = [windows EXCEPT ![w] = old]
  BY Answered DEF EditorMigrated
<1>2. StorageKept(storage) /\ LocalEditorsKept BY DEF IInv
<1>3. TabIds' = TabIds /\ tabs' = tabs BY DEF serverVars, TabIds
<1>4. CASE ~ (r.answer = "ok" /\ storage.there)
  <2>1. reqs' = reqs \ {r} /\ UNCHANGED <<storage, windows>> BY <1>4 DEF EditorMigrated
  <2> DEFINE more == {}
  <2>2. IsFiniteSet(more) /\ reqs' = (reqs \ {r}) \cup more BY <2>1, FS_EmptySet
  <2>3. StorageKept(storage)' /\ LocalEditorsKept'
    BY <1>2, <1>3, <2>1 DEF StorageKept, LocalEditorsKept
  <2>4. windows' = [windows EXCEPT ![r.win] = old] BY <1>1, <2>1
  <2>5. \A q \in more : RequestKept(q, tabs) /\ q.win = r.win OBVIOUS
  <2> HIDE DEF more, old
  <2> QED BY <1>1, <2>2, <2>3, <2>4, <2>5, AnswerTaken
<1>5. CASE r.answer = "ok" /\ storage.there
  <2> DEFINE next == [[[old EXCEPT !.editors = (@ \ {e}) \cup {r.tab}]
                        EXCEPT !.loaded = @ \cup {r.tab}]
                       EXCEPT !.history = Append(Without(@, e), r.tab)]
             more == {Request(w, "table", t, r.tab) : t \in old.tables \cap {e}}
  <2>1. r.tab \in TabIds /\ tabs[r.tab].from = e /\ e \in Editors
    BY <1>1, <1>5 DEF RequestKept, TabIds
  <2>2. OpenKept(next, TabIds)
    <3> HIDE DEF next, old
    <3> QED BY <1>1, <2>1, MovedKept DEF next
  <2>3. windows' = [windows EXCEPT ![r.win] = next]
    <3>1. windows' = [windows EXCEPT
               ![w].editors = (@ \ {e}) \cup {r.tab}, ![w].loaded = @ \cup {r.tab},
               ![w].history = Append(Without(@, e), r.tab)]
      BY <1>5 DEF EditorMigrated
    <3>2. windows = [v \in Windows |-> windows[v]] BY DEF IInv, PagesTyped
    <3>3. \A v \in Windows : (windows')[v] = IF v = w THEN next ELSE windows[v]
      <4> HIDE DEF w, e
      <4> QED BY <1>1, <3>1, <3>2
    <3>4. windows' = [v \in Windows |-> (windows')[v]] BY <3>1, <3>2
    <3> HIDE DEF next
    <3> QED BY <1>1, <3>2, <3>3, <3>4
  <2>4. storage' = Migrated(e) /\ reqs' = (reqs \ {r}) \cup more BY <1>5 DEF EditorMigrated
  <2>5. StorageKept(storage)' BY <1>2, <2>4, MigratedKept
  <2>6. LocalEditorsKept'
    <3>1. storage'.editors = storage.editors \ {e} BY <1>2, <2>4, MigratedKept
    <3> QED BY <1>2, <1>3, <2>1, <3>1 DEF LocalEditorsKept
  <2>7. more \subseteq {Request(w, "table", e, r.tab)} OBVIOUS
  <2>8. IsFiniteSet(more)
    <3> DEFINE one == {Request(w, "table", e, r.tab)}
    <3>1. IsFiniteSet(one) BY FS_Singleton
    <3> HIDE DEF more
    <3>2. more \subseteq one BY <2>7
    <3> HIDE DEF one
    <3> QED BY <3>1, <3>2, FS_Subset
  <2>9. RequestKept(Request(w, "table", e, r.tab), tabs) /\ Request(w, "table", e, r.tab).win = w
    <3> DEFINE kind == "table"
    <3>1. kind \in Kinds /\ kind # "migrate" /\ kind # "add"
          /\ kind \notin {"activate", "get", "delete"}
      BY DEF Kinds
    <3>2. e \in Editors \cup (DOMAIN tabs) \cup {New} /\ r.tab \in (DOMAIN tabs) \cup {NoTab}
      BY <2>1 DEF TabIds
    <3> HIDE DEF kind, e
    <3>3. RequestKept(Request(w, kind, e, r.tab), tabs) /\ Request(w, kind, e, r.tab).win = w
      BY <1>1, <3>1, <3>2, NewRequest
    <3> QED BY <3>3 DEF kind
  <2>10. \A q \in more : RequestKept(q, tabs) /\ q.win = r.win
    <3> HIDE DEF more
    <3> QED BY <2>7, <2>9
  <2> HIDE DEF more, next
  <2> QED BY <1>1, <2>2, <2>3, <2>4, <2>5, <2>6, <2>8, <2>10, AnswerTaken
<1> QED BY <1>4, <1>5

\* An answer that leaves the storage alone, after which no request follows.
LEMMA AnswerIsAll ==
  ASSUME IInv, NEW r \in reqs, r.answer # "sent", UNCHANGED <<serverVars, bounds>>,
         NEW page, windows' = [windows EXCEPT ![r.win] = page], OpenKept(page, TabIds),
         storage' = storage, reqs' = reqs \ {r}
  PROVE  IInv'
<1> DEFINE more == {}
<1>1. IsFiniteSet(more) /\ reqs' = (reqs \ {r}) \cup more BY FS_EmptySet
<1>2. StorageKept(storage)' /\ LocalEditorsKept'
  BY DEF IInv, StorageKept, LocalEditorsKept, serverVars, TabIds
<1>3. r.win \in Windows BY Answered
<1>4. \A q \in more : RequestKept(q, tabs) /\ q.win = r.win OBVIOUS
<1> HIDE DEF more
<1> QED BY <1>1, <1>2, <1>3, <1>4, AnswerTaken

\* ... for the table of one.
LEMMA TableMigratedKeeps ==
  ASSUME IInv, NEW r \in reqs, r.answer # "sent", TableMigrated(r),
         UNCHANGED <<serverVars, bounds>>
  PROVE  IInv'
<1> DEFINE page == windows[r.win]
           more == {}
           tables == storage.tables \ {r.of}
<1>1. r.win \in Windows /\ OpenKept(page, TabIds) /\ windows = [windows EXCEPT ![r.win] = page]
  BY Answered
<1>2. reqs' = reqs \ {r} /\ windows' = windows
      /\ storage' \in {storage, [storage EXCEPT !.tables = tables]}
  BY DEF TableMigrated
<1>3. StorageKept(storage) /\ LocalEditorsKept BY DEF IInv
<1>4. StorageKept([storage EXCEPT !.tables = tables])
      /\ [storage EXCEPT !.tables = tables].editors = storage.editors
  <2>1. tables \subseteq Tabled BY <1>3 DEF StorageKept
  <2> HIDE DEF tables
  <2> QED BY <1>3, <2>1 DEF StorageKept
<1>5. StorageKept(storage') /\ storage'.editors = storage.editors
  <2> HIDE DEF tables
  <2> QED BY <1>2, <1>3, <1>4
<1>6. StorageKept(storage)' /\ LocalEditorsKept'
  BY <1>3, <1>5 DEF StorageKept, LocalEditorsKept, serverVars, TabIds
<1>7. IsFiniteSet(more) /\ reqs' = (reqs \ {r}) \cup more BY <1>2, FS_EmptySet
<1>8. windows' = [windows EXCEPT ![r.win] = page] BY <1>1, <1>2
<1>9. \A q \in more : RequestKept(q, tabs) /\ q.win = r.win OBVIOUS
<1> HIDE DEF page, more
<1> QED BY <1>1, <1>6, <1>7, <1>8, <1>9, AnswerTaken

\* ... for a new editor.
LEMMA EditorAddedKeeps ==
  ASSUME IInv, NEW r \in reqs, r.answer # "sent", EditorAdded(r),
         UNCHANGED <<serverVars, bounds>>
  PROVE  IInv'
<1> DEFINE w == r.win
           old == windows[w]
           id == r.tab
<1>1. RequestKept(r, tabs) /\ w \in Windows /\ OpenKept(old, TabIds)
      /\ windows = [windows EXCEPT ![w] = old]
  BY Answered
<1>2. r.kind = "add" /\ reqs' = reqs \ {r} /\ storage' = storage BY DEF EditorAdded
<1>3. CASE r.answer # "ok"
  <2>1. windows' = [windows EXCEPT ![w] = old] BY <1>1, <1>3 DEF EditorAdded
  <2> HIDE DEF old
  <2> QED BY <1>1, <1>2, <2>1, AnswerIsAll
<1>4. CASE r.answer = "ok"
  <2> DEFINE more == [old EXCEPT !.editors = @ \cup {id}]
             next == [more EXCEPT !.history = Append(@, id)]
  <2>1. id \in TabIds BY <1>1, <1>2, <1>4 DEF RequestKept, TabIds
  <2>2. OpenKept(more, TabIds) /\ id \in more.editors
    <3> HIDE DEF old
    <3>1. Showing(more) BY <1>1 DEF OpenKept, Showing
    <3> QED BY <1>1, <2>1, <3>1 DEF OpenKept
  <2>3. OpenKept(next, TabIds)
    <3> HIDE DEF more
    <3> QED BY <2>2, ShownKept
  <2>4. windows' = [windows EXCEPT ![w] = next]
    <3>1. windows' = [windows EXCEPT ![w].editors = @ \cup {id}, ![w].history = Append(@, id)]
      BY <1>4 DEF EditorAdded
    <3>2. windows = [v \in Windows |-> windows[v]] BY DEF IInv, PagesTyped
    <3>3. \A v \in Windows : (windows')[v] = IF v = w THEN next ELSE windows[v]
      <4> HIDE DEF w, id
      <4> QED BY <1>1, <3>1, <3>2
    <3>4. windows' = [v \in Windows |-> (windows')[v]] BY <3>1, <3>2
    <3> HIDE DEF next
    <3> QED BY <1>1, <3>2, <3>3, <3>4
  <2> HIDE DEF next
  <2> QED BY <1>2, <2>3, <2>4, AnswerIsAll
<1> QED BY <1>3, <1>4

\* ... for an editor that it has loaded.
LEMMA EditorLoadedKeeps ==
  ASSUME IInv, NEW r \in reqs, r.answer # "sent", EditorLoaded(r),
         UNCHANGED <<serverVars, bounds>>
  PROVE  IInv'
<1> DEFINE w == r.win
           id == r.of
           old == windows[w]
           next == [old EXCEPT !.loaded = @ \cup {id}]
           page == IF r.answer = "ok" THEN next ELSE old
           more == IF r.answer = "ok" THEN {Request(w, "activate", id, NoTab)} ELSE {}
<1>1. RequestKept(r, tabs) /\ w \in Windows /\ OpenKept(old, TabIds)
      /\ windows = [windows EXCEPT ![w] = old]
  BY Answered
<1>2. r.kind = "get" /\ reqs' = (reqs \ {r}) \cup more /\ storage' = storage BY DEF EditorLoaded
<1>3. id \in Editors \cup TabIds BY <1>1, <1>2 DEF RequestKept, TabIds
<1>4. OpenKept(next, TabIds)
  <2> HIDE DEF old, id
  <2>1. Showing(next) BY <1>1 DEF OpenKept, Showing
  <2> QED BY <1>1, <1>3, <2>1 DEF OpenKept
<1>5. OpenKept(page, TabIds) BY <1>1, <1>4
<1>6. windows' = [windows EXCEPT ![w] = page]
  <2>1. CASE r.answer = "ok" BY <2>1 DEF EditorLoaded
  <2>2. CASE r.answer # "ok" BY <1>1, <2>2 DEF EditorLoaded
  <2> QED BY <2>1, <2>2
<1>7. IsFiniteSet(more) BY FS_EmptySet, FS_Singleton
<1>8. \A q \in more : RequestKept(q, tabs) /\ q.win = r.win
  <2> DEFINE kind == "activate"
  <2>1. kind \in {"activate", "get", "delete"} /\ id \in Editors \cup DOMAIN tabs
    BY <1>3 DEF TabIds
  <2> HIDE DEF kind, id
  <2>2. RequestKept(Request(w, kind, id, NoTab), tabs) /\ Request(w, kind, id, NoTab).win = w
    BY ZenonT(40), <1>1, <2>1, NewTabRequest
  <2> QED BY <2>2 DEF kind
<1>9. StorageKept(storage)' /\ LocalEditorsKept'
  BY <1>2 DEF IInv, StorageKept, LocalEditorsKept, serverVars, TabIds
<1> HIDE DEF page, more
<1> QED BY <1>1, <1>2, <1>5, <1>6, <1>7, <1>8, <1>9, AnswerTaken

\* ... for an editor that was switched to.
LEMMA EditorActivatedKeeps ==
  ASSUME IInv, NEW r \in reqs, r.answer # "sent", EditorActivated(r),
         UNCHANGED <<serverVars, bounds>>
  PROVE  IInv'
<1> DEFINE old == windows[r.win]
           shown == [old EXCEPT !.history = Append(@, r.of)]
           show == r.answer = "ok" /\ r.of \in old.editors /\ r.of # Shown(r.win)
           gone == r.answer = "not found"
           page == CASE show -> shown [] gone -> Removed(old, r.of) [] OTHER -> old
<1>1. r.win \in Windows /\ OpenKept(old, TabIds) BY Answered
<1>2. windows' = [windows EXCEPT ![r.win] = page] /\ reqs' = reqs \ {r} /\ storage' = storage
  BY DEF EditorActivated
<1>3. show => OpenKept(shown, TabIds)
  <2> HIDE DEF old
  <2> QED BY <1>1, ShownKept
<1>4. OpenKept(Removed(old, r.of), TabIds)
  <2> HIDE DEF old
  <2> QED BY <1>1, RemovedKept
<1>5. ~ (show /\ gone) OBVIOUS
<1>6. OpenKept(page, TabIds)
  <2>1. (page = shown /\ show) \/ page = Removed(old, r.of) \/ page = old
    <3> HIDE DEF shown, old, show, gone
    <3> QED BY <1>5
  <2> HIDE DEF page, shown, old, show
  <2> QED BY <1>1, <1>3, <1>4, <2>1
<1> HIDE DEF page
<1> QED BY <1>2, <1>6, AnswerIsAll

\* ... for an editor that was removed.
LEMMA EditorRemovedKeeps ==
  ASSUME IInv, NEW r \in reqs, r.answer # "sent", EditorRemoved(r),
         UNCHANGED <<serverVars, bounds>>
  PROVE  IInv'
<1> DEFINE old == windows[r.win]
           page == IF r.answer = "ok" THEN Removed(old, r.of) ELSE old
<1>1. OpenKept(old, TabIds) BY Answered
<1>2. windows' = [windows EXCEPT ![r.win] = page] /\ reqs' = reqs \ {r} /\ storage' = storage
  BY DEF EditorRemoved
<1>3. OpenKept(page, TabIds)
  <2> HIDE DEF old
  <2> QED BY <1>1, RemovedKept DEF old
<1> HIDE DEF page
<1> QED BY <1>2, <1>3, AnswerIsAll

-----------------------------------------------------------------------------
(* The steps, and what follows *)

\* The clicks of the user.
LEMMA ClicksKeep ==
  ASSUME IInv, NEW w \in Windows, windows[w].at = "open",
         \/ AddQueryEditor(w)
         \/ \E id \in windows[w].editors : SwitchQueryEditor(w, id) \/ RemoveQueryEditor(w, id)
  PROVE  IInv'
<1>1. windows[w].editors \subseteq Editors \cup (DOMAIN tabs) /\ NoTab \in (DOMAIN tabs) \cup {NoTab}
  BY OpenPage DEF OpenKept, TabIds
<1>2. CASE AddQueryEditor(w)
  <2> DEFINE kind == "add"
             q == Request(w, kind, New, NoTab)
  <2>1. kind \in Kinds /\ kind # "migrate" /\ kind \notin {"activate", "get", "delete"}
    BY DEF Kinds
  <2>2. New \in Editors \cup (DOMAIN tabs) \cup {New} OBVIOUS
  <2>3. Click(w, q) BY <1>2 DEF AddQueryEditor
  <2> HIDE DEF kind
  <2>4. RequestKept(q, tabs) /\ q.win = w BY <1>1, <2>1, <2>2, NewRequest
  <2> HIDE DEF q
  <2> QED BY <2>3, <2>4, ClickKeeps
<1>3. ASSUME NEW id \in windows[w].editors, NEW kind \in {"activate", "get", "delete"},
             Click(w, Request(w, kind, id, NoTab))
      PROVE  IInv'
  <2> DEFINE q == Request(w, kind, id, NoTab)
  <2>1. id \in Editors \cup DOMAIN tabs BY <1>1
  <2>2. RequestKept(q, tabs) /\ q.win = w BY ZenonT(40), <2>1, NewTabRequest
  <2>3. Click(w, q) BY <1>3
  <2> HIDE DEF q
  <2> QED BY <2>2, <2>3, ClickKeeps
<1>4. ASSUME NEW id \in windows[w].editors, SwitchQueryEditor(w, id) PROVE IInv'
  <2> DEFINE kind == IF id \in windows[w].loaded THEN "activate" ELSE "get"
  <2>1. kind \in {"activate", "get", "delete"} OBVIOUS
  <2>2. Click(w, Request(w, kind, id, NoTab)) BY <1>4 DEF SwitchQueryEditor
  <2> HIDE DEF kind
  <2> QED BY <2>1, <2>2, <1>3
<1>5. ASSUME NEW id \in windows[w].editors, RemoveQueryEditor(w, id) PROVE IInv'
  <2> DEFINE kind == "delete"
  <2>1. kind \in {"activate", "get", "delete"} OBVIOUS
  <2>2. Click(w, Request(w, kind, id, NoTab)) BY <1>5 DEF RemoveQueryEditor
  <2> HIDE DEF kind
  <2> QED BY <2>1, <2>2, <1>3
<1> QED BY <1>2, <1>4, <1>5

\* Every step keeps the invariant.
LEMMA StepKeeps == IInv /\ [Next]_vars => IInv'
<1> SUFFICES ASSUME IInv, [Next]_vars PROVE IInv' OBVIOUS
<1>1. ASSUME NEW w \in Windows, Page(w) PROVE IInv'
  BY <1>1, ReadTabIdsKeeps, ReadActiveTabKeeps, StartKeeps, CloseKeeps, ClicksKeep DEF Page
<1>2. ASSUME NEW r \in reqs, Serve(r) PROVE IInv'
  <2>1. UNCHANGED <<storage, windows, bounds>> BY <1>2 DEF Serve
  <2> QED BY <1>2, <2>1, PostKeeps, ActivateKeeps, GetKeeps, DeleteKeeps, PostTableKeeps DEF Serve
<1>3. ASSUME NEW r \in reqs, Lose(r) PROVE IInv' BY <1>3, LoseKeeps
<1>4. ASSUME NEW r \in reqs, Receive(r) PROVE IInv'
  <2>1. r.answer # "sent" /\ UNCHANGED <<serverVars, bounds>> BY <1>4 DEF Receive
  <2> QED BY <1>4, <2>1, EditorMigratedKeeps, TableMigratedKeeps, EditorAddedKeeps,
             EditorLoadedKeeps, EditorActivatedKeeps, EditorRemovedKeeps DEF Receive
<1>5. CASE UNCHANGED vars
  BY <1>5 DEF IInv, RowsTyped, StorageKept, PagesTyped, RequestsTyped, Bounded, LocalEditorsKept,
             IsTab, TabIds, vars, serverVars, bounds
<1> QED BY <1>1, <1>2, <1>3, <1>4, <1>5 DEF Next

\* What the storage, the pages and the requests say of tabs is always true of
\* tab_state.
THEOREM Invariance == Spec => []IInv
<1>1. Init => IInv BY InitTyped
<1>2. IInv /\ [Next]_vars => IInv' BY StepKeeps
<1> QED BY <1>1, <1>2, PTL DEF Spec

\* Every behaviour keeps the variables of SqlLabTabs within their types.
THEOREM TypeCorrect == Spec => []TypeOK
<1>1. IInv => TypeOK
  <2> SUFFICES ASSUME IInv PROVE TypeOK OBVIOUS
  <2>1. tabs \in Seq([from : Editors \cup {New}, table : BOOLEAN, there : BOOLEAN])
        /\ (active = NoTab \/ IsTab(active))
    BY DEF IInv, RowsTyped, TabRow
  <2>2. storage.there \in BOOLEAN /\ storage.editors \subseteq Editors
        /\ storage.tables \subseteq Tabled /\ ToSet(storage.history) \subseteq storage.editors
    BY DEF IInv, StorageKept
  <2>3. ASSUME NEW w \in Windows
        PROVE  \/ windows[w] = Closed
               \/ /\ windows[w].at = "rendering"
                  /\ windows[w].tabs \subseteq TabIds /\ windows[w].rows \in 0..Len(tabs)
               \/ /\ windows[w].at = "rendered"
                  /\ windows[w].tabs \subseteq TabIds
                  /\ windows[w].active \in TabIds \cup {NoTab} /\ windows[w].late \in BOOLEAN
               \/ /\ windows[w].at = "open"
                  /\ windows[w].editors \subseteq Ids /\ windows[w].loaded \subseteq Ids
                  /\ windows[w].tables \subseteq Tabled /\ windows[w].up \in BOOLEAN
    <3>1. PageKept(windows[w], TabIds) BY DEF IInv, PagesTyped
    <3>2. TabIds = 1..Len(tabs) /\ Len(tabs) \in Nat
      BY LenProperties DEF IInv, RowsTyped, TabIds
    <3>3. CASE RenderingKept(windows[w], TabIds)
      <4>1. windows[w].rows \in 0..Len(tabs) BY <3>2, <3>3 DEF RenderingKept
      <4> QED BY <3>3, <4>1 DEF RenderingKept
    <3> QED BY <3>1, <3>3 DEF PageKept, RenderedKept, OpenKept, Ids
  <2>4. ASSUME NEW r \in reqs
        PROVE  /\ r.win \in Windows \cup {NoWindow} /\ r.kind \in Kinds
               /\ r.of \in Ids \cup {New} /\ r.tab \in TabIds \cup {NoTab}
               /\ r.answer \in {"sent", "ok", "not found", "failed"}
               /\ r.win # NoWindow => windows[r.win].at = "open"
    <3>1. RequestKept(r, tabs) /\ (r.win # NoWindow => windows[r.win].at = "open")
      BY DEF IInv, RequestsTyped
    <3> QED BY <3>1 DEF RequestKept, Ids, TabIds, Answers
  <2>5. starts \in 0..MaxStarts /\ clicks \in 0..MaxClicks /\ lost \in 0..MaxLost
    BY DEF IInv, Bounded
  <2> QED BY <2>1, <2>2, <2>3, <2>4, <2>5 DEF TypeOK
<1> QED BY <1>1, Invariance, PTL

\* An editor of the browser's storage is never lost by the move to the server: until
\* the server has a tab made from it, it stays in the storage.
THEOREM EditorsKept == Spec => []LocalEditorsKept
<1>1. IInv => LocalEditorsKept BY DEF IInv
<1> QED BY <1>1, Invariance, PTL

\* An open page has come up, and the last of its history is one of its tabs, or it is
\* a page of which another window made a tab while it was rendered.
THEOREM TabToShow == Spec => []ShownTabExists
<1>1. IInv => ShownTabExists
  <2> SUFFICES ASSUME IInv, NEW w \in Windows, windows[w].at = "open"
               PROVE  /\ windows[w].up \/ windows[w].late
                      /\ \/ Shown(w) \in windows[w].editors \cup {NoTab}
                         \/ windows[w].late /\ Shown(w) = windows[w].active
    BY DEF ShownTabExists
  <2>1. OpenKept(windows[w], TabIds) BY OpenPage
  <2> QED BY <2>1 DEF OpenKept, Showing, Shown
<1> QED BY <1>1, Invariance, PTL

================================================================================
