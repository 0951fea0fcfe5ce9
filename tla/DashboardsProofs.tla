---------------------------- MODULE DashboardsProofs ----------------------------
(***************************************************************************)
(* Theorems about Dashboards, for any number of charts, dashboards, pages  *)
(* and requests.                                                           *)
(*                                                                         *)
(* A page and a file hold ids of charts that others delete, overwrite,     *)
(* copy and import meanwhile.  The properties hold because no id is given  *)
(* twice: the invariant says that whoever remembers an id, remembers what  *)
(* the chart of that id is, if there still is one.                         *)
(***************************************************************************)
EXTENDS Dashboards, FiniteSetTheorems, TLAPS

-----------------------------------------------------------------------------
(* Functions, scopes and new ids *)

\* The update of a dictionary with another one.
LEMMA WithIs ==
  ASSUME NEW old, NEW new
  PROVE  /\ DOMAIN With(old, new) = DOMAIN old \cup DOMAIN new
         /\ \A x \in DOMAIN new : With(old, new)[x] = new[x]
         /\ \A x \in DOMAIN old \ DOMAIN new : With(old, new)[x] = old[x]
BY DEF With

\* The scopes of filter boxes, as functions of the charts that are some.
LEMMA ScopesAre ==
  ASSUME NEW scopes
  PROVE  scopes \in Scopes <=> \E S \in SUBSET ChartIds : scopes \in [S -> SUBSET ChartIds]
BY DEF Scopes

\* ... and their parts.
LEMMA ScopesHave ==
  ASSUME NEW scopes \in Scopes
  PROVE  /\ DOMAIN scopes \in SUBSET ChartIds
         /\ scopes \in [DOMAIN scopes -> SUBSET ChartIds]
BY ScopesAre

\* What goes through a map is in its range.
LEMMA ThroughIs ==
  ASSUME NEW map, NEW ids
  PROVE  Through(map, ids) \subseteq Range(map)
BY DEF Through, Range

\* Scopes that go through a map name what the map leads to.
LEMMA CopiedScopes ==
  ASSUME NEW map, NEW scopes, NEW T \in SUBSET ChartIds, Range(map) \subseteq T
  PROVE  /\ CopyFilterScopes(map, scopes) \in Scopes
         /\ NamedIn(CopyFilterScopes(map, scopes)) \subseteq T
<1> DEFINE copy == CopyFilterScopes(map, scopes)
           S == Through(map, DOMAIN scopes)
           Old(f) == scopes[CHOOSE old \in DOMAIN scopes \cap DOMAIN map : map[old] = f]
<1>1. copy = [f \in S |-> Through(map, Old(f))] BY DEF CopyFilterScopes
<1>2. S \subseteq T /\ \A f \in S : Through(map, Old(f)) \subseteq T
  <2> HIDE DEF Old
  <2> QED BY ThroughIs
<1> HIDE DEF copy, S, Old
<1>3. copy \in [S -> SUBSET T] BY <1>1, <1>2
<1>4. copy \in [S -> SUBSET ChartIds] /\ S \in SUBSET ChartIds BY <1>2, <1>3
<1>5. copy \in Scopes BY <1>4, ScopesAre
<1>6. NamedIn(copy) \subseteq T BY <1>2, <1>3 DEF NamedIn, Range
<1> QED BY <1>5, <1>6 DEF copy

\* What CopyFilterScopes does when the map is one to one.
LEMMA CopiedScope ==
  ASSUME NEW map, NEW scopes, NEW f \in DOMAIN scopes \cap DOMAIN map,
         \A a, b \in DOMAIN map : map[a] = map[b] => a = b
  PROVE  /\ map[f] \in DOMAIN CopyFilterScopes(map, scopes)
         /\ CopyFilterScopes(map, scopes)[map[f]] = Through(map, scopes[f])
<1> DEFINE D == DOMAIN scopes \cap DOMAIN map
           old == CHOOSE x \in D : map[x] = map[f]
<1>1. old \in D /\ map[old] = map[f] OBVIOUS
<1>2. old = f BY <1>1
<1>3. map[f] \in Through(map, DOMAIN scopes) BY DEF Through
<1> HIDE DEF old
<1> QED BY <1>2, <1>3 DEF CopyFilterScopes, old

\* Ids are numbers other than NoId.
LEMMA Ids ==
  /\ MaxCharts \in Nat /\ MaxDashboards \in Nat
  /\ \A c \in ChartIds : c \in Nat /\ c # NoId
  /\ \A d \in DashboardIds : d \in Nat /\ d # NoId
  /\ \A last \in ChartIds : 1..last \subseteq ChartIds
  /\ \A last \in DashboardIds : 1..last \subseteq DashboardIds
BY DashboardsAssumption DEF ChartIds, DashboardIds, NoId

\* Fresh gives new ids, one for each chart, and none is skipped.
LEMMA FreshIds ==
  ASSUME lastChart \in Nat, NEW ids \in SUBSET Nat, IsFiniteSet(ids)
  PROVE  /\ DOMAIN Fresh(ids) = ids /\ Cardinality(ids) \in Nat
         /\ \A a, b \in ids : Fresh(ids)[a] = Fresh(ids)[b] => a = b
         /\ \A c \in ids : Fresh(ids)[c] \in (lastChart + 1)..(lastChart + Cardinality(ids))
         /\ Range(Fresh(ids)) = (lastChart + 1)..(lastChart + Cardinality(ids))
<1> DEFINE upto(c) == {x \in ids : x <= c}
           n == Cardinality(ids)
           new == Fresh(ids)
           T == (lastChart + 1)..(lastChart + n)
<1>1. \A c \in ids : new[c] = lastChart + Cardinality(upto(c)) BY DEF Fresh
<1>2. DOMAIN new = ids BY DEF Fresh
<1>3. \A c \in ids : IsFiniteSet(upto(c)) /\ Cardinality(upto(c)) \in 1..n
  <2>1. ASSUME NEW c \in ids PROVE IsFiniteSet(upto(c)) /\ Cardinality(upto(c)) \in 1..n
    <3>1. upto(c) \in SUBSET ids /\ c \in upto(c) OBVIOUS
    <3> HIDE DEF upto
    <3>2. IsFiniteSet(upto(c)) /\ Cardinality(upto(c)) <= n BY <3>1, FS_Subset
    <3>3. Cardinality(upto(c)) \in Nat /\ Cardinality(upto(c)) # 0
      BY <3>1, <3>2, FS_CardinalityType, FS_EmptySet
    <3>4. n \in Nat BY FS_CardinalityType
    <3> QED BY <3>2, <3>3, <3>4
  <2> QED BY <2>1
<1>4. n \in Nat BY FS_CardinalityType
<1>5. ASSUME NEW a \in ids, NEW b \in ids, a < b PROVE new[a] # new[b]
  <2>1. upto(a) \in SUBSET upto(b) /\ b \in upto(b) /\ b \notin upto(a)
    <3>1. \A x \in ids : x <= a => x <= b BY <1>5
    <3>2. ~ (b <= a) /\ b <= b BY <1>5
    <3> QED BY <3>1, <3>2
  <2>2. upto(a) # upto(b) BY <2>1
  <2>3. IsFiniteSet(upto(b)) BY <1>3
  <2> HIDE DEF upto
  <2>4. Cardinality(upto(a)) # Cardinality(upto(b)) BY <2>1, <2>2, <2>3, FS_Subset
  <2> HIDE DEF new
  <2> QED BY <1>1, <1>3, <1>4, <2>4
<1> HIDE DEF upto, new
<1>6. \A c \in ids : new[c] \in T BY <1>1, <1>3, <1>4
<1>7. \A a, b \in ids : new[a] = new[b] => a = b
  <2>1. ASSUME NEW a \in ids, NEW b \in ids, new[a] = new[b] PROVE a = b
    <3>1. ~ (a < b) /\ ~ (b < a) BY <1>5, <2>1
    <3> QED BY <3>1
  <2> QED BY <2>1
<1>8. Range(new) = T
  <2>1. new \in [ids -> T] BY <1>2, <1>6 DEF new, Fresh
  <2>2. new \in Injection(ids, T) BY <1>7, <2>1 DEF Injection, IsInjective
  <2>3. IsFiniteSet(T) /\ Cardinality(T) = n
    <3> DEFINE a == lastChart + 1
               b == lastChart + n
    <3>1. a \in Int /\ b \in Int BY <1>4
    <3>2. IsFiniteSet(a..b) /\ Cardinality(a..b) = IF a > b THEN 0 ELSE b - a + 1
      <4> HIDE DEF a, b
      <4> QED BY <3>1, FS_Interval
    <3>3. (IF a > b THEN 0 ELSE b - a + 1) = n
      <4> HIDE DEF n
      <4> QED BY <1>4
    <3> QED BY <3>2, <3>3
  <2> HIDE DEF T, n
  <2>4. new \in Surjection(ids, T) BY <2>2, <2>3, FS_Injection DEF n
  <2> QED BY <1>2, <2>1, <2>4 DEF Surjection, Range
<1> QED BY <1>2, <1>4, <1>6, <1>7, <1>8 DEF new

\* Some chart has the greatest id of all: the one that the fewest are above of.
LEMMA GreatestId ==
  ASSUME NEW T \in SUBSET ChartIds, T # {}
  PROVE  \E n \in T : \A m \in T : m <= n
<1> DEFINE Above(n) == {m \in T : n < m}
           C == {Above(n) : n \in T}
<1>1. \A n \in T : n \in Nat BY Ids
<1>2. IsFiniteSet(T)
  <2>1. IsFiniteSet(1..MaxCharts) BY Ids, FS_Interval
  <2> QED BY <2>1, FS_Subset DEF ChartIds
<1>3. C \subseteq FiniteSubsetsOf(T) /\ C # {}
  <2>1. \A n \in T : Above(n) \in SUBSET T OBVIOUS
  <2> HIDE DEF Above
  <2> QED BY <1>2, <2>1, FS_Subset DEF FiniteSubsetsOf
<1>4. PICK X \in C : \A Y \in C : ~ (<<Y, X>> \in StrictSubsetOrdering(T))
  <2> HIDE DEF C
  <2> QED BY <1>2, <1>3, WFMin, FS_StrictSubsetOrderingWellFounded
<1>5. PICK n \in T : X = Above(n) OBVIOUS
<1>6. ASSUME NEW m \in T, n < m PROVE FALSE
  <2>1. Above(m) \subseteq Above(n) /\ m \in Above(n) /\ m \notin Above(m) BY <1>1, <1>6
  <2>2. Above(m) \in C /\ Above(m) \subseteq T /\ Above(n) \subseteq T OBVIOUS
  <2> HIDE DEF Above, C
  <2>3. <<Above(m), Above(n)>> \in StrictSubsetOrdering(T)
    BY <2>1, <2>2 DEF StrictSubsetOrdering
  <2> QED BY <1>4, <1>5, <2>2, <2>3
<1> QED BY <1>1, <1>6

-----------------------------------------------------------------------------
(* The inductive invariant *)

ChartsKept ==
  /\ lastChart \in ChartIds
  /\ DOMAIN charts \subseteq 1..lastChart
  /\ \A c \in DOMAIN charts : charts[c] \in Chart

Own(dash) ==
  dash.remote = NoId => NamedIn(dash.scopes) \cup dash.defaults \subseteq dash.layout

DashboardsKept ==
  /\ lastDashboard \in DashboardIds
  /\ DOMAIN dashboards \subseteq 1..lastDashboard
  /\ \A d \in DOMAIN dashboards :
       dashboards[d] \in Dashboard /\ dashboards[d].slices \subseteq DOMAIN charts /\ Own(dashboards[d])

PageKept(page) ==
  /\ page \in Page
  /\ DOMAIN page.filters \subseteq page.layout
  /\ page.active \subseteq DOMAIN page.filters

PagesKept == pages \in [Pages -> Page] /\ \A p \in Pages : PageKept(pages[p])

File ==
  [charts : UNION {[S -> BOOLEAN] : S \in SUBSET ChartIds}, layout : SUBSET ChartIds,
   scopes : Scopes, defaults : SUBSET ChartIds, remote : {NoId} \cup DashboardIds]

FileKept == file \in File

\* Ids are not used twice, so a chart is a filter box or not for ever: a page that
\* was loaded long ago, a file and the charts imported from it agree with the chart
\* that has the id now, if there is one.
KindsKept ==
  /\ \A p \in Pages : \A f \in DOMAIN pages[p].filters :
       f <= lastChart /\ (f \in DOMAIN charts => charts[f].filter)
  /\ \A c \in DOMAIN file.charts :
       c <= lastChart /\ (c \in DOMAIN charts => charts[c].filter = file.charts[c])
  /\ \A x \in DOMAIN charts :
       LET remote == charts[x].remote
       IN /\ remote <= lastChart
          /\ remote \in DOMAIN charts => charts[remote].filter = charts[x].filter
          /\ remote \in DOMAIN file.charts => file.charts[remote] = charts[x].filter

Data == ChartsKept /\ DashboardsKept /\ PagesKept /\ FileKept /\ KindsKept

IInv == Data /\ steps \in 0..MaxSteps

-----------------------------------------------------------------------------
(* Charts *)

\* The charts there are have ids up to the last one.
LEMMA ChartsTyped ==
  ASSUME ChartsKept
  PROVE  /\ lastChart \in Nat /\ DOMAIN charts \subseteq ChartIds
         /\ IsFiniteSet(DOMAIN charts)
         /\ \A x \in DOMAIN charts : x \in Nat /\ x <= lastChart
<1>1. lastChart \in Nat /\ DOMAIN charts \subseteq 1..lastChart /\ 1..lastChart \subseteq ChartIds
  BY Ids DEF ChartsKept
<1>2. IsFiniteSet(1..lastChart) BY <1>1, FS_Interval
<1> QED BY <1>1, <1>2, FS_Subset

\* The charts that are there keep their kind, and a new one has that of another
\* chart, or of the file, that it remembers as its remote_id.
Born(chart) ==
  \/ chart.remote = NoId
  \/ \E y \in DOMAIN charts : chart = charts[y]
  \/ chart.remote \in DOMAIN file.charts /\ chart.filter = file.charts[chart.remote]

\* What a step has to do so that whoever remembers a chart remembers its kind.
LEMMA KindsStay ==
  ASSUME ChartsKept, KindsKept, file' = file, lastChart' \in Nat, lastChart <= lastChart',
         \A x \in DOMAIN charts' \cap DOMAIN charts :
           /\ (charts')[x].filter = charts[x].filter
           /\ (charts')[x].remote \in {charts[x].remote, NoId},
         \A x \in DOMAIN charts' \ DOMAIN charts : x > lastChart /\ Born((charts')[x]),
         \A x \in DOMAIN charts' : x \in Nat /\ (charts')[x].remote \in Nat,
         \A p \in Pages : \A f \in DOMAIN (pages')[p].filters :
           f \in Nat /\ (f \in DOMAIN pages[p].filters \/ (f \in DOMAIN charts /\ charts[f].filter)),
         NoId \notin DOMAIN charts', NoId \notin DOMAIN file.charts,
         \A c \in DOMAIN file.charts : c \in Nat
  PROVE  KindsKept'
<1>1. lastChart \in Nat /\ \A x \in DOMAIN charts : x \in Nat /\ x <= lastChart BY ChartsTyped
<1>2. \A x \in DOMAIN charts' : x <= lastChart => x \in DOMAIN charts BY <1>1
<1>3. ASSUME NEW p \in Pages, NEW f \in DOMAIN (pages')[p].filters
      PROVE  f <= lastChart' /\ (f \in DOMAIN charts' => (charts')[f].filter)
  <2>1. f <= lastChart /\ (f \in DOMAIN charts => charts[f].filter) /\ f \in Nat
    BY <1>1 DEF KindsKept
  <2> QED BY <1>1, <1>2, <2>1
<1>4. ASSUME NEW c \in DOMAIN file.charts
      PROVE  c <= lastChart' /\ (c \in DOMAIN charts' => (charts')[c].filter = file.charts[c])
  <2>1. c <= lastChart /\ (c \in DOMAIN charts => charts[c].filter = file.charts[c]) /\ c \in Nat
    BY DEF KindsKept
  <2> QED BY <1>1, <1>2, <2>1
<1>5. ASSUME NEW x \in DOMAIN charts'
      PROVE  /\ (charts')[x].remote <= lastChart'
             /\ (charts')[x].remote \in DOMAIN charts'
                  => (charts')[(charts')[x].remote].filter = (charts')[x].filter
             /\ (charts')[x].remote \in DOMAIN file.charts
                  => file.charts[(charts')[x].remote] = (charts')[x].filter
  <2> DEFINE chart == (charts')[x]
             r == chart.remote
  <2>1. r \in Nat OBVIOUS
  <2>2. CASE r = NoId BY <1>1, <2>2 DEF NoId
  <2>3. CASE \E y \in DOMAIN charts : chart.remote = charts[y].remote /\ chart.filter = charts[y].filter
    <3>1. PICK y \in DOMAIN charts : r = charts[y].remote /\ chart.filter = charts[y].filter BY <2>3
    <3> HIDE DEF chart
    <3>2. /\ r <= lastChart /\ (r \in DOMAIN charts => charts[r].filter = chart.filter)
          /\ (r \in DOMAIN file.charts => file.charts[r] = chart.filter)
      BY <3>1 DEF KindsKept
    <3> HIDE DEF r
    <3>3. r \in DOMAIN charts' => (charts')[r].filter = chart.filter BY <1>2, <3>2
    <3> QED BY <1>1, <2>1, <3>2, <3>3 DEF chart, r
  <2>4. CASE r \in DOMAIN file.charts /\ chart.filter = file.charts[r]
    <3> HIDE DEF chart
    <3>1. r <= lastChart /\ (r \in DOMAIN charts => charts[r].filter = chart.filter)
      BY <2>4 DEF KindsKept
    <3> HIDE DEF r
    <3>2. r \in DOMAIN charts' => (charts')[r].filter = chart.filter BY <1>2, <3>1
    <3> QED BY <1>1, <2>1, <2>4, <3>1, <3>2 DEF chart, r
  <2>5. CASE x \in DOMAIN charts BY <2>2, <2>3, <2>5
  <2>6. CASE x \notin DOMAIN charts BY <2>2, <2>3, <2>4, <2>6 DEF Born
  <2> QED BY <2>5, <2>6
<1> QED BY <1>3, <1>4, <1>5 DEF KindsKept

\* A step that leaves the charts and the file alone.
LEMMA KindsSame ==
  ASSUME Data, UNCHANGED <<charts, lastChart, file>>,
         \A p \in Pages : \A f \in DOMAIN (pages')[p].filters :
           f \in DOMAIN pages[p].filters \/ (f \in DOMAIN charts /\ charts[f].filter)
  PROVE  KindsKept'
<1>1. \A p \in Pages : \A f \in DOMAIN (pages')[p].filters :
        f <= lastChart /\ (f \in DOMAIN charts => charts[f].filter)
  BY ChartsTyped DEF Data, KindsKept
<1> QED BY <1>1 DEF Data, KindsKept

\* A new chart gets the next id, which nobody has.
LEMMA AddChartKeeps ==
  ASSUME ChartsKept, NEW chart \in Chart, AddChart(chart)
  PROVE  /\ ChartsKept' /\ lastChart' = lastChart + 1
         /\ DOMAIN charts' = DOMAIN charts \cup {lastChart'} /\ lastChart' \notin DOMAIN charts
         /\ (charts')[lastChart'] = chart
         /\ \A x \in DOMAIN charts : (charts')[x] = charts[x]
<1> DEFINE new == [c \in {lastChart'} |-> chart]
<1>1. lastChart \in Nat /\ lastChart' = lastChart + 1 /\ lastChart < MaxCharts /\ charts' = With(charts, new)
  BY ChartsTyped DEF AddChart
<1>2. lastChart' \notin DOMAIN charts BY <1>1, ChartsTyped
<1>3. DOMAIN new = {lastChart'} /\ new[lastChart'] = chart OBVIOUS
<1> HIDE DEF new
<1>4. /\ DOMAIN charts' = DOMAIN charts \cup {lastChart'} /\ (charts')[lastChart'] = chart
      /\ \A x \in DOMAIN charts : (charts')[x] = charts[x]
  BY <1>1, <1>2, <1>3 DEF With
<1>5. lastChart' \in ChartIds BY <1>1, Ids DEF ChartIds
<1>6. DOMAIN charts' \subseteq 1..lastChart'
  <2>1. DOMAIN charts \subseteq 1..lastChart BY DEF ChartsKept
  <2> QED BY <1>1, <1>4, <2>1
<1>7. \A c \in DOMAIN charts' : (charts')[c] \in Chart BY <1>4 DEF ChartsKept
<1> QED BY <1>1, <1>2, <1>4, <1>5, <1>6, <1>7 DEF ChartsKept

\* What KindsStay asks of the types.
LEMMA KindsTyped ==
  ASSUME ChartsKept, FileKept
  PROVE  /\ \A x \in DOMAIN charts : x \in Nat /\ x \in ChartIds /\ charts[x].remote \in Nat
         /\ NoId \notin DOMAIN charts /\ NoId \notin DOMAIN file.charts
         /\ \A c \in DOMAIN file.charts : c \in Nat /\ c \in ChartIds
<1>1. \A x \in DOMAIN charts : x \in ChartIds /\ charts[x] \in Chart
  BY ChartsTyped DEF ChartsKept
<1>2. DOMAIN file.charts \in SUBSET ChartIds BY DEF FileKept, File
<1>3. \A x \in DOMAIN charts : charts[x].remote \in {NoId} \cup ChartIds BY <1>1 DEF Chart
<1> QED BY <1>1, <1>2, <1>3, Ids DEF NoId

-----------------------------------------------------------------------------
(* Dashboards *)

\* A step that leaves the dashboards alone, and takes no chart away.
LEMMA DashboardsSame ==
  ASSUME DashboardsKept, UNCHANGED <<dashboards, lastDashboard>>, DOMAIN charts \subseteq DOMAIN charts'
  PROVE  DashboardsKept'
BY DEF DashboardsKept, Own

\* A new dashboard, of nothing.
LEMMA BlankIs ==
  ASSUME NEW remote \in {NoId} \cup DashboardIds
  PROVE  Blank(remote) \in Dashboard /\ Blank(remote).slices = {} /\ Own(Blank(remote))
         /\ Blank(remote).remote = remote
<1>1. Nothing \in Scopes /\ NamedIn(Nothing) = {}
  <2>1. Nothing \in [{} -> SUBSET ChartIds] BY DEF Nothing
  <2> QED BY <2>1, ScopesAre DEF NamedIn, Range
<1> HIDE DEF Nothing
<1> QED BY <1>1 DEF Blank, Dashboard, Own

SavedAs(next, existing, layout, map, page) ==
  /\ next.slices = layout \cap existing /\ next.layout = layout
  /\ next.scopes = CopyFilterScopes(map, page.filters)
  /\ next.defaults = page.active \cap layout

\* set_dash_metadata writes what the page holds, of its own charts.
LEMMA MetadataIs ==
  ASSUME NEW dash \in Dashboard, NEW existing, NEW layout \in SUBSET ChartIds,
         NEW map, Range(map) \subseteq layout, NEW page \in Page,
         NEW next, next = SetDashMetadata(dash, existing, layout, map, page)
  PROVE  /\ next \in Dashboard /\ Own(next) /\ next.remote = dash.remote
         /\ SavedAs(next, existing, layout, map, page)
<1> DEFINE scopes == CopyFilterScopes(map, page.filters)
<1>1. scopes \in Scopes /\ NamedIn(scopes) \subseteq layout BY CopiedScopes
<1>2. next = [dash EXCEPT !.slices = layout \cap existing, !.layout = layout, !.scopes = scopes,
                          !.defaults = page.active \cap layout]
  BY DEF SetDashMetadata
<1> HIDE DEF scopes
<1>3. /\ next.slices = layout \cap existing /\ next.layout = layout /\ next.scopes = scopes
      /\ next.defaults = page.active \cap layout /\ next.remote = dash.remote
  BY <1>2 DEF Dashboard
<1>4. next \in Dashboard BY <1>1, <1>2 DEF Dashboard
<1>5. Own(next) BY <1>1, <1>3 DEF Own
<1> QED BY <1>3, <1>4, <1>5 DEF scopes, SavedAs

\* A save that copies no chart maps each to itself.
LEMMA IdentityIs ==
  ASSUME NEW ids
  PROVE  /\ Range(Identity(ids)) = ids /\ DOMAIN Identity(ids) = ids
         /\ \A c \in ids : Identity(ids)[c] = c
         /\ \A other : Through(Identity(ids), other) = other \cap ids
BY DEF Identity, Range, Through

\* A new dashboard gets the next id.
LEMMA AddDashboardKeeps ==
  ASSUME DashboardsKept, DOMAIN charts \subseteq DOMAIN charts',
         NEW dash \in Dashboard, dash.slices \subseteq DOMAIN charts', Own(dash), AddDashboard(dash)
  PROVE  /\ DashboardsKept' /\ (dashboards')[lastDashboard'] = dash
         /\ lastDashboard' = lastDashboard + 1
<1> DEFINE new == [d \in {lastDashboard'} |-> dash]
<1>1. lastDashboard \in Nat BY Ids DEF DashboardsKept
<1>2. /\ lastDashboard' = lastDashboard + 1 /\ lastDashboard < MaxDashboards
      /\ dashboards' = With(dashboards, new)
  BY DEF AddDashboard
<1>3. DOMAIN dashboards \subseteq 1..lastDashboard BY DEF DashboardsKept
<1>4. lastDashboard' \notin DOMAIN dashboards BY <1>1, <1>2, <1>3
<1>5. DOMAIN new = {lastDashboard'} /\ new[lastDashboard'] = dash OBVIOUS
<1> HIDE DEF new
<1>6. /\ DOMAIN dashboards' = DOMAIN dashboards \cup {lastDashboard'}
      /\ (dashboards')[lastDashboard'] = dash
      /\ \A d \in DOMAIN dashboards : (dashboards')[d] = dashboards[d]
  BY <1>2, <1>4, <1>5 DEF With
<1>7. lastDashboard' \in DashboardIds BY <1>1, <1>2, Ids DEF DashboardIds
<1>8. DOMAIN dashboards' \subseteq 1..lastDashboard' BY <1>1, <1>2, <1>3, <1>6
<1> QED BY <1>2, <1>6, <1>7, <1>8 DEF DashboardsKept, Own

-----------------------------------------------------------------------------
(* The page *)

\* A step of one page.
LEMMA PageStep ==
  ASSUME Data, NEW p \in Pages, NEW next, PageKept(next),
         (pages')[p] = next, \A q \in Pages \ {p} : (pages')[q] = pages[q],
         pages' = [q \in Pages |-> (pages')[q]],
         UNCHANGED <<charts, dashboards, lastChart, lastDashboard, file>>,
         \A f \in DOMAIN next.filters :
           f \in DOMAIN pages[p].filters \/ (f \in DOMAIN charts /\ charts[f].filter)
  PROVE  Data'
<1>1. ChartsKept' /\ DashboardsKept' /\ FileKept'
  BY DashboardsSame DEF Data, ChartsKept, FileKept
<1>2. PagesKept'
  <2>1. \A q \in Pages : PageKept((pages')[q]) /\ (pages')[q] \in Page
    BY DEF Data, PagesKept, PageKept
  <2> QED BY <2>1 DEF PagesKept, PageKept
<1>3. KindsKept'
  <2>1. \A q \in Pages : \A f \in DOMAIN (pages')[q].filters :
          f \in DOMAIN pages[q].filters \/ (f \in DOMAIN charts /\ charts[f].filter)
    OBVIOUS
  <2> QED BY <2>1, KindsSame
<1> QED BY <1>1, <1>2, <1>3 DEF Data

\* What the invariant says of a page.
LEMMA PageOf ==
  ASSUME Data, NEW p \in Pages
  PROVE  /\ pages \in [Pages -> Page] /\ PageKept(pages[p]) /\ pages[p] \in Page
         /\ pages[p].layout \in SUBSET ChartIds /\ pages[p].filters \in Scopes
         /\ DOMAIN pages[p].filters \in SUBSET ChartIds
         /\ pages[p].filters \in [DOMAIN pages[p].filters -> SUBSET ChartIds]
         /\ pages[p].active \in SUBSET ChartIds /\ pages[p].of \in {NoId} \cup DashboardIds
         /\ pages[p].url \in Urls
<1>1. pages \in [Pages -> Page] /\ PageKept(pages[p]) BY DEF Data, PagesKept
<1>2. pages[p].filters \in Scopes BY <1>1 DEF Page
<1> QED BY <1>1, <1>2, ScopesHave DEF Page

\* An address is that of a page or of the list.
LEMMA AddressesAre ==
  ASSUME Data, NEW d \in DOMAIN dashboards
  PROVE  Addresses(d) \subseteq Urls
<1>1. Link(d) \in Urls
  <2>1. dashboards[d].defaults \in SUBSET ChartIds BY DEF Data, DashboardsKept, Dashboard
  <2> QED BY <2>1 DEF Link, Urls
<1>2. \A p \in Pages : pages[p].url \in Urls /\ pages[p].active \in Urls BY PageOf DEF Urls
<1>3. NoUrl \in Urls BY DEF Urls
<1> QED BY <1>1, <1>2, <1>3 DEF Addresses

\* A page that is loaded, and what the next load of it gives.
LEMMA LoadedIs ==
  ASSUME NEW d \in DOMAIN dashboards, dashboards[d] \in Dashboard, d \in DashboardIds,
         NEW url \in Urls
  PROVE  LET dash == dashboards[d]
             boxes == {c \in dash.slices : charts[c].filter}
         IN PageKept(Loaded(d, url)) /\ DOMAIN Loaded(d, url).filters = boxes
<1> DEFINE dash == dashboards[d]
           boxes == {c \in dash.slices : charts[c].filter}
           filters == [f \in boxes |-> IF f \in DOMAIN dash.scopes THEN dash.scopes[f] ELSE {}]
           layout == dash.layout \cup dash.slices
           active == Preselected(d, url) \cap boxes
<1>1. /\ dash.slices \in SUBSET ChartIds /\ dash.layout \in SUBSET ChartIds
      /\ dash.scopes \in Scopes
  BY DEF Dashboard
<1>2. dash.scopes \in [DOMAIN dash.scopes -> SUBSET ChartIds] BY <1>1, ScopesHave
<1>3. Loaded(d, url) = [of |-> d, layout |-> layout, filters |-> filters, active |-> active,
                        url |-> url]
  BY DEF Loaded
<1>4. boxes \subseteq dash.slices OBVIOUS
<1> HIDE DEF dash, boxes
<1>5. filters \in [boxes -> SUBSET ChartIds] BY <1>2
<1>6. filters \in Scopes BY <1>1, <1>4, <1>5, ScopesAre
<1>7. DOMAIN filters = boxes /\ boxes \subseteq layout /\ active \subseteq boxes
      /\ layout \in SUBSET ChartIds /\ active \in SUBSET ChartIds
  BY <1>1, <1>4
<1> HIDE DEF filters, layout, active
<1>8. PageKept(Loaded(d, url)) BY <1>3, <1>6, <1>7 DEF PageKept, Page
<1> QED BY <1>3, <1>7, <1>8 DEF dash, boxes

\* A page is loaded ...
LEMMA OpenKeeps ==
  ASSUME Data, NEW p \in Pages, NEW d \in DOMAIN dashboards, OpenPage(p, d)
  PROVE  Data'
<1>1. dashboards[d] \in Dashboard /\ d \in DashboardIds /\ dashboards[d].slices \subseteq DOMAIN charts
  BY Ids DEF Data, DashboardsKept
<1>2. PICK url \in Addresses(d) : pages' = [pages EXCEPT ![p] = Loaded(d, url)] BY DEF OpenPage
<1> DEFINE next == Loaded(d, url)
<1>3. PageKept(next) /\ \A f \in DOMAIN next.filters : f \in DOMAIN charts /\ charts[f].filter
  <2>1. url \in Urls BY AddressesAre
  <2> QED BY <1>1, <2>1, LoadedIs
<1>4. UNCHANGED <<charts, dashboards, lastChart, lastDashboard, file>> BY DEF OpenPage
<1>5. pages \in [Pages -> Page] BY PageOf
<1> HIDE DEF next
<1>6. (pages')[p] = next /\ (\A q \in Pages \ {p} : (pages')[q] = pages[q])
      /\ pages' = [q \in Pages |-> (pages')[q]]
  BY <1>2, <1>5 DEF next
<1> QED BY <1>3, <1>4, <1>6, PageStep

\* ... and edited.
LEMMA EditKeeps ==
  ASSUME Data, NEW p \in Pages, Edit(p)
  PROVE  Data'
<1> DEFINE page == pages[p]
<1>1. /\ pages \in [Pages -> Page] /\ PageKept(page) /\ page \in Page
      /\ page.layout \in SUBSET ChartIds /\ DOMAIN page.filters \in SUBSET ChartIds
      /\ page.filters \in [DOMAIN page.filters -> SUBSET ChartIds]
      /\ page.active \in SUBSET ChartIds
  BY PageOf
<1>2. ASSUME NEW c \in DOMAIN charts, DragChart(p, c) PROVE Data'
  <2> DEFINE filters == IF charts[c].filter THEN With(page.filters, [f \in {c} |-> {}])
                                            ELSE page.filters
             next == [[page EXCEPT !.layout = @ \cup {c}] EXCEPT !.filters = filters]
  <2>1. (pages')[p] = next /\ (\A q \in Pages \ {p} : (pages')[q] = pages[q])
        /\ pages' = [q \in Pages |-> (pages')[q]]
        /\ UNCHANGED <<charts, dashboards, lastChart, lastDashboard, file>>
    BY <1>1, <1>2 DEF DragChart, Page
  <2>2. c \in ChartIds BY ChartsTyped DEF Data
  <2>3. /\ DOMAIN filters \subseteq DOMAIN page.filters \cup {c}
        /\ DOMAIN page.filters \subseteq DOMAIN filters
        /\ c \in DOMAIN filters => charts[c].filter \/ c \in DOMAIN page.filters
        /\ filters \in [DOMAIN filters -> SUBSET ChartIds]
    BY <1>1, <2>2 DEF With
  <2> HIDE DEF filters
  <2>4. filters \in Scopes BY <1>1, <2>2, <2>3, ScopesAre
  <2>5. next.layout = page.layout \cup {c} /\ next.filters = filters /\ next.active = page.active
        /\ next \in Page
    BY <1>1, <2>2, <2>4 DEF Page
  <2> HIDE DEF next
  <2>6. PageKept(next)
    BY <1>1, <2>3, <2>5 DEF PageKept
  <2> QED BY <2>1, <2>3, <2>5, <2>6, PageStep
<1>3. ASSUME NEW c \in ChartIds, RemoveChart(p, c) PROVE Data'
  <2> DEFINE filters == Restrict(page.filters, DOMAIN page.filters \ {c})
             next == [[[page EXCEPT !.layout = @ \ {c}] EXCEPT !.filters = filters]
                        EXCEPT !.active = @ \ {c}]
  <2>1. (pages')[p] = next /\ (\A q \in Pages \ {p} : (pages')[q] = pages[q])
        /\ pages' = [q \in Pages |-> (pages')[q]]
        /\ UNCHANGED <<charts, dashboards, lastChart, lastDashboard, file>>
    BY <1>1, <1>3 DEF RemoveChart, Page
  <2>2. /\ DOMAIN filters = DOMAIN page.filters \ {c}
        /\ filters \in [DOMAIN filters -> SUBSET ChartIds]
    BY <1>1 DEF Restrict
  <2> HIDE DEF filters
  <2>3. filters \in Scopes BY <1>1, <2>2, ScopesAre
  <2>4. next.layout = page.layout \ {c} /\ next.filters = filters /\ next.active = page.active \ {c}
        /\ next \in Page
    BY <1>1, <2>3 DEF Page
  <2> HIDE DEF next
  <2>5. PageKept(next) BY <1>1, <2>2, <2>4 DEF PageKept
  <2> QED BY <2>1, <2>2, <2>4, <2>5, PageStep
<1>4. ASSUME NEW f \in ChartIds, NEW c \in ChartIds, EditScope(p, f, c) PROVE Data'
  <2> DEFINE scope == IF c \in page.filters[f] THEN page.filters[f] \ {c} ELSE page.filters[f] \cup {c}
             filters == [page.filters EXCEPT ![f] = scope]
             next == [page EXCEPT !.filters = filters]
  <2>1. (pages')[p] = next /\ (\A q \in Pages \ {p} : (pages')[q] = pages[q])
        /\ pages' = [q \in Pages |-> (pages')[q]]
        /\ UNCHANGED <<charts, dashboards, lastChart, lastDashboard, file>>
    BY <1>1, <1>4 DEF EditScope, Page
  <2>2. f \in DOMAIN page.filters BY <1>4 DEF EditScope
  <2>3. scope \in SUBSET ChartIds BY <1>1, <2>2
  <2> HIDE DEF scope
  <2>4. DOMAIN filters = DOMAIN page.filters /\ filters \in [DOMAIN page.filters -> SUBSET ChartIds]
    BY <1>1, <2>3
  <2> HIDE DEF filters
  <2>5. filters \in Scopes BY <1>1, <2>4, ScopesAre
  <2>6. next.layout = page.layout /\ next.filters = filters /\ next.active = page.active
        /\ next \in Page
    BY <1>1, <2>5 DEF Page
  <2> HIDE DEF next
  <2>7. PageKept(next) BY <1>1, <2>4, <2>6 DEF PageKept
  <2> QED BY <2>1, <2>4, <2>6, <2>7, PageStep
<1>5. ASSUME NEW f \in ChartIds, ChangeFilter(p, f) PROVE Data'
  <2> DEFINE active == IF f \in page.active THEN page.active \ {f} ELSE page.active \cup {f}
             next == [page EXCEPT !.active = active]
  <2>1. (pages')[p] = next /\ (\A q \in Pages \ {p} : (pages')[q] = pages[q])
        /\ pages' = [q \in Pages |-> (pages')[q]]
        /\ UNCHANGED <<charts, dashboards, lastChart, lastDashboard, file>>
    BY <1>1, <1>5 DEF ChangeFilter, Page
  <2>2. f \in DOMAIN page.filters BY <1>5 DEF ChangeFilter
  <2>3. active \subseteq page.active \cup {f} OBVIOUS
  <2> HIDE DEF active
  <2>4. next.layout = page.layout /\ next.filters = page.filters /\ next.active = active
        /\ next \in Page
    BY <1>1, <2>3 DEF Page
  <2> HIDE DEF next
  <2>5. PageKept(next) BY <1>1, <2>2, <2>3, <2>4 DEF PageKept
  <2> QED BY <2>1, <2>4, <2>5, PageStep
<1> QED BY <1>2, <1>3, <1>4, <1>5 DEF Edit

-----------------------------------------------------------------------------
(* Requests that leave the charts alone *)

\* A step that leaves the charts, the pages and the file alone.
LEMMA DashboardsOnly ==
  ASSUME Data, UNCHANGED <<charts, lastChart, pages, file>>, DashboardsKept'
  PROVE  Data'
<1>1. KindsKept' BY KindsSame
<1>2. PagesKept' BY DEF Data, PagesKept, PageKept
<1> QED BY <1>1, <1>2 DEF Data, ChartsKept, FileKept

\* A window that shows no dashboard.
LEMMA NoPageIs == PageKept(NoPage) /\ NoPage.filters = Nothing
<1>1. Nothing \in [{} -> SUBSET ChartIds] /\ DOMAIN Nothing = {} BY DEF Nothing
<1>2. Nothing \in Scopes BY <1>1, ScopesAre
<1>3. NoUrl \in Urls BY DEF Urls
<1>4. NoPage = [of |-> NoId, layout |-> {}, filters |-> Nothing, active |-> {}, url |-> NoUrl]
  BY DEF NoPage
<1> HIDE DEF Nothing, NoUrl, NoPage
<1>5. NoPage \in Page BY <1>2, <1>3, <1>4 DEF Page
<1> QED BY <1>1, <1>4, <1>5 DEF PageKept

\* The window has gone on to another address.
LEMMA LeavePage ==
  ASSUME Data, NEW p \in Pages, pages' = [pages EXCEPT ![p] = NoPage]
  PROVE  /\ PagesKept'
         /\ \A q \in Pages : \A f \in DOMAIN (pages')[q].filters :
              f \in Nat /\ f \in DOMAIN pages[q].filters
<1>1. PageKept(NoPage) /\ NoPage.filters = Nothing BY NoPageIs
<1>2. pages \in [Pages -> Page] /\ \A q \in Pages : PageKept(pages[q]) BY DEF Data, PagesKept
<1> HIDE DEF NoPage
<1>3. \A q \in Pages : (pages')[q] = IF q = p THEN NoPage ELSE pages[q] BY <1>2
<1>4. PagesKept'
  <2>1. NoPage \in Page BY <1>1 DEF PageKept
  <2>2. pages' \in [Pages -> Page] BY <1>2, <2>1
  <2> QED BY <1>1, <1>2, <1>3, <2>2 DEF PagesKept, PageKept
<1>5. \A q \in Pages : \A f \in DOMAIN pages[q].filters : f \in Nat BY PageOf, Ids
<1>6. DOMAIN Nothing = {} BY DEF Nothing
<1> QED BY <1>1, <1>3, <1>4, <1>5, <1>6

\* What save_dash writes ...
LEMMA SaveIs ==
  ASSUME Data, NEW p \in Pages, SaveDash(p)
  PROVE  LET page == pages[p]
             next == (dashboards')[page.of]
         IN /\ page.of \in DOMAIN dashboards /\ DOMAIN dashboards' = DOMAIN dashboards
            /\ next \in Dashboard /\ Own(next)
            /\ SavedAs(next, DOMAIN charts, page.layout, Identity(page.layout), page)
            /\ \A d \in DOMAIN dashboards \ {page.of} : (dashboards')[d] = dashboards[d]
            /\ UNCHANGED <<charts, lastChart, lastDashboard, pages, file>>
<1> DEFINE page == pages[p]
           map == Identity(page.layout)
           dash == dashboards[page.of]
           next == SetDashMetadata(dash, DOMAIN charts, page.layout, map, page)
<1>1. /\ page.of \in DOMAIN dashboards /\ dashboards' = [dashboards EXCEPT ![page.of] = next]
      /\ UNCHANGED <<charts, lastChart, lastDashboard, pages, file>>
  BY DEF SaveDash
<1>2. page.layout \in SUBSET ChartIds /\ page \in Page BY PageOf
<1>3. dash \in Dashboard BY <1>1 DEF Data, DashboardsKept
<1>4. Range(map) \subseteq page.layout BY IdentityIs
<1>5. next = SetDashMetadata(dash, DOMAIN charts, page.layout, map, page) OBVIOUS
<1> HIDE DEF page, map, dash, next
<1>6. next \in Dashboard /\ Own(next) /\ SavedAs(next, DOMAIN charts, page.layout, map, page)
  BY <1>2, <1>3, <1>4, <1>5, MetadataIs
<1>7. (dashboards')[page.of] = next /\ DOMAIN dashboards' = DOMAIN dashboards
      /\ \A d \in DOMAIN dashboards \ {page.of} : (dashboards')[d] = dashboards[d]
  BY <1>1
<1> QED BY <1>1, <1>6, <1>7 DEF page, map

\* ... keeps the invariant.
LEMMA SaveKeeps == ASSUME Data, NEW p \in Pages, SaveDash(p) PROVE Data'
<1> DEFINE of == pages[p].of
<1>1. /\ DOMAIN dashboards' = DOMAIN dashboards
      /\ (dashboards')[of] \in Dashboard /\ Own((dashboards')[of])
      /\ (dashboards')[of].slices \subseteq DOMAIN charts
      /\ \A d \in DOMAIN dashboards \ {of} : (dashboards')[d] = dashboards[d]
      /\ UNCHANGED <<charts, lastChart, lastDashboard, pages, file>>
  BY SaveIs DEF SavedAs
<1> HIDE DEF of
<1>2. DashboardsKept' BY <1>1 DEF Data, DashboardsKept, Own
<1> QED BY <1>1, <1>2, DashboardsOnly

\* copy_dash without the charts.
LEMMA CopyKeeps == ASSUME Data, NEW p \in Pages, CopyDash(p) PROVE Data'
<1> DEFINE page == pages[p]
           map == Identity(page.layout)
           blank == Blank(dashboards[page.of].remote)
           next == SetDashMetadata(blank, DOMAIN charts, page.layout, map, page)
<1>1. /\ page.of \in DOMAIN dashboards /\ AddDashboard(next) /\ pages' = [pages EXCEPT ![p] = NoPage]
      /\ UNCHANGED <<charts, lastChart, file>>
  BY DEF CopyDash
<1>2. page.layout \in SUBSET ChartIds /\ page \in Page BY PageOf
<1>3. blank \in Dashboard
  <2>1. dashboards[page.of] \in Dashboard BY <1>1 DEF Data, DashboardsKept
  <2>2. dashboards[page.of].remote \in {NoId} \cup DashboardIds BY <2>1 DEF Dashboard
  <2> QED BY <2>2, BlankIs
<1>4. Range(map) \subseteq page.layout BY IdentityIs
<1> HIDE DEF page, map, blank
<1>5. next \in Dashboard /\ Own(next) /\ next.slices \subseteq DOMAIN charts
  <2>1. next = SetDashMetadata(blank, DOMAIN charts, page.layout, map, page) OBVIOUS
  <2> HIDE DEF next
  <2>2. next \in Dashboard /\ Own(next) /\ SavedAs(next, DOMAIN charts, page.layout, map, page)
    BY <1>2, <1>3, <1>4, <2>1, MetadataIs
  <2> QED BY <2>2 DEF SavedAs
<1> HIDE DEF next
<1>6. DashboardsKept' BY <1>1, <1>5, AddDashboardKeeps DEF Data
<1>7. KindsKept' /\ PagesKept' BY <1>1, LeavePage, KindsSame
<1> QED BY <1>1, <1>6, <1>7 DEF Data, ChartsKept, FileKept

\* A dashboard whose relation slices is another one.
LEMMA SlicesIs ==
  ASSUME NEW dash \in Dashboard, Own(dash), NEW S \in SUBSET ChartIds
  PROVE  LET next == [dash EXCEPT !.slices = S]
         IN next \in Dashboard /\ Own(next) /\ next.slices = S
BY DEF Dashboard, Own

\* What the invariant says of a dashboard.
LEMMA DashboardOf ==
  ASSUME Data, NEW d \in DOMAIN dashboards
  PROVE  /\ dashboards[d] \in Dashboard /\ Own(dashboards[d])
         /\ dashboards[d].slices \subseteq DOMAIN charts /\ dashboards[d].slices \in SUBSET ChartIds
         /\ d \in DashboardIds
BY Ids DEF Data, DashboardsKept, Dashboard

\* A chart is put on a dashboard.
LEMMA AddToDashKeeps ==
  ASSUME Data, NEW c \in DOMAIN charts, NEW d \in DOMAIN dashboards, AddToDash(c, d)
  PROVE  Data'
<1> DEFINE slices == dashboards[d].slices \cup {c}
           next == [dashboards[d] EXCEPT !.slices = slices]
<1>1. /\ dashboards' = [dashboards EXCEPT ![d] = next]
      /\ UNCHANGED <<charts, lastChart, lastDashboard, pages, file>>
  BY DEF AddToDash
<1>2. slices \in SUBSET ChartIds /\ slices \subseteq DOMAIN charts BY DashboardOf, ChartsTyped DEF Data
<1> HIDE DEF slices
<1>3. next \in Dashboard /\ Own(next) /\ next.slices = slices BY <1>2, DashboardOf, SlicesIs
<1> HIDE DEF next
<1>4. DashboardsKept' BY <1>1, <1>2, <1>3 DEF Data, DashboardsKept, Own
<1> QED BY <1>1, <1>4, DashboardsOnly

\* Dashboards from which charts are taken off.
LEMMA WithoutIs ==
  ASSUME Data, NEW cs, dashboards' = WithoutCharts(cs), lastDashboard' = lastDashboard,
         DOMAIN charts \ cs \subseteq DOMAIN charts'
  PROVE  DashboardsKept'
<1>1. ASSUME NEW d \in DOMAIN dashboards
      PROVE  (dashboards')[d] \in Dashboard /\ Own((dashboards')[d])
             /\ (dashboards')[d].slices \subseteq DOMAIN charts'
  <2> DEFINE slices == dashboards[d].slices \ cs
             next == [dashboards[d] EXCEPT !.slices = slices]
  <2>1. (dashboards')[d] = next BY DEF WithoutCharts
  <2>2. slices \in SUBSET ChartIds /\ slices \subseteq DOMAIN charts' BY DashboardOf
  <2> HIDE DEF slices
  <2>3. next \in Dashboard /\ Own(next) /\ next.slices = slices BY <2>2, DashboardOf, SlicesIs
  <2> HIDE DEF next
  <2> QED BY <2>1, <2>2, <2>3
<1>2. DOMAIN dashboards' = DOMAIN dashboards BY DEF WithoutCharts
<1> QED BY <1>1, <1>2 DEF Data, DashboardsKept, Own

\* PUT /chart/<id>, which names the dashboards or takes the chart off all.
LEMMA UpdateKeeps == ASSUME Data, NEW c \in DOMAIN charts, UpdateChart(c) PROVE Data'
<1>1. dashboards' = WithoutCharts({c}) /\ UNCHANGED <<charts, lastChart, lastDashboard, pages, file>>
  BY DEF UpdateChart
<1>2. DashboardsKept' BY <1>1, WithoutIs
<1> QED BY <1>1, <1>2, DashboardsOnly

\* A new dashboard.
LEMMA NewKeeps == ASSUME Data, NewDashboard PROVE Data'
<1>1. AddDashboard(Blank(NoId)) /\ UNCHANGED <<charts, lastChart, pages, file>> BY DEF NewDashboard
<1>2. Blank(NoId) \in Dashboard /\ Blank(NoId).slices = {} /\ Own(Blank(NoId)) BY BlankIs
<1>3. DashboardsKept' BY <1>1, <1>2, AddDashboardKeeps DEF Data
<1> QED BY <1>1, <1>3, DashboardsOnly

\* Dashboards are deleted.
LEMMA DeleteDashboardsKeeps == ASSUME Data, NEW ds, DeleteDashboards(ds) PROVE Data'
<1>1. /\ dashboards' = Restrict(dashboards, DOMAIN dashboards \ ds)
      /\ UNCHANGED <<charts, lastChart, lastDashboard, pages, file>>
  BY DEF DeleteDashboards
<1>2. DOMAIN dashboards' = DOMAIN dashboards \ ds
      /\ \A d \in DOMAIN dashboards \ ds : (dashboards')[d] = dashboards[d]
  BY <1>1 DEF Restrict
<1>3. DashboardsKept' BY <1>1, <1>2 DEF Data, DashboardsKept, Own
<1> QED BY <1>1, <1>3, DashboardsOnly

\* A dashboard is cloned.
LEMMA CloneDashboardKeeps == ASSUME Data, NEW d \in DOMAIN dashboards, CloneDashboard(d) PROVE Data'
<1> DEFINE next == [dashboards[d] EXCEPT !.slices = {}]
<1>1. AddDashboard(next) /\ UNCHANGED <<charts, lastChart, pages, file>> BY DEF CloneDashboard
<1>2. next \in Dashboard /\ Own(next) /\ next.slices = {} BY DashboardOf, SlicesIs
<1> HIDE DEF next
<1>3. DashboardsKept' BY <1>1, <1>2, AddDashboardKeeps DEF Data
<1> QED BY <1>1, <1>3, DashboardsOnly

-----------------------------------------------------------------------------
(* Requests that change the charts *)

\* A step that leaves the file alone and takes no filter into a page.
LEMMA ChartsStep ==
  ASSUME Data, ChartsKept', DashboardsKept', PagesKept', file' = file, lastChart <= lastChart',
         \A x \in DOMAIN charts' \cap DOMAIN charts :
           /\ (charts')[x].filter = charts[x].filter
           /\ (charts')[x].remote \in {charts[x].remote, NoId},
         \A x \in DOMAIN charts' \ DOMAIN charts : x > lastChart /\ Born((charts')[x]),
         \A p \in Pages : DOMAIN (pages')[p].filters \subseteq DOMAIN pages[p].filters
  PROVE  Data'
<1>1. lastChart' \in Nat BY Ids DEF ChartsKept
<1>2. \A x \in DOMAIN charts' : x \in Nat /\ x # NoId /\ (charts')[x].remote \in Nat
  <2>1. ASSUME NEW x \in DOMAIN charts'
        PROVE  x \in Nat /\ x # NoId /\ (charts')[x].remote \in Nat
    <3>1. x \in 1..lastChart' /\ (charts')[x] \in Chart BY DEF ChartsKept
    <3>2. (charts')[x].remote \in {NoId} \cup ChartIds BY <3>1 DEF Chart
    <3>3. NoId \in Nat BY DEF NoId
    <3> QED BY <1>1, <3>1, <3>2, <3>3, Ids DEF NoId
  <2> QED BY <2>1
<1>3. NoId \notin DOMAIN file.charts /\ \A c \in DOMAIN file.charts : c \in Nat
  BY KindsTyped DEF Data
<1>4. \A p \in Pages : \A f \in DOMAIN (pages')[p].filters :
        f \in Nat /\ f \in DOMAIN pages[p].filters
  BY PageOf, Ids
<1>5. KindsKept' BY <1>1, <1>2, <1>3, <1>4, KindsStay DEF Data
<1> QED BY <1>5 DEF Data, FileKept

\* A step that adds one chart.
LEMMA OneMoreChart ==
  ASSUME Data, NEW chart \in Chart, AddChart(chart), Born(chart),
         UNCHANGED <<dashboards, lastDashboard, pages, file>>
  PROVE  Data'
<1>1. /\ ChartsKept' /\ lastChart' = lastChart + 1
      /\ DOMAIN charts' = DOMAIN charts \cup {lastChart'}
      /\ (charts')[lastChart'] = chart
      /\ \A x \in DOMAIN charts : (charts')[x] = charts[x]
  BY AddChartKeeps DEF Data
<1>2. lastChart' > lastChart BY <1>1, ChartsTyped DEF Data
<1>3. DashboardsKept' BY <1>1, DashboardsSame DEF Data
<1>4. PagesKept' BY DEF Data, PagesKept, PageKept
<1>5. \A x \in DOMAIN charts' \ DOMAIN charts : x > lastChart /\ Born((charts')[x]) BY <1>1, <1>2
<1>6. lastChart <= lastChart' BY <1>1, ChartsTyped DEF Data
<1> QED BY <1>1, <1>3, <1>4, <1>5, <1>6, ChartsStep

\* A chart is saved from the explore page.
LEMMA SaveAsKeeps == ASSUME Data, NEW filter \in BOOLEAN, SaveAs(filter) PROVE Data'
<1> DEFINE chart == [filter |-> filter, remote |-> NoId]
<1>1. chart \in Chart /\ Born(chart) BY DEF Chart, Born
<1>2. AddChart(chart) /\ UNCHANGED <<dashboards, lastDashboard, pages, file>> BY DEF SaveAs
<1> HIDE DEF chart
<1> QED BY <1>1, <1>2, OneMoreChart

\* A chart is cloned.
LEMMA CloneKeeps == ASSUME Data, NEW c \in DOMAIN charts, CloneChart(c) PROVE Data'
<1>1. charts[c] \in Chart /\ Born(charts[c]) BY DEF Data, ChartsKept, Born
<1>2. AddChart(charts[c]) /\ UNCHANGED <<dashboards, lastDashboard, pages, file>> BY DEF CloneChart
<1> QED BY <1>1, <1>2, OneMoreChart

\* A chart is saved over itself.
LEMMA OverwriteKeeps == ASSUME Data, NEW c \in DOMAIN charts, Overwrite(c) PROVE Data'
<1> DEFINE next == [charts[c] EXCEPT !.remote = NoId]
<1>1. /\ charts' = [charts EXCEPT ![c] = next]
      /\ UNCHANGED <<dashboards, lastChart, lastDashboard, pages, file>>
  BY DEF Overwrite
<1>2. charts[c] \in Chart BY DEF Data, ChartsKept
<1>3. next \in Chart /\ next.filter = charts[c].filter /\ next.remote = NoId BY <1>2 DEF Chart
<1> HIDE DEF next
<1>4. DOMAIN charts' = DOMAIN charts /\ (charts')[c] = next
      /\ \A x \in DOMAIN charts \ {c} : (charts')[x] = charts[x]
  BY <1>1
<1>5. ChartsKept' BY <1>1, <1>3, <1>4 DEF Data, ChartsKept
<1>6. DashboardsKept' BY <1>1, <1>4, DashboardsSame DEF Data
<1>7. PagesKept' BY <1>1 DEF Data, PagesKept, PageKept
<1>8. lastChart <= lastChart' BY <1>1, ChartsTyped DEF Data
<1>9. \A x \in DOMAIN charts' : /\ (charts')[x].filter = charts[x].filter
                               /\ (charts')[x].remote \in {charts[x].remote, NoId}
  BY <1>3, <1>4
<1> QED BY <1>1, <1>4, <1>5, <1>6, <1>7, <1>8, <1>9, ChartsStep

\* Charts are deleted, and taken off the dashboards.
LEMMA DeleteChartsKeeps == ASSUME Data, NEW cs, DeleteCharts(cs) PROVE Data'
<1>1. /\ dashboards' = WithoutCharts(cs) /\ charts' = Restrict(charts, DOMAIN charts \ cs)
      /\ UNCHANGED <<lastChart, lastDashboard, pages, file>>
  BY DEF DeleteCharts
<1>2. DOMAIN charts' = DOMAIN charts \ cs /\ \A x \in DOMAIN charts' : (charts')[x] = charts[x]
  BY <1>1 DEF Restrict
<1>3. ChartsKept' BY <1>1, <1>2 DEF Data, ChartsKept
<1>4. DashboardsKept' BY <1>1, <1>2, WithoutIs
<1>5. PagesKept' BY <1>1 DEF Data, PagesKept, PageKept
<1>6. lastChart <= lastChart' BY <1>1, ChartsTyped DEF Data
<1> QED BY <1>1, <1>2, <1>3, <1>4, <1>5, <1>6, ChartsStep

\* The clones of a dashboard's charts, and where its layout goes.
LEMMA CopiedCharts ==
  ASSUME Data, NEW p \in Pages, CopyDashAndCharts(p)
  PROVE  LET page == pages[p]
             originals == dashboards[page.of].slices
             new == Fresh(originals)
             layout == Through(new, page.layout)
         IN /\ page.of \in DOMAIN dashboards /\ page.layout \subseteq originals
            /\ originals \subseteq DOMAIN charts
            /\ DOMAIN new = originals
            /\ \A a, b \in originals : new[a] = new[b] => a = b
            /\ lastChart \in Nat /\ lastChart' \in Nat /\ lastChart <= lastChart'
            /\ Range(new) = (lastChart + 1)..lastChart'
            /\ layout = Range(Restrict(new, page.layout)) /\ layout \subseteq Range(new)
            /\ ChartsKept' /\ DOMAIN charts' = DOMAIN charts \cup Range(new)
            /\ \A x \in DOMAIN charts : (charts')[x] = charts[x]
            /\ \A x \in Range(new) : x > lastChart /\ Born((charts')[x])
            /\ layout \in SUBSET ChartIds
<1> DEFINE page == pages[p]
           originals == dashboards[page.of].slices
           new == Fresh(originals)
           layout == Through(new, page.layout)
           n == Cardinality(originals)
           Old(x) == CHOOSE c \in originals : new[c] = x
           clones == [x \in Range(new) |-> charts[Old(x)]]
<1>1. /\ page.of \in DOMAIN dashboards /\ page.layout \subseteq originals
      /\ lastChart' = lastChart + n /\ lastChart' <= MaxCharts
      /\ charts' = With(charts, clones)
  BY DEF CopyDashAndCharts
<1>2. originals \subseteq DOMAIN charts BY <1>1, DashboardOf
<1>3. lastChart \in Nat /\ originals \in SUBSET Nat /\ IsFiniteSet(originals)
      /\ \A x \in DOMAIN charts : x <= lastChart
  <2>1. ChartsKept BY DEF Data
  <2> HIDE DEF originals
  <2> QED BY <1>2, <2>1, ChartsTyped, FS_Subset
<1> HIDE DEF page, originals
<1>4. /\ DOMAIN new = originals /\ n \in Nat
      /\ \A a, b \in originals : new[a] = new[b] => a = b
      /\ Range(new) = (lastChart + 1)..(lastChart + n)
  BY <1>3, FreshIds
<1> HIDE DEF new, n
<1>5. /\ lastChart' \in Nat /\ lastChart <= lastChart' /\ Range(new) = (lastChart + 1)..lastChart'
      /\ \A x \in Range(new) : x \in Int /\ x > lastChart
  BY <1>1, <1>3, <1>4
<1>6. layout = Range(Restrict(new, page.layout)) /\ layout \subseteq Range(new)
  BY <1>1, <1>4 DEF Through, Range, Restrict
<1>7. \A x \in Range(new) : Old(x) \in originals BY <1>4 DEF Range
<1>8. DOMAIN clones = Range(new) /\ \A x \in Range(new) : clones[x] = charts[Old(x)] OBVIOUS
<1> HIDE DEF Old, clones
<1>9. \A x \in Range(new) : x \notin DOMAIN charts BY <1>3, <1>5
<1>10. /\ DOMAIN charts' = DOMAIN charts \cup Range(new)
       /\ \A x \in DOMAIN charts : (charts')[x] = charts[x]
       /\ \A x \in Range(new) : (charts')[x] = charts[Old(x)]
  BY <1>1, <1>8, <1>9 DEF With
<1>11. \A x \in Range(new) : Born((charts')[x]) BY <1>2, <1>7, <1>10 DEF Born
<1>12. ChartsKept'
  <2>1. lastChart \in ChartIds /\ DOMAIN charts \subseteq 1..lastChart
        /\ \A c \in DOMAIN charts : charts[c] \in Chart
    BY DEF Data, ChartsKept
  <2>2. lastChart' \in ChartIds BY <1>1, <1>3, <1>5, <2>1, Ids DEF ChartIds
  <2>3. DOMAIN charts' \subseteq 1..lastChart' BY <1>3, <1>5, <1>10, <2>1
  <2>4. \A c \in DOMAIN charts' : (charts')[c] \in Chart BY <1>2, <1>7, <1>10, <2>1
  <2> QED BY <2>2, <2>3, <2>4 DEF ChartsKept
<1>13. layout \in SUBSET ChartIds
  <2>1. \A x \in (lastChart + 1)..lastChart' : x \in ChartIds
    BY <1>1, <1>3, <1>5, Ids DEF ChartIds
  <2> HIDE DEF layout
  <2> QED BY <1>5, <1>6, <2>1
<1> HIDE DEF layout
<1> QED BY <1>1, <1>2, <1>3, <1>4, <1>5, <1>6, <1>10, <1>11, <1>12, <1>13
        DEF page, originals, new, layout

\* The copy that copy_dash makes together with the charts ...
LEMMA CopiedDashboard ==
  ASSUME Data, NEW p \in Pages, CopyDashAndCharts(p)
  PROVE  LET page == pages[p]
             new == Fresh(dashboards[page.of].slices)
             copy == (dashboards')[lastDashboard']
         IN /\ DashboardsKept' /\ Own(copy)
            /\ SavedAs(copy, DOMAIN charts', Through(new, page.layout),
                       Restrict(new, page.layout), page)
<1> DEFINE page == pages[p]
           new == Fresh(dashboards[page.of].slices)
           layout == Through(new, page.layout)
           map == Restrict(new, page.layout)
           existing == DOMAIN charts'
           blank == Blank(dashboards[page.of].remote)
           next == SetDashMetadata(blank, existing, layout, map, page)
<1>1. AddDashboard(next) BY DEF CopyDashAndCharts
<1>2. /\ page.of \in DOMAIN dashboards /\ layout = Range(map) /\ layout \in SUBSET ChartIds
      /\ DOMAIN charts \subseteq existing
  BY CopiedCharts
<1>3. page \in Page BY PageOf
<1>4. blank \in Dashboard
  <2>1. dashboards[page.of] \in Dashboard BY <1>2, DashboardOf
  <2>2. dashboards[page.of].remote \in {NoId} \cup DashboardIds BY <2>1 DEF Dashboard
  <2> QED BY <2>2, BlankIs
<1>5. next = SetDashMetadata(blank, existing, layout, map, page) OBVIOUS
<1> HIDE DEF page, new, layout, map, blank, next, existing
<1>6. next \in Dashboard /\ Own(next) /\ SavedAs(next, existing, layout, map, page)
  BY <1>2, <1>3, <1>4, <1>5, MetadataIs
<1>7. next.slices \subseteq existing BY <1>6 DEF SavedAs
<1>8. DashboardsKept' /\ (dashboards')[lastDashboard'] = next
  BY <1>1, <1>2, <1>6, <1>7, AddDashboardKeeps DEF Data, existing
<1> QED BY <1>6, <1>8 DEF page, new, layout, map, existing

\* ... keeps the invariant.
LEMMA CopyChartsKeep == ASSUME Data, NEW p \in Pages, CopyDashAndCharts(p) PROVE Data'
<1> DEFINE new == Fresh(dashboards[pages[p].of].slices)
<1>1. /\ lastChart <= lastChart' /\ ChartsKept' /\ DOMAIN charts' = DOMAIN charts \cup Range(new)
      /\ \A x \in DOMAIN charts : (charts')[x] = charts[x]
      /\ \A x \in Range(new) : x > lastChart /\ Born((charts')[x])
  BY CopiedCharts
<1> HIDE DEF new
<1>2. DashboardsKept' BY CopiedDashboard
<1>3. PagesKept' /\ \A q \in Pages : DOMAIN (pages')[q].filters \subseteq DOMAIN pages[q].filters
  BY LeavePage DEF CopyDashAndCharts
<1>4. file' = file BY DEF CopyDashAndCharts
<1> QED BY <1>1, <1>2, <1>3, <1>4, ChartsStep

-----------------------------------------------------------------------------
(* Files *)

\* A dashboard is written to a file.
LEMMA ExportKeeps == ASSUME Data, NEW d \in DOMAIN dashboards, Export(d) PROVE Data'
<1> DEFINE dash == dashboards[d]
           kinds == [c \in dash.slices |-> charts[c].filter]
           next == [charts |-> kinds, layout |-> dash.layout, scopes |-> dash.scopes,
                    defaults |-> dash.defaults, remote |-> d]
<1>1. file' = next /\ UNCHANGED <<charts, dashboards, lastChart, lastDashboard, pages>>
  BY DEF Export
<1>2. dash \in Dashboard /\ dash.slices \subseteq DOMAIN charts /\ dash.slices \in SUBSET ChartIds
      /\ d \in DashboardIds
  BY DashboardOf
<1>3. \A c \in DOMAIN charts : charts[c] \in Chart BY DEF Data, ChartsKept
<1>4. kinds \in [dash.slices -> BOOLEAN] BY <1>2, <1>3 DEF Chart
<1>5. DOMAIN kinds = dash.slices /\ \A c \in dash.slices : kinds[c] = charts[c].filter OBVIOUS
<1> HIDE DEF kinds
<1>6. kinds \in UNION {[S -> BOOLEAN] : S \in SUBSET ChartIds} BY <1>2, <1>4
<1>7. dash.layout \in SUBSET ChartIds /\ dash.scopes \in Scopes /\ dash.defaults \in SUBSET ChartIds
  BY <1>2 DEF Dashboard
<1>8. next \in File /\ next.charts = kinds BY <1>2, <1>6, <1>7 DEF File
<1> HIDE DEF next, dash
<1>9. ChartsKept' /\ PagesKept' /\ DashboardsKept' /\ FileKept'
  BY <1>1, <1>8, DashboardsSame DEF Data, ChartsKept, PagesKept, PageKept, FileKept
<1>10. KindsKept'
  <2>1. \A c \in DOMAIN file.charts' :
          c <= lastChart /\ (c \in DOMAIN charts => charts[c].filter = file.charts'[c])
    BY <1>1, <1>2, <1>5, <1>8, ChartsTyped DEF Data
  <2>2. ASSUME NEW x \in DOMAIN charts, charts[x].remote \in DOMAIN file.charts'
        PROVE  file.charts'[charts[x].remote] = charts[x].filter
    <3>1. charts[x].remote \in DOMAIN charts BY <1>1, <1>2, <1>5, <1>8, <2>2
    <3>2. charts[charts[x].remote].filter = charts[x].filter BY <3>1 DEF Data, KindsKept
    <3> QED BY <1>1, <1>2, <1>5, <1>8, <2>2, <3>2
  <2> QED BY <1>1, <2>1, <2>2 DEF Data, KindsKept
<1> QED BY <1>9, <1>10 DEF Data

\* Where the charts of a file go: a chart that is there stays as it is, and the
\* others get the next ids.
LEMMA ImportedCharts ==
  ASSUME Data, file.remote # NoId, NEW new \in [DOMAIN file.charts -> ChartIds],
         \A c \in DOMAIN new : new[c] \in Target(c),
         charts' = With(charts, [x \in Range(new) |->
                     LET c == CHOOSE y \in DOMAIN new : new[y] = x
                     IN [filter |-> file.charts[c], remote |-> c]]),
         lastChart' = lastChart + Cardinality(DOMAIN charts' \ DOMAIN charts)
  PROVE  /\ ChartsKept' /\ lastChart <= lastChart'
         /\ Range(new) \in SUBSET ChartIds /\ DOMAIN charts' = DOMAIN charts \cup Range(new)
         /\ \A x \in DOMAIN charts : /\ (charts')[x].filter = charts[x].filter
                                    /\ (charts')[x].remote = charts[x].remote
         /\ \A x \in DOMAIN charts' \ DOMAIN charts : x > lastChart /\ Born((charts')[x])
<1> DEFINE unknown == {x \in DOMAIN file.charts : Known(x) = {}}
           fresh == Fresh(unknown)
           n == Cardinality(unknown)
           From(x) == CHOOSE y \in DOMAIN new : new[y] = x
           into == [x \in Range(new) |-> [filter |-> file.charts[From(x)], remote |-> From(x)]]
<1>1. /\ DOMAIN file.charts \in SUBSET ChartIds /\ \A c \in DOMAIN file.charts : file.charts[c] \in BOOLEAN
      /\ DOMAIN new = DOMAIN file.charts
  BY DEF Data, FileKept, File
<1>2. /\ lastChart \in Nat /\ \A x \in DOMAIN charts : x \in Nat /\ x <= lastChart
      /\ lastChart \in ChartIds /\ DOMAIN charts \subseteq 1..lastChart
      /\ \A c \in DOMAIN charts : charts[c] \in Chart
  BY ChartsTyped DEF Data, ChartsKept
<1>3. unknown \in SUBSET Nat /\ IsFiniteSet(unknown)
  <2>1. IsFiniteSet(ChartIds) BY Ids, FS_Interval DEF ChartIds
  <2>2. unknown \in SUBSET ChartIds BY <1>1
  <2> HIDE DEF unknown
  <2> QED BY <2>1, <2>2, FS_Subset, Ids
<1>4. /\ DOMAIN fresh = unknown /\ n \in Nat
      /\ \A a, b \in unknown : fresh[a] = fresh[b] => a = b
      /\ Range(fresh) = (lastChart + 1)..(lastChart + n)
  <2> HIDE DEF unknown
  <2> QED BY <1>2, <1>3, FreshIds
<1>5. \A c \in DOMAIN new : IF Known(c) = {} THEN c \in unknown /\ new[c] = fresh[c] ELSE new[c] \in Known(c)
  BY <1>1 DEF Target
<1>6. \A c : Known(c) = {x \in DOMAIN charts : charts[x].remote = c} BY DEF Known
<1>7. \A x \in Range(new) : From(x) \in DOMAIN new /\ new[From(x)] = x BY DEF Range
<1>8. charts' = With(charts, into) OBVIOUS
<1>9. DOMAIN into = Range(new)
      /\ \A x \in Range(new) : into[x].filter = file.charts[From(x)] /\ into[x].remote = From(x)
                               /\ into[x] = [filter |-> file.charts[From(x)], remote |-> From(x)]
  OBVIOUS
<1>10. \A c \in unknown : c \in DOMAIN new /\ Known(c) = {} BY <1>1
<1> HIDE DEF unknown, fresh, n, From, into
<1>11. /\ DOMAIN charts' = DOMAIN charts \cup Range(new)
       /\ \A x \in Range(new) : (charts')[x] = into[x]
       /\ \A x \in DOMAIN charts \ Range(new) : (charts')[x] = charts[x]
  BY <1>8, <1>9 DEF With
<1>12. \A x \in Range(fresh) : x \in Nat /\ x > lastChart BY <1>2, <1>4
<1>13. \A x \in Range(new) \cap DOMAIN charts : charts[x].remote = From(x)
  <2>1. ASSUME NEW x \in Range(new) \cap DOMAIN charts PROVE charts[x].remote = From(x)
    <3>1. From(x) \in DOMAIN new /\ new[From(x)] = x BY <1>7
    <3>2. CASE Known(From(x)) = {}
      <4>1. From(x) \in unknown /\ x = fresh[From(x)] BY <1>5, <3>1, <3>2
      <4>2. x \in Range(fresh) BY <1>4, <4>1 DEF Range
      <4> QED BY <1>2, <1>12, <4>2
    <3>3. CASE Known(From(x)) # {}
      <4>1. x \in Known(From(x)) BY <1>5, <3>1, <3>3
      <4> QED BY <1>6, <4>1
    <3> QED BY <3>2, <3>3
  <2> QED BY <2>1
<1>14. \A x \in DOMAIN charts : /\ (charts')[x].filter = charts[x].filter
                              /\ (charts')[x].remote = charts[x].remote
  <2>1. ASSUME NEW x \in DOMAIN charts, x \in Range(new)
        PROVE  (charts')[x].filter = charts[x].filter /\ (charts')[x].remote = charts[x].remote
    <3>1. charts[x].remote = From(x) /\ From(x) \in DOMAIN file.charts BY <1>1, <1>7, <1>13, <2>1
    <3>2. file.charts[From(x)] = charts[x].filter BY <3>1 DEF Data, KindsKept
    <3> QED BY <1>9, <1>11, <2>1, <3>1, <3>2
  <2> QED BY <1>11, <2>1
<1>15. DOMAIN charts' \ DOMAIN charts = Range(fresh)
  <2>1. ASSUME NEW x \in Range(new), x \notin DOMAIN charts PROVE x \in Range(fresh)
    <3>1. From(x) \in DOMAIN new /\ new[From(x)] = x BY <1>7
    <3>2. Known(From(x)) = {} BY <1>5, <1>6, <2>1, <3>1
    <3>3. From(x) \in unknown /\ x = fresh[From(x)] BY <1>5, <3>1, <3>2
    <3> QED BY <1>4, <3>3 DEF Range
  <2>2. ASSUME NEW x \in Range(fresh) PROVE x \in Range(new) /\ x \notin DOMAIN charts
    <3>1. PICK c \in unknown : fresh[c] = x BY <1>4 DEF Range
    <3>2. c \in DOMAIN new /\ new[c] = x BY <1>5, <1>10, <3>1
    <3>3. x \in Range(new) BY <3>2 DEF Range
    <3> QED BY <1>2, <1>12, <3>3
  <2> QED BY <1>11, <2>1, <2>2
<1>16. lastChart' = lastChart + n
  <2> DEFINE T == (lastChart + 1)..(lastChart + n)
             a == lastChart + 1
             b == lastChart + n
  <2>1. a \in Int /\ b \in Int BY <1>2, <1>4
  <2>2. Cardinality(a..b) = IF a > b THEN 0 ELSE b - a + 1
    <3> HIDE DEF a, b
    <3> QED BY <2>1, FS_Interval
  <2>3. (IF a > b THEN 0 ELSE b - a + 1) = n BY <1>2, <1>4
  <2>4. DOMAIN charts' \ DOMAIN charts = a..b BY <1>4, <1>15
  <2> HIDE DEF a, b
  <2> QED BY <2>2, <2>3, <2>4
<1>17. Range(new) \in SUBSET ChartIds BY DEF Range
<1>18. lastChart' \in ChartIds
  <2>1. CASE n = 0 BY <1>2, <1>16, <2>1
  <2>2. CASE n # 0
    <3>1. lastChart + n \in Range(fresh) BY <1>2, <1>4, <2>2
    <3>2. lastChart + n \in Range(new) BY <1>11, <1>15, <3>1
    <3> QED BY <1>16, <1>17, <3>2
  <2> QED BY <2>1, <2>2
<1>19. \A x \in Range(new) : (charts')[x] \in Chart /\ Born((charts')[x])
  <2>1. ASSUME NEW x \in Range(new) PROVE (charts')[x] \in Chart /\ Born((charts')[x])
    <3>1. From(x) \in DOMAIN file.charts BY <1>1, <1>7
    <3>2. From(x) \in ChartIds /\ file.charts[From(x)] \in BOOLEAN BY <1>1, <3>1
    <3>3. into[x] \in Chart BY <1>9, <3>2 DEF Chart
    <3>4. Born(into[x]) BY <1>9, <3>1 DEF Born
    <3> QED BY <1>11, <3>3, <3>4
  <2> QED BY <2>1
<1>20. ChartsKept'
  <2>1. DOMAIN charts' \subseteq 1..lastChart'
    <3>1. \A x \in DOMAIN charts' : x \in DOMAIN charts \/ x \in (lastChart + 1)..(lastChart + n)
      BY <1>4, <1>15
    <3>2. ASSUME NEW x \in DOMAIN charts' PROVE x \in 1..lastChart'
      <4>1. CASE x \in DOMAIN charts
        <5>1. x \in 1..lastChart BY <1>2, <4>1
        <5> QED BY <1>2, <1>4, <1>16, <5>1
      <4>2. CASE x \in (lastChart + 1)..(lastChart + n) BY <1>2, <1>4, <1>16, <4>2
      <4> QED BY <3>1, <4>1, <4>2
    <3> QED BY <3>2
  <2>2. \A x \in DOMAIN charts' : (charts')[x] \in Chart BY <1>2, <1>11, <1>19
  <2> QED BY <1>18, <2>1, <2>2 DEF ChartsKept
<1>21. \A x \in DOMAIN charts' \ DOMAIN charts : x > lastChart /\ Born((charts')[x])
  BY <1>11, <1>12, <1>15, <1>19
<1>22. lastChart <= lastChart' BY <1>2, <1>4, <1>16
<1> QED BY <1>11, <1>14, <1>17, <1>20, <1>21, <1>22

\* A file is imported: charts it has been imported for before are found by their
\* remote_id, the others are added, and the scopes follow.
LEMMA ImportKeeps == ASSUME Data, Import PROVE Data'
<1>1. PICK new \in [DOMAIN file.charts -> ChartIds] :
        /\ \A c \in DOMAIN new : new[c] \in Target(c)
        /\ charts' = With(charts, [x \in Range(new) |->
                        LET c == CHOOSE y \in DOMAIN new : new[y] = x
                        IN [filter |-> file.charts[c], remote |-> c]])
        /\ LET scopes == CopyFilterScopes(new, file.scopes) IN
           AddDashboard([slices |-> Range(new),
                         layout |-> (file.layout \ DOMAIN new) \cup Through(new, file.layout),
                         scopes |-> IF DOMAIN scopes # {} THEN scopes ELSE file.scopes,
                         defaults |-> file.defaults,
                         remote |-> file.remote])
        /\ lastChart' = lastChart + Cardinality(DOMAIN charts' \ DOMAIN charts)
  BY DEF Import
<1>2. file.remote # NoId /\ UNCHANGED <<pages, file>> BY DEF Import
<1>3. /\ ChartsKept' /\ lastChart <= lastChart'
      /\ Range(new) \in SUBSET ChartIds /\ DOMAIN charts' = DOMAIN charts \cup Range(new)
      /\ \A x \in DOMAIN charts : /\ (charts')[x].filter = charts[x].filter
                                 /\ (charts')[x].remote = charts[x].remote
      /\ \A x \in DOMAIN charts' \ DOMAIN charts : x > lastChart /\ Born((charts')[x])
  BY <1>1, <1>2, ImportedCharts
<1> DEFINE copied == CopyFilterScopes(new, file.scopes)
           scopes == IF DOMAIN copied # {} THEN copied ELSE file.scopes
           layout == (file.layout \ DOMAIN new) \cup Through(new, file.layout)
           dash == [slices |-> Range(new), layout |-> layout, scopes |-> scopes,
                    defaults |-> file.defaults, remote |-> file.remote]
<1>4. AddDashboard(dash) BY <1>1
<1>5. /\ file.layout \in SUBSET ChartIds /\ file.scopes \in Scopes
      /\ file.defaults \in SUBSET ChartIds /\ file.remote \in {NoId} \cup DashboardIds
  BY DEF Data, FileKept, File
<1>6. copied \in Scopes BY <1>3, CopiedScopes
<1>7. Through(new, file.layout) \subseteq Range(new) BY ThroughIs
<1> HIDE DEF copied
<1>8. scopes \in Scopes /\ layout \in SUBSET ChartIds BY <1>3, <1>5, <1>6, <1>7
<1> HIDE DEF scopes, layout
<1>9. dash \in Dashboard /\ dash.slices \subseteq DOMAIN charts' /\ Own(dash)
  BY <1>2, <1>3, <1>5, <1>8 DEF Dashboard, Own
<1> HIDE DEF dash
<1>10. DashboardsKept' BY <1>3, <1>4, <1>9, AddDashboardKeeps DEF Data
<1>11. PagesKept' BY <1>2 DEF Data, PagesKept, PageKept
<1> QED BY <1>2, <1>3, <1>10, <1>11, ChartsStep

-----------------------------------------------------------------------------
(* The theorems *)

\* The invariant holds initially ...
LEMMA InitKeeps == Init => IInv
<1> SUFFICES ASSUME Init PROVE IInv OBVIOUS
<1>1. PICK scopes \in {Nothing} \cup [{1} -> SUBSET {2}], defaults \in SUBSET {1} :
        dashboards = [d \in {1} |-> [slices |-> {1, 2}, layout |-> {1, 2}, scopes |-> scopes,
                                     defaults |-> defaults, remote |-> NoId]]
  BY DEF Init
<1>2. /\ charts = [c \in {1, 2} |-> [filter |-> c = 1, remote |-> NoId]]
      /\ lastChart = 2 /\ lastDashboard = 1 /\ pages = [p \in Pages |-> NoPage]
      /\ file = NoFile /\ steps = 0
  BY DEF Init
<1>3. {1, 2} \in SUBSET ChartIds /\ 2 \in ChartIds /\ 1 \in DashboardIds
  BY DashboardsAssumption DEF ChartIds, DashboardIds
<1>4. DOMAIN Nothing = {} /\ Nothing \in [{} -> SUBSET ChartIds] /\ Nothing \in [{} -> BOOLEAN]
  BY DEF Nothing
<1>5. Nothing \in Scopes /\ NamedIn(Nothing) = {} BY <1>4, ScopesAre DEF NamedIn, Range
<1> HIDE DEF Nothing
<1>6. ChartsKept
  <2>1. DOMAIN charts = {1, 2} /\ \A c \in {1, 2} : charts[c] = [filter |-> c = 1, remote |-> NoId]
    BY <1>2
  <2>2. \A c \in {1, 2} : charts[c] \in Chart
    <3>1. ASSUME NEW c \in {1, 2} PROVE charts[c] \in Chart
      <4> DEFINE kind == c = 1
      <4>1. kind \in BOOLEAN OBVIOUS
      <4>2. charts[c] = [filter |-> kind, remote |-> NoId] BY <2>1
      <4> HIDE DEF kind
      <4> QED BY <4>1, <4>2 DEF Chart
    <3> QED BY <3>1
  <2>3. {1, 2} \subseteq 1..2 OBVIOUS
  <2> QED BY <1>2, <1>3, <2>1, <2>2, <2>3 DEF ChartsKept
<1>7. DashboardsKept
  <2> DEFINE dash == [slices |-> {1, 2}, layout |-> {1, 2}, scopes |-> scopes,
                      defaults |-> defaults, remote |-> NoId]
  <2>1. DOMAIN dashboards = {1} /\ dashboards[1] = dash BY <1>1
  <2>2. scopes \in Scopes /\ NamedIn(scopes) \subseteq {1, 2}
    <3>1. CASE scopes = Nothing BY <1>5, <3>1
    <3>2. CASE scopes \in [{1} -> SUBSET {2}]
      <4>1. {1} \in SUBSET ChartIds /\ SUBSET {2} \subseteq SUBSET ChartIds BY <1>3
      <4>2. scopes \in [{1} -> SUBSET ChartIds] BY <3>2, <4>1
      <4>3. NamedIn(scopes) \subseteq {1, 2} BY <3>2 DEF NamedIn, Range
      <4> QED BY <4>1, <4>2, <4>3, ScopesAre
    <3> QED BY <3>1, <3>2
  <2>3. dash \in Dashboard BY <1>3, <2>2 DEF Dashboard
  <2>4. dash.slices = {1, 2} /\ Own(dash) BY <2>2 DEF Own
  <2>5. DOMAIN charts = {1, 2} BY <1>2
  <2> HIDE DEF dash
  <2>6. {1} \subseteq 1..1 OBVIOUS
  <2> QED BY <1>2, <1>3, <2>1, <2>3, <2>4, <2>5, <2>6 DEF DashboardsKept
<1>8. PageKept(NoPage) /\ NoPage.filters = Nothing BY NoPageIs
<1>9. PagesKept /\ \A p \in Pages : pages[p].filters = Nothing
  <2> HIDE DEF NoPage
  <2> QED BY <1>2, <1>8 DEF PagesKept, PageKept
<1>10. FileKept /\ file.charts = Nothing
  <2>1. Nothing \in UNION {[S -> BOOLEAN] : S \in SUBSET ChartIds} BY <1>4
  <2> QED BY <1>2, <1>5, <2>1 DEF FileKept, File, NoFile
<1>11. KindsKept
  <2>1. \A x \in DOMAIN charts : charts[x].remote = NoId BY <1>2
  <2>2. NoId \notin DOMAIN charts /\ NoId <= lastChart BY <1>2 DEF NoId
  <2> QED BY <1>4, <1>9, <1>10, <2>1, <2>2 DEF KindsKept
<1>12. steps \in 0..MaxSteps BY <1>2, DashboardsAssumption
<1> QED BY <1>6, <1>7, <1>9, <1>10, <1>11, <1>12 DEF IInv, Data

\* ... every request keeps its data ...
LEMMA RequestKeeps == ASSUME Data, Request PROVE Data'
BY SaveKeeps, CopyKeeps, CopyChartsKeep, SaveAsKeeps, CloneKeeps, OverwriteKeeps, UpdateKeeps,
   AddToDashKeeps, DeleteChartsKeeps, NewKeeps, DeleteDashboardsKeeps, CloneDashboardKeeps,
   ExportKeeps, ImportKeeps
   DEF Request

\* ... and every step keeps it.
LEMMA StepKeeps == ASSUME IInv, [Next]_vars PROVE IInv'
<1>1. CASE UNCHANGED vars
  <2>1. UNCHANGED <<charts, dashboards, lastChart, lastDashboard, pages, file, steps>> BY <1>1 DEF vars
  <2>2. DashboardsKept' BY <2>1, DashboardsSame DEF IInv, Data
  <2> QED BY <2>1, <2>2, DashboardsOnly DEF IInv
<1>2. ASSUME NEW p \in Pages, NEW d \in DOMAIN dashboards, OpenPage(p, d), UNCHANGED steps
      PROVE  IInv'
  BY <1>2, OpenKeeps DEF IInv
<1>3. ASSUME steps < MaxSteps, steps' = steps + 1, Request \/ \E p \in Pages : Edit(p)
      PROVE  IInv'
  <2>1. Data' BY <1>3, RequestKeeps, EditKeeps DEF IInv
  <2>2. steps' \in 0..MaxSteps BY <1>3, DashboardsAssumption DEF IInv
  <2> QED BY <2>1, <2>2 DEF IInv
<1> QED BY <1>1, <1>2, <1>3 DEF Next

\* Whoever remembers the id of a chart, a page, a file or an imported chart, is right
\* about the chart of that id.
THEOREM Invariance == Spec => []IInv
<1>1. IInv /\ [Next]_vars => IInv' BY StepKeeps
<1> QED BY <1>1, InitKeeps, PTL DEF Spec

\* Every behaviour keeps the variables of Dashboards within their types.
THEOREM TypeCorrect == Spec => []TypeOK
<1>1. IInv => TypeOK
  <2>1. SUFFICES ASSUME IInv PROVE TypeOK OBVIOUS
  <2>2. ChartsKept /\ DashboardsKept /\ PagesKept /\ FileKept /\ steps \in 0..MaxSteps
    BY <2>1 DEF IInv, Data
  <2>3. lastChart \in ChartIds /\ DOMAIN charts \subseteq 1..lastChart BY <2>2 DEF ChartsKept
  <2>4. Range(charts) \subseteq Chart
    <3>1. \A c \in DOMAIN charts : charts[c] \in Chart BY <2>2 DEF ChartsKept
    <3> QED BY <3>1 DEF Range
  <2>5. /\ lastDashboard \in DashboardIds /\ DOMAIN dashboards \subseteq 1..lastDashboard
        /\ \A d \in DOMAIN dashboards : /\ dashboards[d] \in Dashboard
                                       /\ dashboards[d].slices \subseteq DOMAIN charts
    BY <2>2 DEF DashboardsKept
  <2>6. \A p \in Pages : /\ pages[p] \in Page
                        /\ DOMAIN pages[p].filters \subseteq pages[p].layout
                        /\ pages[p].active \subseteq DOMAIN pages[p].filters
    BY <2>2 DEF PagesKept, PageKept
  <2>7. file \in File BY <2>2 DEF FileKept
  <2> QED BY <2>2, <2>3, <2>4, <2>5, <2>6, <2>7 DEF TypeOK, File
<1> QED BY <1>1, Invariance, PTL

\* The scopes and default filters of a dashboard name charts of its own layout, after
\* any number of saves, copies, clones, deletions and imports.
THEOREM MetadataIsOwn == Spec => []MetadataNamesOwnCharts
<1>1. IInv => MetadataNamesOwnCharts
  BY DEF IInv, Data, DashboardsKept, Own, MetadataNamesOwnCharts
<1> QED BY <1>1, Invariance, PTL

\* What a saved page applies to a chart, and what the saved dashboard does.
LEMMA SavedScopes ==
  ASSUME Data, NEW p \in Pages, SaveDash(p)
  PROVE  LET page == pages[p]
             dash == (dashboards')[page.of]
         IN /\ \A f \in DOMAIN page.filters :
                 f \in DOMAIN dash.scopes /\ dash.scopes[f] = page.filters[f] \cap page.layout
            /\ dash.slices = page.layout \cap DOMAIN charts /\ dash.layout = page.layout
            /\ dash.defaults = page.active /\ dash \in Dashboard
            /\ page.of \in DOMAIN dashboards' /\ page.of \in DashboardIds
            /\ DOMAIN page.filters \subseteq page.layout /\ page.active \subseteq DOMAIN page.filters
            /\ charts' = charts
<1> DEFINE page == pages[p]
           map == Identity(page.layout)
           dash == (dashboards')[page.of]
<1>1. /\ page.of \in DOMAIN dashboards /\ DOMAIN dashboards' = DOMAIN dashboards /\ dash \in Dashboard
      /\ SavedAs(dash, DOMAIN charts, page.layout, map, page) /\ charts' = charts
  BY SaveIs
<1>2. DOMAIN page.filters \subseteq page.layout /\ page.active \subseteq DOMAIN page.filters
  BY PageOf DEF PageKept
<1>3. /\ DOMAIN map = page.layout /\ \A c \in page.layout : map[c] = c
      /\ \A other : Through(map, other) = other \cap page.layout
  BY IdentityIs
<1>4. page.of \in DashboardIds BY <1>1, DashboardOf
<1> HIDE DEF page, map, dash
<1>5. ASSUME NEW f \in DOMAIN page.filters
      PROVE  f \in DOMAIN dash.scopes /\ dash.scopes[f] = page.filters[f] \cap page.layout
  <2> DEFINE scopes == page.filters
  <2>1. f \in DOMAIN scopes \cap DOMAIN map /\ map[f] = f BY <1>2, <1>3
  <2>2. \A a, b \in DOMAIN map : map[a] = map[b] => a = b BY <1>3
  <2>3. dash.scopes = CopyFilterScopes(map, scopes) BY <1>1 DEF SavedAs
  <2> HIDE DEF scopes
  <2>4. map[f] \in DOMAIN CopyFilterScopes(map, scopes)
        /\ CopyFilterScopes(map, scopes)[map[f]] = Through(map, scopes[f])
    BY <2>1, <2>2, CopiedScope
  <2> QED BY <1>3, <2>1, <2>3, <2>4 DEF scopes
<1>6. /\ dash.slices = page.layout \cap DOMAIN charts /\ dash.layout = page.layout
      /\ dash.defaults = page.active
  BY <1>1, <1>2 DEF SavedAs
<1> QED BY <1>1, <1>2, <1>4, <1>5, <1>6 DEF page, dash

\* What the page leaves out of the filters that apply to a chart has another filter
\* by the same column above it that it sends.
LEMMA LastOneWins ==
  ASSUME NEW page \in Page, NEW column \in [ChartIds -> Columns], NEW c,
         NEW f \in page.active, f # c, c \in page.layout, c \notin page.filters[f]
  PROVE  f \in PageFilters(page, column, c)
         \/ \E g \in PageFilters(page, column, c) : column[g] = column[f] /\ f < g
<1> DEFINE applicable ==
             {h \in page.active : h # c /\ c \in page.layout /\ c \notin page.filters[h]}
           same == {h \in applicable : column[h] = column[f]}
<1>1. page.active \in SUBSET ChartIds BY DEF Page
<1>2. f \in applicable /\ applicable \in SUBSET ChartIds BY <1>1
<1>3. PageFilters(page, column, c) =
        {h \in applicable : \A g \in applicable : column[g] = column[h] => g <= h}
  BY DEF PageFilters
<1> HIDE DEF applicable
<1>4. f \in same /\ same \in SUBSET ChartIds BY <1>2
<1>5. PICK g \in same : \A h \in same : h <= g
  <2> HIDE DEF same
  <2> QED BY <1>4, GreatestId
<1>6. g \in applicable /\ column[g] = column[f] /\ f <= g BY <1>4, <1>5
<1>7. \A h \in applicable : column[h] = column[g] => h <= g BY <1>5, <1>6
<1>8. g \in PageFilters(page, column, c) BY <1>3, <1>6, <1>7
<1>9. f \in Nat /\ g \in Nat BY <1>2, <1>6, Ids
<1>10. f = g \/ f < g BY <1>6, <1>9
<1> QED BY <1>6, <1>8, <1>10

\* What warm_up_cache computes for a chart of a page that was just saved is what the
\* page applies to it, but for what the page leaves out by its own rules.
THEOREM Warmed == Spec => WarmedAsSaved
<1> DEFINE Same(dash, page) ==
             \A c \in dash.slices, column \in [ChartIds -> Columns] :
               LET warm == ExtraFilters(dash, c)
                   sent == PageFilters(page, column, c)
               IN /\ sent \subseteq warm
                  /\ \A f \in warm \ sent :
                       f = c \/ \E g \in sent : column[g] = column[f] /\ f < g
           A == \A p \in Pages : SaveDash(p) => Same(dashboards'[pages[p].of], pages[p])
<1>1. IInv => A
  <2>1. SUFFICES ASSUME IInv, NEW p \in Pages, SaveDash(p)
                 PROVE  Same((dashboards')[pages[p].of], pages[p])
    OBVIOUS
  <2> DEFINE page == pages[p]
             dash == (dashboards')[page.of]
  <2>2. /\ \A f \in DOMAIN page.filters :
             f \in DOMAIN dash.scopes /\ dash.scopes[f] = page.filters[f] \cap page.layout
        /\ dash.slices = page.layout \cap DOMAIN charts
        /\ dash.defaults = page.active /\ page.active \subseteq DOMAIN page.filters
    BY <2>1, SavedScopes DEF IInv
  <2>3. page \in Page BY <2>1, PageOf DEF IInv
  <2> HIDE DEF page, dash
  <2>4. ASSUME NEW c \in dash.slices, NEW column \in [ChartIds -> Columns]
        PROVE  LET warm == ExtraFilters(dash, c)
                   sent == PageFilters(page, column, c)
               IN /\ sent \subseteq warm
                  /\ \A f \in warm \ sent :
                       f = c \/ \E g \in sent : column[g] = column[f] /\ f < g
    <3>1. ExtraFilters(dash, c) = {f \in page.active : c \notin page.filters[f]} /\ c \in page.layout
      BY <2>2, <2>4 DEF ExtraFilters
    <3>2. PageFilters(page, column, c) \subseteq ExtraFilters(dash, c)
      BY <3>1 DEF PageFilters
    <3>3. ASSUME NEW f \in ExtraFilters(dash, c) \ PageFilters(page, column, c)
          PROVE  f = c \/ \E g \in PageFilters(page, column, c) : column[g] = column[f] /\ f < g
      <4>1. f \in page.active /\ c \notin page.filters[f] BY <3>1, <3>3
      <4> QED BY <2>3, <3>1, <3>3, <4>1, LastOneWins
    <3> QED BY <3>2, <3>3
  <2> QED BY <2>4 DEF page, dash
<1>2. WarmedAsSaved <=> [][A]_vars BY DEF WarmedAsSaved
<1> HIDE DEF A
<1> QED BY <1>1, <1>2, Invariance, PTL

\* A page that is saved and loaded again shows the same filters on the same charts,
\* whatever the charts that others have deleted meanwhile; and with the same values,
\* unless the address says otherwise.
THEOREM ComesBack == Spec => SavedPageComesBack
<1> DEFINE Back(saved, reloaded, reopened, alive) ==
             /\ \A again \in {reloaded, reopened} :
                  /\ again.layout = saved.layout
                  /\ \A f \in DOMAIN saved.filters \cap alive :
                       /\ f \in DOMAIN again.filters
                       /\ again.filters[f] = saved.filters[f] \cap saved.layout
             /\ reopened.active = saved.active \cap alive
             /\ saved.url = NoUrl => reloaded.active = saved.active \cap alive
           A == \A p \in Pages : SaveDash(p) =>
                  Back(pages[p], Loaded(pages[p].of, pages[p].url)',
                       Loaded(pages[p].of, Link(pages[p].of))', DOMAIN charts)
<1>1. IInv => A
  <2>1. SUFFICES ASSUME IInv, NEW p \in Pages, SaveDash(p)
                 PROVE  Back(pages[p], Loaded(pages[p].of, pages[p].url)',
                             Loaded(pages[p].of, Link(pages[p].of))', DOMAIN charts)
    OBVIOUS
  <2> DEFINE page == pages[p]
             dash == (dashboards')[page.of]
             boxes == {c \in dash.slices : charts[c].filter}
             filters == [f \in boxes |-> IF f \in DOMAIN dash.scopes THEN dash.scopes[f] ELSE {}]
             Values(url) == (IF url = NoUrl THEN dash.defaults ELSE url) \cap boxes
             Shown(url) == [of |-> page.of, layout |-> dash.layout \cup dash.slices,
                            filters |-> filters, active |-> Values(url), url |-> url]
             link == IF dash.defaults = {} THEN NoUrl ELSE dash.defaults
             reloaded == Loaded(page.of, page.url)'
             reopened == Loaded(page.of, Link(page.of))'
  <2>2. UNCHANGED <<charts, pages>> BY <2>1 DEF SaveDash
  <2>3. /\ \A f \in DOMAIN page.filters :
             f \in DOMAIN dash.scopes /\ dash.scopes[f] = page.filters[f] \cap page.layout
        /\ dash.slices = page.layout \cap DOMAIN charts /\ dash.layout = page.layout
        /\ dash.defaults = page.active
        /\ DOMAIN page.filters \subseteq page.layout /\ page.active \subseteq DOMAIN page.filters
    BY <2>1, SavedScopes DEF IInv
  <2>4. \A f \in DOMAIN page.filters : f \in DOMAIN charts => charts[f].filter
    BY <2>1 DEF IInv, Data, KindsKept
  <2>5. reloaded = Shown(page.url) BY <2>2 DEF Loaded, Preselected
  <2>6. reopened = Shown(link) BY <2>2 DEF Loaded, Preselected, Link
  <2> HIDE DEF page, dash, reloaded, reopened
  <2>7. \A f \in DOMAIN page.filters \cap DOMAIN charts : f \in boxes BY <2>3, <2>4
  <2>8. boxes \subseteq DOMAIN charts BY <2>3
  <2>9. \A f \in DOMAIN page.filters \cap DOMAIN charts :
          f \in DOMAIN filters /\ filters[f] = page.filters[f] \cap page.layout
    BY <2>3, <2>7
  <2> HIDE DEF boxes, filters
  <2>10. dash.defaults \cap boxes = page.active \cap DOMAIN charts BY <2>3, <2>7, <2>8
  <2>11. Values(NoUrl) = page.active \cap DOMAIN charts BY <2>10
  <2>12. Values(link) = page.active \cap DOMAIN charts BY <2>10
  <2> HIDE DEF Values, link
  <2>13. \A again \in {reloaded, reopened} : again.layout = page.layout /\ again.filters = filters
    BY <2>3, <2>5, <2>6
  <2>14. reopened.active = Values(link) /\ reloaded.active = Values(page.url) BY <2>5, <2>6
  <2>15. Back(page, reloaded, reopened, DOMAIN charts) BY <2>9, <2>11, <2>12, <2>13, <2>14
  <2> QED BY <2>15 DEF page, reloaded, reopened
<1>2. SavedPageComesBack <=> [][A]_vars BY DEF SavedPageComesBack
<1> HIDE DEF A
<1> QED BY <1>1, <1>2, Invariance, PTL

\* What a copy with its charts has: new charts, one for each, and the scopes among
\* them that the page had among the originals.
LEMMA CopyApart ==
  ASSUME Data, NEW p \in Pages, CopyDashAndCharts(p)
  PROVE  LET copy == dashboards'[lastDashboard']
             new == Fresh(dashboards[pages[p].of].slices)
             filters == pages[p].filters
         IN /\ Cardinality(copy.slices) = Cardinality(pages[p].layout)
            /\ (copy.slices \cup copy.layout \cup NamedIn(copy.scopes)) \cap DOMAIN charts = {}
            /\ \A f \in DOMAIN filters, c \in pages[p].layout :
                 c \in filters[f] <=> new[c] \in copy.scopes[new[f]]
<1> DEFINE page == pages[p]
           originals == dashboards[page.of].slices
           new == Fresh(originals)
           layout == Through(new, page.layout)
           map == Restrict(new, page.layout)
           copy == dashboards'[lastDashboard']
<1>1. /\ page.layout \subseteq originals /\ originals \subseteq DOMAIN charts
      /\ DOMAIN new = originals /\ \A a, b \in originals : new[a] = new[b] => a = b
      /\ Range(new) \subseteq DOMAIN charts' /\ layout = Range(map) /\ layout \subseteq Range(new)
      /\ \A x \in Range(new) : x \in Int /\ x > lastChart
      /\ layout \in SUBSET ChartIds
  <2>1. /\ lastChart \in Nat /\ lastChart' \in Nat /\ Range(new) = (lastChart + 1)..lastChart'
    BY CopiedCharts
  <2>2. \A x \in (lastChart + 1)..lastChart' : x \in Int /\ x > lastChart BY <2>1
  <2>3. /\ page.layout \subseteq originals /\ originals \subseteq DOMAIN charts
        /\ DOMAIN new = originals /\ \A a, b \in originals : new[a] = new[b] => a = b
        /\ Range(new) \subseteq DOMAIN charts' /\ layout = Range(map) /\ layout \subseteq Range(new)
        /\ layout \in SUBSET ChartIds
    BY CopiedCharts
  <2> HIDE DEF page, originals, new, layout, map
  <2> QED BY <2>1, <2>2, <2>3
<1>2. SavedAs(copy, DOMAIN charts', layout, map, page) BY CopiedDashboard
<1>3. \A x \in DOMAIN charts : x \in Nat /\ x <= lastChart /\ lastChart \in Nat
  BY ChartsTyped DEF Data
<1>4. IsFiniteSet(DOMAIN charts) BY ChartsTyped DEF Data
<1>5. DOMAIN page.filters \subseteq page.layout BY PageOf DEF PageKept
<1>6. DOMAIN map = page.layout /\ \A c \in page.layout : map[c] = new[c] BY <1>1 DEF Restrict
<1>7. map = [c \in page.layout |-> map[c]] BY <1>6 DEF Restrict
<1> HIDE DEF page, originals, new, layout, map, copy
<1>8. /\ copy.slices = layout /\ copy.layout = layout
      /\ copy.scopes = CopyFilterScopes(map, page.filters)
  BY <1>1, <1>2 DEF SavedAs
<1>9. \A a, b \in DOMAIN map : map[a] = map[b] => a = b BY <1>1, <1>6
<1>10. Cardinality(layout) = Cardinality(page.layout)
  <2>1. IsFiniteSet(page.layout) BY <1>1, <1>4, FS_Subset
  <2>2. \A c \in page.layout : map[c] \in layout BY <1>1, <1>6 DEF Range
  <2>3. map \in [page.layout -> layout] BY <1>7, <2>2
  <2>4. \A x \in layout : \E c \in page.layout : map[c] = x BY <1>1, <1>6 DEF Range
  <2>5. map \in Bijection(page.layout, layout)
    BY <1>6, <1>9, <2>3, <2>4 DEF Bijection, Injection, Surjection, IsInjective
  <2>6. ExistsBijection(page.layout, layout) BY <2>5 DEF ExistsBijection
  <2> QED BY <2>1, <2>6, FS_Bijection
<1>11. NamedIn(copy.scopes) \subseteq layout
  <2> DEFINE filters == page.filters
             copied == CopyFilterScopes(map, filters)
  <2>1. Range(map) \subseteq layout BY <1>1
  <2>2. NamedIn(CopyFilterScopes(map, filters)) \subseteq layout
    <3> HIDE DEF filters
    <3> QED BY <1>1, <2>1, CopiedScopes
  <2> QED BY <1>8, <2>2
<1>12. layout \cap DOMAIN charts = {} BY <1>1, <1>3
<1>13. ASSUME NEW f \in DOMAIN page.filters, NEW c \in page.layout
       PROVE  c \in page.filters[f] <=> new[c] \in copy.scopes[new[f]]
  <2> DEFINE filters == page.filters
  <2>1. f \in DOMAIN filters \cap DOMAIN map /\ map[f] = new[f] BY <1>5, <1>6
  <2>2. copy.scopes = CopyFilterScopes(map, filters) BY <1>8
  <2>3. c \in filters[f] <=> c \in page.filters[f] OBVIOUS
  <2> HIDE DEF filters
  <2>4. CopyFilterScopes(map, filters)[map[f]] = Through(map, filters[f])
    BY <1>9, <2>1, CopiedScope
  <2>5. copy.scopes[new[f]] = {map[x] : x \in filters[f] \cap DOMAIN map} BY <2>1, <2>2, <2>4 DEF Through
  <2>6. map[c] = new[c] /\ c \in DOMAIN map BY <1>6
  <2>7. map[c] \in {map[x] : x \in filters[f] \cap DOMAIN map} <=> c \in filters[f]
    BY <1>9, <2>6
  <2> QED BY <2>3, <2>5, <2>6, <2>7
<1>14. (copy.slices \cup copy.layout \cup NamedIn(copy.scopes)) \cap DOMAIN charts = {}
  BY <1>8, <1>11, <1>12
<1>15. Cardinality(copy.slices) = Cardinality(page.layout) BY <1>8, <1>10
<1> QED BY <1>13, <1>14, <1>15 DEF page, originals, new, copy

\* A dashboard that is copied together with its charts has none of the original's,
\* neither in its layout nor in its scopes, and filters the copies as the page
\* filtered the originals.
THEOREM CopyIsApart == Spec => CopyIsIndependent
<1> DEFINE A == \A p \in Pages : CopyDashAndCharts(p) =>
                 LET copy == dashboards'[lastDashboard']
                     new == Fresh(dashboards[pages[p].of].slices)
                     filters == pages[p].filters
                 IN /\ Cardinality(copy.slices) = Cardinality(pages[p].layout)
                    /\ (copy.slices \cup copy.layout \cup NamedIn(copy.scopes)) \cap DOMAIN charts = {}
                    /\ \A f \in DOMAIN filters, c \in pages[p].layout :
                         c \in filters[f] <=> new[c] \in copy.scopes[new[f]]
<1>1. IInv => A BY CopyApart DEF IInv
<1>2. CopyIsIndependent <=> [][A]_vars BY DEF CopyIsIndependent
<1> HIDE DEF A
<1> QED BY <1>1, <1>2, Invariance, PTL

================================================================================
