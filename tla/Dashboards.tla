------------------------------ MODULE Dashboards ------------------------------
(***************************************************************************)
(* Dashboards, the charts on them and the browser pages that edit them     *)
(* (superset/views/core.py, superset/models/dashboard.py, superset/charts, *)
(* superset/dashboards, superset-frontend/src/dashboard).                  *)
(*                                                                         *)
(* A dashboard names its charts three times: in the relation slices, in    *)
(* the layout (position_json) and in the metadata (filter_scopes,          *)
(* default_filters). Pages, commands, copies and files change one of these *)
(* and leave another alone. Each request is one transaction.               *)
(*                                                                         *)
(* Left out: names, colours and sizes; containers of the layout, so that   *)
(* the scope of every filter is ROOT_ID less the charts immune to it;      *)
(* filter boxes of several columns or with a value of their own.  The      *)
(* column of a filter box is not state: no request looks at it, and        *)
(* WarmedAsSaved speaks of every way to choose the columns.                *)
(***************************************************************************)
EXTENDS Integers, FiniteSets, Functions

CONSTANTS
  MaxCharts,      \* bound on the charts ever created
  MaxDashboards,  \* bound on the dashboards ever created
  Pages,          \* browser windows
  Columns,        \* what filter boxes filter by
  MaxSteps        \* bound on the edits and requests, loads of a page apart

ASSUME DashboardsAssumption ==
  MaxCharts \in Nat \ {0, 1} /\ MaxDashboards \in Nat \ {0} /\ MaxSteps \in Nat

VARIABLES
  charts,       \* the charts that exist: is it a filter box, its remote_id
  dashboards,   \* the dashboards that exist
  lastChart, lastDashboard,   \* ids are not used twice
  pages,        \* what each window has loaded and edited
  file,         \* an exported dashboard
  steps         \* edits and requests made

vars == <<charts, dashboards, lastChart, lastDashboard, pages, file, steps>>

ChartIds == 1..MaxCharts
DashboardIds == 1..MaxDashboards
NoId == 0

Chart == [filter : BOOLEAN, remote : {NoId} \cup ChartIds]

\* scopes gives, for each filter named in filter_scopes, the charts immune to it.
Scopes == UNION {[S -> SUBSET ChartIds] : S \in SUBSET ChartIds}
Dashboard ==
  [slices : SUBSET ChartIds, layout : SUBSET ChartIds, scopes : Scopes,
   defaults : SUBSET ChartIds, remote : {NoId} \cup DashboardIds]

\* preselect_filters of an address: the filters it has values for, which may be
\* none, or no such parameter.
NoUrl == {NoId}
Urls == {NoUrl} \cup SUBSET ChartIds

\* dashboardLayout and dashboardFilters of the store, and the address of the page;
\* of is NoId before the load.
Page ==
  [of : {NoId} \cup DashboardIds, layout : SUBSET ChartIds, filters : Scopes,
   active : SUBSET ChartIds, url : Urls]

Nothing == [c \in {} |-> {}]
NoPage == [of |-> NoId, layout |-> {}, filters |-> Nothing, active |-> {}, url |-> NoUrl]
NoFile == [charts |-> Nothing, layout |-> {}, scopes |-> Nothing, defaults |-> {}, remote |-> NoId]

NamedIn(scopes) == DOMAIN scopes \cup UNION Range(scopes)

Init ==
  /\ charts = [c \in {1, 2} |-> [filter |-> c = 1, remote |-> NoId]]
  /\ \E scopes \in {Nothing} \cup [{1} -> SUBSET {2}], defaults \in SUBSET {1} :
       dashboards = [d \in {1} |-> [slices |-> {1, 2}, layout |-> {1, 2}, scopes |-> scopes,
                                    defaults |-> defaults, remote |-> NoId]]
  /\ lastChart = 2 /\ lastDashboard = 1
  /\ pages = [p \in Pages |-> NoPage]
  /\ file = NoFile
  /\ steps = 0

-----------------------------------------------------------------------------
(* Helpers *)

\* A new chart for each id of ids, in the order of the ids.
Fresh(ids) == [c \in ids |-> lastChart + Cardinality({x \in ids : x <= c})]

\* The function old, but for what new says.
With(old, new) ==
  [x \in DOMAIN old \cup DOMAIN new |-> IF x \in DOMAIN new THEN new[x] ELSE old[x]]

\* An id that is not in the map is dropped.
Through(map, ids) == {map[c] : c \in ids \cap DOMAIN map}

\* copy_filter_scopes; the mutant forgets the charts that are immune.
CopyScopesKeys(map, scopes) ==
  [f \in Through(map, DOMAIN scopes) |->
     scopes[CHOOSE old \in DOMAIN scopes \cap DOMAIN map : map[old] = f]]
CopyFilterScopes(map, scopes) ==
  [f \in Through(map, DOMAIN scopes) |->
     Through(map, scopes[CHOOSE old \in DOMAIN scopes \cap DOMAIN map : map[old] = f])]

\* _set_dash_metadata: what page p is saved as, its charts renamed by map. A mutant
\* keeps the charts that the dashboard was loaded with.
SetDashMetadataLoaded(dash, existing, layout, map, p) ==
  [dash EXCEPT !.layout = layout, !.scopes = CopyFilterScopes(map, p.filters),
               !.defaults = p.active \cap layout]
SetDashMetadata(dash, existing, layout, map, p) ==
  [dash EXCEPT !.slices = layout \cap existing, !.layout = layout,
               !.scopes = CopyFilterScopes(map, p.filters),
               !.defaults = p.active \cap layout]

\* What a copy starts from: the params of its original.
Blank(remote) ==
  [slices |-> {}, layout |-> {}, scopes |-> Nothing, defaults |-> {}, remote |-> remote]

Identity(ids) == [c \in ids |-> c]

AddDashboard(dash) ==
  /\ lastDashboard < MaxDashboards
  /\ lastDashboard' = lastDashboard + 1
  /\ dashboards' = With(dashboards, [d \in {lastDashboard'} |-> dash])

AddChart(chart) ==
  /\ lastChart < MaxCharts
  /\ lastChart' = lastChart + 1
  /\ charts' = With(charts, [c \in {lastChart'} |-> chart])

-----------------------------------------------------------------------------
(* The page *)

\* getInitialState: charts that are not laid out get a row; filters come from the
\* metadata, for the filter boxes among the slices, and so do their values unless
\* the address has some. The mutant takes the filters of the metadata for granted.
Preselected(d, url) == IF url = NoUrl THEN dashboards[d].defaults ELSE url
LoadedUnchecked(d, url) ==
  LET dash == dashboards[d]
  IN [of |-> d, layout |-> dash.layout \cup dash.slices, filters |-> dash.scopes,
      active |-> Preselected(d, url) \cap DOMAIN dash.scopes, url |-> url]
Loaded(d, url) ==
  LET dash == dashboards[d]
      boxes == {c \in dash.slices : charts[c].filter}
  IN [of |-> d,
      layout |-> dash.layout \cup dash.slices,
      filters |-> [f \in boxes |-> IF f \in DOMAIN dash.scopes THEN dash.scopes[f] ELSE {}],
      active |-> Preselected(d, url) \cap boxes,
      url |-> url]

\* The address in the list of dashboards.
Link(d) == IF dashboards[d].defaults = {} THEN NoUrl ELSE dashboards[d].defaults

\* Addresses that are about: without values, the one in the list, those of the
\* windows that show d, which are reloaded, and those that their users share.
Addresses(d) ==
  LET showing == {p \in Pages : pages[p].of = d}
  IN {NoUrl, Link(d)} \cup {pages[p].url : p \in showing} \cup {pages[p].active : p \in showing}

OpenPage(p, d) ==
  /\ \E url \in Addresses(d) : pages' = [pages EXCEPT ![p] = Loaded(d, url)]
  /\ UNCHANGED <<charts, dashboards, lastChart, lastDashboard, file>>

\* addSliceToDashboard: a filter box has the whole dashboard for its scope.
DragChart(p, c) ==
  /\ pages[p].of # NoId /\ c \notin pages[p].layout
  /\ pages' = [pages EXCEPT ![p].layout = @ \cup {c},
                            ![p].filters = IF charts[c].filter
                                           THEN With(@, [f \in {c} |-> {}]) ELSE @]
  /\ UNCHANGED <<charts, dashboards, lastChart, lastDashboard, file>>

\* removeSliceFromDashboard
RemoveChart(p, c) ==
  /\ c \in pages[p].layout
  /\ pages' = [pages EXCEPT ![p].layout = @ \ {c},
                            ![p].filters = Restrict(@, DOMAIN @ \ {c}),
                            ![p].active = @ \ {c}]
  /\ UNCHANGED <<charts, dashboards, lastChart, lastDashboard, file>>

\* UPDATE_DASHBOARD_FILTERS_SCOPE: one chart is put under filter f or taken from it.
EditScope(p, f, c) ==
  /\ f \in DOMAIN pages[p].filters /\ c \in pages[p].layout \ {f}
  /\ pages' = [pages EXCEPT ![p].filters[f] = IF c \in @ THEN @ \ {c} ELSE @ \cup {c}]
  /\ UNCHANGED <<charts, dashboards, lastChart, lastDashboard, file>>

\* CHANGE_FILTER: a value is chosen or cleared.
ChangeFilter(p, f) ==
  /\ f \in DOMAIN pages[p].filters
  /\ pages' = [pages EXCEPT ![p].active = IF f \in @ THEN @ \ {f} ELSE @ \cup {f}]
  /\ UNCHANGED <<charts, dashboards, lastChart, lastDashboard, file>>

SaveDash(p) ==
  LET page == pages[p] IN
  /\ page.of \in DOMAIN dashboards
  /\ dashboards' = [dashboards EXCEPT ![page.of] =
       SetDashMetadata(@, DOMAIN charts, page.layout, Identity(page.layout), page)]
  /\ UNCHANGED <<charts, lastChart, lastDashboard, pages, file>>

\* copy_dash, the charts being shared; the window goes on to the copy.
CopyDash(p) ==
  LET page == pages[p] IN
  /\ page.of \in DOMAIN dashboards
  /\ AddDashboard(SetDashMetadata(Blank(dashboards[page.of].remote), DOMAIN charts,
                                  page.layout, Identity(page.layout), page))
  /\ pages' = [pages EXCEPT ![p] = NoPage]
  /\ UNCHANGED <<charts, lastChart, file>>

\* copy_dash with duplicate_slices. A chart that is laid out but is none of the
\* original's fails the request; a clone that is not laid out stays alone.
CopyDashAndCharts(p) ==
  LET page == pages[p]
      originals == dashboards[page.of].slices
      new == Fresh(originals)
  IN
  /\ page.of \in DOMAIN dashboards
  /\ page.layout \subseteq originals
  /\ lastChart' = lastChart + Cardinality(originals) /\ lastChart' <= MaxCharts
  /\ charts' = With(charts, [n \in Range(new) |-> charts[CHOOSE c \in originals : new[c] = n]])
  /\ AddDashboard(SetDashMetadata(Blank(dashboards[page.of].remote), DOMAIN charts',
                                  Through(new, page.layout), Restrict(new, page.layout), page))
  /\ pages' = [pages EXCEPT ![p] = NoPage]
  /\ UNCHANGED file

-----------------------------------------------------------------------------
(* Explore, the lists of charts and dashboards, the commands *)

\* save_or_overwrite_slice with saveas, CreateChartCommand
SaveAs(filter) ==
  /\ AddChart([filter |-> filter, remote |-> NoId])
  /\ UNCHANGED <<dashboards, lastDashboard, pages, file>>

\* clone_chart: the params are copied, remote_id among them.
CloneChart(c) ==
  /\ AddChart(charts[c])
  /\ UNCHANGED <<dashboards, lastDashboard, pages, file>>

\* save_or_overwrite_slice with overwrite: the form has no remote_id.
Overwrite(c) ==
  /\ charts' = [charts EXCEPT ![c].remote = NoId]
  /\ UNCHANGED <<dashboards, lastChart, lastDashboard, pages, file>>

\* add_to_dash, add_slices: the layout is not touched.
AddToDash(c, d) ==
  /\ dashboards' = [dashboards EXCEPT ![d].slices = @ \cup {c}]
  /\ UNCHANGED <<charts, lastChart, lastDashboard, pages, file>>

\* The mutant leaves the relation alone.
WithoutNone(cs) == dashboards
WithoutCharts(cs) == [d \in DOMAIN dashboards |-> [dashboards[d] EXCEPT !.slices = @ \ cs]]

\* UpdateChartCommand, from the form with the properties of a chart: it names no
\* dashboards, which validate takes for none.
UpdateChart(c) ==
  /\ dashboards' = WithoutCharts({c})
  /\ UNCHANGED <<charts, lastChart, lastDashboard, pages, file>>

\* DeleteChartCommand, BulkDeleteChartCommand
DeleteCharts(cs) ==
  /\ cs # {}
  /\ dashboards' = WithoutCharts(cs)
  /\ charts' = Restrict(charts, DOMAIN charts \ cs)
  /\ UNCHANGED <<lastChart, lastDashboard, pages, file>>

\* /dashboard/new/
NewDashboard ==
  /\ AddDashboard(Blank(NoId))
  /\ UNCHANGED <<charts, lastChart, pages, file>>

\* DeleteDashboardCommand, BulkDeleteDashboardCommand
DeleteDashboards(ds) ==
  /\ ds # {}
  /\ dashboards' = Restrict(dashboards, DOMAIN dashboards \ ds)
  /\ UNCHANGED <<charts, lastChart, lastDashboard, pages, file>>

\* /api/v1/dashboard/clone: an import of a copy without relations. No scope can be
\* translated, so the old ones stay.
CloneDashboard(d) ==
  /\ AddDashboard([dashboards[d] EXCEPT !.slices = {}])
  /\ UNCHANGED <<charts, lastChart, pages, file>>

-----------------------------------------------------------------------------
(* Files *)

Export(d) ==
  LET dash == dashboards[d] IN
  /\ file' = [charts |-> [c \in dash.slices |-> charts[c].filter], layout |-> dash.layout,
              scopes |-> dash.scopes, defaults |-> dash.defaults, remote |-> d]
  /\ UNCHANGED <<charts, dashboards, lastChart, lastDashboard, pages>>

\* The charts of the file go into charts that were imported from the same id, one
\* of them if there are several, or into new ones.
Known(c) == {x \in DOMAIN charts : charts[x].remote = c}
Target(c) ==
  LET fresh == Fresh({x \in DOMAIN file.charts : Known(x) = {}})
  IN IF Known(c) = {} THEN {fresh[c]} ELSE Known(c)

\* The scopes are translated if there is anything to translate; default_filters
\* are not. The file does not hold the id of its dashboard, which import_obj looks
\* for among the remote_ids, so no dashboard is overridden.
Import ==
  /\ file.remote # NoId
  /\ \E new \in [DOMAIN file.charts -> ChartIds] :
       LET scopes == CopyFilterScopes(new, file.scopes) IN
       /\ \A c \in DOMAIN new : new[c] \in Target(c)
       /\ charts' = With(charts, [x \in Range(new) |->
                       LET c == CHOOSE y \in DOMAIN new : new[y] = x
                       IN [filter |-> file.charts[c], remote |-> c]])
       /\ AddDashboard([slices |-> Range(new),
                        layout |-> (file.layout \ DOMAIN new) \cup Through(new, file.layout),
                        scopes |-> IF DOMAIN scopes # {} THEN scopes ELSE file.scopes,
                        defaults |-> file.defaults,
                        remote |-> file.remote])
       /\ lastChart' = lastChart + Cardinality(DOMAIN charts' \ DOMAIN charts)
  /\ UNCHANGED <<pages, file>>

-----------------------------------------------------------------------------
(* Which filters with values apply to chart c: as the page sends them and as        *)
(* warm_up_cache gets them for a slice of the dashboard                             *)

\* A filter box is out of its own scope, and of the filters by one column the last
\* one's value is sent.
PageFilters(page, column, c) ==
  LET applicable ==
        {f \in page.active : f # c /\ c \in page.layout /\ c \notin page.filters[f]}
  IN {f \in applicable : \A g \in applicable : column[g] = column[f] => g <= f}

\* The mutant forgets that a chart may be immune.
ExtraFiltersAll(dash, c) == dash.defaults
ExtraFilters(dash, c) ==
  {f \in dash.defaults : f \notin DOMAIN dash.scopes \/ c \notin dash.scopes[f]}

-----------------------------------------------------------------------------
Edit(p) ==
  \/ \E c \in DOMAIN charts : DragChart(p, c)
  \/ \E c \in ChartIds : RemoveChart(p, c) \/ ChangeFilter(p, c)
  \/ \E f, c \in ChartIds : EditScope(p, f, c)

Request ==
  \/ \E p \in Pages : SaveDash(p) \/ CopyDash(p) \/ CopyDashAndCharts(p)
  \/ \E filter \in BOOLEAN : SaveAs(filter)
  \/ \E c \in DOMAIN charts :
       \/ CloneChart(c) \/ Overwrite(c) \/ UpdateChart(c)
       \/ \E d \in DOMAIN dashboards : AddToDash(c, d)
  \/ \E cs \in SUBSET DOMAIN charts : DeleteCharts(cs)
  \/ NewDashboard
  \/ \E ds \in SUBSET DOMAIN dashboards : DeleteDashboards(ds)
  \/ \E d \in DOMAIN dashboards : CloneDashboard(d) \/ Export(d)
  \/ Import

Next ==
  \/ \E p \in Pages, d \in DOMAIN dashboards : OpenPage(p, d) /\ UNCHANGED steps
  \/ /\ steps < MaxSteps
     /\ steps' = steps + 1
     /\ Request \/ \E p \in Pages : Edit(p)

Spec == Init /\ [][Next]_vars

-----------------------------------------------------------------------------
(* Properties *)

\* Every variable keeps to its range, the relation slices relates what exists, and
\* a page has filters and values for charts of its own layout only.
TypeOK ==
  /\ lastChart \in ChartIds /\ lastDashboard \in DashboardIds /\ steps \in 0..MaxSteps
  /\ DOMAIN charts \subseteq 1..lastChart /\ Range(charts) \subseteq Chart
  /\ DOMAIN dashboards \subseteq 1..lastDashboard
  /\ \A d \in DOMAIN dashboards :
       /\ dashboards[d] \in Dashboard
       /\ dashboards[d].slices \subseteq DOMAIN charts
  /\ \A p \in Pages :
       /\ pages[p] \in Page
       /\ DOMAIN pages[p].filters \subseteq pages[p].layout
       /\ pages[p].active \subseteq DOMAIN pages[p].filters
  /\ file \in [charts : UNION {[S -> BOOLEAN] : S \in SUBSET ChartIds},
               layout : SUBSET ChartIds, scopes : Scopes, defaults : SUBSET ChartIds,
               remote : {NoId} \cup DashboardIds]

\* The metadata of a dashboard that was made here names charts of its own layout
\* only, whatever stale page it was saved from or copied from: an id left behind
\* by a copy would filter the dashboard by a chart of another one.
MetadataNamesOwnCharts ==
  \A d \in DOMAIN dashboards :
    dashboards[d].remote = NoId =>
      NamedIn(dashboards[d].scopes) \cup dashboards[d].defaults \subseteq dashboards[d].layout

\* What is saved is what is served: after save_dash the cache is warmed for each
\* chart with the filters that the saved page applies to it, though the two are
\* computed by different programs from different data. They differ where only the
\* page leaves a filter out, and nowhere else: a filter box is warmed filtered by
\* itself, and a chart by each of several filters by one column.
WarmedAsSaved ==
  [][\A p \in Pages : SaveDash(p) =>
       LET dash == dashboards'[pages[p].of] IN
       \A c \in dash.slices, column \in [ChartIds -> Columns] :
         LET warm == ExtraFilters(dash, c)
             page == PageFilters(pages[p], column, c)
         IN /\ page \subseteq warm
            /\ \A f \in warm \ page :
                 f = c \/ \E g \in page : column[g] = column[f] /\ f < g]_vars

\* A saved dashboard comes back as it was: whether the window is reloaded or the
\* dashboard opened from the list, the page has the layout and the scopes of the
\* page that was saved, and from the list its values, but for charts that were
\* deleted meanwhile. A reload brings the values back if the address has none of
\* its own: "allow request parameter overwrite dashboard metadata". (The page may
\* have filters that the saved page had no definition of.)
SavedPageComesBack ==
  [][\A p \in Pages : SaveDash(p) =>
       LET saved == pages[p]
           reloaded == Loaded(saved.of, saved.url)'
           reopened == Loaded(saved.of, Link(saved.of))'
           alive == DOMAIN charts
       IN /\ \A again \in {reloaded, reopened} :
               /\ again.layout = saved.layout
               /\ \A f \in DOMAIN saved.filters \cap alive :
                    /\ f \in DOMAIN again.filters
                    /\ again.filters[f] = saved.filters[f] \cap saved.layout
          /\ reopened.active = saved.active \cap alive
          /\ saved.url = NoUrl => reloaded.active = saved.active \cap alive]_vars

\* A copy with its charts has nothing to do with the original: its charts are new,
\* and each of its filters has the scope that it had on the page, in terms of the
\* new charts.
CopyIsIndependent ==
  [][\A p \in Pages : CopyDashAndCharts(p) =>
       LET copy == dashboards'[lastDashboard']
           new == Fresh(dashboards[pages[p].of].slices)
           filters == pages[p].filters
       IN /\ Cardinality(copy.slices) = Cardinality(pages[p].layout)
          /\ (copy.slices \cup copy.layout \cup NamedIn(copy.scopes)) \cap DOMAIN charts = {}
          /\ \A f \in DOMAIN filters, c \in pages[p].layout :
               c \in filters[f] <=> new[c] \in copy.scopes[new[f]]]_vars

-----------------------------------------------------------------------------
(* What the program says, and does not do *)

\* "There is no chart definition associated with this component, could it have been
\* deleted?": a chart that a dashboard lays out and has not got was deleted.
MissingChartWasDeleted ==
  \A d \in DOMAIN dashboards :
    dashboards[d].layout \cap DOMAIN charts \subseteq dashboards[d].slices

\* remote_id "helps to decide if the dashboard has to be overridden": a file that
\* was imported before makes no second dashboard.
ImportedOnce ==
  [][Import /\ (\E d \in DOMAIN dashboards : dashboards[d].remote = file.remote)
       => DOMAIN dashboards' = DOMAIN dashboards]_vars

=============================================================================
