------------------------------ MODULE SqlLabTabs ------------------------------
(***************************************************************************)
(* The tabs of SQL Lab with SQLLAB_BACKEND_PERSISTENCE: the tab states on  *)
(* the server (superset/views/sql_lab.py), the store of each browser       *)
(* window (superset-frontend/src/SqlLab) and the browser's local storage,  *)
(* from which tabs of the time before the feature flag are migrated while  *)
(* windows are opened, reloaded and closed and requests fail.              *)
(*                                                                         *)
(* Each request is one transaction. Left out: what a tab contains, except  *)
(* that it comes from an editor of the local storage, and a table schema   *)
(* of that editor. Its queries move as the table does; what becomes of     *)
(* them is in SqlLabUI.                                                    *)
(***************************************************************************)
EXTENDS Integers, Sequences, SequencesExt, FiniteSets

CONSTANTS
  Editors,    \* ids of the query editors in the local storage
  Tabled,     \* those with an open table
  Windows,
  New,        \* the origin of a tab that was not migrated
  NoTab,
  NoWindow,   \* the window of a request whose window was closed
  MaxStarts,  \* bound on the loads of the page
  MaxClicks,  \* bound on the clicks on tabs
  MaxLost     \* bound on the requests that fail, or outlive their window

ASSUME TabsAssumption ==
  /\ IsFiniteSet(Editors) /\ Tabled \subseteq Editors
  /\ New \notin Editors /\ NoWindow \notin Windows
  /\ MaxStarts \in Nat /\ MaxClicks \in Nat /\ MaxLost \in Nat

VARIABLES
  tabs,      \* rows of tab_state by id, the deleted ones too
  active,    \* the tab that is active
  storage,   \* localStorage.redux.sqlLab
  windows,
  reqs,      \* requests of the windows, sent or answered
  starts, clicks, lost

serverVars == <<tabs, active>>
bounds == <<starts, clicks, lost>>
vars == <<serverVars, storage, windows, reqs, bounds>>

TabIds == DOMAIN tabs
IsTab(id) == id \in TabIds /\ tabs[id].there

NoStorage == [there |-> FALSE, editors |-> {}, tables |-> {}, history |-> <<>>]
Closed == [at |-> "closed"]

Request(w, kind, of, tab) ==
  [win |-> w, kind |-> kind, of |-> of, tab |-> tab, answer |-> "sent"]

\* The elements of a sequence that are in a set, in their order.
Only(s, ids) ==
  LET only[n \in 0..Len(s)] ==
        IF n = 0 THEN <<>>
        ELSE IF s[n] \in ids THEN Append(only[n - 1], s[n]) ELSE only[n - 1]
  IN only[Len(s)]

Without(s, x) == Only(s, ToSet(s) \ {x})

\* A user of local storage, who has not used SQL Lab since the flag was set.
Init ==
  /\ tabs = <<>>
  /\ active = NoTab
  /\ \E e \in Editors :
       storage = [there |-> TRUE, editors |-> Editors, tables |-> Tabled, history |-> <<e>>]
  /\ windows = [w \in Windows |-> Closed]
  /\ reqs = {}
  /\ starts = 0 /\ clicks = 0 /\ lost = 0

-----------------------------------------------------------------------------
(* A window is opened and closed *)

TabsThere == {id \in TabIds : IsTab(id)}

\* _get_sqllab_tabs asks twice. First for the ids of the tabs ...
ReadTabIds(w) ==
  /\ windows[w] = Closed /\ starts < MaxStarts
  /\ windows' = [windows EXCEPT ![w] =
       [at |-> "rendering", tabs |-> TabsThere, rows |-> Len(tabs)]]
  /\ starts' = starts + 1
  /\ UNCHANGED <<serverVars, storage, reqs, clicks, lost>>

\* ... then for the active tab, or else another one. The page is late if a tab was
\* made meanwhile.
ReadActiveTab(w) ==
  LET page == windows[w] IN
  /\ page.at = "rendering"
  /\ \E first \in IF active # NoTab THEN {active}
                  ELSE IF TabsThere # {} THEN TabsThere ELSE {NoTab} :
       windows' = [windows EXCEPT ![w] =
         [at |-> "rendered", tabs |-> page.tabs, active |-> first,
          late |-> Len(tabs) > page.rows]]
  /\ UNCHANGED <<serverVars, storage, reqs, bounds>>

\* A storage without editors has been migrated. The mutant trusts the requests.
StorageOnceSent == NoStorage
StorageOnStart == IF storage.editors = {} THEN NoStorage ELSE storage

\* The mutant takes the migration for done once the server has tabs.
ToMigrateFirst(page) == IF page.tabs = {} THEN storage.editors ELSE {}
ToMigrate(page) == storage.editors

\* getInitialState, and componentDidMount of TabbedSqlEditors: the editors of the
\* storage come after the tabs, and each is sent to the server. Then the page asks
\* for its active tab, and does not come up if it has no tab of that id.
Start(w) ==
  LET page == windows[w]
      local == storage.editors
      editors == page.tabs \cup local
      first == IF page.active = NoTab THEN <<>> ELSE <<page.active>>
      history == IF local = {} THEN first ELSE first \o storage.history
  IN
  /\ page.at = "rendered"
  /\ storage' = StorageOnStart
  /\ windows' = [windows EXCEPT ![w] =
       [at |-> "open", active |-> page.active, late |-> page.late,
        up |-> editors = {} \/ history = <<>> \/ Last(history) \in editors,
        editors |-> editors, loaded |-> ToSet(first) \cup local, history |-> history,
        tables |-> IF local = {} THEN {} ELSE storage.tables]]
  /\ reqs' = reqs \cup (IF editors = {} THEN {Request(w, "add", New, NoTab)}
                        ELSE {Request(w, "migrate", e, NoTab) : e \in ToMigrate(page)})
  /\ UNCHANGED <<serverVars, bounds>>

\* Requests that were sent are cancelled, or late: the server still gets them.
CloseWindow(w) ==
  LET sent == {r \in reqs : r.win = w /\ r.answer = "sent"} IN
  /\ windows[w] # Closed
  /\ windows' = [windows EXCEPT ![w] = Closed]
  /\ \E late \in SUBSET sent :
       /\ lost' = lost + Cardinality(late) /\ lost' <= MaxLost
       /\ reqs' = {r \in reqs : r.win # w} \cup {[r EXCEPT !.win = NoWindow] : r \in late}
  /\ UNCHANGED <<serverVars, storage, starts, clicks>>

-----------------------------------------------------------------------------
(* Clicks *)

Click(w, request) ==
  /\ windows[w].at = "open" /\ windows[w].up /\ clicks < MaxClicks
  /\ reqs' = reqs \cup {request}
  /\ clicks' = clicks + 1
  /\ UNCHANGED <<serverVars, storage, windows, starts, lost>>

Shown(w) ==
  IF windows[w].history = <<>> THEN NoTab ELSE Last(windows[w].history)

AddQueryEditor(w) == Click(w, Request(w, "add", New, NoTab))

\* Only the active tab has been loaded with the page.
SwitchQueryEditor(w, id) ==
  /\ id # Shown(w)
  /\ Click(w, Request(w, IF id \in windows[w].loaded THEN "activate" ELSE "get", id, NoTab))

RemoveQueryEditor(w, id) == Click(w, Request(w, "delete", id, NoTab))

-----------------------------------------------------------------------------
(* The server: TabStateView and TableSchemaView. An id of the local storage is
   none of a tab, so that nothing is found under it. *)

\* Nobody waits for the answer to a closed window.
Reply(r, answer, tab) ==
  reqs' = (reqs \ {r})
            \cup (IF r.win = NoWindow THEN {} ELSE {[r EXCEPT !.answer = answer, !.tab = tab]})

Post(r) ==
  /\ r.kind \in {"migrate", "add"}
  /\ tabs' = Append(tabs, [from |-> r.of, table |-> FALSE, there |-> TRUE])
  /\ active' = Len(tabs')
  /\ Reply(r, "ok", Len(tabs'))

Activate(r) ==
  /\ r.kind = "activate"
  /\ active' = IF IsTab(r.of) THEN r.of ELSE active
  /\ Reply(r, IF IsTab(r.of) THEN "ok" ELSE "not found", NoTab)
  /\ UNCHANGED tabs

\* No owner is not the user: a tab that is not there is forbidden, not missing.
Get(r) ==
  /\ r.kind = "get"
  /\ Reply(r, IF IsTab(r.of) THEN "ok" ELSE "failed", NoTab)
  /\ UNCHANGED serverVars

\* Its table schemas are deleted with it.
Delete(r) ==
  /\ r.kind = "delete"
  /\ IF IsTab(r.of)
     THEN /\ tabs' = [tabs EXCEPT ![r.of].there = FALSE, ![r.of].table = FALSE]
          /\ active' = IF active = r.of THEN NoTab ELSE active
          /\ Reply(r, "ok", NoTab)
     ELSE Reply(r, "failed", NoTab) /\ UNCHANGED <<tabs, active>>

\* A foreign key keeps a table schema from a tab that is not there.
PostTable(r) ==
  /\ r.kind = "table"
  /\ tabs' = IF IsTab(r.tab) THEN [tabs EXCEPT ![r.tab].table = TRUE] ELSE tabs
  /\ Reply(r, IF IsTab(r.tab) THEN "ok" ELSE "failed", r.tab)
  /\ UNCHANGED active

Serve(r) ==
  /\ r.answer = "sent"
  /\ Post(r) \/ Activate(r) \/ Get(r) \/ Delete(r) \/ PostTable(r)
  /\ UNCHANGED <<storage, windows, bounds>>

\* A request or its answer is lost.
Lose(r) ==
  /\ r.answer \in {"sent", "ok"} /\ r.win # NoWindow /\ lost < MaxLost
  /\ reqs' = (reqs \ {r}) \cup {[r EXCEPT !.answer = "failed"]}
  /\ lost' = lost + 1
  /\ UNCHANGED <<serverVars, storage, windows, starts, clicks>>

-----------------------------------------------------------------------------
(* The answers: every failure is a toast and nothing else *)

\* MIGRATE_QUERY_EDITOR and MIGRATE_TAB_HISTORY in the storage; a mutant leaves
\* the history alone.
MigratedHistoryStays(e) == [storage EXCEPT !.editors = @ \ {e}]
Migrated(e) == [storage EXCEPT !.editors = @ \ {e}, !.history = Without(@, e)]

\* The reducer fails if another window has removed the storage. Then the table of
\* the editor follows.
EditorMigrated(r) ==
  LET w == r.win
      e == r.of
  IN
  /\ r.kind = "migrate"
  /\ IF r.answer = "ok" /\ storage.there
     THEN /\ storage' = Migrated(e)
          /\ windows' = [windows EXCEPT
               ![w].editors = (@ \ {e}) \cup {r.tab}, ![w].loaded = @ \cup {r.tab},
               ![w].history = Append(Without(@, e), r.tab)]
          /\ reqs' = (reqs \ {r})
               \cup {Request(w, "table", t, r.tab) : t \in windows[w].tables \cap {e}}
     ELSE reqs' = reqs \ {r} /\ UNCHANGED <<storage, windows>>

\* MIGRATE_TABLE
TableMigrated(r) ==
  /\ r.kind = "table"
  /\ storage' = IF r.answer = "ok" /\ storage.there
                THEN [storage EXCEPT !.tables = @ \ {r.of}] ELSE storage
  /\ reqs' = reqs \ {r}
  /\ UNCHANGED windows

\* ADD_QUERY_EDITOR
EditorAdded(r) ==
  /\ r.kind = "add"
  /\ windows' = IF r.answer = "ok"
                THEN [windows EXCEPT ![r.win].editors = @ \cup {r.tab},
                                     ![r.win].history = Append(@, r.tab)]
                ELSE windows
  /\ reqs' = reqs \ {r}
  /\ UNCHANGED storage

\* LOAD_QUERY_EDITOR, which leads on to the activation.
EditorLoaded(r) ==
  /\ r.kind = "get"
  /\ windows' = IF r.answer = "ok" THEN [windows EXCEPT ![r.win].loaded = @ \cup {r.of}]
                ELSE windows
  /\ reqs' = (reqs \ {r}) \cup (IF r.answer = "ok" THEN {Request(r.win, "activate", r.of, NoTab)}
                                ELSE {})
  /\ UNCHANGED storage

\* REMOVE_QUERY_EDITOR; a mutant leaves the tab in the history.
RemovedFromEditors(page, id) == [page EXCEPT !.editors = @ \ {id}]
Removed(page, id) ==
  LET left == page.editors \ {id}
  IN [page EXCEPT !.editors = left, !.history = Only(@, left)]

\* SET_ACTIVE_QUERY_EDITOR, for a tab that is still there. A tab that the server
\* does not know, one of the local storage too, is removed.
EditorActivated(r) ==
  LET page == windows[r.win] IN
  /\ r.kind = "activate"
  /\ windows' = [windows EXCEPT ![r.win] =
       CASE r.answer = "ok" /\ r.of \in page.editors /\ r.of # Shown(r.win) ->
              [page EXCEPT !.history = Append(@, r.of)]
         [] r.answer = "not found" -> Removed(page, r.of)
         [] OTHER -> page]
  /\ reqs' = reqs \ {r}
  /\ UNCHANGED storage

EditorRemoved(r) ==
  /\ r.kind = "delete"
  /\ windows' = [windows EXCEPT ![r.win] = IF r.answer = "ok" THEN Removed(@, r.of) ELSE @]
  /\ reqs' = reqs \ {r}
  /\ UNCHANGED storage

Receive(r) ==
  /\ r.answer # "sent"
  /\ \/ EditorMigrated(r) \/ TableMigrated(r) \/ EditorAdded(r) \/ EditorLoaded(r)
     \/ EditorActivated(r) \/ EditorRemoved(r)
  /\ UNCHANGED <<serverVars, bounds>>

-----------------------------------------------------------------------------
Page(w) ==
  \/ ReadTabIds(w) \/ ReadActiveTab(w) \/ Start(w) \/ CloseWindow(w)
  \/ /\ windows[w].at = "open"
     /\ \/ AddQueryEditor(w)
        \/ \E id \in windows[w].editors : SwitchQueryEditor(w, id) \/ RemoveQueryEditor(w, id)

Next ==
  \/ \E w \in Windows : Page(w)
  \/ \E r \in reqs : Serve(r) \/ Lose(r) \/ Receive(r)

Spec == Init /\ [][Next]_vars

\* The server answers, and the page takes the answer.
Migrating(w, e) ==
  \E r \in reqs : r.win = w /\ r.kind = "migrate" /\ r.of = e /\ (Serve(r) \/ Receive(r))
Fairness == \A w \in Windows, e \in Editors : WF_vars(Migrating(w, e))

FairSpec == Spec /\ Fairness

-----------------------------------------------------------------------------
(* Properties *)

Ids == Editors \cup TabIds
Kinds == {"migrate", "add", "activate", "get", "delete", "table"}

\* Every variable keeps to its range. A page knows of tabs that the server has, or
\* had, and of editors of the storage; what it calls loaded was, and the storage
\* has no history without the editors that it names.
TypeOK ==
  /\ tabs \in Seq([from : Editors \cup {New}, table : BOOLEAN, there : BOOLEAN])
  /\ active = NoTab \/ IsTab(active)
  /\ storage.there \in BOOLEAN /\ storage.editors \subseteq Editors
  /\ storage.tables \subseteq Tabled /\ ToSet(storage.history) \subseteq storage.editors
  /\ \A w \in Windows :
       \/ windows[w] = Closed
       \/ /\ windows[w].at = "rendering"
          /\ windows[w].tabs \subseteq TabIds /\ windows[w].rows \in 0..Len(tabs)
       \/ /\ windows[w].at = "rendered"
          /\ windows[w].tabs \subseteq TabIds
          /\ windows[w].active \in TabIds \cup {NoTab} /\ windows[w].late \in BOOLEAN
       \/ /\ windows[w].at = "open"
          /\ windows[w].editors \subseteq Ids /\ windows[w].loaded \subseteq Ids
          /\ windows[w].tables \subseteq Tabled /\ windows[w].up \in BOOLEAN
  /\ \A r \in reqs :
       /\ r.win \in Windows \cup {NoWindow} /\ r.kind \in Kinds
       /\ r.of \in Ids \cup {New} /\ r.tab \in TabIds \cup {NoTab}
       /\ r.answer \in {"sent", "ok", "not found", "failed"}
       /\ r.win # NoWindow => windows[r.win].at = "open"
  /\ starts \in 0..MaxStarts /\ clicks \in 0..MaxClicks /\ lost \in 0..MaxLost

\* The transition is transparent: whatever is lost, closed, opened twice or removed
\* by another window meanwhile, the text of an editor is in the browser's storage
\* until the server has a tab for it, and then until the user closes that tab.
LocalEditorsKept ==
  \A e \in Editors : e \in storage.editors \/ \E id \in TabIds : tabs[id].from = e

\* The page comes up, and has a tab to show: the last of its history is one of its
\* tabs, after migrations, removals and reloads in every order. The one exception is
\* a page that was rendered while another window made a tab, until it has shown
\* another tab than the one it was rendered with.
ShownTabExists ==
  \A w \in Windows : windows[w].at = "open" =>
    /\ windows[w].up \/ windows[w].late
    /\ \/ Shown(w) \in windows[w].editors \cup {NoTab}
       \/ windows[w].late /\ Shown(w) = windows[w].active

\* A page gets every editor that it finds in the storage out of it, unless it is
\* closed or a request fails, and whatever the user does with the tab meanwhile.
EditorsMove ==
  <>(lost > 0) \/ \A w \in Windows, e \in Editors :
    (windows[w].at = "open" /\ e \in windows[w].editors)
       ~> (e \notin storage.editors \/ windows[w].at # "open")

-----------------------------------------------------------------------------
(* What the program says, and does not do *)

\* "Unable to migrate table schema state to backend. Superset will retry later": a
\* table stays in the storage, beside its editor, until the server has it, or until
\* its tab is closed.
TablesRetried ==
  \A e \in Tabled :
    \/ {e} \subseteq storage.tables \cap storage.editors
    \/ \E r \in reqs : r.kind = "table" /\ r.of = e
    \/ \E id \in TabIds : tabs[id].from = e /\ (tabs[id].table \/ ~tabs[id].there)

\* A tab that was closed in another window goes from this one when it is selected:
\* the page removes it when the server does not find it.
ClosedTabGoes ==
  [][\A r \in reqs :
       r.kind \in {"get", "activate"} /\ r.answer \notin {"sent", "ok"} /\ ~IsTab(r.of)
         /\ lost = 0 /\ r \notin reqs' /\ windows'[r.win].at = "open"
       => r.of \notin windows'[r.win].editors]_vars

\* The transition makes one tab of an editor.
MigratedOnce ==
  \A e \in Editors : Cardinality({id \in TabIds : tabs[id].from = e}) <= 1

===============================================================================
