------------------------------ MODULE AssetFetch ------------------------------
(***************************************************************************)
(* The asset list that most tools show: AssetModel with its fetching       *)
(* thread (tools/models.py), AssetWidget around it (tools/widgets.py) and   *)
(* the two ways it is used: a tool on the session's project (the Loader)    *)
(* and the Library Loader, where the user switches between projects.        *)
(*                                                                         *)
(* The Qt main thread runs one handler at a time; a handler that calls     *)
(* stop_fetch_thread waits in it for the fetching thread.  The thread's    *)
(* signal doc_fetched is queued and handled by the main thread later.      *)
(***************************************************************************)
EXTENDS Integers, Sequences

CONSTANTS
  Projects,     \* projects with at least one asset
  NoProject,    \* the Library Loader before its first project
  Names,        \* names of assets
  ContextName,  \* the session's AVALON_ASSET
  MaxActs       \* bound: refreshes and switches of project

ASSUME ProjectsAssumption == NoProject \notin Projects /\ Projects # {}
ASSUME NamesAssumption == ContextName \in Names
ASSUME ActsAssumption == MaxActs \in Nat

VARIABLES
  library,    \* the tool is the Library Loader
  project,    \* Session["AVALON_PROJECT"]
  \* the main thread and the widgets
  pc,         \* "idle"; "set", on_project_change before it stops the thread;
              \* "switch", "stop", a handler that waits in stop_fetch_thread
  rows,       \* what _add_hierarchy added since the model was cleared
  loading, empty, \* view.is_loading and view.is_empty
  listening,  \* some on_refreshed is connected to model.refreshed
  selected,   \* the selected asset
  stored,     \* AssetWidget.model_selection
  \* the model
  thread,     \* _doc_fetching_thread is not None
  stop,       \* _doc_fetching_stop
  payload,    \* _doc_payload
  signals,    \* queued doc_fetched signals, each with its argument was_stopped
  \* the fetching thread
  tpc, fetched,
  \* what happened so far
  acts, chosen, doubled,
  behind      \* the session has moved on and no fetch has begun since

widgetVars == <<rows, loading, empty, listening, selected, stored>>
modelVars  == <<thread, stop, payload, signals>>
threadVars == <<tpc, fetched>>
pastVars   == <<acts, chosen, doubled, behind>>
vars == <<library, project, pc, widgetVars, modelVars, threadVars, pastVars>>

-----------------------------------------------------------------------------
\* What a thread brings: the project whose template decides about silos, and
\* the project the assets are from.
Docs(t, a) == [template |-> t, assets |-> a]
None == Docs(NoProject, NoProject)

WasStopped(b) == IF b THEN "stopped" ELSE "fetched"

\* An asset of a row, and no selection.
Asset(p, n) == [project |-> p, name |-> n]
NoAsset == Asset(NoProject, ContextName)
Unset == Asset(NoProject, "unset")

Shown == {Asset(p, n) : p \in {rows[i].assets : i \in DOMAIN rows}, n \in Names}

-----------------------------------------------------------------------------
(* AssetModel: what its methods do to its attributes. *)

\* Mutant: the payload of the previous fetch is kept.
StartFetchKeepingPayload(p) ==
  /\ rows' = <<>>
  /\ IF p = NoProject
     THEN UNCHANGED <<thread, stop, payload, tpc, fetched>>
     ELSE /\ stop' = FALSE
          /\ thread' = TRUE
          /\ tpc' = "template" /\ fetched' = None
          /\ UNCHANGED payload

\* refresh while _doc_fetching_thread is set changes nothing.
StartFetch(p) ==
  /\ rows' = <<>>
  /\ IF p = NoProject
     THEN UNCHANGED <<thread, stop, payload, tpc, fetched>>
     ELSE /\ payload' = None
          /\ stop' = FALSE
          /\ thread' = TRUE
          /\ tpc' = "template" /\ fetched' = None

\* AssetWidget._refresh_model on a model that is, or is not, fetching already.
RefreshModel(fetching) ==
  /\ stored' = selected
  /\ loading' = (loading \/ project # NoProject)
  /\ empty' = (empty \/ project # NoProject)
  /\ listening' = TRUE
  /\ IF fetching
     THEN UNCHANGED <<rows, selected, thread, stop, payload, threadVars, behind>>
     ELSE StartFetch(project) /\ selected' = NoAsset /\ behind' = FALSE

-----------------------------------------------------------------------------
(***************************************************************************)
(* A tool on one project has refreshed the model twice when its window     *)
(* opens, in AssetModel.__init__ and in Window.__init__; the Library       *)
(* Loader has no project yet.                                              *)
(***************************************************************************)
Init ==
  /\ library \in BOOLEAN
  /\ IF library THEN project = NoProject ELSE project \in Projects
  /\ pc = "idle" /\ rows = <<>>
  /\ loading = ~library /\ empty = TRUE /\ listening = ~library
  /\ selected = NoAsset /\ stored = IF library THEN Unset ELSE NoAsset
  /\ thread = ~library /\ stop = FALSE /\ payload = None /\ signals = <<>>
  /\ tpc = IF library THEN "off" ELSE "template"
  /\ fetched = None
  /\ acts = 0 /\ chosen = NoAsset /\ doubled = FALSE /\ behind = FALSE

(* The main thread. *)

\* The user selects an asset that is shown; context changes do the same.
Select ==
  /\ pc = "idle"
  /\ \E a \in Shown : selected' = a /\ chosen' = a
  /\ UNCHANGED <<library, project, pc, rows, loading, empty, listening, stored,
                 modelVars, threadVars, acts, doubled, behind>>

\* The refresh button, and the refresh of a tool.
Refresh ==
  /\ pc = "idle" /\ acts < MaxActs
  /\ acts' = acts + 1
  /\ doubled' = (doubled \/ loading)
  /\ RefreshModel(thread)
  /\ UNCHANGED <<library, project, pc, signals, chosen>>

\* LibraryLoader.on_project_change: the session has the new project first.  The
\* studio's config is installed and the caches are refreshed next, while the
\* old thread fetches on.
SwitchProject ==
  /\ pc = "idle" /\ library /\ acts < MaxActs
  /\ acts' = acts + 1
  /\ project' \in Projects
  /\ pc' = "set"
  /\ behind' = TRUE
  /\ UNCHANGED <<library, widgetVars, modelVars, threadVars, chosen, doubled>>

\* One of them raises: the handler ends there.
SwitchRaises ==
  /\ pc = "set"
  /\ pc' = "idle"
  /\ UNCHANGED <<library, project, widgetVars, modelVars, threadVars, pastVars>>

\* _refresh_assets: stop_fetch_thread begins.
SwitchStop ==
  /\ pc = "set"
  /\ stop' = (stop \/ thread)
  /\ pc' = "switch"
  /\ UNCHANGED <<library, project, widgetVars, thread, payload, signals, threadVars,
                 pastVars>>

\* The thread has ended; AssetWidget.refresh follows.
SwitchRefresh ==
  /\ pc = "switch" /\ tpc = "off"
  /\ RefreshModel(FALSE)
  /\ pc' = "idle"
  /\ UNCHANGED <<library, project, signals, acts, chosen, doubled>>

\* on_refreshed: each listener disconnects all of them.
\* _restore_model_selection finds the stored asset among the rows, or falls
\* back to the session's asset when nothing was selected.
Restore ==
  IF stored = NoAsset
  THEN selected' \in {NoAsset} \cup {a \in Shown' : a.name = ContextName}
  ELSE selected' = IF stored \in Shown' THEN stored ELSE NoAsset

\* Mutant: the selection is restored before the rows are there.
RefreshedTooSoon(hasContent) ==
  IF listening
  THEN /\ loading' = FALSE /\ empty' = ~hasContent
       /\ selected' = IF stored \in Shown THEN stored ELSE NoAsset
       /\ stored' = Unset
       /\ listening' = FALSE
  ELSE selected' = NoAsset /\ UNCHANGED <<loading, empty, listening, stored>>

Refreshed(hasContent) ==
  IF listening
  THEN /\ loading' = FALSE /\ empty' = ~hasContent
       /\ Restore
       /\ stored' = Unset
       /\ listening' = FALSE
  ELSE selected' = NoAsset /\ UNCHANGED <<loading, empty, listening, stored>>

\* on_doc_fetched: the rows are added to those there are; either way the
\* handler ends in stop_fetch_thread.
OnDocFetched ==
  /\ pc = "idle" /\ signals # <<>>
  /\ signals' = Tail(signals)
  /\ IF Head(signals) = WasStopped(TRUE)
     THEN UNCHANGED widgetVars
     ELSE /\ rows' = IF payload = None THEN rows ELSE Append(rows, payload)
          /\ Refreshed(payload # None)
  /\ stop' = (stop \/ thread)
  /\ pc' = "stop"
  /\ UNCHANGED <<library, project, thread, payload, threadVars, pastVars>>

\* The end of stop_fetch_thread.
Stopped ==
  /\ pc = "stop" /\ tpc = "off"
  /\ thread' = FALSE
  /\ pc' = "idle"
  /\ UNCHANGED <<library, project, widgetVars, stop, payload, signals, threadVars,
                 pastVars>>

-----------------------------------------------------------------------------
(* The fetching thread: AssetModel._fetch and fetch. *)

FetchTemplate ==
  /\ tpc = "template"
  /\ fetched' = Docs(project, NoProject)
  /\ tpc' = "assets"
  /\ UNCHANGED <<library, project, pc, widgetVars, modelVars, pastVars>>

FetchAssets ==
  /\ tpc = "assets"
  /\ fetched' = [fetched EXCEPT !.assets = project]
  /\ tpc' = "group"
  /\ UNCHANGED <<library, project, pc, widgetVars, modelVars, pastVars>>

\* The loop over the assets looks at the stop flag before each of them.
GroupAssets ==
  /\ tpc = "group"
  /\ fetched' = IF stop THEN None ELSE fetched
  /\ tpc' = "store"
  /\ UNCHANGED <<library, project, pc, widgetVars, modelVars, pastVars>>

StorePayload ==
  /\ tpc = "store"
  /\ payload' = fetched
  /\ fetched' = None
  /\ tpc' = "emit"
  /\ UNCHANGED <<library, project, pc, widgetVars, thread, stop, signals, pastVars>>

\* Mutant: the flag the signal carries says whether there is a payload.
EmitFound ==
  /\ tpc = "emit"
  /\ signals' = Append(signals, WasStopped(payload # None))
  /\ tpc' = "end"
  /\ UNCHANGED <<library, project, pc, widgetVars, thread, stop, payload, fetched,
                 pastVars>>

EmitFetched ==
  /\ tpc = "emit"
  /\ signals' = Append(signals, WasStopped(stop))
  /\ tpc' = "end"
  /\ UNCHANGED <<library, project, pc, widgetVars, thread, stop, payload, fetched,
                 pastVars>>

EndThread ==
  /\ tpc = "end"
  /\ tpc' = "off"
  /\ UNCHANGED <<library, project, pc, widgetVars, modelVars, fetched, pastVars>>

-----------------------------------------------------------------------------
UserStep == Select \/ Refresh \/ SwitchProject
MainStep == SwitchRaises \/ SwitchStop \/ SwitchRefresh \/ OnDocFetched \/ Stopped
ThreadStep == FetchTemplate \/ FetchAssets \/ GroupAssets \/ StorePayload
              \/ EmitFetched \/ EndThread

Next == UserStep \/ MainStep \/ ThreadStep

Spec == Init /\ [][Next]_vars

\* The event loop delivers signals and a thread runs; the user need not act.
Fairness == WF_vars(MainStep) /\ WF_vars(ThreadStep)

FairSpec == Spec /\ Fairness

-----------------------------------------------------------------------------
(* Properties. *)

DocsType == [template : Projects \cup {NoProject}, assets : Projects \cup {NoProject}]
AssetType == [project : Projects \cup {NoProject}, name : Names \cup {"unset"}]

\* Every variable has its type, only the Library Loader is without a project,
\* and without one nothing is fetched (models.py refresh).
TypeOK ==
  /\ library \in BOOLEAN
  /\ project \in Projects \cup {NoProject} /\ (project = NoProject => library /\ tpc = "off")
  /\ pc \in {"idle", "set", "switch", "stop"}
  /\ rows \in Seq(DocsType)
  /\ loading \in BOOLEAN /\ empty \in BOOLEAN /\ listening \in BOOLEAN
  /\ selected \in AssetType /\ stored \in AssetType
  /\ thread \in BOOLEAN /\ stop \in BOOLEAN
  /\ payload \in DocsType /\ fetched \in DocsType
  /\ signals \in Seq({"stopped", "fetched"})
  /\ tpc \in {"off", "template", "assets", "group", "store", "emit", "end"}
  /\ acts \in Nat /\ chosen \in AssetType
  /\ doubled \in BOOLEAN /\ behind \in BOOLEAN

\* From the first fetch after a switch on, the rows are those of the project
\* the session is on, whatever was being fetched when the user switched, however
\* far a switch before it came, and whatever signal arrives late (models.py
\* refresh, on_doc_fetched).
RowsOfProject == ~behind => \A i \in DOMAIN rows : rows[i] = Docs(project, project)

\* A thread that runs is referenced, so that Qt never destroys a running
\* thread and no second one is started beside it (models.py stop_fetch_thread).
RunningThreadReferenced == tpc # "off" => thread

AtRest == pc = "idle" /\ tpc = "off" /\ signals = <<>>

\* Where the project never changes, the rows are there exactly once when all
\* is done, and neither the spinner nor "No Data" hides them, however often
\* the user refreshes (widgets.py _refresh_model).
ToolShowsAssets ==
  AtRest /\ ~library =>
    rows = <<Docs(project, project)>> /\ ~loading /\ ~empty

\* A refresh that is over before the next one begins keeps the selection
\* (widgets.py _store_model_selection, _restore_model_selection).
SelectionKept ==
  ~library /\ ~doubled /\ ~loading /\ chosen # NoAsset => selected = chosen

\* Claim of _refresh_assets' docstring, "Load assets from database".
LibraryLoadsAssets == AtRest /\ project # NoProject => rows = <<Docs(project, project)>>
=============================================================================
