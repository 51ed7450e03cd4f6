----------------------------- MODULE LoaderWindow -----------------------------
(***************************************************************************)
(* The Loader: the window that follows the selection of assets with the    *)
(* list of their subsets (tools/loader/app.py), the model behind that list *)
(* and its fetching thread (tools/loader/model.py), and the delayed jobs   *)
(* of tools/lib.py, of which a channel holds one at a time.                *)
(*                                                                         *)
(* The Qt main thread runs one handler at a time; set_assets waits in its  *)
(* handler for the fetching thread.  The asset list appears as far as the  *)
(* window notices it: AssetFetch is the model of its own.                  *)
(***************************************************************************)
EXTENDS Integers

CONSTANTS
  Assets,       \* assets of the project
  Context,      \* the session's asset
  NoAsset,      \* no row of the list is the current one
  SyncServer,   \* the sync server is enabled
  MaxActs       \* bound: things the user does

ASSUME ContextAssumption == Context \in Assets /\ NoAsset \notin Assets
ASSUME SyncAssumption == SyncServer \in BOOLEAN
ASSUME ActsAssumption == MaxActs \in Nat

VARIABLES
  \* the asset list
  selected,       \* the selected assets
  current,        \* the row clicked last, which may have been deselected
  refreshing,     \* the list is fetched again
  stored,         \* the selection and current row it will restore
  pressed,        \* a mouse button is down on it: clicked will follow
  \* the window and the subset list
  job,            \* the job of channel "mongo", or "none"
  pc,             \* "idle", or where _assetschanged is in set_assets
  marked,         \* assets with a selected subset row
  rows,           \* the documents the rows are made of, or None
  loading, empty, \* view.is_loading and view.is_empty
  listening,      \* some on_refreshed is connected to subsets_model.refreshed
  dialog,         \* the modal dialog that groups subsets is open
  \* the subsets model
  assetIds,       \* _asset_ids
  stop,           \* _doc_fetching_stop
  payload,        \* _doc_payload
  signals,        \* number of queued doc_fetched signals
  \* the fetching thread
  tpc, fetched,
  \* what happened so far
  acts, dropped, broken

listVars   == <<selected, current, refreshing, stored, pressed>>
viewVars   == <<marked, rows, loading, empty, listening, dialog>>
modelVars  == <<assetIds, stop, payload, signals>>
threadVars == <<tpc, fetched>>
pastVars   == <<acts, dropped, broken>>
vars == <<listVars, job, pc, viewVars, modelVars, threadVars, pastVars>>

-----------------------------------------------------------------------------
\* What a fetch brings: the assets whose documents, and whose subsets it
\* found, and whether each subset had a version.
Docs(a, s, v) == [assets |-> a, subsets |-> s, versioned |-> v]
None == Docs({}, {}, FALSE)

Selection(assets, row) == [assets |-> assets, row |-> row]
NoSelection == Selection({}, NoAsset)

(***************************************************************************)
(* lib.schedule: the channel's job is replaced.  dropped remembers that a   *)
(* job gave way that would have followed a change of the asset selection.  *)
(***************************************************************************)
Schedule(f) ==
  /\ job' = f
  /\ dropped' = (dropped \/ (job \in {"assets", "refresh"} /\ f \notin {"assets", "refresh"}))

\* refreshed.emit: each listener disconnects all of them.
Refreshed(hasItem) ==
  IF listening
  THEN loading' = FALSE /\ empty' = ~hasItem /\ listening' = FALSE
  ELSE UNCHANGED <<loading, empty, listening>>

\* SubsetsModel.on_doc_fetched.  A subset without a version makes set_version
\* raise, and refreshed is not emitted.
FillRows ==
  IF payload = None \/ assetIds = {}
  THEN rows' = None /\ Refreshed(FALSE) /\ UNCHANGED broken
  ELSE /\ rows' = payload
       /\ IF payload.versioned
          THEN Refreshed(TRUE) /\ UNCHANGED broken
          ELSE broken' = TRUE /\ UNCHANGED <<loading, empty, listening>>

-----------------------------------------------------------------------------
\* Window.__init__ has refreshed the asset list and found nothing selected.
Init ==
  /\ selected = {} /\ current = NoAsset /\ pressed = FALSE
  /\ refreshing = TRUE /\ stored = NoSelection
  /\ job = "assets" /\ pc = "idle"
  /\ marked = {} /\ rows = None /\ loading = FALSE /\ empty = TRUE /\ listening = TRUE
  /\ dialog = FALSE
  /\ assetIds = {} /\ stop = FALSE /\ payload = None /\ signals = 0
  /\ tpc = "off" /\ fetched = None
  /\ acts = 0 /\ dropped = FALSE /\ broken = FALSE

(* The user. *)

Act == pc = "idle" /\ acts < MaxActs /\ acts' = acts + 1

\* Nothing in the window can be clicked while the dialog is open.
ActHere == Act /\ ~dialog

\* The selection changes on a press of the mouse, or from the keyboard; the
\* current row is one that was selected or deselected by it, or stays when a
\* click beside the rows deselects them all.
SelectAssets ==
  /\ ActHere /\ ~refreshing
  /\ selected' \in (SUBSET Assets) \ {selected}
  /\ \/ current' \in selected' \cup selected
     \/ selected' = {} /\ UNCHANGED current
  /\ pressed' \in BOOLEAN
  /\ Schedule("assets")
  /\ UNCHANGED <<refreshing, stored, pc, viewVars, modelVars, threadVars, broken>>

\* on_assetview_click: clearing the selected subsets is a change of them.
ReleaseMouse ==
  /\ pc = "idle" /\ pressed
  /\ pressed' = FALSE
  /\ marked' = {}
  /\ IF marked # {} THEN Schedule("subsets") ELSE UNCHANGED <<job, dropped>>
  /\ UNCHANGED <<selected, current, refreshing, stored, pc, rows, loading, empty,
                 listening, dialog, modelVars, threadVars, acts, broken>>

\* The user selects subset rows, or another version in one of them.
MarkSubsets ==
  /\ ActHere /\ rows # None
  /\ marked' \in SUBSET rows.subsets
  /\ \/ Schedule("subsets")
     \/ marked' = marked /\ marked # {} /\ Schedule("versions")
  /\ UNCHANGED <<listVars, pc, rows, loading, empty, listening, dialog, modelVars,
                 threadVars, broken>>

\* set_grouping fills the rows from the payload there is, and selects again
\* what was selected.
ToggleGrouping ==
  /\ ActHere
  /\ FillRows
  /\ marked' = marked \cap rows'.subsets
  /\ IF marked' # {} THEN Schedule("subsets") ELSE UNCHANGED <<job, dropped>>
  /\ UNCHANGED <<listVars, pc, dialog, modelVars, threadVars>>

OpenGrouping ==
  /\ ActHere /\ marked # {}
  /\ dialog' = TRUE
  /\ UNCHANGED <<listVars, job, pc, marked, rows, loading, empty, listening,
                 modelVars, threadVars, dropped, broken>>

\* The window is shown again; another tool of the process uses the channel.
ShowWindow ==
  /\ Act
  /\ Schedule("refresh")
  /\ UNCHANGED <<listVars, pc, viewVars, modelVars, threadVars, broken>>

OtherTool ==
  /\ Act /\ job # "none"
  /\ Schedule("none")
  /\ UNCHANGED <<listVars, pc, viewVars, modelVars, threadVars, broken>>

-----------------------------------------------------------------------------
(* The asset list. *)

\* AssetWidget.refresh: refresh_triggered schedules "assets" before the list
\* is emptied, which loses the selection without a signal.
RefreshAssets ==
  /\ Schedule("assets")
  /\ stored' = Selection(selected, current)
  /\ selected' = {} /\ current' = NoAsset /\ pressed' = FALSE
  /\ refreshing' = TRUE
  /\ UNCHANGED <<pc, viewVars, modelVars, threadVars, broken>>

\* The button of the list, and _refresh.
RefreshButton == ActHere /\ RefreshAssets

RefreshJob ==
  /\ pc = "idle" /\ job = "refresh"
  /\ RefreshAssets
  /\ UNCHANGED acts

\* The list is there again.  _restore_model_selection selects the current row
\* as well; it raises when there is one and nothing was selected.
AssetsRefreshed ==
  /\ pc = "idle" /\ refreshing
  /\ refreshing' = FALSE
  /\ stored' = NoSelection
  /\ IF stored.row # NoAsset /\ stored.assets = {}
     THEN UNCHANGED <<selected, current, job, dropped>>
     ELSE /\ current' = IF stored = NoSelection THEN Context ELSE stored.row
          /\ selected' = stored.assets \cup {current'}
          /\ Schedule("assets")
  /\ UNCHANGED <<pressed, pc, viewVars, modelVars, threadVars, acts, broken>>

-----------------------------------------------------------------------------
(* The subset list: jobs and signals of the main thread. *)

\* _subsetschanged and _versionschanged only look at what is selected.
SubsetsJob ==
  /\ pc = "idle" /\ job \in {"subsets", "versions"}
  /\ job' = "none"
  /\ UNCHANGED <<listVars, pc, viewVars, modelVars, threadVars, pastVars>>

\* _assetschanged up to stop_fetch_thread: the ids change before the thread
\* that reads them is stopped.
AssetsChanged ==
  /\ rows' = None /\ marked' = {}
  /\ loading' = (selected # {}) /\ empty' = TRUE
  /\ listening' = TRUE
  /\ assetIds' = selected
  /\ pc' = "stop"
  /\ UNCHANGED <<listVars, stop, payload, signals, threadVars, dropped, broken>>

AssetsJob ==
  /\ pc = "idle" /\ job = "assets"
  /\ job' = "none"
  /\ AssetsChanged
  /\ UNCHANGED <<dialog, acts>>

\* The dialog has grouped the subsets in the database, and does not schedule
\* the refresh but calls it; or it is closed without.
CloseGrouping ==
  /\ pc = "idle" /\ dialog
  /\ dialog' = FALSE
  /\ \/ AssetsChanged /\ UNCHANGED <<job, acts>>
     \/ UNCHANGED <<listVars, job, pc, marked, rows, loading, empty, listening,
                    modelVars, threadVars, pastVars>>

\* stop is read by the thread alone, so it may be set without one.
StopFetch ==
  /\ pc = "stop"
  /\ stop' = TRUE
  /\ pc' = "wait"
  /\ UNCHANGED <<listVars, job, viewVars, assetIds, payload, signals, threadVars,
                 pastVars>>

\* Mutants: the payload of the previous fetch is kept; so is the stop flag.
StartFetchKeepingPayload ==
  /\ pc = "wait" /\ tpc = "off"
  /\ pc' = "idle"
  /\ IF assetIds = {}
     THEN UNCHANGED <<stop, payload, tpc>>
     ELSE stop' = FALSE /\ tpc' = "assets" /\ UNCHANGED payload
  /\ UNCHANGED <<listVars, job, viewVars, assetIds, signals, fetched, pastVars>>

StartFetchStopped ==
  /\ pc = "wait" /\ tpc = "off"
  /\ pc' = "idle"
  /\ IF assetIds = {}
     THEN UNCHANGED <<stop, payload, tpc>>
     ELSE payload' = None /\ tpc' = "assets" /\ UNCHANGED stop
  /\ UNCHANGED <<listVars, job, viewVars, assetIds, signals, fetched, pastVars>>

\* The thread has ended: SubsetsModel.refresh and the rest of _assetschanged.
StartFetch ==
  /\ pc = "wait" /\ tpc = "off"
  /\ pc' = "idle"
  /\ IF assetIds = {}
     THEN UNCHANGED <<stop, payload, tpc>>
     ELSE payload' = None /\ stop' = FALSE /\ tpc' = "assets"
  /\ UNCHANGED <<listVars, job, viewVars, assetIds, signals, fetched, pastVars>>

OnDocFetched ==
  /\ pc = "idle" /\ signals > 0
  /\ signals' = signals - 1
  /\ FillRows
  /\ marked' = {}
  /\ UNCHANGED <<listVars, job, pc, dialog, assetIds, stop, payload, threadVars, acts,
                 dropped>>

-----------------------------------------------------------------------------
(***************************************************************************)
(* The fetching thread: SubsetsModel._fetch.  Its loops over documents     *)
(* look at the stop flag; one over no documents never does.                *)
(***************************************************************************)
FetchAssets ==
  /\ tpc = "assets"
  /\ fetched' = Docs(assetIds, {}, TRUE)
  /\ tpc' = "subsets"
  /\ UNCHANGED <<listVars, job, pc, viewVars, modelVars, pastVars>>

FetchSubsets ==
  /\ tpc = "subsets"
  /\ fetched' = [fetched EXCEPT !.subsets = assetIds]
  /\ tpc' = "versions"
  /\ UNCHANGED <<listVars, job, pc, viewVars, modelVars, pastVars>>

StopEarly ==
  /\ tpc \in {"versions", "store", "sync"} /\ stop
  /\ tpc' = "end"
  /\ fetched' = None
  /\ UNCHANGED <<listVars, job, pc, viewVars, modelVars, pastVars>>

\* A subset may have been published whose version is not there yet.
FetchVersions ==
  /\ tpc = "versions"
  /\ \E v \in BOOLEAN : fetched' = [fetched EXCEPT !.versioned = v]
  /\ tpc' = "store"
  /\ UNCHANGED <<listVars, job, pc, viewVars, modelVars, pastVars>>

StorePayload ==
  /\ tpc = "store"
  /\ payload' = fetched
  /\ fetched' = None
  /\ tpc' = IF SyncServer THEN "sync" ELSE "emit"
  /\ UNCHANGED <<listVars, job, pc, viewVars, assetIds, stop, signals, pastVars>>

FetchAvailability ==
  /\ tpc = "sync"
  /\ tpc' = "emit"
  /\ UNCHANGED <<listVars, job, pc, viewVars, modelVars, fetched, pastVars>>

EmitFetched ==
  /\ tpc = "emit"
  /\ signals' = signals + 1
  /\ tpc' = "end"
  /\ UNCHANGED <<listVars, job, pc, viewVars, assetIds, stop, payload, fetched, pastVars>>

EndThread ==
  /\ tpc = "end"
  /\ tpc' = "off"
  /\ UNCHANGED <<listVars, job, pc, viewVars, modelVars, fetched, pastVars>>

-----------------------------------------------------------------------------
UserStep == SelectAssets \/ ReleaseMouse \/ MarkSubsets \/ ToggleGrouping
            \/ OpenGrouping \/ CloseGrouping \/ ShowWindow \/ OtherTool \/ RefreshButton

JobStep == RefreshJob \/ SubsetsJob \/ AssetsJob

MainStep == AssetsRefreshed \/ JobStep \/ StopFetch \/ StartFetch \/ OnDocFetched

ThreadStep == FetchAssets \/ FetchSubsets \/ StopEarly \/ FetchVersions \/ StorePayload
              \/ FetchAvailability \/ EmitFetched \/ EndThread

Next == UserStep \/ MainStep \/ ThreadStep

Spec == Init /\ [][Next]_vars

\* Timers fire, signals are delivered and the thread runs; the user need not act.
Fairness ==
  /\ WF_vars(JobStep) /\ WF_vars(StopFetch \/ StartFetch)
  /\ WF_vars(OnDocFetched) /\ WF_vars(AssetsRefreshed) /\ WF_vars(ThreadStep)

FairSpec == Spec /\ Fairness

-----------------------------------------------------------------------------
(* Properties. *)

SelectionType == [assets : SUBSET Assets, row : Assets \cup {NoAsset}]

DocsType == [assets : SUBSET Assets, subsets : SUBSET Assets, versioned : BOOLEAN]

\* Every variable has its type; a selection has a current row; and while the spinner turns somebody is
\* connected who will stop it (app.py _assetschanged).
TypeOK ==
  /\ selected \in SUBSET Assets /\ current \in Assets \cup {NoAsset}
  /\ current = NoAsset => selected = {}
  /\ stored \in SelectionType /\ (stored.row = NoAsset => stored.assets = {})
  /\ dialog \in BOOLEAN
  /\ refreshing \in BOOLEAN /\ pressed \in BOOLEAN
  /\ job \in {"none", "refresh", "assets", "subsets", "versions"}
  /\ pc \in {"idle", "stop", "wait"}
  /\ marked \in SUBSET Assets /\ rows \in DocsType
  /\ loading \in BOOLEAN /\ empty \in BOOLEAN /\ listening \in BOOLEAN
  /\ loading => listening
  /\ assetIds \in SUBSET Assets /\ stop \in BOOLEAN
  /\ payload \in DocsType /\ fetched \in DocsType /\ signals \in Nat
  /\ tpc \in {"off", "assets", "subsets", "versions", "store", "sync", "emit", "end"}
  /\ acts \in Nat /\ dropped \in BOOLEAN /\ broken \in BOOLEAN

\* The rows are subsets of the assets the model was last set to, found
\* together with their documents: never of a fetch that was stopped, never of
\* one that read the ids while they changed (model.py refresh, _fetch).
RowsOfAssets ==
  pc = "idle" /\ rows # None => rows.assets = assetIds /\ rows.subsets = assetIds

AtRest == pc = "idle" /\ job = "none" /\ tpc = "off" /\ signals = 0 /\ ~refreshing

\* When all is done and no job of the selection was replaced by another kind
\* of job, the rows are those of the selected assets (app.py _assetschanged).
RestShowsSelection ==
  AtRest /\ ~dropped =>
    assetIds = selected /\ (rows = None <=> selected = {})

\* Loading comes to an end unless a subset without a version was met
\* (app.py on_refreshed).
LoadingEnds == loading ~> ~loading \/ broken
=============================================================================
