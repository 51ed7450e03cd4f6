# A verification project for avalon-core

avalon-core is a Python library that runs inside digital content creation hosts
(Maya, Nuke, Harmony, TVPaint, Photoshop, ...) and beside them: it registers
loaders and creators, keeps containers in scenes, talks to a Mongo database and
shows Qt tools.  What is hard to get right and hard to test is where threads,
processes, sockets, timers and nested event loops meet, and where the scene,
the database and the disk are changed by several people in several steps.  That
is what this project models in TLA+, model-checks with TLC and proves with
TLAPS.

## Inventory

| Part | State it keeps | Operations | Hard behaviour | What makes it correct |
|---|---|---|---|---|
| Harmony RPC: `harmony/server.py`, `harmony/lib.py`, `TB_sceneOpened.js` | `message_id`, `queue`, `received`, the callback queue; the client's buffer | `send`, `receive`, `process_request`, main loop, relaunch; client's `onReadyRead`, `processBuffer`, menus | main and receive thread share the server without a lock; calls and menu requests cross; retries; Harmony quits or is relaunched | a call gets its own reply; the receive thread lives; menu requests run once, in order |
| TVPaint RPC: `communication_server.py`, `launch_script.py`, `plugin_code/library.cpp` | callback queue, `waiting_requests`, `responses`; the plugin's messages and responses | panel routes, `MainThreadItem.wait`, `send_request`, the timer; the plugin's `call_method` and `process_requests` | three parties that block on each other; timeouts; signals; TVPaint ends | nobody waits in a circle; every wait ends; tools open in order |
| Mongo connection: `mongodb.py` | one shared client, a flag, a registry of connection objects | `install`, `uninstall`, `__getattr__`, `check_db_existence` | several objects and threads on class-level state, no lock | installed objects have a handle to one open client; a closed client is not kept |
| Session, pipeline, Maya: `pipeline.py`, `io.py`, `maya/` | registered host and configuration, listeners, `api.Session` and environment; Maya's callbacks, workspace and menu | `install`, `uninstall`, `update_current_task`, reload | a step of several raises; menu made later, when Maya is idle | the host tells and follows the session's context; nothing is called twice |
| Workfiles tool: `tools/workfiles` | selection, two timers, the file list, an open dialog, the current scene | clicks, timers, open, browse, save as, duplicate | timers fire while a dialog is open; others write files; assets move | the name is free; the scene lies where the session says |
| Containers, Scene Inventory: `pipeline.py`, `tools/sceneinventory` | containers of the scene, documents, rows, a running command, the switch dialog | load, update, set version, switch, remove; both views | commands over several items stop midway; others publish and archive | the list shows the scene; what a dialog promises can be done |
| Inventory, Project Manager: `inventory.py`, `tools/projectmanager` | project and asset documents, two files per user | `init`, `load`, `save`, `create_asset`, the dialog | nothing is locked; check then insert; save raises midway | round trip; unique names; a save that succeeds saved all |
| Creator, Subset Manager, metadata: `tools/creator`, `tools/subsetmanager`, `photoshop`, `aftereffects`, `tvpaint/pipeline.py`, `harmony/pipeline.py` | the form and its timer, rows, lists of records in documents | create, load, list, remove; read and write in chunks | read-modify-write by several calls; the user switches documents; chunk limits | no record is lost; rows and marks stand for records |
| Loader: `tools/loader`, `tools/lib.py`, `tools/models.py`, `tools/widgets.py`, `libraryloader` | selection, one job per channel, fetch threads with payload, rows, details, context menus | `schedule`, `refresh`, `_fetch`, `on_doc_fetched`, menus and loads | jobs cancel each other; stopped fetches signal late; menus run their own event loop | rows and details belong to the selection; a menu loads what it offered |
| Toon Boom, Storyboard Pro, Harmony scenes: `toonboom`, `storyboardpro`, `harmony/lib.py`, `harmony/workio.py` | scene directories, zip work files, archives under way, a file watcher | open, save, save as, `on_file_changed`, `zip_and_move` | threads that archive what is being saved; messages about earlier scenes | a work file holds its own, whole, latest scene |
| Photoshop and After Effects panel, `tools/webserver` | the server's thread and flag, connections, call ids, the queue of presses | launch, listen, `call`, `stop`; the panel's `connect`, `makeCall`, `handleCall` | connection lost and made again; ids start anew; stop races start | presses are kept; answers reach their calls; the process ends with its host |
| Nuke, Houdini, Blender, Fusion, Unreal | none of their own | adapters to the host's API | the host is not in the repository | not modelled |
| Schemas, style, vendored code, tests, packaging | none | none | none | not modelled |

The parts interact through few seams.  A host's RPC or panel hands a request to
the main thread through a queue; the main thread opens a tool; the tool reads
the database through a connection object, changes the session, and calls back
into the host.  `PROJECT.json` lists every component with its status, the
hazards at their lines, and what each definition models.

## Modules

| Module | Models |
|---|---|
| `LossyFifo` | What a route from a host's menu to the main thread promises: requests are executed at most once and in order; some may be lost.  Its state is how many were posted, the set of those under way, and the sequence of those executed.  `HarmonyRpc`, `TVPaintRpc` and `HostPanel` implement it. |
| `HarmonyRpc` | The socket server with its receive thread, the main thread with `Server.send` and the relaunch, and the JavaScript client with both directions of the socket. |
| `TVPaintRpc` | The aiohttp event loop, the main thread with its timer and `send_request`, `Communicator`, and the plugin's websocket and host threads. |
| `AvalonMongo` | The class-level client, flag and registry, and the operations of connection objects by several threads, one access of shared state per step. |
| `AssetFetch` | The asset list of the tools: its fetching thread, queued signals, kept selection, and the Library Loader's switch between projects. |
| `LoaderWindow` | The Loader: the delayed jobs of `tools/lib.py`, the subset list with its fetching thread, clicks, grouping, refreshes and other tools on the same channel. |
| `LoaderDetails` | Extends `LoaderWindow` by what depends on the rows: versions, the described version, the picture, the representations, families, and both context menus with their loaders. |
| `Session` | `install`, `uninstall` and `update_current_task` on registered host, configuration and context. |
| `Workfiles` | Extends `Session` by the Work Files tool, its timers and dialogs, and the disk. |
| `MayaHost` | Extends `Workfiles` by Maya: callbacks, listener, workspace, deferred menu and "Reinstall Avalon". |
| `Containers` | Published documents, other users who change them, and what load, update, switch and remove of `pipeline.py` do to a container. |
| `SceneInventory` | Extends `Containers` by the Scene Inventory tool. |
| `ProjectInventory` | The documents of a project, `inventory.py` and the Project Manager. |
| `TVPaintMetadata` | The chunked strings of `tvpaint/pipeline.py`, as operators and against what they mean. |
| `CreatorWindow` | The Creator's form and its timer. |
| `Staging` | Extends both by the documents of four hosts, the plans of calls that create, load, list and remove, and the Subset Manager. |
| `ToonBoomScene` | Scene directories and zip work files of Harmony and Storyboard Pro. |
| `HostPanel` | Avalon beside Photoshop and After Effects: main thread, web server thread, panel. |
| `*_proofs` | Theorems: `Database_proofs` about `AvalonMongo` and `ProjectInventory`, `Scenes_proofs` about `ToonBoomScene` and `SceneInventory`, `Hosts_proofs` about `HostPanel`, `CreatorWindow`, `TVPaintMetadata` and `Staging`; the others about the module they are named for, with all it extends. |
| `MC*` | Values for the constants, for TLC. |

### HarmonyRpc

Two program counters, `mpc` (main thread) and `rpc` (receive thread), and a
step wherever the one can touch `message_id`, `queue` or `received` between two
accesses of the other.  `self.message_id += 1` is a load and a store.  Messages
carry a `ref`, not on the wire, that tells the properties which call or menu
request they belong to; the client numbers all its requests 1, as the code
does, because it never increments its counter.  The client is a third, single
threaded party: it reads one or several messages into its buffer
(`ClientReadyRead`), handles them one by one and stops when the length test of
`processBuffer` says so.  Messages reach the server whole; a message split by
`recv` is not modelled.

Some properties hold however the threads interleave: `OneCopyPerCall` (a reply
is never mistaken for a request and echoed for ever), `MenuRequestsFifo` (a
refinement of `LossyFifo`), `MenuServed`.  Others need an *orderly* session: the
user waits until Avalon is done before they use the menu again (`quiet`), no
call gave up (`~gaveUp`), Harmony was launched once (`launches = 1`).  Then
`send` returns a reply, and the reply to that very call unless an earlier call
took its reply through `self.received` (`OrderlyReply`).  Each condition is
needed.  A reply taken from the receive thread's hands is stored in the queue as
well, and storing it sets `message_id` back, so that a later call finds an entry
under its id that answers another one.  The history variable `peeked` is the
first call that took its reply so.  It is not enough to ask that the client has
made no request since: with three calls and one menu request an orderly session
returns the reply of the first call to the third.

### TVPaintRpc

The event loop runs requests from the plugin (a panel button starts a route),
requests to the plugin (`send_request` hands a coroutine to the loop) and
answers.  The main thread's timer takes one item at a time; the tool it opens
may run George scripts, which are requests; a route with `wait=True` blocks the
*event loop itself* until its item was executed (`LoopClickWaiting`).  TVPaint's
thread is blocked in `call_method` while a button waits for its answer, and
handles Avalon's requests in `process_requests` ticks otherwise.

The model takes from the code which routes wait and which tools talk to TVPaint
while they are opened (`RoutesAssumption`): exactly the routes whose tools talk
do not wait.  Under that assumption a user who does one thing at a time
(`polite`) never runs into a circular wait, every button comes back and every
request returns (`PoliteNoCyclicWait`, `WaitersServed`).  Without politeness the
circle closes (`tvpaint_deadlock`): a waiting button pressed while the main
thread is in a request blocks the loop that should deliver the response.

### AvalonMongo

Objects (`io`'s and a tool's) are installed, used and uninstalled by threads.
Each statement that reads or writes the class attributes is a step.
`calm` says that operations have not overlapped so far.  In a calm history there
is one open client exactly while an object is installed, and each installed
object has a handle to it (`CalmConsistent`).  In any history a closed client is
about to be dropped by the thread that closed it (`NeverLeftClosed`).  The
pruning in `check_db_existence` never removes anything, because a reference
count of 1 cannot be observed there: the registry and the loop variable both
hold the object; the model leaves the pop out.  What the loop does do is raise
when another thread registers an object meanwhile.

### AssetFetch

The Qt main thread runs one handler at a time; where a handler waits for the
fetching thread it has a value of `pc`.  The thread is `tpc`, one step per query
or access to what the main thread shares with it.  `doc_fetched` is a queued
signal, so `signals` is a queue; a signal carries, for the mutants and the
properties, whether its fetch was `"stopped"`.  A project stands for its asset
documents: `Docs(p, p)` are documents of assets and of their groups, and a mix
of two projects is a value of its own.  `library` says whether the tool can
switch projects.

In a tool on one project the rows arrive once and unhidden (`ToolShowsAssets`),
and the selection survives a refresh (`SelectionKept`) unless a second refresh
was pressed while the first was loading (`doubled`: the selection stored then is
the one of the emptied view).  In the Library Loader a switch of the project
takes three steps.  `SwitchProject` sets the session; then configuration, caches
and documents are looked up, and each of that may raise (`SwitchRaises`);
`SwitchStop` sets the thread's stop flag, and `SwitchRefresh` follows when it
has ended.  Meanwhile the thread of the project before goes on, so that from the
session's change to the next fetch (`behind`) the rows are the old project's,
for good if the handler raised and nobody refreshes.  From that fetch on they
are of the session's project, whatever the old thread still signals
(`RowsOfProject`).  But they may never come: `on_doc_fetched` stops whatever
thread is running when it handles the signal of a thread that was stopped
before.

### LoaderWindow and LoaderDetails

`job` is the one timer of the channel `"mongo"`; `Schedule` replaces it.
`_assetschanged` is three steps, because `set_assets` changes the ids
(`AssetsChanged`) before it stops the thread (`StopFetch`) and waits for it
(`StartFetch`).  The thread reads the ids twice, so a fetch may mix two
selections until it is stopped; `Docs` therefore keeps the ids of both queries
apart, and whether every subset had a version.

The rows are of the assets the model was last set to (`RowsOfAssets`).  When all
is at rest they are those of the selection (`RestShowsSelection`), unless a job
that would have followed the selection was replaced by another kind of job
(`dropped`): that happens when an asset is clicked while a subset is selected
and the mouse is released before the timer of 50 ms, or when the Workfiles tool
of the same process uses the channel.  Loading ends unless a subset was found
without a version (`broken`), for which `set_version` raises.

`LoaderDetails` adds the handlers that follow the marked rows.  `DetailsFollow`
says that whenever no job is due the list is that of the versions the marked
rows show, the text that of one of them, and the picture remembered that of the
only entity, if it has one to show; it does not wait for a fetch to end.  It
needs `~stale`: filling the rows deselects them without a signal, so that the
details stay those of rows no longer marked.  The picture is kept apart from the
id it is remembered by, and an early return trusts the two to agree; they do
(`PictureMatches`) except for an id whose document is missing: the old picture
stays, under the new id.  A context menu runs an event loop of its own: what it
will load is decided when it opens, jobs and fetches go on below it, and what is
chosen is loaded for all that was marked (`ChosenLoadsAll`).  Steps of the user
outside the menu are blocked while it is open.

Seen on the way, and modelled as they are: cancelling the option dialog loads
with default options, because `get_options` returns `None` and the caller makes
`{}` of it; names of representations with capitals are never offered for several
subsets, since one side is in lower case; the menu removes loaders from the list
it iterates over and so skips some; with the sync server, changing the version
of an ungrouped row raises after the row was changed; the progress of a side is
reset to 0 by a file that failed.  All versions are static, all families are
checked at first and a hero version is an ordinary one in this model.

### Session, Workfiles, MayaHost

`InstallThrough(n)` is what `install` has done when it ends after its n-th step,
by an exception or not; `UninstallAll` and `UninstallPart` do the same for
`uninstall`, which raises at once without a registered configuration, whatever a
failed install left.  `UpdateCurrentTask` changes session and environment and
emits `taskChanged`.

In `Workfiles` the disk is a set of work files; `newest` is the last modified one
of each directory, all that modification times are used for, and what the list
shows (`shown`, `top`) is a copy of both made when it was filled.  A dialog is a
record that keeps what the function waiting for it holds (the session it was
opened with, its path, its version), because timers fire while it is open:
`dialog.raced` says one did.  `SceneInSession` relates the scene opened or saved
to the session; `NameFree` the dialog's verdict to the disk; `SettledListShows`
the lists to the selection, unless a click on a task within 50 ms of one on an
asset cancelled the asset's job (`skipped`: both use one channel).

`MayaHost` composes both with Maya.  `HostFollows`: the menu and the workspace
tell the session's context.  The menu is made when Maya is idle, after further
installs and task changes; the workspace follows only if the work directory
exists when its context is entered, and nobody follows it later (`missed`).
`ReinstallKeeps`: no install or uninstall changes the context, and Maya calls
back once per message, as long as no module was reloaded: after a reload the
registry of callbacks is empty and each is registered again.  "Reinstall Avalon"
uses the built-in `reload` of Python 2; in Python 3 it raises after the
uninstall, which is one outcome of `ReloadModules`.  Callbacks and listener
outlive an uninstall.

### Containers and SceneInventory

A representation is a record of subset, version and name; other users publish
versions and hero versions, archive and delete (`DocStep`), at any moment
between two queries.  A command of the tool works on the items as they were when
the menu was opened, treats one per step (`RunItem`) and gives up at the first
exception without a refresh (`raised`).  The switch dialog keeps what it offers;
`FullChoiceResolves` says that a choice of asset, subset and representation with
the button enabled can be carried out for every item, as long as the database is
as it was when validated.  It needs every item to have been found, none archived
when the dialog was filled and no hero version without representations: each is
a counterexample TLC gave.  `ViewShowsScene` covers both views;
`LatestReached` is about "Update to latest" over several items.

### ProjectInventory

Each query of `save` is a step, and the Project Manager's check and insert are
two.  A project document of schema 2.1 has its tasks in an object and a 2.0 one
in an array; a save writes the inventory before it finds that it has no handler
for a configuration.  `RoundTrip`, `CalmNamesUnique` and `SavedAll` are as the
comments of the module say.  Modelled as they are: `create_project` always fails
its validation (the default configuration lists tasks, its schema wants an
object); `--init` dumps `.config.toml` and then raises; a save of a 2.1 project
never completes; "Add task" of the Project Manager cannot run.

### CreatorWindow, TVPaintMetadata and Staging

An operation of `Staging` is a *plan*: the calls to the host it will make, in
order, from the code of each host (`<<"read", "write">>`, `<<"make", "read",
"write", "rename">>`, ...).  Between two calls the user deletes layers and
switches documents; in TVPaint several tools may be open.  `Kept`: while its
document stays active, an operation drops no record but its own and those of
deleted layers.  For TVPaint the lists pass through the chunks of
`TVPaintMetadata`, and a list may have been written by an older version
(`StagingInit`: whole, chunked, or cut).  Reading them is two calls, one for the
number of chunks (`Count`) and one for the chunks (`TVPaintRead`); a text that
does not parse, because the document was switched between the two or the list
was cut, is replaced by the default, which a third call writes (`Default`), into
whatever document is active by then.  In Harmony a reply without a result, and
in Photoshop an answer that is no JSON, reads as a scene without data
(`Misread`), and the next write drops every record: `Kept` excepts an operation
that read so, and `ShownIsStored` what follows (`calm`).  `ShownIsStored` ties
the rows of the Subset Manager and Photoshop's publish icons to the records;
`ReadyMatches` ties the Creator's button to the name it shows.

Modelled as they are: the Creator base class of Photoshop always raises
(`layer.Name`), so only families with a plugin of their own create there; that
of After Effects writes records without `uuid` and `members`, and list and
remove then raise; After Effects' `rename_item` gets an item instead of its id
and renames nothing; if TVPaint forbids scripts to write text files every read
is empty and the next create overwrites all records (`granted`);
a Photoshop create that fails midway leaves a marked group (hence `calm`).  No
host has `save_instances`.

### ToonBoomScene

A scene is known by its directory and the time it was saved, an archive also by
whether it is whole.  Directories and archives carry modification times, which
opening compares.  `zips` are the runs of `zip_and_move`: archive, move, copy.
Harmony waits for its runs (`host = "harmony"`); Storyboard Pro makes them in
threads when the watcher's message is handled.  The process has one working
directory, so that a run may archive the files of another one (`TakeOthers`) or
not find its archive (`FailZip`).

What is known of the code not to work is kept apart by work file, and the
properties are about all others.  `mixed` are those that may have got another
scene, or half of one: two runs archived one directory at once or one took the
files of the other, a message was handled when another work file was open, a
Save As or the move of an archive failed half-way.  `behind` are those whose
directory was saved while it was archived or replaced, was replaced while it was
archived, or whose archive failed.  `OwnScene` excepts the first, `RestSaved` and
`LocalKept` both.  So `OwnScene` says that what goes wrong with one work file is
never carried to another one, in both applications.

A call raises when the socket is lost or its reply has no result, in every
place it is made (`CallFails`, `SaveAsFails`).  When `save_scene` raises after
the application saved, nothing is zipped and in Storyboard Pro the watcher stays
off; the integration was not told of that scene, and nothing is `due` for it.
When a Save As raises between `scene.saveAs` and `zip_and_move`, the application
is on the new scene and `workfile_path` still the old work file: the next save
puts the one over the other (`Parted`).  The user may close the application at
any time, and killing it then may raise (`KillRaises`).

Modelled as they are: `save_disabled` stays set after an exception, and every
later save of the session is refused; saving in the initial session overwrites
the template `temp.zip`; the server's receive thread may clear a reply before
`send` has seen it, which then waits for ever (`"hung"`).  Storyboard Pro's own
`save_file` raises a `TypeError` in every call (one argument too many) and is not
an action.  Work files are identified with their directories, which takes
different base names.

### HostPanel

A connection has a number, calls have ids that start anew with each.  A script
evaluated in the host remembers the connection it was called on (`Answers`), so
an answer reaches its own call or nobody (`AnswerOwn`).  What is under way on a
connection that closes is lost.  `execute_in_main_thread` is three steps of the
server's thread: it makes the queue if there is none (`CreateQueue`), takes it
(`FetchQueue`) and puts the press in it (`PutPress`); `handling` says how far it
is.  At launch the main thread makes the queue anew when the Work Files tool was
shown, at any moment between these steps.  Presses that were in the old queue
are lost then (`main.early`).  From when the main thread listens every press
handled to the end is shown, in order, but for one: the press in hand at that
moment may still go to the queue that was replaced (`PressesKept`).  From the
button on, presses are a `LossyFifo` (`PressesFifo`): a press made without a
connection waits in the panel, and waits there only while nothing else is on its
way.  `PythonEnds` has two exceptions: a host that ends before the server's
thread has set `is_running`, which then is never stopped (`"hasty"`), and a tool
that raised at launch (`"crashed"`).  `get_client` returns the oldest
connection, dead or not.

## Runs and bounds

| Run | Bounds | Distinct states | Shows |
|---|---|---|---|
| `harmony_rpc` | 2 calls, 2 client requests, 2 launches, 2 tries | 344 thousand | what survives every interleaving of the two server threads, and what an orderly session has; the refinement of `LossyFifo`; liveness |
| `tvpaint_rpc` | 2 clicks, 3 requests, 2 routes | 26 thousand | order of the tools, no circle for a polite user; liveness |
| `tvpaint_deadlock` | 1 click, 2 requests | stops at a violation | the circle without politeness |
| `avalon_mongo` | 2 objects, 2 threads, 2 clients | 2.6 million | connections are consistent without overlap, and no closed client is kept with it |
| `asset_fetch` | 2 projects, 4 refreshes or switches | 24 thousand | rows of the right project, once; the selection kept |
| `loader_window` | 2 assets with 2 versions each, 2 names, 3 loaders, 3 acts | 589 thousand | rows, details and menus belong to the selection they were made for; loading ends |
| `scene_inventory` | 3 subsets, 2 containers, 2 versions, 1 change by others, 2 acts | 1.4 million | the list after every command, updates to the latest, choices of the switch dialog |
| `work_session` | 2 assets, 3 tasks, 2 versions, 5 acts | 2.2 million | names, lists, saved and opened scenes, and what Maya tells, with installs, uninstalls and reloads |
| `project_inventory` | 2 users, 2 names, 6 first databases, 4 assets, 6 acts | 644 thousand | saving what was loaded, unique names, complete saves |
| `staging` | 4 hosts, 2 documents, 3 layers each, 4 acts | 1.7 million | records, rows, icons and the Creator's button |
| `toonboom_scene` | 2 work files, 4 writes | 3.5 million | work files hold their own, whole, latest scenes |
| `host_panel` | 3 connections, 3 presses, 3 calls | 279 thousand | presses, answers and the end of both processes |

Why these are enough: the races are between two or three parties, and every race
found needs at most two acts on each side.  In the RPC modules two launches are
what it takes for ids to restart; the literal 30 of the retry limit is
`MaxTries`, since only its being reached matters.  One route that waits and one
that does not stand for all, since routes differ in nothing else.  Two clients
are what it takes for one to replace another.  A fetch that is stopped twice
takes three changes of the selection or project; two projects, or the four
selections of two assets, are what can be mixed up.  Two versions, a hero and
two representation names give every outcome a query of the switch dialog can
have, and two items one that succeeds before one that raises.  Six acts are a
load, an edit and a save of each of two users.  Two documents with the same
layer id show a mix-up of documents; a record of two tokens and chunks of three
make lists that end inside, at and beyond a chunk.  Four writes after the start
are two saves with their archives, or a save, an archive, an extraction and a
write by someone else.  Clicks on assets already shown are not counted in
`AssetFetch`.

## Fairness

`HarmonyRpc`: both threads keep running, as does Harmony's event loop while it
lives (WF); the timeout test is met again and again while `send` polls (SF).
`TVPaintRpc`: the Qt timer, polling loops, event loop, plugin thread and ticks
keep going (WF).  `LoaderWindow`: timers fire, queued signals are delivered, the
waits for a thread go on and the thread runs (WF); a menu need not be closed, and
holds nothing up.  `HostPanel`: threads are scheduled, scripts of the host end,
aiohttp finds a closed connection, and a tool's window is closed at last (WF),
since the main thread does not look at the host's process while a tool is shown.
No press, click, timeout, loss of a connection or end of a host is ever due.
The other modules have safety properties only and need none.

## Claims the code does not keep

`tvpaint_deadlock` is kept as a run.  The following definitions state what a
comment or docstring says; TLC refutes each one when it is put into the run's
configuration in place of its properties.

| Definition | Says | Counterexample |
|---|---|---|
| `HarmonyRpc!SendReturnsReply` | `send` "waits for a reply from Harmony" | a menu request arrives while it polls, and is returned |
| `HarmonyRpc!ReceiverSurvives` | a request that is no longer in the queue is logged | after a relaunch a call takes the entry of a request being handled; the `KeyError` is not among those caught, and the thread dies |
| `HarmonyRpc!NoMessageLeftInBuffer` | `processBuffer` goes on while more data was received | what is left is compared with the length of the message just handled: a shorter one stays in the buffer |
| `TVPaintRpc!ServerStops` | `stop` lets `check_shutdown` shut the server down | TVPaint ends while the loop waits for an item nobody executes any more |
| `AvalonMongo!InstallEstablishes` | `install` establishes a persistent connection | another thread registers an object during `check_db_existence`, which raises: the object counts as installed and has no database |
| `AssetFetch!LibraryLoadsAssets` | `_refresh_assets` loads the assets | the signal of a stopped fetch stops the next one (Library Loader) |
| `SceneInventory!VersionedReached` | "Switch to versioned" sets the version a hero was made of | the names found are filed under `version["_id"]`, a variable left from making the menu, so that no item or another one is updated |
| `Workfiles!SavedUnderItsName` | "make sure we are in the right session" | a timer that fires while the dialog is open changes asset and task after the name was made: the scene is saved under the old name in the new work directory |
| `ProjectInventory!ParentsFollow` | the parents of an asset are its parent's and the parent | the dialog appends to the list of the parent document it keeps: the second asset added below a parent has the parent twice |

## Proofs

| Theorem | Statement | Argument |
|---|---|---|
| `HarmonyRpc_proofs!TypeCorrect` | `Spec => []TypeOK` | one step per action; each thread holds a message where its code works on one |
| `HarmonyRpc_proofs!FirstReceiverSurvives` | `Spec => []ReceiverSurvivesFirstLaunch` | `SurvivalInv`: during the first launch the client's requests have id 1, every call has an id of at least 2 because the launch announcement has been stored before any callback runs, so no call can remove the entry with key 1 that `Forget` deletes |
| `HarmonyRpc_proofs!ImplementsFifo` | `Spec => MenuRequestsFifo` | `OrderInv`: along socket, receive thread and callback queue the menu requests under way stand in the order they were made, each once, and all after the executed ones; every step is then a post, a loss, an execution or a stutter of `LossyFifo` |
| `HarmonyRpc_proofs!CallsNotCopied` | `Spec => []OneCopyPerCall` | `CopyInv`: a call has one copy in the two directions of the socket and the threads' hands, or none once its reply is in the queue; only menu requests are echoed |
| `HarmonyRpc_proofs!RepliesInOrder` | `Spec => []OrderlyReply` | `QuietInv`: a user who waits has at most one menu request pending, and none during a call; `ReplyInv`, on top of `CopyInv` and `OrderInv`: until a reply is peeked, the only call under way anywhere is the one `send` waits for |
| `TVPaintRpc_proofs!TypeCorrect` | `Spec => []TypeOK` | one step per action; uses `RoutesAssumption` |
| `TVPaintRpc_proofs!NoCyclicWaitWhenPolite` | `Spec => []PoliteNoCyclicWait` | `PoliteInv`: `RequestInv` ties a request under way to the item or script that made it, `OneThingInv` says that a polite user has at most one thing under way; a waiting route's item makes no request |
| `TVPaintRpc_proofs!ImplementsFifo` | `Spec => ClicksFifo` | the clicks in the socket and in the queue of items stand in the order they were pressed, each once, after those executed |
| `Database_proofs!TypeCorrect` | `Spec => []TypeOK` | one step per action |
| `Database_proofs!ClientNeverLeftClosed` | `Spec => []NeverLeftClosed` | a strengthening that says whose program counter is between close and drop |
| `Database_proofs!CalmConnections` | `Spec => []CalmConsistent` | `CalmInv`: while calm there is one active thread; between operations the shared state is settled, and during one it has the shape of its program counter |
| `AssetFetch_proofs!TypeCorrect` | `Spec => []TypeOK` | one step per action; no fetch without a project |
| `AssetFetch_proofs!RowsCurrent` | `Spec => [](RowsOfProject /\ RunningThreadReferenced)` | `CurrentInv`: payload, what the thread holds and rows are of the session's project, except between a change of the session and the next fetch (`behind`), which only begins when no thread runs |
| `AssetFetch_proofs!ToolFilled` | `Spec => []ToolShowsAssets` | `PhaseInv`: in a tool on one project, thread, queued signal and rows are three phases of one fetch |
| `AssetFetch_proofs!SelectionIsKept` | `Spec => []SelectionKept` | `ChoiceInv`: while a refresh loads, what was stored is the selection there was, and the rows that come have it |
| `LoaderDetails_proofs!TypeCorrect` | `Spec => []TypeOK` | one step per action; a selection has a current row, which is what makes restoring it well typed |
| `LoaderDetails_proofs!RowsCurrent` | `Spec => []RowsOfAssets` | `FetchInv`: outside `set_assets` the payload, what the thread holds and the rows are of the ids; inside there are no rows |
| `LoaderDetails_proofs!RestIsShown` | `Spec => []RestShowsSelection` | `ShowInv`: the ids are those of the selection, or a job that will follow it is due, or one was dropped; what a running thread, a payload or a signal holds is of the ids |
| `LoaderDetails_proofs!WindowKept` | `DetailsSpec => [](RowsOfAssets /\ RestShowsSelection)` | each step of the detailed Loader is a step of the window or leaves what its invariants read |
| `LoaderDetails_proofs!PictureAgrees` | `DetailsSpec => []PictureMatches` | `PictureInv` (the property and the record's shape): the early return of `set_thumbnail` is taken only when id and picture agree already |
| `LoaderDetails_proofs!ChosenIsLoaded` | `DetailsSpec => []ChosenLoadsAll` | `MenuInv`: what an open menu offers has a representation for each item it was opened on, up to letters (`MenuServes`), unless the database changed |
| `LoaderDetails_proofs!DetailsAreShown` | `DetailsSpec => []DetailsFollow` | `FollowInv`: list, text and remembered id are those of what was marked when they were set, and whatever changes the marks, the versions or the selection schedules a job or sets `stale` |
| `Hosts_proofs!TypeCorrect` | `Spec => []TypeOK` | one step per action |
| `Hosts_proofs!PressesAreKept` | `Spec => []PressesKept` | `EarlyInv`: nothing is accepted or shown before the main thread listens, and only the press in hand when it began can go to a queue that was replaced; then the queue grows and shrinks at its two ends |
| `Hosts_proofs!PanelImplementsFifo` | `Spec => PressesFifo` | `OrderInv`: presses waiting in the panel, on their way and queued each stand in the order they were made, those queued before the others, and only one of the panel's two places is used at a time |
| `Hosts_proofs!AnswersAreOwn` | `Spec => []AnswerOwn` | `WireInv`: a call, a script or an answer of the open connection that has the id of the latest call has its number too; what belongs to an earlier connection reaches nobody |
| `Scenes_proofs!TypeCorrect` | `Spec => []TypeOK` | one step per action |
| `Scenes_proofs!WorkFilesOwn` | `Spec => []OwnScene` | `SceneInv`: `AppInv`, `WatcherInv` and `WaitInv` say which scenes the application and messages may be about, and that Harmony's main thread waits for its one run; then by work file (`Files(w)`): as long as it is not `mixed`, its directory and archive hold its own scenes, at most one run is on it, and that run moves to it |
| `Scenes_proofs!PromisesKept` | `Spec => []RestSaved` | `SettledInv` = `SceneInv`, `Timely` (no time is later than now) and, by work file, `RestOf(w)` = `Kept(w)`, `Promised(w)`: as long as it is not excepted, what is due to a work file is in it or in the archive of a run, or its directory holds it and a message or a step of the main thread will have it archived |
| `Scenes_proofs!DirectoriesKept` | `Spec => LocalKept` | the same invariant, of which `Kept(w)` says that a directory older than its work file holds no later scene, which is what comparing modification times relies on |
| `MayaHost_proofs!TypeCorrect` | `MayaSpec => []TypeOK` | one lemma per part of the state, over all steps of tool and host; the file list has a root wherever a file can be opened or saved |
| `MayaHost_proofs!MenuFollows` | `MayaSpec => []HostFollows` | `HostInv`: a tool is open only while Avalon is installed, then Maya listens, and no reload is under way; so no context is entered unheard |
| `MayaHost_proofs!ContextKept` | `MayaSpec => ReinstallKeeps` | environment and session agree (`SessionTypes`), so that reading the one changes nothing; callbacks that are there are remembered until a reload (`CalledOnce`) |
| `MayaHost_proofs!ListsSettle` | `MayaSpec => []SettledListShows` | `TimerInv`: without a pending timer the lists agree with the selection; `RowInv`: what is listed lies in the list's root |
| `MayaHost_proofs!NamesAreFree` | `MayaSpec => []NameFree` | a write by others outdates the dialog and the tool's own writes close it; `NextBeyond`: the next version is beyond every version there is, since a set of numbers that is not empty has a least element (`LeastExists`, from the well-foundedness of the order) |
| `MayaHost_proofs!ScenesAreInSession` | `MayaSpec => SceneInSession` | `ContextNamed`: until a timer runs, a dialog for a name has the context of the file list, which is the one that is entered; `EnterIs`, `PickIs`: what entering gives |
| `Database_proofs!InventoryTypes` | `InventorySpec => []InventoryInv` | `InventoryTypeOK`; `SaveInv`: what a save holds at each of its steps; `DialogInv`: the parent the dialog keeps is an asset |
| `Database_proofs!NamesAreUnique` | `InventorySpec => []CalmNamesUnique` | `NameInv`: the names are distinct, and a name that somebody found free and has not inserted yet is still free, because whoever inserts it first sets `raced` |
| `Database_proofs!RoundTripHolds` | `InventorySpec => []RoundTrip` | `LoadInv`, on top of `NameInv`: while a load counts, the files' entries are those of the assets, and a running save finds each of them by its name and writes what is there |
| `Database_proofs!SavesAreComplete` | `InventorySpec => []SavedAll` | `AllSaved`: from the replaced project document on, every entry is still to do, missing, pending or saved |
| `Scenes_proofs!SceneInventoryTypes` | `SceneSpec => []SceneTypeOK` | `WindowInv` = types, `MenuInv` (a menu is over some rows, and a command that ran is forgotten before the next) and the three invariants below |
| `Scenes_proofs!ListShowsScene` | `SceneSpec => []ViewShowsScene` | `ViewInv`: outside a command the list is the scene's, until the host changes it or an exception keeps it from being refreshed; in the hierarchy view, a container that cannot be found hides others only below a topmost one that is reported (`Topmost`) |
| `Scenes_proofs!UpdateReachesLatest` | `SceneSpec => []LatestReached` | `LatestInv`: the items an update is done with are at the latest version while nothing was published |
| `Scenes_proofs!FullChoiceIsEnough` | `SceneSpec => []FullChoiceResolves` | `DialogInv`: the dialog knows every item, and a full choice stands for a representation of the latest version of a subset that exists (`FullChoice`) |
| `Hosts_proofs!StoredIsRead` | what `Store` writes `Records` returns | the text of a list is cut into chunks and put together again: as many chunk keys are read as were written (`Ceiling`), every position of the text lies in one chunk (`Quotient`), and the text holds every record (`Listing`) |
| `Hosts_proofs!ReadyFormMatches` | `StagingSpec => []ReadyMatches` | `FormInv`: the form is filled with a family it lists, and every edit that can change the name disables the button until the timer fires |
| `Hosts_proofs!RecordsAreKept` | `StagingSpec => Kept` | `StagingInv` = types, `PlanInv` (the rest of a plan is a suffix of one the code makes), `ReadInv`: while its document stays active, what an operation has read is what is stored, and the ids it keeps are those of all layers; then a write changes what `Written` changes (`WrittenList`), and TVPaint's chunks by `StoredIsRead` |
| `Hosts_proofs!ShownRecordsAreStored` | `StagingSpec => []ShownIsStored` | `ManagerInv`: rows and what a refresh has read are records of their document, but while one of them is removed (`RowsHold`, `ListHolds`); only TVPaint has the Manager beside an operation (`Apart`), and its new records have numbers no other has (`Numbered`, `NewNumber`).  `IconInv`: icons and records agree except for the layer in between (`Between`: made but not recorded, or dropped but still marked), an exception then ends `calm` (`Remembered`), and a new layer has the next free number and no icon (`IconsMade`) |

All theorems hold for every value of the constants that meets the named
assumptions (`BoundsAssumption`, `LengthAssumption`, `RoutesAssumption`,
`PicturesAssumption`, `PanelAssumption`, `SceneAssumption`, ...).  The type
invariants that are proved are not checked again by a run.  Five assumptions
are more than types:

- `ToolAssumption`: a container is not nested in itself, over any number of
  steps (`Parent` has no cycle): Maya's containers are sets of a scene, and
  collecting what is nested in the picked ones would not end otherwise.
- `NoneAssumption`: `None` is no document, file or user.
- `DatabasesAssumption`: a database somebody starts with has no two assets of one
  name, without which `CalmNamesUnique` and `RoundTrip` would not hold at first.
- `SubsetsAssumption`: the versions there are at first do not exceed the bound
  on versions.
- `StagingAssumption`: the text of a section with one record more for each act
  fits into the chunk keys there are.  The code has no bound on chunks;
  `MaxChunks` only makes the keys a finite set.

With these, every safety property and every action property that a passing run
checks is a theorem.  What stays with TLC: liveness under fairness
(`MenuServed`, `WaitersServed`, `LoadingEnds`, `PythonEnds`) and anything about
ENABLED.  The claims listed above that the code does not keep are refuted
by TLC and need no proof.

The models avoid what the provers know nothing of.  `LossyFifo` has a set of
requests under way instead of a sequence selected from the messages, and
`Workfiles` a set of files with the last modified one of each directory instead
of a sequence in the order of modification.  `Picked`, the records of a list at
some positions, is a recursive function on its length where one would write
`SelectSeq`; what the proofs need of it (its elements are those of the list at
these positions) `Picking` proves, by looking at the first length where it would
fail (`LeastExists`, `Counting`), since the library's induction theorems cannot
be used. The choices the code makes by searching (the next version, the only
entity) are `CHOOSE`s whose witness a lemma provides.

## What is not modelled

`PROJECT.json` gives the reason per component.  In short:

- Nuke, Houdini, Blender, Fusion and Unreal: a few calls of a scripting API that
  is not in the repository.  (Blender's `ops.py` keeps Qt windows from updating
  while a file is opened; if opening fails it is never told so.)
- Maya's scene lock, creator, headless mode and code for old versions.
- Painting, filtering and sorting of views; the command line; file formats.
- Plug-in discovery, application actions, and the retries of `auto_reconnect`:
  whether the first attempt of an operation reached the server is known to
  neither side, and nothing in the code tells a repeated insert from a new one.
- Transfers between sites: the Scene Inventory's "Download" and "Upload" and the
  progress shown by the Loader are modelled, the synchronisation is external.
- Style sheets and their generated resources, and vendored libraries; the
  panel's `wsrpc.js` is modelled as far as connections and calls go.

## What could come next

A crash of the process between the steps of `zip_and_move` and of `save`; the
hosts that are left out.
