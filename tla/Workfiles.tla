----------------------------- MODULE Workfiles -----------------------------
(***************************************************************************)
(* The Work Files tool (tools/workfiles).  Clicks on assets and tasks take *)
(* effect through timers, of which a new one cancels the pending one of    *)
(* its channel.  Opening and saving ask the user in dialogs with an event  *)
(* loop of their own: timers fire while a dialog is open and change what   *)
(* the interrupted function reads when it goes on.                         *)
(***************************************************************************)
EXTENDS Session

CONSTANTS
  FirstFiles,   \* the work files at the start
  MaxVersion,   \* bound: versions of a work file
  MaxActs       \* bound: acts of the user, of others and of the host

ASSUME BoundsAssumption == MaxVersion \in Nat \ {0} /\ MaxActs \in Nat

\* A file lies in a directory; its name tells an asset, a task and a version.
Files == [dir : Dirs, asset : Assets, task : Tasks, version : 1..MaxVersion]

ASSUME FilesAssumption == FirstFiles \subseteq Files

VARIABLES
  disk,         \* the work files
  newest,       \* the last modified work file of a directory
  dirs,         \* directories that exist
  scene, dirty, \* the host's current file, and whether it has unsaved changes
  window,       \* is the window shown
  sel,          \* selected asset
  listed,       \* asset whose tasks are listed
  current, last,\* TasksWidget: current task, _last_selected_task
  job,          \* pending timer of channel "mongo": "asset", "task" or "none"
  pick,         \* pending timer of the default channel
  files,        \* FilesWidget: _asset, _task, root and whether it is enabled
  shown, top,   \* the listed files, and the last modified one of them
  row,          \* the current row
  dialog,       \* the open dialog, and what the function waiting for it holds
  skipped,      \* a click on a task cancelled the job of a click on an asset
  acts

diskVars == <<disk, newest, dirs>>
sceneVars == <<scene, dirty>>
pickerVars == <<sel, listed, current, last, skipped>>
listVars == <<files, shown, top, row, pick>>
vars == <<sessionVars, diskVars, sceneVars, window, pickerVars, job, listVars, dialog, acts>>

NoDialog == [kind |-> "none", path |-> None, context |-> None, dir |-> None, version |-> 1,
             auto |-> TRUE, free |-> FALSE, raced |-> FALSE, stale |-> FALSE]
NoFiles == [asset |-> None, task |-> None, root |-> None, enabled |-> FALSE]

In(dir) == {f \in disk : f.dir = dir}

\* No window was shown yet.
InitTool ==
  /\ disk = FirstFiles
  /\ newest \in [Dirs -> FirstFiles \cup {None}]
  /\ \A d \in Dirs : IF In(d) = {} THEN newest[d] = None ELSE newest[d] \in In(d)
  /\ scene = None /\ dirty = FALSE
  /\ window = FALSE /\ sel = None /\ listed = None /\ current = None /\ last = None
  /\ job = "none" /\ pick = FALSE /\ files = NoFiles /\ shown = {} /\ top = None /\ row = None
  /\ dialog = NoDialog /\ skipped = FALSE /\ acts = 0

Act == acts < MaxActs /\ acts' = acts + 1
Idle == window /\ dialog = NoDialog

Put(f) == disk' = disk \cup {f} /\ newest' = [newest EXCEPT ![f.dir] = f]
Write(f) == Put(f) /\ dirs' = dirs \cup {f.dir}
OnDisk(f) == f \in disk

\* The files on a disk that lie in a directory are listed, or none is.
List(dir, on, lastOf) == shown' = {f \in on : f.dir = dir} /\ top' = lastOf[dir]
ListNone == shown' = {} /\ top' = None

-----------------------------------------------------------------------------
\* show(): the window takes the context of the session.  The assets are fetched
\* by a thread; if they are not there yet, none is selected.
Show ==
  /\ Act /\ ~window /\ host # None /\ window' = TRUE
  /\ sel' \in {session.asset, None}
  /\ listed' = session.asset
  /\ current' = IF session.task \in TasksOf[session.asset] THEN session.task ELSE None
  /\ last' = None /\ skipped' = FALSE
  /\ job' = "task" /\ pick' = TRUE /\ files' = NoFiles /\ ListNone /\ row' = None
  /\ UNCHANGED <<sessionVars, diskVars, sceneVars, dialog>>

ClickAsset(a) ==
  /\ Act /\ Idle /\ a # sel /\ sel' = a /\ job' = "asset"
  /\ UNCHANGED <<sessionVars, diskVars, sceneVars, window, listed, current, last, skipped, listVars, dialog>>

ClickTask(t) ==
  /\ Act /\ Idle /\ sel # None /\ t # current /\ current' = t /\ job' = "task"
  /\ skipped' = (skipped \/ job = "asset")
  /\ UNCHANGED <<sessionVars, diskVars, sceneVars, window, sel, listed, last, listVars, dialog>>

Raced == dialog' = IF dialog = NoDialog THEN dialog ELSE [dialog EXCEPT !.raced = TRUE]

\* (Mutant: a task change is told only when a task was selected again.)
AssetJobQuiet ==
  /\ job = "asset"
  /\ last' = (IF current # None THEN current ELSE last)
  /\ listed' = sel /\ current' = IF last' \in TasksOf[sel] THEN last' ELSE None
  /\ job' = (IF current' # None THEN "task" ELSE "none") /\ skipped' = FALSE /\ Raced
  /\ UNCHANGED <<sessionVars, diskVars, sceneVars, window, sel, listVars, acts>>

\* _on_asset_changed and TasksWidget.set_asset: the last task is selected again.
AssetJob ==
  /\ job = "asset"
  /\ last' = (IF current # None THEN current ELSE last)
  /\ listed' = sel /\ current' = IF last' \in TasksOf[sel] THEN last' ELSE None
  /\ job' = "task" /\ skipped' = FALSE /\ Raced
  /\ UNCHANGED <<sessionVars, diskVars, sceneVars, window, sel, listVars, acts>>

\* FilesWidget.set_asset_task: without an asset and a task the list is empty,
\* and the root stays.  What raises leaves the root and the list as they were.
SetAssetTask(a, t, enabled) ==
  LET root == SessionFor(session, a, t).workdir
  IN /\ files' = [asset |-> a, task |-> t, enabled |-> enabled,
                  root |-> IF a = None \/ t = None \/ SessionRaises(session, a, t) THEN files.root ELSE root]
     /\ IF a = None \/ t = None THEN ListNone /\ row' = None
        ELSE IF SessionRaises(session, a, t) THEN UNCHANGED <<shown, top, row>>
        ELSE List(root, disk, newest) /\ row' = None

\* _on_task_changed
TaskJob ==
  /\ job = "task" /\ job' = "none" /\ Raced
  /\ SetAssetTask(sel, current, sel # None /\ current # None)
  /\ pick' = (pick \/ ~(sel # None /\ current # None /\ SessionRaises(session, sel, current)))
  /\ UNCHANGED <<sessionVars, diskVars, sceneVars, window, pickerVars, acts>>

\* _select_last_modified_file
PickTimer ==
  /\ pick /\ pick' = FALSE /\ row' = IF shown = {} THEN row ELSE top
  /\ UNCHANGED <<sessionVars, diskVars, sceneVars, window, pickerVars, job, files, shown, top, dialog, acts>>

ClickFile(f) ==
  /\ Act /\ Idle /\ files.enabled /\ f # row /\ row' = f
  /\ UNCHANGED <<sessionVars, diskVars, sceneVars, window, pickerVars, job, files, shown, top, pick, dialog>>

-----------------------------------------------------------------------------
(* Opening a file. *)

\* (Mutant: the session is entered only when the asset differs.)
EnterAsset ==
  IF files.asset = session.asset THEN UNCHANGED <<session, environ>> ELSE UpdateCurrentTask(files.asset, files.task)

\* _enter_session
EnterSession ==
  IF SessionFor(session, files.asset, files.task) = session THEN UNCHANGED <<session, environ>>
  ELSE UpdateCurrentTask(files.asset, files.task)

(***************************************************************************)
(* open_file after the prompt: enter the session of the file list, open,    *)
(* close the window.  The session may raise, and so may the host, which     *)
(* leaves the session entered.                                              *)
(***************************************************************************)
Open(path) ==
  /\ dialog' = NoDialog
  /\ IF SessionRaises(session, files.asset, files.task)
     THEN UNCHANGED <<session, environ, scene, window>>
     ELSE /\ EnterSession
          /\ \/ scene' = path /\ window' = FALSE
             \/ UNCHANGED <<scene, window>>
  /\ UNCHANGED <<place, host, config, connected, ran>>

\* open_file up to the prompt for unsaved changes.
OpenFile(path, raced) ==
  IF dirty
  THEN /\ dialog' = [NoDialog EXCEPT !.kind = "prompt", !.path = path, !.raced = raced]
       /\ UNCHANGED <<sessionVars, scene, window>>
  ELSE Open(path)

Untouched == UNCHANGED <<pickerVars, job, listVars>>

PressOpen ==
  /\ Act /\ Idle /\ files.enabled /\ row # None
  /\ OpenFile(row, FALSE) /\ Untouched /\ UNCHANGED <<diskVars, dirty>>

\* The file dialog shows any directory.
PressBrowse ==
  /\ Act /\ Idle /\ files.enabled /\ dialog' = [NoDialog EXCEPT !.kind = "browse"]
  /\ Untouched /\ UNCHANGED <<sessionVars, diskVars, sceneVars, window>>
Browse(f) ==
  /\ dialog.kind = "browse" /\ OpenFile(f, dialog.raced)
  /\ Untouched /\ UNCHANGED <<diskVars, dirty, acts>>

\* "Yes" saves the current file first, if there is one; "No" goes on as well.
AnswerYes ==
  /\ dialog.kind = "prompt"
  /\ IF scene = None
     THEN dialog' = NoDialog /\ UNCHANGED <<sessionVars, diskVars, sceneVars, window>>
     ELSE Write(scene) /\ dirty' = FALSE /\ Open(dialog.path)
  /\ Untouched /\ UNCHANGED acts
AnswerNo ==
  /\ dialog.kind = "prompt" /\ Open(dialog.path)
  /\ dirty' = (dirty /\ window') /\ Untouched /\ UNCHANGED <<diskVars, acts>>
Cancel ==
  /\ dialog # NoDialog /\ dialog' = NoDialog
  /\ Untouched /\ UNCHANGED <<sessionVars, diskVars, sceneVars, window, acts>>

-----------------------------------------------------------------------------
(* Saving under a new name, and duplicating a file: NameWindow. *)

FileOf(d) == [dir |-> d.dir, asset |-> d.context.asset, task |-> d.context.task, version |-> d.version]
Named(dir, ctx) == {f \in In(dir) : f.asset = ctx.asset /\ f.task = ctx.task}

\* (Mutant: the number of files instead of the highest version.)
NextCount(dir, ctx) == Cardinality(Named(dir, ctx)) + 1

\* last_workfile_with_version + 1
NextVersion(dir, ctx) ==
  CHOOSE n \in 1..MaxVersion + 1 :
    /\ \A f \in Named(dir, ctx) : f.version < n
    /\ n > 1 => \E f \in Named(dir, ctx) : f.version = n - 1

\* NameWindow.refresh: the version, and whether its file is free.
Checked(d) ==
  LET e == IF d.auto THEN [d EXCEPT !.version = NextVersion(d.dir, d.context)] ELSE d
  IN [e EXCEPT !.free = ~OnDisk(FileOf(e)), !.stale = FALSE]

\* get_filename, for "Save As" and for "Duplicate" of the row under the pointer.
PressName(kind) ==
  /\ Act /\ Idle /\ files.enabled /\ ~SessionRaises(session, files.asset, files.task)
  /\ kind = "duplicate" => row # None
  /\ NextVersion(files.root, SessionFor(session, files.asset, files.task)) <= MaxVersion
  /\ dialog' = Checked([NoDialog EXCEPT !.kind = kind, !.dir = files.root,
                          !.context = SessionFor(session, files.asset, files.task)])
  /\ Untouched /\ UNCHANGED <<sessionVars, diskVars, sceneVars, window>>

NameDialog == dialog.kind \in {"save", "duplicate"}

\* Any edit in the dialog: another version, or the next available one again.
EditName ==
  /\ Act /\ NameDialog
  /\ \E auto \in BOOLEAN, v \in 1..MaxVersion :
       /\ auto => v = 1 /\ NextVersion(dialog.dir, dialog.context) <= MaxVersion
       /\ dialog' = Checked([dialog EXCEPT !.auto = auto, !.version = v])
  /\ Untouched /\ UNCHANGED <<sessionVars, diskVars, sceneVars, window>>

\* initialize_work_directory runs the application's own initialization, if the
\* application is known; it may make another directory than the root.
RootReady == files.root \in dirs'
InitializeWorkDir ==
  IF files.root \in dirs THEN dirs' = dirs ELSE dirs' \in {dirs, dirs \cup {files.root}}

\* The list is made anew, with the directory as it is now.
Relist(root) ==
  LET picked == files.asset # None /\ files.task # None
  IN /\ files' = [files EXCEPT !.root = IF picked THEN root ELSE @]
     /\ IF picked THEN List(root, disk', newest') ELSE ListNone
     /\ row' = None /\ pick' = TRUE

(***************************************************************************)
(* on_save_as_pressed after the dialog: everything but the name is read     *)
(* now.  Saving may raise, which leaves the session entered.                *)
(***************************************************************************)
OkSave ==
  LET file == [FileOf(dialog) EXCEPT !.dir = files.root]
      raises == SessionRaises(session, files.asset, files.task)
  IN /\ dialog.kind = "save" /\ dialog.free /\ dialog' = NoDialog
     /\ IF raises THEN UNCHANGED dirs ELSE InitializeWorkDir
     /\ IF ~RootReady \/ raises
        THEN UNCHANGED <<session, environ, disk, newest, scene, dirty, listVars>>
        ELSE /\ EnterSession
             /\ \/ /\ Put(file) /\ scene' = file /\ dirty' = FALSE /\ Relist(session'.workdir)
                \/ UNCHANGED <<disk, newest, scene, dirty, listVars>>
     /\ UNCHANGED <<place, host, config, connected, ran, window, pickerVars, job, acts>>

\* on_duplicate_pressed: the copy is of the row that is current now.
OkDuplicate ==
  LET file == [FileOf(dialog) EXCEPT !.dir = files.root]
  IN /\ dialog.kind = "duplicate" /\ dialog.free /\ dialog' = NoDialog
     /\ IF row = None \/ ~OnDisk(row) \/ files.root \notin dirs
        THEN UNCHANGED <<disk, newest, listVars>>
        ELSE Put(file) /\ Relist(files.root)
     /\ UNCHANGED <<sessionVars, dirs, sceneVars, window, pickerVars, job, acts>>

-----------------------------------------------------------------------------
\* Another user, or the host itself, writes a work file.
OthersWrite(f) ==
  /\ Act /\ Write(f)
  /\ dialog' = IF NameDialog THEN [dialog EXCEPT !.stale = TRUE] ELSE dialog
  /\ UNCHANGED <<sessionVars, sceneVars, window, pickerVars, job, listVars>>

HostEdits ==
  /\ Act /\ ~dirty /\ dirty' = TRUE
  /\ UNCHANGED <<sessionVars, diskVars, scene, window, pickerVars, job, listVars, dialog>>

AssetMoved ==
  /\ Act /\ \E a \in Assets : MoveAsset(a)
  /\ UNCHANGED <<diskVars, sceneVars, window, pickerVars, job, listVars, dialog>>

\* A host composes these steps with its own (MayaHost).
ToolNext ==
  \/ Show \/ AssetJob \/ TaskJob \/ PickTimer
  \/ \E a \in Assets : ClickAsset(a)
  \/ listed # None /\ \E t \in TasksOf[listed] : ClickTask(t)
  \/ \E f \in shown : ClickFile(f)
  \/ PressOpen \/ PressBrowse \/ (\E f \in disk : Browse(f))
  \/ AnswerYes \/ AnswerNo \/ Cancel
  \/ (\E kind \in {"save", "duplicate"} : PressName(kind)) \/ EditName \/ OkSave \/ OkDuplicate
  \/ (\E f \in Files : f.dir = WorkDir(f.asset, f.task) /\ OthersWrite(f))
  \/ HostEdits \/ AssetMoved

-----------------------------------------------------------------------------
\* The list was made where its asset still is.
FreshRoot == files.root = SessionFor(session, files.asset, files.task).workdir

\* A scene that is saved, or opened from the list, lies in the work directory of
\* the session that was entered for it, and that directory is the one of the
\* session's asset and task; a saved one is named after them.  Not so when a
\* timer fired while the dialog was open, or when the asset was moved.
SceneInSession ==
  [][scene' # scene /\ ~dialog.raced /\ FreshRoot /\ dialog.kind # "browse" /\ (dialog.kind = "prompt" => dialog.path \in shown)
     => /\ scene'.dir = session'.workdir
        /\ <<session'.workdir.asset, session'.workdir.task>> = <<session'.asset, session'.task>>
        /\ dialog.kind = "save" => <<scene'.asset, scene'.task>> = <<session'.asset, session'.task>>]_vars

\* The name the dialog lets the user accept is free in the directory it is made
\* for, and the next available version always is (the dialog asserts it), as
\* long as nobody writes a file after the last edit.
NameFree ==
  NameDialog /\ ~dialog.stale =>
    /\ dialog.free <=> ~OnDisk(FileOf(dialog))
    /\ dialog.auto => dialog.free

\* Once no timer is pending, the tasks listed are those of the selected asset
\* and the file list is that of the selected asset and task, unless a click on a
\* task cancelled the timer of a click on an asset.
SettledListShows ==
  window /\ job = "none" /\ ~skipped /\ sel # None =>
    /\ listed = sel /\ files.asset = sel /\ files.task = current
    /\ files.enabled <=> current # None
    /\ \A f \in shown : f.dir = files.root

\* "Make sure we are in the right session" (workfiles/app.py:622): a saved scene
\* is named after the asset and task of the session.
SavedUnderItsName ==
  [][scene' # scene /\ dialog.kind = "save" => <<scene'.asset, scene'.task>> = <<session'.asset, session'.task>>]_vars
=============================================================================
