------------------------------ MODULE MayaHost ------------------------------
(***************************************************************************)
(* Maya as the host of the session (maya/pipeline.py): its callbacks, its  *)
(* listener for "taskChanged", its workspace and the Avalon menu, which is *)
(* made when Maya is idle and tells the context.  Installing and           *)
(* uninstalling, reloading all modules from the menu, and the Work Files   *)
(* tool change what these have to follow.  Maya runs with its interface.   *)
(***************************************************************************)
EXTENDS Workfiles

VARIABLES
  callbacks,    \* how many times Maya calls back for one message, as a save
  known,        \* _events: the callbacks are remembered, to remove them
  listening,    \* _on_task_changed is in the registered event handlers
  workspace,    \* the project Maya is set to
  menu,         \* what the menu tells of the context, or None without a menu
  deferred,     \* menus to be made when Maya is idle
  reload,       \* reload_pipeline: the step it is at
  reloaded,     \* the modules were loaded again
  missed        \* a context was entered that had no work directory

mayaVars == <<callbacks, known, listening, workspace, menu, deferred, reload, reloaded, missed>>
eventVars == <<callbacks, known, listening>>
allVars == <<vars, mayaVars>>

Label(s) == <<s.asset, s.task>>

\* Maya was started for the session's context, and userSetup may have installed
\* Avalon: then Maya is about to make the menu.
MayaInit ==
  LET up == host # None
  IN /\ InitSession /\ InitTool
     /\ dirs = {f.dir : f \in disk} \cup (IF up THEN {session.workdir} ELSE {})
     /\ callbacks = (IF up THEN 1 ELSE 0) /\ known = up /\ listening = up
     /\ workspace = (IF up THEN session.workdir ELSE None) /\ menu = None
     /\ deferred = (IF up THEN 1 ELSE 0)
     /\ reload = "no" /\ reloaded = FALSE /\ missed = FALSE

-----------------------------------------------------------------------------
(* What avalon.maya.install does, step by step; each step may raise. *)

\* (Mutant: callbacks of an earlier installation are not removed.)
RegisterAgain == callbacks' = callbacks + 1 /\ known' = TRUE

\* _register_callbacks removes what it remembers of an earlier installation.
RegisterCallbacks == callbacks' = (IF known THEN callbacks ELSE callbacks + 1) /\ known' = TRUE

\* api.on: a set, so a listener is there once.
RegisterEvents == listening' = TRUE

\* _set_project makes the work directory.
SetProject(dir) == dirs' = dirs \cup {dir} /\ workspace' = dir /\ missed' = FALSE

\* _uninstall_menu
UninstallMenu == menu' = None

\* _install_menu replaces the menu; the new one is made when Maya is idle.
InstallMenu == UninstallMenu /\ deferred' = deferred + 1

HostInstall(stage) ==
  /\ IF stage >= 1 THEN RegisterCallbacks ELSE UNCHANGED <<callbacks, known>>
  /\ IF stage >= 2 THEN RegisterEvents ELSE UNCHANGED listening
  /\ IF stage >= 3 THEN SetProject(session'.workdir) ELSE UNCHANGED <<dirs, workspace, missed>>
  /\ IF stage >= 4 THEN InstallMenu ELSE UNCHANGED <<menu, deferred>>

\* api.install(avalon.maya).  When it gets beyond the host, all of that was done.
InstallMaya ==
  /\ \E step \in 0..Len(Steps) :
       /\ InstallThrough(step)
       /\ IF "host" \in Through(step) THEN HostInstall(4)
          ELSE IF "find_config" \in Through(step) THEN \E stage \in 0..3 : HostInstall(stage)
          ELSE UNCHANGED <<eventVars, dirs, workspace, missed, menu, deferred>>
  /\ UNCHANGED <<disk, newest, sceneVars, window, pickerVars, job, listVars, dialog, reloaded>>

\* api.uninstall(): the callbacks and the listener stay.
UninstallMaya ==
  /\ \/ UninstallMenu /\ \E failed \in {{}, {"config"}} : UninstallAll(failed)
     \/ UninstallMenu /\ UninstallPart({"config_host", "host"})
     \/ menu' = menu /\ \E undone \in {{}, {"config_host"}} : UninstallPart(undone)
  /\ UNCHANGED <<diskVars, sceneVars, window, pickerVars, job, listVars, dialog>>
  /\ UNCHANGED <<eventVars, workspace, deferred, reloaded, missed>>

Startup ==
  /\ Act /\ ~window /\ reload = "no"
  /\ InstallMaya \/ UninstallMaya
  /\ UNCHANGED reload

-----------------------------------------------------------------------------
(***************************************************************************)
(* "Reinstall Avalon".  An exception in any of its steps ends it; in Python *)
(* 3, which has no built-in reload, the first module raises.  A reloaded    *)
(* module has forgotten the callbacks Maya holds, and its listener, which   *)
(* only the module referred to, is gone from the set of handlers.           *)
(***************************************************************************)
ReloadPipeline ==
  /\ Act /\ ~window /\ reload = "no" /\ menu # None
  /\ UninstallMaya /\ reload' = IF config' = None THEN "modules" ELSE "no"

ReloadModules ==
  /\ reload = "modules"
  /\ \/ known' = FALSE /\ listening' = FALSE /\ reloaded' = TRUE /\ reload' \in {"install", "no"}
     \/ reload' = "no" /\ UNCHANGED <<known, listening, reloaded>>
  /\ UNCHANGED <<vars, callbacks, workspace, menu, deferred, missed>>

ReloadInstall ==
  /\ reload = "install" /\ reload' = "no" /\ InstallMaya /\ UNCHANGED acts

\* deferred(): the menu tells the session as it is now.  A menu of that name
\* cannot be made twice.
MakeMenu ==
  /\ deferred > 0 /\ reload = "no" /\ deferred' = deferred - 1
  /\ menu' = IF menu = None THEN Label(session) ELSE menu
  /\ UNCHANGED <<vars, eventVars, workspace, reload, reloaded, missed>>

-----------------------------------------------------------------------------
(* The Work Files tool enters a context: update_current_task emits.         *)

\* _update_menu_task_label
UpdateLabel(s) == menu' = IF menu = None THEN None ELSE Label(s)

\* (Mutant: the listeners are called before the session has changed.)
EmittedEarly ==
  /\ UpdateLabel(session) /\ workspace' = session.workdir /\ missed' = FALSE

\* _on_task_changed: the workspace follows if its directory exists.
OnTaskChanged ==
  /\ UpdateLabel(session')
  /\ IF session'.workdir \in dirs' THEN workspace' = session'.workdir /\ missed' = FALSE
     ELSE workspace' = workspace /\ missed' = TRUE

Work ==
  /\ ToolNext /\ reload = "no"
  /\ IF session' # session /\ listening THEN OnTaskChanged ELSE UNCHANGED <<menu, workspace, missed>>
  /\ UNCHANGED <<eventVars, deferred, reload, reloaded>>

MayaNext == Startup \/ ReloadPipeline \/ ReloadModules \/ ReloadInstall \/ MakeMenu \/ Work

MayaSpec == MayaInit /\ [][MayaNext]_allVars

-----------------------------------------------------------------------------
\* While Avalon is installed, its menu tells the asset and task of the session,
\* and Maya's workspace is the session's work directory unless the context was
\* entered before that directory was made: whatever was installed, uninstalled
\* or reloaded, and whatever context was entered before Maya made the menu.
HostFollows ==
  /\ menu # None => menu = Label(session)
  /\ host # None /\ ~missed => workspace = session.workdir

\* Installing and uninstalling in any order, with every exception on the way,
\* neither takes the process out of the context its user entered nor lets Maya
\* call back more than once for a message, as long as no module is reloaded.
ReinstallKeeps ==
  [][/\ connected' # connected => session' = session
     /\ callbacks' > 1 => reloaded]_allVars
=============================================================================
