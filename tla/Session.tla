------------------------------ MODULE Session ------------------------------
(***************************************************************************)
(* The session of a host process (pipeline.py, io.py): install and         *)
(* uninstall with everything they register, either of which may raise on   *)
(* its way, and the context (asset, task, work directory) that             *)
(* update_current_task keeps in api.Session and in the environment.        *)
(***************************************************************************)
EXTENDS Naturals, Sequences, FiniteSets

CONSTANTS
  Assets,       \* names of assets
  TasksOf,      \* the tasks of each asset
  None,         \* no asset, task, host, config, file or directory
  Gone          \* the place of an asset that was deleted

Tasks == UNION {TasksOf[a] : a \in Assets}
ASSUME AssetsAssumption == TasksOf \in [Assets -> SUBSET Tasks] /\ None \notin Assets \cup Tasks
ASSUME GoneAssumption == Gone \notin Nat

VARIABLES
  place,        \* where an asset is in the hierarchy of the project
  session,      \* context in api.Session: AVALON_ASSET, AVALON_TASK, AVALON_WORKDIR
  environ,      \* the same keys in os.environ
  host, config, \* registered host and config; None is the default host
  connected,    \* io._is_installed
  ran           \* install functions run and not undone

sessionVars == <<place, session, environ, host, config, connected, ran>>

\* The "work" template of the project, filled for a context.
WorkDir(a, t) == [asset |-> a, task |-> t, at |-> place[a]]
Dirs == [asset : Assets, task : Tasks, at : {0, 1}]
Contexts == [asset : Assets, task : Tasks, workdir : Dirs]

\* s after compute_session_changes: what is not given or not different stays,
\* and without a difference the work directory does too.
SessionFor(s, a, t) ==
  LET new == [s EXCEPT !.asset = IF a = None THEN @ ELSE a, !.task = IF t = None THEN @ ELSE t]
  IN IF new = s THEN s ELSE [new EXCEPT !.workdir = WorkDir(new.asset, new.task)]

\* The document of the asset, asked for to fill the template, is gone.
SessionRaises(s, a, t) == SessionFor(s, a, t) # s /\ place[SessionFor(s, a, t).asset] = Gone

\* update_current_task; what listens to taskChanged may raise, which is logged.
UpdateCurrentTask(a, t) == session' = SessionFor(session, a, t) /\ environ' = session'

\* The host was launched for a context, and may have installed Avalon already.
InitSession ==
  /\ place = [a \in Assets |-> 0]
  /\ session \in {[asset |-> a, task |-> t, workdir |-> WorkDir(a, t)] : a \in Assets, t \in Tasks}
  /\ session.task \in TasksOf[session.asset]
  /\ environ = session
  /\ \/ host = None /\ config = None /\ connected = FALSE /\ ran = {}
     \/ host = "host" /\ config = "config" /\ connected = TRUE /\ ran = {"host", "config_host", "config"}

(***************************************************************************)
(* install(host).  io.install reads the context from the environment unless *)
(* it is installed already.  Then each step may raise: the config is not    *)
(* found, a function raises, the host or the config lack what is required.  *)
(***************************************************************************)
Steps == <<"connect", "find_config", "host", "config_host", "register_host", "register_config", "config">>

\* io.install: without a connection the session takes the context of the environment.
Connect == IF connected THEN UNCHANGED <<session, connected>> ELSE session' = environ /\ connected' = TRUE

\* What install has done when it ends with its step number last.
Through(last) == {Steps[i] : i \in 1..last}

InstallThrough(last) ==
  LET done == Through(last)
  IN /\ IF "connect" \in done THEN Connect ELSE UNCHANGED <<session, connected>>
     /\ ran' = ran \cup (done \cap {"host", "config_host", "config"})
     /\ host' = IF "register_host" \in done THEN "host" ELSE host
     /\ config' = IF "register_config" \in done THEN "config" ELSE config
     /\ UNCHANGED <<place, environ>>

(***************************************************************************)
(* uninstall().  Without a registered config it raises at once, whatever a  *)
(* failed install left behind.  An uninstall function that raises ends it,  *)
(* except that an AttributeError of the host's or the config's, as when     *)
(* there is no such function, is ignored.                                   *)
(***************************************************************************)
\* Everything is deregistered; the functions in failed did nothing.
UninstallAll(failed) ==
  /\ config # None /\ ran' = ran \cap failed
  /\ host' = None /\ config' = None /\ connected' = FALSE
  /\ UNCHANGED <<place, session, environ>>

\* An exception ends it after the functions in undone.
UninstallPart(undone) ==
  /\ config # None /\ ran' = ran \ undone
  /\ UNCHANGED <<place, session, environ, host, config, connected>>

\* Someone else moves or deletes an asset.
MoveAsset(a) ==
  /\ place[a] = 0 /\ \E p \in {1, Gone} : place' = [place EXCEPT ![a] = p]
  /\ UNCHANGED <<session, environ, host, config, connected, ran>>
=============================================================================
