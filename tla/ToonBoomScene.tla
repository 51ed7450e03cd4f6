---------------------------- MODULE ToonBoomScene ----------------------------
(***************************************************************************)
(* Scene files of Toon Boom Harmony (harmony/lib.py, harmony/workio.py)    *)
(* and Storyboard Pro (toonboom/, storyboardpro/).  A scene is a local     *)
(* directory, its work file a zip of that directory.  Opening compares     *)
(* modification times and replaces the directory or keeps it; saving in    *)
(* the application only writes the directory, and the integration zips it  *)
(* and moves the archive over the work file: at once in Harmony, in        *)
(* threads, told by a file watcher, in Storyboard Pro.  Work files have    *)
(* different names here, and are identified with their directories.        *)
(***************************************************************************)
EXTENDS Integers, Sequences, FiniteSets

CONSTANTS
  Works,   \* work files
  Temp,    \* temp.zip, which comes with the integration
  MaxNow   \* bound: writes of a scene, an archive or a directory

ASSUME SceneAssumption == Temp \in Works /\ MaxNow \in Nat

VARIABLES
  host,      \* the application
  now,       \* the clock: each write has a time of its own
  local,     \* local directories: the scene and the time of the scene file
  zip,       \* work files: the scene, their time, and whether they are whole
  archive,   \* archives being made beside the directories
  zips,      \* runs of zip_and_move, in threads or in the main thread
  app,       \* the application: its scene, its script and the file watcher
  wire,      \* messages of the script not received yet
  queue,     \* callback_queue: scenes that changed
  workfile,  \* workfile_path
  main,      \* what the main thread does
  saveDisabled,
  due,       \* history: the scene last promised to each work file
  mixed,     \* history: work files that may have got another scene, or half of one
  behind     \* history: work files and directories that raced with a save of theirs

fileVars == <<now, local, zip, archive>>
pythonVars == <<queue, workfile, main, saveDisabled>>
vars == <<host, fileVars, zips, app, wire, pythonVars, due, mixed, behind>>

\* A scene is known by its directory and the time it was saved.
NoDir == [c |-> [of |-> Temp, v |-> 0], t |-> 0]
NoArchive == [c |-> [of |-> Temp, v |-> 0], t |-> 0, whole |-> FALSE]
Idle == [what |-> "idle", step |-> "none", w |-> Temp, locked |-> FALSE]
\* Harmony runs its script by itself when a scene is opened.
Launched(w) ==
  [w |-> w, open |-> TRUE, script |-> host = "harmony", flag |-> TRUE, signal |-> FALSE]

\* Directories of earlier sessions may hold scenes that were never zipped.
Init ==
  /\ host \in {"harmony", "storyboardpro"} /\ now = 3
  /\ zip = [w \in Works |-> [c |-> [of |-> w, v |-> 1], t |-> 2, whole |-> TRUE]]
  /\ \E kept \in SUBSET (Works \ {Temp}) :
       local = [w \in Works |->
         IF w = Temp THEN [c |-> [of |-> w, v |-> 1], t |-> 3]
         ELSE IF w \in kept THEN [c |-> [of |-> w, v |-> 3], t |-> 3] ELSE NoDir]
  /\ archive = [w \in Works |-> NoArchive] /\ zips = {}
  /\ app = Launched(Temp) /\ wire = <<>> /\ queue = <<>> /\ workfile = Temp /\ main = Idle
  /\ saveDisabled = FALSE /\ due = [w \in Works |-> 0] /\ mixed = {} /\ behind = {}

Tick == now < MaxNow /\ now' = now + 1
WriteScene(w) ==
  /\ Tick
  /\ local' = [local EXCEPT ![w] = [c |-> [of |-> w, v |-> now + 1], t |-> now + 1]]

\* A directory is saved while it is archived or replaced: the save may be in no
\* archive that looks newer.
Archiving(w) == \E z \in zips : z.src = w /\ z.step = "archive"
RacingSave ==
  behind' = behind \cup
    IF Archiving(app.w) \/ (main.what = "open" /\ main.w = app.w) THEN {app.w} ELSE {}

-----------------------------------------------------------------------------
(* The application and the server's thread.                                *)

UserSave ==
  /\ app.open /\ WriteScene(app.w) /\ RacingSave
  /\ app' = [app EXCEPT !.signal = host = "storyboardpro" /\ app.script]
  /\ UNCHANGED <<host, zip, archive, zips, wire, pythonVars, due, mixed>>

CloseApplication ==
  /\ app.open /\ app' = [app EXCEPT !.open = FALSE, !.script = FALSE, !.signal = FALSE]
  /\ UNCHANGED <<host, fileVars, zips, wire, pythonVars, due, mixed, behind>>

\* The user runs Storyboard Pro's script: it connects and watches the file.
RunScript ==
  /\ app.open /\ ~app.script /\ app' = [app EXCEPT !.script = TRUE]
  /\ UNCHANGED <<host, fileVars, zips, wire, pythonVars, due, mixed, behind>>

\* app.on_file_changed.
Notify ==
  /\ app.signal /\ app' = [app EXCEPT !.signal = FALSE]
  /\ wire' = IF app.flag THEN Append(wire, app.w) ELSE wire
  /\ UNCHANGED <<host, fileVars, zips, pythonVars, due, mixed, behind>>

\* Server.receive and process_request.
Receive ==
  /\ wire # <<>> /\ wire' = Tail(wire) /\ queue' = Append(queue, Head(wire))
  /\ due' = [due EXCEPT ![Head(wire)] = local[Head(wire)].c.v]
  /\ UNCHANGED <<host, fileVars, zips, app, workfile, main, saveDisabled, mixed, behind>>

\* Other users write a work file.
OthersWrite ==
  /\ Tick
  /\ \E w \in Works \ {Temp} :
       /\ \A z \in zips : z.step = "copy" => z.dest # w
       /\ zip' = [zip EXCEPT ![w] = [c |-> [of |-> w, v |-> now + 1], t |-> now + 1, whole |-> TRUE]]
  /\ UNCHANGED <<host, local, archive, zips, app, wire, pythonVars, due, mixed, behind>>

-----------------------------------------------------------------------------
(* zip_and_move.  Two runs for one directory write the same archive; all    *)
(* share the process's working directory.                                  *)

Run(w, dest, threaded) == [src |-> w, dest |-> dest, step |-> "archive", threaded |-> threaded]
Opened(w) == [c |-> local[w].c, t |-> 0, whole |-> FALSE]
\* Runs only race in Storyboard Pro's threads.
Contended(w) == host = "storyboardpro" /\ \E z \in zips : z.src = w
Zip(w, dest, threaded) ==
  /\ zips' = zips \cup {Run(w, dest, threaded)}
  /\ archive' = [archive EXCEPT ![w] = Opened(w)]
  /\ mixed' = mixed \cup IF Contended(w) THEN {w} ELSE {}

Go(z, step) == zips' = (zips \ {z}) \cup {[z EXCEPT !.step = step]}

MakeArchive(z) ==
  /\ z.step = "archive" /\ Tick /\ Go(z, "move")
  /\ archive' = [archive EXCEPT ![z.src] =
                   [c |-> @.c, t |-> now + 1, whole |-> \A y \in zips \ {z} : y.src # z.src]]
  /\ UNCHANGED <<local, zip, main, mixed, behind>>

\* os.chdir and make_archive move the process elsewhere: a run takes the files
\* of another one.
TakeOthers(z) ==
  /\ z.step = "archive"
  /\ \E y \in zips : /\ y.step = "archive" /\ y.src # z.src
                     /\ archive' = [archive EXCEPT ![z.src].c = local[y.src].c]
  /\ mixed' = mixed \cup {z.src}
  /\ UNCHANGED <<now, local, zip, zips, main, behind>>

Incomplete(w) == [c |-> zip[w].c, t |-> zip[w].t, whole |-> FALSE]

\* (Mutant: the run looks up the work file when its archive is made.)
MoveToCurrent(z) ==
  /\ z.step = "move" /\ archive[z.src] # NoArchive
  /\ zips' = (zips \ {z}) \cup {[z EXCEPT !.step = "copy", !.dest = workfile]}
  /\ zip' = [zip EXCEPT ![workfile] = Incomplete(workfile)]
  /\ UNCHANGED <<now, local, archive, main, mixed, behind>>
\* shutil.move: the work file is incomplete until its copy is done.
BeginMove(z) ==
  /\ z.step = "move" /\ archive[z.src] # NoArchive /\ Go(z, "copy")
  /\ zip' = [zip EXCEPT ![z.dest] = Incomplete(z.dest)]
  /\ UNCHANGED <<now, local, archive, main, mixed, behind>>
EndMove(z) ==
  /\ z.step = "copy" /\ zips' = zips \ {z}
  /\ zip' = [zip EXCEPT ![z.dest] = archive[z.src]]
  /\ archive' = [archive EXCEPT ![z.src] = NoArchive]
  /\ UNCHANGED <<now, local, main, mixed, behind>>

\* The application is in another scene than its work file's, and the next save
\* will go there: a Save As has failed half-way.
Parted == IF app.w # workfile THEN {app.w, workfile} ELSE {}

\* A full disk, a lost drive, an archive that another run has moved away or that
\* is not where the process is by now.  In the main thread the exception ends
\* the caller, and its lock stays.
FailZip(z) ==
  /\ zips' = zips \ {z}
  /\ archive' = [archive EXCEPT ![z.src] = NoArchive]
  /\ main' = IF z.threaded THEN main ELSE Idle
  /\ mixed' = mixed \cup Parted \cup IF z.step = "copy" THEN {z.dest} ELSE {}
  /\ behind' = behind \cup {z.dest}
  /\ UNCHANGED <<now, local, zip>>

RunZip ==
  /\ \E z \in zips : MakeArchive(z) \/ TakeOthers(z) \/ BeginMove(z) \/ EndMove(z) \/ FailZip(z)
  /\ UNCHANGED <<host, app, wire, queue, workfile, saveDisabled, due>>

-----------------------------------------------------------------------------
(* The main thread: callbacks, tools and publishing.                       *)

At(what, step) == main.what = what /\ main.step = step
To(step) == main' = [main EXCEPT !.step = step]
Begin(what, step, w, locked) ==
  main = Idle /\ main' = [what |-> what, step |-> step, w |-> w, locked |-> locked]

\* The message is about the scene that changed, the work file is whatever is
\* open by now.
OnFileChanged ==
  LET w == Head(queue) IN
  /\ main = Idle /\ queue # <<>> /\ queue' = Tail(queue)
  /\ IF local[w] = NoDir THEN UNCHANGED <<zips, archive, mixed>>   \* the thread raises
     ELSE /\ zips' = zips \cup {Run(w, workfile, TRUE)}
          /\ archive' = [archive EXCEPT ![w] = Opened(w)]
          /\ mixed' = mixed \cup (IF w # workfile THEN {w, workfile} ELSE {})
                            \cup (IF Contended(w) THEN {w} ELSE {})
  /\ UNCHANGED <<host, now, local, zip, app, wire, workfile, main, saveDisabled, due, behind>>

\* send raises, its reply has no result, or the server's thread takes the reply
\* away before send has seen it and the main thread waits for ever.  The
\* application may have done what it was told: it has, from "zip" on.
Unanswered == main' = Idle \/ (host = "storyboardpro" /\ To("hung"))
CallFails ==
  /\ main.what = "save" /\ main.step \in {"save", "zip", "enable"} /\ Unanswered
  /\ UNCHANGED <<host, fileVars, zips, app, wire, queue, workfile, saveDisabled, due, mixed, behind>>

BeginSaveScene ==
  /\ app.script /\ Begin("save", "save", app.w, FALSE)
  /\ UNCHANGED <<host, fileVars, zips, app, wire, queue, workfile, saveDisabled, due, mixed, behind>>
\* The watcher's messages are off while scene.saveAll writes the file.
SaveAll ==
  /\ At("save", "save") /\ app.open /\ WriteScene(app.w) /\ RacingSave /\ To("zip")
  /\ app' = [app EXCEPT !.flag = FALSE, !.signal = host = "storyboardpro"]
  /\ UNCHANGED <<host, zip, archive, zips, wire, queue, workfile, saveDisabled, due, mixed>>
Replied == due' = [due EXCEPT ![main.w] = local[main.w].c.v]
\* (Mutant: saving does not zip: the watcher, which is off, shall do it.)
SkipZip ==
  /\ At("save", "zip") /\ Replied /\ To("enable")
  /\ UNCHANGED <<host, fileVars, zips, app, wire, queue, workfile, saveDisabled, mixed, behind>>
ZipSaved ==
  /\ At("save", "zip") /\ Replied /\ Zip(main.w, workfile, host = "storyboardpro")
  /\ To(IF host = "harmony" THEN "wait" ELSE "enable")
  /\ UNCHANGED <<host, now, local, zip, app, wire, queue, workfile, saveDisabled, behind>>
Waited == \A z \in zips : z.threaded
ZippedSaved ==
  /\ At("save", "wait") /\ Waited /\ To("enable")
  /\ UNCHANGED <<host, fileVars, zips, app, wire, queue, workfile, saveDisabled, due, mixed, behind>>
EnableWatcher ==
  /\ At("save", "enable") /\ app.open /\ Unanswered
  /\ app' = [app EXCEPT !.flag = TRUE]
  /\ UNCHANGED <<host, fileVars, zips, wire, queue, workfile, saveDisabled, due, mixed, behind>>

\* workio.save_file, which locks, and save_scene_as.  Storyboard Pro's
\* save_file passes one argument too many and raises.
BeginSaveAs ==
  /\ host = "harmony"
  /\ \E w \in Works \ {Temp}, locked \in BOOLEAN :
       /\ locked => ~saveDisabled
       /\ saveDisabled' = (saveDisabled \/ locked)
       /\ Begin("saveas", "clear", w, locked)
  /\ UNCHANGED <<host, fileVars, zips, app, wire, queue, workfile, due, mixed, behind>>
ClearDirectory ==
  /\ At("saveas", "clear")
  /\ \/ local' = [local EXCEPT ![main.w] = NoDir] /\ To("save")
     \/ local[main.w] # NoDir /\ local' = local /\ main' = Idle
  /\ UNCHANGED <<host, now, zip, archive, zips, app, wire, queue, workfile, saveDisabled, due, mixed, behind>>
SceneSaveAs ==
  /\ At("saveas", "save") /\ app.open /\ WriteScene(main.w) /\ To("zip")
  /\ app' = [app EXCEPT !.w = main.w]
  /\ UNCHANGED <<host, zip, archive, zips, wire, queue, workfile, saveDisabled, due, mixed, behind>>
ZipSavedAs ==
  /\ At("saveas", "zip") /\ Replied /\ Zip(main.w, main.w, FALSE) /\ To("wait")
  /\ UNCHANGED <<host, now, local, zip, app, wire, queue, workfile, saveDisabled, behind>>
\* The lock stays if the last call, which watches the new scene, raises.
EndSaveAs ==
  /\ At("saveas", "wait") /\ Waited /\ main' = Idle
  /\ workfile' = main.w
  /\ saveDisabled' \in {saveDisabled /\ ~main.locked, saveDisabled}
  /\ UNCHANGED <<host, fileVars, zips, app, wire, queue, due, mixed, behind>>
\* send raises, or its reply has no result: the lock stays, and from "zip" on the
\* application is in the new scene while workfile_path is the old work file.
SaveAsFails ==
  /\ main.what = "saveas" /\ main.step \in {"save", "zip"} /\ main' = Idle
  /\ mixed' = mixed \cup Parted
  /\ UNCHANGED <<host, fileVars, zips, app, wire, queue, workfile, saveDisabled, due, behind>>

BeginOpen ==
  /\ \E w \in Works \ {Temp} : Begin("open", "check", w, FALSE)
  /\ UNCHANGED <<host, fileVars, zips, app, wire, queue, workfile, saveDisabled, due, mixed, behind>>
\* (Mutant: the directory is always replaced.)
AlwaysOlder(w) == TRUE
Older(w) == local[w].t < zip[w].t
CheckLocal ==
  /\ At("open", "check")
  /\ \/ /\ local[main.w] = NoDir /\ To("extract") /\ UNCHANGED <<local, behind>>
     \/ /\ local[main.w] # NoDir /\ ~Older(main.w) /\ To("start") /\ UNCHANGED <<local, behind>>
     \/ /\ local[main.w] # NoDir /\ Older(main.w) /\ To("extract")
        /\ local' = [local EXCEPT ![main.w] = NoDir]
        /\ behind' = behind \cup IF \E z \in zips : z.src = main.w THEN {main.w} ELSE {}
     \/ /\ local[main.w] # NoDir /\ Older(main.w)  \* it cannot be deleted
        /\ main' = Idle /\ UNCHANGED <<local, behind>>
  /\ UNCHANGED <<host, now, zip, archive, zips, app, wire, queue, workfile, saveDisabled, due, mixed>>
\* A work file that is being moved is not a zip file yet.
Extract ==
  /\ At("open", "extract")
  /\ IF zip[main.w].whole
     THEN Tick /\ local' = [local EXCEPT ![main.w] = [c |-> zip[main.w].c, t |-> now + 1]] /\ To("start")
     ELSE now' = now /\ local' = local /\ main' = Idle
  /\ UNCHANGED <<host, zip, archive, zips, app, wire, queue, workfile, saveDisabled, due, mixed, behind>>
\* The application is killed and started again; callbacks stay queued.
StartApplication ==
  /\ At("open", "start") /\ main' = Idle
  /\ app' = Launched(main.w) /\ wire' = <<>> /\ workfile' = main.w
  /\ UNCHANGED <<host, fileVars, zips, queue, saveDisabled, due, mixed, behind>>
\* Killing an application that the user has closed may raise.
KillRaises ==
  /\ At("open", "start") /\ ~app.open /\ main' = Idle
  /\ UNCHANGED <<host, fileVars, zips, app, wire, queue, workfile, saveDisabled, due, mixed, behind>>

Main == \/ OnFileChanged
        \/ BeginSaveScene \/ SaveAll \/ ZipSaved \/ ZippedSaved \/ EnableWatcher \/ CallFails
        \/ BeginSaveAs \/ ClearDirectory \/ SceneSaveAs \/ ZipSavedAs \/ EndSaveAs \/ SaveAsFails
        \/ BeginOpen \/ CheckLocal \/ Extract \/ StartApplication \/ KillRaises

Next == UserSave \/ CloseApplication \/ RunScript \/ Notify \/ Receive \/ OthersWrite \/ RunZip \/ Main

Spec == Init /\ [][Next]_vars

-----------------------------------------------------------------------------
(* Types.                                                                  *)

SceneType == [of : Works, v : Nat]
DirType == [c : SceneType, t : Nat]
FileType == [c : SceneType, t : Nat, whole : BOOLEAN]
RunType ==
  [src : Works, dest : Works, step : {"archive", "move", "copy"}, threaded : BOOLEAN]
MainType ==
  [what : {"idle", "save", "saveas", "open"},
   step : {"none", "save", "zip", "wait", "enable", "hung", "clear", "check", "extract", "start"},
   w : Works, locked : BOOLEAN]
AppType == [w : Works, open : BOOLEAN, script : BOOLEAN, flag : BOOLEAN, signal : BOOLEAN]

FileTypeOK ==
  /\ now \in Nat /\ local \in [Works -> DirType]
  /\ zip \in [Works -> FileType] /\ archive \in [Works -> FileType]
  /\ zips \in SUBSET RunType

ControlTypeOK ==
  /\ host \in {"harmony", "storyboardpro"}
  /\ app \in AppType /\ wire \in Seq(Works) /\ queue \in Seq(Works)
  /\ workfile \in Works /\ main \in MainType /\ due \in [Works -> Nat]
  /\ saveDisabled \in BOOLEAN /\ mixed \subseteq Works /\ behind \subseteq Works

\* Every variable has its type: whatever is opened, saved or moved is the scene
\* of one of the work files.
TypeOK == FileTypeOK /\ ControlTypeOK

-----------------------------------------------------------------------------
(* Properties.  Some work files are excepted, never more than a race or a   *)
(* failure involves.  "mixed": two runs archive one directory at once, or   *)
(* one takes the files of the other; a message is handled when another     *)
(* work file is open; a Save As or a move fails half-way.  "behind": a      *)
(* scene is saved while it is archived or replaced, replaced while it is    *)
(* archived, or its archive fails.                                         *)

\* A work file holds a scene of its own directory, as a whole archive unless it
\* is being written right now: no run of zip_and_move, late as it may be, puts
\* one scene into another's work file or moves what another has only begun, and
\* what befalls one work file is carried to no other.
OwnScene ==
  \A w \in Works \ mixed :
    /\ zip[w].c.of = w
    /\ zip[w].whole \/ \E z \in zips : z.dest = w /\ z.step = "copy"

\* Once its runs have ended and its messages are handled, a work file holds a
\* scene at least as recent as the last one the integration was told of.
RestSaved ==
  \A w \in Works \ (mixed \cup behind) :
    (\A z \in zips : z.src # w) /\ (\A i \in DOMAIN queue : queue[i] # w) =>
      zip[w].c.v >= due[w]

\* Opening a work file deletes a local directory only if the work file holds a
\* scene at least as recent.
LocalKept ==
  [][\A w \in Works \ (mixed \cup behind) :
       main.what = "open" /\ local'[w] # local[w] /\ local'[w] = NoDir =>
         local[w].c.v <= zip[w].c.v]_vars
=============================================================================
