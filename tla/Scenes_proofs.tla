--------------------------- MODULE Scenes_proofs ----------------------------
(***************************************************************************)
(* Proofs about what becomes of an artist's scene: the work files of Toon  *)
(* Boom (ToonBoomScene), for any number of work files and of writes, and   *)
(* the Scene Inventory (SceneInventory), for any documents, containers and *)
(* loaders.                                                                *)
(***************************************************************************)
EXTENDS ToonBoomScene, SceneInventory, TLAPS

-----------------------------------------------------------------------------
(***************************************************************************)
(* ToonBoomScene: the types, that a work file only ever holds a scene of   *)
(* its own, that what was promised to it gets there, and that opening      *)
(* deletes no scene which the work file lacks.                             *)
(***************************************************************************)

-----------------------------------------------------------------------------
(* The inductive invariant.                                                *)

\* Harmony's script tells nothing of saves.
WatcherInv == host = "harmony" => wire = <<>> /\ queue = <<>> /\ ~app.signal

\* The work file is that of the scene in the application; but not yet while
\* the scene is being saved under another name, and no longer when that failed.
AppInv ==
  /\ main.what = "save" => main.w = app.w
  /\ main.what = "saveas" /\ main.step \in {"zip", "wait"} => app.w = main.w
  /\ \/ Parted \subseteq mixed
     \/ main.what = "saveas" /\ main.step \in {"zip", "wait"}

\* What is about to be zipped has been written.
ZipInv == main.step = "zip" => local[main.w] # NoDir

\* Harmony waits for its archive.
WaitInv ==
  host = "harmony" =>
    /\ zips = {} \/ (main.step = "wait" /\ \A z \in zips : ~z.threaded)
    /\ \A y, z \in zips : y = z

ControlInv == WatcherInv /\ AppInv /\ ZipInv /\ WaitInv

\* A directory holds a scene of its own; at most one run archives it, for its own
\* work file, and moves the archive only when it is whole.
Runs(w) == {z \in zips : z.src = w \/ z.dest = w}
LocalOwn(w) == local[w] = NoDir \/ local[w].c.of = w
OneRun(w) == \A y, z \in Runs(w) : y = z
RunOwn(w) ==
  \A z \in Runs(w) :
    /\ z.src = w /\ z.dest = w /\ archive[w].c.of = w
    /\ z.step # "archive" => archive[w].whole
Held(w) == zip[w].c.of = w /\ (zip[w].whole \/ \E z \in Runs(w) : z.dest = w /\ z.step = "copy")

Files(w) == LocalOwn(w) /\ OneRun(w) /\ RunOwn(w) /\ Held(w)
FilesInv == \A w \in Works \ mixed : Files(w)

SceneInv == TypeOK /\ ControlInv /\ FilesInv

-----------------------------------------------------------------------------
(* Records and functions.                                                  *)

Steps == {"none", "save", "zip", "wait", "enable", "hung", "clear", "check", "extract", "start"}
Whats == {"idle", "save", "saveas", "open"}

\* The main thread begins something, goes on to a step, or is done.
LEMMA MainParts ==
  /\ \A m \in MainType, step \in Steps :
       /\ [m EXCEPT !.step = step] \in MainType
       /\ [m EXCEPT !.step = step].step = step
       /\ [m EXCEPT !.step = step].what = m.what /\ [m EXCEPT !.step = step].w = m.w
  /\ \A what \in Whats, step \in Steps, w \in Works, locked \in BOOLEAN :
       [what |-> what, step |-> step, w |-> w, locked |-> locked] \in MainType
  /\ \A m \in MainType : m.w \in Works /\ m.locked \in BOOLEAN
  BY DEF MainType, Steps, Whats

\* The main thread that does nothing has its type.
LEMMA IdleParts ==
  Idle \in MainType /\ Idle.what = "idle" /\ Idle.step = "none" /\ Idle.w = Temp
  BY SceneAssumption DEF Idle, MainType

\* The application's scene, script, flag and signal.
LEMMA AppParts ==
  /\ \A a \in AppType, b \in BOOLEAN :
       /\ [a EXCEPT !.signal = b] \in AppType /\ [a EXCEPT !.signal = b].w = a.w
       /\ [a EXCEPT !.signal = b].signal = b
  /\ \A a \in AppType, b \in BOOLEAN :
       /\ [a EXCEPT !.flag = b] \in AppType /\ [a EXCEPT !.flag = b].w = a.w
       /\ [a EXCEPT !.flag = b].signal = a.signal
  /\ \A a \in AppType, b \in BOOLEAN :
       /\ [a EXCEPT !.script = b] \in AppType /\ [a EXCEPT !.script = b].w = a.w
       /\ [a EXCEPT !.script = b].signal = a.signal
  /\ \A a \in AppType, w \in Works :
       /\ [a EXCEPT !.w = w] \in AppType /\ [a EXCEPT !.w = w].w = w
       /\ [a EXCEPT !.w = w].signal = a.signal
  /\ \A a \in AppType : a.w \in Works
  BY DEF AppType

\* An application that is closed keeps its scene.
Shut(a) == [a EXCEPT !.open = FALSE, !.script = FALSE, !.signal = FALSE]
LEMMA ShutParts ==
  ASSUME NEW a \in AppType
  PROVE  Shut(a) \in AppType /\ Shut(a).w = a.w /\ ~Shut(a).signal
  BY DEF Shut, AppType

\* An application just launched has its type.
LEMMA LaunchedParts ==
  ASSUME NEW w \in Works
  PROVE  Launched(w) \in AppType /\ Launched(w).w = w /\ ~Launched(w).signal
  BY DEF Launched, AppType

\* Directories and archives.
LEMMA FileParts ==
  /\ \A c \in SceneType, t \in Nat : [c |-> c, t |-> t] \in DirType
  /\ \A c \in SceneType, t \in Nat, b \in BOOLEAN : [c |-> c, t |-> t, whole |-> b] \in FileType
  /\ \A w \in Works, v \in Nat : [of |-> w, v |-> v] \in SceneType
  /\ \A d \in DirType : d.c \in SceneType /\ d.t \in Nat
  /\ \A d \in FileType : d.c \in SceneType /\ d.t \in Nat /\ d.whole \in BOOLEAN
  /\ \A c \in SceneType : c.of \in Works
  BY DEF SceneType, DirType, FileType

\* Missing directories and archives have their types.
LEMMA NoneParts ==
  /\ NoDir \in DirType /\ NoDir.t = 0
  /\ NoArchive \in FileType /\ ~NoArchive.whole
  BY SceneAssumption DEF NoDir, NoArchive, SceneType, DirType, FileType

\* Runs of zip_and_move.
LEMMA RunParts ==
  /\ \A w, dest \in Works, b \in BOOLEAN :
       /\ Run(w, dest, b) \in RunType /\ Run(w, dest, b).src = w /\ Run(w, dest, b).dest = dest
       /\ Run(w, dest, b).step = "archive" /\ Run(w, dest, b).threaded = b
  /\ \A z \in RunType : z.src \in Works /\ z.dest \in Works
  /\ \A z \in RunType, step \in {"archive", "move", "copy"} :
       /\ [z EXCEPT !.step = step] \in RunType
       /\ [z EXCEPT !.step = step].src = z.src /\ [z EXCEPT !.step = step].dest = z.dest
       /\ [z EXCEPT !.step = step].step = step /\ [z EXCEPT !.step = step].threaded = z.threaded
  BY DEF Run, RunType

\* One directory or file is replaced.
LEMMA Replaced ==
  ASSUME NEW T, NEW f \in [Works -> T], NEW w \in Works, NEW x \in T
  PROVE  /\ [f EXCEPT ![w] = x] \in [Works -> T]
         /\ [f EXCEPT ![w] = x][w] = x
         /\ \A y \in Works \ {w} : [f EXCEPT ![w] = x][y] = f[y]
  OBVIOUS

\* What is left to receive, and what comes to it.
LEMMA Rest ==
  ASSUME NEW S, NEW s \in Seq(S)
  PROVE  /\ s # <<>> => Tail(s) \in Seq(S)
         /\ \A e \in S : Append(s, e) \in Seq(S)
  OBVIOUS

\* A save writes a scene of its own directory.
LEMMA SceneWritten ==
  ASSUME TypeOK, NEW w \in Works, WriteScene(w)
  PROVE  /\ now' \in Nat /\ local' \in [Works -> DirType]
         /\ local'[w] # NoDir /\ local'[w].c.of = w
         /\ \A y \in Works \ {w} : local'[y] = local[y]
<1> DEFINE d == [c |-> [of |-> w, v |-> now + 1], t |-> now + 1]
<1>1. now + 1 \in Nat /\ now + 1 # 0 /\ now' = now + 1 /\ local \in [Works -> DirType]
  BY DEF TypeOK, FileTypeOK, WriteScene, Tick
<1>2. d \in DirType
  BY <1>1, FileParts
<1>3. d.t = now + 1 /\ d.c.of = w
  OBVIOUS
<1>4. local' = [local EXCEPT ![w] = d]
  BY DEF WriteScene
<1> HIDE DEF d
<1>5. d # NoDir
  BY <1>1, <1>3, NoneParts
<1> QED
  BY <1>1, <1>2, <1>3, <1>4, <1>5, Replaced

-----------------------------------------------------------------------------
(* Type correctness: files.                                                *)

LEMMA OpenedType ==
  ASSUME TypeOK, NEW w \in Works
  PROVE  Opened(w) \in FileType /\ Opened(w).c = local[w].c
<1>1. local[w] \in DirType
  BY DEF TypeOK, FileTypeOK
<1>2. local[w].c \in SceneType
  BY <1>1, FileParts
<1> QED
  BY <1>2, FileParts DEF Opened

\* A new run: what Zip and on_file_changed do to the files.
LEMMA NewRunTypes ==
  ASSUME TypeOK, NEW w \in Works, NEW dest \in Works, NEW b \in BOOLEAN,
         zips' = zips \cup {Run(w, dest, b)}, archive' = [archive EXCEPT ![w] = Opened(w)],
         UNCHANGED <<now, local, zip>>
  PROVE  /\ FileTypeOK' /\ archive'[w] = Opened(w)
         /\ \A y \in Works \ {w} : archive'[y] = archive[y]
<1>1. archive \in [Works -> FileType] /\ zips \in SUBSET RunType
  BY DEF TypeOK, FileTypeOK
<1>2. Run(w, dest, b) \in RunType
  BY RunParts
<1>3. archive' \in [Works -> FileType] /\ zips' \in SUBSET RunType
  BY <1>1, <1>2, OpenedType, Replaced
<1>4. archive'[w] = Opened(w) /\ \A y \in Works \ {w} : archive'[y] = archive[y]
  BY <1>1, OpenedType, Replaced
<1> QED
  BY <1>3, <1>4 DEF TypeOK, FileTypeOK

\* A run takes one of its steps.
LEMMA RunTypes ==
  ASSUME TypeOK, NEW z \in zips, MakeArchive(z) \/ TakeOthers(z) \/ BeginMove(z) \/ EndMove(z) \/ FailZip(z)
  PROVE  FileTypeOK'
<1>1. /\ now \in Nat /\ local \in [Works -> DirType] /\ zip \in [Works -> FileType]
      /\ archive \in [Works -> FileType] /\ zips \in SUBSET RunType /\ z \in RunType
  BY DEF TypeOK, FileTypeOK
<1>2. z.src \in Works /\ z.dest \in Works
  BY <1>1, RunParts
<1>3. archive[z.src] \in FileType /\ zip[z.dest] \in FileType
  BY <1>1, <1>2
<1>4. CASE MakeArchive(z)
  <2> DEFINE b == \A y \in zips \ {z} : y.src # z.src
             a == [c |-> archive[z.src].c, t |-> now + 1, whole |-> b]
  <2>1. b \in BOOLEAN /\ now + 1 \in Nat /\ archive[z.src].c \in SceneType
    BY <1>1, <1>3, FileParts
  <2>2. archive' = [archive EXCEPT ![z.src] = a] /\ now' = now + 1
        /\ zips' = (zips \ {z}) \cup {[z EXCEPT !.step = "move"]} /\ UNCHANGED <<local, zip>>
    BY <1>4 DEF MakeArchive, Tick, Go
  <2> HIDE DEF b
  <2>3. a \in FileType
    BY <2>1, FileParts
  <2> HIDE DEF a
  <2>4. archive' \in [Works -> FileType]
    BY <1>1, <1>2, <2>2, <2>3, Replaced
  <2>5. zips' \in SUBSET RunType
    <3> DEFINE y == [z EXCEPT !.step = "move"]
    <3>1. y \in RunType
      BY <1>1, RunParts
    <3>2. zips' = (zips \ {z}) \cup {y}
      BY <2>2
    <3> HIDE DEF y
    <3> QED
      BY <1>1, <3>1, <3>2
  <2> QED
    BY <1>1, <2>1, <2>2, <2>4, <2>5 DEF FileTypeOK
<1>5. CASE TakeOthers(z)
  <2>1. PICK y \in zips : archive' = [archive EXCEPT ![z.src].c = local[y.src].c]
    BY <1>5 DEF TakeOthers
  <2>2. local[y.src].c \in SceneType
    BY <1>1, RunParts, FileParts
  <2>3. archive' = [archive EXCEPT ![z.src] = [archive[z.src] EXCEPT !.c = local[y.src].c]]
    BY <2>1
  <2>4. [archive[z.src] EXCEPT !.c = local[y.src].c] \in FileType
    BY <1>3, <2>2 DEF FileType
  <2>5. archive' \in [Works -> FileType]
    BY <1>1, <1>2, <2>3, <2>4, Replaced
  <2>6. UNCHANGED <<now, local, zip, zips>>
    BY <1>5 DEF TakeOthers
  <2> QED
    BY <1>1, <2>5, <2>6 DEF FileTypeOK
<1>6. CASE BeginMove(z)
  <2>1. Incomplete(z.dest) \in FileType
    BY <1>3, FileParts DEF Incomplete
  <2>2. zip' = [zip EXCEPT ![z.dest] = Incomplete(z.dest)]
        /\ zips' = (zips \ {z}) \cup {[z EXCEPT !.step = "copy"]} /\ UNCHANGED <<now, local, archive>>
    BY <1>6 DEF BeginMove, Go
  <2>3. zip' \in [Works -> FileType]
    BY <1>1, <1>2, <2>1, <2>2, Replaced
  <2>4. zips' \in SUBSET RunType
    <3> DEFINE y == [z EXCEPT !.step = "copy"]
    <3>1. y \in RunType
      BY <1>1, RunParts
    <3>2. zips' = (zips \ {z}) \cup {y}
      BY <2>2
    <3> HIDE DEF y
    <3> QED
      BY <1>1, <3>1, <3>2
  <2> QED
    BY <1>1, <2>2, <2>3, <2>4 DEF FileTypeOK
<1>7. CASE EndMove(z)
  <2>1. zip' = [zip EXCEPT ![z.dest] = archive[z.src]] /\ archive' = [archive EXCEPT ![z.src] = NoArchive]
        /\ zips' = zips \ {z} /\ UNCHANGED <<now, local>>
    BY <1>7 DEF EndMove
  <2>2. zip' \in [Works -> FileType] /\ archive' \in [Works -> FileType]
    BY <1>1, <1>2, <1>3, <2>1, Replaced, NoneParts
  <2> QED
    BY <1>1, <2>1, <2>2 DEF FileTypeOK
<1>8. CASE FailZip(z)
  <2>1. archive' = [archive EXCEPT ![z.src] = NoArchive] /\ zips' = zips \ {z}
        /\ UNCHANGED <<now, local, zip>>
    BY <1>8 DEF FailZip
  <2>2. archive' \in [Works -> FileType]
    BY <1>1, <1>2, <2>1, Replaced, NoneParts
  <2> QED
    BY <1>1, <2>1, <2>2 DEF FileTypeOK
<1> QED
  BY <1>4, <1>5, <1>6, <1>7, <1>8

\* Opening replaces a directory by the scene of its work file.
LEMMA ExtractTypes ==
  ASSUME TypeOK, Extract
  PROVE  FileTypeOK' /\ \A w \in Works \ {main.w} : local'[w] = local[w]
<1>1. /\ now \in Nat /\ local \in [Works -> DirType] /\ zip \in [Works -> FileType]
      /\ archive \in [Works -> FileType] /\ zips \in SUBSET RunType
  BY DEF TypeOK, FileTypeOK
<1>2. main.w \in Works
  BY MainParts DEF TypeOK, ControlTypeOK
<1>3. CASE zip[main.w].whole
  <2> DEFINE d == [c |-> zip[main.w].c, t |-> now + 1]
  <2>1. local' = [local EXCEPT ![main.w] = d] /\ now' = now + 1 /\ UNCHANGED <<zip, archive, zips>>
    BY <1>3 DEF Extract, Tick
  <2>2. d \in DirType
    BY <1>1, <1>2, FileParts
  <2> HIDE DEF d
  <2>3. local' \in [Works -> DirType] /\ \A w \in Works \ {main.w} : local'[w] = local[w]
    BY <1>1, <1>2, <2>1, <2>2, Replaced
  <2> QED
    BY <1>1, <2>1, <2>3 DEF FileTypeOK
<1>4. CASE ~zip[main.w].whole
  <2>1. UNCHANGED <<now, local, zip, archive, zips>>
    BY <1>4 DEF Extract
  <2> QED
    BY <1>1, <2>1 DEF FileTypeOK
<1> QED
  BY <1>3, <1>4

\* A directory is deleted or stays.
LEMMA CheckTypes ==
  ASSUME TypeOK, UNCHANGED <<now, zip, archive, zips>>,
         local' = local \/ local' = [local EXCEPT ![main.w] = NoDir]
  PROVE  FileTypeOK'
<1>1. main.w \in Works /\ local \in [Works -> DirType]
  BY MainParts DEF TypeOK, ControlTypeOK, FileTypeOK
<1>2. local' \in [Works -> DirType]
  BY <1>1, Replaced, NoneParts
<1> QED
  BY <1>2 DEF TypeOK, FileTypeOK

-----------------------------------------------------------------------------
(* Who changes what.                                                       *)

\* The application and the server's thread, without saves, and the main thread
\* between its steps that read or write files.
Serving == CloseApplication \/ RunScript \/ Notify \/ Receive
Calling ==
  \/ BeginSaveScene \/ ZippedSaved \/ EnableWatcher \/ CallFails
  \/ BeginSaveAs \/ EndSaveAs \/ SaveAsFails
  \/ BeginOpen \/ StartApplication \/ KillRaises
Filing ==
  \/ UserSave \/ OthersWrite \/ RunZip \/ OnFileChanged \/ SaveAll \/ ZipSaved
  \/ ClearDirectory \/ SceneSaveAs \/ ZipSavedAs \/ CheckLocal \/ Extract

LEMMA NextCases == [Next]_vars => Serving \/ Calling \/ Filing \/ UNCHANGED vars
  BY DEF Next, Main, Serving, Calling, Filing

LEMMA ServingFrame ==
  Serving => UNCHANGED <<host, fileVars, zips, workfile, main, saveDisabled, mixed, behind>>
  BY DEF Serving, CloseApplication, RunScript, Notify, Receive, pythonVars

LEMMA CallingFrame ==
  Calling => /\ UNCHANGED <<host, fileVars, zips, queue, due, behind>>
             /\ mixed' \in {mixed, mixed \cup Parted}
  BY DEF Calling, BeginSaveScene, ZippedSaved, EnableWatcher, CallFails, BeginSaveAs, EndSaveAs,
         SaveAsFails, BeginOpen, StartApplication, KillRaises

LEMMA FilingFrame ==
  Filing => /\ host' = host /\ workfile' = workfile /\ saveDisabled' = saveDisabled
            /\ wire' = wire /\ mixed \subseteq mixed' /\ behind \subseteq behind'
  BY DEF Filing, UserSave, OthersWrite, RunZip, OnFileChanged, SaveAll, ZipSaved, ClearDirectory,
         SceneSaveAs, ZipSavedAs, CheckLocal, Extract, pythonVars, RacingSave, Zip, MakeArchive,
         TakeOthers, BeginMove, EndMove, FailZip

\* The host stays, and no work file is taken off the excepted ones.
LEMMA Monotone == [Next]_vars => host' = host /\ mixed \subseteq mixed' /\ behind \subseteq behind'
<1> SUFFICES ASSUME [Next]_vars
             PROVE  host' = host /\ mixed \subseteq mixed' /\ behind \subseteq behind'
  OBVIOUS
<1>1. CASE Serving
  BY <1>1, ServingFrame
<1>2. CASE Calling
  BY <1>2, CallingFrame
<1>3. CASE Filing
  BY <1>3, FilingFrame
<1>4. CASE UNCHANGED vars
  BY <1>4 DEF vars
<1> QED
  BY <1>1, <1>2, <1>3, <1>4, NextCases

-----------------------------------------------------------------------------
\* Every step keeps the types of directories, work files and archives.
LEMMA FileTypes == TypeOK /\ [Next]_vars => FileTypeOK'
<1> SUFFICES ASSUME TypeOK, [Next]_vars
             PROVE  FileTypeOK'
  OBVIOUS
<1>1. app.w \in Works /\ main.w \in Works /\ workfile \in Works
  BY AppParts, MainParts DEF TypeOK, ControlTypeOK
<1>2. CASE UserSave \/ SaveAll
  <2>1. WriteScene(app.w) /\ UNCHANGED <<zip, archive, zips>>
    BY <1>2 DEF UserSave, SaveAll
  <2> QED
    BY <1>1, <2>1, SceneWritten DEF TypeOK, FileTypeOK
<1>3. CASE SceneSaveAs
  <2>1. WriteScene(main.w) /\ UNCHANGED <<zip, archive, zips>>
    BY <1>3 DEF SceneSaveAs
  <2> QED
    BY <1>1, <2>1, SceneWritten DEF TypeOK, FileTypeOK
<1>4. CASE OthersWrite
  <2>1. PICK w \in Works \ {Temp} :
          zip' = [zip EXCEPT ![w] = [c |-> [of |-> w, v |-> now + 1], t |-> now + 1, whole |-> TRUE]]
    BY <1>4 DEF OthersWrite
  <2>2. now' = now + 1 /\ now + 1 \in Nat /\ UNCHANGED <<local, archive, zips>>
    BY <1>4 DEF OthersWrite, Tick, TypeOK, FileTypeOK
  <2>3. [c |-> [of |-> w, v |-> now + 1], t |-> now + 1, whole |-> TRUE] \in FileType
    BY <2>2, FileParts
  <2>4. zip' \in [Works -> FileType]
    BY <2>1, <2>3, Replaced DEF TypeOK, FileTypeOK
  <2> QED
    BY <2>2, <2>4 DEF TypeOK, FileTypeOK
<1>5. CASE RunZip
  BY <1>5, RunTypes DEF RunZip
<1>6. CASE OnFileChanged /\ local[Head(queue)] # NoDir
  <2>1. Head(queue) \in Works
    BY <1>6 DEF OnFileChanged, TypeOK, ControlTypeOK
  <2>2. zips' = zips \cup {Run(Head(queue), workfile, TRUE)}
        /\ archive' = [archive EXCEPT ![Head(queue)] = Opened(Head(queue))]
        /\ UNCHANGED <<now, local, zip>>
    BY <1>6 DEF OnFileChanged
  <2> QED
    BY <1>1, <2>1, <2>2, NewRunTypes
<1>7. CASE OnFileChanged /\ local[Head(queue)] = NoDir
  BY <1>7 DEF OnFileChanged, TypeOK, FileTypeOK
<1>8. CASE ZipSaved \/ ZipSavedAs
  <2>1. PICK dest \in Works, b \in BOOLEAN :
          zips' = zips \cup {Run(main.w, dest, b)} /\ archive' = [archive EXCEPT ![main.w] = Opened(main.w)]
    BY <1>1, <1>8 DEF ZipSaved, ZipSavedAs, Zip
  <2>2. UNCHANGED <<now, local, zip>>
    BY <1>8 DEF ZipSaved, ZipSavedAs
  <2> QED
    BY <1>1, <2>1, <2>2, NewRunTypes
<1>9. CASE ClearDirectory \/ CheckLocal
  BY <1>9, CheckTypes DEF ClearDirectory, CheckLocal
<1>10. CASE Extract
  BY <1>10, ExtractTypes
<1>11. CASE UNCHANGED <<fileVars, zips>>
  BY <1>11 DEF fileVars, TypeOK, FileTypeOK
<1>12. Serving \/ Calling \/ UNCHANGED vars => UNCHANGED <<fileVars, zips>>
  BY ServingFrame, CallingFrame DEF vars
<1> QED
  BY <1>2, <1>3, <1>4, <1>5, <1>6, <1>7, <1>8, <1>9, <1>10, <1>11, <1>12, NextCases DEF Filing

-----------------------------------------------------------------------------
(* Type correctness: the application and the main thread.                  *)

\* The main thread goes on to a step, begins something, or is idle again.
MainMoves ==
  \/ main' = main
  \/ \E step \in Steps : main' = [main EXCEPT !.step = step]
  \/ \E what \in Whats, step \in Steps, w \in Works, locked \in BOOLEAN :
       main' = [what |-> what, step |-> step, w |-> w, locked |-> locked]
  \/ main' = Idle

\* Every step keeps the type of what the main thread does.
LEMMA MainTypes == TypeOK /\ [Next]_vars => main' \in MainType
<1> SUFFICES ASSUME TypeOK, [Next]_vars
             PROVE  main' \in MainType
  OBVIOUS
<1>1. main \in MainType /\ app.w \in Works
  BY AppParts DEF TypeOK, ControlTypeOK
<1>2. MainMoves
  <2>1. CASE RunZip
    BY <2>1 DEF RunZip, MakeArchive, TakeOthers, BeginMove, EndMove, FailZip, MainMoves
  <2>2. CASE BeginSaveScene \/ BeginSaveAs \/ BeginOpen
    BY <1>1, <2>2 DEF BeginSaveScene, BeginSaveAs, BeginOpen, Begin, MainMoves, Steps, Whats
  <2>3. CASE SaveAll \/ ZipSaved \/ ZippedSaved \/ EnableWatcher \/ CallFails
    BY <2>3 DEF SaveAll, ZipSaved, ZippedSaved, EnableWatcher, CallFails, Unanswered, To, MainMoves, Steps
  <2>4. CASE ClearDirectory \/ SceneSaveAs \/ ZipSavedAs \/ EndSaveAs \/ SaveAsFails
    BY <2>4 DEF ClearDirectory, SceneSaveAs, ZipSavedAs, EndSaveAs, SaveAsFails, To, MainMoves, Steps
  <2>5. CASE CheckLocal \/ Extract \/ StartApplication \/ KillRaises
    BY <2>5 DEF CheckLocal, Extract, StartApplication, KillRaises, To, MainMoves, Steps
  <2>6. CASE Serving \/ UNCHANGED vars
    BY <2>6, ServingFrame DEF vars, pythonVars, MainMoves
  <2>7. CASE UserSave \/ OthersWrite \/ OnFileChanged
    BY <2>7 DEF UserSave, OthersWrite, OnFileChanged, pythonVars, MainMoves
  <2> QED
    BY <2>1, <2>2, <2>3, <2>4, <2>5, <2>6, <2>7, NextCases DEF Calling, Filing
<1> QED
  BY <1>1, <1>2, MainParts, IdleParts DEF MainMoves

\* The application changes in one respect, is closed, or is started with a scene.
AppMoves ==
  \/ app' = app
  \/ app' = Shut(app)
  \/ \E b \in BOOLEAN : \/ app' = [app EXCEPT !.signal = b]
                        \/ app' = [app EXCEPT !.flag = b]
                        \/ app' = [app EXCEPT !.script = b]
                        \/ app' = [[app EXCEPT !.flag = FALSE] EXCEPT !.signal = b]
  \/ \E w \in Works : app' = [app EXCEPT !.w = w] \/ app' = Launched(w)

\* Every step keeps the application's type.
LEMMA AppTypes == TypeOK /\ [Next]_vars => app' \in AppType
<1> SUFFICES ASSUME TypeOK, [Next]_vars
             PROVE  app' \in AppType
  OBVIOUS
<1>1. app \in AppType /\ main.w \in Works
  BY MainParts DEF TypeOK, ControlTypeOK
<1>2. AppMoves
  <2>1. CASE UserSave
    <3>1. (host = "storyboardpro" /\ app.script) \in BOOLEAN
      OBVIOUS
    <3> QED
      BY <2>1, <3>1, Zenon DEF UserSave, AppMoves
  <2>2. CASE SaveAll
    <3>1. (host = "storyboardpro") \in BOOLEAN
      OBVIOUS
    <3> QED
      BY <2>2, <3>1 DEF SaveAll, AppMoves
  <2>3. CASE RunScript \/ Notify \/ EnableWatcher
    BY <2>3 DEF RunScript, Notify, EnableWatcher, AppMoves
  <2>4. CASE SceneSaveAs \/ StartApplication
    BY <1>1, <2>4 DEF SceneSaveAs, StartApplication, AppMoves
  <2>5. CASE CloseApplication
    BY <2>5 DEF CloseApplication, AppMoves, Shut
  <2>6. CASE UNCHANGED app
    BY <2>6 DEF AppMoves
  <2>7. Receive \/ BeginSaveScene \/ ZippedSaved \/ CallFails \/ BeginSaveAs \/ EndSaveAs
          \/ SaveAsFails \/ BeginOpen \/ KillRaises => UNCHANGED app
    BY DEF Receive, BeginSaveScene, ZippedSaved, CallFails, BeginSaveAs, EndSaveAs, SaveAsFails,
           BeginOpen, KillRaises
  <2>8. OthersWrite \/ RunZip \/ OnFileChanged \/ ZipSaved \/ ClearDirectory \/ ZipSavedAs
          \/ CheckLocal \/ Extract \/ UNCHANGED vars => UNCHANGED app
    BY DEF OthersWrite, RunZip, OnFileChanged, ZipSaved, ClearDirectory, ZipSavedAs, CheckLocal,
           Extract, vars
  <2> QED
    BY <2>1, <2>2, <2>3, <2>4, <2>5, <2>6, <2>7, <2>8, NextCases DEF Serving, Calling, Filing
<1>3. ASSUME NEW b \in BOOLEAN, app' = [[app EXCEPT !.flag = FALSE] EXCEPT !.signal = b]
      PROVE  app' \in AppType
  <2>1. [app EXCEPT !.flag = FALSE] \in AppType
    BY <1>1, AppParts
  <2> QED
    BY <1>3, <2>1, AppParts
<1>4. ASSUME NEW b \in BOOLEAN,
             \/ app' = [app EXCEPT !.signal = b]
             \/ app' = [app EXCEPT !.flag = b]
             \/ app' = [app EXCEPT !.script = b]
      PROVE  app' \in AppType
  BY <1>1, <1>4, AppParts
<1>5. ASSUME NEW w \in Works, app' = [app EXCEPT !.w = w] \/ app' = Launched(w)
      PROVE  app' \in AppType
  BY <1>1, <1>5, AppParts, LaunchedParts
<1>6. ASSUME app' = Shut(app)
      PROVE  app' \in AppType
  BY <1>1, <1>6, ShutParts
<1> QED
  BY <1>1, <1>2, <1>3, <1>4, <1>5, <1>6 DEF AppMoves

\* What is excepted is a set of work files.
LEMMA ExceptedTypes == TypeOK /\ [Next]_vars => mixed' \subseteq Works /\ behind' \subseteq Works
<1> SUFFICES ASSUME TypeOK, [Next]_vars
             PROVE  mixed' \subseteq Works /\ behind' \subseteq Works
  OBVIOUS
<1>0. /\ mixed \subseteq Works /\ behind \subseteq Works /\ workfile \in Works
      /\ app.w \in Works /\ main.w \in Works /\ queue \in Seq(Works) /\ zips \in SUBSET RunType
  BY AppParts, MainParts DEF TypeOK, ControlTypeOK, FileTypeOK
<1>1. Parted \subseteq Works
  BY <1>0 DEF Parted
<1>2. CASE UserSave \/ SaveAll
  BY <1>0, <1>2 DEF UserSave, SaveAll, RacingSave
<1>3. CASE RunZip
  <2>1. PICK z \in zips : MakeArchive(z) \/ TakeOthers(z) \/ BeginMove(z) \/ EndMove(z) \/ FailZip(z)
    BY <1>3 DEF RunZip
  <2>2. z.src \in Works /\ z.dest \in Works
    BY <1>0, RunParts
  <2> QED
    BY <1>0, <1>1, <2>1, <2>2 DEF MakeArchive, TakeOthers, BeginMove, EndMove, FailZip
<1>4. CASE OnFileChanged
  <2>1. Head(queue) \in Works
    BY <1>0, <1>4 DEF OnFileChanged
  <2> QED
    BY <1>0, <1>4, <2>1 DEF OnFileChanged
<1>5. CASE ZipSaved \/ ZipSavedAs
  BY <1>0, <1>5 DEF ZipSaved, ZipSavedAs, Zip
<1>6. CASE CheckLocal
  BY <1>0, <1>6 DEF CheckLocal
<1>7. OthersWrite \/ ClearDirectory \/ SceneSaveAs \/ Extract \/ UNCHANGED vars => UNCHANGED <<mixed, behind>>
  BY DEF OthersWrite, ClearDirectory, SceneSaveAs, Extract, vars
<1>8. Serving => UNCHANGED <<mixed, behind>>
  BY ServingFrame
<1>9. Calling => behind' = behind /\ mixed' \in {mixed, mixed \cup Parted}
  BY CallingFrame
<1> QED
  BY <1>0, <1>1, <1>2, <1>3, <1>4, <1>5, <1>6, <1>7, <1>8, <1>9, NextCases DEF Filing

\* Every step keeps the types of what controls the runs and messages.
LEMMA ControlTypes == TypeOK /\ [Next]_vars => ControlTypeOK'
<1> SUFFICES ASSUME TypeOK, [Next]_vars
             PROVE  ControlTypeOK'
  OBVIOUS
<1>0. /\ wire \in Seq(Works) /\ queue \in Seq(Works) /\ due \in [Works -> Nat] /\ workfile \in Works
      /\ app.w \in Works /\ main.w \in Works /\ now \in Nat /\ local \in [Works -> DirType]
      /\ saveDisabled \in BOOLEAN
  BY AppParts, MainParts DEF TypeOK, ControlTypeOK, FileTypeOK
<1>1. main' \in MainType /\ app' \in AppType /\ host' = host /\ mixed' \subseteq Works /\ behind' \subseteq Works
  BY MainTypes, AppTypes, Monotone, ExceptedTypes
<1>2. \A w \in Works : local[w].c.v \in Nat
  BY <1>0 DEF DirType, SceneType
<1>3. wire' \in Seq(Works)
  <2>1. CASE Notify
    <3>1. wire' = Append(wire, app.w) \/ wire' = wire
      BY <2>1 DEF Notify
    <3>2. wire \in Seq(Works) /\ app.w \in Works
      BY <1>0
    <3>3. Append(wire, app.w) \in Seq(Works)
      BY <3>2, Rest
    <3> QED
      BY <3>1, <3>2, <3>3
  <2>2. CASE Receive
    <3>1. wire # <<>> /\ wire' = Tail(wire)
      BY <2>2 DEF Receive
    <3>2. wire \in Seq(Works)
      BY <1>0
    <3>3. Tail(wire) \in Seq(Works)
      BY <3>1, <3>2, Rest
    <3> QED
      BY <3>1, <3>3
  <2>3. CASE StartApplication
    BY <2>3 DEF StartApplication
  <2>4. CASE UNCHANGED wire
    BY <1>0, <2>4
  <2>5. CloseApplication \/ RunScript \/ BeginSaveScene \/ ZippedSaved \/ EnableWatcher \/ CallFails
          \/ BeginSaveAs \/ EndSaveAs \/ SaveAsFails \/ BeginOpen \/ KillRaises \/ UNCHANGED vars
          => UNCHANGED wire
    BY DEF CloseApplication, RunScript, BeginSaveScene, ZippedSaved, EnableWatcher, CallFails,
           BeginSaveAs, EndSaveAs, SaveAsFails, BeginOpen, KillRaises, vars
  <2>6. Filing => UNCHANGED wire
    BY FilingFrame
  <2> QED
    BY <2>1, <2>2, <2>3, <2>4, <2>5, <2>6, NextCases DEF Serving, Calling
<1>4. queue' \in Seq(Works) /\ due' \in [Works -> Nat]
  <2>1. CASE Receive
    <3>1. Head(wire) \in Works
      BY <1>0, <2>1 DEF Receive
    <3>2. queue' = Append(queue, Head(wire)) /\ due' = [due EXCEPT ![Head(wire)] = local[Head(wire)].c.v]
      BY <2>1 DEF Receive
    <3>3. queue' \in Seq(Works)
      BY <1>0, <3>1, <3>2
    <3>4. due' \in [Works -> Nat]
      BY <1>0, <1>2, <3>1, <3>2, Replaced
    <3> QED
      BY <3>3, <3>4
  <2>2. CASE OnFileChanged
    <3>1. queue # <<>> /\ queue' = Tail(queue) /\ due' = due
      BY <2>2 DEF OnFileChanged
    <3> QED
      BY <1>0, <3>1
  <2>3. CASE ZipSaved \/ ZipSavedAs
    <3>1. due' = [due EXCEPT ![main.w] = local[main.w].c.v] /\ queue' = queue
      BY <2>3 DEF ZipSaved, ZipSavedAs, Replied
    <3> QED
      BY <1>0, <1>2, <3>1, Replaced
  <2>4. CASE UNCHANGED <<queue, due>>
    BY <1>0, <2>4
  <2>5. CloseApplication \/ RunScript \/ Notify \/ UNCHANGED vars => UNCHANGED <<queue, due>>
    BY DEF CloseApplication, RunScript, Notify, vars, pythonVars
  <2>6. Calling => UNCHANGED <<queue, due>>
    BY CallingFrame
  <2>7. UserSave \/ OthersWrite \/ RunZip \/ SaveAll \/ ClearDirectory \/ SceneSaveAs \/ CheckLocal \/ Extract
          => UNCHANGED <<queue, due>>
    BY DEF UserSave, OthersWrite, RunZip, SaveAll, ClearDirectory, SceneSaveAs, CheckLocal, Extract, pythonVars
  <2> QED
    BY <2>1, <2>2, <2>3, <2>4, <2>5, <2>6, <2>7, NextCases DEF Serving, Filing
<1>5. workfile' \in Works /\ saveDisabled' \in BOOLEAN
  <2>1. CASE Calling
    <3>1. workfile' \in {workfile, main.w}
      BY <2>1 DEF Calling, BeginSaveScene, ZippedSaved, EnableWatcher, CallFails, BeginSaveAs, EndSaveAs,
                  SaveAsFails, BeginOpen, StartApplication, KillRaises
    <3>2. saveDisabled' \in BOOLEAN
      BY <1>0, <2>1 DEF Calling, BeginSaveScene, ZippedSaved, EnableWatcher, CallFails, BeginSaveAs, EndSaveAs,
                  SaveAsFails, BeginOpen, StartApplication, KillRaises
    <3> QED
      BY <1>0, <3>1, <3>2
  <2>2. Serving \/ Filing \/ UNCHANGED vars => UNCHANGED <<workfile, saveDisabled>>
    BY ServingFrame, FilingFrame DEF vars, pythonVars
  <2> QED
    BY <1>0, <2>1, <2>2, NextCases
<1> QED
  BY <1>1, <1>3, <1>4, <1>5 DEF TypeOK, ControlTypeOK

-----------------------------------------------------------------------------
\* The first states have their types.
LEMMA InitTypes == Init => TypeOK
<1> SUFFICES ASSUME Init
             PROVE  TypeOK
  OBVIOUS
<1>1. 0 \in Nat /\ 1 \in Nat /\ 2 \in Nat /\ 3 \in Nat /\ Temp \in Works
  BY SceneAssumption
<1>2. \A w \in Works, v, t \in Nat : [c |-> [of |-> w, v |-> v], t |-> t] \in DirType
  BY FileParts
<1>3. local \in [Works -> DirType]
  <2>1. PICK kept \in SUBSET (Works \ {Temp}) :
          local = [w \in Works |->
            IF w = Temp THEN [c |-> [of |-> w, v |-> 1], t |-> 3]
            ELSE IF w \in kept THEN [c |-> [of |-> w, v |-> 3], t |-> 3] ELSE NoDir]
    BY DEF Init
  <2> QED
    BY <1>1, <1>2, <2>1, NoneParts
<1>4. zip \in [Works -> FileType]
  <2>1. \A w \in Works : [c |-> [of |-> w, v |-> 1], t |-> 2, whole |-> TRUE] \in FileType
    BY <1>1, FileParts
  <2> QED
    BY <2>1 DEF Init
<1>5. archive \in [Works -> FileType]
  BY NoneParts DEF Init
<1>6. app \in AppType /\ main \in MainType
  BY <1>1, LaunchedParts, IdleParts DEF Init
<1>7. now \in Nat /\ zips \in SUBSET RunType /\ host \in {"harmony", "storyboardpro"} /\ workfile \in Works
  BY <1>1 DEF Init
<1>8. wire \in Seq(Works) /\ queue \in Seq(Works) /\ due \in [Works -> Nat]
  BY DEF Init
<1>9. saveDisabled \in BOOLEAN /\ mixed \subseteq Works /\ behind \subseteq Works
  BY DEF Init
<1> QED
  BY <1>3, <1>4, <1>5, <1>6, <1>7, <1>8, <1>9 DEF TypeOK, FileTypeOK, ControlTypeOK

\* Every step keeps the types.
LEMMA StepTypes == TypeOK /\ [Next]_vars => TypeOK'
  BY FileTypes, ControlTypes DEF TypeOK

\* Every variable has its type in every state.
THEOREM TypeCorrect == Spec => []TypeOK
<1> QED
  BY InitTypes, StepTypes, PTL DEF Spec

-----------------------------------------------------------------------------
(* Who writes what: control.                                               *)

\* Every step keeps that Harmony's watcher tells nothing.
LEMMA WatcherStep == TypeOK /\ WatcherInv /\ [Next]_vars => WatcherInv'
<1> SUFFICES ASSUME TypeOK, WatcherInv, [Next]_vars, host' = "harmony"
             PROVE  wire' = <<>> /\ queue' = <<>> /\ ~app'.signal
  BY DEF WatcherInv
<1>0. host = "harmony"
  BY Monotone
<1>1. wire = <<>> /\ queue = <<>> /\ ~app.signal /\ app \in AppType /\ main.w \in Works
  BY <1>0, MainParts DEF WatcherInv, TypeOK, ControlTypeOK
<1>2. ~Notify /\ ~Receive /\ ~OnFileChanged
  BY <1>1 DEF Notify, Receive, OnFileChanged
<1>3. CASE UserSave
  <2>1. app' = [app EXCEPT !.signal = FALSE]
    BY <1>0, <1>3 DEF UserSave
  <2>2. wire' = wire /\ queue' = queue
    BY <1>3 DEF UserSave, pythonVars
  <2> QED
    BY <1>1, <2>1, <2>2, AppParts
<1>4. CASE SaveAll
  <2>1. app' = [[app EXCEPT !.flag = FALSE] EXCEPT !.signal = FALSE]
    BY <1>0, <1>4 DEF SaveAll
  <2>2. [app EXCEPT !.flag = FALSE] \in AppType
    BY <1>1, AppParts
  <2>3. wire' = wire /\ queue' = queue
    BY <1>4 DEF SaveAll
  <2> QED
    BY <1>1, <2>1, <2>2, <2>3, AppParts
<1>5. CASE RunScript
  BY <1>1, <1>5, AppParts DEF RunScript, pythonVars
<1>6. CASE EnableWatcher
  BY <1>1, <1>6, AppParts DEF EnableWatcher
<1>7. CASE SceneSaveAs
  BY <1>1, <1>7, AppParts DEF SceneSaveAs
<1>8. CASE StartApplication
  BY <1>1, <1>8, LaunchedParts DEF StartApplication
<1>9. CASE CloseApplication
  <2>1. app' = Shut(app) /\ UNCHANGED <<wire, queue>>
    BY <1>9 DEF CloseApplication, Shut, pythonVars
  <2> QED
    BY <1>1, <2>1, ShutParts
<1>10. CASE UNCHANGED <<wire, queue, app>>
  BY <1>1, <1>10
<1>11. OthersWrite \/ RunZip \/ ZipSaved \/ ClearDirectory \/ ZipSavedAs \/ CheckLocal \/ Extract
         \/ UNCHANGED vars => UNCHANGED <<wire, queue, app>>
  BY DEF OthersWrite, RunZip, ZipSaved, ClearDirectory, ZipSavedAs, CheckLocal, Extract, vars, pythonVars
<1>12. BeginSaveScene \/ ZippedSaved \/ CallFails \/ BeginSaveAs \/ EndSaveAs \/ SaveAsFails \/ BeginOpen
         \/ KillRaises => UNCHANGED <<wire, queue, app>>
  BY DEF BeginSaveScene, ZippedSaved, CallFails, BeginSaveAs, EndSaveAs, SaveAsFails, BeginOpen, KillRaises
<1> QED
  BY <1>2, <1>3, <1>4, <1>5, <1>6, <1>7, <1>8, <1>9, <1>10, <1>11, <1>12, NextCases
     DEF Serving, Calling, Filing

\* The application keeps its scene unless that is saved under another name or
\* another one is opened.
LEMMA SceneStays ==
  ASSUME TypeOK, [Next]_vars, ~SceneSaveAs, ~StartApplication
  PROVE  app'.w = app.w
<1>1. app \in AppType
  BY DEF TypeOK, ControlTypeOK
<1>2. CASE UserSave \/ Notify
  <2>1. PICK b \in BOOLEAN : app' = [app EXCEPT !.signal = b]
    BY <1>2, Zenon DEF UserSave, Notify
  <2> QED
    BY <1>1, <2>1, AppParts
<1>3. CASE SaveAll
  <2>1. PICK b \in BOOLEAN : app' = [[app EXCEPT !.flag = FALSE] EXCEPT !.signal = b]
    BY <1>3 DEF SaveAll
  <2>2. [app EXCEPT !.flag = FALSE] \in AppType /\ [app EXCEPT !.flag = FALSE].w = app.w
    BY <1>1, AppParts
  <2> QED
    BY <2>1, <2>2, AppParts
<1>4. CASE RunScript
  BY <1>1, <1>4, AppParts DEF RunScript
<1>5. CASE EnableWatcher
  BY <1>1, <1>5, AppParts DEF EnableWatcher
<1>6. CASE CloseApplication
  BY <1>1, <1>6, ShutParts DEF CloseApplication, Shut
<1>7. Receive \/ BeginSaveScene \/ ZippedSaved \/ CallFails \/ BeginSaveAs \/ EndSaveAs \/ SaveAsFails
        \/ BeginOpen \/ KillRaises => UNCHANGED app
  BY DEF Receive, BeginSaveScene, ZippedSaved, CallFails, BeginSaveAs, EndSaveAs, SaveAsFails,
         BeginOpen, KillRaises
<1>8. OthersWrite \/ RunZip \/ OnFileChanged \/ ZipSaved \/ ClearDirectory \/ ZipSavedAs
        \/ CheckLocal \/ Extract \/ UNCHANGED vars => UNCHANGED app
  BY DEF OthersWrite, RunZip, OnFileChanged, ZipSaved, ClearDirectory, ZipSavedAs, CheckLocal, Extract, vars
<1> QED
  BY <1>2, <1>3, <1>4, <1>5, <1>6, <1>7, <1>8, NextCases DEF Serving, Calling, Filing

\* Every step keeps what is known of the application's scene.
LEMMA AppStep == TypeOK /\ AppInv /\ [Next]_vars => AppInv'
<1> SUFFICES ASSUME TypeOK, AppInv, [Next]_vars
             PROVE  AppInv'
  OBVIOUS
<1>1. app \in AppType /\ main \in MainType /\ app.w \in Works /\ main.w \in Works
  BY AppParts, MainParts DEF TypeOK, ControlTypeOK
<1>2. mixed \subseteq mixed'
  BY Monotone
<1>3. ASSUME app'.w = app.w, workfile' = workfile
      PROVE  Parted' = Parted
  BY <1>3 DEF Parted
<1>4. CASE UNCHANGED <<main, workfile>> /\ app'.w = app.w
  BY <1>2, <1>3, <1>4 DEF AppInv
<1>5. Serving \/ UserSave \/ OthersWrite \/ OnFileChanged \/ UNCHANGED vars => UNCHANGED <<main, workfile>>
  BY ServingFrame DEF UserSave, OthersWrite, OnFileChanged, vars, pythonVars
<1>6. SceneSaveAs \/ StartApplication \/ app'.w = app.w
  BY SceneStays
<1>7. CASE RunZip
  <2>1. PICK z \in zips : MakeArchive(z) \/ TakeOthers(z) \/ BeginMove(z) \/ EndMove(z) \/ FailZip(z)
    BY <1>7 DEF RunZip
  <2>2. UNCHANGED <<app, workfile>>
    BY <1>7 DEF RunZip
  <2>3. CASE main' = main
    BY <1>4, <2>2, <2>3
  <2>4. CASE FailZip(z) /\ main' = Idle
    <3>1. Parted \subseteq mixed'
      BY <2>4 DEF FailZip
    <3> QED
      BY <1>3, <2>2, <2>4, <3>1, IdleParts DEF AppInv
  <2> QED
    BY <2>1, <2>3, <2>4 DEF MakeArchive, TakeOthers, BeginMove, EndMove, FailZip
<1>8. CASE BeginSaveScene \/ BeginSaveAs \/ BeginOpen
  <2>1. UNCHANGED <<app, workfile>> /\ main = Idle
    BY <1>8 DEF BeginSaveScene, BeginSaveAs, BeginOpen, Begin
  <2>2. \/ main' = [what |-> "save", step |-> "save", w |-> app.w, locked |-> FALSE]
        \/ \E w \in Works, locked \in BOOLEAN :
             \/ main' = [what |-> "saveas", step |-> "clear", w |-> w, locked |-> locked]
             \/ main' = [what |-> "open", step |-> "check", w |-> w, locked |-> FALSE]
    BY <1>8 DEF BeginSaveScene, BeginSaveAs, BeginOpen, Begin
  <2>3. (main'.what = "save" => main'.w = app.w) /\ main'.step \notin {"zip", "wait"}
    BY <2>2
  <2>4. Parted' \subseteq mixed'
    BY <1>2, <1>3, <2>1, IdleParts DEF AppInv
  <2> QED
    BY <2>1, <2>3, <2>4 DEF AppInv
<1>9. CASE SaveAll \/ ZipSaved \/ ZippedSaved
  <2>1. UNCHANGED workfile /\ main.what = "save" /\ \E step \in Steps : main' = [main EXCEPT !.step = step]
    BY <1>9 DEF SaveAll, ZipSaved, ZippedSaved, At, To, Steps
  <2>2. main'.what = "save" /\ main'.w = main.w
    BY <1>1, <2>1, MainParts
  <2>3. app'.w = app.w
    <3>1. ~SceneSaveAs /\ ~StartApplication
      BY <2>1 DEF SceneSaveAs, StartApplication, At
    <3> QED
      BY <1>6, <3>1
  <2>4. Parted' \subseteq mixed'
    BY <1>2, <1>3, <2>1, <2>3 DEF AppInv
  <2> QED
    BY <2>1, <2>2, <2>3, <2>4 DEF AppInv
<1>10. CASE EnableWatcher \/ CallFails
  <2>1. main.what = "save" /\ UNCHANGED workfile /\ (main' = Idle \/ main' = [main EXCEPT !.step = "hung"])
    BY <1>10 DEF EnableWatcher, CallFails, Unanswered, At, To
  <2>2. app'.w = app.w
    BY <1>1, <1>10, AppParts DEF EnableWatcher, CallFails
  <2>3. main' = Idle \/ (main'.what = "save" /\ main'.w = main.w)
    <3>1. ASSUME main' = [main EXCEPT !.step = "hung"]
          PROVE  main'.what = "save" /\ main'.w = main.w
      BY <1>1, <2>1, <3>1, MainParts DEF Steps
    <3> QED
      BY <2>1, <3>1
  <2>4. Parted' \subseteq mixed'
    BY <1>2, <1>3, <2>1, <2>2 DEF AppInv
  <2> QED
    BY <2>1, <2>2, <2>3, <2>4, IdleParts DEF AppInv
<1>11. CASE ClearDirectory \/ CheckLocal \/ Extract
  <2>1. /\ UNCHANGED <<app, workfile>> /\ main.step \notin {"zip", "wait"} /\ main.what # "save"
        /\ main' = Idle \/ \E step \in Steps \ {"zip", "wait"} : main' = [main EXCEPT !.step = step]
    BY <1>11 DEF ClearDirectory, CheckLocal, Extract, At, To, Steps
  <2>2. main'.what # "save" /\ main'.step \notin {"zip", "wait"}
    <3>1. CASE main' = Idle
      BY <3>1, IdleParts
    <3>2. ASSUME NEW step \in Steps \ {"zip", "wait"}, main' = [main EXCEPT !.step = step]
          PROVE  main'.what # "save" /\ main'.step \notin {"zip", "wait"}
      <4>1. main'.what = main.what /\ main'.step = step
        BY <1>1, <3>2, MainParts
      <4> QED
        BY <2>1, <4>1
    <3> QED
      BY <2>1, <3>1, <3>2
  <2>3. Parted' \subseteq mixed'
    BY <1>2, <1>3, <2>1 DEF AppInv
  <2> QED
    BY <2>2, <2>3 DEF AppInv
<1>12. CASE SceneSaveAs
  <2>1. main'.what = "saveas" /\ main'.w = main.w /\ main'.step = "zip" /\ app'.w = main.w
    BY <1>1, <1>12, MainParts, AppParts DEF SceneSaveAs, At, To, Steps
  <2> QED
    BY <2>1 DEF AppInv
<1>13. CASE ZipSavedAs
  <2>1. main'.what = "saveas" /\ main'.w = main.w /\ main'.step = "wait" /\ main.what = "saveas"
        /\ main.step = "zip" /\ app' = app
    BY <1>1, <1>13, MainParts DEF ZipSavedAs, At, To, Steps
  <2> QED
    BY <2>1 DEF AppInv
<1>14. CASE EndSaveAs
  <2>1. workfile' = main.w /\ app' = app /\ main' = Idle /\ main.what = "saveas" /\ main.step = "wait"
    BY <1>14 DEF EndSaveAs, At
  <2>2. Parted' = {}
    BY <2>1 DEF Parted, AppInv
  <2> QED
    BY <2>1, <2>2, IdleParts DEF AppInv
<1>15. CASE SaveAsFails
  <2>1. main' = Idle /\ UNCHANGED <<app, workfile>> /\ Parted \subseteq mixed'
    BY <1>15 DEF SaveAsFails
  <2> QED
    BY <1>3, <2>1, IdleParts DEF AppInv
<1>16. CASE StartApplication
  <2>1. workfile' = main.w /\ app'.w = main.w /\ main' = Idle
    BY <1>1, <1>16, LaunchedParts DEF StartApplication
  <2>2. Parted' = {}
    BY <2>1 DEF Parted
  <2> QED
    BY <2>1, <2>2, IdleParts DEF AppInv
<1>17. CASE KillRaises
  <2>1. main' = Idle /\ UNCHANGED <<app, workfile>> /\ main.what = "open"
    BY <1>17 DEF KillRaises, At
  <2>2. Parted' \subseteq mixed'
    BY <1>2, <1>3, <2>1 DEF AppInv
  <2> QED
    BY <2>1, <2>2, IdleParts DEF AppInv
<1> QED
  BY <1>4, <1>5, <1>6, <1>7, <1>8, <1>9, <1>10, <1>11, <1>12, <1>13, <1>14, <1>15, <1>16, <1>17,
     NextCases DEF Calling, Filing

\* Every step keeps that what is about to be zipped has been written.
LEMMA ZipStep == TypeOK /\ AppInv /\ ZipInv /\ [Next]_vars => ZipInv'
<1> SUFFICES ASSUME TypeOK, AppInv, ZipInv, [Next]_vars
             PROVE  ZipInv'
  OBVIOUS
<1>1. main \in MainType /\ app.w \in Works /\ main.w \in Works
  BY AppParts, MainParts DEF TypeOK, ControlTypeOK
<1>2. CASE UserSave
  <2>1. main' = main /\ WriteScene(app.w)
    BY <1>2 DEF UserSave, pythonVars
  <2> QED
    BY <1>1, <2>1, SceneWritten DEF ZipInv
<1>3. CASE SaveAll
  <2>1. main.w = app.w /\ WriteScene(main.w) /\ main' = [main EXCEPT !.step = "zip"]
    BY <1>3 DEF SaveAll, At, To, AppInv
  <2>2. main'.w = main.w
    BY <1>1, <2>1, MainParts DEF Steps
  <2> QED
    BY <1>1, <2>1, <2>2, SceneWritten DEF ZipInv
<1>4. CASE SceneSaveAs
  <2>1. WriteScene(main.w) /\ main' = [main EXCEPT !.step = "zip"]
    BY <1>4 DEF SceneSaveAs, At, To
  <2>2. main'.w = main.w
    BY <1>1, <2>1, MainParts DEF Steps
  <2> QED
    BY <1>1, <2>1, <2>2, SceneWritten DEF ZipInv
<1>5. CASE BeginSaveScene \/ BeginSaveAs \/ BeginOpen
  <2>1. main'.step # "zip"
    BY <1>5 DEF BeginSaveScene, BeginSaveAs, BeginOpen, Begin
  <2> QED
    BY <2>1 DEF ZipInv
<1>6. CASE main' = Idle \/ \E step \in Steps \ {"zip"} : main' = [main EXCEPT !.step = step]
  <2>1. ASSUME NEW step \in Steps \ {"zip"}, main' = [main EXCEPT !.step = step]
        PROVE  main'.step # "zip"
    <3>1. main'.step = step
      BY <1>1, <2>1, MainParts
    <3> QED
      BY <3>1
  <2> QED
    BY <1>6, <2>1, IdleParts DEF ZipInv
<1>7. ZipSaved \/ ClearDirectory \/ ZipSavedAs \/ CheckLocal \/ Extract =>
        main' = Idle \/ \E step \in Steps \ {"zip"} : main' = [main EXCEPT !.step = step]
  BY DEF ZipSaved, ClearDirectory, ZipSavedAs, CheckLocal, Extract, To, Steps
<1>8. ZippedSaved \/ EnableWatcher \/ CallFails \/ EndSaveAs \/ SaveAsFails \/ StartApplication \/ KillRaises =>
        main' = Idle \/ \E step \in Steps \ {"zip"} : main' = [main EXCEPT !.step = step]
  BY DEF ZippedSaved, EnableWatcher, CallFails, Unanswered, EndSaveAs, SaveAsFails, StartApplication,
         KillRaises, To, Steps
<1>9. CASE RunZip
  <2>1. local' = local /\ main' \in {main, Idle}
    BY <1>9 DEF RunZip, MakeArchive, TakeOthers, BeginMove, EndMove, FailZip
  <2> QED
    BY <2>1, IdleParts DEF ZipInv
<1>10. CASE UNCHANGED <<main, local>>
  BY <1>10 DEF ZipInv
<1>11. Serving \/ OthersWrite \/ OnFileChanged \/ UNCHANGED vars => UNCHANGED <<main, local>>
  BY ServingFrame DEF OthersWrite, OnFileChanged, vars, pythonVars, fileVars
<1> QED
  BY <1>2, <1>3, <1>4, <1>5, <1>6, <1>7, <1>8, <1>9, <1>10, <1>11, NextCases DEF Calling, Filing

\* Every step keeps that Harmony's main thread waits for its one run.
LEMMA WaitStep == TypeOK /\ WatcherInv /\ WaitInv /\ [Next]_vars => WaitInv'
<1> SUFFICES ASSUME TypeOK, WatcherInv, WaitInv, [Next]_vars, host' = "harmony"
             PROVE  /\ zips' = {} \/ (main'.step = "wait" /\ \A z \in zips' : ~z.threaded)
                    /\ \A y, z \in zips' : y = z
  BY DEF WaitInv
<1>0. host = "harmony"
  BY Monotone
<1>1. /\ zips = {} \/ (main.step = "wait" /\ \A z \in zips : ~z.threaded)
      /\ \A y, z \in zips : y = z
  BY <1>0 DEF WaitInv
<1>2. main \in MainType /\ main.w \in Works /\ workfile \in Works /\ zips \in SUBSET RunType
  BY MainParts DEF TypeOK, ControlTypeOK, FileTypeOK
<1>3. CASE RunZip
  <2>1. PICK z \in zips : MakeArchive(z) \/ TakeOthers(z) \/ BeginMove(z) \/ EndMove(z) \/ FailZip(z)
    BY <1>3 DEF RunZip
  <2>2. main.step = "wait" /\ ~z.threaded /\ zips \ {z} = {}
    BY <1>1, <2>1
  <2>3. CASE EndMove(z) \/ FailZip(z)
    <3>1. zips' = {}
      BY <2>2, <2>3 DEF EndMove, FailZip
    <3> QED
      BY <3>1
  <2>4. CASE TakeOthers(z)
    BY <1>1, <2>1, <2>4 DEF TakeOthers
  <2>5. CASE MakeArchive(z) \/ BeginMove(z)
    <3>1. PICK step \in {"move", "copy"} : zips' = {[z EXCEPT !.step = step]}
      BY <2>2, <2>5 DEF MakeArchive, BeginMove, Go
    <3>2. ~[z EXCEPT !.step = step].threaded
      BY <1>2, <2>2, RunParts
    <3>3. main' = main
      BY <2>5 DEF MakeArchive, BeginMove
    <3> QED
      BY <2>2, <3>1, <3>2, <3>3
  <2> QED
    BY <2>1, <2>3, <2>4, <2>5
<1>4. CASE ZipSaved \/ ZipSavedAs
  <2>1. main.step = "zip" /\ main' = [main EXCEPT !.step = "wait"]
        /\ \E dest \in Works : zips' = zips \cup {Run(main.w, dest, FALSE)}
    BY <1>0, <1>2, <1>4 DEF ZipSaved, ZipSavedAs, At, To, Zip
  <2>2. zips = {} /\ main'.step = "wait"
    BY <1>1, <1>2, <2>1, MainParts DEF Steps
  <2>3. PICK dest \in Works : zips' = {Run(main.w, dest, FALSE)}
    BY <2>1, <2>2
  <2>4. ~Run(main.w, dest, FALSE).threaded
    BY <1>2, RunParts DEF Run
  <2> QED
    BY <2>2, <2>3, <2>4
<1>5. CASE ZippedSaved \/ EndSaveAs
  <2>1. \A z \in zips : z.threaded
    BY <1>5 DEF ZippedSaved, EndSaveAs, Waited
  <2>2. zips' = zips
    BY <1>5 DEF ZippedSaved, EndSaveAs
  <2> QED
    BY <1>1, <2>1, <2>2
<1>6. ~OnFileChanged
  BY <1>0 DEF OnFileChanged, WatcherInv
<1>7. CASE BeginSaveScene \/ SaveAll \/ EnableWatcher \/ CallFails \/ BeginSaveAs \/ ClearDirectory
             \/ SceneSaveAs \/ SaveAsFails \/ BeginOpen \/ CheckLocal \/ Extract \/ StartApplication
             \/ KillRaises
  <2>1. zips' = zips
    BY <1>7 DEF BeginSaveScene, SaveAll, EnableWatcher, CallFails, BeginSaveAs, ClearDirectory, SceneSaveAs,
                SaveAsFails, BeginOpen, CheckLocal, Extract, StartApplication, KillRaises, fileVars
  <2>2. main.step # "wait"
    BY <1>7, IdleParts DEF BeginSaveScene, SaveAll, EnableWatcher, CallFails, BeginSaveAs, ClearDirectory,
                SceneSaveAs, SaveAsFails, BeginOpen, CheckLocal, Extract, StartApplication, KillRaises, Begin, At
  <2> QED
    BY <1>1, <2>1, <2>2
<1>8. CASE UNCHANGED <<zips, main>>
  BY <1>1, <1>8
<1>9. Serving \/ UserSave \/ OthersWrite \/ UNCHANGED vars => UNCHANGED <<zips, main>>
  BY ServingFrame DEF UserSave, OthersWrite, vars, pythonVars
<1> QED
  BY <1>3, <1>4, <1>5, <1>6, <1>7, <1>8, <1>9, NextCases DEF Calling, Filing

-----------------------------------------------------------------------------
(* Files: most steps leave a work file and its directory alone.            *)

Untouched(w) ==
  /\ local'[w] = local[w] /\ zip'[w] = zip[w] /\ archive'[w] = archive[w]
  /\ Runs(w)' = Runs(w)

StepOf(z) == MakeArchive(z) \/ TakeOthers(z) \/ BeginMove(z) \/ EndMove(z) \/ FailZip(z)

LEMMA UntouchedFiles ==
  ASSUME NEW w, Untouched(w), Files(w)
  PROVE  Files(w)'
  BY DEF Untouched, Files, LocalOwn, OneRun, RunOwn, Held

\* A new run concerns the directory it archives and the work file it goes to.
LEMMA NewRunElsewhere ==
  ASSUME TypeOK, NEW s \in Works, NEW dest \in Works, NEW b \in BOOLEAN,
         zips' = zips \cup {Run(s, dest, b)}, archive' = [archive EXCEPT ![s] = Opened(s)],
         UNCHANGED <<now, local, zip>>, NEW w \in Works \ {s, dest}
  PROVE  Untouched(w)
<1>1. archive'[w] = archive[w]
  BY NewRunTypes
<1>2. Run(s, dest, b).src # w /\ Run(s, dest, b).dest # w
  BY RunParts
<1>3. Runs(w)' = Runs(w)
  BY <1>2 DEF Runs
<1> QED
  BY <1>1, <1>3 DEF Untouched

\* So does a step of a run.
LEMMA StepElsewhere ==
  ASSUME TypeOK, NEW z \in zips, StepOf(z), NEW w \in Works \ {z.src, z.dest}
  PROVE  Untouched(w)
<1>1. /\ local \in [Works -> DirType] /\ zip \in [Works -> FileType]
      /\ archive \in [Works -> FileType] /\ z \in RunType /\ z.src \in Works /\ z.dest \in Works
  BY RunParts DEF TypeOK, FileTypeOK
<1>2. \A step \in {"archive", "move", "copy"} :
        [z EXCEPT !.step = step].src # w /\ [z EXCEPT !.step = step].dest # w
  BY <1>1, RunParts
<1>3. CASE zips' = zips \ {z} \/ zips' = zips
  <2>1. Runs(w)' = Runs(w)
    BY <1>3 DEF Runs
  <2> QED
    BY <1>1, <1>3, <2>1 DEF StepOf, MakeArchive, TakeOthers, BeginMove, EndMove, FailZip, Untouched
<1>4. ASSUME NEW step \in {"archive", "move", "copy"},
             zips' = (zips \ {z}) \cup {[z EXCEPT !.step = step]}
      PROVE  Untouched(w)
  <2> DEFINE n == [z EXCEPT !.step = step]
  <2>1. n.src # w /\ n.dest # w
    BY <1>2
  <2>2. zips' = (zips \ {z}) \cup {n}
    BY <1>4
  <2> HIDE DEF n
  <2>3. Runs(w)' = Runs(w)
    BY <2>1, <2>2 DEF Runs
  <2> QED
    BY <1>1, <2>3 DEF StepOf, MakeArchive, TakeOthers, BeginMove, EndMove, FailZip, Untouched
<1>5. \/ zips' = zips \ {z} \/ zips' = zips
      \/ \E step \in {"archive", "move", "copy"} : zips' = (zips \ {z}) \cup {[z EXCEPT !.step = step]}
  BY DEF StepOf, MakeArchive, TakeOthers, BeginMove, EndMove, FailZip, Go
<1> QED
  BY <1>3, <1>4, <1>5

\* The steps that concern a work file or its directory.
Touching(w) ==
  \/ (UserSave \/ SaveAll) /\ w = app.w
  \/ (SceneSaveAs \/ ClearDirectory \/ CheckLocal \/ Extract \/ ZipSavedAs) /\ w = main.w
  \/ OthersWrite
  \/ RunZip /\ \E z \in Runs(w) : StepOf(z)
  \/ OnFileChanged /\ local[Head(queue)] # NoDir /\ w \in {Head(queue), workfile}
  \/ ZipSaved /\ w \in {main.w, workfile}

LEMMA Touched ==
  ASSUME TypeOK, [Next]_vars, NEW w \in Works
  PROVE  Untouched(w) \/ Touching(w)
<1>1. /\ app.w \in Works /\ main.w \in Works /\ workfile \in Works /\ local \in [Works -> DirType]
      /\ queue \in Seq(Works)
  BY AppParts, MainParts DEF TypeOK, ControlTypeOK, FileTypeOK
<1>2. CASE UNCHANGED <<fileVars, zips>>
  BY <1>2 DEF Untouched, fileVars, Runs
<1>3. Serving \/ Calling \/ UNCHANGED vars => UNCHANGED <<fileVars, zips>>
  BY ServingFrame, CallingFrame DEF vars
<1>4. ASSUME UNCHANGED <<zip, archive, zips>>, NEW s \in Works, w # s,
             \A y \in Works \ {s} : local'[y] = local[y]
      PROVE  Untouched(w)
  BY <1>4 DEF Untouched, Runs
<1>5. CASE UserSave \/ SaveAll
  <2>1. WriteScene(app.w) /\ UNCHANGED <<zip, archive, zips>>
    BY <1>5 DEF UserSave, SaveAll
  <2>2. \A y \in Works \ {app.w} : local'[y] = local[y]
    BY <1>1, <2>1, SceneWritten
  <2> QED
    BY <1>1, <1>4, <1>5, <2>1, <2>2 DEF Touching
<1>6. CASE SceneSaveAs \/ ClearDirectory \/ CheckLocal \/ Extract
  <2>1. UNCHANGED <<zip, archive, zips>>
    BY <1>6 DEF SceneSaveAs, ClearDirectory, CheckLocal, Extract
  <2>2. \A y \in Works \ {main.w} : local'[y] = local[y]
    <3>1. CASE SceneSaveAs
      <4>1. WriteScene(main.w)
        BY <3>1 DEF SceneSaveAs
      <4> QED
        BY <1>1, <4>1, SceneWritten
    <3>2. CASE ClearDirectory \/ CheckLocal
      BY <1>1, <3>2 DEF ClearDirectory, CheckLocal
    <3>3. CASE Extract
      BY <3>3, ExtractTypes
    <3> QED
      BY <1>6, <3>1, <3>2, <3>3
  <2> QED
    BY <1>1, <1>4, <1>6, <2>1, <2>2 DEF Touching
<1>7. CASE RunZip
  <2>1. PICK z \in zips : StepOf(z)
    BY <1>7 DEF RunZip, StepOf
  <2>2. CASE z.src = w \/ z.dest = w
    BY <1>7, <2>1, <2>2 DEF Touching, Runs
  <2>3. CASE z.src # w /\ z.dest # w
    BY <2>1, <2>3, StepElsewhere
  <2> QED
    BY <2>2, <2>3
<1>8. CASE OnFileChanged /\ local[Head(queue)] # NoDir
  <2>1. zips' = zips \cup {Run(Head(queue), workfile, TRUE)}
        /\ archive' = [archive EXCEPT ![Head(queue)] = Opened(Head(queue))]
        /\ UNCHANGED <<now, local, zip>>
    BY <1>8 DEF OnFileChanged
  <2>2. Head(queue) \in Works
    BY <1>1, <1>8 DEF OnFileChanged
  <2>3. CASE w \in {Head(queue), workfile}
    BY <1>8, <2>3 DEF Touching
  <2>4. CASE w \notin {Head(queue), workfile}
    BY <1>1, <2>1, <2>2, <2>4, NewRunElsewhere
  <2> QED
    BY <2>3, <2>4
<1>9. CASE OnFileChanged /\ local[Head(queue)] = NoDir
  BY <1>2, <1>9 DEF OnFileChanged, fileVars
<1>10. CASE ZipSaved
  <2>1. PICK b \in BOOLEAN : zips' = zips \cup {Run(main.w, workfile, b)}
    BY <1>10 DEF ZipSaved, Zip
  <2>2. archive' = [archive EXCEPT ![main.w] = Opened(main.w)] /\ UNCHANGED <<now, local, zip>>
    BY <1>10 DEF ZipSaved, Zip
  <2> QED
    BY <1>1, <1>10, <2>1, <2>2, NewRunElsewhere DEF Touching
<1>11. CASE ZipSavedAs
  <2>1. zips' = zips \cup {Run(main.w, main.w, FALSE)}
        /\ archive' = [archive EXCEPT ![main.w] = Opened(main.w)] /\ UNCHANGED <<now, local, zip>>
    BY <1>11 DEF ZipSavedAs, Zip
  <2> QED
    BY <1>1, <1>11, <2>1, NewRunElsewhere DEF Touching
<1> QED
  BY <1>2, <1>3, <1>5, <1>6, <1>7, <1>8, <1>9, <1>10, <1>11, NextCases DEF Filing, Touching

-----------------------------------------------------------------------------
(* Files: what the others do to them.                                      *)

\* A run is begun for a directory that nobody archives, and its work file.
LEMMA NewRun ==
  ASSUME TypeOK, NEW w \in Works, NEW b \in BOOLEAN, Files(w),
         local[w] # NoDir, \A z \in zips : z.src # w,
         zips' = zips \cup {Run(w, w, b)}, archive' = [archive EXCEPT ![w] = Opened(w)],
         UNCHANGED <<now, local, zip>>
  PROVE  Files(w)' /\ Runs(w)' = {Run(w, w, b)} /\ archive'[w] = Opened(w)
<1>1. archive'[w] = Opened(w)
  BY NewRunTypes
<1>2. Run(w, w, b).src = w /\ Run(w, w, b).dest = w /\ Run(w, w, b).step = "archive"
  BY RunParts
<1>3. archive'[w].c.of = w
  BY <1>1, OpenedType DEF Files, LocalOwn
<1>4. Runs(w) = {}
  BY DEF Files, RunOwn, Runs
<1>5. Runs(w)' = {Run(w, w, b)}
  <2>1. Runs(w)' = Runs(w) \cup {Run(w, w, b)}
    BY <1>2 DEF Runs
  <2> QED
    BY <1>4, <2>1
<1>6. OneRun(w)' /\ RunOwn(w)'
  BY <1>2, <1>3, <1>5 DEF OneRun, RunOwn
<1>7. LocalOwn(w)' /\ Held(w)'
  BY <1>4 DEF Files, LocalOwn, Held
<1> QED
  BY <1>1, <1>5, <1>6, <1>7 DEF Files

\* A work file's only run goes on, or ends.
LEMMA RunGoes ==
  ASSUME TypeOK, NEW w \in Works, Files(w), NEW z \in Runs(w)
  PROVE  /\ z.src = w /\ z.dest = w /\ Runs(w) = {z}
         /\ \A step \in {"move", "copy"} :
              zips' = (zips \ {z}) \cup {[z EXCEPT !.step = step]} =>
                \E n : Runs(w)' = {n} /\ n.step = step /\ n.src = w /\ n.dest = w
         /\ zips' = zips \ {z} => Runs(w)' = {}
<1>1. z \in zips /\ z \in RunType
  BY DEF TypeOK, FileTypeOK, Runs
<1>2. z.src = w /\ z.dest = w /\ Runs(w) = {z}
  BY DEF Files, RunOwn, OneRun
<1>3. \A y \in zips \ {z} : y.src # w /\ y.dest # w
  BY <1>2 DEF Runs
<1>4. ASSUME NEW step \in {"move", "copy"}, zips' = (zips \ {z}) \cup {[z EXCEPT !.step = step]}
      PROVE  \E n : Runs(w)' = {n} /\ n.step = step /\ n.src = w /\ n.dest = w
  <2> DEFINE n == [z EXCEPT !.step = step]
  <2>1. n.src = w /\ n.dest = w /\ n.step = step
    BY <1>1, <1>2, RunParts
  <2>2. zips' = (zips \ {z}) \cup {n}
    BY <1>4
  <2> HIDE DEF n
  <2>3. Runs(w)' = {n}
    BY <1>3, <2>1, <2>2 DEF Runs
  <2> QED
    BY <2>1, <2>3
<1>5. zips' = zips \ {z} => Runs(w)' = {}
  BY <1>3 DEF Runs
<1> QED
  BY <1>2, <1>4, <1>5

\* The only run of a work file takes its step.
LEMMA RunStep ==
  ASSUME TypeOK, NEW w \in Works, Files(w), NEW z \in Runs(w), StepOf(z),
         ~TakeOthers(z), FailZip(z) => z.step # "copy"
  PROVE  Files(w)'
<1>1. /\ zip \in [Works -> FileType] /\ archive \in [Works -> FileType] /\ z \in zips /\ z \in RunType
  BY DEF TypeOK, FileTypeOK, Runs
<1>2. /\ z.src = w /\ z.dest = w /\ archive[w].c.of = w /\ (z.step # "archive" => archive[w].whole)
      /\ Runs(w) = {z}
  BY DEF Files, RunOwn, OneRun
<1>3. \A y \in zips \ {z} : y.src # w /\ y.dest # w
  BY <1>2 DEF Runs
<1>4. LocalOwn(w)'
  BY DEF StepOf, MakeArchive, BeginMove, EndMove, FailZip, Files, LocalOwn
<1>5. CASE MakeArchive(z)
  <2> DEFINE a == [c |-> archive[w].c, t |-> now + 1, whole |-> \A y \in zips \ {z} : y.src # w]
  <2>1. PICK n : Runs(w)' = {n} /\ n.step = "move" /\ n.src = w /\ n.dest = w
    BY <1>5, RunGoes DEF MakeArchive, Go
  <2>2. archive' = [archive EXCEPT ![w] = a] /\ zip' = zip /\ z.step = "archive"
    BY <1>2, <1>5 DEF MakeArchive
  <2>3. a.c.of = w /\ a.whole
    BY <1>2, <1>3
  <2> HIDE DEF a
  <2>4. archive'[w] = a
    BY <1>1, <2>2
  <2>5. OneRun(w)' /\ RunOwn(w)'
    BY <2>1, <2>3, <2>4 DEF OneRun, RunOwn
  <2>6. Held(w)'
    BY <1>2, <2>2 DEF Files, Held
  <2> QED
    BY <1>4, <2>5, <2>6 DEF Files
<1>6. CASE BeginMove(z)
  <2>1. PICK n : Runs(w)' = {n} /\ n.step = "copy" /\ n.src = w /\ n.dest = w
    BY <1>6, RunGoes DEF BeginMove, Go
  <2>2. archive' = archive /\ zip' = [zip EXCEPT ![w] = Incomplete(w)] /\ z.step = "move"
    BY <1>2, <1>6 DEF BeginMove
  <2>3. zip'[w] = Incomplete(w) /\ Incomplete(w).c = zip[w].c
    BY <1>1, <2>2 DEF Incomplete
  <2>4. OneRun(w)' /\ RunOwn(w)'
    BY <1>2, <2>1, <2>2 DEF OneRun, RunOwn
  <2>5. Held(w)'
    BY <2>1, <2>3 DEF Files, Held
  <2> QED
    BY <1>4, <2>4, <2>5 DEF Files
<1>7. CASE EndMove(z)
  <2>1. Runs(w)' = {} /\ zip' = [zip EXCEPT ![w] = archive[w]] /\ z.step = "copy"
    BY <1>2, <1>7, RunGoes DEF EndMove
  <2>2. zip'[w] = archive[w]
    BY <1>1, <2>1
  <2>3. OneRun(w)' /\ RunOwn(w)' /\ Held(w)'
    BY <1>2, <2>1, <2>2 DEF OneRun, RunOwn, Held
  <2> QED
    BY <1>4, <2>3 DEF Files
<1>8. CASE FailZip(z)
  <2>1. Runs(w)' = {} /\ zip' = zip /\ z.step # "copy"
    BY <1>8, RunGoes DEF FailZip
  <2>2. OneRun(w)' /\ RunOwn(w)' /\ Held(w)'
    BY <1>2, <2>1 DEF Files, OneRun, RunOwn, Held
  <2> QED
    BY <1>4, <2>2 DEF Files
<1> QED
  BY <1>5, <1>6, <1>7, <1>8 DEF StepOf

\* A directory is written, replaced or deleted; nothing else changes.
LEMMA DirectoryStep ==
  ASSUME NEW w \in Works, Files(w), UNCHANGED <<zip, archive, zips>>,
         local'[w] = local[w] \/ local'[w] = NoDir \/ local'[w].c.of = w
  PROVE  Files(w)'
<1>1. LocalOwn(w)'
  BY DEF Files, LocalOwn
<1> QED
  BY <1>1 DEF Files, OneRun, RunOwn, Held, Runs

\* Every step keeps what is known of directories and work files.
LEMMA FilesStep == SceneInv /\ [Next]_vars => FilesInv'
<1> SUFFICES ASSUME SceneInv, [Next]_vars, NEW w \in Works, w \notin mixed'
             PROVE  Files(w)'
  BY DEF FilesInv
<1>0. Files(w) /\ TypeOK /\ ControlInv /\ w \notin mixed /\ host \in {"harmony", "storyboardpro"}
  BY Monotone DEF SceneInv, FilesInv, TypeOK, ControlTypeOK
<1>1. /\ app.w \in Works /\ main.w \in Works /\ workfile \in Works /\ local \in [Works -> DirType]
      /\ zip \in [Works -> FileType]
  BY <1>0, AppParts, MainParts DEF TypeOK, ControlTypeOK, FileTypeOK
<1>2. CASE Untouched(w)
  BY <1>0, <1>2, UntouchedFiles
<1>3. CASE (UserSave \/ SaveAll) /\ w = app.w
  <2>1. WriteScene(w) /\ UNCHANGED <<zip, archive, zips>>
    BY <1>3 DEF UserSave, SaveAll
  <2> QED
    BY <1>0, <2>1, SceneWritten, DirectoryStep
<1>4. CASE SceneSaveAs /\ w = main.w
  <2>1. WriteScene(w) /\ UNCHANGED <<zip, archive, zips>>
    BY <1>4 DEF SceneSaveAs
  <2> QED
    BY <1>0, <2>1, SceneWritten, DirectoryStep
<1>5. CASE (ClearDirectory \/ CheckLocal) /\ w = main.w
  <2>1. UNCHANGED <<zip, archive, zips>> /\ local' \in {local, [local EXCEPT ![w] = NoDir]}
    BY <1>5 DEF ClearDirectory, CheckLocal
  <2>2. local'[w] = local[w] \/ local'[w] = NoDir
    BY <1>1, <2>1
  <2> QED
    BY <1>0, <2>1, <2>2, DirectoryStep
<1>6. CASE Extract /\ w = main.w
  <2> DEFINE d == [c |-> zip[w].c, t |-> now + 1]
  <2>1. UNCHANGED <<zip, archive, zips>> /\ local' \in {local, [local EXCEPT ![w] = d]}
    BY <1>6 DEF Extract
  <2>2. d.c.of = w
    BY <1>0 DEF Files, Held
  <2> HIDE DEF d
  <2>3. local'[w] = local[w] \/ local'[w].c.of = w
    BY <1>1, <2>1, <2>2
  <2> QED
    BY <1>0, <2>1, <2>3, DirectoryStep
<1>7. CASE OthersWrite
  <2>1. PICK x \in Works \ {Temp} :
          zip' = [zip EXCEPT ![x] = [c |-> [of |-> x, v |-> now + 1], t |-> now + 1, whole |-> TRUE]]
    BY <1>7 DEF OthersWrite
  <2>2. UNCHANGED <<local, archive, zips>>
    BY <1>7 DEF OthersWrite
  <2>3. zip'[w] = zip[w] \/ (zip'[w].c.of = w /\ zip'[w].whole)
    BY <1>1, <2>1
  <2> QED
    BY <1>0, <2>2, <2>3 DEF Files, LocalOwn, OneRun, RunOwn, Held, Runs
<1>8. CASE RunZip /\ \E z \in Runs(w) : StepOf(z)
  <2>1. PICK z \in Runs(w) : StepOf(z)
    BY <1>8
  <2>2. z.src = w /\ z.dest = w
    BY <1>0 DEF Files, RunOwn
  <2>3. ~TakeOthers(z) /\ (FailZip(z) => z.step # "copy")
    BY <2>2 DEF TakeOthers, FailZip
  <2> QED
    BY <1>0, <2>1, <2>3, RunStep
<1>9. CASE OnFileChanged /\ local[Head(queue)] # NoDir /\ w \in {Head(queue), workfile}
  <2> DEFINE h == Head(queue)
  <2>1. /\ queue # <<>> /\ zips' = zips \cup {Run(h, workfile, TRUE)}
        /\ archive' = [archive EXCEPT ![h] = Opened(h)] /\ UNCHANGED <<now, local, zip>>
        /\ mixed' = mixed \cup (IF h # workfile THEN {h, workfile} ELSE {})
                          \cup (IF Contended(h) THEN {h} ELSE {})
    BY <1>9 DEF OnFileChanged
  <2>2. host = "storyboardpro"
    BY <1>0, <2>1 DEF ControlInv, WatcherInv
  <2>3. h = workfile /\ w = h
    BY <1>9, <2>1
  <2>4. \A z \in zips : z.src # w
    BY <2>1, <2>2, <2>3 DEF Contended
  <2>5. local[w] # NoDir
    BY <1>9, <2>3
  <2> HIDE DEF h
  <2> QED
    BY <1>0, <2>1, <2>3, <2>4, <2>5, NewRun
<1>10. CASE (ZipSaved /\ w \in {main.w, workfile}) \/ (ZipSavedAs /\ w = main.w)
  <2>1. w = main.w /\ \E b \in BOOLEAN : zips' = zips \cup {Run(w, w, b)}
    <3>1. CASE ZipSaved /\ w \in {main.w, workfile}
      <4>1. main.w = app.w /\ Parted \subseteq mixed
        BY <1>0, <3>1 DEF ZipSaved, At, ControlInv, AppInv
      <4>2. w = main.w /\ workfile = w
        BY <1>0, <3>1, <4>1 DEF Parted
      <4>3. PICK b \in BOOLEAN : zips' = zips \cup {Run(main.w, workfile, b)}
        BY <3>1 DEF ZipSaved, Zip
      <4> QED
        BY <4>2, <4>3
    <3>2. CASE ZipSavedAs /\ w = main.w
      BY <3>2 DEF ZipSavedAs, Zip
    <3> QED
      BY <1>10, <3>1, <3>2
  <2>2. /\ archive' = [archive EXCEPT ![w] = Opened(w)] /\ main.step = "zip"
        /\ mixed' = mixed \cup (IF Contended(w) THEN {w} ELSE {}) /\ UNCHANGED <<now, local, zip>>
    BY <1>10, <2>1 DEF ZipSaved, ZipSavedAs, Zip, At
  <2>3. local[w] # NoDir
    BY <1>0, <2>1, <2>2 DEF ControlInv, ZipInv
  <2>4. \A z \in zips : z.src # w
    <3>1. CASE host = "harmony"
      BY <1>0, <2>2, <3>1 DEF ControlInv, WaitInv
    <3>2. CASE host = "storyboardpro"
      BY <2>2, <3>2 DEF Contended
    <3> QED
      BY <1>0, <3>1, <3>2
  <2> QED
    BY <1>0, <2>1, <2>2, <2>3, <2>4, NewRun
<1> QED
  BY <1>0, <1>2, <1>3, <1>4, <1>5, <1>6, <1>7, <1>8, <1>9, <1>10, Touched DEF Touching

-----------------------------------------------------------------------------
\* The invariant holds at first.
LEMMA InitInv == Init => SceneInv
<1> SUFFICES ASSUME Init
             PROVE  SceneInv
  OBVIOUS
<1>1. wire = <<>> /\ queue = <<>> /\ zips = {} /\ workfile = Temp /\ main = Idle /\ app = Launched(Temp)
  BY DEF Init
<1>2. app.w = Temp /\ ~app.signal
  BY <1>1, LaunchedParts, SceneAssumption
<1>3. ControlInv
  BY <1>1, <1>2, IdleParts DEF ControlInv, WatcherInv, AppInv, ZipInv, WaitInv, Parted
<1>4. ASSUME NEW w \in Works
      PROVE  Files(w)
  <2>1. LocalOwn(w)
    BY DEF Init, LocalOwn
  <2>2. Held(w)
    BY DEF Init, Held
  <2>3. OneRun(w) /\ RunOwn(w)
    BY <1>1 DEF OneRun, RunOwn, Runs
  <2> QED
    BY <2>1, <2>2, <2>3 DEF Files
<1> QED
  BY <1>3, <1>4, InitTypes DEF SceneInv, FilesInv

\* Every step keeps it.
LEMMA SceneStep == SceneInv /\ [Next]_vars => SceneInv'
  BY StepTypes, WatcherStep, AppStep, ZipStep, WaitStep, FilesStep DEF SceneInv, ControlInv

\* No run of zip_and_move, late as it may be, puts one scene into the work file
\* of another or leaves half an archive there, except in the work files that a
\* race of two runs, a stale message or a Save As or move that failed half-way
\* has involved: nothing carries the damage any further.  In Harmony no two runs
\* ever race.
THEOREM WorkFilesOwn == Spec => []OwnScene
<1>1. SceneInv /\ [Next]_vars => SceneInv'
  BY SceneStep
<1>2. SceneInv => OwnScene
  BY DEF SceneInv, FilesInv, Files, Held, OwnScene, Runs
<1> QED
  BY <1>1, <1>2, InitInv, PTL DEF Spec

-----------------------------------------------------------------------------
(***************************************************************************)
(* What may be at stake in a directory.  Work files overtake directories   *)
(* in time only with a newer scene, an archive on its way carries the      *)
(* scene of its directory, and what was promised to a work file is there,  *)
(* on its way, or still in the directory and about to be archived.         *)
(***************************************************************************)
Past(d, t) == d.c.v <= t /\ d.t <= t
Timely ==
  \A w \in Works :
    Past(local[w], now) /\ Past(zip[w], now) /\ Past(archive[w], now) /\ due[w] <= now

\* The file f may replace the directory d, if it is newer.
Safe(d, f) == d.t >= f.t \/ d.c.v <= f.c.v

Extracting(w) == main.step = "extract" /\ main.w = w
Kept(w) ==
  /\ local[w] = NoDir \/ Safe(local[w], zip[w])
  /\ \A z \in Runs(w) : /\ local[w] # NoDir /\ Safe(local[w], archive[w])
                        /\ z.step = "archive" => archive[w].c = local[w].c
  /\ Extracting(w) => local[w] = NoDir

Told(w) == \E i \in DOMAIN queue : queue[i] = w

\* The scene a work file will hold when its run has ended, and whether the
\* directory is going to be archived once more.
Landing(w) == IF Runs(w) # {} THEN archive[w].c.v ELSE zip[w].c.v
Owed(w)    == local[w] # NoDir /\ Told(w)
Promised(w) ==
  /\ local[w] = NoDir \/ local[w].c.v >= due[w]
  /\ due[w] <= Landing(w) \/ Owed(w)

RestOf(w) == Kept(w) /\ Promised(w)

\* Only Harmony saves under another name, and only opening extracts.
StageInv ==
  /\ main.what = "saveas" => host = "harmony"
  /\ main.step = "extract" => main.what = "open"

SettledInv == StageInv /\ Timely /\ \A w \in Works \ (mixed \cup behind) : RestOf(w)

\* Times and versions are numbers.
LEMMA Numbers ==
  ASSUME TypeOK
  PROVE  /\ now \in Nat
         /\ \A w \in Works : /\ local[w].c.v \in Nat /\ local[w].t \in Nat
                             /\ zip[w].c.v \in Nat /\ zip[w].t \in Nat
                             /\ archive[w].c.v \in Nat /\ archive[w].t \in Nat
                             /\ due[w] \in Nat
<1>1. \A c \in SceneType : c.v \in Nat
  BY DEF SceneType
<1>2. \A w \in Works : local[w] \in DirType /\ zip[w] \in FileType /\ archive[w] \in FileType
                       /\ due[w] \in Nat
  BY DEF TypeOK, FileTypeOK, ControlTypeOK
<1> QED
  BY <1>1, <1>2, FileParts DEF TypeOK, FileTypeOK

\* A directory that is missing holds nothing.
LEMMA NoDirParts == NoDir.c.v = 0 /\ NoDir.t = 0 /\ NoArchive.c.v = 0 /\ NoArchive.t = 0
  BY DEF NoDir, NoArchive

\* The scene and the time of a save.
LEMMA SaveTimes ==
  ASSUME TypeOK, NEW w \in Works, WriteScene(w)
  PROVE  /\ now' = now + 1 /\ local'[w].c.v = now + 1 /\ local'[w].t = now + 1
         /\ local'[w] # NoDir /\ \A y \in Works \ {w} : local'[y] = local[y]
<1>1. local \in [Works -> DirType]
  BY DEF TypeOK, FileTypeOK
<1>2. now' = now + 1 /\ local'[w] = [c |-> [of |-> w, v |-> now + 1], t |-> now + 1]
  BY <1>1 DEF WriteScene, Tick
<1>3. local'[w].c.v = now + 1 /\ local'[w].t = now + 1
  BY <1>2
<1> QED
  BY <1>2, <1>3, SceneWritten

-----------------------------------------------------------------------------
(* What steps do to what is promised, told and extracted.                  *)

\* A scene is promised as it is in its directory: when a message is queued, or
\* when a save is about to be zipped.
LEMMA DueStep ==
  ASSUME TypeOK, [Next]_vars, NEW w \in Works
  PROVE  \/ due'[w] = due[w]
         \/ due'[w] = local[w].c.v /\ (Told(w)' \/ ((ZipSaved \/ ZipSavedAs) /\ w = main.w))
<1>1. queue \in Seq(Works) /\ wire \in Seq(Works) /\ due \in [Works -> Nat]
  BY DEF TypeOK, ControlTypeOK
<1>2. CASE Receive
  <2> DEFINE h == Head(wire)
  <2>1. wire # <<>> /\ queue' = Append(queue, h) /\ due' = [due EXCEPT ![h] = local[h].c.v]
    BY <1>2 DEF Receive
  <2>2. h \in Works
    BY <1>1, <2>1
  <2> HIDE DEF h
  <2>3. CASE w = h
    <3>1. Len(queue) + 1 \in DOMAIN queue' /\ queue'[Len(queue) + 1] = w
      BY <1>1, <2>1, <2>2, <2>3
    <3>2. Told(w)'
      BY <3>1 DEF Told
    <3> QED
      BY <1>1, <2>1, <2>3, <3>2
  <2>4. CASE w # h
    BY <1>1, <2>1, <2>2, <2>4
  <2> QED
    BY <2>3, <2>4
<1>3. CASE ZipSaved \/ ZipSavedAs
  <2>1. due' = [due EXCEPT ![main.w] = local[main.w].c.v]
    BY <1>3 DEF ZipSaved, ZipSavedAs, Replied
  <2>2. CASE w = main.w
    BY <1>1, <1>3, <2>1, <2>2
  <2>3. CASE w # main.w
    BY <1>1, <2>1, <2>3
  <2> QED
    BY <2>2, <2>3
<1>4. CASE UserSave \/ OthersWrite \/ RunZip \/ OnFileChanged \/ SaveAll
             \/ ClearDirectory \/ SceneSaveAs \/ CheckLocal \/ Extract
  BY <1>4 DEF UserSave, OthersWrite, RunZip, OnFileChanged, SaveAll, ClearDirectory, SceneSaveAs,
              CheckLocal, Extract
<1>5. CASE CloseApplication \/ RunScript \/ Notify \/ Calling \/ UNCHANGED vars
  BY <1>5, CallingFrame DEF CloseApplication, RunScript, Notify, vars
<1> QED
  BY <1>2, <1>3, <1>4, <1>5, NextCases DEF Serving, Filing

\* Sequences: what is told of is not at the head, or new at the end.
LEMMA ToldTail ==
  ASSUME NEW q \in Seq(Works), q # <<>>, NEW w \in Works, Head(q) # w,
         NEW i \in DOMAIN q, q[i] = w
  PROVE  \E j \in DOMAIN Tail(q) : Tail(q)[j] = w
<1>1. i # 1 /\ i \in 1..Len(q)
  OBVIOUS
<1>2. i - 1 \in DOMAIN Tail(q) /\ Tail(q)[i - 1] = q[i]
  BY <1>1
<1> QED
  BY <1>2

LEMMA ToldAppend ==
  ASSUME NEW q \in Seq(Works), NEW e \in Works, NEW i \in DOMAIN q
  PROVE  i \in DOMAIN Append(q, e) /\ Append(q, e)[i] = q[i]
  OBVIOUS

\* The message about a directory is handled in its turn.
LEMMA ToldStep ==
  ASSUME TypeOK, [Next]_vars, NEW w \in Works, Told(w)
  PROVE  Told(w)' \/ (OnFileChanged /\ w = Head(queue))
<1>1. queue \in Seq(Works) /\ wire \in Seq(Works)
  BY DEF TypeOK, ControlTypeOK
<1>2. PICK i \in DOMAIN queue : queue[i] = w
  BY DEF Told
<1>3. CASE queue' = queue
  BY <1>2, <1>3 DEF Told
<1>4. CASE Receive
  <2>1. queue' = Append(queue, Head(wire)) /\ Head(wire) \in Works
    BY <1>1, <1>4 DEF Receive
  <2> QED
    BY <1>1, <1>2, <2>1, ToldAppend DEF Told
<1>5. CASE OnFileChanged /\ w # Head(queue)
  <2>1. queue # <<>> /\ queue' = Tail(queue)
    BY <1>5 DEF OnFileChanged
  <2> QED
    BY <1>1, <1>2, <1>5, <2>1, ToldTail DEF Told
<1>6. CloseApplication \/ RunScript \/ Notify \/ Calling \/ UNCHANGED vars => queue' = queue
  BY CallingFrame DEF CloseApplication, RunScript, Notify, vars, pythonVars
<1>7. UserSave \/ OthersWrite \/ RunZip \/ SaveAll \/ ZipSaved \/ ClearDirectory \/ SceneSaveAs
        \/ ZipSavedAs \/ CheckLocal \/ Extract => queue' = queue
  BY DEF UserSave, OthersWrite, RunZip, SaveAll, ZipSaved, ClearDirectory, SceneSaveAs, ZipSavedAs,
         CheckLocal, Extract, pythonVars
<1> QED
  BY <1>3, <1>4, <1>5, <1>6, <1>7, NextCases DEF Serving, Filing

\* A directory is only extracted after it has been checked.
LEMMA ExtractingStep ==
  ASSUME TypeOK, [Next]_vars, NEW w \in Works, Extracting(w)'
  PROVE  main' = main \/ (CheckLocal /\ w = main.w /\ To("extract"))
<1>1. main \in MainType
  BY DEF TypeOK, ControlTypeOK
<1>2. ASSUME NEW step \in Steps \ {"extract"}, To(step)
      PROVE  FALSE
  BY <1>1, <1>2, MainParts DEF To, Extracting
<1>3. main' # Idle
  BY IdleParts DEF Extracting
<1>4. CASE CheckLocal
  <2>1. To("extract")
    BY <1>2, <1>3, <1>4 DEF CheckLocal, Steps
  <2>2. main'.w = main.w
    BY <1>1, <2>1, MainParts DEF To, Steps
  <2> QED
    BY <1>4, <2>1, <2>2 DEF Extracting
<1>5. ~SaveAll /\ ~ZipSaved /\ ~ClearDirectory /\ ~SceneSaveAs /\ ~ZipSavedAs /\ ~Extract
  <2>1. ~SaveAll /\ ~SceneSaveAs
    BY <1>2 DEF SaveAll, SceneSaveAs, Steps
  <2>2. ~ZipSaved /\ ~ZipSavedAs
    BY <1>2 DEF ZipSaved, ZipSavedAs, Steps
  <2>3. ~ClearDirectory
    BY <1>2, <1>3 DEF ClearDirectory, Steps
  <2>4. Extract => To("start") \/ main' = Idle
    BY DEF Extract
  <2> QED
    BY <1>2, <1>3, <2>1, <2>2, <2>3, <2>4 DEF Steps
<1>6. ~ZippedSaved /\ ~EnableWatcher /\ ~CallFails
  BY <1>2, <1>3 DEF ZippedSaved, EnableWatcher, CallFails, Unanswered, Steps
<1>7. ~BeginSaveScene /\ ~BeginSaveAs /\ ~BeginOpen
  BY DEF BeginSaveScene, BeginSaveAs, BeginOpen, Begin, Extracting
<1>8. ~EndSaveAs /\ ~SaveAsFails /\ ~StartApplication /\ ~KillRaises
  BY <1>3 DEF EndSaveAs, SaveAsFails, StartApplication, KillRaises
<1>9. RunZip => main' = main
  BY <1>3 DEF RunZip, MakeArchive, TakeOthers, BeginMove, EndMove, FailZip
<1>10. Serving \/ UserSave \/ OthersWrite \/ OnFileChanged \/ UNCHANGED vars => main' = main
  BY ServingFrame DEF UserSave, OthersWrite, OnFileChanged, vars, pythonVars
<1> QED
  BY <1>4, <1>5, <1>6, <1>7, <1>8, <1>9, <1>10, NextCases DEF Calling, Filing

-----------------------------------------------------------------------------
(* The clock.                                                              *)

\* Whatever is written now, carries a scene that is there, or goes, is past.
LEMMA PastKept ==
  ASSUME TypeOK, Timely, now' \in {now, now + 1},
         \A w \in Works : /\ local'[w] = local[w] \/ Past(local'[w], now')
                          /\ zip'[w] = zip[w] \/ Past(zip'[w], now')
                          /\ archive'[w] = archive[w] \/ Past(archive'[w], now')
                          /\ due'[w] = due[w] \/ due'[w] = local[w].c.v
  PROVE  Timely'
  BY Numbers DEF Timely, Past

\* A run takes one of its steps.
LEMMA RunPast ==
  ASSUME TypeOK, Timely, NEW z \in zips, StepOf(z), NEW w \in Works
  PROVE  /\ now' \in {now, now + 1} /\ local' = local
         /\ zip'[w] = zip[w] \/ Past(zip'[w], now')
         /\ archive'[w] = archive[w] \/ Past(archive'[w], now')
<1>1. /\ z.src \in Works /\ z.dest \in Works /\ local \in [Works -> DirType]
      /\ zip \in [Works -> FileType] /\ archive \in [Works -> FileType] /\ zips \in SUBSET RunType
  BY RunParts DEF TypeOK, FileTypeOK
<1>2. CASE MakeArchive(z)
  <2> DEFINE a == [c |-> archive[z.src].c, t |-> now + 1, whole |-> \A y \in zips \ {z} : y.src # z.src]
  <2>1. archive' = [archive EXCEPT ![z.src] = a] /\ now' = now + 1 /\ UNCHANGED <<local, zip>>
    BY <1>2 DEF MakeArchive, Tick
  <2>2. Past(a, now + 1)
    BY <1>1, Numbers DEF Timely, Past
  <2> HIDE DEF a
  <2>3. archive'[w] = archive[w] \/ archive'[w] = a
    BY <1>1, <2>1
  <2> QED
    BY <2>1, <2>2, <2>3
<1>3. CASE TakeOthers(z)
  <2>1. PICK y \in zips : archive' = [archive EXCEPT ![z.src].c = local[y.src].c]
    BY <1>3 DEF TakeOthers
  <2>2. UNCHANGED <<now, local, zip>> /\ y.src \in Works
    BY <1>1, <1>3, RunParts DEF TakeOthers
  <2> DEFINE a == [archive[z.src] EXCEPT !.c = local[y.src].c]
  <2>3. a.c = local[y.src].c /\ a.t = archive[z.src].t
    BY <1>1 DEF FileType
  <2>4. Past(a, now)
    BY <1>1, <2>2, <2>3 DEF Timely, Past
  <2>5. archive' = [archive EXCEPT ![z.src] = a]
    BY <2>1
  <2> HIDE DEF a
  <2>6. archive'[w] = archive[w] \/ archive'[w] = a
    BY <1>1, <2>5
  <2> QED
    BY <2>2, <2>4, <2>6
<1>4. CASE BeginMove(z)
  <2>1. zip' = [zip EXCEPT ![z.dest] = Incomplete(z.dest)] /\ UNCHANGED <<now, local, archive>>
    BY <1>4 DEF BeginMove
  <2>2. Past(Incomplete(z.dest), now)
    BY <1>1 DEF Timely, Past, Incomplete
  <2>3. zip'[w] = zip[w] \/ zip'[w] = Incomplete(z.dest)
    BY <1>1, <2>1
  <2> QED
    BY <2>1, <2>2, <2>3
<1>5. Past(NoArchive, now)
  BY NoDirParts, Numbers DEF Past
<1>6. CASE EndMove(z)
  <2>1. /\ zip' = [zip EXCEPT ![z.dest] = archive[z.src]] /\ archive' = [archive EXCEPT ![z.src] = NoArchive]
        /\ UNCHANGED <<now, local>>
    BY <1>6 DEF EndMove
  <2>2. Past(archive[z.src], now)
    BY <1>1 DEF Timely
  <2>3. (zip'[w] = zip[w] \/ zip'[w] = archive[z.src]) /\ (archive'[w] = archive[w] \/ archive'[w] = NoArchive)
    BY <1>1, <2>1
  <2> QED
    BY <1>5, <2>1, <2>2, <2>3
<1>7. CASE FailZip(z)
  <2>1. archive' = [archive EXCEPT ![z.src] = NoArchive] /\ UNCHANGED <<now, local, zip>>
    BY <1>7 DEF FailZip
  <2>2. archive'[w] = archive[w] \/ archive'[w] = NoArchive
    BY <1>1, <2>1
  <2> QED
    BY <1>5, <2>1, <2>2
<1> QED
  BY <1>2, <1>3, <1>4, <1>6, <1>7 DEF StepOf

\* Every step keeps it.
LEMMA TimelyStep == TypeOK /\ Timely /\ [Next]_vars => Timely'
<1> SUFFICES ASSUME TypeOK, Timely, [Next]_vars
             PROVE  Timely'
  OBVIOUS
<1>1. /\ app.w \in Works /\ main.w \in Works /\ local \in [Works -> DirType] /\ zip \in [Works -> FileType]
      /\ archive \in [Works -> FileType] /\ queue \in Seq(Works)
  BY AppParts, MainParts DEF TypeOK, ControlTypeOK, FileTypeOK
<1>2. \A w \in Works : due'[w] = due[w] \/ due'[w] = local[w].c.v
  BY DueStep
<1>3. Past(NoDir, now)
  BY NoDirParts, Numbers DEF Past
<1>4. CASE UNCHANGED fileVars
  BY <1>2, <1>4, PastKept DEF fileVars
<1>5. ASSUME NEW s \in Works, WriteScene(s), UNCHANGED <<zip, archive>>
      PROVE  Timely'
  <2>1. now' = now + 1 /\ Past(local'[s], now') /\ \A w \in Works \ {s} : local'[w] = local[w]
    BY <1>5, SaveTimes, Numbers DEF Past
  <2> QED
    BY <1>2, <1>5, <2>1, PastKept
<1>6. CASE UserSave \/ SaveAll \/ SceneSaveAs
  <2>1. (WriteScene(app.w) \/ WriteScene(main.w)) /\ UNCHANGED <<zip, archive>>
    BY <1>6 DEF UserSave, SaveAll, SceneSaveAs
  <2> QED
    BY <1>1, <1>5, <2>1
<1>7. CASE OthersWrite
  <2>1. PICK s \in Works \ {Temp} :
          zip' = [zip EXCEPT ![s] = [c |-> [of |-> s, v |-> now + 1], t |-> now + 1, whole |-> TRUE]]
    BY <1>7 DEF OthersWrite
  <2> DEFINE a == [c |-> [of |-> s, v |-> now + 1], t |-> now + 1, whole |-> TRUE]
  <2>2. now' = now + 1 /\ UNCHANGED <<local, archive>>
    BY <1>7 DEF OthersWrite, Tick
  <2>3. Past(a, now + 1)
    BY Numbers DEF Past
  <2>4. \A w \in Works : zip'[w] = zip[w] \/ zip'[w] = a
    BY <1>1, <2>1
  <2> HIDE DEF a
  <2>5. \A w \in Works : zip'[w] = zip[w] \/ Past(zip'[w], now')
    BY <2>2, <2>3, <2>4
  <2> QED
    BY <1>2, <2>2, <2>5, PastKept
<1>8. CASE RunZip
  <2>1. PICK z \in zips : StepOf(z)
    BY <1>8 DEF RunZip, StepOf
  <2>2. /\ now' \in {now, now + 1} /\ local' = local
        /\ \A w \in Works : /\ zip'[w] = zip[w] \/ Past(zip'[w], now')
                            /\ archive'[w] = archive[w] \/ Past(archive'[w], now')
    <3>1. now' \in {now, now + 1} /\ local' = local
      BY <1>1, <2>1, RunPast
    <3> QED
      BY <2>1, <3>1, RunPast
  <2> QED
    BY <1>2, <2>2, PastKept
<1>9. ASSUME NEW s \in Works, archive' = [archive EXCEPT ![s] = Opened(s)], UNCHANGED <<now, local, zip>>
      PROVE  Timely'
  <2>1. Past(Opened(s), now)
    BY Numbers DEF Timely, Past, Opened
  <2>2. \A w \in Works : archive'[w] = archive[w] \/ archive'[w] = Opened(s)
    BY <1>1, <1>9
  <2> QED
    BY <1>2, <1>9, <2>1, <2>2, PastKept
<1>10. CASE OnFileChanged \/ ZipSaved \/ ZipSavedAs
  <2>1. CASE OnFileChanged
    <3>1. Head(queue) \in Works
      BY <1>1, <2>1 DEF OnFileChanged
    <3>2. UNCHANGED <<now, local, zip>>
          /\ (archive' = archive \/ archive' = [archive EXCEPT ![Head(queue)] = Opened(Head(queue))])
      BY <2>1 DEF OnFileChanged
    <3> QED
      BY <1>4, <1>9, <3>1, <3>2 DEF fileVars
  <2>2. CASE ZipSaved \/ ZipSavedAs
    <3>1. archive' = [archive EXCEPT ![main.w] = Opened(main.w)] /\ UNCHANGED <<now, local, zip>>
      BY <2>2 DEF ZipSaved, ZipSavedAs, Zip
    <3> QED
      BY <1>1, <1>9, <3>1
  <2> QED
    BY <1>10, <2>1, <2>2
<1>11. CASE ClearDirectory \/ CheckLocal
  <2>1. UNCHANGED <<now, zip, archive>> /\ local' \in {local, [local EXCEPT ![main.w] = NoDir]}
    BY <1>11 DEF ClearDirectory, CheckLocal
  <2>2. \A w \in Works : local'[w] = local[w] \/ local'[w] = NoDir
    BY <1>1, <2>1
  <2> QED
    BY <1>2, <1>3, <2>1, <2>2, PastKept
<1>12. CASE Extract
  <2> DEFINE d == [c |-> zip[main.w].c, t |-> now + 1]
  <2>1. UNCHANGED <<zip, archive>>
        /\ \/ local' = local /\ now' = now
           \/ local' = [local EXCEPT ![main.w] = d] /\ now' = now + 1
    BY <1>12 DEF Extract, Tick
  <2>2. Past(d, now + 1)
    BY <1>1, Numbers DEF Timely, Past
  <2> HIDE DEF d
  <2>3. \A w \in Works : local'[w] = local[w] \/ Past(local'[w], now')
    BY <1>1, <2>1, <2>2
  <2> QED
    BY <1>2, <2>1, <2>3, PastKept
<1>13. Serving \/ Calling \/ UNCHANGED vars => UNCHANGED fileVars
  BY ServingFrame, CallingFrame DEF vars
<1> QED
  BY <1>4, <1>6, <1>7, <1>8, <1>10, <1>11, <1>12, <1>13, NextCases DEF Filing

-----------------------------------------------------------------------------
(* What is at stake in one directory.                                      *)

\* A step that leaves the directory and its work file alone.
LEMMA RestSame ==
  ASSUME TypeOK, Timely, NEW w \in Works, RestOf(w), Untouched(w),
         due'[w] = due[w] \/ (due'[w] = local[w].c.v /\ Told(w)'),
         local[w] # NoDir /\ Told(w) => Told(w)',
         Extracting(w)' => local[w] = NoDir
  PROVE  RestOf(w)'
<1>1. Kept(w)'
  BY DEF Untouched, RestOf, Kept
<1>2. Landing(w)' = Landing(w) /\ Landing(w) \in Nat
  BY Numbers DEF Untouched, Landing
<1>3. Owed(w) => Owed(w)'
  BY DEF Untouched, Owed
<1>4. local[w] = NoDir => local[w].c.v = 0
  BY NoDirParts
<1>5. Promised(w)'
  <2>1. CASE due'[w] = due[w]
    BY <1>2, <1>3, <2>1 DEF Untouched, RestOf, Promised
  <2>2. CASE due'[w] = local[w].c.v /\ Told(w)'
    BY <1>2, <1>4, <2>2, Numbers DEF Untouched, Owed, Promised
  <2> QED
    BY <2>1, <2>2
<1> QED
  BY <1>1, <1>5 DEF RestOf

\* A scene is saved that nobody archives or replaces.
LEMMA SaveRest ==
  ASSUME TypeOK, Timely, NEW w \in Works, Files(w), RestOf(w), WriteScene(w), ~Archiving(w),
         UNCHANGED <<zip, archive, zips, queue, due>>, ~Extracting(w)'
  PROVE  RestOf(w)'
<1>1. local'[w].c.v = now + 1 /\ local'[w].t = now + 1 /\ local'[w] # NoDir
  BY SaveTimes
<1>2. Runs(w)' = Runs(w) /\ \A z \in Runs(w) : z.step # "archive"
  BY DEF Runs, Files, RunOwn, Archiving
<1>3. Safe(local'[w], zip[w]) /\ Safe(local'[w], archive[w])
  BY <1>1, Numbers DEF Timely, Past, Safe
<1>4. Kept(w)'
  BY <1>1, <1>2, <1>3 DEF Kept
<1>5. Landing(w)' = Landing(w) /\ Told(w)' = Told(w)
  BY <1>2 DEF Landing, Told
<1>6. Promised(w)'
  BY <1>1, <1>5, Numbers DEF RestOf, Promised, Timely, Owed
<1> QED
  BY <1>4, <1>6 DEF RestOf

\* A directory that nobody archives is deleted, and its work file holds what
\* was promised.
LEMMA DeleteRest ==
  ASSUME NEW w \in Works, local'[w] = NoDir, UNCHANGED <<zip, archive, zips, due>>,
         Runs(w) = {}, due[w] <= zip[w].c.v
  PROVE  RestOf(w)'
<1>1. Runs(w)' = {}
  BY DEF Runs
<1> QED
  BY <1>1 DEF RestOf, Kept, Promised, Landing

\* Opening extracts the work file into a directory that is not there.
LEMMA ExtractRest ==
  ASSUME TypeOK, Timely, NEW w \in Works, Files(w), RestOf(w), Extract, w = main.w
  PROVE  RestOf(w)'
<1>1. /\ Extracting(w) /\ main \in MainType /\ local \in [Works -> DirType]
      /\ UNCHANGED <<zip, archive, zips, queue, due>>
  BY DEF Extract, At, Extracting, TypeOK, ControlTypeOK, FileTypeOK
<1>2. local[w] = NoDir /\ Runs(w) = {}
  BY <1>1 DEF RestOf, Kept
<1>3. zip[w].whole
  BY <1>2 DEF Files, Held
<1>4. /\ now' = now + 1 /\ local' = [local EXCEPT ![w] = [c |-> zip[w].c, t |-> now + 1]]
      /\ To("start")
  BY <1>3 DEF Extract, Tick
<1>5. local'[w].c = zip[w].c /\ local'[w].t = now + 1
  BY <1>1, <1>4
<1>6. ~Extracting(w)' /\ Runs(w)' = {}
  BY <1>1, <1>2, <1>4, MainParts DEF To, Steps, Extracting, Runs
<1>7. Kept(w)'
  BY <1>1, <1>5, <1>6, Numbers DEF Kept, Safe
<1>8. Promised(w)'
  BY <1>1, <1>2, <1>5, <1>6, Numbers DEF RestOf, Promised, Landing, Owed
<1> QED
  BY <1>7, <1>8 DEF RestOf

\* Others write a work file that is not being written.
LEMMA OthersRest ==
  ASSUME TypeOK, Timely, NEW w \in Works, RestOf(w), OthersWrite
  PROVE  RestOf(w)'
<1>1. PICK x \in Works \ {Temp} :
        zip' = [zip EXCEPT ![x] = [c |-> [of |-> x, v |-> now + 1], t |-> now + 1, whole |-> TRUE]]
  BY DEF OthersWrite
<1>2. UNCHANGED <<local, archive, zips, queue, main, due>>
  BY DEF OthersWrite, pythonVars
<1>3. zip'[w] = zip[w] \/ (zip'[w].c.v = now + 1 /\ zip'[w].t = now + 1)
  BY <1>1 DEF TypeOK, FileTypeOK
<1>4. Runs(w)' = Runs(w) /\ Told(w)' = Told(w) /\ Extracting(w)' = Extracting(w)
  BY <1>2 DEF Runs, Told, Extracting
<1>5. local[w] = NoDir \/ Safe(local[w], zip'[w])
  BY <1>3, Numbers DEF Timely, Past, RestOf, Kept, Safe
<1>6. Kept(w)'
  BY <1>2, <1>4, <1>5 DEF RestOf, Kept, Safe
<1>7. Landing(w)' = Landing(w) \/ Landing(w)' = now + 1
  BY <1>2, <1>3, <1>4 DEF Landing
<1>8. Promised(w)'
  BY <1>2, <1>4, <1>7, Numbers DEF RestOf, Promised, Owed, Timely
<1> QED
  BY <1>6, <1>8 DEF RestOf

\* An archive is made and moved; its scene stays that of its directory.
LEMMA RunRest ==
  ASSUME TypeOK, Timely, NEW w \in Works, Files(w), RestOf(w), NEW z \in Runs(w), StepOf(z),
         ~TakeOthers(z), ~FailZip(z), UNCHANGED <<queue, due>>
  PROVE  RestOf(w)'
<1>1. /\ zip \in [Works -> FileType] /\ archive \in [Works -> FileType]
      /\ z.src = w /\ z.dest = w /\ Runs(w) = {z}
  BY RunGoes DEF TypeOK, FileTypeOK
<1>2. UNCHANGED <<local, main>>
  BY DEF StepOf, MakeArchive, BeginMove, EndMove
<1>3. /\ local[w] # NoDir /\ Safe(local[w], zip[w]) /\ Safe(local[w], archive[w])
      /\ (z.step = "archive" => archive[w].c = local[w].c)
  BY DEF RestOf, Kept
<1>4. Told(w)' = Told(w) /\ Extracting(w)' = Extracting(w) /\ ~Extracting(w)
  BY <1>2, <1>3 DEF Told, Extracting, RestOf, Kept
<1>5. CASE MakeArchive(z)
  <2>1. /\ z.step = "archive" /\ zip' = zip
        /\ archive' = [archive EXCEPT ![w] = [c |-> archive[w].c, t |-> now + 1,
                                             whole |-> \A y \in zips \ {z} : y.src # w]]
    BY <1>1, <1>5 DEF MakeArchive
  <2>2. archive'[w].c = archive[w].c
    BY <1>1, <2>1
  <2>3. Runs(w)' # {} /\ \A y \in Runs(w)' : y.step = "move"
    BY <1>5, RunGoes DEF MakeArchive, Go
  <2>4. Safe(local[w], archive'[w])
    BY <1>3, <2>1, <2>2, Numbers DEF Safe
  <2>5. Kept(w)'
    BY <1>2, <1>3, <1>4, <2>1, <2>3, <2>4 DEF Kept, Safe
  <2>6. Promised(w)'
    BY <1>1, <1>2, <1>4, <2>2, <2>3 DEF RestOf, Promised, Landing, Owed
  <2> QED
    BY <2>5, <2>6 DEF RestOf
<1>6. CASE BeginMove(z)
  <2>1. zip' = [zip EXCEPT ![w] = Incomplete(w)] /\ archive' = archive
    BY <1>1, <1>6 DEF BeginMove
  <2>2. zip'[w].c = zip[w].c /\ zip'[w].t = zip[w].t
    BY <1>1, <2>1 DEF Incomplete
  <2>3. Runs(w)' # {} /\ \A y \in Runs(w)' : y.step = "copy"
    BY <1>6, RunGoes DEF BeginMove, Go
  <2>4. Kept(w)'
    BY <1>2, <1>3, <1>4, <2>1, <2>2, <2>3 DEF Kept, Safe
  <2>5. Promised(w)'
    BY <1>1, <1>2, <1>4, <2>1, <2>3 DEF RestOf, Promised, Landing, Owed
  <2> QED
    BY <2>4, <2>5 DEF RestOf
<1>7. CASE EndMove(z)
  <2>1. zip' = [zip EXCEPT ![w] = archive[w]]
    BY <1>1, <1>7 DEF EndMove
  <2>2. zip'[w] = archive[w]
    BY <1>1, <2>1
  <2>3. Runs(w)' = {}
    BY <1>7, RunGoes DEF EndMove
  <2>4. Kept(w)'
    BY <1>2, <1>3, <1>4, <2>2, <2>3 DEF Kept, Safe
  <2>5. Promised(w)'
    BY <1>1, <1>2, <1>4, <2>2, <2>3 DEF RestOf, Promised, Landing, Owed
  <2> QED
    BY <2>4, <2>5 DEF RestOf
<1> QED
  BY <1>5, <1>6, <1>7 DEF StepOf

\* A run is begun for a directory that nobody archives: the work file will hold
\* what was promised to it.
LEMMA NewRunRest ==
  ASSUME TypeOK, NEW w \in Works, NEW b \in BOOLEAN, Files(w), RestOf(w),
         local[w] # NoDir, \A z \in zips : z.src # w,
         zips' = zips \cup {Run(w, w, b)}, archive' = [archive EXCEPT ![w] = Opened(w)],
         UNCHANGED <<now, local, zip>>, due'[w] \in {due[w], local[w].c.v}, ~Extracting(w)'
  PROVE  RestOf(w)'
<1>1. Runs(w)' = {Run(w, w, b)} /\ archive'[w] = Opened(w)
  BY NewRun
<1>2. Opened(w).c = local[w].c /\ Opened(w).t = 0
  BY DEF Opened
<1>3. Safe(local[w], archive'[w])
  BY <1>1, <1>2, Numbers DEF Safe
<1>4. Kept(w)'
  BY <1>1, <1>2, <1>3 DEF RestOf, Kept, Safe
<1>5. Landing(w)' = local[w].c.v
  BY <1>1, <1>2 DEF Landing
<1>6. Promised(w)'
  BY <1>5, Numbers DEF RestOf, Promised
<1> QED
  BY <1>4, <1>6 DEF RestOf

-----------------------------------------------------------------------------
LEMMA StageStep == TypeOK /\ StageInv /\ [Next]_vars => StageInv'
<1> SUFFICES ASSUME TypeOK, StageInv, [Next]_vars
             PROVE  StageInv'
  OBVIOUS
<1>1. host' = host /\ main \in MainType
  BY Monotone DEF TypeOK, ControlTypeOK
<1>2. ASSUME NEW step \in Steps \ {"extract"}, To(step)
      PROVE  main'.what = main.what /\ main'.step # "extract"
  BY <1>1, <1>2, MainParts DEF To
<1>3. CASE main' = main \/ main' = Idle \/ \E step \in Steps \ {"extract"} : To(step)
  BY <1>1, <1>2, <1>3, IdleParts DEF StageInv
<1>4. CASE BeginSaveScene \/ BeginSaveAs \/ BeginOpen
  BY <1>1, <1>4 DEF BeginSaveScene, BeginSaveAs, BeginOpen, Begin, StageInv
<1>5. CASE CheckLocal
  <2>1. main.what = "open" /\ \E step \in {"extract", "start"} : To(step) \/ main' = Idle
    BY <1>5 DEF CheckLocal, At
  <2>2. ASSUME NEW step \in Steps, To(step)
        PROVE  main'.what = main.what
    BY <1>1, <2>2, MainParts DEF To
  <2>3. main'.what = "open" \/ main' = Idle
    BY <2>1, <2>2 DEF Steps
  <2> QED
    BY <2>3, IdleParts DEF StageInv
<1>6. Serving \/ UserSave \/ OthersWrite \/ OnFileChanged \/ UNCHANGED vars => main' = main
  BY ServingFrame DEF UserSave, OthersWrite, OnFileChanged, vars, pythonVars
<1>7. RunZip => main' = main \/ main' = Idle
  BY DEF RunZip, MakeArchive, TakeOthers, BeginMove, EndMove, FailZip
<1>8. EndSaveAs \/ SaveAsFails \/ StartApplication \/ KillRaises => main' = Idle
  BY DEF EndSaveAs, SaveAsFails, StartApplication, KillRaises
<1>9. ZippedSaved \/ EnableWatcher \/ CallFails \/ ClearDirectory \/ Extract =>
        main' = Idle \/ To("enable") \/ To("hung") \/ To("save") \/ To("start")
  BY DEF ZippedSaved, EnableWatcher, CallFails, Unanswered, ClearDirectory, Extract
<1>10. SaveAll \/ SceneSaveAs \/ ZipSaved \/ ZipSavedAs => To("zip") \/ To("wait") \/ To("enable")
  BY DEF SaveAll, SceneSaveAs, ZipSaved, ZipSavedAs
<1> QED
  BY <1>3, <1>4, <1>5, <1>6, <1>7, <1>8, <1>9, <1>10, NextCases DEF Calling, Filing, Steps

\* Every step keeps what is at stake, unless it adds to the excepted work files.
LEMMA RestStep ==
  ASSUME SceneInv, SettledInv, [Next]_vars, NEW w \in Works, w \notin mixed' \cup behind'
  PROVE  RestOf(w)'
<1>0. /\ TypeOK /\ ControlInv /\ StageInv /\ Timely /\ Files(w) /\ RestOf(w)
      /\ w \notin mixed \cup behind
  BY Monotone DEF SceneInv, SettledInv, FilesInv
<1>1. /\ app.w \in Works /\ main.w \in Works /\ main \in MainType
      /\ local \in [Works -> DirType] /\ queue \in Seq(Works)
      /\ host \in {"harmony", "storyboardpro"}
  BY <1>0, AppParts, MainParts DEF TypeOK, ControlTypeOK, FileTypeOK
<1>2. Extracting(w)' => main' = main \/ (CheckLocal /\ w = main.w /\ To("extract"))
  BY <1>0, ExtractingStep
<1>3. CASE ~Touching(w)
  <2>1. Untouched(w)
    BY <1>0, <1>3, Touched
  <2>2. due'[w] = due[w] \/ (due'[w] = local[w].c.v /\ Told(w)')
    BY <1>0, <1>3, DueStep DEF Touching
  <2>3. local[w] # NoDir /\ Told(w) => Told(w)'
    BY <1>0, <1>3, ToldStep DEF Touching
  <2>4. Extracting(w)' => local[w] = NoDir
    <3>1. Extracting(w)' => main' = main
      BY <1>2, <1>3 DEF Touching
    <3> QED
      BY <1>0, <3>1 DEF Extracting, RestOf, Kept
  <2> QED
    BY <1>0, <2>1, <2>2, <2>3, <2>4, RestSame
<1>4. CASE (UserSave \/ SaveAll) /\ w = app.w
  <2>1. WriteScene(w) /\ UNCHANGED <<zip, archive, zips, queue, due>> /\ RacingSave
    BY <1>4 DEF UserSave, SaveAll, pythonVars
  <2>2. ~Archiving(w) /\ ~(main.what = "open" /\ main.w = w)
    BY <1>4, <2>1 DEF RacingSave
  <2>3. ~Extracting(w)'
    <3>1. Extracting(w)' => main' = main
      BY <1>2, <1>4 DEF UserSave, SaveAll, CheckLocal, At, pythonVars
    <3> QED
      BY <1>0, <2>2, <3>1 DEF Extracting, StageInv
  <2> QED
    BY <1>0, <2>1, <2>2, <2>3, SaveRest
<1>5. CASE SceneSaveAs /\ w = main.w
  <2>1. /\ WriteScene(w) /\ UNCHANGED <<zip, archive, zips, queue, due>>
        /\ main.what = "saveas" /\ main.step = "save" /\ To("zip")
    BY <1>5 DEF SceneSaveAs, At
  <2>2. zips = {}
    BY <1>0, <2>1 DEF StageInv, ControlInv, WaitInv
  <2>3. ~Archiving(w)
    BY <2>2 DEF Archiving
  <2>4. ~Extracting(w)'
    BY <1>1, <2>1, MainParts DEF To, Steps, Extracting
  <2> QED
    BY <1>0, <2>1, <2>3, <2>4, SaveRest
<1>6. CASE (ClearDirectory \/ CheckLocal) /\ w = main.w
  <2>1. /\ UNCHANGED <<now, zip, archive, zips, queue, due>> /\ main.step \in {"clear", "check"}
        /\ local' \in {local, [local EXCEPT ![w] = NoDir]}
    BY <1>6 DEF ClearDirectory, CheckLocal, At
  <2>2. Untouched(w) \/ (local[w] # NoDir /\ local'[w] = NoDir /\ local' # local)
    BY <1>1, <2>1 DEF Untouched, Runs
  <2>3. CASE Untouched(w)
    <3>1. Told(w)' = Told(w) /\ ~Extracting(w)
      BY <2>1 DEF Told, Extracting
    <3>2. Extracting(w)' => local[w] = NoDir
      <4>1. Extracting(w)' => CheckLocal /\ To("extract")
        BY <1>2, <3>1 DEF Extracting
      <4>2. CheckLocal /\ To("extract") => local[w] = NoDir \/ local'[w] = NoDir
        BY <1>1, <1>6 DEF CheckLocal, To, MainType, Idle
      <4> QED
        BY <2>3, <4>1, <4>2 DEF Untouched
    <3> QED
      BY <1>0, <2>1, <2>3, <3>1, <3>2, RestSame
  <2>4. CASE local[w] # NoDir /\ local'[w] = NoDir /\ local' # local
    <3>1. CASE ClearDirectory
      <4>1. main.what = "saveas" /\ main.step = "clear"
        BY <3>1 DEF ClearDirectory, At
      <4>2. zips = {} /\ queue = <<>>
        BY <1>0, <4>1 DEF StageInv, ControlInv, WaitInv, WatcherInv
      <4>3. Runs(w) = {} /\ ~Told(w)
        BY <4>2 DEF Runs, Told
      <4>4. due[w] <= zip[w].c.v
        BY <1>0, <4>3 DEF RestOf, Promised, Landing, Owed
      <4> QED
        BY <2>1, <2>4, <4>3, <4>4, DeleteRest
    <3>2. CASE CheckLocal
      <4>1. Older(w) /\ behind' = behind \cup IF \E z \in zips : z.src = w THEN {w} ELSE {}
        BY <1>6, <2>4, <3>2 DEF CheckLocal
      <4>2. \A z \in zips : z.src # w
        BY <4>1
      <4>3. Runs(w) = {}
        BY <1>0, <4>2 DEF Files, RunOwn, Runs
      <4>4. due[w] <= zip[w].c.v
        BY <1>0, <2>4, <4>1, Numbers DEF RestOf, Kept, Promised, Safe, Older
      <4> QED
        BY <2>1, <2>4, <4>3, <4>4, DeleteRest
    <3> QED
      BY <1>6, <3>1, <3>2
  <2> QED
    BY <2>2, <2>3, <2>4
<1>7. CASE Extract /\ w = main.w
  BY <1>0, <1>7, ExtractRest
<1>8. CASE OthersWrite
  BY <1>0, <1>8, OthersRest
<1>9. CASE RunZip /\ \E z \in Runs(w) : StepOf(z)
  <2>1. PICK z \in Runs(w) : StepOf(z)
    BY <1>9
  <2>2. z.src = w /\ z.dest = w
    BY <1>0 DEF Files, RunOwn
  <2>3. ~TakeOthers(z) /\ ~FailZip(z)
    BY <2>2 DEF TakeOthers, FailZip
  <2>4. UNCHANGED <<queue, due>>
    BY <1>9 DEF RunZip
  <2> QED
    BY <1>0, <2>1, <2>3, <2>4, RunRest
<1>10. CASE OnFileChanged /\ local[Head(queue)] # NoDir /\ w \in {Head(queue), workfile}
  <2> DEFINE h == Head(queue)
  <2>1. /\ zips' = zips \cup {Run(h, workfile, TRUE)} /\ queue # <<>> /\ main = Idle /\ main' = main
        /\ archive' = [archive EXCEPT ![h] = Opened(h)] /\ UNCHANGED <<now, local, zip, due>>
        /\ mixed' = mixed \cup (IF h # workfile THEN {h, workfile} ELSE {})
                          \cup (IF Contended(h) THEN {h} ELSE {})
    BY <1>10 DEF OnFileChanged
  <2>2. host = "storyboardpro"
    BY <1>0, <1>1, <2>1 DEF ControlInv, WatcherInv
  <2>3. h = workfile /\ w = h
    BY <1>10, <2>1
  <2>4. (\A z \in zips : z.src # w) /\ local[w] # NoDir
    BY <1>10, <2>1, <2>2, <2>3 DEF Contended
  <2>5. ~Extracting(w)'
    BY <2>1, IdleParts DEF Extracting
  <2> HIDE DEF h
  <2> QED
    BY <1>0, <2>1, <2>3, <2>4, <2>5, NewRunRest
<1>11. CASE (ZipSaved /\ w \in {main.w, workfile}) \/ (ZipSavedAs /\ w = main.w)
  <2>1. w = main.w /\ \E b \in BOOLEAN : zips' = zips \cup {Run(w, w, b)}
    <3>1. CASE ZipSaved /\ w \in {main.w, workfile}
      <4>1. main.w = app.w /\ Parted \subseteq mixed
        BY <1>0, <3>1 DEF ZipSaved, At, ControlInv, AppInv
      <4>2. w = main.w /\ workfile = w
        BY <1>0, <3>1, <4>1 DEF Parted
      <4>3. PICK b \in BOOLEAN : zips' = zips \cup {Run(main.w, workfile, b)}
        BY <3>1 DEF ZipSaved, Zip
      <4> QED
        BY <4>2, <4>3
    <3>2. CASE ZipSavedAs /\ w = main.w
      BY <3>2 DEF ZipSavedAs, Zip
    <3> QED
      BY <1>11, <3>1, <3>2
  <2>2. /\ archive' = [archive EXCEPT ![w] = Opened(w)] /\ main.step = "zip"
        /\ mixed' = mixed \cup (IF Contended(w) THEN {w} ELSE {}) /\ UNCHANGED <<now, local, zip>>
        /\ due' = [due EXCEPT ![w] = local[w].c.v] /\ (To("wait") \/ To("enable"))
    BY <1>11, <2>1 DEF ZipSaved, ZipSavedAs, Zip, At, Replied
  <2>3. local[w] # NoDir
    BY <1>0, <2>1, <2>2 DEF ControlInv, ZipInv
  <2>4. \A z \in zips : z.src # w
    <3>1. CASE host = "harmony"
      BY <1>0, <2>2, <3>1 DEF ControlInv, WaitInv
    <3>2. CASE host = "storyboardpro"
      BY <2>2, <3>2 DEF Contended
    <3> QED
      BY <1>1, <3>1, <3>2
  <2>5. ~Extracting(w)'
    BY <1>1, <2>2, MainParts DEF To, Steps, Extracting
  <2>6. due'[w] \in {due[w], local[w].c.v}
    BY <1>0, <2>2 DEF TypeOK, ControlTypeOK
  <2> QED
    BY <1>0, <2>1, <2>2, <2>3, <2>4, <2>5, <2>6, NewRunRest
<1> QED
  BY <1>3, <1>4, <1>5, <1>6, <1>7, <1>8, <1>9, <1>10, <1>11 DEF Touching

\* At first nothing is promised.
LEMMA InitSettled == Init => SettledInv
<1> SUFFICES ASSUME Init
             PROVE  SettledInv
  OBVIOUS
<1>1. \A w \in Works : /\ zip[w].c.v = 1 /\ zip[w].t = 2 /\ archive[w] = NoArchive /\ due[w] = 0
  BY DEF Init
<1>2. ASSUME NEW w \in Works
      PROVE  local[w] = NoDir \/ (local[w].t = 3 /\ local[w].c.v \in {1, 3})
  <2>1. \/ local[w] = [c |-> [of |-> w, v |-> 1], t |-> 3]
        \/ local[w] = [c |-> [of |-> w, v |-> 3], t |-> 3] \/ local[w] = NoDir
    BY DEF Init
  <2> QED
    BY <2>1
<1>3. now = 3 /\ zips = {} /\ main = Idle
  BY DEF Init
<1>4. Timely
  BY <1>1, <1>2, <1>3, NoDirParts DEF Timely, Past
<1>5. ASSUME NEW w \in Works
      PROVE  RestOf(w)
  <2>1. Runs(w) = {} /\ ~Extracting(w)
    BY <1>3, IdleParts DEF Runs, Extracting
  <2>2. Kept(w)
    BY <1>1, <1>2, <2>1 DEF Kept, Safe
  <2>3. Promised(w)
    BY <1>1, <1>2, <2>1 DEF Promised, Landing
  <2> QED
    BY <2>2, <2>3 DEF RestOf
<1> QED
  BY <1>3, <1>4, <1>5, IdleParts DEF SettledInv, StageInv

\* The invariants together.
LEMMA SettledInvariant == Spec => [](SceneInv /\ SettledInv)
<1>1. SceneInv /\ SettledInv /\ [Next]_vars => (SceneInv /\ SettledInv)'
  <2> SUFFICES ASSUME SceneInv, SettledInv, [Next]_vars
               PROVE  SceneInv' /\ SettledInv'
    OBVIOUS
  <2>1. SceneInv'
    BY SceneStep
  <2>2. StageInv' /\ Timely'
    BY StageStep, TimelyStep DEF SceneInv, SettledInv
  <2>3. \A w \in Works \ (mixed' \cup behind') : RestOf(w)'
    BY RestStep
  <2> QED
    BY <2>1, <2>2, <2>3 DEF SettledInv
<1> QED
  BY <1>1, InitInv, InitSettled, PTL DEF Spec

\* A work file whose runs have ended and whose messages are handled holds a scene
\* at least as recent as the last one the integration was told of or saved
\* itself: nothing that was promised gets lost between the message, the archive
\* and the move, except where a race or a failure involves this very work file.
THEOREM PromisesKept == Spec => []RestSaved
<1>1. SceneInv /\ SettledInv => RestSaved
  <2> SUFFICES ASSUME SceneInv, SettledInv, NEW w \in Works \ (mixed \cup behind),
                      \A z \in zips : z.src # w, \A i \in DOMAIN queue : queue[i] # w
               PROVE  zip[w].c.v >= due[w]
    BY DEF RestSaved
  <2>1. Files(w) /\ RestOf(w) /\ TypeOK
    BY DEF SceneInv, SettledInv, FilesInv
  <2>2. Runs(w) = {} /\ ~Owed(w)
    BY <2>1 DEF Files, RunOwn, Runs, Owed, Told
  <2> QED
    BY <2>1, <2>2, Numbers DEF RestOf, Promised, Landing
<1> QED
  BY <1>1, SettledInvariant, PTL

\* Opening a work file deletes a local directory only if the work file holds a
\* scene at least as recent: comparing modification times is enough for every
\* work file and directory that no race and no failure has involved.
THEOREM DirectoriesKept == Spec => LocalKept
<1>1. SceneInv /\ SettledInv /\ [Next]_vars =>
        [\A w \in Works \ (mixed \cup behind) :
           main.what = "open" /\ local'[w] # local[w] /\ local'[w] = NoDir =>
             local[w].c.v <= zip[w].c.v]_vars
  <2> SUFFICES ASSUME SceneInv, SettledInv, [Next]_vars, NEW w \in Works \ (mixed \cup behind),
                      main.what = "open", local'[w] # local[w], local'[w] = NoDir
               PROVE  local[w].c.v <= zip[w].c.v
    OBVIOUS
  <2>1. TypeOK /\ Files(w) /\ RestOf(w) /\ local \in [Works -> DirType]
    BY DEF SceneInv, SettledInv, FilesInv, TypeOK, FileTypeOK
  <2>2. Touching(w)
    BY <2>1, Touched DEF Untouched
  <2>3. CASE CheckLocal
    <3>1. local' = [local EXCEPT ![main.w] = NoDir] /\ Older(main.w) /\ local[main.w] # NoDir
      BY <2>3 DEF CheckLocal
    <3>2. w = main.w /\ local[w].t < zip[w].t /\ local[w] # NoDir
      BY <2>1, <3>1 DEF Older
    <3> QED
      BY <2>1, <3>2, Numbers DEF RestOf, Kept, Safe
  <2>4. CASE Extract
    <3>1. local' = [local EXCEPT ![main.w] = [c |-> zip[main.w].c, t |-> now + 1]]
      BY <2>4 DEF Extract
    <3>2. w = main.w /\ local'[w].t = now + 1
      BY <2>1, <3>1
    <3> QED
      BY <2>1, <3>2, Numbers, NoDirParts
  <2>5. CASE UserSave /\ w = app.w
    <3>1. WriteScene(w)
      BY <2>5 DEF UserSave
    <3> QED
      BY <2>1, <3>1, SaveTimes
  <2>6. ~SaveAll /\ ~ClearDirectory /\ ~SceneSaveAs /\ ~ZipSaved /\ ~ZipSavedAs
    BY DEF SaveAll, ClearDirectory, SceneSaveAs, ZipSaved, ZipSavedAs, At
  <2>7. ~OthersWrite /\ ~RunZip /\ ~OnFileChanged
    BY DEF OthersWrite, RunZip, OnFileChanged, MakeArchive, TakeOthers, BeginMove, EndMove, FailZip
  <2> QED
    BY <2>2, <2>3, <2>4, <2>5, <2>6, <2>7 DEF Touching
<1> QED
  BY <1>1, SettledInvariant, PTL DEF Spec, LocalKept

-----------------------------------------------------------------------------
(***************************************************************************)
(* SceneInventory: the types, that the list shows the scene, that updates  *)
(* reach the last version, and that a full choice can be carried out.      *)
(***************************************************************************)

Published == (SUBSET ReprNames) \ {{}}

\* The documents.
DocTypes ==
  /\ versions \in [Subsets -> Seq(Published)] /\ \A s \in Subsets : Len(versions[s]) <= MaxVersion
  /\ hero \in [Subsets -> [of : 0..MaxVersion, repres : SUBSET ReprNames]]
  /\ archived \subseteq Repres /\ lost \subseteq Repres /\ docs \in Nat
  /\ scene \in [Containers -> Repres \cup {NoRepre}]

\* The list.
ListTypes ==
  /\ DOMAIN view \subseteq Containers /\ \A c \in DOMAIN view : view[c] \in Repres
  /\ unknown \subseteq DOMAIN view /\ picked \subseteq Containers /\ hierarchy \in BOOLEAN

\* The menu and the command chosen in it.
TodoType == [what : {"none", "update", "remove"}, version : Int, left : SUBSET Containers, since : Nat \X Nat]
CommandTypes ==
  /\ DOMAIN menu.items \subseteq Containers /\ \A c \in DOMAIN menu.items : menu.items[c] \in Repres
  /\ todo \in TodoType /\ todo.left \subseteq DOMAIN menu.items
  /\ offered \subseteq 0..MaxVersion
  /\ pc \in {"idle", "menu", "version", "switch", "switched", "run"}
  /\ raised \in BOOLEAN /\ moved \in BOOLEAN /\ acts \in Nat
  /\ sites \in [Followed -> [active_site : BOOLEAN, remote_site : BOOLEAN]]

\* The switch dialog.
AssetChoices == {s.asset : s \in Subsets} \cup {NoChoice}
SubsetChoices == {s.name : s \in Subsets} \cup {NoChoice}
DialogType == [asset : AssetChoices, subset : SubsetChoices, repre : ReprNames \cup {NoChoice},
               subsets : SUBSET SubsetChoices, repres : SUBSET ReprNames, content : SUBSET Repres,
               archived : SUBSET Repres, missing : BOOLEAN, enabled : BOOLEAN, filling : BOOLEAN, since : Nat]

SceneTypes == DocTypes /\ ListTypes /\ CommandTypes /\ dlg \in DialogType

-----------------------------------------------------------------------------
(* Documents.                                                              *)

\* A representation that is found is one of those there may be.
LEMMA FoundType ==
  ASSUME DocTypes, NEW s \in Subsets, NEW v, v # LatestVersion, NEW n,
         Found([subset |-> s, version |-> v, name |-> n])
  PROVE  [subset |-> s, version |-> v, name |-> n] \in Repres
<1>1. /\ HasVersion(s, v)
      /\ n \in IF v = HeroVersion THEN hero[s].repres ELSE versions[s][v]
  BY DEF Found
<1>2. versions[s] \in Seq(Published) /\ Len(versions[s]) \in Nat /\ Len(versions[s]) <= MaxVersion
      /\ hero[s] \in [of : 0..MaxVersion, repres : SUBSET ReprNames] /\ MaxVersion \in Nat
  BY BoundsAssumption DEF DocTypes
<1>3. CASE v = HeroVersion
  <2>1. n \in ReprNames /\ v \in 0..MaxVersion
    BY <1>1, <1>2, <1>3 DEF HeroVersion
  <2> QED
    BY <2>1 DEF Repres
<1>4. CASE v # HeroVersion
  <2>1. v \in 1..Len(versions[s])
    BY <1>1, <1>4 DEF HasVersion, LatestVersion, Latest
  <2>2. n \in ReprNames /\ v \in 0..MaxVersion
    BY <1>1, <1>2, <1>4, <2>1 DEF Published
  <2> QED
    BY <2>2 DEF Repres
<1> QED
  BY <1>3, <1>4

\* What other users do keeps the types of the documents.
LEMMA ElsewhereTypes == DocTypes /\ Elsewhere => DocTypes'
<1> SUFFICES ASSUME DocTypes, Elsewhere PROVE DocTypes'
  OBVIOUS
<1>1. scene' = scene /\ docs' = docs + 1 /\ docs' \in Nat
  BY DEF Elsewhere, PublishVersion, PublishHero, ArchiveRepre, DeleteRepre, DocStep, DocTypes
<1>2. ASSUME NEW s \in Subsets, PublishVersion(s)
      PROVE  DocTypes'
  <2>1. PICK names \in Published : versions' = [versions EXCEPT ![s] = Append(@, names)]
    BY <1>2 DEF PublishVersion, Published
  <2>2. versions[s] \in Seq(Published) /\ Len(versions[s]) \in Nat /\ Len(versions[s]) < MaxVersion /\ MaxVersion \in Nat
    BY <1>2, BoundsAssumption DEF PublishVersion, Latest, DocTypes
  <2>3. Append(versions[s], names) \in Seq(Published) /\ Len(Append(versions[s], names)) <= MaxVersion
    BY <2>2
  <2>4. versions' \in [Subsets -> Seq(Published)] /\ \A q \in Subsets : Len(versions'[q]) <= MaxVersion
    BY <2>1, <2>3 DEF DocTypes
  <2> QED
    BY <1>1, <1>2, <2>4 DEF PublishVersion, DocTypes
<1>3. ASSUME NEW s \in Subsets, PublishHero(s)
      PROVE  DocTypes'
  <2>1. versions[s] \in Seq(Published) /\ Len(versions[s]) \in Nat /\ 0 < Len(versions[s]) /\ Len(versions[s]) <= MaxVersion
        /\ MaxVersion \in Nat
    BY <1>3, BoundsAssumption DEF PublishHero, Latest, DocTypes
  <2>2. versions[s][Len(versions[s])] \in Published
    BY <2>1
  <2>3. [of |-> Latest(s), repres |-> versions[s][Latest(s)]] \in [of : 0..MaxVersion, repres : SUBSET ReprNames]
    BY <2>1, <2>2 DEF Latest, Published
  <2> QED
    BY <1>1, <1>3, <2>3 DEF PublishHero, DocTypes
<1>4. ASSUME NEW r \in Repres, ArchiveRepre(r) \/ DeleteRepre(r)
      PROVE  DocTypes'
  BY <1>1, <1>4 DEF ArchiveRepre, DeleteRepre, DocTypes
<1> QED
  BY <1>2, <1>3, <1>4 DEF Elsewhere

-----------------------------------------------------------------------------
(* The hierarchy of the containers.                                        *)

\* A branch holds the containers it starts with and the children of its own,
\* and only containers that are present but for those.
LEMMA Branches ==
  ASSUME NEW P \in SUBSET Containers
  PROVE  /\ P \subseteq Branch(P) /\ Branch(P) \subseteq Containers
         /\ Children(Branch(P)) \subseteq Branch(P)
         /\ Branch(P) \subseteq P \cup Present
<1>1. \A S \in SUBSET Containers : Children(S) \subseteq Present /\ Children(S) \subseteq Containers
  BY DEF Children, Present
<1>2. \A S, T \in SUBSET Containers : S \subseteq T => Children(S) \subseteq Children(T)
  BY DEF Children
<1>3. P \subseteq Branch(P) /\ Branch(P) \subseteq Containers
  BY DEF Branch
<1>4. \A T \in SUBSET Containers : P \subseteq T /\ Children(T) \subseteq T => Branch(P) \subseteq T
  BY DEF Branch
<1>5. ASSUME NEW c \in Children(Branch(P))
      PROVE  c \in Branch(P)
  <2>1. c \in Containers
    BY <1>1, <1>3, <1>5
  <2>2. ASSUME NEW T \in SUBSET Containers, P \subseteq T, Children(T) \subseteq T
        PROVE  c \in T
    <3>1. Branch(P) \subseteq T
      BY <1>4, <2>2
    <3> QED
      BY <1>2, <1>3, <1>5, <2>2, <3>1
  <2> QED
    BY <2>1, <2>2 DEF Branch
<1>6. Branch(P) \subseteq P \cup Present
  <2>1. P \cup Present \in SUBSET Containers
    BY DEF Present
  <2> QED
    BY <1>1, <1>4, <2>1
<1> QED
  BY <1>3, <1>5, <1>6

\* A container in the branch of another one is present, and its parent is in
\* that branch too, and not itself.
LEMMA BranchStep ==
  ASSUME NEW e \in Containers, NEW c \in Branch({e}), c # e
  PROVE  c \in Present /\ Parent[c] \in Branch({e}) \ {c}
<1> DEFINE T == Branch({e}) \ {c}
<1>1. /\ e \in Branch({e}) /\ Branch({e}) \subseteq Containers /\ Children(Branch({e})) \subseteq Branch({e})
  BY Branches
<1>2. T \in SUBSET Containers /\ {e} \subseteq T
  BY <1>1
<1>3. ~(Children(T) \subseteq T)
  <2>1. Children(T) \subseteq T => Branch({e}) \subseteq T
    BY <1>2 DEF Branch
  <2> QED
    BY <2>1
<1>4. PICK d \in Children(T) : d \notin T
  BY <1>3
<1>5. d \in Children(Branch({e}))
  BY <1>4 DEF Children
<1>6. d = c
  BY <1>1, <1>4, <1>5
<1> QED
  BY <1>4, <1>6 DEF Children

\* Among containers of a branch there is one that none of the others is above.
LEMMA Topmost ==
  ASSUME NEW G \in SUBSET Containers, G # {}
  PROVE  \E t \in G : Above(t) \cap G = {}
<1> DEFINE U == UNION {Branch({e}) : e \in G}
<1>1. G \subseteq U /\ U \in SUBSET Containers /\ U # {}
  <2>1. ASSUME NEW e \in G
        PROVE  e \in Branch({e}) /\ Branch({e}) \subseteq Containers
    <3>1. {e} \in SUBSET Containers
      OBVIOUS
    <3> QED
      BY <3>1, Branches
  <2>2. G \subseteq U /\ U \in SUBSET Containers
    BY <2>1
  <2> HIDE DEF U
  <2> QED
    BY <2>2
<1>2. PICK t \in U : Parent[t] \notin U \ {t}
  <2> HIDE DEF U
  <2> QED
    BY <1>1, ToolAssumption
<1>3. ASSUME NEW e \in G, t \in Branch({e})
      PROVE  t = e
  <2>1. Branch({e}) \subseteq U
    OBVIOUS
  <2> QED
    BY <1>2, <1>3, <2>1, BranchStep
<1>4. t \in G
  <2>1. PICK e \in G : t \in Branch({e})
    BY <1>2
  <2> QED
    BY <1>3, <2>1
<1>5. Above(t) \cap G = {}
  BY <1>3 DEF Above
<1> QED
  BY <1>4, <1>5

\* The hierarchy is that of the containers of the scene.
LEMMA SameBranches ==
  ASSUME UNCHANGED scene
  PROVE  Present' = Present /\ \A S : Branch(S)' = Branch(S)
<1>1. Present' = Present
  BY DEF Present
<1>2. \A T : Children(T)' = Children(T)
  BY <1>1 DEF Children
<1>3. ASSUME NEW S
      PROVE  Branch(S)' = Branch(S)
  BY <1>2 DEF Branch
<1> QED
  BY <1>1, <1>3

\* What the list shows is what the scene's containers are made of.
ViewMatches ==
  /\ \A c \in DOMAIN view : view[c] = scene[c]
  /\ ~hierarchy => DOMAIN view = Present
  /\ hierarchy /\ unknown = {} => DOMAIN view = Branch(picked)

\* A refresh that does not raise makes it so.
LEMMA Refreshing ==
  ASSUME SceneTypes, NEW h \in BOOLEAN, NEW p \in SUBSET Containers, Refresh(h, p), UNCHANGED scene
  PROVE  /\ ListTypes' /\ raised' \in BOOLEAN /\ moved' = FALSE /\ hierarchy' = h /\ picked' = p
         /\ (h => p # {}) /\ ~raised' => ViewMatches'
<1> DEFINE gone == {c \in Present : ~Found(scene[c])}
           tree == h /\ p # {}
           rows == CASE ~tree -> Present
                     [] tree /\ ~Nested -> p \cap Present
                     [] tree /\ Nested /\ ~(p \subseteq Present) -> {}
                     [] OTHER -> {c \in Branch(p) : Above(c) \cap Branch(p) \cap gone = {}}
<1>1. /\ view' = [c \in rows |-> scene[c]] /\ unknown' = rows \cap gone
      /\ hierarchy' = h /\ picked' = p
      /\ raised' = (tree /\ (~Nested \/ ~(p \subseteq Present))) /\ moved' = FALSE
  BY DEF Refresh
<1>2. Nested \in BOOLEAN
  BY ToolAssumption
<1>3. ~tree => rows = Present
  OBVIOUS
<1>4. tree /\ Nested /\ p \subseteq Present => rows = {c \in Branch(p) : Above(c) \cap Branch(p) \cap gone = {}}
  BY <1>2
<1>5. Branch(p) \subseteq p \cup Present /\ p \subseteq Branch(p) /\ Branch(p) \subseteq Containers
  BY Branches
<1>6. rows \subseteq Present
  <2>1. CASE ~tree
    BY <1>3, <2>1
  <2>2. CASE tree /\ Nested /\ p \subseteq Present
    <3> HIDE DEF rows, gone
    <3> QED
      BY <1>4, <1>5, <2>2
  <2>3. CASE tree /\ ~Nested
    BY <1>2, <2>3
  <2>4. CASE tree /\ Nested /\ ~(p \subseteq Present)
    BY <1>2, <2>4
  <2> QED
    BY <2>1, <2>2, <2>3, <2>4
<1>7. DOMAIN view' = rows /\ \A c \in rows : view'[c] = scene[c]
  <2> HIDE DEF rows
  <2> QED
    BY <1>1
<1>8. \A c \in Present : c \in Containers /\ scene[c] \in Repres
  BY DEF Present, SceneTypes, DocTypes
<1>9. ListTypes'
  <2> HIDE DEF rows, gone
  <2> QED
    BY <1>1, <1>6, <1>7, <1>8 DEF ListTypes
<1>10. ASSUME h => p # {}, ~raised'
       PROVE  ViewMatches'
  <2>1. Present' = Present /\ \A S : Branch(S)' = Branch(S)
    BY SameBranches
  <2>2. Branch(picked)' = Branch(p)
    BY <1>1, <2>1
  <2>3. \A c \in DOMAIN view' : view'[c] = scene'[c]
    BY <1>7
  <2>4. CASE ~h
    <3>1. DOMAIN view' = Present'
      BY <1>3, <1>7, <2>1, <2>4
    <3> QED
      BY <1>1, <2>3, <2>4, <3>1 DEF ViewMatches
  <2>5. CASE h
    <3>1. tree /\ Nested /\ p \subseteq Present
      BY <1>1, <1>2, <1>10, <2>5
    <3> HIDE DEF rows, gone, tree
    <3>2. ASSUME rows \cap gone = {}, Branch(p) \cap gone # {}
          PROVE  FALSE
      <4> DEFINE G == Branch(p) \cap gone
      <4>1. G \in SUBSET Containers
        BY <1>5
      <4>2. PICK t \in G : Above(t) \cap G = {}
        <5> HIDE DEF G
        <5> QED
          BY <3>2, <4>1, Topmost DEF G
      <4>3. t \in rows
        BY <1>4, <3>1, <4>2
      <4> QED
        BY <3>2, <4>2, <4>3
    <3>3. unknown' = {} => rows = Branch(p)
      BY <1>1, <1>4, <3>1, <3>2
    <3>4. hierarchy' /\ unknown' = {} => DOMAIN view' = Branch(picked)'
      BY <1>7, <2>2, <3>3
    <3> QED
      BY <1>1, <2>3, <2>5, <3>4 DEF ViewMatches
  <2> QED
    BY <2>4, <2>5
<1> QED
  BY <1>1, <1>2, <1>9, <1>10

-----------------------------------------------------------------------------
(* The switch dialog.                                                      *)

\* With everything chosen, the choices stand for a representation of the last
\* version of a subset.
FullChoice(d) ==
  NoChoice \notin {d.asset, d.subset, d.repre} =>
    LET s == [asset |-> d.asset, name |-> d.subset]
    IN s \in Subsets /\ IsRepre([subset |-> s, version |-> Latest(s), name |-> d.repre])

\* What the boxes offer.
LEMMA ValuesTypes ==
  ASSUME NEW d \in DialogType
  PROVE  SubsetValues(d) \subseteq SubsetChoices /\ RepreValues(d) \subseteq ReprNames
<1>1. ASSUME NEW X, NEW sets, \A S \in sets : S \subseteq X
      PROVE  Common(sets) \subseteq X
  BY <1>1 DEF Common
<1>2. \A a : SubsetNames(a) \subseteq SubsetChoices
  BY DEF SubsetNames, SubsetChoices
<1>3. \A s, v : NamesIn(s, v) \subseteq ReprNames
  BY DEF NamesIn
<1>4. SubsetValues(d) \subseteq SubsetChoices
  <2> DEFINE sets == {SubsetNames(a) : a \in IF d.asset # NoChoice THEN {d.asset}
                                              ELSE {r.subset.asset : r \in d.content \cup d.archived}}
  <2>1. \A S \in sets : S \subseteq SubsetChoices
    BY <1>2
  <2> HIDE DEF sets
  <2>2. Common(sets) \subseteq SubsetChoices
    BY <1>1, <2>1
  <2> QED
    BY <2>2 DEF sets, SubsetValues
<1>5. RepreValues(d) \subseteq ReprNames
  <2> DEFINE one == {NamesIn(r.subset, r.version) : r \in d.content \cup d.archived} \ {{}}
             last == LastNames(Chosen(d))
  <2>1. (\A S \in one : S \subseteq ReprNames) /\ (\A S \in last : S \subseteq ReprNames)
    BY <1>3 DEF LastNames
  <2> HIDE DEF one, last
  <2>2. Common(one) \subseteq ReprNames /\ Common(last) \subseteq ReprNames
    BY <1>1, <2>1
  <2> QED
    BY <2>2 DEF one, last, RepreValues
<1> QED
  BY <1>4, <1>5

\* The dialog after it was filled.
LEMMA Filling ==
  ASSUME DocTypes, NEW d \in DialogType
  PROVE  /\ Filled(d) \in DialogType
         /\ Filled(d).content = d.content /\ Filled(d).archived = d.archived /\ Filled(d).missing = d.missing
         /\ Filled(d).since \in {docs, d.since}
         /\ Filled(d).filling => FullChoice(Filled(d)) /\ Filled(d).since = docs
<1> DEFINE SV == SubsetValues(d)
           d1 == IF AssetOk(d) THEN [d EXCEPT !.subsets = SV, !.subset = Keep(@, SV)] ELSE d
           RV == RepreValues(d1)
           upTo == AssetOk(d) /\ SubsetOk(d1)
           d2 == IF upTo THEN [d1 EXCEPT !.repres = RV, !.repre = Keep(@, RV)] ELSE d1
           en == upTo /\ RepreOk(d2)
           F == IF upTo /\ ValuesRaise(d1) THEN [d1 EXCEPT !.filling = FALSE]
                ELSE [d2 EXCEPT !.enabled = en, !.filling = TRUE, !.since = docs]
<1>1. Filled(d) = F
  BY DEF Filled
<1>2. d.subset \in SubsetChoices /\ d.repre \in ReprNames \cup {NoChoice} /\ d.asset \in AssetChoices
  BY DEF DialogType
<1>3. Keep(d.subset, SV) \in SubsetChoices /\ SV \in SUBSET SubsetChoices /\ (Keep(d.subset, SV) # NoChoice => Keep(d.subset, SV) \in SV)
  BY <1>2, ValuesTypes DEF Keep, SubsetChoices
<1> HIDE DEF SV
<1>4. /\ d1 \in DialogType /\ d1.asset = d.asset /\ d1.repre = d.repre /\ d1.content = d.content
      /\ d1.archived = d.archived /\ d1.missing = d.missing /\ d1.since = d.since
      /\ AssetOk(d) => d1.subset = Keep(d.subset, SV)
  <2> DEFINE k == Keep(d.subset, SV)
  <2>1. d1 = IF AssetOk(d) THEN [d EXCEPT !.subsets = SV, !.subset = k] ELSE d
    OBVIOUS
  <2>2. k \in SubsetChoices
    BY <1>3
  <2> HIDE DEF k, d1
  <2>3. CASE AssetOk(d)
    <3>1. d1 = [d EXCEPT !.subsets = SV, !.subset = k]
      BY <2>1, <2>3
    <3>2. d1 \in DialogType
      BY <1>3, <2>2, <3>1 DEF DialogType
    <3> QED
      BY <3>1, <3>2 DEF DialogType, k
  <2>4. CASE ~AssetOk(d)
    BY <2>1, <2>4
  <2> QED
    BY <2>3, <2>4
<1> HIDE DEF d1
<1>5. Keep(d1.repre, RV) \in ReprNames \cup {NoChoice} /\ RV \in SUBSET ReprNames
      /\ (Keep(d1.repre, RV) # NoChoice => Keep(d1.repre, RV) \in RV)
  BY <1>2, <1>4, ValuesTypes DEF Keep
<1> HIDE DEF RV
<1>6. /\ d2 \in DialogType /\ d2.asset = d.asset /\ d2.subset = d1.subset /\ d2.content = d.content
      /\ d2.archived = d.archived /\ d2.missing = d.missing
      /\ upTo => d2.repre = Keep(d1.repre, RV)
  <2> DEFINE k == Keep(d1.repre, RV)
  <2>1. d2 = IF upTo THEN [d1 EXCEPT !.repres = RV, !.repre = k] ELSE d1
    OBVIOUS
  <2>2. k \in ReprNames \cup {NoChoice}
    BY <1>5
  <2> HIDE DEF k, d2
  <2>3. CASE upTo
    <3>1. d2 = [d1 EXCEPT !.repres = RV, !.repre = k]
      BY <2>1, <2>3
    <3>2. d2 \in DialogType
      BY <1>4, <1>5, <2>2, <3>1 DEF DialogType
    <3>3. d2.repre = k /\ d2.asset = d1.asset /\ d2.subset = d1.subset
      BY <1>4, <3>1 DEF DialogType
    <3>4. d2.content = d1.content /\ d2.archived = d1.archived /\ d2.missing = d1.missing
      BY <1>4, <3>1 DEF DialogType
    <3> QED
      BY <1>4, <3>2, <3>3, <3>4 DEF k
  <2>4. CASE ~upTo
    <3> HIDE DEF upTo
    <3> QED
      BY <1>4, <2>1, <2>4
  <2> QED
    BY <2>3, <2>4
<1> HIDE DEF d2
<1>7. en \in BOOLEAN /\ docs \in Nat
  BY DEF DocTypes
<1> HIDE DEF en
<1>8. CASE upTo /\ ValuesRaise(d1)
  <2>1. F = [d1 EXCEPT !.filling = FALSE]
    BY <1>8
  <2> HIDE DEF F
  <2>2. F \in DialogType /\ ~F.filling /\ F.since = d.since
    BY <1>4, <2>1 DEF DialogType
  <2>3. F.content = d.content /\ F.archived = d.archived /\ F.missing = d.missing
    BY <1>4, <2>1 DEF DialogType
  <2> QED
    BY <1>1, <2>2, <2>3
<1>9. CASE ~(upTo /\ ValuesRaise(d1))
  <2>1. F = [d2 EXCEPT !.enabled = en, !.filling = TRUE, !.since = docs]
    BY <1>9
  <2> HIDE DEF F
  <2>2. F \in DialogType
    BY <1>6, <1>7, <2>1 DEF DialogType
  <2>3. F.content = d.content /\ F.archived = d.archived /\ F.missing = d.missing
    BY <1>6, <2>1 DEF DialogType
  <2>4. F.asset = d.asset /\ F.subset = d1.subset /\ F.repre = d2.repre /\ F.since = docs
    BY <1>6, <2>1 DEF DialogType
  <2>5. ASSUME NoChoice \notin {F.asset, F.subset, F.repre}
        PROVE  [asset |-> F.asset, name |-> F.subset] \in Subsets
               /\ IsRepre([subset |-> [asset |-> F.asset, name |-> F.subset],
                            version |-> Latest([asset |-> F.asset, name |-> F.subset]), name |-> F.repre])
    <3>1. AssetOk(d) /\ SubsetOk(d1)
      BY <2>4, <2>5 DEF AssetOk, SubsetOk
    <3>2. F.subset \in SV /\ F.repre \in RV /\ ~ValuesRaise(d1)
      BY <1>3, <1>4, <1>5, <1>6, <1>9, <2>4, <2>5, <3>1
    <3>3. F.subset \in SubsetNames(F.asset)
      <4>1. d.asset # NoChoice
        BY <2>4, <2>5
      <4>2. SV = Common({SubsetNames(a) : a \in {d.asset}})
        BY <4>1 DEF SV, SubsetValues
      <4> QED
        BY <2>4, <3>2, <4>2 DEF Common
    <3>4. PICK s \in Subsets : s.asset = F.asset /\ s.name = F.subset
      BY <3>3 DEF SubsetNames
    <3>5. s = [asset |-> F.asset, name |-> F.subset]
      BY <3>4, SubsetsAssumption
    <3>6. d1.asset = F.asset /\ d1.subset = F.subset
      BY <1>4, <2>4
    <3>7. Chosen(d1) = {s}
      <4>1. Chosen(d1) = {q \in Subsets : q.asset \in {F.asset} /\ q.name \in {F.subset}}
        BY <2>5, <3>6 DEF Chosen
      <4>2. \A q \in Subsets : q.asset = F.asset /\ q.name = F.subset => q = s
        BY <3>5, SubsetsAssumption
      <4> QED
        BY <3>4, <4>1, <4>2
    <3>8. Latest(s) # 0
      BY <2>5, <3>2, <3>6, <3>7 DEF ValuesRaise
    <3>9. RV = Common(LastNames({s}))
      BY <2>5, <3>6, <3>7 DEF RV, RepreValues
    <3>10. F.repre \in NamesIn(s, Latest(s))
      BY <3>2, <3>9 DEF Common, LastNames
    <3> QED
      BY <3>4, <3>5, <3>10 DEF NamesIn
  <2> QED
    BY <1>1, <2>2, <2>3, <2>4, <2>5 DEF FullChoice
<1> QED
  BY <1>8, <1>9

-----------------------------------------------------------------------------
(* The inductive invariant.                                                *)

\* A menu is over some rows, something is picked in the hierarchy view, and a
\* command that ran is forgotten before the next menu.
MenuInv ==
  /\ pc = "menu" => DOMAIN menu.items # {}
  /\ hierarchy => picked # {}
  /\ todo.what # "none" => pc \in {"run", "idle"}

\* Between commands the list matches the scene, until the host changes it or an
\* exception keeps it from being refreshed.
ViewInv == pc \notin {"run", "switched"} /\ ~raised /\ ~moved => ViewMatches

\* What an update to the latest version is done with is there, unless something
\* was published or changed since it began.
LatestInv ==
  /\ todo.since[1] <= docs /\ todo.since[2] <= acts
  /\ todo.what = "update" /\ todo.version = LatestVersion /\ todo.since = <<docs, acts>> =>
       \A c \in DOMAIN menu.items \ todo.left : scene[c].version = Latest(scene[c].subset)

\* The switch dialog knows every item, and its choices are those of the documents
\* as they are, unless others changed them since it was filled.
DialogInv ==
  /\ dlg.since <= docs
  /\ pc = "switch" =>
       /\ \A c \in DOMAIN menu.items : menu.items[c] \in dlg.content \cup dlg.archived \/ dlg.missing
       /\ dlg.filling /\ dlg.since = docs => FullChoice(dlg)

WindowInv == SceneTypes /\ MenuInv /\ ViewInv /\ LatestInv /\ DialogInv

\* What other users change is no matter of the list and of the menu.
LEMMA OutsideStep == WindowInv /\ Outside => WindowInv'
<1> SUFFICES ASSUME WindowInv, Outside PROVE WindowInv'
  OBVIOUS
<1> USE DEF WindowInv
<1>1. /\ Elsewhere /\ UNCHANGED <<view, unknown, hierarchy, picked, pc, menu, offered, todo, dlg, sites, raised, moved, acts>>
  BY DEF Outside, listVars, toolIdle, pastVars
<1>2. scene' = scene /\ docs' = docs + 1 /\ docs \in Nat
  BY <1>1 DEF Elsewhere, PublishVersion, PublishHero, ArchiveRepre, DeleteRepre, DocStep, SceneTypes, DocTypes
<1>3. SceneTypes'
  BY <1>1, ElsewhereTypes DEF SceneTypes, ListTypes, CommandTypes
<1>4. ViewInv'
  <2>1. Present' = Present /\ \A S : Branch(S)' = Branch(S)
    BY <1>2, SameBranches
  <2>2. Branch(picked)' = Branch(picked)
    BY <1>1, <2>1
  <2> QED
    BY <1>1, <1>2, <2>1, <2>2 DEF ViewInv, ViewMatches
<1>5. LatestInv'
  <2>1. todo.since[1] <= docs /\ todo.since[2] <= acts /\ todo.since \in Nat \X Nat /\ acts \in Nat
    BY DEF LatestInv, SceneTypes, CommandTypes, TodoType
  <2>2. todo.since # <<docs + 1, acts>> /\ todo.since[1] <= docs + 1
    BY <1>2, <2>1
  <2> QED
    BY <1>1, <1>2, <2>1, <2>2 DEF LatestInv
<1>6. DialogInv'
  <2>1. dlg.since <= docs /\ dlg.since \in Nat
    BY DEF DialogInv, SceneTypes, DialogType
  <2> QED
    BY <1>1, <1>2, <2>1 DEF DialogInv
<1> QED
  BY <1>1, <1>3, <1>4, <1>5, <1>6 DEF MenuInv

\* A step of the tool that refreshes the list and has no command left.
LEMMA RefreshStep ==
  ASSUME WindowInv, NEW h \in BOOLEAN, NEW p \in SUBSET Containers, Refresh(h, p), h => p # {},
         UNCHANGED <<docVars, scene, menu, offered, todo>>, pc' = "idle", dlg' \in {dlg, Closed},
         sites' \in [Followed -> [active_site : BOOLEAN, remote_site : BOOLEAN]], acts' \in {acts, acts + 1}
  PROVE  WindowInv'
<1> USE DEF WindowInv
<1>1. UNCHANGED <<versions, hero, archived, lost, docs, scene>>
  BY DEF docVars
<1>2. /\ ListTypes' /\ raised' \in BOOLEAN /\ moved' = FALSE /\ hierarchy' = h /\ picked' = p
      /\ ~raised' => ViewMatches'
  BY <1>1, Refreshing
<1>3. Closed \in DialogType /\ Closed.since = 0
  BY DEF Closed, DialogType, AssetChoices, SubsetChoices
<1>4. acts \in Nat /\ acts' \in Nat /\ docs \in Nat /\ todo.since \in Nat \X Nat
  BY DEF SceneTypes, CommandTypes, DocTypes, TodoType
<1>5. SceneTypes'
  BY <1>1, <1>2, <1>3, <1>4 DEF SceneTypes, DocTypes, CommandTypes
<1>6. LatestInv'
  <2>1. CASE acts' = acts
    BY <1>1, <2>1 DEF LatestInv, Latest
  <2>2. CASE acts' = acts + 1
    <3>1. todo.since[2] <= acts /\ todo.since[2] \in Nat
      BY <1>4 DEF LatestInv
    <3>2. todo.since # <<docs, acts + 1>> /\ todo.since[2] <= acts + 1
      BY <1>4, <3>1
    <3> QED
      BY <1>1, <2>2, <3>2 DEF LatestInv
  <2> QED
    BY <2>1, <2>2
<1>7. DialogInv'
  BY <1>1, <1>3, <1>4 DEF DialogInv
<1> QED
  BY <1>2, <1>5, <1>6, <1>7 DEF MenuInv, ViewInv

\* The steps that do.
LEMMA RefreshSteps ==
  ASSUME WindowInv,
         \/ PressRefresh \/ LeaveHierarchy \/ MenuAddSites \/ MenuEnterHierarchy \/ MenuCustomAction
         \/ RunEnds \/ AcceptEnds
  PROVE  WindowInv'
<1>1. /\ hierarchy \in BOOLEAN /\ picked \in SUBSET Containers /\ (hierarchy => picked # {})
      /\ acts \in Nat /\ sites \in [Followed -> [active_site : BOOLEAN, remote_site : BOOLEAN]]
      /\ DOMAIN menu.items \in SUBSET Containers
  BY DEF WindowInv, SceneTypes, ListTypes, CommandTypes, MenuInv
<1>2. CASE PressRefresh
  BY <1>1, <1>2, RefreshStep DEF PressRefresh, Act, toolIdle
<1>3. CASE LeaveHierarchy
  BY <1>1, <1>3, RefreshStep DEF LeaveHierarchy, Act, toolIdle
<1>4. CASE MenuAddSites
  <2>1. sites' \in [Followed -> [active_site : BOOLEAN, remote_site : BOOLEAN]]
    <3>1. PICK site \in {"active_site", "remote_site"} :
            sites' = [r \in Followed |->
               IF /\ r \in {menu.items[c] : c \in DOMAIN menu.items} /\ IsRepre(r)
                  /\ sites[r][IF site = "active_site" THEN "remote_site" ELSE "active_site"]
               THEN [sites[r] EXCEPT ![site] = FALSE] ELSE sites[r]]
      BY <1>4 DEF MenuAddSites
    <3>2. \A r \in Followed : sites[r] \in [active_site : BOOLEAN, remote_site : BOOLEAN]
                              /\ [sites[r] EXCEPT ![site] = FALSE] \in [active_site : BOOLEAN, remote_site : BOOLEAN]
      BY <1>1
    <3> QED
      BY <3>1, <3>2
  <2> QED
    BY <1>1, <1>4, <2>1, RefreshStep DEF MenuAddSites
<1>5. CASE MenuEnterHierarchy
  <2>1. DOMAIN menu.items # {}
    BY <1>5 DEF MenuEnterHierarchy, WindowInv, MenuInv
  <2> QED
    BY <1>1, <1>5, <2>1, RefreshStep DEF MenuEnterHierarchy, toolIdle
<1>6. CASE MenuCustomAction
  <2>1. PICK names \in SUBSET Present :
          IF hierarchy /\ Nested /\ picked \subseteq Present
          THEN Refresh(TRUE, picked \cup names) ELSE Refresh(hierarchy, picked)
    BY <1>6 DEF MenuCustomAction
  <2>2. picked \cup names \in SUBSET Containers
    BY <1>1 DEF Present
  <2>3. UNCHANGED <<docVars, scene, menu, offered, todo, dlg, sites, acts>> /\ pc' = "idle"
    BY <1>6 DEF MenuCustomAction, toolIdle
  <2>4. CASE hierarchy /\ Nested /\ picked \subseteq Present
    <3>1. Refresh(TRUE, picked \cup names) /\ picked \cup names # {}
      BY <1>1, <2>1, <2>4
    <3> QED
      BY <1>1, <2>2, <2>3, <3>1, RefreshStep
  <2>5. CASE ~(hierarchy /\ Nested /\ picked \subseteq Present)
    BY <1>1, <2>1, <2>3, <2>5, RefreshStep
  <2> QED
    BY <2>4, <2>5
<1>7. CASE RunEnds
  BY <1>1, <1>7, RefreshStep DEF RunEnds, toolIdle
<1>8. CASE AcceptEnds
  BY <1>1, <1>8, RefreshStep DEF AcceptEnds
<1> QED
  BY <1>2, <1>3, <1>4, <1>5, <1>6, <1>7, <1>8

\* A step that leaves the documents and the list alone.
LEMMA Unseen ==
  ASSUME WindowInv, UNCHANGED <<docVars, scene, listVars, moved>>, raised' \in {raised, TRUE},
         pc \notin {"run", "switched"} \/ pc' = pc
  PROVE  DocTypes' /\ ListTypes' /\ ViewInv'
<1> USE DEF WindowInv
<1>1. UNCHANGED <<versions, hero, archived, lost, docs, scene, view, unknown, hierarchy, picked, moved>>
  BY DEF docVars, listVars
<1>2. Present' = Present /\ \A S : Branch(S)' = Branch(S)
  BY <1>1, SameBranches
<1>3. Branch(picked)' = Branch(picked)
  BY <1>1, <1>2
<1>4. ViewMatches => ViewMatches'
  BY <1>1, <1>2, <1>3 DEF ViewMatches
<1>5. ViewInv'
  <2>1. raised \in BOOLEAN
    BY DEF SceneTypes, CommandTypes
  <2>2. pc' \notin {"run", "switched"} /\ ~raised' /\ ~moved' => pc \notin {"run", "switched"} /\ ~raised /\ ~moved
    <3>1. moved' = moved
      BY <1>1
    <3>2. ~raised' => ~raised
      BY <2>1
    <3> QED
      BY <3>1, <3>2
  <2> QED
    BY <1>4, <2>2 DEF ViewInv
<1> QED
  BY <1>1, <1>5 DEF SceneTypes, DocTypes, ListTypes

\* Steps of the tool that start or forget a command and leave the dialog alone.
LEMMA CommandStep ==
  ASSUME WindowInv, UNCHANGED <<docVars, scene, listVars, moved>>, raised' \in {raised, TRUE},
         pc \notin {"run", "switched", "switch"}, pc' \notin {"switch", "switched"}, pc' = "menu" => DOMAIN menu'.items # {},
         CommandTypes', dlg' \in {dlg, Closed},
         \/ todo' = todo /\ acts' = acts /\ menu' = menu /\ pc # "idle"
         \/ todo' = NoTodo
         \/ /\ todo'.left = DOMAIN menu'.items \/ ~(todo'.what = "update" /\ todo'.version = LatestVersion)
            /\ todo'.since = <<docs, acts>> /\ acts' = acts /\ pc' = "run"
  PROVE  WindowInv'
<1> USE DEF WindowInv
<1>1. DocTypes' /\ ListTypes' /\ ViewInv'
  BY Unseen
<1>2. UNCHANGED <<versions, hero, archived, lost, docs, scene, hierarchy, picked>>
  BY DEF docVars, listVars
<1>3. Closed \in DialogType /\ Closed.since = 0
  BY DEF Closed, DialogType, AssetChoices, SubsetChoices
<1>4. acts \in Nat /\ docs \in Nat /\ acts' \in Nat
  BY DEF SceneTypes, CommandTypes, DocTypes
<1>5. MenuInv'
  BY <1>2 DEF MenuInv, NoTodo
<1>6. LatestInv'
  <2>1. CASE todo' = todo /\ acts' = acts /\ menu' = menu
    BY <1>2, <2>1 DEF LatestInv, Latest
  <2>2. CASE todo' = NoTodo
    BY <1>2, <1>4, <2>2 DEF LatestInv, NoTodo
  <2>3. CASE /\ todo'.left = DOMAIN menu'.items \/ ~(todo'.what = "update" /\ todo'.version = LatestVersion)
             /\ todo'.since = <<docs, acts>> /\ acts' = acts
    BY <1>2, <1>4, <2>3 DEF LatestInv
  <2> QED
    BY <2>1, <2>2, <2>3
<1>7. DialogInv'
  BY <1>2, <1>3, <1>4 DEF DialogInv
<1> QED
  BY <1>1, <1>3, <1>5, <1>6, <1>7 DEF SceneTypes

\* The menu, the version dialog and the choice of a command.
LEMMA MenuSteps ==
  ASSUME WindowInv,
         \/ OpenMenu \/ MenuSetVersion \/ MenuUpdateLatest \/ MenuChangeToHero \/ MenuRemove
         \/ MenuSwitchToVersioned \/ ChooseVersion
  PROVE  WindowInv'
<1>1. /\ DOMAIN view \subseteq Containers /\ \A c \in DOMAIN view : view[c] \in Repres
      /\ CommandTypes /\ DocTypes /\ docs \in Nat /\ acts \in Nat
      /\ (todo.what # "none" => pc \in {"run", "idle"})
  BY DEF WindowInv, SceneTypes, ListTypes, CommandTypes, DocTypes, MenuInv
<1>2. NoTodo \in TodoType /\ NoTodo.left = {}
  BY DEF NoTodo, TodoType, LatestVersion
<1>3. CASE OpenMenu
  <2>1. /\ acts' = acts + 1 /\ pc = "idle" /\ offered' = {} /\ todo' = NoTodo
        /\ UNCHANGED <<docVars, scene, listVars, dlg, sites, moved>>
    BY <1>3 DEF OpenMenu, Act
  <2>2. PICK rows \in (SUBSET DOMAIN view) \ {{}} :
          IF rows \cap unknown # {} THEN raised' = TRUE /\ UNCHANGED <<pc, menu>>
          ELSE /\ pc' = "menu" /\ UNCHANGED raised
               /\ menu'.items = [c \in rows |-> view[c]]
    BY <1>3 DEF OpenMenu
  <2>3. /\ DOMAIN menu'.items \subseteq Containers /\ \A c \in DOMAIN menu'.items : menu'.items[c] \in Repres
        /\ pc' \in {"idle", "menu"} /\ (pc' = "menu" => DOMAIN menu'.items # {}) /\ raised' \in {raised, TRUE}
    <3>1. CASE rows \cap unknown # {}
      <4>1. menu' = menu /\ pc' = "idle" /\ raised' = TRUE
        BY <2>1, <2>2, <3>1
      <4> QED
        BY <1>1, <4>1 DEF CommandTypes
    <3>2. CASE rows \cap unknown = {}
      <4>1. menu'.items = [c \in rows |-> view[c]] /\ pc' = "menu" /\ raised' = raised
        BY <2>2, <3>2
      <4> QED
        BY <1>1, <4>1
    <3> QED
      BY <3>1, <3>2
  <2>4. CommandTypes'
    <3>1. raised \in BOOLEAN /\ moved \in BOOLEAN
          /\ sites \in [Followed -> [active_site : BOOLEAN, remote_site : BOOLEAN]]
      BY <1>1 DEF CommandTypes
    <3>2. raised' \in BOOLEAN
      BY <2>3, <3>1
    <3>3. /\ todo' \in TodoType /\ todo'.left = {} /\ offered' = {} /\ acts' \in Nat
      BY <1>1, <1>2, <2>1
    <3> QED
      BY <2>1, <2>3, <3>1, <3>2, <3>3 DEF CommandTypes
  <2> QED
    BY <2>1, <2>3, <2>4, CommandStep
<1>4. CASE MenuSetVersion
  <2>1. /\ pc = "menu" /\ UNCHANGED <<docVars, scene, listVars, menu, todo, dlg, sites, moved, acts>>
        /\ pc' \in {"version", "idle"} /\ raised' \in {raised, TRUE}
    BY <1>4 DEF MenuSetVersion
  <2>2. offered' = offered \/ \E r : offered' = {v \in 0..MaxVersion : HasVersion(r.subset, v)}
    BY <1>4 DEF MenuSetVersion
  <2>3. offered' \subseteq 0..MaxVersion
    BY <1>1, <2>2 DEF CommandTypes
  <2>4. CommandTypes'
    BY <1>1, <2>1, <2>3 DEF CommandTypes
  <2> QED
    BY <2>1, <2>4, CommandStep
<1>5. ASSUME NEW what \in {"none", "update", "remove"}, NEW version \in Int, NEW left \in SUBSET DOMAIN menu.items,
             RunOver(what, version, left), pc \in {"menu", "version"},
             left = DOMAIN menu.items \/ ~(what = "update" /\ version = LatestVersion)
      PROVE  WindowInv'
  <2>1. /\ pc' = "run" /\ UNCHANGED <<docVars, scene, listVars, menu, offered, dlg, sites, moved, raised, acts>>
        /\ todo' = [what |-> what, version |-> version, left |-> left, since |-> <<docs, acts>>]
    BY <1>5 DEF RunOver, pastVars
  <2>2. todo'.what = what /\ todo'.version = version /\ todo'.left = left /\ todo'.since = <<docs, acts>>
    BY <2>1
  <2>3. todo' \in TodoType
    BY <1>1, <2>1 DEF TodoType, CommandTypes
  <2>4. CommandTypes'
    BY <1>1, <2>1, <2>2, <2>3 DEF CommandTypes
  <2> QED
    BY <1>5, <2>1, <2>2, <2>4, CommandStep
<1>6. LatestVersion \in Int /\ HeroVersion \in Int /\ HeroVersion # LatestVersion
  BY DEF LatestVersion, HeroVersion
<1>7. CASE MenuUpdateLatest
  BY <1>5, <1>6, <1>7 DEF MenuUpdateLatest
<1>8. CASE MenuChangeToHero
  BY <1>5, <1>6, <1>8 DEF MenuChangeToHero
<1>9. CASE MenuRemove
  BY <1>5, <1>6, <1>9 DEF MenuRemove
<1>10. CASE MenuSwitchToVersioned
  <2>1. pc = "menu"
    BY <1>10 DEF MenuSwitchToVersioned
  <2>2. CASE RunOver("none", LatestVersion, {})
    BY <1>5, <1>6, <2>1, <2>2
  <2>3. CASE ~RunOver("none", LatestVersion, {})
    <3>1. PICK c \in DOMAIN menu.items :
            \E left \in SUBSET DOMAIN menu.items : RunOver("update", hero[menu.items[c].subset].of, left)
      BY <1>10, <2>3 DEF MenuSwitchToVersioned
    <3>2. menu.items[c].subset \in Subsets
      BY <1>1 DEF CommandTypes, Repres
    <3>3. hero[menu.items[c].subset].of \in 0..MaxVersion /\ MaxVersion \in Nat
      BY <1>1, <3>2, BoundsAssumption DEF DocTypes
    <3>4. hero[menu.items[c].subset].of \in Int /\ hero[menu.items[c].subset].of # LatestVersion
      BY <3>3 DEF LatestVersion
    <3> QED
      BY <1>5, <2>1, <3>1, <3>4
  <2> QED
    BY <2>2, <2>3
<1>11. CASE ChooseVersion
  <2>1. PICK v \in offered : RunOver("update", v, DOMAIN menu.items) /\ pc = "version"
    BY <1>11 DEF ChooseVersion
  <2>2. v \in Int
    BY <1>1, <2>1, BoundsAssumption DEF CommandTypes
  <2> QED
    BY <1>5, <2>1, <2>2
<1> QED
  BY <1>3, <1>4, <1>7, <1>8, <1>9, <1>10, <1>11

\* An edit in the host, and a file copied between the sites.
LEMMA HostSteps ==
  ASSUME WindowInv, HostEdits \/ Synchronize
  PROVE  WindowInv'
<1> USE DEF WindowInv
<1>1. CASE HostEdits
  <2>1. /\ acts' = acts + 1 /\ moved' = TRUE
        /\ UNCHANGED <<versions, hero, archived, lost, docs, view, unknown, hierarchy, picked, pc, menu, offered, todo,
                       dlg, sites, raised>>
    BY <1>1 DEF HostEdits, Act, docVars, listVars, toolIdle
  <2>2. scene' \in [Containers -> Repres \cup {NoRepre}]
    <3>1. scene \in [Containers -> Repres \cup {NoRepre}]
      BY DEF SceneTypes, DocTypes
    <3>2. CASE \E c \in Present : scene' = [scene EXCEPT ![c] = NoRepre]
      BY <3>1, <3>2
    <3>3. CASE \E c \in Containers, r \in Repres : Load(c, r)
      BY <3>1, <3>3 DEF Load, Containerise
    <3> QED
      BY <1>1, <3>2, <3>3 DEF HostEdits
  <2>3. acts \in Nat /\ todo.since \in Nat \X Nat /\ todo.since[2] <= acts
    BY DEF SceneTypes, CommandTypes, TodoType, LatestInv
  <2>4. SceneTypes'
    BY <2>1, <2>2, <2>3 DEF SceneTypes, DocTypes, ListTypes, CommandTypes
  <2>5. LatestInv'
    <3>1. todo.since # <<docs, acts + 1>> /\ todo.since[2] <= acts + 1
      BY <2>3
    <3> QED
      BY <2>1, <3>1 DEF LatestInv
  <2>6. DialogInv'
    BY <2>1 DEF DialogInv, FullChoice, IsRepre, Found, HasVersion, Latest
  <2> QED
    BY <2>1, <2>4, <2>5, <2>6 DEF MenuInv, ViewInv
<1>2. CASE Synchronize
  <2>1. UNCHANGED <<docVars, scene, listVars, pc, menu, offered, todo, dlg, raised, moved, acts>>
    BY <1>2 DEF Synchronize, pastVars
  <2>2. UNCHANGED <<versions, hero, archived, lost, docs, scene, view, unknown, hierarchy, picked>>
    BY <2>1 DEF docVars, listVars
  <2>3. sites' \in [Followed -> [active_site : BOOLEAN, remote_site : BOOLEAN]]
    <3>1. PICK r \in Followed, t \in {"active_site", "remote_site"} :
            sites' = [sites EXCEPT ![r] = [sites[r] EXCEPT ![t] = TRUE]]
      BY <1>2 DEF Synchronize
    <3>2. sites \in [Followed -> [active_site : BOOLEAN, remote_site : BOOLEAN]]
      BY DEF SceneTypes, CommandTypes
    <3>3. [sites[r] EXCEPT ![t] = TRUE] \in [active_site : BOOLEAN, remote_site : BOOLEAN]
      BY <3>2
    <3> QED
      BY <3>1, <3>2, <3>3
  <2>4. DocTypes' /\ ListTypes' /\ ViewInv'
    BY <2>1, Unseen
  <2>5. SceneTypes'
    BY <2>1, <2>3, <2>4 DEF SceneTypes, CommandTypes
  <2>6. LatestInv'
    BY <2>1, <2>2 DEF LatestInv, Latest
  <2>7. DialogInv'
    BY <2>1, <2>2 DEF DialogInv, FullChoice, IsRepre, Found, HasVersion, Latest
  <2> QED
    BY <2>1, <2>2, <2>4, <2>5, <2>6, <2>7 DEF MenuInv
<1> QED
  BY <1>1, <1>2

\* Closing a dialog, and the next item of a command.
LEMMA DismissStep ==
  ASSUME WindowInv, Dismiss
  PROVE  WindowInv'
<1> USE DEF WindowInv
<1>1. /\ pc \in {"menu", "version", "switch"} /\ pc' = "idle" /\ dlg' = Closed
      /\ UNCHANGED <<docVars, scene, listVars, menu, offered, todo, sites, raised, moved, acts>>
  BY DEF Dismiss, pastVars
<1>2. UNCHANGED <<versions, hero, archived, lost, docs, scene, view, unknown, hierarchy, picked>>
  BY <1>1 DEF docVars, listVars
<1>3. DocTypes' /\ ListTypes' /\ ViewInv'
  BY <1>1, Unseen
<1>4. Closed \in DialogType /\ Closed.since = 0 /\ docs \in Nat
  BY DEF Closed, DialogType, AssetChoices, SubsetChoices, SceneTypes, DocTypes
<1>5. SceneTypes'
  BY <1>1, <1>3, <1>4 DEF SceneTypes, CommandTypes
<1>6. LatestInv'
  BY <1>1, <1>2 DEF LatestInv, Latest
<1>7. DialogInv'
  BY <1>1, <1>2, <1>4 DEF DialogInv
<1> QED
  BY <1>1, <1>2, <1>3, <1>5, <1>6, <1>7 DEF MenuInv

\* What a container is updated to.
LEMMA UpdateType ==
  ASSUME DocTypes, NEW r \in Repres, NEW v, IsRepre(UpdatedTo(r, v))
  PROVE  UpdatedTo(r, v) \in Repres /\ (v = LatestVersion => UpdatedTo(r, v).version = Latest(UpdatedTo(r, v).subset))
<1> DEFINE w == IF v = LatestVersion THEN Latest(r.subset) ELSE v
<1>1. r.subset \in Subsets /\ UpdatedTo(r, v) = [subset |-> r.subset, version |-> w, name |-> r.name]
  BY DEF UpdatedTo, Repres
<1>2. w # LatestVersion
  <2>1. Latest(r.subset) \in Nat
    BY <1>1 DEF DocTypes, Latest
  <2> QED
    BY <2>1 DEF LatestVersion
<1> HIDE DEF w
<1>3. UpdatedTo(r, v) \in Repres
  BY <1>1, <1>2, FoundType DEF IsRepre
<1> QED
  BY <1>1, <1>3 DEF w

LEMMA RunItemStep ==
  ASSUME WindowInv, RunItem
  PROVE  WindowInv'
<1> USE DEF WindowInv
<1>1. /\ pc = "run" /\ UNCHANGED <<docVars, listVars, menu, offered, dlg, sites, moved, acts>>
  BY DEF RunItem
<1>2. UNCHANGED <<versions, hero, archived, lost, docs, view, unknown, hierarchy, picked>>
  BY <1>1 DEF docVars, listVars
<1>3. PICK c \in todo.left :
        \/ raised' = TRUE /\ pc' = "idle" /\ UNCHANGED <<scene, todo>>
        \/ /\ IF todo.what = "update" THEN CanUpdate(c, menu.items[c], todo.version) ELSE CanRemove(c, menu.items[c])
           /\ scene' = [scene EXCEPT ![c] =
                IF todo.what = "update" THEN UpdatedTo(menu.items[c], todo.version) ELSE NoRepre]
           /\ todo' = [todo EXCEPT !.left = @ \ {c}] /\ UNCHANGED <<pc, raised>>
  BY DEF RunItem
<1>4. /\ scene \in [Containers -> Repres \cup {NoRepre}] /\ todo \in TodoType /\ c \in DOMAIN menu.items
      /\ DOMAIN menu.items \subseteq Containers /\ menu.items[c] \in Repres /\ raised \in BOOLEAN
      /\ todo.left \subseteq DOMAIN menu.items
  BY <1>3 DEF SceneTypes, DocTypes, CommandTypes
<1>5. CASE raised' = TRUE /\ pc' = "idle" /\ UNCHANGED <<scene, todo>>
  <2>1. SceneTypes'
    BY <1>1, <1>2, <1>5 DEF SceneTypes, DocTypes, ListTypes, CommandTypes
  <2>2. LatestInv' /\ DialogInv'
    BY <1>1, <1>2, <1>5 DEF LatestInv, DialogInv, Latest
  <2> QED
    BY <1>1, <1>2, <1>5, <2>1, <2>2 DEF MenuInv, ViewInv
<1>6. ASSUME NEW x, scene' = [scene EXCEPT ![c] = x], x \in Repres \cup {NoRepre},
             todo.what = "update" /\ todo.version = LatestVersion => x \in Repres /\ x.version = Latest(x.subset),
             todo' = [todo EXCEPT !.left = @ \ {c}], UNCHANGED <<pc, raised>>
      PROVE  WindowInv'
  <2>1. /\ todo' \in TodoType /\ todo'.left = todo.left \ {c} /\ todo'.what = todo.what
        /\ todo'.version = todo.version /\ todo'.since = todo.since
    BY <1>4, <1>6 DEF TodoType
  <2>2. scene' \in [Containers -> Repres \cup {NoRepre}]
    BY <1>4, <1>6
  <2>3. SceneTypes'
    BY <1>1, <1>2, <1>4, <1>6, <2>1, <2>2 DEF SceneTypes, DocTypes, ListTypes, CommandTypes
  <2>4. LatestInv'
    <3>1. ASSUME todo.what = "update", todo.version = LatestVersion, todo.since = <<docs, acts>>,
                 NEW d \in DOMAIN menu.items \ (todo.left \ {c})
          PROVE  scene'[d].version = Latest(scene'[d].subset)
      <4>1. CASE d = c
        BY <1>4, <1>6, <3>1, <4>1
      <4>2. CASE d # c
        <5>1. scene'[d] = scene[d] /\ d \in DOMAIN menu.items \ todo.left
          BY <1>4, <1>6, <3>1, <4>2
        <5> QED
          BY <3>1, <5>1 DEF LatestInv
      <4> QED
        BY <4>1, <4>2
    <3>2. \A s : Latest(s)' = Latest(s)
      BY <1>2 DEF Latest
    <3>3. todo.since[1] <= docs /\ todo.since[2] <= acts
      BY DEF LatestInv
    <3> QED
      BY <1>1, <1>2, <2>1, <3>1, <3>2, <3>3 DEF LatestInv, Latest
  <2>5. DialogInv'
    BY <1>1, <1>2, <1>6 DEF DialogInv
  <2> QED
    BY <1>1, <1>2, <1>6, <2>1, <2>3, <2>4, <2>5 DEF MenuInv, ViewInv
<1>7. ASSUME IF todo.what = "update" THEN CanUpdate(c, menu.items[c], todo.version) ELSE CanRemove(c, menu.items[c]),
             scene' = [scene EXCEPT ![c] =
                IF todo.what = "update" THEN UpdatedTo(menu.items[c], todo.version) ELSE NoRepre],
             todo' = [todo EXCEPT !.left = @ \ {c}], UNCHANGED <<pc, raised>>
      PROVE  WindowInv'
  <2>1. CASE todo.what = "update"
    <3>1. IsRepre(UpdatedTo(menu.items[c], todo.version))
      BY <1>7, <2>1 DEF CanUpdate
    <3>2. PICK x : x = UpdatedTo(menu.items[c], todo.version)
      OBVIOUS
    <3>3. x \in Repres /\ (todo.version = LatestVersion => x.version = Latest(x.subset))
      BY <1>4, <3>1, <3>2, UpdateType DEF SceneTypes
    <3>4. scene' = [scene EXCEPT ![c] = x]
      BY <1>7, <2>1, <3>2
    <3> QED
      BY <1>6, <1>7, <3>3, <3>4
  <2>2. CASE todo.what # "update"
    <3>1. scene' = [scene EXCEPT ![c] = NoRepre]
      BY <1>7, <2>2
    <3> QED
      BY <1>6, <1>7, <2>2, <3>1
  <2> QED
    BY <2>1, <2>2
<1> QED
  BY <1>3, <1>5, <1>7

\* Opening the switch dialog and choosing in it.
LEMMA DialogStep ==
  ASSUME WindowInv, UNCHANGED <<docVars, scene, listVars, menu, offered, todo, sites, raised, moved, acts>>,
         pc \in {"menu", "switch"}, pc' = "switch", dlg' \in DialogType, dlg'.since <= docs,
         dlg'.filling /\ dlg'.since = docs => FullChoice(dlg'),
         \A c \in DOMAIN menu.items : menu.items[c] \in dlg'.content \cup dlg'.archived \/ dlg'.missing
  PROVE  WindowInv'
<1> USE DEF WindowInv
<1>1. UNCHANGED <<versions, hero, archived, lost, docs, scene, hierarchy, picked>>
  BY DEF docVars, listVars
<1>2. DocTypes' /\ ListTypes' /\ ViewInv'
  BY Unseen
<1>3. SceneTypes'
  BY <1>2 DEF SceneTypes, CommandTypes
<1>4. LatestInv'
  BY <1>1 DEF LatestInv, Latest
<1>5. DialogInv'
  <2>1. FullChoice(dlg') => FullChoice(dlg)'
    BY <1>1 DEF FullChoice, IsRepre, Found, HasVersion, Latest
  <2> QED
    BY <1>1, <2>1 DEF DialogInv
<1> QED
  BY <1>1, <1>2, <1>3, <1>4, <1>5 DEF MenuInv

\* _prepare_content_data knows every item one way or another.
LEMMA MenuSwitchStep ==
  ASSUME WindowInv, MenuSwitch
  PROVE  WindowInv'
<1> USE DEF WindowInv
<1> DEFINE asked == {menu.items[c] : c \in DOMAIN menu.items}
           content == {r \in asked : IsRepre(r)}
           gone == {r \in asked : Found(r) /\ ~IsRepre(r)}
           missing == \E r \in asked : ~Found(r)
           d == [Closed EXCEPT !.content = content, !.archived = gone, !.missing = missing]
<1>1. /\ pc = "menu" /\ pc' = "switch" /\ dlg' = Filled(d)
      /\ UNCHANGED <<docVars, scene, listVars, menu, offered, todo, sites, raised, moved, acts>>
  BY DEF MenuSwitch, pastVars
<1>2. content \in SUBSET Repres /\ gone \in SUBSET Repres /\ missing \in BOOLEAN
  BY DEF SceneTypes, CommandTypes
<1>3. \A c \in DOMAIN menu.items : menu.items[c] \in content \cup gone \/ missing
  OBVIOUS
<1> HIDE DEF content, gone, missing
<1>4. d \in DialogType /\ d.content = content /\ d.archived = gone /\ d.missing = missing /\ d.since = 0
  <2>1. Closed \in DialogType /\ Closed.since = 0
    BY DEF Closed, DialogType, AssetChoices, SubsetChoices
  <2>2. PICK c1, c2, c3 : c1 = [Closed EXCEPT !.content = content] /\ c2 = [c1 EXCEPT !.archived = gone]
                          /\ c3 = [c2 EXCEPT !.missing = missing]
    OBVIOUS
  <2>3. d = c3
    BY <2>2
  <2>4. c1 \in DialogType /\ c1.content = content /\ c1.since = 0
    BY <1>2, <2>1, <2>2 DEF DialogType
  <2>5. c2 \in DialogType /\ c2.content = content /\ c2.archived = gone /\ c2.since = 0
    BY <1>2, <2>2, <2>4 DEF DialogType
  <2>6. c3 \in DialogType /\ c3.content = content /\ c3.archived = gone /\ c3.missing = missing /\ c3.since = 0
    BY <1>2, <2>2, <2>5 DEF DialogType
  <2> QED
    BY <2>3, <2>6
<1> HIDE DEF d
<1>5. /\ dlg' \in DialogType /\ dlg'.content = content /\ dlg'.archived = gone /\ dlg'.missing = missing
      /\ dlg'.filling => FullChoice(dlg')
      /\ dlg'.since \in {docs, 0}
  BY <1>1, <1>4, Filling DEF SceneTypes
<1>6. docs \in Nat
  BY DEF SceneTypes, DocTypes
<1> QED
  BY <1>1, <1>3, <1>5, <1>6, DialogStep

\* A choice in a combo box leaves what the dialog knows of the items.
LEMMA ChooseStep ==
  ASSUME WindowInv, ChooseValue
  PROVE  WindowInv'
<1> USE DEF WindowInv
<1>1. /\ pc = "switch" /\ UNCHANGED <<docVars, scene, listVars, pc, menu, offered, todo, sites, raised, moved, acts>>
  BY DEF ChooseValue, pastVars
<1>2. dlg \in DialogType /\ dlg.since <= docs /\ docs \in Nat
  BY DEF SceneTypes, DialogInv, DocTypes
<1>3. PICK d \in DialogType : /\ Choose(d) /\ d.content = dlg.content /\ d.archived = dlg.archived
                              /\ d.missing = dlg.missing /\ d.filling = dlg.filling /\ d.since = dlg.since
  <2>1. CASE \E a \in {s.asset : s \in Subsets} \cup {NoChoice} : Choose([dlg EXCEPT !.asset = a])
    <3>1. PICK a \in AssetChoices : Choose([dlg EXCEPT !.asset = a])
      BY <2>1 DEF AssetChoices
    <3>2. PICK d : d = [dlg EXCEPT !.asset = a]
      OBVIOUS
    <3>3. d \in DialogType /\ d.content = dlg.content /\ d.archived = dlg.archived
      BY <1>2, <3>2 DEF DialogType
    <3>4. d.missing = dlg.missing /\ d.filling = dlg.filling /\ d.since = dlg.since
      BY <1>2, <3>2 DEF DialogType
    <3> QED
      BY <3>1, <3>2, <3>3, <3>4
  <2>2. CASE \E n \in dlg.subsets \cup {NoChoice} : Choose([dlg EXCEPT !.subset = n])
    <3>1. PICK n \in dlg.subsets \cup {NoChoice} : Choose([dlg EXCEPT !.subset = n])
      BY <2>2
    <3>2. n \in SubsetChoices
      BY <1>2, <3>1 DEF DialogType, SubsetChoices
    <3>3. PICK d : d = [dlg EXCEPT !.subset = n]
      OBVIOUS
    <3>4. d \in DialogType /\ d.content = dlg.content /\ d.archived = dlg.archived
      BY <1>2, <3>2, <3>3 DEF DialogType
    <3>5. d.missing = dlg.missing /\ d.filling = dlg.filling /\ d.since = dlg.since
      BY <1>2, <3>3 DEF DialogType
    <3> QED
      BY <3>1, <3>3, <3>4, <3>5
  <2>3. CASE \E n \in dlg.repres \cup {NoChoice} : Choose([dlg EXCEPT !.repre = n])
    <3>1. PICK n \in dlg.repres \cup {NoChoice} : Choose([dlg EXCEPT !.repre = n])
      BY <2>3
    <3>2. n \in ReprNames \cup {NoChoice}
      BY <1>2, <3>1 DEF DialogType
    <3>3. PICK d : d = [dlg EXCEPT !.repre = n]
      OBVIOUS
    <3>4. d \in DialogType /\ d.content = dlg.content /\ d.archived = dlg.archived
      BY <1>2, <3>2, <3>3 DEF DialogType
    <3>5. d.missing = dlg.missing /\ d.filling = dlg.filling /\ d.since = dlg.since
      BY <1>2, <3>3 DEF DialogType
    <3> QED
      BY <3>1, <3>3, <3>4, <3>5
  <2> QED
    BY <2>1, <2>2, <2>3 DEF ChooseValue
<1>4. /\ dlg' \in DialogType /\ dlg'.content = dlg.content /\ dlg'.archived = dlg.archived
      /\ dlg'.missing = dlg.missing /\ dlg'.since \in {docs, dlg.since}
      /\ (dlg'.filling => FullChoice(dlg'))
  <2>1. CASE dlg.filling
    <3>1. dlg' = Filled(d)
      BY <1>3, <2>1 DEF Choose
    <3> QED
      BY <1>3, <3>1, Filling DEF SceneTypes
  <2>2. CASE ~dlg.filling
    <3>1. dlg' = d
      BY <1>3, <2>2 DEF Choose
    <3> QED
      BY <1>3, <2>2, <3>1
  <2> QED
    BY <2>1, <2>2
<1>5. \A c \in DOMAIN menu.items : menu.items[c] \in dlg'.content \cup dlg'.archived \/ dlg'.missing
  BY <1>1, <1>4 DEF DialogInv
<1> QED
  BY <1>1, <1>2, <1>4, <1>5, DialogStep

\* An item is switched to a representation there may be.
LEMMA SwitchType ==
  ASSUME DocTypes, NEW r \in Repres, Resolves(r)
  PROVE  SwitchTarget(r) \in Repres
<1> DEFINE s == SwitchSubset(r)
           name == IF dlg.repre # NoChoice THEN dlg.repre ELSE r.name
           ofHero == [subset |-> s, version |-> HeroVersion, name |-> name]
<1>1. s \in Subsets /\ IsRepre(SwitchTarget(r))
  BY DEF Resolves
<1>2. SwitchTarget(r) \in {ofHero, [subset |-> s, version |-> Latest(s), name |-> name]}
  BY DEF SwitchTarget
<1>3. HeroVersion # LatestVersion /\ Latest(s) # LatestVersion
  <2>1. Latest(s) \in Nat
    BY <1>1 DEF DocTypes, Latest
  <2> QED
    BY <2>1 DEF HeroVersion, LatestVersion
<1> HIDE DEF s, name
<1> QED
  BY <1>1, <1>2, <1>3, FoundType DEF IsRepre

LEMMA AcceptStep ==
  ASSUME WindowInv, Accept
  PROVE  WindowInv'
<1> USE DEF WindowInv
<1>1. pc = "switch" /\ UNCHANGED <<docVars, listVars, menu, offered, todo, dlg, sites, moved, acts>>
  BY DEF Accept
<1>2. UNCHANGED <<versions, hero, archived, lost, docs, view, unknown, hierarchy, picked>>
  BY <1>1 DEF docVars, listVars
<1>3. (pc' = "switched" /\ raised' = raised) \/ (raised' = TRUE /\ pc' = pc)
  BY DEF Accept
<1>4. PICK S \in SUBSET {c \in DOMAIN menu.items : Resolves(menu.items[c])} :
        scene' = [c \in Containers |->
           IF c \in S /\ CanSwitch(c, SwitchTarget(menu.items[c])) THEN SwitchTarget(menu.items[c]) ELSE scene[c]]
  BY DEF Accept
<1>5. /\ scene \in [Containers -> Repres \cup {NoRepre}] /\ raised \in BOOLEAN
      /\ \A c \in DOMAIN menu.items : menu.items[c] \in Repres
  BY DEF SceneTypes, DocTypes, CommandTypes
<1>6. scene' \in [Containers -> Repres \cup {NoRepre}]
  <2>1. \A c \in S : SwitchTarget(menu.items[c]) \in Repres
    BY <1>4, <1>5, SwitchType DEF SceneTypes
  <2> QED
    BY <1>4, <1>5, <2>1
<1>7. raised' \in BOOLEAN /\ pc' \in {"switch", "switched"}
  BY <1>1, <1>3, <1>5
<1>8. SceneTypes'
  BY <1>1, <1>2, <1>6, <1>7 DEF SceneTypes, DocTypes, ListTypes, CommandTypes
<1>9. todo.what = "none"
  BY <1>1 DEF MenuInv, SceneTypes, CommandTypes
<1>10. LatestInv'
  BY <1>1, <1>2, <1>9 DEF LatestInv
<1>11. DialogInv'
  <2>1. FullChoice(dlg) => FullChoice(dlg)'
    BY <1>1, <1>2 DEF FullChoice, IsRepre, Found, HasVersion, Latest
  <2> QED
    BY <1>1, <1>2, <2>1 DEF DialogInv
<1> QED
  BY <1>1, <1>2, <1>3, <1>8, <1>9, <1>10, <1>11 DEF MenuInv, ViewInv

\* Every step keeps the invariant.
LEMMA SceneSteps == WindowInv /\ [SceneNext]_sceneVars => WindowInv'
<1> SUFFICES ASSUME WindowInv, [SceneNext]_sceneVars PROVE WindowInv'
  OBVIOUS
<1>1. CASE Outside
  BY <1>1, OutsideStep
<1>2. CASE HostEdits \/ Synchronize
  BY <1>2, HostSteps
<1>3. CASE \/ PressRefresh \/ LeaveHierarchy \/ MenuAddSites \/ MenuEnterHierarchy \/ MenuCustomAction
           \/ RunEnds \/ AcceptEnds
  BY <1>3, RefreshSteps
<1>4. CASE \/ OpenMenu \/ MenuSetVersion \/ MenuUpdateLatest \/ MenuChangeToHero \/ MenuRemove
           \/ MenuSwitchToVersioned \/ ChooseVersion
  BY <1>4, MenuSteps
<1>5. CASE Dismiss
  BY <1>5, DismissStep
<1>6. CASE RunItem
  BY <1>6, RunItemStep
<1>7. CASE MenuSwitch
  BY <1>7, MenuSwitchStep
<1>8. CASE ChooseValue
  BY <1>8, ChooseStep
<1>9. CASE Accept
  BY <1>9, AcceptStep
<1>10. CASE UNCHANGED sceneVars
  <2>1. /\ UNCHANGED <<docVars, scene, listVars, pc, menu, offered, todo, dlg, sites, raised, moved, acts>>
        /\ UNCHANGED <<versions, hero, archived, lost, docs, hierarchy, picked>>
    BY <1>10 DEF sceneVars, pastVars, docVars, listVars
  <2>2. DocTypes' /\ ListTypes' /\ ViewInv'
    BY <2>1, Unseen
  <2>3. SceneTypes'
    BY <2>1, <2>2 DEF WindowInv, SceneTypes, CommandTypes
  <2>4. LatestInv' /\ DialogInv'
    BY <2>1 DEF WindowInv, LatestInv, DialogInv, FullChoice, IsRepre, Found, HasVersion, Latest
  <2> QED
    BY <2>1, <2>2, <2>3, <2>4 DEF WindowInv, MenuInv
<1> QED
  BY <1>1, <1>2, <1>3, <1>4, <1>5, <1>6, <1>7, <1>8, <1>9, <1>10 DEF SceneNext

\* The window opens over a list that shows the scene.
LEMMA SceneStarts == SceneInit => WindowInv
<1> SUFFICES ASSUME SceneInit PROVE WindowInv
  OBVIOUS
<1>1. /\ versions = FirstVersions /\ hero = [s \in Subsets |-> [of |-> 0, repres |-> {}]]
      /\ archived = {} /\ lost = {} /\ docs = 0 /\ scene \in FirstScenes
      /\ view = [c \in Present |-> scene[c]] /\ unknown = {} /\ hierarchy = FALSE /\ picked = {}
      /\ pc = "idle" /\ menu = NoMenu /\ offered = {} /\ todo = NoTodo /\ dlg = Closed
      /\ sites = [r \in Followed |-> [active_site |-> TRUE, remote_site |-> FALSE]]
      /\ raised = FALSE /\ moved = FALSE /\ acts = 0
  BY DEF SceneInit, InitContainers
<1>2. DocTypes
  BY <1>1, SubsetsAssumption, BoundsAssumption, ScenesAssumption DEF DocTypes, Published
<1>3. ListTypes
  BY <1>1, <1>2 DEF ListTypes, DocTypes, Present
<1>4. CommandTypes
  <2>1. menu.items = NoItems /\ DOMAIN NoItems = {}
    BY <1>1 DEF NoMenu, NoItems
  <2>2. NoTodo \in TodoType /\ NoTodo.left = {}
    BY DEF NoTodo, TodoType, LatestVersion
  <2> QED
    BY <1>1, <2>1, <2>2 DEF CommandTypes
<1>5. dlg \in DialogType /\ dlg.since = 0
  BY <1>1 DEF Closed, DialogType, AssetChoices, SubsetChoices
<1>6. MenuInv /\ LatestInv /\ DialogInv
  BY <1>1, <1>5 DEF MenuInv, LatestInv, DialogInv, NoTodo
<1>7. ViewInv
  BY <1>1 DEF ViewInv, ViewMatches
<1> QED
  BY <1>2, <1>3, <1>4, <1>5, <1>6, <1>7 DEF WindowInv, SceneTypes

\* The invariant holds in every state the tool reaches.
THEOREM SceneAlways == SceneSpec => []WindowInv
BY SceneStarts, SceneSteps, PTL DEF SceneSpec

\* Every variable of the scene inventory keeps its type: what the menu, the dialogs
\* and the commands hold are containers and representations.
THEOREM SceneInventoryTypes == SceneSpec => []SceneTypeOK
<1>1. WindowInv => SceneTypeOK
  BY DEF WindowInv, SceneTypes, DocTypes, ListTypes, CommandTypes, SceneTypeOK, DialogType
<1> QED
  BY <1>1, SceneAlways, PTL

\* Once a command ended well, the list shows the scene, whichever containers were
\* nested, picked, removed or not found (Window.refresh, add_items).
THEOREM ListShowsScene == SceneSpec => []ViewShowsScene
<1>1. WindowInv => ViewShowsScene
  BY DEF WindowInv, ViewInv, ViewMatches, ViewShowsScene
<1> QED
  BY <1>1, SceneAlways, PTL

\* An update to the latest version that ran through leaves no selected container
\* behind, unless others published or the user went on meanwhile.
THEOREM UpdateReachesLatest == SceneSpec => []LatestReached
<1>1. WindowInv => LatestReached
  BY DEF WindowInv, LatestInv, LatestReached
<1> QED
  BY <1>1, SceneAlways, PTL

\* With a full choice the switch dialog has a target for every item (validate's
\* checks and what _on_accept looks up agree).
THEOREM FullChoiceIsEnough == SceneSpec => []FullChoiceResolves
<1>1. ASSUME WindowInv
      PROVE  FullChoiceResolves
  <2> SUFFICES ASSUME pc = "switch", dlg.enabled, dlg.filling, dlg.since = docs, ~dlg.missing, dlg.archived = {},
                      NoChoice \notin {dlg.asset, dlg.subset, dlg.repre},
                      \A s \in Subsets : hero[s].of > 0 => NamesIn(s, HeroVersion) # {},
                      NEW c \in DOMAIN menu.items
               PROVE  Resolves(menu.items[c])
    BY DEF FullChoiceResolves
  <2> DEFINE s == [asset |-> dlg.asset, name |-> dlg.subset]
             r == menu.items[c]
  <2>1. r \in dlg.content
    BY <1>1 DEF WindowInv, DialogInv
  <2>2. s \in Subsets /\ IsRepre([subset |-> s, version |-> Latest(s), name |-> dlg.repre])
    BY <1>1 DEF WindowInv, DialogInv, FullChoice
  <2>3. SwitchSubset(r) = s
    BY DEF SwitchSubset
  <2> HIDE DEF s, r
  <2>4. IsRepre(SwitchTarget(r))
    <3> DEFINE ofHero == [subset |-> s, version |-> HeroVersion, name |-> dlg.repre]
    <3>1. SwitchTarget(r) = IF r.version = HeroVersion /\ IsRepre(ofHero) THEN ofHero
                            ELSE [ofHero EXCEPT !.version = Latest(s)]
      BY <2>3 DEF SwitchTarget
    <3>2. [ofHero EXCEPT !.version = Latest(s)] = [subset |-> s, version |-> Latest(s), name |-> dlg.repre]
      OBVIOUS
    <3> HIDE DEF ofHero
    <3>3. CASE r.version = HeroVersion /\ IsRepre(ofHero)
      BY <3>1, <3>3
    <3>4. CASE ~(r.version = HeroVersion /\ IsRepre(ofHero))
      BY <2>2, <3>1, <3>2, <3>4
    <3> QED
      BY <3>3, <3>4
  <2>5. Resolves(r)
    BY <2>1, <2>2, <2>3, <2>4 DEF Resolves
  <2> QED
    BY <2>5 DEF r
<1> QED
  BY <1>1, SceneAlways, PTL
=============================================================================
