--------------------------- MODULE MayaHost_proofs ---------------------------
(***************************************************************************)
(* Proofs about MayaHost, and with it about Workfiles and Session, for any *)
(* assets, tasks and first files and any bounds.                           *)
(***************************************************************************)
EXTENDS MayaHost, WellFoundedInduction, TLAPS

\* The context the file list would enter.
Picked == SessionFor(session, files.asset, files.task)
PickRaises == SessionRaises(session, files.asset, files.task)
PickChanges == (files.asset # None /\ files.asset # session.asset) \/ (files.task # None /\ files.task # session.task)
PickAsset == IF files.asset = None THEN session.asset ELSE files.asset
PickTask == IF files.task = None THEN session.task ELSE files.task

-----------------------------------------------------------------------------
(* The inductive invariant. *)

\* The work directory of a session is that of its asset and task, and the
\* environment agrees with the session.
SessionTypes ==
  /\ place \in [Assets -> {0, 1, Gone}]
  /\ session \in Contexts /\ environ = session
  /\ session.workdir.asset = session.asset /\ session.workdir.task = session.task
  /\ host \in {None, "host"} /\ config \in {None, "config"} /\ connected \in BOOLEAN
  /\ ran \subseteq {"host", "config_host", "config"}

\* The work files, the directories and the scene of the host.
DiskTypes ==
  /\ disk \subseteq Files /\ dirs \subseteq Dirs
  /\ newest \in [Dirs -> Files \cup {None}]
  /\ scene \in Files \cup {None} /\ dirty \in BOOLEAN

\* What is selected and listed; an asset is selected before its timer runs.
PickerTypes ==
  /\ window \in BOOLEAN /\ skipped \in BOOLEAN
  /\ sel \in Assets \cup {None} /\ listed \in Assets \cup {None}
  /\ current \in Tasks \cup {None} /\ last \in Tasks \cup {None}
  /\ job \in {"none", "asset", "task"}
  /\ job = "asset" => sel # None

\* What FilesWidget keeps of its list.
FileLists == [asset : Assets \cup {None}, task : Tasks \cup {None}, root : Dirs \cup {None},
              enabled : BOOLEAN]

\* The list of work files and its timer.
ListTypes ==
  /\ pick \in BOOLEAN /\ files \in FileLists
  /\ shown \subseteq Files /\ top \in Files \cup {None} /\ row \in Files \cup {None}

\* The dialogs of the tool.
Dialogs == [kind : {"none", "browse", "prompt", "save", "duplicate"}, path : Files \cup {None},
            context : Contexts \cup {None}, dir : Dirs \cup {None}, version : 1..MaxVersion,
            auto : BOOLEAN, free : BOOLEAN, raced : BOOLEAN, stale : BOOLEAN]

\* The open dialog: one for a name has a context, a prompt a file.
DialogTypes ==
  /\ dialog \in Dialogs
  /\ NameDialog => dialog.context \in Contexts
  /\ dialog.kind = "prompt" => dialog.path \in Files
  /\ acts \in Nat

\* The file list has a root wherever its files can be opened or saved.
RootKept ==
  /\ files.enabled /\ ~PickRaises => files.root \in Dirs
  /\ NameDialog => files.root \in Dirs

\* The variables of Maya.
HostTypes ==
  /\ callbacks \in Nat /\ known \in BOOLEAN /\ listening \in BOOLEAN
  /\ workspace \in Dirs \cup {None} /\ menu \in (Assets \X Tasks) \cup {None} /\ deferred \in Nat
  /\ reload \in {"no", "modules", "install"} /\ reloaded \in BOOLEAN /\ missed \in BOOLEAN

\* Every variable has its type.
TypeOK ==
  /\ SessionTypes /\ DiskTypes /\ PickerTypes /\ ListTypes /\ DialogTypes /\ RootKept /\ HostTypes

\* As long as no module was reloaded, Maya calls back at most once.
CalledOnce == ~reloaded => callbacks <= 1 /\ (callbacks = 1 => known)

\* The tool is open only while Avalon is installed, and then Maya listens.
HostInv ==
  /\ window => host # None
  /\ dialog # NoDialog => window
  /\ host # None => listening /\ reload = "no"
  /\ HostFollows
  /\ CalledOnce

\* What the list shows lies in its root, and so do its last file and its row.
RowInv ==
  /\ \A f \in shown : f.dir = files.root
  /\ shown # {} => top \in shown
  /\ row # None => row.dir = files.root

\* The last modified file of a directory is one of its files.
ListInv == RowInv /\ \A d \in Dirs : In(d) # {} => newest[d] \in In(d)

\* A pending timer is what the lists still have to follow.
TimerInv ==
  /\ window /\ job = "none" =>
       /\ files.asset = sel /\ files.task = current
       /\ files.enabled <=> sel # None /\ current # None
  /\ window /\ job # "asset" /\ ~skipped /\ sel # None => listed = sel

\* Until a timer runs, a dialog for a name has the context of the file list.
ContextNamed ==
  NameDialog /\ ~dialog.raced => dialog.context.asset = PickAsset /\ dialog.context.task = PickTask

\* The name in a dialog is free, and made for that context.
NameInv == NameFree /\ ContextNamed

\* The inductive invariant is all of these.
WorkInv == TypeOK /\ HostInv /\ ListInv /\ TimerInv /\ NameInv

-----------------------------------------------------------------------------
(* Lemmas on the operators of the model. *)

\* The pairs of natural numbers of which the first is the smaller.
Smaller == {p \in Nat \X Nat : p[1] < p[2]}

\* A smaller number and a larger one are such a pair.
LEMMA InSmaller ==
  ASSUME NEW x \in Nat, NEW y \in Nat, x < y
  PROVE  <<x, y>> \in Smaller
  BY SMT DEF Smaller

\* A set of natural numbers that is not empty has a least element.
LEMMA LeastExists ==
  ASSUME NEW T, T \subseteq Nat, T # {}
  PROVE  \E x \in T : \A y \in T : x <= y
<1>1. OpToRel(<, Nat) = Smaller
  BY DEF OpToRel, Smaller
<1>2. IsWellFoundedOn(Smaller, Nat)
  BY <1>1, NatLessThanWellFounded
<1>3. PICK x \in T : \A y \in T : ~(<<y, x>> \in Smaller)
  BY <1>2, WFMin
<1>4. ASSUME NEW y \in T PROVE x <= y
  <2>1. x \in Nat /\ y \in Nat /\ ~(<<y, x>> \in Smaller)
    BY <1>3
  <2>2. ~(y < x)
    BY <2>1, InSmaller
  <2>3. QED
    BY <2>1, <2>2, SMT
<1>5. QED
  BY <1>4

\* The next version is beyond every version there is, and the version below it
\* is one that there is.
LEMMA NextBeyond ==
  ASSUME disk \subseteq Files, NEW dir, NEW ctx
  PROVE  /\ NextVersion(dir, ctx) \in 1..MaxVersion + 1
         /\ \A f \in Named(dir, ctx) : f.version < NextVersion(dir, ctx)
<1> DEFINE Beyond == {n \in 1..MaxVersion + 1 : \A f \in Named(dir, ctx) : f.version < n}
<1>1. MaxVersion \in Nat \ {0}
  BY BoundsAssumption
<1>2. \A f \in Named(dir, ctx) : f.version \in 1..MaxVersion
  BY DEF Named, In, Files
<1>3. MaxVersion + 1 \in Beyond
  <2>1. \A f \in Named(dir, ctx) : f.version < MaxVersion + 1
    BY <1>1, <1>2
  <2>2. QED
    BY <1>1, <2>1
<1>4. Beyond \subseteq Nat
  BY <1>1
<1>5. PICK n \in Beyond : \A m \in Beyond : n <= m
  BY <1>3, <1>4, LeastExists
<1>6. n \in 1..MaxVersion + 1 /\ \A f \in Named(dir, ctx) : f.version < n
  BY <1>5
<1>7. ASSUME n > 1 PROVE \E f \in Named(dir, ctx) : f.version = n - 1
  <2>1. n - 1 \in 1..MaxVersion + 1 /\ ~(n <= n - 1)
    BY <1>1, <1>6, <1>7
  <2>2. n - 1 \notin Beyond
    BY <1>5, <2>1
  <2>3. PICK f \in Named(dir, ctx) : ~(f.version < n - 1)
    BY <2>1, <2>2
  <2>4. f.version = n - 1
    BY <1>1, <1>2, <1>6, <2>3
  <2>5. QED
    BY <2>4
<1> DEFINE IsNext(k) == /\ \A f \in Named(dir, ctx) : f.version < k
                        /\ k > 1 => \E f \in Named(dir, ctx) : f.version = k - 1
<1>8. IsNext(n)
  BY <1>6, <1>7
<1>9. NextVersion(dir, ctx) = CHOOSE k \in 1..MaxVersion + 1 : IsNext(k)
  BY DEF NextVersion
<1> HIDE DEF IsNext
<1>10. NextVersion(dir, ctx) \in 1..MaxVersion + 1 /\ IsNext(NextVersion(dir, ctx))
  BY <1>6, <1>8, <1>9
<1>11. QED
  BY <1>10 DEF IsNext

\* What SessionFor makes of a context.
LEMMA SessionForIs ==
  ASSUME NEW s \in Contexts, NEW a, NEW t,
         NEW b, b = (IF a = None THEN s.asset ELSE a),
         NEW u, u = (IF t = None THEN s.task ELSE t)
  PROVE  SessionFor(s, a, t) = IF b = s.asset /\ u = s.task THEN s
                               ELSE [asset |-> b, task |-> u, workdir |-> WorkDir(b, u)]
<1> DEFINE new == [s EXCEPT !.asset = IF a = None THEN @ ELSE a, !.task = IF t = None THEN @ ELSE t]
<1>1. s = [asset |-> s.asset, task |-> s.task, workdir |-> s.workdir]
  BY DEF Contexts
<1>2. new = [asset |-> b, task |-> u, workdir |-> s.workdir]
  <2>1. new = [s EXCEPT !.asset = b, !.task = u]
    OBVIOUS
  <2> HIDE DEF new
  <2>2. [s EXCEPT !.asset = b] = [asset |-> b, task |-> s.task, workdir |-> s.workdir]
    BY <1>1
  <2>3. ASSUME NEW r, r = [asset |-> b, task |-> s.task, workdir |-> s.workdir]
        PROVE  [r EXCEPT !.task = u] = [asset |-> b, task |-> u, workdir |-> s.workdir]
    BY <2>3
  <2>4. [s EXCEPT !.asset = b, !.task = u] = [[s EXCEPT !.asset = b] EXCEPT !.task = u]
    OBVIOUS
  <2>5. QED
    BY <2>1, <2>2, <2>3, <2>4
<1>3. new = s <=> b = s.asset /\ u = s.task
  BY <1>1, <1>2
<1>4. new.asset = b /\ new.task = u
  BY <1>2
<1>5. ASSUME NEW w PROVE [new EXCEPT !.workdir = w] = [asset |-> b, task |-> u, workdir |-> w]
  <2> HIDE DEF new
  <2>1. QED
    BY <1>2
<1>6. SessionFor(s, a, t) = IF new = s THEN s ELSE [new EXCEPT !.workdir = WorkDir(new.asset, new.task)]
  BY DEF SessionFor
<1>7. QED
  BY <1>3, <1>4, <1>5, <1>6

\* What the file list would enter, and when that raises, in terms of its asset and task.
LEMMA PickIs ==
  session \in Contexts =>
    /\ Picked.asset = PickAsset /\ Picked.task = PickTask
    /\ ~PickChanges => Picked = session
    /\ PickChanges => Picked = [asset |-> PickAsset, task |-> PickTask, workdir |-> WorkDir(PickAsset, PickTask)]
    /\ PickRaises <=> PickChanges /\ place[PickAsset] = Gone
<1> SUFFICES ASSUME session \in Contexts
             PROVE  /\ Picked.asset = PickAsset /\ Picked.task = PickTask
                    /\ ~PickChanges => Picked = session
                    /\ PickChanges => Picked = [asset |-> PickAsset, task |-> PickTask, workdir |-> WorkDir(PickAsset, PickTask)]
                    /\ PickRaises <=> PickChanges /\ place[PickAsset] = Gone
  OBVIOUS
<1>1. Picked = IF PickAsset = session.asset /\ PickTask = session.task THEN session
               ELSE [asset |-> PickAsset, task |-> PickTask, workdir |-> WorkDir(PickAsset, PickTask)]
  BY SessionForIs DEF Picked, PickAsset, PickTask
<1>2. PickChanges <=> ~(PickAsset = session.asset /\ PickTask = session.task)
  BY DEF PickChanges, PickAsset, PickTask
<1>3. PickChanges => Picked # session
  BY <1>1, <1>2
<1>4. PickRaises <=> Picked # session /\ place[Picked.asset] = Gone
  BY DEF PickRaises, Picked, SessionRaises
<1>5. QED
  BY <1>1, <1>2, <1>3, <1>4

-----------------------------------------------------------------------------
(* What the steps do to the context of the session. *)

\* A context that can be entered is of the right type, and its work directory is
\* that of its asset and task.
LEMMA PickedIsContext ==
  ASSUME SessionTypes, files \in FileLists, ~PickRaises
  PROVE  /\ Picked \in Contexts
         /\ Picked.workdir.asset = Picked.asset /\ Picked.workdir.task = Picked.task
<1>1. PickAsset \in Assets /\ PickTask \in Tasks
  BY DEF SessionTypes, Contexts, FileLists, PickAsset, PickTask
<1>2. CASE ~PickChanges
  BY <1>2, PickIs DEF SessionTypes
<1>3. CASE PickChanges
  <2>1. place[PickAsset] \in {0, 1}
    BY <1>1, <1>3, PickIs DEF SessionTypes
  <2>2. WorkDir(PickAsset, PickTask) \in Dirs
        /\ WorkDir(PickAsset, PickTask).asset = PickAsset /\ WorkDir(PickAsset, PickTask).task = PickTask
    BY <1>1, <2>1 DEF WorkDir, Dirs
  <2>3. Picked = [asset |-> PickAsset, task |-> PickTask, workdir |-> WorkDir(PickAsset, PickTask)]
    BY <1>3, PickIs DEF SessionTypes
  <2>4. QED
    BY <1>1, <2>2, <2>3 DEF Contexts
<1>4. QED
  BY <1>2, <1>3

\* _enter_session enters the context of the file list, whether it is another one or not.
LEMMA EnterIs ==
  ASSUME SessionTypes, EnterSession
  PROVE  session' = Picked /\ environ' = Picked
<1>1. CASE Picked = session
  BY <1>1 DEF EnterSession, Picked, SessionTypes
<1>2. CASE Picked # session
  BY <1>2 DEF EnterSession, Picked, UpdateCurrentTask
<1>3. QED
  BY <1>1, <1>2

\* The context stays, or it becomes the one of the file list.
ContextStays == session' = session /\ environ' = environ
ContextEntered == ~PickRaises /\ session' = Picked /\ environ' = Picked

\* What no step of the tool but a moved asset changes of the session.
SessionRest == <<place, host, config, connected, ran>>

\* Opening a file, with or without the prompt before it.
LEMMA OpenContext ==
  ASSUME SessionTypes, NEW path, Open(path)
  PROVE  (ContextStays \/ ContextEntered) /\ UNCHANGED SessionRest
<1>1. CASE PickRaises
  BY <1>1 DEF Open, PickRaises, ContextStays, SessionRest
<1>2. CASE ~PickRaises
  <2>1. EnterSession
    BY <1>2 DEF Open, PickRaises
  <2>2. QED
    BY <1>2, <2>1, EnterIs DEF Open, ContextEntered, SessionRest
<1>3. QED
  BY <1>1, <1>2

\* The steps of the tool that open a file, or save one.
Opening == PressOpen \/ (\E f \in disk : Browse(f)) \/ AnswerYes \/ AnswerNo

\* Every way to open a file keeps the context or enters that of the list.
LEMMA OpeningContext ==
  ASSUME SessionTypes, Opening
  PROVE  (ContextStays \/ ContextEntered) /\ UNCHANGED SessionRest
<1> USE DEF ContextStays, SessionRest, sessionVars
<1>1. ASSUME NEW path, NEW raced, OpenFile(path, raced)
      PROVE  (ContextStays \/ ContextEntered) /\ UNCHANGED SessionRest
  BY <1>1, OpenContext DEF OpenFile
<1>2. CASE PressOpen
  BY <1>1, <1>2 DEF PressOpen
<1>3. CASE \E f \in disk : Browse(f)
  BY <1>1, <1>3 DEF Browse
<1>4. CASE AnswerYes
  BY <1>4, OpenContext DEF AnswerYes
<1>5. CASE AnswerNo
  BY <1>5, OpenContext DEF AnswerNo
<1>6. QED
  BY <1>2, <1>3, <1>4, <1>5 DEF Opening

\* Saving keeps the context or enters that of the list.
LEMMA SavingContext ==
  ASSUME SessionTypes, OkSave
  PROVE  (ContextStays \/ ContextEntered) /\ UNCHANGED SessionRest
<1>1. UNCHANGED SessionRest
  BY DEF OkSave, SessionRest
<1>2. CASE ~RootReady \/ PickRaises
  BY <1>1, <1>2 DEF OkSave, PickRaises, ContextStays
<1>3. CASE ~(~RootReady \/ PickRaises)
  <2>1. EnterSession
    BY <1>3 DEF OkSave, PickRaises
  <2>2. QED
    BY <1>1, <1>3, <2>1, EnterIs DEF ContextEntered
<1>4. QED
  BY <1>1, <1>2, <1>3

\* The steps of the tool that leave the session alone.
Elsewhere ==
  \/ Show \/ AssetJob \/ TaskJob \/ PickTimer
  \/ \E a \in Assets : ClickAsset(a)
  \/ listed # None /\ \E t \in TasksOf[listed] : ClickTask(t)
  \/ \E f \in shown : ClickFile(f)
  \/ PressBrowse \/ Cancel \/ (\E kind \in {"save", "duplicate"} : PressName(kind)) \/ EditName \/ OkDuplicate
  \/ (\E f \in Files : f.dir = WorkDir(f.asset, f.task) /\ OthersWrite(f))
  \/ HostEdits

\* The other steps of the tool leave the whole session alone.
LEMMA ElsewhereContext ==
  ASSUME Elsewhere
  PROVE  UNCHANGED sessionVars
<1>1. CASE Show \/ AssetJob \/ TaskJob \/ PickTimer
  BY <1>1 DEF Show, AssetJob, TaskJob, PickTimer
<1>2. CASE \E a \in Assets : ClickAsset(a)
  BY <1>2 DEF ClickAsset
<1>3. CASE listed # None /\ \E t \in TasksOf[listed] : ClickTask(t)
  BY <1>3 DEF ClickTask
<1>4. CASE \E f \in shown : ClickFile(f)
  BY <1>4 DEF ClickFile
<1>5. CASE PressBrowse \/ Cancel \/ EditName \/ OkDuplicate \/ HostEdits
  BY <1>5 DEF PressBrowse, Cancel, EditName, OkDuplicate, HostEdits
<1>6. CASE \E kind \in {"save", "duplicate"} : PressName(kind)
  BY <1>6 DEF PressName
<1>7. CASE \E f \in Files : f.dir = WorkDir(f.asset, f.task) /\ OthersWrite(f)
  BY <1>7 DEF OthersWrite
<1>8. QED
  BY <1>1, <1>2, <1>3, <1>4, <1>5, <1>6, <1>7 DEF Elsewhere

\* A step of the tool, by what it does to the session.
LEMMA ToolSteps ==
  ASSUME ToolNext
  PROVE  Elsewhere \/ Opening \/ OkSave \/ AssetMoved
  BY DEF ToolNext, Elsewhere, Opening

\* Installing reads the context from the environment, which has the same.
LEMMA InstallContext ==
  ASSUME SessionTypes, NEW step \in 0..Len(Steps), InstallThrough(step)
  PROVE  ContextStays /\ place' = place
  BY DEF InstallThrough, Connect, SessionTypes, ContextStays

\* What was registered was installed before.
LEMMA ThroughOrder ==
  ASSUME NEW step \in 0..Len(Steps)
  PROVE  /\ "register_host" \in Through(step) => "host" \in Through(step)
         /\ "register_config" \in Through(step) => "host" \in Through(step)
<1>1. Steps[3] = "host" /\ Steps[5] = "register_host" /\ Steps[6] = "register_config" /\ Len(Steps) = 7
  BY DEF Steps
<1>2. ASSUME NEW i \in 1..step, Steps[i] \in {"register_host", "register_config"} PROVE i \in {5, 6}
  BY <1>1, <1>2 DEF Steps
<1>3. ASSUME \E i \in 1..step : Steps[i] \in {"register_host", "register_config"} PROVE 3 \in 1..step
  BY <1>1, <1>2, <1>3
<1>4. QED
  BY <1>1, <1>3 DEF Through

\* What installing and uninstalling change of the session.
Registered == host \in {None, "host"} /\ config \in {None, "config"} /\ connected \in BOOLEAN
              /\ ran \subseteq {"host", "config_host", "config"}

\* Installing Avalon in Maya keeps the context.
LEMMA InstallMayaContext ==
  ASSUME SessionTypes, InstallMaya
  PROVE  ContextStays /\ place' = place /\ Registered'
<1>1. PICK step \in 0..Len(Steps) : InstallThrough(step)
  BY DEF InstallMaya
<1>2. Registered'
  BY <1>1 DEF InstallThrough, Connect, SessionTypes, Registered
<1>3. QED
  BY <1>1, <1>2, InstallContext

\* So does uninstalling it, which deregisters both host and config or neither.
LEMMA UninstallMayaContext ==
  ASSUME SessionTypes, UninstallMaya
  PROVE  ContextStays /\ place' = place /\ Registered'
         /\ \/ config' = config /\ config # None /\ host' = host
            \/ config' = None /\ host' = None /\ menu' = None
<1>1. CASE UninstallMenu /\ \E failed \in {{}, {"config"}} : UninstallAll(failed)
  BY <1>1 DEF UninstallAll, UninstallMenu, SessionTypes, Registered, ContextStays
<1>2. CASE \E undone \in {{"config_host", "host"}, {}, {"config_host"}} : UninstallPart(undone)
  BY <1>2 DEF UninstallPart, SessionTypes, Registered, ContextStays
<1>3. QED
  BY <1>1, <1>2 DEF UninstallMaya

\* The steps of Maya itself.
HostSteps == Startup \/ ReloadPipeline \/ ReloadModules \/ ReloadInstall \/ MakeMenu

\* No step of Maya itself leaves the context.
LEMMA HostContext ==
  ASSUME SessionTypes, HostSteps
  PROVE  ContextStays /\ place' = place /\ Registered'
<1>1. CASE Startup
  BY <1>1, InstallMayaContext, UninstallMayaContext DEF Startup
<1>2. CASE ReloadPipeline
  BY <1>2, UninstallMayaContext DEF ReloadPipeline
<1>3. CASE ReloadModules
  BY <1>3 DEF ReloadModules, vars, sessionVars, SessionTypes, Registered, ContextStays
<1>4. CASE ReloadInstall
  BY <1>4, InstallMayaContext DEF ReloadInstall
<1>5. CASE MakeMenu
  BY <1>5 DEF MakeMenu, vars, sessionVars, SessionTypes, Registered, ContextStays
<1>6. QED
  BY <1>1, <1>2, <1>3, <1>4, <1>5 DEF HostSteps

\* A step of the whole is one of the host, or one of the tool.
LEMMA MayaSteps ==
  ASSUME [MayaNext]_allVars
  PROVE  HostSteps \/ Work \/ UNCHANGED allVars
  BY DEF MayaNext, HostSteps

\* The session keeps its types, and no step leaves it but by entering the
\* context of the file list.
LEMMA SessionKept ==
  ASSUME SessionTypes, files \in FileLists, [MayaNext]_allVars
  PROVE  SessionTypes' /\ (ContextStays \/ (ContextEntered /\ (Opening \/ OkSave) /\ Work))
<1> USE DEF ContextStays
<1>1. ASSUME ContextStays \/ ContextEntered, place' = place, Registered' PROVE SessionTypes'
  BY <1>1, PickedIsContext DEF ContextEntered, SessionTypes, Registered
<1>2. CASE HostSteps
  BY <1>1, <1>2, HostContext
<1>3. CASE Work
  <2>1. ToolNext
    BY <1>3 DEF Work
  <2>2. CASE Elsewhere
    BY <2>2, ElsewhereContext DEF sessionVars, SessionTypes
  <2>3. CASE Opening \/ OkSave
    <3>1. (ContextStays \/ ContextEntered) /\ UNCHANGED SessionRest
      BY <2>3, OpeningContext, SavingContext
    <3>2. place' = place /\ Registered'
      BY <3>1 DEF SessionRest, SessionTypes, Registered
    <3>3. QED
      BY <1>1, <1>3, <2>3, <3>1, <3>2
  <2>4. CASE AssetMoved
    <3>1. PICK a \in Assets, p \in {1, Gone} : place' = [place EXCEPT ![a] = p]
      BY <2>4 DEF AssetMoved, MoveAsset
    <3>2. place' \in [Assets -> {0, 1, Gone}]
      BY <3>1 DEF SessionTypes
    <3>3. UNCHANGED <<session, environ, host, config, connected, ran>>
      BY <2>4 DEF AssetMoved, MoveAsset
    <3>4. QED
      BY <3>2, <3>3 DEF SessionTypes
  <2>5. QED
    BY <2>1, <2>2, <2>3, <2>4, ToolSteps
<1>4. CASE UNCHANGED allVars
  BY <1>4 DEF allVars, vars, sessionVars, SessionTypes
<1>5. QED
  BY <1>2, <1>3, <1>4, MayaSteps

-----------------------------------------------------------------------------
(* The types. *)

\* A work file named in the dialog, for the root of the file list.
NewFile == [FileOf(dialog) EXCEPT !.dir = files.root]

\* It lies in the root of the list and is named for the context of the dialog.
LEMMA NewFileIs ==
  ASSUME DialogTypes, NameDialog, files.root \in Dirs
  PROVE  /\ NewFile \in Files /\ NewFile.dir = files.root
         /\ NewFile.asset = dialog.context.asset /\ NewFile.task = dialog.context.task
<1>1. FileOf(dialog) = [dir |-> dialog.dir, asset |-> dialog.context.asset,
                        task |-> dialog.context.task, version |-> dialog.version]
  BY DEF FileOf
<1>2. NewFile = [dir |-> files.root, asset |-> dialog.context.asset,
                 task |-> dialog.context.task, version |-> dialog.version]
  BY <1>1 DEF NewFile
<1>3. dialog.context \in Contexts /\ dialog.version \in 1..MaxVersion
  BY DEF DialogTypes, Dialogs
<1>4. QED
  BY <1>2, <1>3 DEF Files, Contexts

\* What an installation, however far it gets, does to Maya.
Following(dir) == workspace' = dir /\ missed' = FALSE
\* What an installation may do to the variables of Maya.
InstallEffect ==
  /\ dirs' \in {dirs, dirs \cup {session.workdir}}
  /\ RegisterCallbacks \/ UNCHANGED <<callbacks, known>>
  /\ listening' \in {listening, TRUE}
  /\ Following(session.workdir) \/ UNCHANGED <<workspace, missed>>
  /\ menu' \in {menu, None}
  /\ deferred' \in {deferred, deferred + 1}
  /\ host' = host \/ (RegisterCallbacks /\ listening' = TRUE /\ Following(session.workdir))

\* What the host's install function does, however far it gets.
LEMMA HostInstallEffect ==
  ASSUME NEW stage \in 0..4, HostInstall(stage), session' = session
  PROVE  /\ dirs' \in {dirs, dirs \cup {session.workdir}}
         /\ IF stage >= 1 THEN RegisterCallbacks ELSE UNCHANGED <<callbacks, known>>
         /\ listening' = (IF stage >= 2 THEN TRUE ELSE listening)
         /\ IF stage >= 3 THEN Following(session.workdir) ELSE UNCHANGED <<workspace, missed>>
         /\ menu' \in {menu, None}
         /\ deferred' \in {deferred, deferred + 1}
  BY DEF HostInstall, RegisterEvents, SetProject, Following, InstallMenu, UninstallMenu

\* An installation does no more than that.
LEMMA InstallMayaEffect ==
  ASSUME SessionTypes, InstallMaya
  PROVE  InstallEffect
<1>1. PICK step \in 0..Len(Steps) :
        /\ InstallThrough(step)
        /\ IF "host" \in Through(step) THEN HostInstall(4)
           ELSE IF "find_config" \in Through(step) THEN \E stage \in 0..3 : HostInstall(stage)
           ELSE UNCHANGED <<eventVars, dirs, workspace, missed, menu, deferred>>
  BY DEF InstallMaya
<1>2. session' = session
  BY <1>1, InstallContext DEF ContextStays
<1>3. CASE "host" \in Through(step)
  <2>1. HostInstall(4)
    BY <1>1, <1>3
  <2>2. QED
    BY <1>2, <2>1, HostInstallEffect DEF InstallEffect
<1>4. CASE "host" \notin Through(step)
  <2>1. host' = host
    BY <1>1, <1>4, ThroughOrder DEF InstallThrough
  <2>2. CASE "find_config" \in Through(step)
    <3>1. PICK stage \in 0..3 : HostInstall(stage)
      BY <1>1, <1>4, <2>2
    <3>2. stage \in 0..4
      OBVIOUS
    <3>3. /\ dirs' \in {dirs, dirs \cup {session.workdir}}
          /\ IF stage >= 1 THEN RegisterCallbacks ELSE UNCHANGED <<callbacks, known>>
          /\ listening' = (IF stage >= 2 THEN TRUE ELSE listening)
          /\ IF stage >= 3 THEN Following(session.workdir) ELSE UNCHANGED <<workspace, missed>>
          /\ menu' \in {menu, None}
          /\ deferred' \in {deferred, deferred + 1}
      BY <1>2, <3>1, <3>2, HostInstallEffect
    <3>4. QED
      BY <2>1, <3>3 DEF InstallEffect
  <2>3. CASE "find_config" \notin Through(step)
    BY <1>1, <1>4, <2>1, <2>3 DEF InstallEffect, eventVars
  <2>4. QED
    BY <2>2, <2>3
<1>5. QED
  BY <1>3, <1>4

\* Uninstalling leaves all but the menu and what is registered.
LEMMA UninstallMayaEffect ==
  ASSUME UninstallMaya
  PROVE  UNCHANGED <<dirs, eventVars, workspace, deferred, reloaded, missed>> /\ menu' \in {menu, None}
  BY DEF UninstallMaya, UninstallMenu, diskVars

\* The steps of the host leave the tool alone.
ToolVars == <<disk, newest, sceneVars, window, pickerVars, job, listVars, dialog>>

\* Maya changes nothing of the tool.
LEMMA HostLeavesTool ==
  ASSUME HostSteps
  PROVE  UNCHANGED ToolVars
<1>1. ASSUME InstallMaya PROVE UNCHANGED ToolVars
  BY <1>1 DEF InstallMaya, ToolVars
<1>2. ASSUME UninstallMaya PROVE UNCHANGED ToolVars
  BY <1>2 DEF UninstallMaya, ToolVars, diskVars
<1>3. CASE Startup \/ ReloadPipeline \/ ReloadInstall
  BY <1>1, <1>2, <1>3 DEF Startup, ReloadPipeline, ReloadInstall
<1>4. CASE ReloadModules
  BY <1>4 DEF ReloadModules, vars, diskVars, ToolVars
<1>5. CASE MakeMenu
  BY <1>5 DEF MakeMenu, vars, diskVars, ToolVars
<1>6. QED
  BY <1>3, <1>4, <1>5 DEF HostSteps

\* The directories keep their type in a step of the host.
LEMMA HostDirs ==
  ASSUME SessionTypes, DiskTypes, HostSteps
  PROVE  dirs' \subseteq Dirs
<1>1. session.workdir \in Dirs
  BY DEF SessionTypes, Contexts
<1>2. ASSUME InstallMaya PROVE dirs' \subseteq Dirs
  BY <1>1, <1>2, InstallMayaEffect DEF InstallEffect, DiskTypes
<1>3. ASSUME UninstallMaya PROVE dirs' \subseteq Dirs
  BY <1>3, UninstallMayaEffect DEF DiskTypes
<1>4. CASE Startup \/ ReloadPipeline \/ ReloadInstall
  BY <1>2, <1>3, <1>4 DEF Startup, ReloadPipeline, ReloadInstall
<1>5. CASE ReloadModules
  BY <1>5 DEF ReloadModules, vars, diskVars, DiskTypes
<1>6. CASE MakeMenu
  BY <1>6 DEF MakeMenu, vars, diskVars, DiskTypes
<1>7. QED
  BY <1>4, <1>5, <1>6 DEF HostSteps

\* A file that is put on the disk.
LEMMA PutTypes ==
  ASSUME DiskTypes, NEW f \in Files, Put(f)
  PROVE  disk' \subseteq Files /\ newest' \in [Dirs -> Files \cup {None}]
  BY DEF Put, DiskTypes

\* Opening a file changes at most the context, the scene and the window, and
\* shows no dialog or a prompt.
LEMMA OpenEffect ==
  ASSUME NEW path, Open(path)
  PROVE  scene' \in {scene, path} /\ window' \in {window, FALSE} /\ dialog' = NoDialog
  BY DEF Open

\* The same with the prompt, which keeps the session, the scene and the window.
LEMMA OpenFileEffect ==
  ASSUME NEW path, NEW raced, OpenFile(path, raced)
  PROVE  /\ scene' \in {scene, path} /\ window' \in {window, FALSE}
         /\ \/ dialog' = NoDialog
            \/ dialog' = [NoDialog EXCEPT !.kind = "prompt", !.path = path, !.raced = raced]
               /\ UNCHANGED <<sessionVars, scene, window>>
  BY OpenEffect DEF OpenFile

\* A step leaves the disk alone, or puts a file on it.
DiskChange == UNCHANGED <<disk, newest>> \/ \E f \in Files : Put(f)

\* The disk keeps its type, and a step writes at most one file.
LEMMA DiskKept ==
  ASSUME SessionTypes, DiskTypes, ListTypes, DialogTypes, RootKept, [MayaNext]_allVars
  PROVE  DiskTypes' /\ DiskChange
<1> USE DEF DiskChange
<1>1. CASE UNCHANGED <<disk, newest, dirs, scene, dirty>>
  BY <1>1 DEF DiskTypes
<1>2. CASE HostSteps
  BY <1>2, HostLeavesTool, HostDirs DEF ToolVars, sceneVars, DiskTypes
<1>3. CASE Show \/ AssetJob \/ TaskJob \/ PickTimer
  BY <1>3, <1>1 DEF Show, AssetJob, TaskJob, PickTimer, diskVars, sceneVars
<1>4. CASE \E a \in Assets : ClickAsset(a)
  BY <1>4, <1>1 DEF ClickAsset, diskVars, sceneVars
<1>5. CASE listed # None /\ \E t \in TasksOf[listed] : ClickTask(t)
  BY <1>5, <1>1 DEF ClickTask, diskVars, sceneVars
<1>6. CASE \E f \in shown : ClickFile(f)
  BY <1>6, <1>1 DEF ClickFile, diskVars, sceneVars
<1>7. CASE PressBrowse \/ Cancel \/ EditName \/ AssetMoved
  BY <1>7, <1>1 DEF PressBrowse, Cancel, EditName, AssetMoved, diskVars, sceneVars
<1>8. CASE \E kind \in {"save", "duplicate"} : PressName(kind)
  BY <1>8, <1>1 DEF PressName, diskVars, sceneVars
<1>9. CASE \E f \in Files : f.dir = WorkDir(f.asset, f.task) /\ OthersWrite(f)
  <2>1. PICK f \in Files : Write(f) /\ UNCHANGED sceneVars
    BY <1>9 DEF OthersWrite
  <2>2. f.dir \in Dirs
    BY DEF Files
  <2>3. QED
    BY <2>1, <2>2, PutTypes DEF Write, sceneVars, DiskTypes
<1>10. CASE HostEdits
  BY <1>10 DEF HostEdits, diskVars, DiskTypes
<1>11. CASE PressOpen
  <2>1. OpenFile(row, FALSE) /\ row # None /\ UNCHANGED <<diskVars, dirty>>
    BY <1>11 DEF PressOpen
  <2>2. QED
    BY <2>1, OpenFileEffect DEF diskVars, DiskTypes, ListTypes
<1>12. CASE \E f \in disk : Browse(f)
  <2>1. PICK f \in disk : OpenFile(f, dialog.raced) /\ UNCHANGED <<diskVars, dirty>>
    BY <1>12 DEF Browse
  <2>2. QED
    BY <2>1, OpenFileEffect DEF diskVars, DiskTypes
<1>13. CASE AnswerYes
  <2>1. CASE scene = None
    BY <1>13, <2>1, <1>1 DEF AnswerYes, diskVars, sceneVars
  <2>2. CASE scene # None
    <3>1. Write(scene) /\ dirty' = FALSE /\ Open(dialog.path) /\ dialog.kind = "prompt"
      BY <1>13, <2>2 DEF AnswerYes
    <3>2. scene \in Files /\ scene.dir \in Dirs /\ dialog.path \in Files
      BY <2>2, <3>1 DEF DiskTypes, Files, DialogTypes
    <3>3. QED
      BY <3>1, <3>2, PutTypes, OpenEffect DEF Write, DiskTypes
  <2>3. QED
    BY <2>1, <2>2
<1>14. CASE AnswerNo
  <2>1. Open(dialog.path) /\ dialog.path \in Files /\ UNCHANGED diskVars
    BY <1>14 DEF AnswerNo, DialogTypes
  <2>2. dirty' \in BOOLEAN
    BY <1>14, <2>1, OpenEffect DEF AnswerNo, DiskTypes
  <2>3. QED
    BY <2>1, <2>2, OpenEffect DEF diskVars, DiskTypes
<1>15. CASE OkSave
  <2>1. NameDialog /\ files.root \in Dirs
    BY <1>15 DEF OkSave, NameDialog, RootKept
  <2>2. dirs' \subseteq Dirs
    BY <1>15, <2>1 DEF OkSave, InitializeWorkDir, DiskTypes
  <2>3. CASE UNCHANGED <<disk, newest, scene, dirty>>
    BY <2>2, <2>3 DEF DiskTypes
  <2>4. CASE Put(NewFile) /\ scene' = NewFile /\ dirty' = FALSE
    BY <2>1, <2>2, <2>4, NewFileIs, PutTypes DEF DiskTypes
  <2>5. QED
    BY <1>15, <2>3, <2>4 DEF OkSave, NewFile
<1>16. CASE OkDuplicate
  <2>1. NameDialog /\ files.root \in Dirs
    BY <1>16 DEF OkDuplicate, NameDialog, RootKept
  <2>2. UNCHANGED <<dirs, scene, dirty>>
    BY <1>16 DEF OkDuplicate, sceneVars
  <2>3. CASE UNCHANGED <<disk, newest>>
    BY <2>2, <2>3 DEF DiskTypes
  <2>4. CASE Put(NewFile)
    BY <2>1, <2>2, <2>4, NewFileIs, PutTypes DEF DiskTypes
  <2>5. QED
    BY <1>16, <2>3, <2>4 DEF OkDuplicate, NewFile
<1>17. CASE UNCHANGED allVars
  BY <1>17, <1>1 DEF allVars, vars, diskVars, sceneVars
<1>18. QED
  BY <1>2, <1>3, <1>4, <1>5, <1>6, <1>7, <1>8, <1>9, <1>10, <1>11, <1>12, <1>13, <1>14, <1>15,
     <1>16, <1>17, MayaSteps DEF Work, ToolNext

\* The selection keeps its type.
LEMMA PickerKept ==
  ASSUME SessionTypes, PickerTypes, [MayaNext]_allVars
  PROVE  PickerTypes'
<1>1. CASE UNCHANGED <<pickerVars, job>> /\ window' \in {window, FALSE}
  BY <1>1 DEF pickerVars, PickerTypes
<1>2. CASE HostSteps
  BY <1>1, <1>2, HostLeavesTool DEF ToolVars
<1>3. CASE Show
  <2>1. session.asset \in Assets /\ session.task \in Tasks
    BY DEF SessionTypes, Contexts
  <2>2. QED
    BY <1>3, <2>1 DEF Show, PickerTypes
<1>4. CASE \E a \in Assets : ClickAsset(a)
  BY <1>4, AssetsAssumption DEF ClickAsset, PickerTypes
<1>5. CASE listed # None /\ \E t \in TasksOf[listed] : ClickTask(t)
  <2>1. PICK t \in TasksOf[listed] : ClickTask(t)
    BY <1>5
  <2>2. t \in Tasks
    BY <1>5, <2>1 DEF PickerTypes, Tasks
  <2>3. QED
    BY <2>1, <2>2 DEF ClickTask, PickerTypes
<1>6. CASE AssetJob
  <2>1. last' \in Tasks \cup {None} /\ current' \in {last', None}
    BY <1>6 DEF AssetJob, PickerTypes
  <2>2. QED
    BY <1>6, <2>1 DEF AssetJob, PickerTypes
<1>7. CASE TaskJob
  BY <1>7 DEF TaskJob, pickerVars, PickerTypes
<1>8. CASE PickTimer \/ PressBrowse \/ Cancel \/ EditName \/ HostEdits \/ AssetMoved \/ OkSave \/ OkDuplicate
  BY <1>8, <1>1 DEF PickTimer, PressBrowse, Cancel, EditName, HostEdits, AssetMoved, OkSave, OkDuplicate, Untouched
<1>9. CASE \E f \in shown : ClickFile(f)
  BY <1>9, <1>1 DEF ClickFile
<1>10. CASE \E kind \in {"save", "duplicate"} : PressName(kind)
  BY <1>10, <1>1 DEF PressName, Untouched
<1>11. CASE \E f \in Files : f.dir = WorkDir(f.asset, f.task) /\ OthersWrite(f)
  BY <1>11, <1>1 DEF OthersWrite
<1>12. CASE PressOpen
  BY <1>12, <1>1, OpenFileEffect DEF PressOpen, Untouched
<1>13. CASE \E f \in disk : Browse(f)
  <2>1. PICK f \in disk : OpenFile(f, dialog.raced) /\ Untouched
    BY <1>13 DEF Browse
  <2>2. QED
    BY <1>1, <2>1, OpenFileEffect DEF Untouched
<1>14. CASE AnswerYes
  <2>1. Untouched /\ (UNCHANGED window \/ Open(dialog.path))
    BY <1>14 DEF AnswerYes
  <2>2. QED
    BY <1>1, <2>1, OpenEffect DEF Untouched
<1>15. CASE AnswerNo
  <2>1. Untouched /\ Open(dialog.path)
    BY <1>15 DEF AnswerNo
  <2>2. QED
    BY <1>1, <2>1, OpenEffect DEF Untouched
<1>16. CASE UNCHANGED allVars
  BY <1>16, <1>1 DEF allVars, vars
<1>17. QED
  BY <1>2, <1>3, <1>4, <1>5, <1>6, <1>7, <1>8, <1>9, <1>10, <1>11, <1>12, <1>13, <1>14, <1>15,
     <1>16, MayaSteps DEF Work, ToolNext

-----------------------------------------------------------------------------
(* What a step does to the file list. *)

\* The list is made of a directory, it is emptied, or it stays.
ListedFrom(on, lastOf) ==
  /\ files'.root \in Dirs /\ shown' = {f \in on : f.dir = files'.root}
  /\ top' = lastOf[files'.root] /\ row' = None
\* A new list is empty where there is no asset or task.
ListEmptied == files'.root = files.root /\ ListNone /\ row' = None
\* What raised leaves the list as it was.
ListStays == files'.root = files.root /\ UNCHANGED <<shown, top, row>>

\* _on_task_changed makes the list of the selected asset and task.
Tasked ==
  /\ files' \in FileLists /\ files'.asset = sel /\ files'.task = current
  /\ files'.enabled <=> sel # None /\ current # None
  /\ \/ ListedFrom(disk, newest) \/ (ListEmptied /\ (sel = None \/ current = None))
     \/ ListStays /\ SessionRaises(session, sel, current)

\* The timer of a task does that.
LEMMA TaskJobEffect ==
  ASSUME SessionTypes, PickerTypes, ListTypes, TaskJob
  PROVE  Tasked /\ pick' \in BOOLEAN
<1> DEFINE root == SessionFor(session, sel, current).workdir
           raises == SessionRaises(session, sel, current)
           none == sel = None \/ current = None
<1>1. files' = [asset |-> sel, task |-> current, enabled |-> (sel # None /\ current # None),
                root |-> IF none \/ raises THEN files.root ELSE root]
  BY DEF TaskJob, SetAssetTask
<1>2. /\ none => ListNone /\ row' = None
      /\ ~none /\ raises => UNCHANGED <<shown, top, row>>
      /\ ~none /\ ~raises => List(root, disk, newest) /\ row' = None
  BY DEF TaskJob, SetAssetTask
<1>3. files.root \in Dirs \cup {None}
  BY DEF ListTypes, FileLists
<1>4. ASSUME ~none, ~raises PROVE root \in Dirs
  <2>1. sel \in Assets /\ current \in Tasks
    BY <1>4 DEF PickerTypes
  <2>2. SessionFor(session, sel, current) = IF sel = session.asset /\ current = session.task THEN session
          ELSE [asset |-> sel, task |-> current, workdir |-> WorkDir(sel, current)]
    BY <1>4, SessionForIs DEF SessionTypes
  <2>3. CASE SessionFor(session, sel, current) = session
    BY <2>3 DEF SessionTypes, Contexts
  <2>4. CASE SessionFor(session, sel, current) # session
    <3>1. SessionFor(session, sel, current).asset = sel
          /\ SessionFor(session, sel, current).workdir = WorkDir(sel, current)
      BY <2>2, <2>4
    <3>2. place[sel] \in {0, 1}
      BY <1>4, <2>1, <2>4, <3>1 DEF SessionRaises, SessionTypes
    <3>3. QED
      BY <2>1, <3>1, <3>2 DEF WorkDir, Dirs
  <2>5. QED
    BY <2>3, <2>4
<1> HIDE DEF root, raises, none
<1>5. /\ files'.asset = sel /\ files'.task = current /\ (files'.enabled <=> sel # None /\ current # None)
      /\ files'.root = IF none \/ raises THEN files.root ELSE root
  BY <1>1
<1>6. files' \in FileLists
  BY <1>1, <1>3, <1>4 DEF FileLists, PickerTypes
<1>7. ListedFrom(disk, newest) \/ (ListEmptied /\ none) \/ (ListStays /\ raises)
  <2>1. CASE none
    BY <1>2, <1>5, <2>1 DEF ListEmptied
  <2>2. CASE ~none /\ raises
    BY <1>2, <1>5, <2>2 DEF ListStays
  <2>3. CASE ~none /\ ~raises
    BY <1>2, <1>4, <1>5, <2>3 DEF ListedFrom, List
  <2>4. QED
    BY <2>1, <2>2, <2>3
<1>8. pick' \in BOOLEAN
  BY DEF TaskJob, ListTypes
<1>9. QED
  BY <1>5, <1>6, <1>7, <1>8 DEF Tasked, raises, none

\* A list that is made anew is made of the disk as it is then.
Relisted ==
  /\ files' \in FileLists /\ files'.asset = files.asset /\ files'.task = files.task
  /\ files'.enabled = files.enabled /\ pick' = TRUE
  /\ ListedFrom(disk', newest') \/ ListEmptied

\* Listing the files again does that.
LEMMA RelistEffect ==
  ASSUME ListTypes, NEW dir \in Dirs, Relist(dir)
  PROVE  Relisted
<1> DEFINE picked == files.asset # None /\ files.task # None
<1>1. files' = [files EXCEPT !.root = IF picked THEN dir ELSE files.root]
  BY DEF Relist
<1>2. files \in FileLists
  BY DEF ListTypes
<1>3. /\ picked => List(dir, disk', newest')
      /\ ~picked => ListNone
      /\ row' = None /\ pick' = TRUE
  BY DEF Relist
<1> HIDE DEF picked
<1>4. /\ files' \in FileLists /\ files'.asset = files.asset /\ files'.task = files.task
      /\ files'.enabled = files.enabled /\ files'.root = IF picked THEN dir ELSE files.root
  BY <1>1, <1>2 DEF FileLists
<1>5. QED
  BY <1>3, <1>4 DEF Relisted, ListedFrom, ListEmptied, List

\* A step of the tool, by what it does to the file list.
LEMMA SaveLists ==
  ASSUME SessionTypes, ListTypes, RootKept, OkSave \/ OkDuplicate
  PROVE  UNCHANGED listVars \/ Relisted
<1>1. CASE OkSave
  <2>1. CASE UNCHANGED listVars
    BY <2>1
  <2>2. CASE ~(UNCHANGED listVars)
    <3>1. Relist(session'.workdir) /\ ~PickRaises /\ EnterSession
      BY <1>1, <2>2 DEF OkSave, PickRaises
    <3>2. session'.workdir \in Dirs
      BY <3>1, EnterIs, PickedIsContext DEF ListTypes, Contexts
    <3>3. QED
      <4>1. ASSUME NEW d, d = session'.workdir PROVE Relist(d)
        BY <3>1, <4>1 DEF Relist, List
      <4>2. QED
        BY <3>2, <4>1, RelistEffect
  <2>3. QED
    BY <2>1, <2>2
<1>2. CASE OkDuplicate
  <2>1. UNCHANGED listVars \/ Relist(files.root)
    BY <1>2 DEF OkDuplicate, listVars
  <2>2. files.root \in Dirs
    BY <1>2 DEF OkDuplicate, NameDialog, RootKept
  <2>3. QED
    BY <2>1, <2>2, RelistEffect
<1>3. QED
  BY <1>1, <1>2

\* The steps that change the list.
LEMMA ListSteps ==
  ASSUME SessionTypes, ListTypes, RootKept, [MayaNext]_allVars
  PROVE  \/ UNCHANGED listVars
         \/ Show \/ TaskJob \/ PickTimer \/ (\E f \in shown : ClickFile(f))
         \/ Relisted /\ (OkSave \/ OkDuplicate)
<1>1. CASE HostSteps
  BY <1>1, HostLeavesTool DEF ToolVars
<1>2. CASE AssetJob \/ PressBrowse \/ Cancel \/ EditName \/ HostEdits \/ AssetMoved \/ PressOpen \/ AnswerYes \/ AnswerNo
  BY <1>2 DEF AssetJob, PressBrowse, Cancel, EditName, HostEdits, AssetMoved, PressOpen, AnswerYes, AnswerNo, Untouched
<1>3. CASE \E a \in Assets : ClickAsset(a)
  BY <1>3 DEF ClickAsset
<1>4. CASE listed # None /\ \E t \in TasksOf[listed] : ClickTask(t)
  BY <1>4 DEF ClickTask
<1>5. CASE \E f \in disk : Browse(f)
  BY <1>5 DEF Browse, Untouched
<1>6. CASE \E kind \in {"save", "duplicate"} : PressName(kind)
  BY <1>6 DEF PressName, Untouched
<1>7. CASE \E f \in Files : f.dir = WorkDir(f.asset, f.task) /\ OthersWrite(f)
  BY <1>7 DEF OthersWrite
<1>8. CASE OkSave \/ OkDuplicate
  BY <1>8, SaveLists
<1>9. CASE UNCHANGED allVars
  BY <1>9 DEF allVars, vars
<1>10. QED
  BY <1>1, <1>2, <1>3, <1>4, <1>5, <1>6, <1>7, <1>8, <1>9, MayaSteps DEF Work, ToolNext

\* The list keeps its type.
LEMMA ListTyped ==
  ASSUME SessionTypes, DiskTypes, PickerTypes, ListTypes, RootKept, DiskTypes', [MayaNext]_allVars
  PROVE  ListTypes'
<1>1. CASE UNCHANGED listVars
  BY <1>1 DEF listVars, ListTypes
<1>2. CASE Show
  BY <1>2 DEF Show, NoFiles, ListNone, ListTypes, FileLists
<1>3. CASE TaskJob
  BY <1>3, TaskJobEffect DEF Tasked, ListedFrom, ListEmptied, ListStays, ListNone, ListTypes, DiskTypes
<1>4. CASE PickTimer
  BY <1>4 DEF PickTimer, ListTypes
<1>5. CASE \E f \in shown : ClickFile(f)
  BY <1>5 DEF ClickFile, ListTypes
<1>6. CASE Relisted
  BY <1>6 DEF Relisted, ListedFrom, ListEmptied, ListNone, ListTypes, DiskTypes
<1>7. QED
  BY <1>1, <1>2, <1>3, <1>4, <1>5, <1>6, ListSteps

-----------------------------------------------------------------------------
(* What a step does to the dialog. *)

\* No dialog asks for a name.
LEMMA NoDialogIs ==
  NoDialog \in Dialogs /\ NoDialog.kind = "none" /\ ~NoDialog.raced /\ NoDialog.auto
<1>1. 1 \in 1..MaxVersion
  BY BoundsAssumption
<1>2. QED
  BY <1>1 DEF NoDialog, Dialogs

\* The dialog to browse for a file.
LEMMA BrowseIs ==
  ASSUME NEW d, d = [NoDialog EXCEPT !.kind = "browse"]
  PROVE  d \in Dialogs /\ d.kind = "browse" /\ ~d.raced
<1>1. 1 \in 1..MaxVersion
  BY BoundsAssumption
<1>2. QED
  BY <1>1 DEF NoDialog, Dialogs

\* Setting a field of a dialog leaves the others.
LEMMA SetKind ==
  ASSUME NEW d \in Dialogs, NEW kind \in {"browse", "prompt", "save", "duplicate"}, NEW e, e = [d EXCEPT !.kind = kind]
  PROVE  /\ e \in Dialogs /\ e.kind = kind
         /\ e.path = d.path /\ e.context = d.context /\ e.dir = d.dir
         /\ e.auto = d.auto /\ e.raced = d.raced
  BY DEF Dialogs

\* The same for its file.
LEMMA SetPath ==
  ASSUME NEW d \in Dialogs, NEW path \in Files, NEW e, e = [d EXCEPT !.path = path]
  PROVE  /\ e \in Dialogs /\ e.path = path
         /\ e.kind = d.kind /\ e.context = d.context /\ e.dir = d.dir
         /\ e.auto = d.auto /\ e.raced = d.raced
  BY DEF Dialogs

\* The same for its context.
LEMMA SetContext ==
  ASSUME NEW d \in Dialogs, NEW context \in Contexts, NEW e, e = [d EXCEPT !.context = context]
  PROVE  /\ e \in Dialogs /\ e.context = context
         /\ e.kind = d.kind /\ e.path = d.path /\ e.dir = d.dir
         /\ e.auto = d.auto /\ e.raced = d.raced
  BY DEF Dialogs

\* The same for its directory.
LEMMA SetDir ==
  ASSUME NEW d \in Dialogs, NEW dir \in Dirs, NEW e, e = [d EXCEPT !.dir = dir]
  PROVE  /\ e \in Dialogs /\ e.dir = dir
         /\ e.kind = d.kind /\ e.path = d.path /\ e.context = d.context
         /\ e.auto = d.auto /\ e.raced = d.raced
  BY DEF Dialogs

\* The same for the mark that a timer ran.
LEMMA SetRaced ==
  ASSUME NEW d \in Dialogs, NEW raced \in BOOLEAN, NEW e, e = [d EXCEPT !.raced = raced]
  PROVE  /\ e \in Dialogs /\ e.raced = raced
         /\ e.kind = d.kind /\ e.path = d.path /\ e.context = d.context
         /\ e.dir = d.dir /\ e.auto = d.auto
  BY DEF Dialogs

\* The prompt, and the dialog for a name.
Prompt(path, raced) == [NoDialog EXCEPT !.kind = "prompt", !.path = path, !.raced = raced]
\* The dialog for a name, before it is checked.
NameOf(kind, dir, context) == [NoDialog EXCEPT !.kind = kind, !.dir = dir, !.context = context]

\* The prompt asks for its file.
LEMMA PromptIs ==
  ASSUME NEW path \in Files, NEW raced \in BOOLEAN
  PROVE  /\ Prompt(path, raced) \in Dialogs /\ Prompt(path, raced).kind = "prompt"
         /\ Prompt(path, raced).path = path /\ Prompt(path, raced).raced = raced
<1>1. PICK d : d = [NoDialog EXCEPT !.kind = "prompt"]
  OBVIOUS
<1>2. PICK e : e = [d EXCEPT !.path = path]
  OBVIOUS
<1>3. PICK g : g = [e EXCEPT !.raced = raced]
  OBVIOUS
<1>4. g = Prompt(path, raced)
  BY <1>1, <1>2, <1>3, Zenon DEF Prompt
<1>5. d \in Dialogs /\ d.kind = "prompt"
  BY <1>1, NoDialogIs, SetKind
<1>6. e \in Dialogs /\ e.kind = "prompt" /\ e.path = path
  BY <1>2, <1>5, SetPath
<1>7. g \in Dialogs /\ g.kind = "prompt" /\ g.path = path /\ g.raced = raced
  BY <1>3, <1>6, SetRaced
<1>8. QED
  BY <1>4, <1>7

\* The dialog for a name has the directory and the context it was made for.
LEMMA NameIs ==
  ASSUME NEW kind \in {"save", "duplicate"}, NEW dir \in Dirs, NEW context \in Contexts, NEW g,
         g = NameOf(kind, dir, context)
  PROVE  /\ g \in Dialogs /\ g.kind = kind /\ g.dir = dir /\ g.context = context
         /\ ~g.raced /\ g.auto
<1>1. PICK d : d = [NoDialog EXCEPT !.kind = kind]
  OBVIOUS
<1>2. PICK e : e = [d EXCEPT !.dir = dir]
  OBVIOUS
<1>3. g = [e EXCEPT !.context = context]
  BY <1>1, <1>2, Zenon DEF NameOf
<1>4. d \in Dialogs /\ d.kind = kind /\ ~d.raced /\ d.auto
  BY <1>1, NoDialogIs, SetKind
<1>5. e \in Dialogs /\ e.kind = kind /\ e.dir = dir /\ ~e.raced /\ e.auto
  BY <1>2, <1>4, SetDir
<1>6. QED
  BY <1>3, <1>5, SetContext

\* The user changes the version in a dialog.
Edited(d, auto, v) == [d EXCEPT !.auto = auto, !.version = v]

\* That changes nothing else of it.
LEMMA EditIs ==
  ASSUME NEW d \in Dialogs, NEW auto \in BOOLEAN, NEW v \in 1..MaxVersion, NEW e,
         e = Edited(d, auto, v)
  PROVE  /\ e \in Dialogs /\ e.kind = d.kind /\ e.context = d.context /\ e.dir = d.dir
         /\ (e.raced <=> d.raced) /\ (e.auto <=> auto) /\ e.path = d.path
<1>1. PICK f : f = [d EXCEPT !.auto = auto]
  OBVIOUS
<1>2. e = [f EXCEPT !.version = v]
  BY <1>1, Zenon DEF Edited
<1>3. /\ f \in Dialogs /\ f.kind = d.kind /\ f.context = d.context /\ f.dir = d.dir
      /\ (f.raced <=> d.raced) /\ (f.auto <=> auto) /\ f.path = d.path
  BY <1>1 DEF Dialogs
<1>4. /\ e \in Dialogs /\ e.kind = f.kind /\ e.context = f.context /\ e.dir = f.dir
      /\ (e.raced <=> f.raced) /\ (e.auto <=> f.auto) /\ e.path = f.path
  BY <1>2, <1>3 DEF Dialogs
<1>5. QED
  BY <1>3, <1>4

\* What the dialog says of a name after it was checked: whether it is free, and
\* the next available version is.
LEMMA CheckedIs ==
  ASSUME DiskTypes, NEW d \in Dialogs,
         d.auto => NextVersion(d.dir, d.context) <= MaxVersion
  PROVE  /\ Checked(d) \in Dialogs /\ Checked(d).kind = d.kind /\ Checked(d).context = d.context
         /\ Checked(d).dir = d.dir /\ (Checked(d).raced <=> d.raced) /\ (Checked(d).auto <=> d.auto)
         /\ ~Checked(d).stale /\ Checked(d).path = d.path
         /\ Checked(d).free <=> ~OnDisk(FileOf(Checked(d)))
         /\ Checked(d).auto => Checked(d).free
<1> DEFINE n == NextVersion(d.dir, d.context)
           e == IF d.auto THEN [d EXCEPT !.version = n] ELSE d
           c == [e EXCEPT !.free = ~OnDisk(FileOf(e)), !.stale = FALSE]
<1>1. c = Checked(d)
  BY DEF Checked
<1>2. n \in 1..MaxVersion + 1 /\ \A f \in Named(d.dir, d.context) : f.version < n
  BY NextBeyond DEF DiskTypes
<1>3. d.auto => n \in 1..MaxVersion
  BY <1>2, BoundsAssumption
<1> HIDE DEF n
<1>4. /\ e \in Dialogs /\ e.kind = d.kind /\ e.context = d.context /\ e.dir = d.dir
      /\ (e.raced <=> d.raced) /\ (e.auto <=> d.auto) /\ e.path = d.path
      /\ d.auto => e.version = n
  <2>1. CASE d.auto
    BY <1>3, <2>1 DEF Dialogs
  <2>2. CASE ~d.auto
    BY <2>2
  <2>3. QED
    BY <2>1, <2>2
<1> HIDE DEF e
<1>5. ASSUME NEW free \in BOOLEAN, NEW g, g = [e EXCEPT !.free = free, !.stale = FALSE]
      PROVE  /\ g \in Dialogs /\ g.kind = e.kind /\ g.context = e.context /\ g.dir = e.dir
             /\ (g.raced <=> e.raced) /\ (g.auto <=> e.auto) /\ g.path = e.path /\ g.version = e.version
             /\ g.free = free /\ g.stale = FALSE
  <2>1. [e EXCEPT !.free = free] \in Dialogs
    BY <1>4 DEF Dialogs
  <2>2. ASSUME NEW f \in Dialogs, f = [e EXCEPT !.free = free]
        PROVE  /\ g = [f EXCEPT !.stale = FALSE] /\ f.kind = e.kind /\ f.context = e.context
               /\ f.dir = e.dir /\ (f.raced <=> e.raced) /\ (f.auto <=> e.auto) /\ f.path = e.path
               /\ f.version = e.version /\ f.free = free
    BY <1>4, <1>5, <2>2 DEF Dialogs
  <2>3. ASSUME NEW f \in Dialogs, g = [f EXCEPT !.stale = FALSE]
        PROVE  /\ g \in Dialogs /\ g.kind = f.kind /\ g.context = f.context /\ g.dir = f.dir
               /\ (g.raced <=> f.raced) /\ (g.auto <=> f.auto) /\ g.path = f.path
               /\ g.version = f.version /\ g.free = f.free /\ g.stale = FALSE
    BY <2>3 DEF Dialogs
  <2>4. QED
    BY <2>1, <2>2, <2>3
<1> DEFINE isFree == ~OnDisk(FileOf(e))
<1>6. isFree \in BOOLEAN /\ c = [e EXCEPT !.free = isFree, !.stale = FALSE]
  BY DEF OnDisk
<1> HIDE DEF isFree, c
<1>7. /\ c \in Dialogs /\ c.kind = e.kind /\ c.context = e.context /\ c.dir = e.dir
      /\ (c.raced <=> e.raced) /\ (c.auto <=> e.auto) /\ c.path = e.path /\ c.version = e.version
      /\ c.free = isFree /\ c.stale = FALSE
  BY <1>5, <1>6
<1>8. FileOf(c) = FileOf(e)
  BY <1>7 DEF FileOf
<1>9. c.free <=> ~OnDisk(FileOf(c))
  BY <1>7, <1>8 DEF isFree
<1>10. ASSUME c.auto, OnDisk(FileOf(c)) PROVE FALSE
  <2>1. FileOf(c) \in disk /\ FileOf(c).dir = d.dir /\ FileOf(c).asset = d.context.asset
        /\ FileOf(c).task = d.context.task /\ FileOf(c).version = n
    BY <1>4, <1>7, <1>10 DEF FileOf, OnDisk
  <2>2. FileOf(c) \in Named(d.dir, d.context)
    BY <2>1 DEF Named, In
  <2>3. FileOf(c).version < n
    BY <1>2, <2>2
  <2>4. QED
    BY <1>2, <2>1, <2>3
<1>11. QED
  BY <1>1, <1>4, <1>7, <1>9, <1>10

\* A timer that fires marks the dialog, and a file that someone writes does too.
LEMMA RacedIs ==
  ASSUME DialogTypes, Raced
  PROVE  /\ dialog' \in Dialogs /\ (dialog = NoDialog <=> dialog' = NoDialog)
         /\ dialog'.kind = dialog.kind /\ dialog'.path = dialog.path /\ dialog'.context = dialog.context
         /\ dialog'.dir = dialog.dir /\ dialog'.version = dialog.version /\ (dialog'.auto <=> dialog.auto)
         /\ dialog'.free = dialog.free /\ dialog'.stale = dialog.stale
         /\ dialog # NoDialog => dialog'.raced
<1>1. CASE dialog = NoDialog
  BY <1>1, NoDialogIs DEF Raced
<1>2. CASE dialog # NoDialog
  <2>1. dialog \in Dialogs /\ dialog' = [dialog EXCEPT !.raced = TRUE]
    BY <1>2 DEF Raced, DialogTypes
  <2>2. /\ dialog' \in Dialogs
        /\ dialog'.kind = dialog.kind /\ dialog'.path = dialog.path /\ dialog'.context = dialog.context
        /\ dialog'.dir = dialog.dir /\ dialog'.version = dialog.version /\ (dialog'.auto <=> dialog.auto)
        /\ dialog'.free = dialog.free /\ dialog'.stale = dialog.stale
        /\ dialog'.raced
    BY <2>1 DEF Dialogs
  <2>3. dialog' # NoDialog
    BY <2>2, NoDialogIs
  <2>4. QED
    BY <1>2, <2>2, <2>3
<1>3. QED
  BY <1>1, <1>2

\* A file that others write outdates a dialog and changes nothing else of it.
LEMMA StaleIs ==
  ASSUME NEW d \in Dialogs, NEW e, e = [d EXCEPT !.stale = TRUE]
  PROVE  /\ e \in Dialogs /\ e.kind = d.kind /\ e.path = d.path /\ e.context = d.context
         /\ e.dir = d.dir /\ (e.raced <=> d.raced) /\ e.stale
  BY DEF Dialogs

\* The dialog for a name is one that was checked, for the context of the list
\* when it is opened and for the same context whenever it is edited.
NameChecked(d) ==
  /\ d \in Dialogs /\ (d.auto => NextVersion(d.dir, d.context) <= MaxVersion)
  /\ dialog' = Checked(d) /\ d.kind \in {"save", "duplicate"}
  /\ d.context \in Contexts

\* A dialog for a name opens with the context and the root of the list.
LEMMA PressNameEffect ==
  ASSUME SessionTypes, ListTypes, RootKept, NEW kind \in {"save", "duplicate"}, PressName(kind)
  PROVE  \E d : NameChecked(d) /\ d.context = Picked /\ d.dir = files.root /\ ~d.raced
<1>1. /\ files.enabled /\ ~PickRaises /\ NextVersion(files.root, Picked) <= MaxVersion
      /\ dialog' = Checked(NameOf(kind, files.root, Picked))
  BY Zenon DEF PressName, PickRaises, Picked, NameOf
<1>2. files.root \in Dirs /\ Picked \in Contexts
  BY <1>1, PickedIsContext DEF RootKept, ListTypes
<1>3. PICK d : d = NameOf(kind, files.root, Picked)
  OBVIOUS
<1>4. /\ d \in Dialogs /\ d.kind = kind /\ d.dir = files.root /\ d.context = Picked
      /\ ~d.raced /\ d.auto
  <2>1. ASSUME NEW dir \in Dirs, NEW context \in Contexts, d = NameOf(kind, dir, context)
        PROVE  /\ d \in Dialogs /\ d.kind = kind /\ d.dir = dir /\ d.context = context
               /\ ~d.raced /\ d.auto
    BY <2>1, NameIs
  <2>2. QED
    BY <1>2, <1>3, <2>1
<1>5. QED
  BY <1>1, <1>2, <1>3, <1>4 DEF NameChecked

\* An edited name is checked again, for the context it had.
LEMMA EditNameEffect ==
  ASSUME DialogTypes, RootKept, EditName
  PROVE  NameDialog /\ \E d : NameChecked(d) /\ d.context = dialog.context /\ (d.raced <=> dialog.raced)
<1>1. NameDialog
  BY DEF EditName
<1>2. PICK auto \in BOOLEAN, v \in 1..MaxVersion :
        /\ auto => v = 1 /\ NextVersion(dialog.dir, dialog.context) <= MaxVersion
        /\ dialog' = Checked(Edited(dialog, auto, v))
  BY Zenon DEF EditName, Edited
<1>3. PICK d : d = Edited(dialog, auto, v)
  OBVIOUS
<1>4. dialog \in Dialogs /\ dialog.context \in Contexts
  BY <1>1 DEF DialogTypes
<1>5. /\ d \in Dialogs /\ d.kind = dialog.kind /\ d.context = dialog.context /\ d.dir = dialog.dir
      /\ (d.raced <=> dialog.raced) /\ (d.auto <=> auto)
  <2>1. ASSUME NEW c \in Dialogs, d = Edited(c, auto, v)
        PROVE  /\ d \in Dialogs /\ d.kind = c.kind /\ d.context = c.context /\ d.dir = c.dir
               /\ (d.raced <=> c.raced) /\ (d.auto <=> auto)
    BY <2>1, EditIs
  <2>2. QED
    BY <1>3, <1>4, <2>1
<1>6. dialog' = Checked(d)
  BY <1>2, <1>3
<1>7. QED
  BY <1>1, <1>2, <1>4, <1>5, <1>6 DEF NameChecked, NameDialog

\* A checked dialog is free if and only if its file does not exist.
LEMMA NameCheckedIs ==
  ASSUME DiskTypes, NEW d, NameChecked(d)
  PROVE  /\ dialog' \in Dialogs /\ dialog'.kind = d.kind /\ dialog'.context = d.context
         /\ dialog'.dir = d.dir /\ (dialog'.raced <=> d.raced) /\ ~dialog'.stale
         /\ dialog'.free <=> FileOf(dialog') \notin disk
         /\ dialog'.auto => dialog'.free
<1>1. d \in Dialogs /\ dialog' = Checked(d) /\ (d.auto => NextVersion(d.dir, d.context) <= MaxVersion)
  BY DEF NameChecked
<1>2. QED
  BY <1>1, CheckedIs DEF OnDisk

\* A step by what it does to the dialog.
Closed == dialog' = NoDialog
\* A timer ran while the dialog was open.
Marked == Raced /\ (AssetJob \/ TaskJob)
\* Others wrote a file.
Outdated == NameDialog /\ dialog' = [dialog EXCEPT !.stale = TRUE]
\* The user browses for a file.
Browsing == PressBrowse /\ dialog' = [NoDialog EXCEPT !.kind = "browse"]
\* The user is asked whether to save.
Prompted ==
  /\ window \/ dialog # NoDialog
  /\ UNCHANGED <<window, scene>>
  /\ \E path \in Files, raced \in BOOLEAN : dialog' = Prompt(path, raced)
\* The user is asked for a name.
Naming == \E kind \in {"save", "duplicate"} : PressName(kind)

\* Opening a file closes the dialog or asks.
LEMMA OpenFileDialog ==
  ASSUME NEW path \in Files, NEW raced \in BOOLEAN, OpenFile(path, raced), window \/ dialog # NoDialog
  PROVE  Closed \/ Prompted
<1>1. dialog' = NoDialog \/ (dialog' = Prompt(path, raced) /\ UNCHANGED <<window, scene>>)
  BY OpenEffect, Zenon DEF OpenFile, Prompt
<1>2. QED
  BY <1>1 DEF Closed, Prompted

\* What a step may do to the dialog.
LEMMA DialogSteps ==
  ASSUME DiskTypes, ListTypes, DialogTypes, [MayaNext]_allVars
  PROVE  UNCHANGED dialog \/ Closed \/ Marked \/ Outdated \/ Browsing \/ Prompted \/ Naming \/ EditName
<1>1. CASE HostSteps
  BY <1>1, HostLeavesTool DEF ToolVars
<1>2. CASE Show \/ PickTimer \/ HostEdits \/ AssetMoved
  BY <1>2 DEF Show, PickTimer, HostEdits, AssetMoved
<1>3. CASE AssetJob \/ TaskJob
  BY <1>3 DEF AssetJob, TaskJob, Marked
<1>4. CASE \E a \in Assets : ClickAsset(a)
  BY <1>4 DEF ClickAsset
<1>5. CASE listed # None /\ \E t \in TasksOf[listed] : ClickTask(t)
  BY <1>5 DEF ClickTask
<1>6. CASE \E f \in shown : ClickFile(f)
  BY <1>6 DEF ClickFile
<1>7. CASE PressOpen
  <2>1. window /\ row # None /\ OpenFile(row, FALSE)
    BY <1>7 DEF PressOpen, Idle
  <2>2. row \in Files
    BY <2>1 DEF ListTypes
  <2>3. QED
    BY <2>1, <2>2, OpenFileDialog
<1>8. CASE PressBrowse
  BY <1>8 DEF PressBrowse, Browsing
<1>9. CASE \E f \in disk : Browse(f)
  <2>1. PICK f \in disk : dialog.kind = "browse" /\ OpenFile(f, dialog.raced)
    BY <1>9 DEF Browse
  <2>2. f \in Files /\ dialog.raced \in BOOLEAN /\ dialog # NoDialog
    BY <2>1, NoDialogIs DEF DiskTypes, DialogTypes, Dialogs
  <2>3. QED
    BY <2>1, <2>2, OpenFileDialog
<1>10. CASE AnswerYes
  BY <1>10, OpenEffect DEF AnswerYes, Closed
<1>11. CASE AnswerNo
  BY <1>11, OpenEffect DEF AnswerNo, Closed
<1>12. CASE Cancel \/ OkSave \/ OkDuplicate
  BY <1>12 DEF Cancel, OkSave, OkDuplicate, Closed
<1>13. CASE \E f \in Files : f.dir = WorkDir(f.asset, f.task) /\ OthersWrite(f)
  BY <1>13 DEF OthersWrite, Outdated
<1>14. CASE UNCHANGED allVars
  BY <1>14 DEF allVars, vars
<1>15. QED
  BY <1>1, <1>2, <1>3, <1>4, <1>5, <1>6, <1>7, <1>8, <1>9, <1>10, <1>11, <1>12, <1>13, <1>14,
     MayaSteps DEF Work, ToolNext, Naming

\* The acts are counted.
LEMMA ActsKept ==
  ASSUME acts \in Nat, [MayaNext]_allVars
  PROVE  acts' \in Nat
<1>1. CASE HostSteps
  BY <1>1 DEF Act, HostSteps, Startup, ReloadPipeline, ReloadModules, ReloadInstall, MakeMenu, vars
<1>2. CASE Show \/ HostEdits \/ AssetMoved \/ PressOpen \/ PressBrowse \/ EditName
  <2>1. Act
    BY <1>2, Zenon DEF Show, HostEdits, AssetMoved, PressOpen, PressBrowse, EditName
  <2>2. QED
    BY <2>1 DEF Act
<1>3. CASE \E a \in Assets : ClickAsset(a)
  BY <1>3 DEF ClickAsset, Act
<1>4. CASE listed # None /\ \E t \in TasksOf[listed] : ClickTask(t)
  BY <1>4 DEF ClickTask, Act
<1>5. CASE \E f \in shown : ClickFile(f)
  BY <1>5 DEF ClickFile, Act
<1>6. CASE AssetJob \/ TaskJob \/ PickTimer \/ AnswerYes \/ AnswerNo \/ Cancel \/ OkSave \/ OkDuplicate
  <2>1. acts' = acts
    BY <1>6 DEF AssetJob, TaskJob, PickTimer, AnswerYes, AnswerNo, Cancel, OkSave, OkDuplicate
  <2>2. QED
    BY <2>1
<1>7. CASE \E f \in disk : Browse(f)
  BY <1>7 DEF Browse
<1>8. CASE \E kind \in {"save", "duplicate"} : PressName(kind)
  BY <1>8 DEF PressName, Act
<1>9. CASE \E f \in Files : f.dir = WorkDir(f.asset, f.task) /\ OthersWrite(f)
  BY <1>9 DEF OthersWrite, Act
<1>10. CASE UNCHANGED allVars
  BY <1>10 DEF allVars, vars
<1>11. QED
  BY <1>1, <1>2, <1>3, <1>4, <1>5, <1>6, <1>7, <1>8, <1>9, <1>10, MayaSteps DEF Work, ToolNext

\* The dialog keeps its type.
LEMMA DialogTyped ==
  ASSUME SessionTypes, DiskTypes, ListTypes, DialogTypes, RootKept, [MayaNext]_allVars
  PROVE  DialogTypes'
<1>1. acts' \in Nat
  BY ActsKept DEF DialogTypes
<1>2. CASE UNCHANGED dialog
  BY <1>1, <1>2 DEF DialogTypes, NameDialog
<1>3. CASE Closed
  BY <1>1, <1>3, NoDialogIs DEF Closed, DialogTypes, NameDialog
<1>4. CASE Marked
  BY <1>1, <1>4, RacedIs DEF Marked, DialogTypes, NameDialog
<1>5. CASE Outdated
  BY <1>1, <1>5, StaleIs DEF Outdated, DialogTypes, NameDialog
<1>6. CASE Browsing
  BY <1>1, <1>6, BrowseIs DEF Browsing, DialogTypes, NameDialog
<1>7. CASE Prompted
  BY <1>1, <1>7, PromptIs DEF Prompted, DialogTypes, NameDialog
<1>8. CASE Naming
  BY <1>1, <1>8, PressNameEffect, NameCheckedIs DEF Naming, NameChecked, DialogTypes, NameDialog
<1>9. CASE EditName
  BY <1>1, <1>9, EditNameEffect, NameCheckedIs DEF NameChecked, DialogTypes, NameDialog
<1>10. QED
  BY <1>2, <1>3, <1>4, <1>5, <1>6, <1>7, <1>8, <1>9, DialogSteps

-----------------------------------------------------------------------------
(* The root of the file list. *)

\* An asset that is gone stays gone.
LEMMA GoneStays ==
  ASSUME SessionTypes, NEW a \in Assets, place[a] = Gone, [MayaNext]_allVars
  PROVE  place'[a] = Gone
<1>1. CASE UNCHANGED place
  BY <1>1
<1>2. CASE \E b \in Assets : MoveAsset(b)
  <2>1. PICK b \in Assets, p \in {1, Gone} : place[b] = 0 /\ place' = [place EXCEPT ![b] = p]
    BY <1>2 DEF MoveAsset
  <2>2. a # b
    BY <2>1, GoneAssumption
  <2>3. QED
    BY <2>1, <2>2 DEF SessionTypes
<1>3. UNCHANGED place \/ \E b \in Assets : MoveAsset(b)
  <2>1. CASE HostSteps
    BY <2>1, HostContext
  <2>2. CASE Work
    BY <2>2, ToolSteps, ElsewhereContext, OpeningContext, SavingContext DEF Work, sessionVars, SessionRest, AssetMoved
  <2>3. CASE UNCHANGED allVars
    BY <2>3 DEF allVars, vars, sessionVars
  <2>4. QED
    BY <2>1, <2>2, <2>3, MayaSteps
<1>4. QED
  BY <1>1, <1>2, <1>3

\* Whether entering the context of the file list would raise, after a step.
LEMMA PickIsNext ==
  session' \in Contexts =>
    /\ PickRaises' <=> PickChanges' /\ place'[PickAsset'] = Gone
    /\ Picked'.asset = PickAsset' /\ Picked'.task = PickTask'
<1> DEFINE F == session \in Contexts =>
                  /\ Picked.asset = PickAsset /\ Picked.task = PickTask
                  /\ PickRaises <=> PickChanges /\ place[PickAsset] = Gone
<1>1. F
  BY PickIs
<1>2. F'
  BY <1>1, PTL
<1>3. QED
  BY <1>2

\* What raised for the timer of a task raises for the list it has left.
LEMMA TaskRaises ==
  ASSUME session \in Contexts, session' = session, place' = place, sel # None, current # None,
         files'.asset = sel, files'.task = current, SessionRaises(session, sel, current)
  PROVE  PickRaises'
<1>1. SessionFor(session, sel, current) = IF sel = session.asset /\ current = session.task THEN session
        ELSE [asset |-> sel, task |-> current, workdir |-> WorkDir(sel, current)]
  BY SessionForIs
<1>2. SessionFor(session, sel, current) # session /\ place[SessionFor(session, sel, current).asset] = Gone
  BY DEF SessionRaises
<1>3. ~(sel = session.asset /\ current = session.task) /\ place[sel] = Gone
  BY <1>1, <1>2
<1>4. PickChanges' /\ PickAsset' = sel
  BY <1>3 DEF PickChanges, PickAsset
<1>5. QED
  BY <1>3, <1>4, PickIsNext

\* While the context and the file list stay, what would raise still does.
LEMMA RaisesStays ==
  ASSUME SessionTypes, files \in FileLists, [MayaNext]_allVars, ContextStays,
         files'.asset = files.asset, files'.task = files.task, PickRaises
  PROVE  PickRaises'
<1>1. PickChanges /\ place[PickAsset] = Gone
  BY PickIs DEF SessionTypes
<1>2. PickChanges' /\ PickAsset' = PickAsset
  BY <1>1 DEF PickChanges, PickAsset, ContextStays
<1>3. PickAsset \in Assets
  BY DEF PickAsset, SessionTypes, Contexts, FileLists
<1>4. ASSUME NEW a \in Assets, a = PickAsset PROVE place'[a] = Gone
  BY <1>1, <1>4, GoneStays
<1>5. QED
  BY <1>2, <1>3, <1>4, PickIsNext DEF SessionTypes, ContextStays

\* The list keeps a root wherever files can be opened or saved.
LEMMA RootStays ==
  ASSUME SessionTypes, DiskTypes, PickerTypes, ListTypes, DialogTypes, RootKept, HostInv, [MayaNext]_allVars
  PROVE  RootKept'
<1>1. ContextStays \/ (ContextEntered /\ (Opening \/ OkSave))
  BY SessionKept DEF ListTypes
<1>2. NameDialog' => files.root \in Dirs
  <2>1. CASE UNCHANGED dialog \/ Closed \/ Browsing
    BY <2>1, NoDialogIs, BrowseIs DEF Closed, Browsing, NameDialog, RootKept
  <2>2. CASE Marked
    BY <2>2, RacedIs DEF Marked, NameDialog, RootKept
  <2>3. CASE Outdated
    BY <2>3 DEF Outdated, RootKept
  <2>4. CASE Prompted
    BY <2>4, PromptIs DEF Prompted, NameDialog
  <2>5. CASE Naming
    BY <2>5 DEF Naming, PressName, RootKept, PickRaises
  <2>6. CASE EditName
    BY <2>6 DEF EditName, RootKept
  <2>7. QED
    BY <2>1, <2>2, <2>3, <2>4, <2>5, <2>6, DialogSteps
<1>3. ASSUME files'.asset = files.asset, files'.task = files.task, files'.enabled = files.enabled,
             files'.root = files.root
      PROVE  RootKept'
  <2>1. CASE ContextStays
    BY <1>2, <1>3, <2>1, RaisesStays DEF RootKept, ListTypes
  <2>2. CASE ContextEntered
    BY <1>2, <1>3, <2>2 DEF ContextEntered, RootKept
  <2>3. QED
    BY <1>1, <2>1, <2>2
<1>4. CASE UNCHANGED listVars
  BY <1>3, <1>4 DEF listVars
<1>5. CASE Show
  <2>1. dialog' = NoDialog /\ files' = NoFiles
    BY <1>5 DEF Show, HostInv, CalledOnce
  <2>2. QED
    BY <2>1, NoDialogIs DEF RootKept, NameDialog, NoFiles
<1>6. CASE TaskJob
  <2>1. Tasked /\ place' = place /\ session' = session
    BY <1>6, TaskJobEffect DEF TaskJob, sessionVars
  <2>2. CASE files'.root \in Dirs
    BY <2>2 DEF RootKept
  <2>3. CASE ~(files'.root \in Dirs)
    <3>1. ~NameDialog'
      BY <1>2, <2>1, <2>3 DEF Tasked, ListedFrom, ListEmptied, ListStays
    <3>2. files'.enabled => PickRaises'
      BY <2>1, <2>3, TaskRaises DEF Tasked, ListedFrom, SessionTypes
    <3>3. QED
      BY <3>1, <3>2 DEF RootKept
  <2>4. QED
    BY <2>2, <2>3
<1>7. CASE PickTimer \/ (\E f \in shown : ClickFile(f))
  BY <1>3, <1>7 DEF PickTimer, ClickFile
<1>8. CASE Relisted
  <2>1. CASE files'.root \in Dirs
    BY <2>1 DEF RootKept
  <2>2. CASE files'.root = files.root
    BY <1>3, <1>8, <2>2 DEF Relisted
  <2>3. QED
    BY <1>8, <2>1, <2>2 DEF Relisted, ListedFrom, ListEmptied
<1>9. QED
  BY <1>4, <1>5, <1>6, <1>7, <1>8, ListSteps

-----------------------------------------------------------------------------
(* Maya. *)

\* A step of the tool changes of Maya what listens to a change of the context.
LEMMA WorkEffect ==
  ASSUME Work
  PROVE  /\ UNCHANGED <<callbacks, known, listening, deferred, reload, reloaded>>
         /\ IF session' # session /\ listening THEN OnTaskChanged ELSE UNCHANGED <<menu, workspace, missed>>
  BY DEF Work, eventVars

\* The variables of Maya keep their types.
LEMMA HostTyped ==
  ASSUME SessionTypes, SessionTypes', HostTypes, [MayaNext]_allVars
  PROVE  HostTypes'
<1>1. session.workdir \in Dirs /\ session'.workdir \in Dirs
      /\ Label(session) \in Assets \X Tasks /\ Label(session') \in Assets \X Tasks
  BY DEF SessionTypes, Contexts, Label
<1>2. ASSUME InstallMaya, UNCHANGED <<reloaded>>, reload' \in {"no", "install", "modules"}
      PROVE  HostTypes'
  <2>1. InstallEffect
    BY <1>2, InstallMayaEffect
  <2>2. callbacks' \in Nat /\ known' \in BOOLEAN
    <3>1. CASE RegisterCallbacks
      <4>1. callbacks' \in {callbacks, callbacks + 1}
        BY <3>1 DEF RegisterCallbacks
      <4>2. known' \in BOOLEAN
        BY <3>1, Zenon DEF RegisterCallbacks
      <4>3. QED
        BY <4>1, <4>2 DEF HostTypes
    <3>2. CASE UNCHANGED <<callbacks, known>>
      BY <3>2 DEF HostTypes
    <3>3. QED
      BY <2>1, <3>1, <3>2, Zenon DEF InstallEffect
  <2>3. workspace' \in Dirs \cup {None} /\ missed' \in BOOLEAN
    BY <1>1, <2>1 DEF InstallEffect, Following, HostTypes
  <2>4. listening' \in BOOLEAN /\ menu' \in (Assets \X Tasks) \cup {None} /\ deferred' \in Nat
    <3>1. listening' = TRUE \/ listening' = listening
      BY <2>1, Zenon DEF InstallEffect
    <3>2. listening' \in BOOLEAN
      BY <3>1, Zenon DEF HostTypes
    <3>3. menu' \in {menu, None} /\ deferred' \in {deferred, deferred + 1}
      BY <2>1, Zenon DEF InstallEffect
    <3>4. QED
      BY <3>2, <3>3 DEF HostTypes
  <2>5. QED
    BY <1>2, <2>2, <2>3, <2>4 DEF HostTypes
<1>3. ASSUME UninstallMaya, reload' \in {"no", "install", "modules"}
      PROVE  HostTypes'
  BY <1>3, UninstallMayaEffect DEF eventVars, HostTypes
<1>4. CASE Startup
  <2>1. InstallMaya => UNCHANGED reloaded
    BY DEF InstallMaya
  <2>2. QED
    BY <1>2, <1>3, <1>4, <2>1 DEF Startup
<1>5. CASE ReloadPipeline
  BY <1>3, <1>5 DEF ReloadPipeline
<1>6. CASE ReloadModules
  BY <1>6 DEF ReloadModules, HostTypes
<1>7. CASE ReloadInstall
  BY <1>2, <1>7 DEF ReloadInstall, InstallMaya
<1>8. CASE MakeMenu
  <2>1. deferred' \in Nat
    BY <1>8 DEF MakeMenu, HostTypes
  <2>2. menu' \in (Assets \X Tasks) \cup {None}
    BY <1>1, <1>8 DEF MakeMenu, HostTypes
  <2>3. QED
    BY <1>8, <2>1, <2>2 DEF MakeMenu, eventVars, HostTypes
<1>9. CASE Work
  BY <1>1, <1>9, WorkEffect DEF OnTaskChanged, UpdateLabel, HostTypes
<1>10. CASE UNCHANGED allVars
  BY <1>10 DEF allVars, mayaVars, HostTypes
<1>11. QED
  BY <1>4, <1>5, <1>6, <1>7, <1>8, <1>9, <1>10, MayaSteps DEF HostSteps

\* What opens the tool is Show, and what closes it closes the dialog.
LEMMA WindowSteps ==
  ASSUME [MayaNext]_allVars
  PROVE  window' = window \/ Show \/ (Closed /\ window' = FALSE)
<1>1. CASE HostSteps
  BY <1>1, HostLeavesTool DEF ToolVars
<1>2. CASE AssetJob \/ TaskJob \/ PickTimer \/ HostEdits \/ AssetMoved
  BY <1>2 DEF AssetJob, TaskJob, PickTimer, HostEdits, AssetMoved
<1>3. CASE \E a \in Assets : ClickAsset(a)
  BY <1>3 DEF ClickAsset
<1>4. CASE listed # None /\ \E t \in TasksOf[listed] : ClickTask(t)
  BY <1>4 DEF ClickTask
<1>5. CASE \E f \in shown : ClickFile(f)
  BY <1>5 DEF ClickFile
<1>6. ASSUME NEW path, NEW raced, OpenFile(path, raced)
      PROVE  window' = window \/ (Closed /\ window' = FALSE)
  BY <1>6, OpenEffect DEF OpenFile, Closed
<1>7. CASE PressOpen
  BY <1>6, <1>7 DEF PressOpen
<1>8. CASE \E f \in disk : Browse(f)
  BY <1>6, <1>8 DEF Browse
<1>9. CASE AnswerYes
  BY <1>9, OpenEffect DEF AnswerYes, Closed
<1>10. CASE AnswerNo
  BY <1>10, OpenEffect DEF AnswerNo, Closed
<1>11. CASE PressBrowse \/ Cancel \/ EditName
  BY <1>11 DEF PressBrowse, Cancel, EditName
<1>12. CASE OkSave \/ OkDuplicate
  BY <1>12 DEF OkSave, OkDuplicate
<1>13. CASE \E kind \in {"save", "duplicate"} : PressName(kind)
  BY <1>13 DEF PressName
<1>14. CASE \E f \in Files : f.dir = WorkDir(f.asset, f.task) /\ OthersWrite(f)
  BY <1>14 DEF OthersWrite
<1>15. CASE UNCHANGED allVars
  BY <1>15 DEF allVars, vars
<1>16. QED
  BY <1>1, <1>2, <1>3, <1>4, <1>5, <1>7, <1>8, <1>9, <1>10, <1>11, <1>12, <1>13, <1>14, <1>15,
     MayaSteps DEF Work, ToolNext

\* The tool leaves what is registered.
LEMMA WorkSession ==
  ASSUME SessionTypes, Work
  PROVE  UNCHANGED <<host, config, connected>>
<1>1. CASE Elsewhere
  BY <1>1, ElsewhereContext DEF sessionVars
<1>2. CASE Opening \/ OkSave
  BY <1>2, OpeningContext, SavingContext DEF SessionRest
<1>3. CASE AssetMoved
  BY <1>3 DEF AssetMoved, MoveAsset
<1>4. QED
  BY <1>1, <1>2, <1>3, ToolSteps DEF Work

\* Only an open tool enters a context.
LEMMA EnterNeedsWindow ==
  ASSUME HostInv, Opening \/ OkSave
  PROVE  window
  BY NoDialogIs DEF Opening, PressOpen, Idle, Browse, AnswerYes, AnswerNo, OkSave, HostInv, CalledOnce

\* An installation registers the callbacks, or it does not get that far.
LEMMA HostInstallCallbacks ==
  ASSUME NEW stage \in 0..4, HostInstall(stage)
  PROVE  RegisterCallbacks \/ UNCHANGED <<callbacks, known>>
  BY DEF HostInstall

\* No step registers callbacks that are there, and reloading is remembered.
LEMMA CalledOnceStays ==
  ASSUME HostTypes, CalledOnce, [MayaNext]_allVars
  PROVE  (callbacks' > 1 => reloaded) /\ (~reloaded' => callbacks' <= 1 /\ (callbacks' = 1 => known'))
<1>1. ASSUME RegisterCallbacks, reloaded' = reloaded
      PROVE  (callbacks' > 1 => reloaded) /\ (~reloaded' => callbacks' <= 1 /\ (callbacks' = 1 => known'))
  <2>1. CASE known
    BY <1>1, <2>1 DEF RegisterCallbacks, CalledOnce, HostTypes
  <2>2. CASE ~known
    <3>1. callbacks' = callbacks + 1 /\ known'
      BY <1>1, <2>2 DEF RegisterCallbacks
    <3>2. ~reloaded => callbacks = 0
      BY <2>2 DEF CalledOnce, HostTypes
    <3>3. QED
      BY <1>1, <3>1, <3>2
  <2>3. QED
    BY <2>1, <2>2
<1>2. ASSUME UNCHANGED <<callbacks, known, reloaded>>
      PROVE  (callbacks' > 1 => reloaded) /\ (~reloaded' => callbacks' <= 1 /\ (callbacks' = 1 => known'))
  BY <1>2 DEF CalledOnce, HostTypes
<1>3. ASSUME InstallMaya
      PROVE  (RegisterCallbacks \/ UNCHANGED <<callbacks, known>>) /\ reloaded' = reloaded
  BY <1>3, HostInstallCallbacks DEF InstallMaya, eventVars
<1>4. ASSUME UninstallMaya PROVE UNCHANGED <<callbacks, known, reloaded>>
  BY <1>4, UninstallMayaEffect DEF eventVars
<1>5. CASE Startup
  BY <1>1, <1>2, <1>3, <1>4, <1>5 DEF Startup
<1>6. CASE ReloadPipeline
  BY <1>2, <1>4, <1>6 DEF ReloadPipeline
<1>7. CASE ReloadModules
  <2>1. callbacks' = callbacks /\ ((known' = known /\ reloaded' = reloaded) \/ reloaded')
    BY <1>7 DEF ReloadModules
  <2>2. QED
    BY <2>1 DEF CalledOnce, HostTypes
<1>8. CASE ReloadInstall
  BY <1>1, <1>2, <1>3, <1>8 DEF ReloadInstall
<1>9. CASE MakeMenu
  BY <1>2, <1>9 DEF MakeMenu, eventVars
<1>10. CASE Work
  BY <1>2, <1>10, WorkEffect
<1>11. CASE UNCHANGED allVars
  BY <1>2, <1>11 DEF allVars, mayaVars
<1>12. QED
  BY <1>5, <1>6, <1>7, <1>8, <1>9, <1>10, <1>11, MayaSteps DEF HostSteps

\* The menu and the workspace keep following the session.
LEMMA HostStays ==
  ASSUME SessionTypes, SessionTypes', DiskTypes, ListTypes, DialogTypes, HostTypes, HostInv, [MayaNext]_allVars
  PROVE  HostInv'
<1>1. ~reloaded' => callbacks' <= 1 /\ (callbacks' = 1 => known')
  BY CalledOnceStays DEF HostInv, CalledOnce
<1>2. dialog' # NoDialog => window'
  <2>1. dialog # NoDialog \/ window => window' = window \/ window' \/ Closed
    BY WindowSteps DEF Show
  <2>2. CASE UNCHANGED dialog \/ Closed
    BY <2>1, <2>2, WindowSteps DEF Closed, HostInv, CalledOnce, Show
  <2>3. CASE Marked
    <3>1. window' = window
      BY <2>3 DEF Marked, AssetJob, TaskJob
    <3>2. QED
      BY <2>3, <3>1, RacedIs DEF Marked, HostInv, CalledOnce
  <2>4. CASE Outdated
    BY <2>1, <2>4, NoDialogIs DEF Outdated, NameDialog, Closed, HostInv, CalledOnce
  <2>5. CASE Browsing
    BY <2>5 DEF Browsing, PressBrowse, Idle
  <2>6. CASE Prompted
    BY <2>6 DEF Prompted, HostInv, CalledOnce
  <2>7. CASE Naming
    BY <2>7 DEF Naming, PressName, Idle
  <2>8. CASE EditName
    <3>1. window' = window /\ dialog # NoDialog
      BY <2>8, NoDialogIs DEF EditName, NameDialog
    <3>2. QED
      BY <3>1 DEF HostInv, CalledOnce
  <2>9. QED
    BY <2>2, <2>3, <2>4, <2>5, <2>6, <2>7, <2>8, DialogSteps
<1>3. ASSUME window' => host' # None, host' # None => listening' /\ reload' = "no", HostFollows'
      PROVE  HostInv'
  BY <1>1, <1>2, <1>3 DEF HostInv, CalledOnce
<1>4. ASSUME InstallMaya, reload' = "no", ~window
      PROVE  HostInv'
  <2>1. InstallEffect /\ ContextStays
    BY <1>4, InstallMayaEffect, InstallMayaContext
  <2>2. window' = window
    BY <1>4 DEF InstallMaya
  <2>3. host' # None => listening'
    <3>1. (host' = host \/ listening' = TRUE) /\ (listening' = listening \/ listening' = TRUE)
      BY <2>1, Zenon DEF InstallEffect
    <3>2. host # None => listening
      BY DEF HostInv, CalledOnce
    <3>3. QED
      <4>1. CASE listening' = TRUE
        BY <4>1
      <4>2. CASE host' = host /\ listening' = listening
        BY <3>2, <4>2
      <4>3. QED
        BY <3>1, <4>1, <4>2
  <2>4. HostFollows'
    BY <2>1 DEF InstallEffect, Following, HostInv, CalledOnce, HostFollows, ContextStays, Label
  <2>5. QED
    BY <1>3, <1>4, <2>2, <2>3, <2>4
<1>5. ASSUME UninstallMaya, ~window, reload' = "no" \/ config' = None, reload = "no"
      PROVE  HostInv'
  <2>1. /\ ContextStays
        /\ \/ config' = config /\ config # None /\ host' = host
           \/ config' = None /\ host' = None /\ menu' = None
    BY <1>5, UninstallMayaContext
  <2>2. /\ window' = window /\ listening' = listening /\ workspace' = workspace /\ missed' = missed
        /\ menu' \in {menu, None}
    BY <1>5, UninstallMayaEffect DEF UninstallMaya, eventVars
  <2>3. HostFollows'
    BY <2>1, <2>2 DEF HostInv, CalledOnce, HostFollows, ContextStays, Label
  <2>4. QED
    BY <1>3, <1>5, <2>1, <2>2, <2>3 DEF HostInv, CalledOnce
<1>6. CASE Startup
  <2>1. ~window /\ reload = "no" /\ reload' = "no" /\ (InstallMaya \/ UninstallMaya)
    BY <1>6 DEF Startup
  <2>2. QED
    BY <1>4, <1>5, <2>1
<1>7. CASE ReloadPipeline
  BY <1>5, <1>7 DEF ReloadPipeline
<1>8. CASE ReloadModules
  <2>1. UNCHANGED <<host, window, menu, session>> /\ reload = "modules"
    BY <1>8 DEF ReloadModules, vars, sessionVars
  <2>2. host' = None /\ ~window'
    BY <2>1 DEF HostInv, CalledOnce
  <2>3. QED
    BY <1>3, <2>1, <2>2 DEF HostInv, CalledOnce, HostFollows, Label
<1>9. CASE ReloadInstall
  BY <1>4, <1>9 DEF ReloadInstall, HostInv, CalledOnce
<1>10. CASE MakeMenu
  <2>1. UNCHANGED <<host, window, session, listening, workspace, reload, missed>>
    BY <1>10 DEF MakeMenu, vars, sessionVars, eventVars
  <2>2. menu' \in {menu, Label(session)}
    BY <1>10 DEF MakeMenu
  <2>3. QED
    BY <1>3, <2>1, <2>2 DEF HostInv, CalledOnce, HostFollows, Label
<1>11. CASE Work
  <2>1. UNCHANGED <<host, listening, reload>>
    BY <1>11, WorkSession, WorkEffect
  <2>2. window' => host' # None
    BY <2>1, WindowSteps DEF HostInv, CalledOnce, Show
  <2>3. CASE session' = session
    <3>1. UNCHANGED <<menu, workspace, missed>>
      BY <1>11, <2>3, WorkEffect
    <3>2. QED
      BY <1>3, <2>1, <2>2, <2>3, <3>1 DEF HostInv, CalledOnce, HostFollows, Label
  <2>4. CASE session' # session
    <3>1. Opening \/ OkSave
      BY <2>4, SessionKept DEF ContextStays, ListTypes
    <3>2. listening
      BY <3>1, EnterNeedsWindow DEF HostInv, CalledOnce
    <3>3. OnTaskChanged
      BY <1>11, <2>4, <3>2, WorkEffect
    <3>4. HostFollows'
      BY <3>3 DEF OnTaskChanged, UpdateLabel, HostFollows, Label
    <3>5. QED
      BY <1>3, <2>1, <2>2, <3>4 DEF HostInv, CalledOnce
  <2>5. QED
    BY <2>3, <2>4
<1>12. CASE UNCHANGED allVars
  BY <1>12 DEF allVars, mayaVars, vars, sessionVars, HostInv, CalledOnce, HostFollows, Label
<1>13. QED
  BY <1>6, <1>7, <1>8, <1>9, <1>10, <1>11, <1>12, MayaSteps DEF HostSteps

-----------------------------------------------------------------------------
(* The file list. *)

\* A file that is written becomes the last modified one of its directory.
LEMMA NewestStays ==
  ASSUME DiskTypes, ListInv, DiskChange
  PROVE  \A d \in Dirs : In(d)' # {} => newest'[d] \in In(d)'
<1>1. CASE UNCHANGED <<disk, newest>>
  BY <1>1 DEF ListInv, RowInv, In
<1>2. CASE \E f \in Files : Put(f)
  <2>1. PICK f \in Files : disk' = disk \cup {f} /\ newest' = [newest EXCEPT ![f.dir] = f]
    BY <1>2 DEF Put
  <2>2. ASSUME NEW d \in Dirs, {g \in disk' : g.dir = d} # {}
        PROVE  newest'[d] \in {g \in disk' : g.dir = d}
    <3>1. CASE d = f.dir
      BY <2>1, <2>2, <3>1 DEF DiskTypes
    <3>2. CASE d # f.dir
      <4>1. {g \in disk' : g.dir = d} = In(d) /\ newest'[d] = newest[d]
        BY <2>1, <3>2 DEF DiskTypes, In
      <4>2. QED
        BY <2>2, <4>1 DEF ListInv, RowInv
    <3>3. QED
      BY <3>1, <3>2
  <2>3. QED
    BY <2>2 DEF In
<1>3. QED
  BY <1>1, <1>2 DEF DiskChange

\* The list that is made of a directory.
LEMMA ListedIs ==
  ASSUME NEW on, NEW lastOf, ListedFrom(on, lastOf),
         \A d \in Dirs : {g \in on : g.dir = d} # {} => lastOf[d] \in {g \in on : g.dir = d}
  PROVE  /\ \A f \in shown' : f.dir = files'.root
         /\ shown' # {} => top' \in shown'
         /\ row' = None
  BY DEF ListedFrom

\* The list keeps agreeing with its root.
LEMMA ListInvStays ==
  ASSUME SessionTypes, DiskTypes, PickerTypes, ListTypes, DialogTypes, RootKept, ListInv, [MayaNext]_allVars
  PROVE  ListInv'
<1>1. DiskChange
  BY DiskKept
<1>2. \A d \in Dirs : In(d)' # {} => newest'[d] \in In(d)'
  BY <1>1, NewestStays
<1>3. ASSUME RowInv' PROVE ListInv'
  BY <1>2, <1>3 DEF ListInv, RowInv
<1>4. RowInv
  BY DEF ListInv, RowInv
<1>5. CASE UNCHANGED listVars
  BY <1>3, <1>4, <1>5 DEF listVars, RowInv
<1>6. CASE Show
  BY <1>3, <1>6 DEF Show, ListNone, RowInv
<1>7. CASE TaskJob
  <2>1. Tasked
    BY <1>7, TaskJobEffect
  <2>2. CASE ListedFrom(disk, newest)
    <3>1. \A d \in Dirs : {g \in disk : g.dir = d} # {} => newest[d] \in {g \in disk : g.dir = d}
      BY DEF ListInv, RowInv, In
    <3>2. QED
      BY <1>3, <2>2, <3>1, ListedIs DEF RowInv
  <2>3. CASE ListEmptied
    BY <1>3, <2>3 DEF ListEmptied, ListNone, RowInv
  <2>4. CASE ListStays
    BY <1>3, <1>4, <2>4 DEF ListStays, RowInv
  <2>5. QED
    BY <2>1, <2>2, <2>3, <2>4 DEF Tasked
<1>8. CASE PickTimer
  BY <1>3, <1>4, <1>8 DEF PickTimer, RowInv
<1>9. CASE \E f \in shown : ClickFile(f)
  BY <1>3, <1>4, <1>9 DEF ClickFile, RowInv
<1>10. CASE Relisted
  <2>1. CASE ListedFrom(disk', newest')
    <3>1. \A d \in Dirs : {g \in disk' : g.dir = d} # {} => newest'[d] \in {g \in disk' : g.dir = d}
      BY <1>2 DEF In
    <3>2. QED
      BY <1>3, <2>1, <3>1, ListedIs DEF RowInv
  <2>2. CASE ListEmptied
    BY <1>3, <2>2 DEF ListEmptied, ListNone, RowInv
  <2>3. QED
    BY <1>10, <2>1, <2>2 DEF Relisted
<1>11. QED
  BY <1>5, <1>6, <1>7, <1>8, <1>9, <1>10, ListSteps

-----------------------------------------------------------------------------
(* The timers of the tool. *)

\* The steps that change the selection.
LEMMA PickerSteps ==
  ASSUME [MayaNext]_allVars
  PROVE  \/ UNCHANGED <<sel, listed, current, skipped, job>>
         \/ Show \/ AssetJob \/ TaskJob \/ (\E a \in Assets : ClickAsset(a))
         \/ (listed # None /\ \E t \in TasksOf[listed] : ClickTask(t))
<1> USE DEF pickerVars, Untouched
<1>1. CASE HostSteps
  BY <1>1, HostLeavesTool DEF ToolVars
<1>2. CASE PickTimer \/ PressBrowse \/ Cancel \/ EditName \/ HostEdits \/ AssetMoved
  BY <1>2 DEF PickTimer, PressBrowse, Cancel, EditName, HostEdits, AssetMoved
<1>3. CASE PressOpen \/ AnswerYes \/ AnswerNo
  BY <1>3 DEF PressOpen, AnswerYes, AnswerNo
<1>4. CASE OkSave \/ OkDuplicate
  BY <1>4 DEF OkSave, OkDuplicate
<1>5. CASE \E f \in shown : ClickFile(f)
  BY <1>5 DEF ClickFile
<1>6. CASE \E f \in disk : Browse(f)
  BY <1>6 DEF Browse
<1>7. CASE \E kind \in {"save", "duplicate"} : PressName(kind)
  BY <1>7 DEF PressName
<1>8. CASE \E f \in Files : f.dir = WorkDir(f.asset, f.task) /\ OthersWrite(f)
  BY <1>8 DEF OthersWrite
<1>9. CASE UNCHANGED allVars
  BY <1>9 DEF allVars, vars
<1>10. QED
  BY <1>1, <1>2, <1>3, <1>4, <1>5, <1>6, <1>7, <1>8, <1>9, MayaSteps DEF Work, ToolNext

\* Every change of the selection leaves a timer that the lists follow.
LEMMA TimerStays ==
  ASSUME SessionTypes, PickerTypes, ListTypes, RootKept, TimerInv, [MayaNext]_allVars
  PROVE  TimerInv'
<1>1. CASE Show
  BY <1>1 DEF Show, TimerInv
<1>2. CASE AssetJob
  BY <1>2 DEF AssetJob, TimerInv
<1>3. CASE \E a \in Assets : ClickAsset(a)
  BY <1>3 DEF ClickAsset, TimerInv
<1>4. CASE listed # None /\ \E t \in TasksOf[listed] : ClickTask(t)
  <2>1. PICK t \in TasksOf[listed] : ClickTask(t)
    BY <1>4
  <2>2. job' = "task" /\ UNCHANGED <<window, sel, listed>> /\ (~skipped' => ~skipped /\ job # "asset")
    BY <2>1 DEF ClickTask
  <2>3. QED
    BY <2>2 DEF TimerInv
<1>5. CASE TaskJob
  <2>1. Tasked
    BY <1>5, TaskJobEffect
  <2>2. UNCHANGED <<window, pickerVars>> /\ job = "task" /\ job' = "none"
    BY <1>5 DEF TaskJob
  <2>3. QED
    BY <2>1, <2>2 DEF Tasked, pickerVars, TimerInv
<1>6. CASE UNCHANGED <<sel, listed, current, skipped, job>> /\ ~Show /\ ~TaskJob
  <2>1. window' => window
    BY <1>6, WindowSteps
  <2>2. files'.asset = files.asset /\ files'.task = files.task /\ files'.enabled = files.enabled
    BY <1>6, ListSteps DEF listVars, PickTimer, ClickFile, Relisted
  <2>3. QED
    BY <1>6, <2>1, <2>2 DEF TimerInv
<1>7. QED
  BY <1>1, <1>2, <1>3, <1>4, <1>5, <1>6, PickerSteps

-----------------------------------------------------------------------------
(* The dialog for a name. *)

\* Only OthersWrite and what closes the dialog for a name write a file.
LEMMA DiskSteps ==
  ASSUME [MayaNext]_allVars
  PROVE  disk' = disk \/ Closed \/ Outdated \/ (~NameDialog /\ dialog' = dialog)
<1>1. CASE HostSteps
  BY <1>1, HostLeavesTool DEF ToolVars
<1>2. CASE Show \/ AssetJob \/ TaskJob \/ PickTimer \/ HostEdits \/ AssetMoved
  BY <1>2 DEF Show, AssetJob, TaskJob, PickTimer, HostEdits, AssetMoved, diskVars
<1>3. CASE PressOpen \/ PressBrowse \/ Cancel \/ EditName \/ AnswerNo
  BY <1>3 DEF PressOpen, PressBrowse, Cancel, EditName, AnswerNo, diskVars
<1>4. CASE OkSave \/ OkDuplicate
  BY <1>4 DEF OkSave, OkDuplicate, Closed
<1>5. CASE AnswerYes
  BY <1>5, OpenEffect DEF AnswerYes, Closed
<1>6. CASE \E a \in Assets : ClickAsset(a)
  BY <1>6 DEF ClickAsset, diskVars
<1>7. CASE listed # None /\ \E t \in TasksOf[listed] : ClickTask(t)
  BY <1>7 DEF ClickTask, diskVars
<1>8. CASE \E f \in shown : ClickFile(f)
  BY <1>8 DEF ClickFile, diskVars
<1>9. CASE \E f \in disk : Browse(f)
  BY <1>9 DEF Browse, diskVars
<1>10. CASE \E kind \in {"save", "duplicate"} : PressName(kind)
  BY <1>10 DEF PressName, diskVars
<1>11. CASE \E f \in Files : f.dir = WorkDir(f.asset, f.task) /\ OthersWrite(f)
  BY <1>11 DEF OthersWrite, Outdated
<1>12. CASE UNCHANGED allVars
  BY <1>12 DEF allVars, vars, diskVars
<1>13. QED
  BY <1>1, <1>2, <1>3, <1>4, <1>5, <1>6, <1>7, <1>8, <1>9, <1>10, <1>11, <1>12,
     MayaSteps DEF Work, ToolNext

\* The name in the dialog stays free, or was checked before others wrote a file.
LEMMA NameFreeStays ==
  ASSUME SessionTypes, DiskTypes, ListTypes, DialogTypes, RootKept, NameFree, [MayaNext]_allVars
  PROVE  NameFree'
<1>1. ASSUME NEW d, NameChecked(d), disk' = disk PROVE NameFree'
  BY <1>1, NameCheckedIs DEF NameFree, OnDisk
<1>2. CASE Closed
  BY <1>2, NoDialogIs DEF Closed, NameFree, NameDialog
<1>3. CASE Outdated
  BY <1>3, StaleIs DEF Outdated, DialogTypes, NameFree
<1>4. CASE Browsing
  BY <1>4, BrowseIs DEF Browsing, NameFree, NameDialog
<1>5. CASE Prompted
  BY <1>5, PromptIs DEF Prompted, NameFree, NameDialog
<1>6. CASE Naming
  BY <1>1, <1>6, PressNameEffect DEF Naming, PressName, diskVars
<1>7. CASE EditName
  BY <1>1, <1>7, EditNameEffect DEF EditName, diskVars
<1>8. CASE Marked
  <2>1. disk' = disk
    BY <1>8 DEF Marked, AssetJob, TaskJob, diskVars
  <2>2. FileOf(dialog') = FileOf(dialog)
    BY <1>8, RacedIs DEF Marked, FileOf
  <2>3. QED
    BY <1>8, <2>1, <2>2, RacedIs DEF Marked, NameFree, NameDialog, OnDisk
<1>9. CASE UNCHANGED dialog /\ disk' = disk
  BY <1>9 DEF NameFree, NameDialog, OnDisk, FileOf
<1>10. CASE UNCHANGED dialog /\ ~NameDialog
  BY <1>10 DEF NameFree, NameDialog
<1>11. QED
  BY <1>2, <1>3, <1>4, <1>5, <1>6, <1>7, <1>8, <1>9, <1>10, DialogSteps, DiskSteps

\* Nothing but a timer changes the list under an open dialog.
LEMMA ContextNamedStays ==
  ASSUME SessionTypes, DiskTypes, PickerTypes, ListTypes, DialogTypes, RootKept, HostInv, ContextNamed, [MayaNext]_allVars
  PROVE  ContextNamed'
<1>1. ASSUME ContextStays, files'.asset = files.asset, files'.task = files.task
      PROVE  PickAsset' = PickAsset /\ PickTask' = PickTask
  BY <1>1 DEF PickAsset, PickTask, ContextStays
<1>2. CASE Closed \/ Browsing \/ Prompted
  BY <1>2, NoDialogIs, BrowseIs, PromptIs DEF Closed, Browsing, Prompted, ContextNamed, NameDialog
<1>3. CASE Marked
  BY <1>3, RacedIs, NoDialogIs DEF Marked, ContextNamed, NameDialog
<1>4. CASE Naming
  <2>1. PICK kind \in {"save", "duplicate"} : PressName(kind)
    BY <1>4 DEF Naming
  <2>2. UNCHANGED <<session, environ, files>>
    BY <2>1 DEF PressName, sessionVars, Untouched, listVars
  <2>3. PICK d : NameChecked(d) /\ d.context = Picked
    BY <2>1, PressNameEffect
  <2>4. dialog'.context.asset = PickAsset /\ dialog'.context.task = PickTask
    BY <2>3, NameCheckedIs, PickIs DEF SessionTypes
  <2>5. QED
    BY <1>1, <2>2, <2>4 DEF ContextNamed, ContextStays
<1>5. CASE EditName
  <2>1. UNCHANGED <<session, environ, files>> /\ NameDialog
    BY <1>5 DEF EditName, sessionVars, Untouched, listVars
  <2>2. PICK d : NameChecked(d) /\ d.context = dialog.context /\ (d.raced <=> dialog.raced)
    BY <1>5, EditNameEffect
  <2>3. dialog'.context = dialog.context /\ (dialog'.raced <=> dialog.raced)
    BY <2>2, NameCheckedIs
  <2>4. QED
    BY <1>1, <2>1, <2>3 DEF ContextNamed, ContextStays
<1>6. CASE UNCHANGED dialog \/ Outdated
  <2> SUFFICES ASSUME NameDialog', ~dialog'.raced
               PROVE  dialog'.context.asset = PickAsset' /\ dialog'.context.task = PickTask'
    BY DEF ContextNamed
  <2>1. NameDialog /\ ~dialog.raced /\ dialog'.context = dialog.context
    BY <1>6, StaleIs DEF Outdated, NameDialog, DialogTypes
  <2>2. dialog # NoDialog /\ dialog' # NoDialog
    BY <2>1, NoDialogIs DEF NameDialog
  <2>3. ~Show /\ ~TaskJob
    BY <2>2, RacedIs DEF Show, HostInv, CalledOnce, TaskJob
  <2>4. files'.asset = files.asset /\ files'.task = files.task
    BY <2>3, ListSteps DEF listVars, PickTimer, ClickFile, Relisted
  <2>5. ~Opening /\ ~OkSave
    BY <2>1, <2>2 DEF Opening, PressOpen, Idle, Browse, AnswerYes, AnswerNo, OkSave, NameDialog
  <2>6. ContextStays
    BY <2>5, SessionKept DEF ListTypes
  <2>7. QED
    BY <1>1, <2>1, <2>4, <2>6 DEF ContextNamed
<1>7. QED
  BY <1>2, <1>3, <1>4, <1>5, <1>6, DialogSteps

-----------------------------------------------------------------------------
(* The invariant. *)

\* The types hold at the start.
LEMMA InitTyped ==
  ASSUME MayaInit
  PROVE  TypeOK
<1>1. place = [a \in Assets |-> 0] /\ place \in [Assets -> {0, 1, Gone}]
  BY DEF MayaInit, InitSession
<1>2. PICK a \in Assets, t \in Tasks : session = [asset |-> a, task |-> t, workdir |-> WorkDir(a, t)]
  BY DEF MayaInit, InitSession
<1>3. WorkDir(a, t) \in Dirs /\ WorkDir(a, t).asset = a /\ WorkDir(a, t).task = t
  BY <1>1 DEF WorkDir, Dirs
<1>4. session \in Contexts /\ session.workdir.asset = session.asset /\ session.workdir.task = session.task
  BY <1>2, <1>3 DEF Contexts
<1>5. SessionTypes
  <2>1. environ = session
    BY DEF MayaInit, InitSession
  <2>2. host \in {None, "host"} /\ config \in {None, "config"} /\ ran \subseteq {"host", "config_host", "config"}
    BY DEF MayaInit, InitSession
  <2>3. connected \in BOOLEAN
    <3>1. connected = TRUE \/ connected = FALSE
      BY DEF MayaInit, InitSession
    <3>2. QED
      BY <3>1, Zenon
  <2>4. QED
    BY <1>1, <1>4, <2>1, <2>2, <2>3 DEF SessionTypes
<1>6. disk \subseteq Files /\ newest \in [Dirs -> Files \cup {None}]
  BY FilesAssumption DEF MayaInit, InitTool
<1>7. \A f \in disk : f.dir \in Dirs
  BY <1>6 DEF Files
<1>8. session.workdir \in Dirs
  BY <1>4 DEF Contexts
<1>9. dirs \subseteq Dirs
  BY <1>7, <1>8 DEF MayaInit
<1>10. DiskTypes
  BY <1>6, <1>9 DEF MayaInit, InitTool, DiskTypes
<1>11. PickerTypes
  BY DEF MayaInit, InitTool, PickerTypes
<1>12. ListTypes
  BY DEF MayaInit, InitTool, NoFiles, ListTypes, FileLists
<1>13. dialog = NoDialog /\ acts = 0 /\ files = NoFiles
  BY DEF MayaInit, InitTool
<1>14. DialogTypes /\ RootKept
  BY <1>13, NoDialogIs DEF DialogTypes, RootKept, NameDialog, NoFiles
<1>15. HostTypes
  BY <1>8 DEF MayaInit, HostTypes
<1>16. QED
  BY <1>5, <1>10, <1>11, <1>12, <1>14, <1>15 DEF TypeOK

\* The invariant holds at the start.
LEMMA InitInv ==
  ASSUME MayaInit
  PROVE  WorkInv
<1>1. TypeOK
  BY InitTyped
<1>2. window = FALSE /\ dialog = NoDialog /\ shown = {} /\ row = None
  BY DEF MayaInit, InitTool
<1>3. HostInv
  <2>1. menu = None /\ reload = "no"
    BY DEF MayaInit
  <2>2. CASE host # None
    <3>1. callbacks = 1 /\ workspace = session.workdir
      BY <2>2 DEF MayaInit
    <3>2. known /\ listening
      BY <2>2, Zenon DEF MayaInit
    <3>3. callbacks <= 1
      BY <3>1
    <3>4. QED
      BY <1>2, <2>1, <2>2, <3>1, <3>2, <3>3, Zenon DEF HostInv, CalledOnce, HostFollows
  <2>3. CASE host = None
    <3>1. callbacks = 0
      BY <2>3 DEF MayaInit
    <3>2. callbacks <= 1 /\ ~(callbacks = 1)
      BY <3>1
    <3>3. QED
      BY <1>2, <2>1, <2>3, <3>2, Zenon DEF HostInv, CalledOnce, HostFollows
  <2>4. QED
    BY <2>2, <2>3
<1>4. ListInv
  BY <1>2 DEF MayaInit, InitTool, ListInv, RowInv
<1>5. TimerInv
  BY <1>2 DEF TimerInv
<1>6. NameInv
  BY <1>2, NoDialogIs DEF NameInv, ContextNamed, NameFree, NameDialog
<1>7. QED
  BY <1>1, <1>3, <1>4, <1>5, <1>6 DEF WorkInv

\* Every step keeps the invariant.
LEMMA StepInv ==
  ASSUME WorkInv, [MayaNext]_allVars
  PROVE  WorkInv'
<1> USE DEF WorkInv, TypeOK
<1>1. SessionTypes'
  BY SessionKept DEF ListTypes
<1>2. DiskTypes'
  BY DiskKept
<1>3. PickerTypes'
  BY PickerKept
<1>4. ListTypes'
  BY <1>2, ListTyped
<1>5. DialogTypes'
  BY DialogTyped
<1>6. RootKept'
  BY RootStays
<1>7. HostTypes'
  BY <1>1, HostTyped
<1>8. HostInv'
  BY <1>1, HostStays
<1>9. ListInv'
  BY ListInvStays
<1>10. TimerInv'
  BY TimerStays
<1>11. NameFree'
  BY NameFreeStays DEF NameInv, ContextNamed
<1>12. ContextNamed'
  BY ContextNamedStays DEF NameInv, ContextNamed
<1>13. NameInv'
  BY <1>11, <1>12 DEF NameInv, ContextNamed
<1>14. QED
  BY <1>1, <1>2, <1>3, <1>4, <1>5, <1>6, <1>7, <1>8, <1>9, <1>10, <1>13

\* The invariant of the session, the tool and the host.
LEMMA WorkInvariant == MayaSpec => []WorkInv
<1>1. MayaInit => WorkInv
  BY InitInv
<1>2. WorkInv /\ [MayaNext]_allVars => WorkInv'
  BY StepInv
<1>3. QED
  BY <1>1, <1>2, PTL DEF MayaSpec

-----------------------------------------------------------------------------
(* The theorems. *)

\* Every variable of the session, the tool and the host has its type, the
\* environment always agrees with the session, and the work directory of the
\* session is that of its asset and task.
THEOREM TypeCorrect == MayaSpec => []TypeOK
<1>1. WorkInv => TypeOK
  BY DEF WorkInv
<1>2. QED
  BY <1>1, WorkInvariant, PTL

\* Whatever is installed, uninstalled and reloaded, and whatever context is
\* entered, Maya's menu tells the session and its workspace follows it, if the
\* work directory was there (maya/pipeline.py).
THEOREM MenuFollows == MayaSpec => []HostFollows
<1>1. WorkInv => HostFollows
  BY DEF WorkInv, HostInv, CalledOnce
<1>2. QED
  BY <1>1, WorkInvariant, PTL

\* Installing and uninstalling keep the context, and Maya calls back once, as
\* long as no module is reloaded (pipeline.py, maya/pipeline.py).
THEOREM ContextKept == MayaSpec => ReinstallKeeps
<1>1. ASSUME WorkInv, [MayaNext]_allVars
      PROVE  (connected' # connected => session' = session) /\ (callbacks' > 1 => reloaded)
  <2>1. callbacks' > 1 => reloaded
    BY <1>1, CalledOnceStays DEF WorkInv, TypeOK, HostInv, CalledOnce
  <2>2. CASE HostSteps
    BY <1>1, <2>1, <2>2, HostContext DEF WorkInv, TypeOK, ContextStays
  <2>3. CASE Work
    BY <1>1, <2>1, <2>3, WorkSession DEF WorkInv, TypeOK
  <2>4. CASE UNCHANGED allVars
    BY <2>1, <2>4 DEF allVars, vars, sessionVars
  <2>5. QED
    BY <1>1, <2>2, <2>3, <2>4, MayaSteps
<1>2. WorkInv /\ [MayaNext]_allVars =>
        [/\ connected' # connected => session' = session
         /\ callbacks' > 1 => reloaded]_allVars
  BY <1>1
<1>3. QED
  BY <1>2, WorkInvariant, PTL DEF MayaSpec, ReinstallKeeps

\* Once the timers have fired, the lists are those of the selected asset and task,
\* unless a click on a task cancelled the job of one on an asset.
THEOREM ListsSettle == MayaSpec => []SettledListShows
<1>1. WorkInv => SettledListShows
  BY DEF WorkInv, TimerInv, ListInv, RowInv, SettledListShows
<1>2. QED
  BY <1>1, WorkInvariant, PTL

\* The name that can be accepted is free, and the next available version always
\* is, until others write a file (workfiles/app.py NameWindow, pipeline.py
\* last_workfile_with_version).
THEOREM NamesAreFree == MayaSpec => []NameFree
<1>1. WorkInv => NameFree
  BY DEF WorkInv, NameInv, ContextNamed
<1>2. QED
  BY <1>1, WorkInvariant, PTL

\* Only opening and saving change the scene.
LEMMA SceneSteps ==
  ASSUME [MayaNext]_allVars
  PROVE  scene' = scene \/ Opening \/ OkSave
<1>1. CASE HostSteps
  BY <1>1, HostLeavesTool DEF ToolVars, sceneVars
<1>2. CASE Show \/ AssetJob \/ TaskJob \/ PickTimer \/ HostEdits \/ AssetMoved
  BY <1>2 DEF Show, AssetJob, TaskJob, PickTimer, HostEdits, AssetMoved, sceneVars
<1>3. CASE PressBrowse \/ Cancel \/ EditName \/ OkDuplicate
  BY <1>3 DEF PressBrowse, Cancel, EditName, OkDuplicate, sceneVars
<1>4. CASE \E a \in Assets : ClickAsset(a)
  BY <1>4 DEF ClickAsset, sceneVars
<1>5. CASE listed # None /\ \E t \in TasksOf[listed] : ClickTask(t)
  BY <1>5 DEF ClickTask, sceneVars
<1>6. CASE \E f \in shown : ClickFile(f)
  BY <1>6 DEF ClickFile, sceneVars
<1>7. CASE \E kind \in {"save", "duplicate"} : PressName(kind)
  BY <1>7 DEF PressName, sceneVars
<1>8. CASE \E f \in Files : f.dir = WorkDir(f.asset, f.task) /\ OthersWrite(f)
  BY <1>8 DEF OthersWrite, sceneVars
<1>9. CASE UNCHANGED allVars
  BY <1>9 DEF allVars, vars, sceneVars
<1>10. QED
  BY <1>1, <1>2, <1>3, <1>4, <1>5, <1>6, <1>7, <1>8, <1>9, MayaSteps DEF Work, ToolNext, Opening

\* A scene that changes when a file is opened is that file, in the context entered for it.
LEMMA OpenScene ==
  ASSUME SessionTypes, NEW path, Open(path), scene' # scene
  PROVE  scene' = path /\ session' = Picked
<1>1. ~PickRaises
  BY DEF Open, PickRaises
<1>2. EnterSession /\ scene' = path
  BY <1>1 DEF Open, PickRaises
<1>3. QED
  BY <1>2, EnterIs

\* A scene that is saved, or opened from the list, lies in the work directory of
\* the session that is entered for it, and a saved one is named after it, unless
\* a timer fired in the dialog or the asset was moved.
THEOREM ScenesAreInSession == MayaSpec => SceneInSession
<1> DEFINE Chosen == scene' # scene /\ ~dialog.raced /\ FreshRoot /\ dialog.kind # "browse"
                     /\ (dialog.kind = "prompt" => dialog.path \in shown)
           Right == /\ scene'.dir = session'.workdir
                    /\ <<session'.workdir.asset, session'.workdir.task>> = <<session'.asset, session'.task>>
                    /\ dialog.kind = "save" => <<scene'.asset, scene'.task>> = <<session'.asset, session'.task>>
<1>1. ASSUME WorkInv, [MayaNext]_allVars, Chosen
      PROVE  Right
  <2>1. session'.workdir.asset = session'.asset /\ session'.workdir.task = session'.task
    BY <1>1, StepInv DEF WorkInv, TypeOK, SessionTypes
  <2>2. files.root = Picked.workdir
    BY <1>1 DEF FreshRoot, Picked
  <2>3. \A f \in shown : f.dir = files.root
    BY <1>1 DEF WorkInv, ListInv, RowInv
  <2>4. ASSUME session' = Picked, scene'.dir = files.root, dialog.kind # "save"
        PROVE  Right
    BY <2>1, <2>2, <2>4
  <2>5. CASE PressOpen
    <3>1. Open(row) /\ row # None /\ dialog = NoDialog
      BY <1>1, <2>5 DEF PressOpen, OpenFile, Idle
    <3>2. session' = Picked /\ scene' = row /\ row.dir = files.root
      BY <1>1, <3>1, OpenScene DEF WorkInv, TypeOK, ListInv, RowInv
    <3>3. QED
      BY <2>4, <3>1, <3>2, NoDialogIs
  <2>6. CASE AnswerYes \/ AnswerNo
    <3>1. Open(dialog.path) /\ dialog.kind = "prompt"
      BY <1>1, <2>6 DEF AnswerYes, AnswerNo, sceneVars
    <3>2. session' = Picked /\ scene' = dialog.path /\ dialog.path \in shown
      BY <1>1, <3>1, OpenScene DEF WorkInv, TypeOK
    <3>3. QED
      BY <2>3, <2>4, <3>1, <3>2
  <2>7. CASE \E f \in disk : Browse(f)
    BY <1>1, <2>7 DEF Browse
  <2>8. CASE OkSave
    <3>1. /\ EnterSession /\ scene' = NewFile /\ dialog.kind = "save"
      BY <1>1, <2>8 DEF OkSave, NewFile
    <3>2. NameDialog /\ files.root \in Dirs
      BY <1>1, <3>1 DEF NameDialog, WorkInv, TypeOK, RootKept
    <3>3. NewFile.dir = files.root /\ NewFile.asset = dialog.context.asset /\ NewFile.task = dialog.context.task
      BY <1>1, <3>2, NewFileIs DEF WorkInv, TypeOK
    <3>4. session' = Picked /\ Picked.asset = PickAsset /\ Picked.task = PickTask
      BY <1>1, <3>1, EnterIs, PickIs DEF WorkInv, TypeOK, SessionTypes
    <3>5. dialog.context.asset = PickAsset /\ dialog.context.task = PickTask
      BY <1>1, <3>2 DEF WorkInv, NameInv, ContextNamed
    <3>6. QED
      BY <2>1, <2>2, <3>1, <3>3, <3>4, <3>5
  <2>9. QED
    BY <1>1, <2>5, <2>6, <2>7, <2>8, SceneSteps DEF Opening
<1>2. WorkInv /\ [MayaNext]_allVars => [Chosen => Right]_vars
  BY <1>1
<1>3. QED
  BY <1>2, WorkInvariant, PTL DEF MayaSpec, SceneInSession
=============================================================================
