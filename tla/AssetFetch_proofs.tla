-------------------------- MODULE AssetFetch_proofs --------------------------
(***************************************************************************)
(* Proofs about AssetFetch, for any projects and any number of refreshes.  *)
(***************************************************************************)
EXTENDS AssetFetch, SequenceTheorems, TLAPS

\* The values of Docs and Asset that stand for nothing have their types.
LEMMA Constructors ==
  /\ None \in DocsType /\ NoAsset \in AssetType /\ Unset \in AssetType
  /\ \A p \in Projects : Docs(p, p) \in DocsType /\ Docs(p, p) # None
  BY ProjectsAssumption, NamesAssumption
     DEF None, NoAsset, Unset, Docs, Asset, DocsType, AssetType

\* What rows show are assets.
LEMMA ShownTypes ==
  ASSUME NEW s \in Seq(DocsType)
  PROVE  {Asset(p, n) : p \in {s[i].assets : i \in DOMAIN s}, n \in Names} \subseteq AssetType
<1>1. \A i \in DOMAIN s : s[i] \in DocsType
  OBVIOUS
<1>2. \A d \in DocsType : d.assets \in Projects \cup {NoProject}
  BY DEF DocsType
<1>3. \A p \in Projects \cup {NoProject}, n \in Names : Asset(p, n) \in AssetType
  BY DEF Asset, AssetType
<1>4. SUFFICES ASSUME NEW i \in DOMAIN s, NEW n \in Names
               PROVE  Asset(s[i].assets, n) \in AssetType
  OBVIOUS
<1>5. QED
  BY <1>1, <1>2, <1>3

\* Adding the fetched documents gives rows of documents, and alike rows if they
\* are like the ones that were there.
LEMMA AddedRows ==
  ASSUME NEW s \in Seq(DocsType), NEW d \in DocsType
  PROVE  /\ Append(s, d) \in Seq(DocsType)
         /\ \A c : d = c /\ (\A i \in DOMAIN s : s[i] = c)
                => \A i \in DOMAIN Append(s, d) : Append(s, d)[i] = c
  BY AppendProperties

\* Every variable has its type in every reachable state, and nothing is ever
\* fetched without a project.
THEOREM TypeCorrect == Spec => []TypeOK
<1> USE DEF widgetVars, modelVars, threadVars, pastVars
<1>1. Init => TypeOK
  <2> SUFFICES ASSUME Init
               PROVE  TypeOK
    OBVIOUS
  <2>1. project \in Projects \cup {NoProject} /\ (project = NoProject => library /\ tpc = "off")
    BY ProjectsAssumption DEF Init
  <2>2. rows \in Seq(DocsType) /\ signals \in Seq({"stopped", "fetched"})
    BY DEF Init
  <2>3. /\ library \in BOOLEAN /\ loading \in BOOLEAN /\ empty \in BOOLEAN
        /\ listening \in BOOLEAN /\ thread \in BOOLEAN /\ stop \in BOOLEAN
        /\ doubled \in BOOLEAN /\ behind \in BOOLEAN
    BY DEF Init
  <2>4. /\ pc \in {"idle", "set", "switch", "stop"} /\ acts \in Nat
        /\ tpc \in {"off", "template", "assets", "group", "store", "emit", "end"}
    BY DEF Init
  <2>5. /\ selected \in AssetType /\ stored \in AssetType /\ chosen \in AssetType
        /\ payload \in DocsType /\ fetched \in DocsType
    BY Constructors DEF Init
  <2>6. QED
    BY <2>1, <2>2, <2>3, <2>4, <2>5 DEF TypeOK
<1>2. TypeOK /\ [Next]_vars => TypeOK'
  <2> SUFFICES ASSUME TypeOK, [Next]_vars
               PROVE  TypeOK'
    OBVIOUS
  <2> USE Constructors DEF TypeOK, WasStopped
  <2>1. CASE Select
    <3>1. selected' \in AssetType /\ chosen' \in AssetType
      BY <2>1, ShownTypes DEF Select, Shown
    <3>2. QED
      BY <2>1, <3>1 DEF Select
  <2>2. CASE Refresh
    <3>1. (rows' = rows \/ rows' = <<>>) /\ signals' = signals
      BY <2>2 DEF Refresh, RefreshModel, StartFetch
    <3>2. /\ rows \in Seq(DocsType) /\ <<>> \in Seq(DocsType)
          /\ signals \in Seq({"stopped", "fetched"})
      BY DEF TypeOK
    <3>3. rows' \in Seq(DocsType) /\ signals' \in Seq({"stopped", "fetched"})
      BY <3>1, <3>2, Zenon
    <3>4. acts' \in Nat
      BY <2>2 DEF Refresh
    <3>5. /\ loading' \in BOOLEAN /\ empty' \in BOOLEAN
          /\ doubled' \in BOOLEAN /\ behind' \in BOOLEAN
      BY <2>2 DEF Refresh, RefreshModel
    <3>6. /\ selected' \in AssetType /\ stored' \in AssetType /\ listening' \in BOOLEAN
          /\ thread' \in BOOLEAN /\ stop' \in BOOLEAN /\ payload' \in DocsType
          /\ fetched' \in DocsType
          /\ tpc' \in {"off", "template", "assets", "group", "store", "emit", "end"}
      <4>1. CASE thread
        BY <2>2, <4>1 DEF Refresh, RefreshModel
      <4>2. CASE ~thread
        <5>1. StartFetch(project) /\ selected' = NoAsset
          BY <2>2, <4>2 DEF Refresh, RefreshModel
        <5>2. stored' = selected /\ listening' = TRUE
          BY <2>2 DEF Refresh, RefreshModel
        <5>3. CASE project = NoProject
          BY <5>1, <5>2, <5>3 DEF StartFetch
        <5>4. CASE project # NoProject
          BY <5>1, <5>2, <5>4 DEF StartFetch
        <5>5. QED
          BY <5>3, <5>4
      <4>3. QED
        BY <4>1, <4>2
    <3>7. project' = NoProject => library' /\ tpc' = "off"
      BY <2>2 DEF Refresh, RefreshModel, StartFetch
    <3>8. QED
      BY <2>2, <3>3, <3>5, <3>6, <3>7, <3>4 DEF Refresh
  <2>3. CASE SwitchProject
    BY <2>3, ProjectsAssumption DEF SwitchProject
  <2>4. CASE SwitchRefresh
    <3>1. rows' \in Seq(DocsType) /\ signals' \in Seq({"stopped", "fetched"})
      BY <2>4 DEF SwitchRefresh, RefreshModel, StartFetch
    <3>2. loading' \in BOOLEAN /\ empty' \in BOOLEAN /\ behind' \in BOOLEAN
      BY <2>4 DEF SwitchRefresh, RefreshModel
    <3>3. /\ selected' \in AssetType /\ stored' \in AssetType /\ listening' \in BOOLEAN
          /\ thread' \in BOOLEAN /\ stop' \in BOOLEAN /\ payload' \in DocsType
          /\ fetched' \in DocsType
          /\ tpc' \in {"off", "template", "assets", "group", "store", "emit", "end"}
          /\ project' = NoProject => tpc' = "off"
      BY <2>4 DEF SwitchRefresh, RefreshModel, StartFetch
    <3>4. QED
      BY <2>4, <3>1, <3>2, <3>3 DEF SwitchRefresh
  <2>5. CASE OnDocFetched
    <3> DEFINE added == Append(rows, payload)
    <3>1. added \in Seq(DocsType)
      BY AddedRows
    <3>2. rows' = rows \/ rows' = added
      BY <2>5 DEF OnDocFetched
    <3>3. rows' \in Seq(DocsType)
      BY <3>1, <3>2
    <3>4. signals' \in Seq({"stopped", "fetched"})
      BY <2>5 DEF OnDocFetched
    <3>5. Shown' \subseteq AssetType
      BY <3>3, ShownTypes DEF Shown
    <3>6. /\ selected' \in AssetType /\ stored' \in AssetType
          /\ loading' \in BOOLEAN /\ empty' \in BOOLEAN /\ listening' \in BOOLEAN
      BY <2>5, <3>5 DEF OnDocFetched, Refreshed, Restore
    <3>7. QED
      BY <2>5, <3>3, <3>4, <3>6 DEF OnDocFetched
  <2>6. CASE Stopped
    BY <2>6 DEF Stopped
  <2>7. CASE FetchTemplate
    BY <2>7 DEF FetchTemplate, Docs, DocsType
  <2>8. CASE FetchAssets
    BY <2>8 DEF FetchAssets, DocsType
  <2>9. CASE GroupAssets
    BY <2>9 DEF GroupAssets
  <2>10. CASE StorePayload
    BY <2>10 DEF StorePayload
  <2>11. CASE EmitFetched
    BY <2>11 DEF EmitFetched
  <2>12. CASE EndThread
    BY <2>12 DEF EndThread
  <2>13. CASE SwitchRaises
    BY <2>13 DEF SwitchRaises
  <2>14. CASE SwitchStop
    BY <2>14 DEF SwitchStop
  <2>15. CASE UNCHANGED vars
    BY <2>15 DEF vars
  <2>16. QED
    BY <2>1, <2>2, <2>3, <2>4, <2>5, <2>6, <2>7, <2>8, <2>9, <2>10, <2>11, <2>12,
       <2>13, <2>14, <2>15 DEF Next, UserStep, MainStep, ThreadStep
<1>3. QED
  BY <1>1, <1>2, PTL DEF Spec

-----------------------------------------------------------------------------
(***************************************************************************)
(* Unless the session has moved on and no fetch has begun since,           *)
(* everything fetched, stored or shown is of the session's project: a      *)
(* switch waits for the old thread before the new fetch, which empties the *)
(* payload, and after a switch that raised a refresh begins a fetch only   *)
(* when no thread is referenced.                                           *)
(***************************************************************************)
Current == Docs(project, project)

CurrentInv ==
  /\ RunningThreadReferenced
  /\ pc \in {"set", "switch"} => behind
  /\ behind => library /\ project # NoProject
  /\ ~behind =>
       /\ payload \in {None, Current}
       /\ tpc = "assets" => fetched = Docs(project, NoProject)
       /\ tpc \in {"group", "store"} => fetched \in {None, Current}
       /\ \A i \in DOMAIN rows : rows[i] = Current

\* Every step of the main thread and of the fetching thread keeps it.
LEMMA CurrentStep == TypeOK /\ CurrentInv /\ [Next]_vars => CurrentInv'
<1> SUFFICES ASSUME TypeOK, CurrentInv, [Next]_vars
             PROVE  CurrentInv'
  OBVIOUS
<1> USE DEF TypeOK, WasStopped, CurrentInv, RunningThreadReferenced, Current,
            widgetVars, modelVars, threadVars, pastVars
<1>1. CASE Select
  BY <1>1 DEF Select
<1>2. CASE Refresh
  BY <1>2 DEF Refresh, RefreshModel, StartFetch
<1>3. CASE SwitchProject
  BY <1>3, ProjectsAssumption DEF SwitchProject
<1>4. CASE SwitchRefresh
  BY <1>4 DEF SwitchRefresh, RefreshModel, StartFetch
<1>5. CASE OnDocFetched
  <2>1. ~behind => \A i \in DOMAIN rows' : rows'[i] = Current
    <3> SUFFICES ASSUME ~behind
                 PROVE  \A i \in DOMAIN rows' : rows'[i] = Current
      OBVIOUS
    <3>1. CASE rows' = rows
      BY <1>5, <3>1 DEF OnDocFetched
    <3>2. CASE rows' = Append(rows, payload) /\ payload # None
      BY <1>5, <3>2, AddedRows DEF OnDocFetched
    <3>3. QED
      BY <1>5, <3>1, <3>2 DEF OnDocFetched
  <2>2. QED
    BY <1>5, <2>1 DEF OnDocFetched
<1>6. CASE Stopped
  BY <1>6 DEF Stopped
<1>7. CASE FetchTemplate
  BY <1>7 DEF FetchTemplate
<1>8. CASE FetchAssets
  BY <1>8 DEF FetchAssets, Docs
<1>9. CASE GroupAssets
  BY <1>9 DEF GroupAssets
<1>10. CASE StorePayload
  BY <1>10 DEF StorePayload
<1>11. CASE EmitFetched
  BY <1>11 DEF EmitFetched
<1>12. CASE EndThread
  BY <1>12 DEF EndThread
<1>13. CASE SwitchRaises
  BY <1>13 DEF SwitchRaises
<1>14. CASE SwitchStop
  BY <1>14 DEF SwitchStop
<1>15. CASE UNCHANGED vars
  BY <1>15 DEF vars
<1>16. QED
  BY <1>1, <1>2, <1>3, <1>4, <1>5, <1>6, <1>7, <1>8, <1>9, <1>10, <1>11, <1>12,
     <1>13, <1>14, <1>15 DEF Next, UserStep, MainStep, ThreadStep

\* From the first fetch after a switch on the rows are those of the session's
\* project, whichever switches raised before; and a thread that runs is always
\* referenced.
THEOREM RowsCurrent == Spec => [](RowsOfProject /\ RunningThreadReferenced)
<1>1. Init => CurrentInv
  <2> SUFFICES ASSUME Init
               PROVE  CurrentInv
    OBVIOUS
  <2>1. rows = <<>> /\ pc = "idle" /\ payload = None /\ (tpc # "off" => thread)
        /\ tpc \in {"off", "template"} /\ behind = FALSE
    BY DEF Init
  <2>2. QED
    BY <2>1 DEF CurrentInv, RunningThreadReferenced
<1>2. CurrentInv => RowsOfProject /\ RunningThreadReferenced
  BY DEF CurrentInv, RowsOfProject, Current
<1>3. QED
  BY <1>1, <1>2, TypeCorrect, CurrentStep, PTL DEF Spec

-----------------------------------------------------------------------------
(***************************************************************************)
(* A tool on one project is in one of three phases: a fetch whose signal   *)
(* has not been handled, the handler of that signal, or done.  The stop    *)
(* flag is only set when the one signal of the fetch has been sent.        *)
(***************************************************************************)
Fetching ==
  /\ pc = "idle" /\ thread /\ ~stop /\ rows = <<>> /\ listening
  /\ IF tpc \in {"end", "off"}
     THEN signals = <<"fetched">> /\ payload = Current
     ELSE signals = <<>>
  /\ tpc \in {"group", "store"} => fetched = Current
  /\ tpc = "emit" => payload = Current

Filled == rows = <<Current>> /\ ~loading /\ ~empty /\ signals = <<>>

Handled == pc = "stop" /\ Filled /\ tpc \in {"end", "off"}

Done == pc = "idle" /\ Filled /\ tpc = "off" /\ ~thread

PhaseInv == ~library => project # NoProject /\ (Fetching \/ Handled \/ Done)

\* No step changes which tool it is.
LEMMA SameTool == [Next]_vars => library' = library
<1> SUFFICES ASSUME [Next]_vars
             PROVE  library' = library
  OBVIOUS
<1>1. CASE UserStep
  BY <1>1 DEF UserStep, Select, Refresh, SwitchProject
<1>2. CASE MainStep
  BY <1>2 DEF MainStep, SwitchRaises, SwitchStop, SwitchRefresh, OnDocFetched, Stopped
<1>3. CASE ThreadStep
  BY <1>3 DEF ThreadStep, FetchTemplate, FetchAssets, GroupAssets, StorePayload,
     EmitFetched, EndThread
<1>4. CASE UNCHANGED vars
  BY <1>4 DEF vars
<1>5. QED
  BY <1>1, <1>2, <1>3, <1>4 DEF Next

\* Every step leads from a phase to itself or the next, a refresh from the last
\* to the first.
LEMMA PhaseStep ==
  TypeOK /\ CurrentInv /\ PhaseInv /\ [Next]_vars => PhaseInv'
<1> SUFFICES ASSUME TypeOK, CurrentInv, [Next]_vars, ~library,
                    project # NoProject, Fetching \/ Handled \/ Done
             PROVE  PhaseInv'
  BY SameTool DEF PhaseInv
<1> USE SameTool DEF TypeOK, PhaseInv, WasStopped, Fetching, Handled, Done, Filled, Current,
            widgetVars, modelVars, threadVars, pastVars
<1>1. CASE Select
  BY <1>1 DEF Select
<1>2. CASE Refresh
  BY <1>2 DEF Refresh, RefreshModel, StartFetch
<1>3. CASE SwitchProject
  BY <1>3 DEF SwitchProject
<1>4. CASE SwitchRefresh
  BY <1>4 DEF SwitchRefresh
<1>5. CASE OnDocFetched
  <2>1. Fetching /\ signals = <<"fetched">> /\ payload = Current /\ tpc \in {"end", "off"}
    BY <1>5 DEF OnDocFetched
  <2>2. Current # None
    BY Constructors
  <2>3. Head(signals) = "fetched" /\ Tail(signals) = <<>> /\ Append(rows, payload) = <<Current>>
    BY <2>1
  <2>4. rows' = Append(rows, payload) /\ signals' = Tail(signals) /\ pc' = "stop"
    BY <1>5, <2>1, <2>2, <2>3 DEF OnDocFetched
  <2>5. rows' = <<Current>> /\ signals' = <<>> /\ pc' = "stop"
    BY <2>3, <2>4
  <2>6. Refreshed(TRUE)
    BY <1>5, <2>1, <2>2, <2>3 DEF OnDocFetched
  <2>7. ~loading' /\ ~empty'
    BY <2>1, <2>6 DEF Refreshed
  <2>8. tpc' = tpc /\ project' = project
    BY <1>5 DEF OnDocFetched
  <2>9. QED
    BY <2>1, <2>5, <2>7, <2>8
<1>6. CASE Stopped
  BY <1>6 DEF Stopped
<1>7. CASE FetchTemplate
  BY <1>7 DEF FetchTemplate
<1>8. CASE FetchAssets
  BY <1>8 DEF FetchAssets, Docs, CurrentInv
<1>9. CASE GroupAssets
  BY <1>9 DEF GroupAssets
<1>10. CASE StorePayload
  BY <1>10 DEF StorePayload
<1>11. CASE EmitFetched
  <2>1. Fetching /\ signals = <<>> /\ payload = Current /\ stop = FALSE
    BY <1>11 DEF EmitFetched
  <2>2. signals' = <<"fetched">>
    BY <1>11, <2>1 DEF EmitFetched
  <2>3. QED
    BY <1>11, <2>1, <2>2 DEF EmitFetched
<1>12. CASE EndThread
  BY <1>12 DEF EndThread
<1>13. CASE SwitchRaises \/ SwitchStop
  BY <1>13 DEF SwitchRaises, SwitchStop
<1>14. CASE UNCHANGED vars
  BY <1>14 DEF vars
<1>15. QED
  BY <1>1, <1>2, <1>3, <1>4, <1>5, <1>6, <1>7, <1>8, <1>9, <1>10, <1>11, <1>12,
     <1>13, <1>14 DEF Next, UserStep, MainStep, ThreadStep

\* The phases hold in every reachable state.
LEMMA PhaseInvariant == Spec => [](TypeOK /\ CurrentInv /\ PhaseInv)
<1>1. Init => CurrentInv /\ PhaseInv
  <2> SUFFICES ASSUME Init
               PROVE  CurrentInv /\ PhaseInv
    OBVIOUS
  <2>1. /\ rows = <<>> /\ pc = "idle" /\ payload = None /\ (tpc # "off" => thread)
        /\ tpc \in {"off", "template"} /\ signals = <<>> /\ stop = FALSE /\ behind = FALSE
    BY DEF Init
  <2>2. ~library => project # NoProject /\ thread /\ listening /\ tpc = "template"
    BY ProjectsAssumption DEF Init
  <2>3. CurrentInv
    BY <2>1 DEF CurrentInv, RunningThreadReferenced
  <2>4. PhaseInv
    BY <2>1, <2>2 DEF PhaseInv, Fetching
  <2>5. QED
    BY <2>3, <2>4
<1>2. QED
  BY <1>1, TypeCorrect, CurrentStep, PhaseStep, PTL DEF Spec

\* A tool on one project shows its assets, once and unhidden, whenever all is
\* done.
THEOREM ToolFilled == Spec => []ToolShowsAssets
<1>1. PhaseInv => ToolShowsAssets
  BY DEF PhaseInv, ToolShowsAssets, AtRest, Fetching, Handled, Done, Filled, Current
<1>2. QED
  BY <1>1, PhaseInvariant, PTL

-----------------------------------------------------------------------------
(***************************************************************************)
(* A tool on one project shows its spinner as long as a fetch has not been *)
(* handled, and nothing can be selected then.  What the user chose is of   *)
(* the project; it is selected, or stored until the rows are back.         *)
(***************************************************************************)
Ours(a) == \E n \in Names : a = Asset(project, n)

ChoiceInv ==
  ~library =>
    /\ Fetching => loading
    /\ chosen # NoAsset => Ours(chosen)
    /\ ~doubled /\ chosen # NoAsset => IF loading THEN stored = chosen ELSE selected = chosen

\* The rows of one fetch show the assets of its project, and no others.
LEMMA ShownOnce ==
  ASSUME NEW d, NEW s, s = <<d>>
  PROVE  {Asset(p, n) : p \in {s[i].assets : i \in DOMAIN s}, n \in Names} =
           {Asset(d.assets, n) : n \in Names}
<1>1. DOMAIN s = {1} /\ s[1] = d
  OBVIOUS
<1>2. {s[i].assets : i \in DOMAIN s} = {d.assets}
  BY <1>1
<1> QED
  BY <1>2

\* Every step keeps the choice.
LEMMA ChoiceStep ==
  TypeOK /\ CurrentInv /\ PhaseInv /\ ChoiceInv /\ [Next]_vars => ChoiceInv'
<1> SUFFICES ASSUME TypeOK, CurrentInv, PhaseInv, ChoiceInv, [Next]_vars, ~library
             PROVE  ChoiceInv'
  BY SameTool DEF ChoiceInv
<1>0. /\ ~library' /\ project # NoProject /\ (Fetching \/ Handled \/ Done) /\ PhaseInv'
  BY SameTool, PhaseStep DEF PhaseInv
<1>1. /\ Fetching => loading
      /\ chosen # NoAsset => Ours(chosen)
      /\ ~doubled /\ chosen # NoAsset => IF loading THEN stored = chosen ELSE selected = chosen
      /\ loading \in BOOLEAN /\ doubled \in BOOLEAN
  BY DEF ChoiceInv, TypeOK
<1>2. ~SwitchProject /\ ~SwitchRaises /\ ~SwitchStop /\ ~SwitchRefresh
  BY <1>0 DEF SwitchProject, SwitchRaises, SwitchStop, SwitchRefresh, Fetching, Handled, Done
<1>3. CASE Select
  <2>1. /\ pc = "idle" /\ UNCHANGED <<library, project, pc, rows, loading, empty, listening, stored,
                 modelVars, threadVars, acts, doubled>>
    BY <1>3 DEF Select
  <2>2. PICK a \in Shown : selected' = a /\ chosen' = a
    BY <1>3 DEF Select
  <2>3. Done
    <3>1. ~Fetching
      BY <2>2 DEF Fetching, Shown
    <3> QED
      BY <1>0, <2>1, <3>1 DEF Handled
  <2>4. Ours(a) /\ ~loading
    <3>1. rows = <<Current>> /\ ~loading /\ Current.assets = project
      BY <2>3 DEF Done, Filled, Current, Docs
    <3>2. Shown = {Asset(project, n) : n \in Names}
      BY <3>1, ShownOnce DEF Shown
    <3> QED
      BY <2>2, <3>1, <3>2 DEF Ours
  <2>5. ~Fetching'
    BY <2>1, <2>3 DEF Done, Filled, Fetching, modelVars
  <2> QED
    BY <2>1, <2>2, <2>4, <2>5 DEF ChoiceInv, Ours
<1>4. CASE Refresh
  <2>1. /\ pc = "idle" /\ doubled' = (doubled \/ loading) /\ RefreshModel(thread)
        /\ UNCHANGED <<library, project, pc, signals, chosen>>
    BY <1>4 DEF Refresh
  <2>2. stored' = selected /\ loading'
    BY <1>0, <2>1 DEF RefreshModel
  <2>3. chosen # NoAsset /\ ~doubled' => selected = chosen
    BY <1>1, <2>1
  <2> QED
    BY <1>1, <2>1, <2>2, <2>3 DEF ChoiceInv, Ours
<1>5. CASE OnDocFetched
  <2>1. Fetching /\ signals # <<>>
    BY <1>0, <1>5 DEF OnDocFetched, Handled, Done, Filled
  <2>2. tpc \in {"end", "off"} /\ signals = <<"fetched">> /\ payload = Current /\ rows = <<>> /\ listening
    BY <2>1 DEF Fetching
  <2>3. Current # None /\ Head(signals) # WasStopped(TRUE)
    BY <1>0, <2>2, Constructors DEF Current, TypeOK, WasStopped
  <2>4. rows' = <<Current>> /\ Refreshed(TRUE)
    <3>1. Append(rows, payload) = <<Current>>
      BY <2>2
    <3>2. rows' = Append(rows, payload) /\ Refreshed(TRUE)
      BY <1>5, <2>2, <2>3 DEF OnDocFetched
    <3> QED
      BY <3>1, <3>2
  <2>5. UNCHANGED <<library, project, pastVars>> /\ pc' = "stop"
    BY <1>5 DEF OnDocFetched
  <2>6. ~loading' /\ Restore
    BY <2>2, <2>4 DEF Refreshed
  <2>7. Shown' = {Asset(project, n) : n \in Names}
    <3>1. Current.assets = project
      BY DEF Current, Docs
    <3> QED
      BY <2>4, <3>1, ShownOnce DEF Shown
  <2>8. ~doubled /\ chosen # NoAsset => selected' = chosen
    <3> SUFFICES ASSUME ~doubled, chosen # NoAsset
                 PROVE  selected' = chosen
      OBVIOUS
    <3>1. stored = chosen /\ chosen \in Shown'
      BY <1>1, <2>1, <2>7 DEF Ours
    <3> QED
      BY <2>6, <3>1 DEF Restore
  <2>9. ~Fetching'
    BY <2>5 DEF Fetching
  <2> QED
    BY <1>1, <2>5, <2>6, <2>8, <2>9 DEF ChoiceInv, Ours, pastVars
<1>6. CASE Stopped \/ ThreadStep \/ UNCHANGED vars
  <2>1. UNCHANGED <<project, rows, loading, selected, stored, doubled, chosen>>
    BY <1>6 DEF Stopped, ThreadStep, FetchTemplate, FetchAssets, GroupAssets, StorePayload, EmitFetched,
                EndThread, vars, widgetVars, pastVars
  <2>2. Fetching' => Fetching
    BY <1>0, <2>1 DEF Fetching, Handled, Done, Filled
  <2> QED
    BY <1>1, <2>1, <2>2 DEF ChoiceInv, Ours
<1> QED
  BY <1>2, <1>3, <1>4, <1>5, <1>6 DEF Next, UserStep, MainStep

\* A refresh that is over before the next one begins keeps the selection: what
\* was stored when it began is among the rows when they are back.
THEOREM SelectionIsKept == Spec => []SelectionKept
<1>1. Init => ChoiceInv
  BY DEF Init, ChoiceInv, Fetching
<1>2. ChoiceInv => SelectionKept
  BY DEF ChoiceInv, SelectionKept
<1> QED
  BY <1>1, <1>2, PhaseInvariant, ChoiceStep, PTL DEF Spec
=============================================================================
