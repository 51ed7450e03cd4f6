------------------------ MODULE LoaderDetails_proofs ------------------------
(***************************************************************************)
(* Proofs about LoaderDetails and the window below it, LoaderWindow, for   *)
(* any assets, subsets, representations, loaders and pictures, and any     *)
(* number of things the users do.                                          *)
(***************************************************************************)
EXTENDS LoaderDetails, FiniteSetTheorems, TLAPS

-----------------------------------------------------------------------------
(* The window.                                                             *)

\* What the constructors build has its type.
LEMMA Constructors ==
  /\ None \in DocsType /\ NoSelection \in SelectionType
  /\ \A a, s \in SUBSET Assets, v \in BOOLEAN :
       /\ Docs(a, s, v) \in DocsType
       /\ Docs(a, s, v).assets = a /\ Docs(a, s, v).subsets = s
  /\ NoSelection.assets = {}
  /\ \A a \in SUBSET Assets, r \in Assets \cup {NoAsset} :
       /\ Selection(a, r) \in SelectionType
       /\ Selection(a, r).assets = a /\ Selection(a, r).row = r
  BY DEF None, NoSelection, Docs, Selection, DocsType, SelectionType

\* The parts of a fetch and of a stored selection, and a fetch of which one
\* part is replaced.
LEMMA Parts ==
  /\ \A d \in DocsType : d.assets \in SUBSET Assets /\ d.subsets \in SUBSET Assets
                         /\ d.versioned \in BOOLEAN
  /\ \A c \in SelectionType : c.assets \in SUBSET Assets /\ c.row \in Assets \cup {NoAsset}
  /\ \A d \in DocsType, a \in SUBSET Assets :
       /\ [d EXCEPT !.subsets = a] \in DocsType
       /\ [d EXCEPT !.subsets = a].assets = d.assets
       /\ [d EXCEPT !.subsets = a].subsets = a
  /\ \A d \in DocsType, v \in BOOLEAN :
       /\ [d EXCEPT !.versioned = v] \in DocsType
       /\ [d EXCEPT !.versioned = v].assets = d.assets
       /\ [d EXCEPT !.versioned = v].subsets = d.subsets
  BY DEF DocsType, SelectionType

\* The part of TypeOK that is about flags.
FlagTypes ==
  /\ dialog \in BOOLEAN /\ refreshing \in BOOLEAN /\ pressed \in BOOLEAN
  /\ loading \in BOOLEAN /\ empty \in BOOLEAN /\ listening \in BOOLEAN
  /\ loading => listening
  /\ stop \in BOOLEAN /\ dropped \in BOOLEAN /\ broken \in BOOLEAN

\* What set_grouping and on_doc_fetched do to the list of subsets keeps the
\* types, and turns the spinner off whenever it lets the listeners go.
FillRowsType ==
  /\ rows' \in DocsType /\ broken' \in BOOLEAN
  /\ loading' \in BOOLEAN /\ empty' \in BOOLEAN /\ listening' \in BOOLEAN
  /\ loading' => listening'

\* Rows made of a payload have their type.
LEMMA FillRowsTypes ==
  ASSUME TypeOK, FillRows
  PROVE  FillRowsType
<1> USE DEF TypeOK, FillRowsType
<1>1. CASE payload = None \/ assetIds = {}
  BY <1>1, Constructors DEF FillRows, Refreshed
<1>2. CASE ~(payload = None \/ assetIds = {})
  <2>1. rows' \in DocsType
    BY <1>2 DEF FillRows
  <2>2. CASE payload.versioned
    BY <1>2, <2>1, <2>2 DEF FillRows, Refreshed
  <2>3. CASE ~payload.versioned
    BY <1>2, <2>1, <2>3 DEF FillRows
  <2>4. QED
    BY <2>2, <2>3
<1>3. QED
  BY <1>1, <1>2

\* The types hold at first.
LEMMA WindowInitTypes == Init => TypeOK
<1> SUFFICES ASSUME Init
             PROVE  TypeOK
  OBVIOUS
<1>1. /\ rows \in DocsType /\ payload \in DocsType /\ fetched \in DocsType
      /\ stored \in SelectionType /\ stored.assets = {}
  BY Constructors DEF Init
<1>2. /\ refreshing \in BOOLEAN /\ pressed \in BOOLEAN /\ loading \in BOOLEAN
      /\ empty \in BOOLEAN /\ listening \in BOOLEAN /\ dialog \in BOOLEAN
      /\ stop \in BOOLEAN /\ dropped \in BOOLEAN /\ broken \in BOOLEAN /\ loading = FALSE
  BY DEF Init
<1>3. /\ selected \in SUBSET Assets /\ marked \in SUBSET Assets
      /\ assetIds \in SUBSET Assets /\ current \in Assets \cup {NoAsset} /\ selected = {}
  BY DEF Init
<1>4. /\ pc \in {"idle", "stop", "wait"} /\ signals \in Nat /\ acts \in Nat
      /\ job \in {"none", "refresh", "assets", "subsets", "versions"}
      /\ tpc \in {"off", "assets", "subsets", "versions", "store", "sync", "emit", "end"}
  BY DEF Init
<1>5. QED
  BY <1>1, <1>2, <1>3, <1>4 DEF TypeOK

\* Every step of the window keeps them.
LEMMA WindowTypes == TypeOK /\ [Next]_vars => TypeOK'
<1> USE DEF listVars, viewVars, modelVars, threadVars, pastVars
<1> SUFFICES ASSUME TypeOK, [Next]_vars
             PROVE  TypeOK'
  OBVIOUS
<1> USE DEF TypeOK
<1>1. CASE SelectAssets
  BY <1>1, ContextAssumption DEF SelectAssets, Act, ActHere, Schedule
<1>2. CASE ReleaseMouse
  <2>1. dropped' \in BOOLEAN /\ job' \in {"none", "refresh", "assets", "subsets", "versions"}
    BY <1>2 DEF ReleaseMouse, Schedule
  <2>2. /\ marked' \in SUBSET Assets /\ pressed' \in BOOLEAN
        /\ UNCHANGED <<selected, current, refreshing, stored, pc>>
        /\ UNCHANGED <<rows, loading, empty, listening, dialog>>
    BY <1>2 DEF ReleaseMouse
  <2>3. UNCHANGED <<assetIds, stop, payload, signals, tpc, fetched, acts, broken>>
    BY <1>2 DEF ReleaseMouse
  <2>4. QED
    BY <2>1, <2>2, <2>3
<1>3. CASE MarkSubsets
  <2>1. marked' \in SUBSET Assets
    BY <1>3, Parts DEF MarkSubsets
  <2>2. dropped' \in BOOLEAN /\ job' \in {"none", "refresh", "assets", "subsets", "versions"}
    BY <1>3 DEF MarkSubsets, Schedule
  <2>3. QED
    BY <1>3, <2>1, <2>2 DEF MarkSubsets, Act, ActHere
<1>4. CASE ToggleGrouping
  <2>1. FillRowsType
    BY <1>4, FillRowsTypes DEF ToggleGrouping
  <2>2. marked' \in SUBSET Assets
    BY <1>4 DEF ToggleGrouping
  <2>3. dropped' \in BOOLEAN /\ job' \in {"none", "refresh", "assets", "subsets", "versions"}
    BY <1>4 DEF ToggleGrouping, Schedule
  <2>4. QED
    BY <1>4, <2>1, <2>2, <2>3 DEF ToggleGrouping, Act, ActHere, FillRowsType
<1>5. CASE OpenGrouping
  BY <1>5 DEF OpenGrouping, Act, ActHere
<1>6. CASE CloseGrouping
  <2>1. CASE AssetsChanged /\ UNCHANGED <<job, acts>>
    <3>1. FlagTypes'
      BY <1>6, <2>1 DEF CloseGrouping, AssetsChanged, FlagTypes
    <3>2. QED
      BY <1>6, <2>1, <3>1, Constructors DEF AssetsChanged, FlagTypes
  <2>2. CASE UNCHANGED <<listVars, job, pc, marked, rows, loading, empty, listening,
                         modelVars, threadVars, pastVars>>
    <3>1. FlagTypes'
      BY <1>6, <2>2 DEF CloseGrouping, FlagTypes
    <3>2. QED
      BY <2>2, <3>1 DEF FlagTypes
  <2>3. QED
    BY <1>6, <2>1, <2>2 DEF CloseGrouping
<1>7. CASE ShowWindow
  BY <1>7 DEF ShowWindow, Act, Schedule
<1>8. CASE OtherTool
  BY <1>8 DEF OtherTool, Act, Schedule
<1>9. CASE RefreshButton
  <2>1. /\ stored' \in SelectionType
        /\ stored'.row = NoAsset => stored'.assets = {}
    BY <1>9, Constructors DEF RefreshButton, RefreshAssets
  <2>2. dropped' \in BOOLEAN /\ job' \in {"none", "refresh", "assets", "subsets", "versions"}
    BY <1>9 DEF RefreshButton, RefreshAssets, Schedule
  <2>3. FlagTypes'
    BY <1>9, <2>2 DEF RefreshButton, RefreshAssets, FlagTypes
  <2>4. QED
    BY <1>9, <2>1, <2>2, <2>3 DEF RefreshButton, Act, ActHere, RefreshAssets, FlagTypes
<1>10. CASE RefreshJob
  BY <1>10, Constructors DEF RefreshJob, RefreshAssets, Schedule
<1>11. CASE AssetsRefreshed
  <2>1. dropped' \in BOOLEAN /\ job' \in {"none", "refresh", "assets", "subsets", "versions"}
    BY <1>11 DEF AssetsRefreshed, Schedule
  <2>2. stored' \in SelectionType /\ stored'.assets = {}
    BY <1>11, Constructors DEF AssetsRefreshed
  <2>3. /\ selected' \in SUBSET Assets /\ current' \in Assets \cup {NoAsset}
        /\ current' = NoAsset => selected' = {}
    <3>1. CASE stored.row # NoAsset /\ stored.assets = {}
      BY <1>11, <3>1 DEF AssetsRefreshed
    <3>2. CASE stored = NoSelection
      BY <1>11, <3>2, ContextAssumption DEF AssetsRefreshed, NoSelection, Selection
    <3>3. CASE stored # NoSelection /\ ~(stored.row # NoAsset /\ stored.assets = {})
      <4>1. current' = stored.row /\ selected' = stored.assets \cup {stored.row}
        BY <1>11, <3>3 DEF AssetsRefreshed
      <4>2. stored.row \in Assets
        <5>1. stored.row = NoAsset => stored = NoSelection
          BY DEF NoSelection, Selection, SelectionType
        <5>2. QED
          BY <3>3, <5>1, Parts
      <4>3. QED
        BY <4>1, <4>2, Parts, ContextAssumption
    <3>4. QED
      BY <3>1, <3>2, <3>3
  <2>4. QED
    BY <1>11, <2>1, <2>2, <2>3 DEF AssetsRefreshed
<1>12. CASE SubsetsJob
  BY <1>12 DEF SubsetsJob
<1>13. CASE AssetsJob
  BY <1>13, Constructors DEF AssetsJob, AssetsChanged
<1>14. CASE StopFetch
  BY <1>14 DEF StopFetch
<1>15. CASE StartFetch
  <2>1. FlagTypes'
    BY <1>15 DEF StartFetch, FlagTypes
  <2>2. QED
    BY <1>15, <2>1, Constructors DEF StartFetch, FlagTypes
<1>16. CASE OnDocFetched
  <2>1. FillRowsType
    BY <1>16, FillRowsTypes DEF OnDocFetched
  <2>2. QED
    BY <1>16, <2>1 DEF OnDocFetched, FillRowsType
<1>17. CASE FetchAssets
  <2>1. fetched' \in DocsType
    BY <1>17, Constructors DEF FetchAssets
  <2>2. FlagTypes'
    BY <1>17 DEF FetchAssets, FlagTypes
  <2>3. QED
    BY <1>17, <2>1, <2>2 DEF FetchAssets, FlagTypes
<1>18. CASE FetchSubsets
  BY <1>18, Parts DEF FetchSubsets
<1>19. CASE StopEarly
  BY <1>19, Constructors DEF StopEarly
<1>20. CASE FetchVersions
  BY <1>20, Parts DEF FetchVersions
<1>21. CASE StorePayload
  BY <1>21, Constructors, SyncAssumption DEF StorePayload
<1>22. CASE FetchAvailability
  BY <1>22 DEF FetchAvailability
<1>23. CASE EmitFetched
  BY <1>23 DEF EmitFetched
<1>24. CASE EndThread
  BY <1>24 DEF EndThread
<1>25. CASE UNCHANGED vars
  BY <1>25 DEF vars
<1>26. QED
  BY <1>1, <1>2, <1>3, <1>4, <1>5, <1>6, <1>7, <1>8, <1>9, <1>10, <1>11, <1>12,
     <1>13, <1>14, <1>15, <1>16, <1>17, <1>18, <1>19, <1>20, <1>21, <1>22, <1>23,
     <1>24, <1>25
     DEF Next, UserStep, MainStep, JobStep, ThreadStep

\* Every variable has its type in every reachable state, and whoever turns the
\* spinner on is connected to turn it off.
THEOREM TypeCorrect == Spec => []TypeOK
  BY WindowInitTypes, WindowTypes, PTL DEF Spec

-----------------------------------------------------------------------------
\* Documents that are of the asset ids, or none.
OfIds(d) == d = None \/ (d.assets = assetIds /\ d.subsets = assetIds)

\* Outside set_assets the payload, and what the thread has fetched so far, are
\* of the ids; while the ids change there are no rows, and the thread's end is
\* awaited before another reads them.
FetchInv ==
  /\ pc = "idle" => OfIds(rows)
  /\ pc # "idle" => rows = None
  /\ pc = "idle" /\ assetIds # {} => OfIds(payload)
  /\ pc = "idle" /\ tpc \in {"subsets", "versions", "store"} => fetched.assets = assetIds
  /\ pc = "idle" /\ tpc \in {"versions", "store"} => fetched.subsets = assetIds

\* Every step of the window keeps it.
LEMMA FetchStep == TypeOK /\ FetchInv /\ [Next]_vars => FetchInv'
<1> USE DEF listVars, viewVars, modelVars, threadVars, pastVars
<1> SUFFICES ASSUME TypeOK, FetchInv, [Next]_vars
             PROVE  FetchInv'
  OBVIOUS
<1> USE DEF FetchInv, OfIds
<1>1. CASE SelectAssets
  BY <1>1, ContextAssumption DEF SelectAssets, Act, ActHere, Schedule
<1>2. CASE ReleaseMouse
  BY <1>2 DEF ReleaseMouse, Schedule
<1>3. CASE MarkSubsets
  BY <1>3 DEF MarkSubsets, Act, ActHere, Schedule
<1>4. CASE ToggleGrouping
  BY <1>4 DEF ToggleGrouping, Act, ActHere, Schedule, FillRows, Refreshed
<1>5. CASE OpenGrouping
  BY <1>5 DEF OpenGrouping, Act, ActHere
<1>6. CASE CloseGrouping
  BY <1>6 DEF CloseGrouping, AssetsChanged
<1>7. CASE ShowWindow
  BY <1>7 DEF ShowWindow, Act, Schedule
<1>8. CASE OtherTool
  BY <1>8 DEF OtherTool, Act, Schedule
<1>9. CASE RefreshButton
  BY <1>9 DEF RefreshButton, Act, ActHere, RefreshAssets, Schedule
<1>10. CASE RefreshJob
  BY <1>10 DEF RefreshJob, RefreshAssets, Schedule
<1>11. CASE AssetsRefreshed
  BY <1>11 DEF AssetsRefreshed, Schedule
<1>12. CASE SubsetsJob
  BY <1>12 DEF SubsetsJob
<1>13. CASE AssetsJob
  BY <1>13 DEF AssetsJob, AssetsChanged
<1>14. CASE StopFetch
  BY <1>14 DEF StopFetch
<1>15. CASE StartFetch
  BY <1>15 DEF StartFetch
<1>16. CASE OnDocFetched
  BY <1>16 DEF OnDocFetched, FillRows, Refreshed
<1>17. CASE FetchAssets
  BY <1>17, Constructors DEF FetchAssets, TypeOK
<1>18. CASE FetchSubsets
  BY <1>18, Parts DEF FetchSubsets, TypeOK
<1>19. CASE StopEarly
  BY <1>19 DEF StopEarly
<1>20. CASE FetchVersions
  BY <1>20, Parts DEF FetchVersions, TypeOK
<1>21. CASE StorePayload
  BY <1>21 DEF StorePayload
<1>22. CASE FetchAvailability
  BY <1>22 DEF FetchAvailability
<1>23. CASE EmitFetched
  BY <1>23 DEF EmitFetched
<1>24. CASE EndThread
  BY <1>24 DEF EndThread
<1>25. CASE UNCHANGED vars
  BY <1>25 DEF vars
<1>26. QED
  BY <1>1, <1>2, <1>3, <1>4, <1>5, <1>6, <1>7, <1>8, <1>9, <1>10, <1>11, <1>12,
     <1>13, <1>14, <1>15, <1>16, <1>17, <1>18, <1>19, <1>20, <1>21, <1>22, <1>23,
     <1>24, <1>25
     DEF Next, UserStep, MainStep, JobStep, ThreadStep

\* The rows are subsets of the assets the model was last set to, however often
\* a fetch is stopped and replaced by another.
THEOREM RowsCurrent == Spec => []RowsOfAssets
<1>1. Init => FetchInv
  BY DEF Init, FetchInv, OfIds
<1>2. FetchInv => RowsOfAssets
  BY DEF FetchInv, OfIds, RowsOfAssets
<1> QED
  BY <1>1, <1>2, FetchStep, TypeCorrect, PTL DEF Spec

-----------------------------------------------------------------------------
(* The picture.                                                            *)

\* The two parts of what ThumbnailWidget keeps, and the record of them.
PictureType == picture = [id |-> picture.id, shown |-> picture.shown]

PictureInv == PictureType /\ PictureMatches

\* What is remembered and shown may be replaced together, or the id alone.
LEMMA PictureParts ==
  ASSUME NEW i, NEW s, NEW j
  PROVE  /\ [id |-> i, shown |-> s].id = i
         /\ [id |-> i, shown |-> s].shown = s
         /\ [[id |-> i, shown |-> s] EXCEPT !.id = j] = [id |-> j, shown |-> s]
  OBVIOUS

\* set_thumbnail, whatever is shown: the default picture takes the id with it,
\* and without an id nothing is missing.
LEMMA ThumbnailStep ==
  ASSUME PictureInv, NEW entities, picture' = SetThumbnail(entities)
  PROVE  PictureInv'
<1> DEFINE s == picture.shown
<1>1. picture = [id |-> picture.id, shown |-> s]
  BY DEF PictureInv, PictureType
<1> DEFINE id == Thumbnail[CHOOSE e \in entities : TRUE]
<1>3. CASE Cardinality(entities) # 1
  <2>1. picture' = [id |-> NoId, shown |-> Default]
    BY <1>3 DEF SetThumbnail, SetPixmap
  <2> QED
    BY <2>1, PictureParts DEF PictureInv, PictureType, PictureMatches
<1>4. CASE Cardinality(entities) = 1 /\ id = picture.id
  <2>1. picture' = picture
    BY <1>4 DEF SetThumbnail
  <2> QED
    BY <2>1 DEF PictureInv, PictureType, PictureMatches
<1>5. CASE Cardinality(entities) = 1 /\ id # picture.id /\ Pictures[id] = "missing"
  <2>1. picture' = [picture EXCEPT !.id = id]
    BY <1>5 DEF SetThumbnail
  <2>2. picture' = [id |-> id, shown |-> s]
    BY <2>1, <1>1, PictureParts
  <2>3. id # NoId
    BY <1>5, PicturesAssumption
  <2> QED
    BY <2>2, <2>3, <1>5, PictureParts DEF PictureInv, PictureType, PictureMatches
<1>6. CASE Cardinality(entities) = 1 /\ id # picture.id /\ Pictures[id] # "missing"
  <2>1. picture' = SetPixmap(id, ThumbnailBinary(id))
    BY <1>6 DEF SetThumbnail
  <2>2. CASE Pictures[id] = "there"
    <3>1. id # NoId
      BY <2>2, PicturesAssumption
    <3>2. picture' = [id |-> IF id = Default THEN NoId ELSE id, shown |-> id]
      BY <2>1, <2>2 DEF SetPixmap, ThumbnailBinary
    <3> QED
      BY <3>1, <3>2, PictureParts DEF PictureInv, PictureType, PictureMatches
  <2>3. CASE Pictures[id] # "there"
    <3>1. picture' = [id |-> NoId, shown |-> Default]
      BY <2>1, <2>3 DEF SetPixmap, ThumbnailBinary
    <3> QED
      BY <3>1, PictureParts DEF PictureInv, PictureType, PictureMatches
  <2> QED
    BY <2>2, <2>3
<1> QED
  BY <1>3, <1>4, <1>5, <1>6

\* Only the two jobs of the window touch the picture.
LEMMA PictureStep == PictureInv /\ [DetailsNext]_allVars => PictureInv'
<1> SUFFICES ASSUME PictureInv, [DetailsNext]_allVars
             PROVE  PictureInv'
  OBVIOUS
<1>1. CASE FollowAssets
  BY <1>1, ThumbnailStep DEF FollowAssets, ResetDetails
<1>2. CASE FollowRows
  BY <1>2, ThumbnailStep DEF FollowRows, VersionsChanged
<1>3. CASE UNCHANGED picture
  BY <1>3 DEF PictureInv, PictureType, PictureMatches
<1>4. Select \/ Refresh \/ MarkRows \/ CloseDialog \/ ListReturns \/ ClearRows \/ BelowMenu
        => UNCHANGED picture
  BY DEF Select, Refresh, MarkRows, CloseDialog, ListReturns, ClearRows, BelowMenu, Aside,
         detailVars
<1>5. RefreshFamilies \/ LoseJob \/ ChangeVersion \/ FilterFamilies \/ Group \/ Fill
        \/ ChangeDatabase => UNCHANGED picture
  BY DEF RefreshFamilies, LoseJob, ChangeVersion, FilterFamilies, Group, Fill, Refill,
         ChangeDatabase, detailVars
<1>6. OpenRowMenu \/ ChooseForRows \/ OpenListMenu \/ ChooseForList \/ CloseMenu
        => UNCHANGED picture
  BY DEF OpenRowMenu, ChooseForRows, OpenListMenu, ChooseForList, CloseMenu, detailVars
<1>7. UNCHANGED allVars => UNCHANGED picture
  BY DEF allVars, detailVars
<1> QED
  BY <1>1, <1>2, <1>3, <1>4, <1>5, <1>6, <1>7 DEF DetailsNext

\* The picture beside the list is that of the id it is remembered by, whatever
\* was selected in between (ThumbnailWidget).
THEOREM PictureAgrees == DetailsSpec => []PictureMatches
<1>1. Start => PictureInv
  BY DEF Start, PictureStart, PictureInv, PictureType, PictureMatches
<1>2. PictureInv => PictureMatches
  BY DEF PictureInv
<1> QED
  BY <1>1, <1>2, PictureStep, PTL DEF DetailsSpec

-----------------------------------------------------------------------------
(* The menu of several subsets.                                            *)

\* What a menu of rows offers is there for each row: under the same letters,
\* and then for the same loader, or under others.
Served(o, i) ==
  \E d \in repres :
    /\ VersionOf(d) = i /\ Lower[d[3]] = Lower[o.name]
    /\ d[3] = o.name => Compatible(o.loader, d)

OffersServed == \A o \in menu.offers, i \in menu.items : Served(o, i)

\* As long as nobody changed the database since it opened.
MenuServes == menu.kind = "rows" /\ menu.steady => OffersServed

MenuType ==
  menu = [kind |-> menu.kind, items |-> menu.items, offers |-> menu.offers, steady |-> menu.steady]

RepresType == repres \subseteq Assets \X Versions \X Names

MenuInv == RepresType /\ MenuType /\ MenuServes /\ ChosenLoadsAll

\* Fields of the records that menus and loads are made of.
LEMMA MenuFields ==
  ASSUME NEW kind, NEW items, NEW offers, NEW steady, NEW other
  PROVE  LET m == [kind |-> kind, items |-> items, offers |-> offers, steady |-> steady] IN
         /\ m.kind = kind /\ m.items = items /\ m.offers = offers /\ m.steady = steady
         /\ [m EXCEPT !.steady = other]
              = [kind |-> kind, items |-> items, offers |-> offers, steady |-> other]
  OBVIOUS

\* The combinations offered: of one row those of its representations, of several
\* those that each has in lower case.
LEMMA OffersOfRows ==
  ASSUME RepresType, NEW items, NEW first \in items, NEW o \in Offers(items, first), NEW i \in items
  PROVE  Served(o, i)
<1>1. ASSUME o \in Combos(i)
      PROVE  Served(o, i)
  BY <1>1 DEF Combos, Served
<1>2. CASE items = {first}
  BY <1>1, <1>2 DEF Offers
<1>3. CASE items # {first}
  <2>1. o \in LowerCombos(i)
    BY <1>3 DEF Offers
  <2>2. PICK c \in Combos(i) : o = Offer(Lower[c.name], c.loader)
    BY <2>1 DEF LowerCombos
  <2>3. o.name = Lower[c.name] /\ o.loader = c.loader
    BY <2>2 DEF Offer
  <2>4. PICK d \in repres : VersionOf(d) = i /\ d[3] = c.name /\ Compatible(c.loader, d)
    BY <2>2 DEF Combos
  <2>5. c.name \in Names
    BY <2>2 DEF Combos
  <2>6. Lower[d[3]] = Lower[o.name]
    BY <2>3, <2>4, <2>5, NamesAssumption
  <2> QED
    BY <2>3, <2>4, <2>6 DEF Served
<1> QED
  BY <1>2, <1>3

\* Of a served offer the representation of that very name is loaded, or there
\* is only one in other letters.
LEMMA ServedIsLoaded ==
  ASSUME RepresType, NEW o, NEW items, NEW i \in items, Served(o, i),
         NEW docs, docs = {d \in Contexts({d \in repres : VersionOf(d) \in items /\ d[3] = o.name}) :
                             Compatible(o.loader, d)}
  PROVE  \/ <<i[1], i[2], o.name>> \in docs
         \/ \E d \in repres : VersionOf(d) = i /\ d[3] # o.name /\ Lower[d[3]] = Lower[o.name]
<1>1. PICK d \in repres : /\ VersionOf(d) = i /\ Lower[d[3]] = Lower[o.name]
                          /\ d[3] = o.name => Compatible(o.loader, d)
  BY DEF Served
<1>2. CASE d[3] # o.name
  BY <1>1, <1>2
<1>3. CASE d[3] = o.name
  <2>1. d \in docs
    BY <1>1, <1>3 DEF Contexts
  <2>2. d \in Assets \X Versions \X Names
    BY DEF RepresType
  <2>3. d = <<d[1], d[2], d[3]>>
    BY <2>2
  <2>4. i[1] = d[1] /\ i[2] = d[2]
    BY <1>1 DEF VersionOf
  <2> QED
    BY <2>1, <2>3, <2>4, <1>3
<1> QED
  BY <1>2, <1>3

\* A step that loads nothing and leaves the menu and the database alone.
LEMMA MenuKept ==
  ASSUME MenuInv, UNCHANGED <<menu, repres>>, loaded' = Nothing \/ UNCHANGED loaded
  PROVE  MenuInv'
<1>1. RepresType' /\ MenuType' /\ MenuServes'
  BY DEF MenuInv, RepresType, MenuType, MenuServes, OffersServed, Served
<1>2. CASE loaded' = Nothing
  BY <1>1, <1>2 DEF MenuInv, ChosenLoadsAll, Nothing
<1>3. CASE UNCHANGED loaded
  BY <1>1, <1>3 DEF MenuInv, ChosenLoadsAll
<1> QED
  BY <1>2, <1>3

\* A step that closes the menu or opens the other one, and loads nothing.
LEMMA MenuReplaced ==
  ASSUME MenuInv, UNCHANGED repres, loaded' = Nothing,
         NEW items, NEW offers,
         menu' \in {Closed, Menu("list", items, offers)}
  PROVE  MenuInv'
<1>1. menu'.kind # "rows" /\ MenuType'
  BY DEF Closed, Menu, MenuType
<1>2. ChosenLoadsAll'
  BY DEF ChosenLoadsAll, Nothing
<1> QED
  BY <1>1, <1>2 DEF MenuInv, RepresType, MenuServes

\* A menu that opens offers what was marked.
LEMMA OpenRowMenuStep == MenuInv /\ OpenRowMenu => MenuInv'
<1> SUFFICES ASSUME MenuInv, OpenRowMenu
             PROVE  MenuInv'
  OBVIOUS
<1>1. PICK first \in Shown(marked) :
        menu' = Menu("rows", Shown(marked), Offers(Shown(marked), first))
  BY DEF OpenRowMenu
<1>2. menu'.items = Shown(marked) /\ menu'.offers = Offers(Shown(marked), first) /\ MenuType'
  BY <1>1 DEF Menu, MenuType
<1>3. repres' = repres
  BY DEF OpenRowMenu
<1>4. \A o \in menu'.offers, i \in menu'.items : Served(o, i)
  BY <1>2, OffersOfRows DEF MenuInv
<1>5. OffersServed'
  BY <1>3, <1>4 DEF OffersServed, Served
<1>6. ChosenLoadsAll'
  BY DEF OpenRowMenu, ChosenLoadsAll, Nothing
<1> QED
  BY <1>2, <1>3, <1>5, <1>6 DEF MenuInv, MenuServes, RepresType

\* Choosing in a menu loads what it offered.
LEMMA ChooseForRowsStep == MenuInv /\ ChooseForRows => MenuInv'
<1> SUFFICES ASSUME MenuInv, ChooseForRows
             PROVE  MenuInv'
  OBVIOUS
<1>1. PICK o \in menu.offers :
        LoadAll(o, {d \in repres : VersionOf(d) \in menu.items /\ d[3] = o.name})
  BY DEF ChooseForRows
<1> DEFINE docs == {d \in Contexts({d \in repres : VersionOf(d) \in menu.items /\ d[3] = o.name}) :
                      Compatible(o.loader, d)}
<1>2. /\ loaded'.items = menu.items /\ loaded'.steady = menu.steady
      /\ loaded'.offer = o /\ loaded'.docs = docs
  BY <1>1 DEF LoadAll
<1>3. repres' = repres /\ menu' = Closed /\ menu.kind = "rows"
  BY DEF ChooseForRows
<1>4. ASSUME menu.steady, NEW i \in menu.items
      PROVE  \/ <<i[1], i[2], o.name>> \in docs
             \/ \E d \in repres : VersionOf(d) = i /\ d[3] # o.name /\ Lower[d[3]] = Lower[o.name]
  <2>1. Served(o, i)
    BY <1>3, <1>4 DEF MenuInv, MenuServes, OffersServed
  <2> HIDE DEF docs
  <2>2. docs = {d \in Contexts({d \in repres : VersionOf(d) \in menu.items /\ d[3] = o.name}) :
                  Compatible(o.loader, d)}
    BY DEF docs
  <2> QED
    BY <2>1, <2>2, <1>4, ServedIsLoaded DEF MenuInv
<1>5. ChosenLoadsAll'
  <2> HIDE DEF docs
  <2> QED
    BY <1>2, <1>3, <1>4 DEF ChosenLoadsAll
<1>6. menu'.kind # "rows" /\ MenuType'
  BY <1>3 DEF Closed, MenuType
<1> QED
  BY <1>3, <1>5, <1>6 DEF MenuInv, RepresType, MenuServes

\* Representations that others publish or remove end the claim, not the invariant.
LEMMA ChangeDatabaseStep == MenuInv /\ ChangeDatabase => MenuInv'
<1> SUFFICES ASSUME MenuInv, ChangeDatabase
             PROVE  MenuInv'
  OBVIOUS
<1>1. RepresType'
  BY PublishedAssumption DEF MenuInv, ChangeDatabase, RepresType
<1>2. menu' = [kind |-> menu.kind, items |-> menu.items, offers |-> menu.offers,
               steady |-> menu = Closed]
  BY MenuFields DEF MenuInv, MenuType, ChangeDatabase
<1>3. MenuType' /\ menu'.kind = menu.kind /\ menu'.steady = (menu = Closed)
  BY <1>2, MenuFields DEF MenuType
<1>4. MenuServes'
  <2>1. menu = Closed => menu'.kind # "rows"
    BY <1>3 DEF Closed
  <2>2. menu # Closed => ~menu'.steady
    BY <1>3
  <2> QED
    BY <2>1, <2>2 DEF MenuServes
<1>5. ChosenLoadsAll'
  BY DEF ChangeDatabase, ChosenLoadsAll, Nothing
<1> QED
  BY <1>1, <1>3, <1>4, <1>5 DEF MenuInv

\* Every step keeps the invariant of the menus.
LEMMA MenuStep == MenuInv /\ [DetailsNext]_allVars => MenuInv'
<1> SUFFICES ASSUME MenuInv, [DetailsNext]_allVars
             PROVE  MenuInv'
  OBVIOUS
<1>1. CASE Select \/ Refresh \/ MarkRows \/ CloseDialog \/ ListReturns \/ ClearRows \/ BelowMenu
  BY <1>1, MenuKept DEF Select, Refresh, MarkRows, CloseDialog, ListReturns, ClearRows,
                        BelowMenu, Aside
<1>2. CASE RefreshFamilies \/ LoseJob \/ ChangeVersion \/ FilterFamilies \/ Group \/ Fill
             \/ FollowAssets \/ FollowRows
  BY <1>2, MenuKept DEF RefreshFamilies, LoseJob, ChangeVersion, FilterFamilies, Group, Fill,
                        Refill, FollowAssets, FollowRows
<1>3. CASE ChooseForList \/ CloseMenu
  BY <1>3, MenuReplaced DEF ChooseForList, CloseMenu
<1>4. CASE OpenListMenu
  <2>1. \E items, offers : menu' = Menu("list", items, offers)
    BY <1>4 DEF OpenListMenu
  <2> QED
    BY <1>4, <2>1, MenuReplaced DEF OpenListMenu
<1>5. CASE UNCHANGED allVars
  BY <1>5, MenuKept DEF allVars
<1> QED
  BY <1>1, <1>2, <1>3, <1>4, <1>5, OpenRowMenuStep, ChooseForRowsStep, ChangeDatabaseStep
     DEF DetailsNext

\* What the menu of several subsets offers is loaded for each of them: what is
\* true of the database when the menu opens is still true when the user chooses.
THEOREM ChosenIsLoaded == DetailsSpec => []ChosenLoadsAll
<1>1. Start => MenuInv
  <2> SUFFICES ASSUME Start
               PROVE  MenuInv
    OBVIOUS
  <2>1. menu = Closed /\ loaded = Nothing /\ repres = Published
    BY DEF Start
  <2>2. RepresType
    BY <2>1, PublishedAssumption DEF RepresType
  <2>3. MenuType /\ MenuServes
    BY <2>1 DEF MenuType, MenuServes, Closed
  <2>4. ChosenLoadsAll
    BY <2>1 DEF ChosenLoadsAll, Nothing
  <2> QED
    BY <2>2, <2>3, <2>4 DEF MenuInv
<1>2. MenuInv => ChosenLoadsAll
  BY DEF MenuInv
<1> QED
  BY <1>1, <1>2, MenuStep, PTL DEF DetailsSpec

-----------------------------------------------------------------------------
(***************************************************************************)
(* The window at rest.  Unless a job gave way, the ids are those of the    *)
(* selection or the job that will set them is there; a fetch that was not  *)
(* stopped brings documents, and the signal that shows them.               *)
(***************************************************************************)
ShowInv ==
  /\ dropped \/ job \in {"assets", "refresh"} \/ assetIds = selected
  /\ assetIds = {} => rows = None
  /\ pc = "idle" /\ assetIds # {} =>
       /\ ~stop
       /\ tpc \in {"sync", "emit", "end", "off"} => payload # None
       /\ tpc \in {"end", "off"} => signals > 0 \/ rows # None

WindowInv == TypeOK /\ FetchInv /\ ShowInv

\* Every step of the window keeps it.
LEMMA ShowStep == WindowInv /\ [Next]_vars => ShowInv'
<1> SUFFICES ASSUME TypeOK, FetchInv, ShowInv, [Next]_vars
             PROVE  ShowInv'
  BY DEF WindowInv
<1> USE DEF ShowInv, listVars, viewVars, modelVars, threadVars, pastVars
<1>0. /\ signals \in Nat /\ stop \in BOOLEAN /\ dropped \in BOOLEAN /\ payload \in DocsType
      /\ fetched \in DocsType /\ None.assets = {}
  BY Parts DEF TypeOK, None, Docs
<1>1. CASE SelectAssets
  BY <1>1 DEF SelectAssets, Act, ActHere, Schedule
<1>2. CASE ReleaseMouse
  BY <1>2 DEF ReleaseMouse, Schedule
<1>3. CASE MarkSubsets
  BY <1>3 DEF MarkSubsets, Act, ActHere, Schedule
<1>4. CASE ToggleGrouping
  BY <1>4 DEF ToggleGrouping, Act, ActHere, Schedule, FillRows
<1>5. CASE OpenGrouping \/ ShowWindow \/ OtherTool
  <2>1. CASE OpenGrouping
    BY <2>1 DEF OpenGrouping
  <2>2. CASE ShowWindow
    BY <2>2 DEF ShowWindow, Act, Schedule
  <2>3. CASE OtherTool
    BY <2>3 DEF OtherTool, Act, Schedule
  <2> QED
    BY <1>5, <2>1, <2>2, <2>3
<1>6. CASE CloseGrouping
  BY <1>6 DEF CloseGrouping, AssetsChanged
<1>7. CASE RefreshButton
  BY <1>7 DEF RefreshButton, Act, ActHere, RefreshAssets, Schedule
<1>8. CASE RefreshJob
  BY <1>8 DEF RefreshJob, RefreshAssets, Schedule
<1>9. CASE AssetsRefreshed
  BY <1>9 DEF AssetsRefreshed, Schedule
<1>10. CASE SubsetsJob
  BY <1>10 DEF SubsetsJob
<1>11. CASE AssetsJob
  BY <1>11 DEF AssetsJob, AssetsChanged
<1>12. CASE StopFetch
  BY <1>12 DEF StopFetch
<1>13. CASE StartFetch
  BY <1>13 DEF StartFetch
<1>14. CASE OnDocFetched
  BY <1>0, <1>14 DEF OnDocFetched, FillRows
<1>15. CASE FetchAssets \/ FetchSubsets \/ StopEarly \/ FetchVersions \/ FetchAvailability
  <2>1. CASE FetchAssets
    BY <2>1 DEF FetchAssets
  <2>2. CASE FetchSubsets
    BY <2>2 DEF FetchSubsets
  <2>3. CASE StopEarly
    BY <2>3 DEF StopEarly
  <2>4. CASE FetchVersions
    BY <2>4 DEF FetchVersions
  <2>5. CASE FetchAvailability
    BY <2>5 DEF FetchAvailability
  <2> QED
    BY <1>15, <2>1, <2>2, <2>3, <2>4, <2>5
<1>16. CASE StorePayload
  BY <1>0, <1>16 DEF StorePayload, FetchInv
<1>17. CASE EmitFetched
  BY <1>0, <1>17 DEF EmitFetched
<1>18. CASE EndThread
  BY <1>18 DEF EndThread
<1>19. CASE UNCHANGED vars
  BY <1>19 DEF vars
<1> QED
  BY <1>1, <1>2, <1>3, <1>4, <1>5, <1>6, <1>7, <1>8, <1>9, <1>10, <1>11, <1>12,
     <1>13, <1>14, <1>15, <1>16, <1>17, <1>18, <1>19
     DEF Next, UserStep, MainStep, JobStep, ThreadStep

\* The window's invariants hold at first.
LEMMA WindowInit == Init => WindowInv
<1>1. Init => FetchInv /\ ShowInv
  BY DEF Init, FetchInv, OfIds, ShowInv
<1> QED
  BY <1>1, WindowInitTypes DEF WindowInv

\* What the invariants say of a window at rest.
LEMMA WindowAtRest == WindowInv => RowsOfAssets /\ RestShowsSelection
<1> SUFFICES ASSUME WindowInv
             PROVE  RowsOfAssets /\ RestShowsSelection
  OBVIOUS
<1>1. RowsOfAssets
  BY DEF WindowInv, FetchInv, OfIds, RowsOfAssets
<1>2. RestShowsSelection
  BY DEF WindowInv, ShowInv, RestShowsSelection, AtRest, TypeOK
<1> QED
  BY <1>1, <1>2

\* When all is done and no job of the selection gave way to another kind of
\* job, the rows are those of the selected assets: no stopped fetch, no late
\* signal and no refreshed list of assets leaves the window behind.
THEOREM RestIsShown == Spec => []RestShowsSelection
<1>1. WindowInv /\ [Next]_vars => WindowInv'
  BY WindowTypes, FetchStep, ShowStep DEF WindowInv
<1> QED
  BY <1>1, WindowInit, WindowAtRest, PTL DEF Spec

-----------------------------------------------------------------------------
(***************************************************************************)
(* The window below the details, where a filter hides rows and others      *)
(* change the database meanwhile.                                          *)
(***************************************************************************)
\* The filter deselects what it hides.
HideRows ==
  /\ ActHere
  /\ marked' \in SUBSET marked
  /\ IF marked' # marked THEN Schedule("subsets") ELSE UNCHANGED <<job, dropped>>
  /\ UNCHANGED <<listVars, pc, rows, loading, empty, listening, dialog, modelVars,
                 threadVars, broken>>

Elsewhere ==
  /\ acts' = acts + 1
  /\ UNCHANGED <<listVars, job, pc, viewVars, modelVars, threadVars, dropped, broken>>

\* Every step of the details is one of the window, but for those two.
LEMMA WindowOfDetails == [DetailsNext]_allVars => [Next]_vars \/ HideRows \/ Elsewhere
<1> SUFFICES ASSUME [DetailsNext]_allVars
             PROVE  [Next]_vars \/ HideRows \/ Elsewhere
  OBVIOUS
<1>1. Select \/ Refresh \/ RefreshFamilies \/ LoseJob \/ MarkRows \/ ChangeVersion \/ Group => UserStep \/ RefreshJob
  BY DEF Select, Refresh, RefreshFamilies, LoseJob, MarkRows, ChangeVersion, Group, UserStep
<1>2. Fill \/ CloseDialog \/ ListReturns \/ ClearRows \/ BelowMenu \/ FollowAssets \/ FollowRows => Next
  BY DEF Fill, CloseDialog, ListReturns, ClearRows, BelowMenu, FollowAssets, FollowRows, Next, UserStep,
         MainStep, JobStep
<1>3. FilterFamilies => HideRows
  BY DEF FilterFamilies, HideRows
<1>4. ChangeDatabase => Elsewhere
  BY DEF ChangeDatabase, Elsewhere
<1>5. OpenRowMenu \/ ChooseForRows \/ OpenListMenu \/ ChooseForList \/ CloseMenu \/ UNCHANGED allVars
        => UNCHANGED vars
  BY DEF OpenRowMenu, ChooseForRows, OpenListMenu, ChooseForList, CloseMenu, allVars
<1> QED
  BY <1>1, <1>2, <1>3, <1>4, <1>5 DEF DetailsNext, Next, MainStep, JobStep

\* They keep the window's invariants, too.
LEMMA WindowStep == WindowInv /\ [DetailsNext]_allVars => WindowInv'
<1> SUFFICES ASSUME WindowInv, [DetailsNext]_allVars
             PROVE  WindowInv'
  OBVIOUS
<1> USE DEF listVars, viewVars, modelVars, threadVars, pastVars
<1>1. CASE [Next]_vars
  BY <1>1, WindowTypes, FetchStep, ShowStep DEF WindowInv
<1>2. CASE HideRows
  <2>1. TypeOK'
    <3>1. dropped' \in BOOLEAN /\ job' \in {"none", "refresh", "assets", "subsets", "versions"}
      BY <1>2 DEF HideRows, Schedule, WindowInv, TypeOK
    <3>2. acts' \in Nat /\ marked' \in SUBSET Assets
      BY <1>2 DEF HideRows, Act, ActHere, WindowInv, TypeOK
    <3> QED
      BY <1>2, <3>1, <3>2 DEF HideRows, WindowInv, TypeOK
  <2>2. FetchInv' /\ ShowInv'
    BY <1>2 DEF HideRows, Schedule, WindowInv, FetchInv, OfIds, ShowInv
  <2> QED
    BY <2>1, <2>2 DEF WindowInv
<1>3. CASE Elsewhere
  BY <1>3 DEF Elsewhere, WindowInv, TypeOK, FetchInv, OfIds, ShowInv
<1> QED
  BY <1>1, <1>2, <1>3, WindowOfDetails

\* The Loader with its filter, menus and details keeps what its window alone
\* does: the rows are those of the assets, at rest those selected.
THEOREM WindowKept == DetailsSpec => [](RowsOfAssets /\ RestShowsSelection)
<1>1. Start => WindowInv
  BY WindowInit DEF Start
<1> QED
  BY <1>1, WindowStep, WindowAtRest, PTL DEF DetailsSpec

-----------------------------------------------------------------------------
(***************************************************************************)
(* The details.  Whatever changes what they show schedules a job that      *)
(* shows it, or is remembered as stale; while the assets change no row is  *)
(* marked; and an id is remembered only for a picture that there may be.   *)
(***************************************************************************)
Entities == {<<a>> : a \in Assets} \cup Assets \X Versions

Marked == IF marked # {} THEN Shown(marked) ELSE AssetEntities

Follows ==
  /\ listed = Shown(marked)
  /\ text \in {NoVersion} \cup Shown(marked)
  /\ picture.id = Remembered(Marked)

PictureKnown == picture.id = NoId \/ Pictures[picture.id] # "empty"

FollowInv ==
  /\ pc # "idle" => marked = {}
  /\ shown \in [Assets -> Versions]
  /\ PictureKnown
  /\ stale \/ job # "none" \/ pc # "idle" \/ Follows

\* What is described and pictured are entities, finitely many.
LEMMA SomeEntities ==
  ASSUME TypeOK, shown \in [Assets -> Versions]
  PROVE  /\ Shown(marked) \subseteq Entities /\ IsFiniteSet(Shown(marked))
         /\ AssetEntities \subseteq Entities /\ IsFiniteSet(AssetEntities)
<1>1. marked \in SUBSET Assets /\ selected \in SUBSET Assets
  BY DEF TypeOK
<1>2. IsFiniteSet(marked) /\ IsFiniteSet(selected)
  BY <1>1, AssetsAssumption, FS_Subset
<1>3. IsFiniteSet(Shown(marked))
  <2> DEFINE f == [a \in marked |-> <<a, shown[a]>>]
  <2>1. f \in Surjection(marked, Shown(marked))
    BY DEF Surjection, Shown
  <2> QED
    BY <1>2, <2>1, FS_Surjection
<1>4. IsFiniteSet(AssetEntities)
  <2> DEFINE f == [a \in selected |-> <<a>>]
  <2>1. f \in Surjection(selected, AssetEntities)
    BY DEF Surjection, AssetEntities
  <2> QED
    BY <1>2, <2>1, FS_Surjection
<1> QED
  BY <1>1, <1>3, <1>4 DEF Shown, AssetEntities, Entities

\* The picture set for some entities is that of the only one.
LEMMA ThumbnailFollows ==
  ASSUME PictureInv, PictureKnown, NEW entities \in SUBSET Entities, IsFiniteSet(entities),
         picture' = SetThumbnail(entities)
  PROVE  picture'.id = Remembered(entities) /\ PictureKnown'
<1>1. picture = [id |-> picture.id, shown |-> picture.shown]
  BY DEF PictureInv, PictureType
<1>2. CASE Cardinality(entities) # 1
  <2>1. picture'.id = NoId
    BY <1>2 DEF SetThumbnail, SetPixmap
  <2> QED
    BY <1>2, <2>1 DEF Remembered, PictureKnown
<1>3. CASE Cardinality(entities) = 1
  <2>1. PICK e : entities = {e}
    BY <1>3, FS_Singleton
  <2> DEFINE id == Thumbnail[CHOOSE x \in entities : TRUE]
  <2>2. id = Thumbnail[e]
    BY <2>1
  <2>3. /\ id \in DOMAIN Pictures /\ id # Default
        /\ Pictures[id] \in {"there", "empty", "missing"}
    BY <2>1, <2>2, PicturesAssumption DEF Entities
  <2>4. Remembered(entities) = IF Pictures[id] # "empty" THEN id ELSE NoId
    <3>1. {Thumbnail[x] : x \in entities} = {id}
      BY <2>1, <2>2
    <3>2. (CHOOSE i \in {id} : TRUE) = id
      OBVIOUS
    <3> QED
      BY <1>3, <3>1, <3>2 DEF Remembered
  <2>5. /\ id = picture.id => picture' = picture
        /\ id # picture.id /\ Pictures[id] = "missing" => picture' = [picture EXCEPT !.id = id]
        /\ id # picture.id /\ Pictures[id] # "missing" => picture' = SetPixmap(id, ThumbnailBinary(id))
    <3>1. CASE id = picture.id
      BY <1>3, <3>1 DEF SetThumbnail
    <3>2. CASE id # picture.id /\ Pictures[id] = "missing"
      BY <1>3, <3>2 DEF SetThumbnail
    <3>3. CASE id # picture.id /\ Pictures[id] # "missing"
      BY <1>3, <3>3 DEF SetThumbnail
    <3> QED
      BY <3>1, <3>2, <3>3
  <2> HIDE DEF id
  <2>6. CASE id = picture.id
    BY <2>4, <2>5, <2>6, PicturesAssumption DEF PictureKnown
  <2>7. CASE id # picture.id /\ Pictures[id] = "missing"
    <3>1. picture'.id = id
      BY <1>1, <2>5, <2>7, PictureParts
    <3> QED
      BY <2>4, <2>7, <3>1 DEF PictureKnown
  <2>8. CASE id # picture.id /\ Pictures[id] = "there"
    <3>1. picture'.id = id
      BY <2>3, <2>5, <2>8 DEF SetPixmap, ThumbnailBinary
    <3> QED
      BY <2>4, <2>8, <3>1 DEF PictureKnown
  <2>9. CASE id # picture.id /\ Pictures[id] = "empty"
    <3>1. picture'.id = NoId
      BY <2>3, <2>5, <2>9 DEF SetPixmap, ThumbnailBinary
    <3> QED
      BY <2>4, <2>9, <3>1 DEF PictureKnown
  <2> QED
    BY <2>3, <2>6, <2>7, <2>8, <2>9
<1> QED
  BY <1>2, <1>3

DetailsInv == WindowInv /\ PictureInv /\ FollowInv

\* The two jobs that show the details.
LEMMA ShowDetails == DetailsInv /\ (FollowAssets \/ FollowRows) => FollowInv'
<1> SUFFICES ASSUME DetailsInv, FollowAssets \/ FollowRows
             PROVE  FollowInv'
  OBVIOUS
<1>1. TypeOK /\ PictureInv /\ PictureKnown /\ shown \in [Assets -> Versions]
  BY DEF DetailsInv, WindowInv, FollowInv
<1>2. /\ Shown(marked) \subseteq Entities /\ IsFiniteSet(Shown(marked))
      /\ AssetEntities \subseteq Entities /\ IsFiniteSet(AssetEntities)
  BY <1>1, SomeEntities
<1>3. UNCHANGED <<marked, selected, shown>> /\ pc' = "idle"
  BY DEF FollowAssets, FollowRows, StartFetch, SubsetsJob, listVars, viewVars, DetailsInv, FollowInv
<1>4. CASE FollowAssets
  <2>1. text' = NoVersion /\ picture' = SetThumbnail(AssetEntities) /\ listed' = {}
    BY <1>4 DEF FollowAssets, ResetDetails, ListRepresentations
  <2>2. marked = {} /\ Shown(marked) = {}
    BY <1>4 DEF FollowAssets, StartFetch, DetailsInv, FollowInv, Shown
  <2>3. picture'.id = Remembered(AssetEntities) /\ PictureKnown'
    BY <1>1, <1>2, <2>1, ThumbnailFollows
  <2> QED
    BY <1>1, <1>3, <2>1, <2>2, <2>3 DEF FollowInv, Follows, Marked, Shown, AssetEntities
<1>5. CASE FollowRows
  <2>1. /\ text' \in {NoVersion} \cup Shown(marked) /\ listed' = Shown(marked)
        /\ picture' = SetThumbnail(Marked)
    BY <1>5 DEF FollowRows, VersionsChanged, ListRepresentations, Describe, Marked
  <2>2. picture'.id = Remembered(Marked) /\ PictureKnown'
    BY <1>1, <1>2, <2>1, ThumbnailFollows DEF Marked
  <2> QED
    BY <1>1, <1>3, <2>1, <2>2 DEF FollowInv, Follows, Marked, Shown, AssetEntities
<1> QED
  BY <1>4, <1>5

\* A step that leaves the details alone, and what they are to show as well, or
\* schedules a job, or leaves them behind.
LEMMA KeepDetails ==
  ASSUME DetailsInv, UNCHANGED <<text, listed, picture>>, shown' \in [Assets -> Versions],
         pc' # "idle" => marked' = {},
         \/ stale' \/ job' # "none" \/ pc' # "idle"
         \/ /\ stale => stale'
            /\ job = "none" /\ pc = "idle"
            /\ UNCHANGED <<selected, marked>> /\ (marked = {} \/ shown' = shown)
  PROVE  FollowInv'
<1>1. CASE stale' \/ job' # "none" \/ pc' # "idle"
  BY <1>1 DEF DetailsInv, FollowInv, PictureKnown
<1>2. CASE /\ stale => stale'
           /\ job = "none" /\ pc = "idle"
           /\ UNCHANGED <<selected, marked>> /\ (marked = {} \/ shown' = shown)
  <2>1. Shown(marked)' = Shown(marked)
    BY <1>2 DEF Shown
  <2>2. AssetEntities' = AssetEntities
    BY <1>2 DEF AssetEntities
  <2>3. Marked' = Marked
    BY <1>2, <2>1, <2>2 DEF Marked
  <2>4. Remembered(Marked)' = Remembered(Marked)
    BY <2>3 DEF Remembered
  <2>5. stale' \/ Follows'
    BY <1>2, <2>1, <2>4 DEF DetailsInv, FollowInv, Follows
  <2> QED
    BY <1>2, <2>5 DEF DetailsInv, FollowInv, PictureKnown
<1> QED
  BY <1>1, <1>2

\* Every other step.
LEMMA FollowStep == DetailsInv /\ [DetailsNext]_allVars => FollowInv'
<1> SUFFICES ASSUME DetailsInv, [DetailsNext]_allVars
             PROVE  FollowInv'
  OBVIOUS
<1>0. /\ shown \in [Assets -> Versions] /\ (pc # "idle" => marked = {})
      /\ [a \in Assets |-> Latest] \in [Assets -> Versions] /\ stale \in {stale}
  BY VersionsAssumption DEF DetailsInv, FollowInv
<1> USE DEF detailVars, listVars, viewVars
<1>1. CASE UNCHANGED <<text, listed, picture, job, pc, stale, selected, marked, shown>>
  BY <1>0, <1>1, KeepDetails
<1>2. CASE Select
  <2>1. UNCHANGED <<text, listed, picture, stale, shown>> /\ (SelectAssets \/ ReleaseMouse \/ OpenGrouping)
    BY <1>2 DEF Select, Aside
  <2>2. CASE SelectAssets
    BY <1>0, <2>1, <2>2, KeepDetails DEF SelectAssets, Schedule
  <2>3. CASE ReleaseMouse
    BY <1>0, <2>1, <2>3, KeepDetails DEF ReleaseMouse, Schedule
  <2>4. CASE OpenGrouping
    BY <1>1, <2>1, <2>4 DEF OpenGrouping
  <2> QED
    BY <2>1, <2>2, <2>3, <2>4
<1>3. CASE Refresh \/ RefreshFamilies
  <2>1. UNCHANGED <<text, listed, picture, shown, pc, marked>> /\ job' \in {"assets", "refresh"}
    BY <1>3 DEF Refresh, RefreshFamilies, Aside, RefreshButton, ShowWindow, RefreshJob, RefreshAssets, Schedule
  <2> QED
    BY <1>0, <2>1, KeepDetails
<1>4. CASE LoseJob
  <2>1. UNCHANGED <<text, listed, picture, shown, pc, marked>> /\ stale'
    BY <1>4 DEF LoseJob, OtherTool
  <2> QED
    BY <1>0, <2>1, KeepDetails
<1>5. CASE MarkRows
  <2>1. UNCHANGED <<text, listed, picture, shown, pc>> /\ job' = "subsets" /\ pc = "idle"
    BY <1>5 DEF MarkRows, MarkSubsets, Act, ActHere, Aside
  <2> QED
    BY <1>0, <2>1, KeepDetails
<1>6. CASE ChangeVersion
  <2>1. UNCHANGED <<text, listed, picture, pc>> /\ job' = "versions" /\ pc = "idle"
    BY <1>6 DEF ChangeVersion, MarkSubsets, Act, ActHere
  <2>2. shown' \in [Assets -> Versions]
    BY <1>0, <1>6 DEF ChangeVersion, SetVersion, Choices
  <2> QED
    BY <2>1, <2>2, KeepDetails
<1>7. CASE FilterFamilies
  <2>1. UNCHANGED <<text, listed, picture, shown, pc, selected, stale>> /\ pc = "idle"
        /\ (marked' # marked => job' = "subsets") /\ (marked' = marked => job' = job)
    BY <1>7 DEF FilterFamilies, ActHere, Act, Schedule
  <2> QED
    BY <1>0, <2>1, KeepDetails
<1>8. CASE Group \/ Fill
  <2>1. UNCHANGED <<text, listed, picture, pc, selected>> /\ pc = "idle"
        /\ shown' \in [Assets -> Versions] /\ stale' = (stale \/ (marked # {} /\ marked' = {}))
    BY <1>0, <1>8 DEF Group, Fill, Refill, ToggleGrouping, OnDocFetched, ActHere, Act
  <2>2. job' = "subsets" \/ (marked' = {} /\ job' = job)
    BY <1>8 DEF Group, Fill, ToggleGrouping, OnDocFetched, Schedule
  <2> QED
    BY <2>1, <2>2, KeepDetails
<1>9. CASE CloseDialog \/ ClearRows
  <2>1. UNCHANGED <<text, listed, picture, shown, stale>>
    BY <1>9 DEF CloseDialog, ClearRows, Aside
  <2>2. \/ pc' = "stop" /\ marked' = {}
        \/ UNCHANGED <<job, pc, selected, marked>>
    BY <1>9 DEF CloseDialog, ClearRows, CloseGrouping, AssetsJob, AssetsChanged
  <2> QED
    BY <1>0, <1>1, <2>1, <2>2, KeepDetails
<1>10. CASE ListReturns
  <2>1. UNCHANGED <<text, listed, picture, shown, stale, pc, marked>>
        /\ (job' = "assets" \/ UNCHANGED <<job, selected>>)
    BY <1>10 DEF ListReturns, Aside, AssetsRefreshed, Schedule
  <2> QED
    BY <1>0, <1>1, <2>1, KeepDetails
<1>11. CASE BelowMenu
  <2>1. UNCHANGED <<text, listed, picture, shown, stale, job, selected, marked>>
        /\ (UNCHANGED pc \/ (pc = "stop" /\ pc' = "wait"))
    BY <1>11 DEF BelowMenu, Aside, StopFetch, ThreadStep, FetchAssets, FetchSubsets, StopEarly, FetchVersions,
                 StorePayload, FetchAvailability, EmitFetched, EndThread
  <2> QED
    BY <1>0, <1>1, <2>1, KeepDetails
<1>12. ChangeDatabase \/ OpenRowMenu \/ ChooseForRows \/ OpenListMenu \/ ChooseForList \/ CloseMenu
         \/ UNCHANGED allVars
         => UNCHANGED <<text, listed, picture, job, pc, stale, selected, marked, shown>>
  BY DEF ChangeDatabase, OpenRowMenu, ChooseForRows, OpenListMenu, ChooseForList, CloseMenu,
         ListRepresentations, allVars, vars
<1> QED
  BY <1>1, <1>2, <1>3, <1>4, <1>5, <1>6, <1>7, <1>8, <1>9, <1>10, <1>11, <1>12, ShowDetails DEF DetailsNext

\* Whenever no job is due, the details are those of what is marked or selected,
\* in the versions the rows show, whatever was scheduled over whatever else;
\* unless another tool took the job away or the rows were filled anew.
THEOREM DetailsAreShown == DetailsSpec => []DetailsFollow
<1>1. Start => DetailsInv
  <2> SUFFICES ASSUME Start
               PROVE  DetailsInv
    OBVIOUS
  <2>1. WindowInv /\ PictureInv
    BY WindowInit DEF Start, PictureStart, PictureInv, PictureType, PictureMatches
  <2>2. /\ pc = "idle" /\ job = "assets" /\ picture.id = NoId
        /\ shown = [a \in Assets |-> Latest]
    BY DEF Start, Init, PictureStart, RowsStart
  <2>3. shown \in [Assets -> Versions]
    BY <2>2, VersionsAssumption
  <2> QED
    BY <2>1, <2>2, <2>3 DEF DetailsInv, FollowInv, PictureKnown
<1>2. DetailsInv /\ [DetailsNext]_allVars => DetailsInv'
  BY WindowStep, PictureStep, FollowStep DEF DetailsInv
<1>3. DetailsInv => DetailsFollow
  BY DEF DetailsInv, FollowInv, Follows, Marked, DetailsFollow
<1> QED
  BY <1>1, <1>2, <1>3, PTL DEF DetailsSpec
=============================================================================
