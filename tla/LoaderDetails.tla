---------------------------- MODULE LoaderDetails ----------------------------
(***************************************************************************)
(* What the Loader shows of the marked subsets (tools/loader/app.py        *)
(* _versionschanged): the text of a version, a picture, the list of their  *)
(* representations; and the context menus that load them                   *)
(* (tools/loader/widgets.py).  LoaderWindow is the window below it; an     *)
(* asset has one subset here, as there.                                    *)
(*                                                                         *)
(* A context menu runs an event loop of its own: what it will load is      *)
(* decided when it opens, while jobs, signals and threads go on below it.  *)
(***************************************************************************)
EXTENDS LoaderWindow, FiniteSets

CONSTANTS
  Versions, Latest,   \* versions of each subset
  Names, Lower,       \* names of representations, and each in lower case
  Loaders,            \* loader plug-ins: of one of the next two, or ordinary
  AddLoaders,         \* those that add a representation to a site
  RemoveLoaders,      \* those that remove it from a site
  Fits,               \* which loader takes representations of which name
  Sides,              \* the active and the remote site
  Progress,           \* how much of a representation a side has: "none", "some", "all"
  Published,          \* the representations there are at first
  Changing,           \* those that others publish and remove
  Thumbnail,          \* the thumbnail id of an asset or version
  Pictures            \* what is found of an id: "there", "empty" or "missing"

ASSUME AssetsAssumption == IsFiniteSet(Assets)
ASSUME VersionsAssumption == Latest \in Versions
ASSUME NamesAssumption ==
  /\ Lower \in [Names -> Names] /\ \A n \in Names : Lower[Lower[n]] = Lower[n]
  /\ Fits \subseteq Loaders \X Names
ASSUME PublishedAssumption == Published \cup Changing \subseteq Assets \X Versions \X Names

VARIABLES
  hidden,     \* rows the family filter hides
  shown,      \* the version in each row
  text,       \* the version that is described, or NoVersion
  picture,    \* the id remembered with the picture, and what is shown
  listed,     \* the versions whose representations are listed
  reps,       \* the representations listed
  repres,     \* representations in the database
  menu,       \* the open context menu
  loaded,     \* what the last step loaded of subset rows
  stale       \* the details were left behind: a job was lost, or the rows
              \* were filled anew, which deselects them without a signal

detailVars == <<text, picture, listed, reps>>
allVars == <<vars, hidden, shown, detailVars, repres, menu, loaded, stale>>

-----------------------------------------------------------------------------
NoVersion == <<>>
NoId == "none"
Default == "default"

\* What an entity is pictured by is an id, or none; without an id nothing is
\* found, and no id is the default picture.
ASSUME PicturesAssumption ==
  /\ Pictures[NoId] = "empty" /\ Default \notin DOMAIN Pictures
  /\ \A id \in DOMAIN Pictures : Pictures[id] \in {"there", "empty", "missing"}
  /\ \A e \in {<<a>> : a \in Assets} \cup Assets \X Versions : Thumbnail[e] \in DOMAIN Pictures

VersionOf(doc) == <<doc[1], doc[2]>>
Shown(assets) == {<<a, shown[a]>> : a \in assets}

Closed == [kind |-> "none", items |-> {}, offers |-> {}, steady |-> TRUE]
Menu(kind, items, offers) ==
  [kind |-> kind, items |-> items, offers |-> offers, steady |-> TRUE]
Offer(name, loader) == [name |-> name, loader |-> loader]
NoName == "any"

Nothing == [items |-> {}, steady |-> TRUE, offer |-> Offer("", ""), docs |-> {}]

NoMenu == menu = Closed

\* What a step leaves alone unless it says so.
Aside == UNCHANGED <<hidden, shown, detailVars, repres, menu, stale>> /\ loaded' = Nothing

-----------------------------------------------------------------------------
(* The details. *)

\* Mutant: the default picture leaves the old id.
SetPixmapOnly(id, pixmap) == [id |-> id, shown |-> pixmap]

\* ThumbnailWidget.set_pixmap: the default picture forgets the id.
SetPixmap(id, pixmap) ==
  [id |-> IF pixmap = Default THEN NoId ELSE id, shown |-> pixmap]

\* get_thumbnail_binary: the first resolver that finds something; without, and
\* without an id, the default is shown.
ThumbnailBinary(id) == IF Pictures[id] = "there" THEN id ELSE Default

\* ThumbnailWidget.set_thumbnail.  An id without a document leaves the old
\* picture and remembers the new id.
SetThumbnail(entities) ==
  IF Cardinality(entities) # 1 THEN SetPixmap(picture.id, Default)
  ELSE LET id == Thumbnail[CHOOSE e \in entities : TRUE] IN
       CASE id = picture.id         -> picture
         [] id # picture.id /\ Pictures[id] = "missing" -> [picture EXCEPT !.id = id]
         [] id # picture.id /\ Pictures[id] # "missing" -> SetPixmap(id, ThumbnailBinary(id))

\* RepresentationModel.refresh reads the representations that have sites.
ListRepresentations(versions) ==
  /\ listed' = versions
  /\ reps' = {d \in repres : VersionOf(d) \in versions}

AssetEntities == {<<a>> : a \in selected}

\* Mutant: the list of representations is not reset.
ResetDetailsOnly ==
  /\ text' = NoVersion
  /\ picture' = SetThumbnail(AssetEntities)
  /\ UNCHANGED <<listed, reps>>

\* The end of _assetschanged.
ResetDetails ==
  /\ text' = NoVersion
  /\ picture' = SetThumbnail(AssetEntities)
  /\ ListRepresentations({})

\* VersionTextEdit.set_version.
Describe(version) == text' = version

\* _versionschanged: the text describes the current row if it is a marked row
\* of a subset, not one that merges those of several assets.
VersionsChanged ==
  /\ \E v \in {NoVersion} \cup Shown(marked) : Describe(v)
  /\ picture' = SetThumbnail(IF marked # {} THEN Shown(marked) ELSE AssetEntities)
  /\ ListRepresentations(Shown(marked))

-----------------------------------------------------------------------------
(* The window's steps, and what they do to the details. *)

\* The filter, the rows, the list and its model, the picture.
FilterStart == hidden = {}

RowsStart == shown = [a \in Assets |-> Latest]

ListStart == reps = {}

ListModelStart == listed = {}

PictureStart == picture = [id |-> NoId, shown |-> Default]

Start ==
  /\ Init
  /\ FilterStart /\ RowsStart /\ ListStart /\ ListModelStart /\ PictureStart
  /\ text = NoVersion
  /\ repres = Published
  /\ menu = Closed /\ loaded = Nothing /\ stale = FALSE

Select == NoMenu /\ (SelectAssets \/ ReleaseMouse \/ OpenGrouping) /\ Aside

Refresh == NoMenu /\ (RefreshButton \/ ShowWindow) /\ Aside

\* FamilyListWidget.refresh checks every family again.
RefreshFamilies ==
  /\ RefreshJob
  /\ hidden' = {}
  /\ UNCHANGED <<shown, detailVars, repres, menu, stale>> /\ loaded' = Nothing

LoseJob ==
  /\ OtherTool
  /\ stale' = TRUE
  /\ UNCHANGED <<hidden, shown, detailVars, repres, menu>> /\ loaded' = Nothing

MarkRows ==
  /\ NoMenu /\ MarkSubsets
  /\ marked' \cap hidden = {}
  /\ job' = "subsets"
  /\ Aside

\* SubsetsModel.set_version: the row becomes that of the version.
SetVersion(a, v) == shown' = [shown EXCEPT ![a] = v]

\* What VersionDelegate lists for a row: all versions but the deleted.
Choices(a) == Versions

\* The version of a marked row is chosen from those in the database.
ChangeVersion ==
  /\ NoMenu /\ MarkSubsets
  /\ job' = "versions"
  /\ \E a \in marked : \E v \in Choices(a) : SetVersion(a, v)
  /\ UNCHANGED <<hidden, detailVars, repres, menu, stale>> /\ loaded' = Nothing

\* Hiding a marked row deselects it, with a signal.
FilterFamilies ==
  /\ NoMenu /\ ActHere
  /\ hidden' \in (SUBSET Assets) \ {hidden}
  /\ marked' = marked \ hidden'
  /\ IF marked' # marked THEN Schedule("subsets") ELSE UNCHANGED <<job, dropped>>
  /\ UNCHANGED <<listVars, pc, rows, loading, empty, listening, dialog, modelVars,
                 threadVars, broken, shown, detailVars, repres, menu, stale>>
  /\ loaded' = Nothing

\* Rows are filled with the latest versions of the fetch.
Refill ==
  /\ shown' = [a \in Assets |-> Latest]
  /\ stale' = (stale \/ (marked # {} /\ marked' = {}))
  /\ UNCHANGED <<hidden, detailVars, repres, menu>> /\ loaded' = Nothing

Group == NoMenu /\ ToggleGrouping /\ Refill

Fill == OnDocFetched /\ Refill

CloseDialog == CloseGrouping /\ Aside

ListReturns == AssetsRefreshed /\ Aside

ClearRows == AssetsJob /\ Aside

BelowMenu == (StopFetch \/ ThreadStep) /\ Aside

FollowAssets ==
  /\ StartFetch
  /\ ResetDetails
  /\ stale' = FALSE
  /\ UNCHANGED <<hidden, shown, repres, menu>> /\ loaded' = Nothing

FollowRows ==
  /\ SubsetsJob
  /\ VersionsChanged
  /\ stale' = FALSE
  /\ UNCHANGED <<hidden, shown, repres, menu>> /\ loaded' = Nothing

\* A representation is published or removed by somebody else.
ChangeDatabase ==
  /\ acts < MaxActs /\ acts' = acts + 1
  /\ \E d \in Changing :
       repres' = IF d \in repres THEN repres \ {d} ELSE repres \cup {d}
  /\ menu' = [menu EXCEPT !.steady = menu = Closed]
  /\ UNCHANGED <<listVars, job, pc, viewVars, modelVars, threadVars, dropped, broken,
                 hidden, shown, detailVars, stale>>
  /\ loaded' = Nothing

-----------------------------------------------------------------------------
(* The menu of the subsets. *)

\* is_compatible_loader: by family, which a subset keeps, and name.
Compatible(loader, doc) == <<loader, doc[3]>> \in Fits

\* _repre_contexts_for_loaders_filter, and the loaders that take them but for
\* those of sites.
Combos(version) ==
  {o \in [name : Names, loader : Loaders \ (AddLoaders \cup RemoveLoaders)] :
     \E d \in repres : VersionOf(d) = version /\ d[3] = o.name /\ Compatible(o.loader, d)}

LowerCombos(version) == {Offer(Lower[c.name], c.loader) : c \in Combos(version)}

\* on_context_menu: what the first subset has under a name the others have in
\* lower case, too.
Offers(items, first) ==
  IF items = {first} THEN Combos(first)
  ELSE {c \in Combos(first) : \A i \in items : c \in LowerCombos(i)}

OpenRowMenu ==
  /\ pc = "idle" /\ ~dialog /\ NoMenu /\ marked # {} /\ rows # None
  /\ \E first \in Shown(marked) :
       menu' = Menu("rows", Shown(marked), Offers(Shown(marked), first))
  /\ loaded' = Nothing
  /\ UNCHANGED <<vars, hidden, shown, detailVars, repres, stale>>

\* get_repres_contexts: the documents that are still there.
Contexts(docs) == docs \cap repres

\* _load_representations_by_loader: one that fails does not keep the others.
LoadAll(offer, docs) ==
  loaded' = [items |-> menu.items, steady |-> menu.steady, offer |-> offer,
             docs |-> {d \in Contexts(docs) : Compatible(offer.loader, d)}]

\* Mutant: the rows marked now.
ChooseForMarked ==
  /\ pc = "idle" /\ menu.kind = "rows"
  /\ \E o \in menu.offers :
       LoadAll(o, {d \in repres : VersionOf(d) \in Shown(marked) /\ d[3] = o.name})
  /\ menu' = Closed
  /\ UNCHANGED <<vars, hidden, shown, detailVars, repres, stale>>

\* The representation of that name is looked up for each subset the menu was
\* opened on; closing the options of a loader does not keep it from loading.
ChooseForRows ==
  /\ pc = "idle" /\ menu.kind = "rows"
  /\ \E o \in menu.offers :
       LoadAll(o, {d \in repres : VersionOf(d) \in menu.items /\ d[3] = o.name})
  /\ menu' = Closed
  /\ UNCHANGED <<vars, hidden, shown, detailVars, repres, stale>>

-----------------------------------------------------------------------------
(* The menu of the representations. *)

\* The rows of the list: those of several versions are merged by name.
ListRows ==
  {{d} : d \in reps}
    \cup (IF Cardinality(listed) > 1 THEN {{d \in reps : d[3] = n} : n \in Names} ELSE {})

\* get_progress_for_repre: a site that has some of the files, or all.
Has(d, side) == Progress[d, side] \in {"some", "all"}

\* A side is removed from where an item is whole on it, and added where an
\* item is at all on either.
SiteOffers(items) ==
  {o \in [name : Sides, loader : AddLoaders \cup RemoveLoaders] :
     \E d \in items :
       /\ Compatible(o.loader, d)
       /\ \E s \in Sides : Has(d, s)
       /\ o.loader \in RemoveLoaders => Progress[d, o.name] = "all"}

\* What any of the items has, each loader once.
ListOffers(items) ==
  {Offer(NoName, l) : l \in {k \in Loaders \ (AddLoaders \cup RemoveLoaders) :
                               \E d \in items : Compatible(k, d)}}
    \cup SiteOffers(items)

\* get_selected_items: a merged row stands for those below it.
SelectedItems(chosen) == UNION chosen

\* get_representation_context raises for one that was removed: no menu.
HasContext(doc) == doc \in repres

OpenListMenu ==
  /\ pc = "idle" /\ ~dialog /\ NoMenu
  /\ \E chosen \in (SUBSET ListRows) \ {{}} :
       LET items == SelectedItems(chosen) IN
       /\ items # {} /\ \A d \in items : HasContext(d)
       /\ menu' = Menu("list", items, ListOffers(items))
  /\ loaded' = Nothing
  /\ UNCHANGED <<vars, hidden, shown, detailVars, repres, stale>>

\* _process_action: the items are loaded, and the list is read again.
ChooseForList ==
  /\ pc = "idle" /\ menu.kind = "list"
  /\ menu.offers # {}
  /\ menu' = Closed /\ loaded' = Nothing
  /\ ListRepresentations(listed)
  /\ UNCHANGED <<vars, hidden, shown, text, picture, repres, stale>>

CloseMenu ==
  /\ pc = "idle" /\ ~NoMenu
  /\ menu' = Closed /\ loaded' = Nothing
  /\ UNCHANGED <<vars, hidden, shown, detailVars, repres, stale>>

-----------------------------------------------------------------------------
DetailsNext ==
  \/ Select \/ Refresh \/ RefreshFamilies \/ LoseJob \/ MarkRows \/ ChangeVersion
  \/ FilterFamilies \/ Group \/ Fill \/ CloseDialog \/ ListReturns \/ ClearRows
  \/ BelowMenu \/ FollowAssets \/ FollowRows \/ ChangeDatabase
  \/ OpenRowMenu \/ ChooseForRows \/ OpenListMenu \/ ChooseForList \/ CloseMenu

DetailsSpec == Start /\ [][DetailsNext]_allVars

\* Fairness of LoaderWindow; a user need not close a menu, which holds nothing
\* up.
FairDetailsSpec == DetailsSpec /\ Fairness

-----------------------------------------------------------------------------
(* Properties. *)

\* The id of the only entity, if there is a picture to expect.
Remembered(entities) ==
  LET ids == {Thumbnail[e] : e \in entities}
  IN IF Cardinality(entities) = 1 /\ \E id \in ids : Pictures[id] # "empty"
     THEN CHOOSE id \in ids : TRUE ELSE NoId

\* When no job is due and none was lost, whatever is still being fetched, the
\* list is that of the marked rows in the versions they show, the text that of
\* one of them, and the picture remembered that of the only entity (app.py
\* _versionschanged).
DetailsFollow ==
  pc = "idle" /\ job = "none" /\ ~stale =>
    /\ listed = Shown(marked)
    /\ text \in {NoVersion} \cup Shown(marked)
    /\ picture.id = Remembered(IF marked # {} THEN Shown(marked) ELSE AssetEntities)

\* The picture shown is the one of the id it is remembered by, the default
\* without one, whatever entities were shown in between; but the picture of
\* an id whose document is missing (widgets.py set_thumbnail).
PictureMatches ==
  IF picture.id = NoId THEN picture.shown = Default
  ELSE Pictures[picture.id] # "missing" => picture.shown = picture.id

\* What the menu of several subsets offers is loaded for each subset it was
\* opened on, but one that has the name in other letters only, unless the
\* database changed meanwhile (widgets.py on_context_menu).
ChosenLoadsAll ==
  loaded.steady =>
    \A i \in loaded.items :
      \/ <<i[1], i[2], loaded.offer.name>> \in loaded.docs
      \/ \E d \in repres : VersionOf(d) = i /\ d[3] # loaded.offer.name
                           /\ Lower[d[3]] = Lower[loaded.offer.name]
=============================================================================
