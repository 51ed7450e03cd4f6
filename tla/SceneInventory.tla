--------------------------- MODULE SceneInventory ---------------------------
(***************************************************************************)
(* The Scene Inventory (tools/sceneinventory): the list of a scene's       *)
(* containers, the context menu over selected rows, the version dialog,    *)
(* the switch dialog, and the cherry-picked hierarchy view.                *)
(*                                                                         *)
(* A command works on the items as they were when the menu was opened; it  *)
(* treats them one after the other and gives up at the first exception,    *)
(* without refreshing the list.  The host and other users go on meanwhile. *)
(***************************************************************************)
EXTENDS Containers

CONSTANTS
  Parent,       \* the container another one is nested in, or itself
  Nested,       \* the host has update_hierarchy
  NoChoice,     \* the placeholder of a combo box
  Followed,     \* representations whose files are followed on the two sites
  MaxActs       \* bound: commands of the user and edits in the host

\* Maya lets no set be a member of itself, nor of its own members.
ASSUME ToolAssumption ==
  /\ Parent \in [Containers -> Containers] /\ Nested \in BOOLEAN
  /\ \A S \in (SUBSET Containers) \ {{}} : \E c \in S : Parent[c] \notin S \ {c}
  /\ Followed \subseteq Repres /\ MaxActs \in Nat

VARIABLES
  view,         \* the rows: the representation each container had
  unknown,      \* rows of which a document was not found
  hierarchy, picked,  \* View._hierarchy_view and _selected
  pc,           \* "idle", "menu", "version", "switch", "switched" or "run"
  menu,         \* what the open menu, or the command chosen in it, holds
  offered,      \* versions the version dialog lists
  todo,         \* the running command
  dlg,          \* the switch dialog
  sites,        \* per followed representation: where its files are complete
  raised,       \* an exception ended a command or refresh after the last complete refresh
  moved,        \* the host changed the scene after the last refresh
  acts

listVars == <<view, unknown, hierarchy, picked>>
pastVars == <<raised, moved, acts>>
sceneVars == <<docVars, scene, listVars, pc, menu, offered, todo, dlg, sites, pastVars>>

\* update_hierarchy, in Maya: the containers among the members of those in S.
Children(S) == {d \in Present : Parent[d] \in S}

\* The smallest superset of S that holds the children of its members.
Branch(S) == {c \in Containers : \A T \in SUBSET Containers :
                S \subseteq T /\ Children(T) \subseteq T => c \in T}
Above(c) == {d \in Containers \ {c} : c \in Branch({d})}

(***************************************************************************)
(* Window.refresh, InventoryModel.refresh and add_items.  In the hierarchy  *)
(* view a picked container that is gone raises after the list was cleared;  *)
(* children of a row that was not found are never placed.  A host without   *)
(* update_hierarchy shows the picked ones, and raises all the same.         *)
(***************************************************************************)
Refresh(h, p) ==
  LET gone == {c \in Present : ~Found(scene[c])}
      tree == h /\ p # {}
      rows == CASE ~tree -> Present
                [] tree /\ ~Nested -> p \cap Present
                [] tree /\ Nested /\ ~(p \subseteq Present) -> {}
                [] OTHER -> {c \in Branch(p) : Above(c) \cap Branch(p) \cap gone = {}}
  IN /\ view' = [c \in rows |-> scene[c]] /\ unknown' = rows \cap gone
     /\ hierarchy' = h /\ picked' = p
     /\ raised' = (tree /\ (~Nested \/ ~(p \subseteq Present)))
     /\ moved' = FALSE

NoItems == [c \in {} |-> NoRepre]
NoMenu == [items |-> NoItems, outdated |-> FALSE, heroes |-> FALSE, hero |-> FALSE, stray |-> <<>>]
NoTodo == [what |-> "none", version |-> LatestVersion, left |-> {}, since |-> <<0, 0>>]
Closed == [asset |-> NoChoice, subset |-> NoChoice, repre |-> NoChoice, subsets |-> {}, repres |-> {},
           content |-> {}, archived |-> {}, missing |-> FALSE, enabled |-> FALSE, filling |-> FALSE, since |-> 0]

\* The window is shown, which refreshes it, over a scene with some containers.
SceneInit ==
  /\ InitContainers
  /\ view = [c \in Present |-> scene[c]] /\ unknown = {} /\ hierarchy = FALSE /\ picked = {}
  /\ pc = "idle" /\ menu = NoMenu /\ offered = {} /\ todo = NoTodo /\ dlg = Closed
  /\ sites = [r \in Followed |-> [active_site |-> TRUE, remote_site |-> FALSE]]
  /\ raised = FALSE /\ moved = FALSE /\ acts = 0

Act == acts < MaxActs /\ acts' = acts + 1
toolIdle == <<menu, offered, todo, dlg, sites>>

PressRefresh ==
  /\ Act /\ pc = "idle" /\ Refresh(hierarchy, picked)
  /\ UNCHANGED <<docVars, scene, pc, toolIdle>>

LeaveHierarchy ==
  /\ Act /\ pc = "idle" /\ hierarchy /\ Refresh(FALSE, picked)
  /\ UNCHANGED <<docVars, scene, pc, toolIdle>>

\* The scene is edited in the host, or containers are loaded by the Loader.
HostEdits ==
  /\ Act /\ moved' = TRUE
  /\ \/ \E c \in Present : scene' = [scene EXCEPT ![c] = NoRepre]
     \/ \E c \in Containers, r \in Repres : Load(c, r)
  /\ UNCHANGED <<docVars, listVars, pc, toolIdle, raised>>

(***************************************************************************)
(* The menu over the selected rows.  It asks which of their versions are    *)
(* hero versions, whether versions of the others are outdated or have a     *)
(* hero version.  stray is what its local variable "version" ends up as: a  *)
(* version of the last loop that had one.  Rows not found have no           *)
(* representation, which raises.                                            *)
(***************************************************************************)
OpenMenu ==
  /\ Act /\ pc = "idle"
  /\ \E rows \in (SUBSET DOMAIN view) \ {{}} :
       LET items == [c \in rows |-> view[c]]
           loaded == {r \in {items[c] : c \in rows} : IsRepre(r)}
           heroes == {r.subset : r \in {q \in loaded : q.version = HeroVersion}}
           plain == {r \in loaded : r.version # HeroVersion}
           all == {<<s, v>> : s \in {r.subset : r \in plain}, v \in 1..MaxVersion}
           strays == IF plain # {} THEN {sv \in all : sv[2] <= Latest(sv[1])}
                     ELSE {<<s, HeroVersion>> : s \in heroes}
       IN IF rows \cap unknown # {}
          THEN raised' = TRUE /\ UNCHANGED <<pc, menu>>
          ELSE /\ pc' = "menu" /\ UNCHANGED raised
               /\ \E stray \in (IF strays = {} THEN {<<>>} ELSE strays) :
                    menu' = [items |-> items,
                             outdated |-> \E r \in plain : r.version < Latest(r.subset),
                             heroes |-> heroes # {},
                             hero |-> \E r \in plain : hero[r.subset].of > 0,
                             stray |-> stray]
  /\ offered' = {} /\ todo' = NoTodo
  /\ UNCHANGED <<docVars, scene, listVars, dlg, sites, moved>>

\* A command runs over containers, one after the other.
RunOver(what, version, left) ==
  /\ pc' = "run"
  /\ todo' = [what |-> what, version |-> version, left |-> left, since |-> <<docs, acts>>]
  /\ UNCHANGED <<docVars, scene, listVars, menu, offered, dlg, sites, pastVars>>

MenuUpdateLatest == pc = "menu" /\ (menu.outdated \/ menu.heroes) /\ RunOver("update", LatestVersion, DOMAIN menu.items)
MenuChangeToHero == pc = "menu" /\ menu.hero /\ RunOver("update", HeroVersion, DOMAIN menu.items)
MenuRemove == pc = "menu" /\ RunOver("remove", LatestVersion, DOMAIN menu.items)

\* _on_switch_to_versioned: the one name it keeps is that of a version the hero
\* items point to; it is kept under the id of the stray version, and given to
\* the items of that version.
MenuSwitchToVersioned ==
  /\ pc = "menu" /\ menu.heroes
  /\ LET found == {c \in DOMAIN menu.items : IsRepre(menu.items[c])}
         of == {hero[menu.items[c].subset].of : c \in {d \in found : menu.items[d].version = HeroVersion}}
     IN \/ of = {} /\ RunOver("none", LatestVersion, {})
        \/ \E n \in of :
             RunOver("update", n, {c \in found : <<menu.items[c].subset, menu.items[c].version>> = menu.stray})

\* show_version_dialog lists what the subset of one of the items has.
MenuSetVersion ==
  /\ pc = "menu"
  /\ \E active \in DOMAIN menu.items :
       LET r == menu.items[active]
       IN IF Found(r)
          THEN /\ offered' = {v \in 0..MaxVersion : HasVersion(r.subset, v)}
               /\ pc' = "version" /\ UNCHANGED raised
          ELSE raised' = TRUE /\ pc' = "idle" /\ UNCHANGED offered
  /\ UNCHANGED <<docVars, scene, listVars, menu, todo, dlg, sites, moved, acts>>

ChooseVersion == pc = "version" /\ \E v \in offered : RunOver("update", v, DOMAIN menu.items)

\* _add_sites: files are sent again to one site if the other has all of them.
MenuAddSites ==
  /\ pc = "menu"
  /\ \E site \in {"active_site", "remote_site"} :
       LET other == IF site = "active_site" THEN "remote_site" ELSE "active_site"
           asked == {menu.items[c] : c \in DOMAIN menu.items}
       IN sites' = [r \in Followed |->
            IF r \in asked /\ IsRepre(r) /\ sites[r][other] THEN [sites[r] EXCEPT ![site] = FALSE] ELSE sites[r]]
  /\ Refresh(hierarchy, picked) /\ pc' = "idle"
  /\ UNCHANGED <<docVars, scene, menu, offered, todo, dlg, acts>>

\* The sync server copies from a site that is complete.
Synchronize ==
  /\ \E r \in Followed : \E s, o \in {"active_site", "remote_site"} :
       sites[r][o] /\ ~sites[r][s] /\ sites' = [sites EXCEPT ![r][s] = TRUE]
  /\ UNCHANGED <<docVars, scene, listVars, pc, menu, offered, todo, dlg, pastVars>>

MenuEnterHierarchy ==
  /\ pc = "menu" /\ Refresh(TRUE, DOMAIN menu.items) /\ pc' = "idle"
  /\ UNCHANGED <<docVars, scene, toolIdle, acts>>

\* A registered InventoryAction returns containers to select; in the hierarchy
\* view, those it does not show are picked too.
MenuCustomAction ==
  /\ pc = "menu" /\ pc' = "idle"
  /\ \E names \in SUBSET Present :
       IF hierarchy /\ Nested /\ picked \subseteq Present
       THEN Refresh(TRUE, picked \cup names) ELSE Refresh(hierarchy, picked)
  /\ UNCHANGED <<docVars, scene, toolIdle, acts>>

Dismiss ==
  /\ pc \in {"menu", "version", "switch"} /\ pc' = "idle" /\ dlg' = Closed
  /\ UNCHANGED <<docVars, scene, listVars, menu, offered, todo, sites, pastVars>>

\* The next item of the running command: api.update or api.remove.
RunItem ==
  /\ pc = "run"
  /\ \E c \in todo.left :
       LET r == menu.items[c]
           can == IF todo.what = "update" THEN CanUpdate(c, r, todo.version) ELSE CanRemove(c, r)
       IN IF can
          THEN /\ scene' = [scene EXCEPT ![c] =
                     IF todo.what = "update" THEN UpdatedTo(r, todo.version) ELSE NoRepre]
               /\ todo' = [todo EXCEPT !.left = @ \ {c}] /\ UNCHANGED <<pc, raised>>
          ELSE raised' = TRUE /\ pc' = "idle" /\ UNCHANGED <<scene, todo>>
  /\ UNCHANGED <<docVars, listVars, menu, offered, dlg, sites, moved, acts>>

\* (Mutant: without the signal.)
RunEndsSilently ==
  /\ pc = "run" /\ todo.left = {} /\ pc' = "idle"
  /\ UNCHANGED <<docVars, scene, listVars, toolIdle, pastVars>>

\* data_changed
RunEnds ==
  /\ pc = "run" /\ todo.left = {} /\ pc' = "idle" /\ Refresh(hierarchy, picked)
  /\ UNCHANGED <<docVars, scene, toolIdle, acts>>

-----------------------------------------------------------------------------
(* SwitchAssetDialog *)

SubsetNames(asset) == {s.name : s \in {t \in Subsets : t.asset = asset}}
Common(sets) == {x \in UNION sets : \A S \in sets : x \in S}
NamesIn(s, v) == {n \in ReprNames : IsRepre([subset |-> s, version |-> v, name |-> n])}
LastNames(ss) == {NamesIn(s, Latest(s)) : s \in {t \in ss : Latest(t) > 0}} \ {{}}

\* The subsets the choices in the combo boxes stand for.
Chosen(d) ==
  {s \in Subsets :
     /\ s.asset \in IF d.asset # NoChoice THEN {d.asset} ELSE {r.subset.asset : r \in d.content \cup d.archived}
     /\ s.name \in IF d.subset # NoChoice THEN {d.subset} ELSE {r.subset.name : r \in d.content \cup d.archived}}

SubsetValues(d) == Common({SubsetNames(a) : a \in
  IF d.asset # NoChoice THEN {d.asset} ELSE {r.subset.asset : r \in d.content \cup d.archived}})

\* With neither an asset nor a subset chosen, from the versions in the scene.
RepreValues(d) ==
  IF d.asset = NoChoice /\ d.subset = NoChoice
  THEN Common({NamesIn(r.subset, r.version) : r \in d.content \cup d.archived} \ {{}})
  ELSE Common(LastNames(Chosen(d)))

\* Does the box of representations raise: a chosen subset has no version.
ValuesRaise(d) ==
  d.asset # NoChoice /\ d.subset # NoChoice /\ \E s \in Chosen(d) : Latest(s) = 0

AssetOk(d) == d.asset # NoChoice \/ ~d.missing
SubsetOk(d) ==
  \/ d.subset # NoChoice \/ d.asset = NoChoice
  \/ {r.subset.name : r \in d.content \cup d.archived} \subseteq SubsetNames(d.asset)

\* _is_repre_ok: the last version of each item's target has the item's name.
RepreOk(d) ==
  \/ d.repre # NoChoice
  \/ IF d.asset = NoChoice /\ d.subset = NoChoice
     THEN d.archived = {} /\ ~d.missing
     ELSE \A r \in d.content : \E s \in Chosen(d) :
            /\ s.asset = IF d.asset # NoChoice THEN d.asset ELSE r.subset.asset
            /\ s.name = IF d.subset # NoChoice THEN d.subset ELSE r.subset.name
            /\ Latest(s) > 0 /\ r.name \in NamesIn(s, Latest(s))

\* (Mutant: a choice stays although the box does not list it any more.)
KeepAny(choice, values) == choice

Keep(choice, values) == IF choice \in values THEN choice ELSE NoChoice

\* refresh: each box is filled only when those before it are fine.  If it
\* raises, fill_check stays off and no later choice refreshes the dialog.
Filled(d) ==
  LET d1 == IF AssetOk(d) THEN [d EXCEPT !.subsets = SubsetValues(d), !.subset = Keep(@, SubsetValues(d))] ELSE d
      upTo == AssetOk(d) /\ SubsetOk(d1)
      d2 == IF upTo THEN [d1 EXCEPT !.repres = RepreValues(d1), !.repre = Keep(@, RepreValues(d1))] ELSE d1
  IN IF upTo /\ ValuesRaise(d1) THEN [d1 EXCEPT !.filling = FALSE]
     ELSE [d2 EXCEPT !.enabled = upTo /\ RepreOk(d2), !.filling = TRUE, !.since = docs]

\* _prepare_content_data and the first refresh.
MenuSwitch ==
  /\ pc = "menu" /\ pc' = "switch"
  /\ LET asked == {menu.items[c] : c \in DOMAIN menu.items}
     IN dlg' = Filled([Closed EXCEPT
          !.content = {r \in asked : IsRepre(r)}, !.archived = {r \in asked : Found(r) /\ ~IsRepre(r)},
          !.missing = \E r \in asked : ~Found(r)])
  /\ UNCHANGED <<docVars, scene, listVars, menu, offered, todo, sites, pastVars>>

Choose(d) == dlg' = IF dlg.filling THEN Filled(d) ELSE d

\* A value of a combo box, or its placeholder; "Use current asset" is the first.
ChooseValue ==
  /\ pc = "switch"
  /\ \/ \E a \in {s.asset : s \in Subsets} \cup {NoChoice} : a # dlg.asset /\ Choose([dlg EXCEPT !.asset = a])
     \/ \E n \in dlg.subsets \cup {NoChoice} : n # dlg.subset /\ Choose([dlg EXCEPT !.subset = n])
     \/ \E n \in dlg.repres \cup {NoChoice} : n # dlg.repre /\ Choose([dlg EXCEPT !.repre = n])
  /\ UNCHANGED <<docVars, scene, listVars, pc, menu, offered, todo, sites, pastVars>>

\* _on_accept: the subset an item is switched to, and the representation in its
\* hero version if it had one, else in the last version.
SwitchSubset(r) ==
  [asset |-> IF dlg.asset # NoChoice THEN dlg.asset ELSE r.subset.asset,
   name  |-> IF dlg.subset # NoChoice THEN dlg.subset ELSE r.subset.name]
SwitchTarget(r) ==
  LET s == SwitchSubset(r)
      name == IF dlg.repre # NoChoice THEN dlg.repre ELSE r.name
      ofHero == [subset |-> s, version |-> HeroVersion, name |-> name]
  IN IF r.version = HeroVersion /\ IsRepre(ofHero) THEN ofHero ELSE [ofHero EXCEPT !.version = Latest(s)]
Resolves(r) ==
  /\ r \in dlg.content /\ SwitchSubset(r) \in Subsets
  /\ r.version = HeroVersion /\ hero[SwitchSubset(r)].of > 0 => NamesIn(SwitchSubset(r), HeroVersion) # {}
  /\ IsRepre(SwitchTarget(r))

\* An item without a target raises, after any of the others were switched; a
\* switch that raises by itself is logged and skipped.
Accept ==
  /\ pc = "switch" /\ dlg.enabled
  /\ LET items == menu.items
         good == {c \in DOMAIN items : Resolves(items[c])}
         Switched(S) == scene' = [c \in Containers |->
           IF c \in S /\ CanSwitch(c, SwitchTarget(items[c])) THEN SwitchTarget(items[c]) ELSE scene[c]]
     IN IF good = DOMAIN items
        THEN Switched(good) /\ pc' = "switched" /\ UNCHANGED raised
        ELSE (\E S \in SUBSET good : Switched(S)) /\ raised' = TRUE /\ UNCHANGED pc
  /\ UNCHANGED <<docVars, listVars, menu, offered, todo, dlg, sites, moved, acts>>

\* switched.emit and close
AcceptEnds ==
  /\ pc = "switched" /\ pc' = "idle" /\ dlg' = Closed /\ Refresh(hierarchy, picked)
  /\ UNCHANGED <<docVars, scene, menu, offered, todo, sites, acts>>

Outside == Elsewhere /\ UNCHANGED <<listVars, pc, toolIdle, pastVars>>

SceneNext ==
  \/ Outside \/ HostEdits \/ Synchronize
  \/ PressRefresh \/ LeaveHierarchy \/ OpenMenu \/ Dismiss
  \/ MenuUpdateLatest \/ MenuChangeToHero \/ MenuSwitchToVersioned \/ MenuRemove
  \/ MenuSetVersion \/ ChooseVersion \/ MenuAddSites \/ MenuEnterHierarchy \/ MenuCustomAction
  \/ RunItem \/ RunEnds
  \/ MenuSwitch \/ ChooseValue \/ Accept \/ AcceptEnds

SceneSpec == SceneInit /\ [][SceneNext]_sceneVars

-----------------------------------------------------------------------------
\* Every variable of the tool and of the database has its type.
SceneTypeOK ==
  /\ scene \in [Containers -> Repres \cup {NoRepre}]
  /\ archived \subseteq Repres /\ lost \subseteq Repres
  /\ DOMAIN view \subseteq Containers /\ \A c \in DOMAIN view : view[c] \in Repres
  /\ DOMAIN menu.items \subseteq Containers /\ \A c \in DOMAIN menu.items : menu.items[c] \in Repres
  /\ unknown \subseteq DOMAIN view /\ picked \subseteq Containers
  /\ todo.left \subseteq DOMAIN menu.items
  /\ pc \in {"idle", "menu", "version", "switch", "switched", "run"}
  /\ sites \in [Followed -> [active_site : BOOLEAN, remote_site : BOOLEAN]]
  /\ {hierarchy, raised, moved, dlg.enabled, dlg.filling, dlg.missing} \subseteq BOOLEAN

\* Whatever command ran, once it ended without an exception and unless the host
\* changed the scene since, the list shows what the scene's containers are made
\* of: all of them, or the picked ones with all that is nested in them.
ViewShowsScene ==
  pc = "idle" /\ ~raised /\ ~moved =>
    /\ \A c \in DOMAIN view : view[c] = scene[c]
    /\ ~hierarchy => DOMAIN view = Present
    /\ hierarchy /\ unknown = {} => DOMAIN view = Branch(picked)

\* "Update to latest" that ran through, with nothing published and the scene left
\* alone meanwhile, leaves no selected container behind the last version of its subset.
LatestReached ==
  pc = "idle" /\ ~raised /\ todo.what = "update" /\ todo.version = LatestVersion
    /\ todo.left = {} /\ todo.since = <<docs, acts>> =>
    \A c \in DOMAIN menu.items : scene[c].version = Latest(scene[c].subset)

\* With an asset, a subset and a representation chosen, the enabled accept button
\* of the switch dialog has a target for every item, as long as all items were
\* found, no refresh of the dialog raised, nothing was published since, and no
\* hero version is left without representations.
FullChoiceResolves ==
  pc = "switch" /\ dlg.enabled /\ dlg.filling /\ dlg.since = docs /\ ~dlg.missing /\ dlg.archived = {}
    /\ NoChoice \notin {dlg.asset, dlg.subset, dlg.repre}
    /\ (\A s \in Subsets : hero[s].of > 0 => NamesIn(s, HeroVersion) # {}) =>
    \A c \in DOMAIN menu.items : Resolves(menu.items[c])

\* "Switch to versioned" (app.py:203) brings the selected hero versions to the
\* version they were made of, when it ran through and nothing was published.
VersionedReached ==
  pc = "idle" /\ ~raised /\ todo.what = "update" /\ todo.version > HeroVersion
    /\ todo.since = <<docs, acts>> /\ offered = {} =>
    \A c \in DOMAIN menu.items : scene[c].version # HeroVersion
=============================================================================
