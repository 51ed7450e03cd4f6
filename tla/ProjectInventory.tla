-------------------------- MODULE ProjectInventory --------------------------
(***************************************************************************)
(* The documents of a project and its assets, and the two programs that    *)
(* edit them.  `python -m avalon.inventory` (inventory.py) dumps them into  *)
(* .config.toml and .inventory.toml and writes edited files back, one      *)
(* query after the other; the Project Manager (tools/projectmanager) adds  *)
(* assets.  Nothing is locked: users interleave between any two queries.   *)
(*                                                                         *)
(* A project document of schema 2.1 has tasks in an object (config-1.1),   *)
(* one of schema 2.0 in an array (config-1.0).                             *)
(***************************************************************************)
EXTENDS Naturals, SequencesExt

CONSTANTS
  Users,        \* each with the two files in a directory of their own
  Names,        \* names for assets in an inventory: paths of labels
  Silos,
  Labels,       \* what is typed into the dialog of the Project Manager
  None,         \* no document, file, silo, parent or metadata
  FirstDatabases, \* [project, assets] before the programs run
  MaxAssets,    \* bound: assets in the project
  MaxActs       \* bound: commands and edits

\* Documents and what the files hold of them.  Values stand for the contents.
Values == {0, 1}
Projects == [doc : {"2.0", "2.1"}, schema : {"1.0", "1.1"}, silo : BOOLEAN, list : BOOLEAN,
             meta : Values, val : Values]
AssetDocs == [name : Seq(Labels), silo : Silos \cup {None}, val : Values, visual : Nat \cup {None},
              parents : Seq(Labels \cup {None}) \cup {None}, label : Labels \cup {None}]
EntryDocs == [name : Seq(Labels), silo : Silos, val : Values]
ConfigFiles == [schema : {"1.0", "1.1"}, list : BOOLEAN, val : Values]
InventoryFiles == [entries : SUBSET EntryDocs, meta : Values \cup {None}, list : BOOLEAN]

ASSUME NamesAssumption == Names \subseteq Seq(Labels)
ASSUME NoneAssumption ==
  None \notin Silos \cup Users \cup Projects \cup AssetDocs \cup EntryDocs \cup InventoryFiles
ASSUME BoundsAssumption == MaxAssets \in Nat /\ MaxActs \in Nat

\* Assets are told apart by their names: every query for one asks by its name.
Distinct(docs) == \A i, j \in DOMAIN docs : docs[i].name = docs[j].name => i = j
ASSUME DatabasesAssumption ==
  \A d \in FirstDatabases :
    d.project \in Projects \cup {None} /\ d.assets \in Seq(AssetDocs) /\ Distinct(d.assets)

VARIABLES
  project,      \* the project document
  assets,       \* the asset documents, the first found first
  files,        \* per user: .inventory.toml and .config.toml
  saving,       \* per user: where the running save is
  outcome,      \* per user: how the last save ended
  loaded,       \* per user: the assets at the last load, if nobody else wrote
                \* and the files were not edited since
  alone,        \* per user: nobody else wrote since the last save began
  dialog,       \* the dialog for new assets
  raced,        \* two programs found the same name free
  acts

db == <<project, assets>>
userVars == <<files, saving, outcome, loaded, alone>>
inventoryVars == <<db, userVars, dialog, raced, acts>>

\* Data of an asset: one value; visualParent, parents and label are set by the
\* Project Manager only.
Asset(name, silo, val) ==
  [name |-> name, silo |-> silo, val |-> val, visual |-> None, parents |-> None, label |-> None]

NotSaving == [step |-> "none", doc |-> None, todo |-> {}, missing |-> {}, pending |-> None]
NoDialog == [open |-> FALSE, parent |-> None, pending |-> None, refreshing |-> FALSE]

InventoryInit ==
  /\ \E d \in FirstDatabases : project = d.project /\ assets = d.assets
  /\ files = [u \in Users |-> [inventory |-> None, config |-> None]]
  /\ saving = [u \in Users |-> NotSaving] /\ outcome = [u \in Users |-> "none"]
  /\ loaded = [u \in Users |-> None] /\ alone = [u \in Users |-> FALSE]
  /\ dialog = NoDialog /\ raced = FALSE /\ acts = 0

Act == acts < MaxActs /\ acts' = acts + 1

\* The first asset of a name, or 0.
Find(name) == SelectInSeq(assets, LAMBDA a : a.name = name)
IsFree(name) == Find(name) = 0

\* Does a configuration fit its schema.
Valid(conf) == conf.list <=> conf.schema = "1.0"

\* Writes of one user are seen by the others.
Wrote(me) ==
  /\ loaded' = [u \in Users |-> IF u = me THEN loaded[u] ELSE None]
  /\ alone' = [u \in Users |-> alone[u] /\ u = me]

-----------------------------------------------------------------------------
(* --init and --load *)

\* _write dumps the file before it validates it: the inventory is not written
\* when the configuration is not valid.
WriteFiles(u, conf, inventory) ==
  /\ files' = [files EXCEPT ![u] = [config |-> conf, inventory |-> IF Valid(conf) THEN inventory ELSE @.inventory]]
  /\ outcome' = [outcome EXCEPT ![u] = "none"]
  /\ loaded' = [loaded EXCEPT ![u] = IF Valid(conf) THEN assets ELSE None]

\* init: the default configuration names schema 1.1 and has a list of tasks.
InitFiles(u) ==
  /\ Act /\ project = None /\ saving[u] = NotSaving
  /\ WriteFiles(u, [schema |-> "1.1", list |-> TRUE, val |-> 0], None)
  /\ UNCHANGED <<db, saving, alone, dialog, raced>>

Entries == {[name |-> a.name, silo |-> a.silo, val |-> a.val] : a \in ToSet(assets)}

\* load: an asset without a silo raises; the metadata of the project is copied
\* while copying assets.  A list in it looks like a silo in the file.
Load(u) ==
  /\ Act /\ project # None /\ saving[u] = NotSaving
  /\ \A a \in ToSet(assets) : a.silo # None
  /\ WriteFiles(u, [schema |-> project.schema, list |-> project.doc = "2.0", val |-> project.val],
       [entries |-> Entries,
        meta |-> IF assets = <<>> THEN None ELSE project.meta,
        list |-> assets # <<>> /\ project.list])
  /\ UNCHANGED <<db, saving, alone, dialog, raced>>

\* The user edits a file: adds, changes or removes an entry, or writes a new
\* inventory; or changes the configuration, which stays valid.
Edit(u) ==
  /\ Act /\ saving[u] = NotSaving
  /\ LET inv == IF files[u].inventory = None THEN [entries |-> {}, meta |-> 1, list |-> FALSE] ELSE files[u].inventory
     IN \/ \E n \in Names, s \in Silos :
             files' = [files EXCEPT ![u].inventory = [inv EXCEPT !.entries = @ \cup {[name |-> n, silo |-> s, val |-> 1]}]]
        \/ \E e \in inv.entries :
             files' = [files EXCEPT ![u].inventory = [inv EXCEPT !.entries = @ \ {e}]]
        \/ files' = [files EXCEPT ![u].config = [schema |-> "1.0", list |-> TRUE, val |-> 1]]
  /\ loaded' = [loaded EXCEPT ![u] = None] /\ outcome' = [outcome EXCEPT ![u] = "none"]
  /\ UNCHANGED <<db, saving, alone, dialog, raced>>

-----------------------------------------------------------------------------
(* --save: _save_inventory_1_0, then _save_config_1_0 *)

Go(u, step) == saving' = [saving EXCEPT ![u].step = step]
Ends(u, how) == saving' = [saving EXCEPT ![u] = NotSaving] /\ outcome' = [outcome EXCEPT ![u] = how]
Mine(u, step) == saving[u].step = step /\ UNCHANGED <<files, dialog, acts>>

SaveBegins(u) ==
  /\ Act /\ saving[u] = NotSaving /\ files[u].inventory # None /\ files[u].config # None
  /\ Go(u, "find") /\ alone' = [alone EXCEPT ![u] = TRUE] /\ outcome' = [outcome EXCEPT ![u] = "none"]
  /\ UNCHANGED <<db, files, loaded, dialog, raced>>

\* create_project would insert the default configuration, which is not valid.
FindProject(u) ==
  /\ Mine(u, "find")
  /\ IF project = None THEN Ends(u, "raised")
     ELSE saving' = [saving EXCEPT ![u].step = "metadata", ![u].doc = project] /\ UNCHANGED outcome
  /\ UNCHANGED <<db, loaded, alone, raced>>

\* The whole document is replaced by the one that was found.
ReplaceProject(u) ==
  /\ Mine(u, "metadata")
  /\ project' = [saving[u].doc EXCEPT !.meta = IF files[u].inventory.meta = None THEN @ ELSE files[u].inventory.meta]
  /\ saving' = [saving EXCEPT ![u].step = "assets", ![u].todo = files[u].inventory.entries]
  /\ Wrote(u) /\ UNCHANGED <<assets, outcome, raced>>

\* (Mutant: the data of the file replaces the data of the document.)
WithDataOf(a, e) == Asset(a.name, a.silo, e.val)

\* Every key of the file is set in the data of the document; others stay.
WithData(a, e) == [a EXCEPT !.val = e.val]

SaveAsset(u) ==
  /\ Mine(u, "assets")
  /\ \E e \in saving[u].todo :
       IF IsFree(e.name)
       THEN /\ saving' = [saving EXCEPT ![u].todo = @ \ {e}, ![u].missing = @ \cup {e}]
            /\ UNCHANGED <<assets, loaded, alone>>
       ELSE /\ saving' = [saving EXCEPT ![u].todo = @ \ {e}]
            /\ assets' = [assets EXCEPT ![Find(e.name)] = WithData(@, e)] /\ Wrote(u)
  /\ UNCHANGED <<project, outcome, raced>>

\* A list among the metadata is taken for a silo, and its items for assets.
SaveList(u) ==
  /\ Mine(u, "assets") /\ files[u].inventory.list /\ Ends(u, "raised")
  /\ UNCHANGED <<db, loaded, alone, raced>>

AssetsSaved(u) ==
  /\ Mine(u, "assets") /\ saving[u].todo = {} /\ ~files[u].inventory.list /\ Go(u, "create")
  /\ UNCHANGED <<db, outcome, loaded, alone, raced>>

\* (Mutant: without asking whether the name is taken.)
CreateUnasked(u) ==
  /\ Mine(u, "create") /\ saving[u].pending = None
  /\ \E e \in saving[u].missing :
       saving' = [saving EXCEPT ![u].pending = e, ![u].missing = @ \ {e}]
  /\ UNCHANGED <<db, outcome, loaded, alone, raced>>

\* create_asset: asked for, then inserted.
CreateChecks(u) ==
  /\ Mine(u, "create") /\ saving[u].pending = None
  /\ \E e \in saving[u].missing :
       IF IsFree(e.name)
       THEN saving' = [saving EXCEPT ![u].pending = e, ![u].missing = @ \ {e}] /\ UNCHANGED outcome
       ELSE Ends(u, "raised")
  /\ UNCHANGED <<db, loaded, alone, raced>>

\* Other programs that found the name free, and did not insert it yet.
Waiting(name) == {u \in Users : saving[u].pending # None /\ saving[u].pending.name = name}
DialogWaits(name) == dialog.pending # None /\ dialog.pending.name = name

CreateInserts(u) ==
  LET e == saving[u].pending
  IN /\ Mine(u, "create") /\ e # None /\ Len(assets) < MaxAssets
     /\ assets' = Append(assets, Asset(e.name, e.silo, e.val))
     /\ saving' = [saving EXCEPT ![u].pending = None] /\ Wrote(u)
     /\ raced' = (raced \/ Waiting(e.name) # {u} \/ DialogWaits(e.name))
     /\ UNCHANGED <<project, outcome>>

\* Schema 1.1 has no handler; the inventory is saved by then.
FindConfig(u) ==
  /\ Mine(u, "create") /\ saving[u].pending = None /\ saving[u].missing = {}
  /\ IF files[u].config.schema # "1.0" \/ ~Valid(files[u].config) THEN Ends(u, "raised")
     ELSE saving' = [saving EXCEPT ![u].step = "config", ![u].doc = project] /\ UNCHANGED outcome
  /\ UNCHANGED <<db, loaded, alone, raced>>

\* (Mutant: the project document is not replaced.)
ReplaceNothing(u) ==
  /\ Mine(u, "config") /\ Ends(u, "saved") /\ UNCHANGED <<db, loaded, alone, raced>>

\* A list of tasks is not valid in a project document of schema 2.1.
ReplaceConfig(u) ==
  /\ Mine(u, "config")
  /\ IF saving[u].doc.doc = "2.1" THEN Ends(u, "raised") /\ UNCHANGED <<project, loaded, alone>>
     ELSE project' = [saving[u].doc EXCEPT !.val = files[u].config.val] /\ Ends(u, "saved") /\ Wrote(u)
  /\ UNCHANGED <<assets, raced>>

-----------------------------------------------------------------------------
(* The Project Manager.  Its window opens only for tasks in an object. *)

\* set_parent: the parent's document as it is now.
ParentDoc(i) == IF i = 0 THEN None ELSE [id |-> i, name |-> assets[i].name, parents |-> assets[i].parents, label |-> assets[i].label]

OpenDialog ==
  /\ Act /\ ~dialog.open /\ project # None /\ project.doc = "2.1"
  /\ \E i \in 0..Len(assets) : dialog' = [NoDialog EXCEPT !.open = TRUE, !.parent = ParentDoc(i)]
  /\ UNCHANGED <<db, userVars, raced>>

SelectParent ==
  /\ Act /\ dialog.open /\ dialog.pending = None
  /\ \E i \in 0..Len(assets) : dialog' = [dialog EXCEPT !.parent = ParentDoc(i)]
  /\ UNCHANGED <<db, userVars, raced>>

(***************************************************************************)
(* AssetCreateDialog.on_add_asset up to the check for the name.  Without    *)
(* silos the "parents" of the parent's document the dialog keeps get the    *)
(* parent's label appended in place, whether or not the name is free.  A    *)
(* parent made by an inventory has no "parents", which raises.              *)
(***************************************************************************)
PressAdd(label, silo) ==
  LET parent == dialog.parent
      withSilo == project.silo
      name == IF parent = None THEN <<label>> ELSE Append(parent.name, label)
      parents == IF parent = None THEN <<>> ELSE Append(parent.parents, parent.label)
      doc == [Asset(name, IF withSilo THEN silo ELSE None, 0) EXCEPT
                !.visual = IF parent = None THEN None ELSE parent.id,
                !.parents = IF withSilo THEN None ELSE parents, !.label = label]
  IN /\ Act /\ dialog.open /\ dialog.pending = None
     /\ ~withSilo /\ parent # None => parent.parents # None
     /\ dialog' = [dialog EXCEPT !.parent = IF withSilo \/ parent = None THEN @ ELSE [@ EXCEPT !.parents = parents],
                                 !.pending = IF IsFree(name) THEN doc ELSE None]
     /\ UNCHANGED <<db, userVars, raced>>

\* lib.create_asset inserts; the window refreshes its assets in a thread.
AddInserts ==
  /\ dialog.pending # None /\ Len(assets) < MaxAssets
  /\ assets' = Append(assets, dialog.pending)
  /\ dialog' = [dialog EXCEPT !.pending = None, !.refreshing = TRUE]
  /\ raced' = (raced \/ Waiting(dialog.pending.name) # {}) /\ Wrote(None)
  /\ UNCHANGED <<project, files, saving, outcome, acts>>

\* The assets are there, the current one is selected again and becomes parent.
AssetsRefreshed ==
  /\ dialog.refreshing /\ dialog.pending = None
  /\ dialog' = [dialog EXCEPT !.refreshing = FALSE, !.parent = IF @ = None THEN None ELSE ParentDoc(@.id)]
  /\ UNCHANGED <<db, userVars, raced, acts>>

InventoryNext ==
  \/ \E u \in Users :
       \/ InitFiles(u) \/ Load(u) \/ Edit(u) \/ SaveBegins(u)
       \/ FindProject(u) \/ ReplaceProject(u) \/ SaveAsset(u) \/ SaveList(u) \/ AssetsSaved(u)
       \/ CreateChecks(u) \/ CreateInserts(u) \/ FindConfig(u) \/ ReplaceConfig(u)
  \/ OpenDialog \/ SelectParent \/ AddInserts \/ AssetsRefreshed
  \/ \E label \in Labels, silo \in Silos : PressAdd(label, silo)

InventorySpec == InventoryInit /\ [][InventoryNext]_inventoryVars

-----------------------------------------------------------------------------
\* Saving files as they were loaded leaves the assets as they are at every step
\* of the save, wherever it may raise, unless someone else wrote, or a race gave
\* two assets the same name before.
RoundTrip == ~raced => \A u \in Users : loaded[u] # None => assets = loaded[u]

\* No two assets have the same name, as long as no two programs found the same
\* name free at the same time; an inventory that lists a name twice included.
CalmNamesUnique ==
  ~raced => \A i, j \in 1..Len(assets) : assets[i].name = assets[j].name => i = j

\* A save that reports success left all of the inventory and of the
\* configuration in the database, unless somebody else wrote since it began.
SavedAll ==
  \A u \in Users : outcome[u] = "saved" /\ alone[u] =>
    LET inv == files[u].inventory IN
    /\ \A e \in inv.entries :
         \E a \in ToSet(assets) : a.name = e.name /\ \E f \in inv.entries : f.name = e.name /\ f.val = a.val
    /\ inv.meta # None => project.meta = inv.meta
    /\ project.val = files[u].config.val

\* "Use parent's "parents" value and append it's "label"" (dialogs.py:208): the
\* parents of an asset are those of its parent and the parent.
ParentsFollow ==
  \A i \in 1..Len(assets) : LET a == assets[i] IN
    a.parents # None /\ a.visual # None =>
      a.parents = Append(assets[a.visual].parents, assets[a.visual].label)
=============================================================================
