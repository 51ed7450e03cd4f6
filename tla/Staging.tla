------------------------------- MODULE Staging -------------------------------
(***************************************************************************)
(* Creating, loading, listing and removing what a scene publishes and      *)
(* holds, in TVPaint, Photoshop, After Effects and Harmony, with the       *)
(* Creator and the Subset Manager.  The scene keeps the records as one     *)
(* text, and every operation is a plan of calls to the host: the list is   *)
(* read by one call, changed in Python and written back by another.        *)
(* Between two calls the user may delete layers and switch documents.      *)
(***************************************************************************)
EXTENDS CreatorWindow, TVPaintMetadata, FiniteSets

CONSTANTS
  Docs,      \* open documents, 1..n
  OldName,   \* the name of the layer each document starts with
  LoadName,  \* the name of what a loader imports
  BaseOnly,  \* families whose plugin keeps the process of this repository's Creator
  MaxNode,   \* bound: layers ever made in a document
  MaxActs    \* bound: edits of the form, operations, switches of the document and deletions

\* The last: a section's text never outgrows the chunk keys there are, with one
\* record more for each act.
ASSUME StagingAssumption ==
  /\ 1 \in Docs /\ Docs \subseteq Nat \ {0} /\ MaxNode \in Nat \ {0} /\ MaxActs \in Nat
  /\ Width * (MaxActs + 1) + 2 <= MaxChunks * ChunkLength

NoKey == 0
Key(host, d, n) == IF host = "tvpaint" THEN (d - 1) * MaxNode + n ELSE n
Hosts == {"tvpaint", "photoshop", "aftereffects", "harmony"}
Rec(kind, key, name) == [kind |-> kind, key |-> key, name |-> name]

VARIABLES
  host,     \* registered_host
  granted,  \* the user of TVPaint lets scripts write text files
  docs,     \* layers and metadata of each document
  active,   \* the host's active document
  open,     \* windows shown
  rows,     \* Subset Manager: the rows and their document
  op,       \* the running operation
  calm,     \* history: no operation failed midway, lost its document or wrote over what it could not read
  acts      \* acts of the user so far

stageVars == <<host, granted, docs, active, open, rows, op, calm, acts>>
stagingVars == <<formVars, stageVars>>

\* steady: its document stayed active, and what it read is what is there.
NoOp == [what |-> "none", name |-> NoName, key |-> NoKey, plan |-> <<>>, data |-> <<>>,
         doc |-> 1, ids |-> {}, todo |-> {}, steady |-> TRUE, late |-> FALSE]
NoRows == [doc |-> 1, list |-> <<>>]

Doc(h, d, recorded, form) ==
  LET list == IF recorded THEN <<Rec("instance", Key(h, d, 1), OldName[d])>> ELSE <<>>
      dumped == Dump(list) IN
  [name |-> [n \in 1..MaxNode |-> IF n = 1 THEN OldName[d] ELSE NoName],
   next |-> 2, alive |-> {1}, icon |-> IF recorded /\ h = "photoshop" THEN {1} ELSE {},
   list |-> IF h = "tvpaint" THEN <<>> ELSE list,
   instances |-> IF h # "tvpaint" \/ ~recorded THEN EmptySection
                 ELSE IF form = "chunks" THEN Store(EmptySection, list)
                 ELSE [EmptySection EXCEPT !.old =
                         IF form = "whole" THEN dumped ELSE SubSeq(dumped, 1, Width)],
   containers |-> EmptySection]

StagingInit ==
  /\ InitForm
  /\ host \in Hosts /\ granted \in BOOLEAN /\ (granted \/ host = "tvpaint")
  /\ \E recorded \in BOOLEAN, form \in {"chunks", "whole", "cut"} :
       /\ form # "chunks" => host = "tvpaint" /\ recorded /\ granted
       /\ granted \/ recorded
       /\ docs = [d \in Docs |-> Doc(host, d, recorded, form)]
  /\ active = 1 /\ open = {} /\ rows = NoRows /\ op = NoOp /\ calm = TRUE
  /\ acts = 0

Here == docs[active]
Idle == op = NoOp
\* What ls and list_instances find in a document.
Stored(d) == IF host = "tvpaint" THEN Records(docs[d].instances) \o Records(docs[d].containers)
             ELSE docs[d].list
\* The records of a list at some positions, in order.
Picked(list, at) ==
  LET picked[i \in 0..Len(list)] ==
        IF i = 0 THEN <<>> ELSE IF i \in at THEN Append(picked[i - 1], list[i]) ELSE picked[i - 1]
  IN picked[Len(list)]
Instances(list) == Picked(list, {i \in DOMAIN list : list[i].kind = "instance"})

-----------------------------------------------------------------------------
(* Plans: the calls of an operation, in order.                             *)

TVPaintCreate == <<"count", "read", "write">>
HarmonyCreate == <<"exists", "make", "read", "write">>
AfterEffectsCreate(f) ==
  IF f \in BaseOnly THEN <<"exists", "items">> ELSE <<"make", "read", "ids", "write">>
PhotoshopCreate(f) ==
  IF f \in BaseOnly THEN <<"exists">> ELSE <<"make", "read", "ids", "write">>
CreatePlan(f) ==
  CASE host = "tvpaint"      -> TVPaintCreate
    [] host = "harmony"      -> HarmonyCreate
    [] host = "aftereffects" -> AfterEffectsCreate(f)
    [] host = "photoshop"    -> PhotoshopCreate(f)

TVPaintLoad == <<"count", "read", "write">>
HarmonyLoad == <<"make", "read", "write">>
AfterEffectsLoad == <<"make", "read", "ids", "write">>
PhotoshopLoad == <<"make", "read", "ids", "write">>
LoadPlan ==
  CASE host = "tvpaint"      -> TVPaintLoad
    [] host = "harmony"      -> HarmonyLoad
    [] host = "aftereffects" -> AfterEffectsLoad
    [] host = "photoshop"    -> PhotoshopLoad

TVPaintRemove == <<"count", "read", "write">>
HarmonyRemove == <<"read", "write", "delete">>
AfterEffectsRemove == <<"read", "write", "rename">>
PhotoshopRemove == <<"read", "write", "rename">>
RemovePlan ==
  CASE host = "tvpaint"      -> TVPaintRemove
    [] host = "harmony"      -> HarmonyRemove
    [] host = "aftereffects" -> AfterEffectsRemove
    [] host = "photoshop"    -> PhotoshopRemove

Begin(what, name, key, plan) ==
  op' = [NoOp EXCEPT !.what = what, !.name = name, !.key = key, !.plan = plan]

ListPlan == IF host = "tvpaint" THEN <<"count", "read">> ELSE <<"read">>
\* A refresh of the Subset Manager empties the rows before it asks the host.
Refresh == rows' = NoRows /\ Begin("list", NoName, NoKey, ListPlan)

At(step) == op.plan # <<>> /\ Head(op.plan) = step
Next1(o) == [o EXCEPT !.plan = Tail(@)]
\* An exception: nobody undoes what the plan has done.
Raise == op' = NoOp /\ calm' = (calm /\ ~op.late)
Quit == op' = [op EXCEPT !.plan = <<>>]

-----------------------------------------------------------------------------
(* Steps of a plan.                                                        *)

stepVars == <<formVars, host, granted, active, open, rows, acts>>

\* Photoshop's Creator reads an attribute that layers do not have, and a
\* document always has a layer.
PhotoshopExists == Raise
\* The Creator looks for the name among the layers.
Exists ==
  /\ At("exists") /\ UNCHANGED <<stepVars, docs>>
  /\ IF host = "photoshop" THEN PhotoshopExists
     ELSE /\ calm' = calm
          /\ IF \E n \in Here.alive : Here.name[n] = op.name THEN Quit ELSE op' = Next1(op)

\* Harmony's nodes are known by their path: a new one gets the path of a
\* deleted one with its name.
NewNode(doc, n) ==
  LET reused == {m \in 1..(doc.next - 1) \ doc.alive : doc.name[m] = op.name} IN
  IF reused = {} THEN n = doc.next ELSE n \in reused
NewComposition(doc, n) == n = doc.next
NewLayer(doc, n) == n = doc.next
\* create_group names the group with the publish icon, an import has no icon.
Marked(n) == IF op.what = "create" THEN {n} ELSE {}
Made(doc, n) ==
  [doc EXCEPT !.name[n] = op.name, !.alive = @ \cup {n},
              !.next = IF n = @ THEN n + 1 ELSE @,
              !.icon = IF host = "photoshop" THEN @ \cup Marked(n) ELSE @]
\* A group, composition, footage or node is made.
Make ==
  /\ At("make") /\ UNCHANGED <<stepVars, calm>>
  /\ \E n \in 1..MaxNode :
       /\ CASE host = "harmony"      -> NewNode(Here, n)
            [] host = "aftereffects" -> NewComposition(Here, n)
            [] host = "photoshop"    -> NewLayer(Here, n)
       /\ docs' = [docs EXCEPT ![active] = Made(@, n)]
       /\ op' = [Next1(op) EXCEPT !.key = n, !.late = TRUE]

\* After Effects: the compositions to record, the selected ones or all.
Items ==
  /\ At("items") /\ UNCHANGED <<stepVars, docs, calm>>
  /\ \E chosen \in SUBSET Here.alive :
       op' = [op EXCEPT !.todo = chosen,
                        !.plan = IF chosen = {} THEN <<>> ELSE <<"read", "ids", "write">>]

Section == IF op.what = "load" THEN "containers" ELSE "instances"

\* A read is over; the rest of the plan may be another one then.
Found(list, steady, rest) ==
  /\ op' = [op EXCEPT !.doc = active, !.data = list, !.steady = steady, !.plan = rest]
  /\ calm' = calm
Reading(list) == Found(list, op.steady, Tail(op.plan))
\* What cannot be read is taken for a scene without data: Harmony's reply has no
\* result, Photoshop's script fails and answers with a text that is no JSON.
Misread == Found(<<>>, FALSE, Tail(op.plan))
\* A read of TVPaint's metadata ends with a text, none when the user forbade
\* text files; a text that does not parse is replaced by the default.
Decode(string, rest) ==
  IF string = <<>> \/ Parses(string)
  THEN Found(IF string = <<>> THEN <<>> ELSE Listed(string), op.steady /\ granted, rest)
  ELSE Found(<<>>, op.steady, <<"default">> \o rest)
\* The main key holds the number of chunks, and a second call reads their keys;
\* or nothing, or the text itself.
Count ==
  LET section == Here[Section] IN
  /\ At("count") /\ UNCHANGED <<stepVars, docs>>
  /\ IF granted /\ section.old = <<>> /\ section.count > 0
     THEN op' = [Next1(op) EXCEPT !.doc = active] /\ calm' = calm
     ELSE Decode(IF granted THEN section.old ELSE <<>>, Tail(Tail(op.plan)))
\* The number was read from op.doc, which only this operation writes.
TVPaintRead ==
  docs' = docs /\ Decode(ChunksText(Here[Section], docs[op.doc][Section].count), Tail(op.plan))
Default ==
  /\ At("default") /\ UNCHANGED stepVars
  /\ docs' = [docs EXCEPT ![active][Section] = Store(@, <<>>)]
  /\ calm' = (calm /\ op.steady) /\ op' = Next1(op)
HarmonyRead == docs' = docs /\ (Reading(Here.list) \/ Misread)
\* Listing looks for the uuid or members of every record.
AfterEffectsRead ==
  /\ docs' = docs
  /\ IF op.what \in {"list", "remove"} /\ \E i \in DOMAIN Here.list : Here.list[i].key = NoKey
     THEN Raise ELSE Reading(Here.list)
PhotoshopRead == docs' = docs /\ (Reading(Here.list) \/ Misread)
Read ==
  /\ At("read") /\ UNCHANGED stepVars
  /\ CASE host = "tvpaint"      -> TVPaintRead
       [] host = "harmony"      -> HarmonyRead
       [] host = "aftereffects" -> AfterEffectsRead
       [] host = "photoshop"    -> PhotoshopRead

\* The ids of the layers, to keep records of living layers only.
PhotoshopIds == Here.alive
AfterEffectsIds == Here.alive
Ids ==
  /\ At("ids") /\ UNCHANGED <<stepVars, docs, calm>>
  /\ op' = [Next1(op) EXCEPT !.ids = IF host = "photoshop" THEN PhotoshopIds ELSE AfterEffectsIds]

NewRec == Rec(IF op.what = "load" THEN "container" ELSE "instance", op.key, op.name)
\* A record of the same layer is updated, another one is appended.
Imprinted(list) ==
  IF op.key # NoKey /\ \E i \in DOMAIN list : list[i].key = op.key
  THEN [i \in DOMAIN list |-> IF list[i].key = op.key THEN NewRec ELSE list[i]]
  ELSE Append(list, NewRec)
\* What an imprint writes; After Effects' instances outlive their compositions.
PhotoshopImprint ==
  LET list == Imprinted(op.data) IN Picked(list, {i \in DOMAIN list : list[i].key \in op.ids})
AfterEffectsImprint ==
  LET list == Imprinted(op.data) IN
  Picked(list, {i \in DOMAIN list : list[i].kind = "instance" \/ list[i].key \in op.ids})
TVPaintImprint == Imprinted(op.data)
HarmonyImprint == Imprinted(op.data)
Written ==
  IF op.what = "remove" THEN Picked(op.data, {i \in DOMAIN op.data : op.data[i].key # op.key})
  ELSE CASE host = "photoshop"    -> PhotoshopImprint
         [] host = "aftereffects" -> AfterEffectsImprint
         [] host = "tvpaint"      -> TVPaintImprint
         [] host = "harmony"      -> HarmonyImprint

\* TVPaint and Harmony look for the record to remove before they write.
Missing ==
  /\ op.what = "remove" /\ host \in {"tvpaint", "harmony"}
  /\ \A i \in DOMAIN op.data : op.data[i].key # op.key
\* The list is written back into whatever document is active by now.  After
\* Effects' Creator then goes on with its next composition.
Write ==
  /\ At("write") /\ UNCHANGED stepVars
  /\ IF Missing
     THEN /\ docs' = docs
          /\ IF host = "harmony" THEN Raise ELSE Quit /\ calm' = calm
     ELSE
       /\ docs' = IF host = "tvpaint"
                  THEN [docs EXCEPT ![active][Section] = Store(@, Written)]
                  ELSE [docs EXCEPT ![active].list = Written]
       /\ calm' = (calm /\ op.steady)
       /\ \E n \in op.todo \cup {NoKey} :
            LET left == op.todo \ {n} IN
            /\ n = NoKey <=> op.todo = {}
            /\ op' = [Next1(op) EXCEPT !.late = TRUE, !.todo = left,
                 !.plan = IF left = {} THEN @ ELSE <<"read", "ids", "write">>]

\* The removed instance's layer loses the icon.
PhotoshopRename == docs' = [docs EXCEPT ![active].icon = @ \ {op.key}]
\* The call is given a record instead of an id and renames nothing.
AfterEffectsRename == docs' = docs
Rename ==
  /\ At("rename") /\ UNCHANGED stepVars
  /\ calm' = (calm /\ op.steady)
  /\ IF host = "photoshop" THEN PhotoshopRename ELSE AfterEffectsRename
  /\ op' = Next1(op)

DeleteNode ==
  /\ At("delete") /\ UNCHANGED <<stepVars, calm>>
  /\ docs' = [docs EXCEPT ![active].alive = @ \ {op.key}]
  /\ op' = Next1(op)

\* A call fails: the host reports an error or the connection is lost.
Fail == op.plan # <<>> /\ Raise /\ UNCHANGED <<stepVars, docs>>

\* (Mutant: the rows stay as they are after a removal.)
DoneSilently ==
  /\ op.what # "none" /\ op.plan = <<>> /\ op' = NoOp
  /\ rows' = IF op.what = "list" THEN [doc |-> op.doc, list |-> Instances(op.data)] ELSE rows
  /\ UNCHANGED <<formVars, host, granted, docs, active, open, calm, acts>>
\* The plan is done: the list is shown, and a removal is followed by a refresh.
Done ==
  /\ op.what # "none" /\ op.plan = <<>>
  /\ CASE op.what = "remove" -> Refresh
       [] op.what = "list" ->
            /\ rows' = [doc |-> op.doc, list |-> Instances(op.data)]
            /\ op' = NoOp
       [] OTHER -> op' = NoOp /\ rows' = rows
  /\ UNCHANGED <<formVars, host, granted, docs, active, open, calm, acts>>

Step == \/ Exists \/ Make \/ Items \/ Count \/ Read \/ Default \/ Ids \/ Write \/ Rename
        \/ DeleteNode \/ Fail \/ Done

-----------------------------------------------------------------------------
(* The user.                                                               *)

\* A tool opened from a button runs until it is closed; only TVPaint's process
\* shows several.
MayOpen == Idle /\ (open = {} \/ host = "tvpaint")
Room == Here.next <= MaxNode
Act == acts < MaxActs /\ acts' = acts + 1

OpenCreator ==
  /\ MayOpen /\ "creator" \notin open
  /\ \E a \in Assets, f \in Families \cup {NoFamily} : FillForm(a, f)
  /\ open' = open \cup {"creator"}
  /\ UNCHANGED <<host, granted, docs, active, rows, op, calm, acts>>

Edit ==
  /\ "creator" \in open /\ Idle /\ EditForm /\ Act
  /\ UNCHANGED <<host, granted, docs, active, open, rows, op, calm>>
Confirm == "creator" \in open /\ Idle /\ Timer /\ UNCHANGED stageVars

\* on_create.  TVPaint's record gets a uuid, others' the id of the layer.
Create ==
  /\ Act
  /\ "creator" \in open /\ Idle /\ valid /\ Room
  /\ Begin("create", result,
           IF host = "tvpaint" THEN Key(host, active, Here.next) ELSE NoKey, CreatePlan(item))
  /\ docs' = IF host = "tvpaint" THEN [docs EXCEPT ![active].next = @ + 1] ELSE docs
  /\ UNCHANGED <<formVars, host, granted, active, open, rows, calm>>

Load ==
  /\ Act
  /\ MayOpen /\ Room
  /\ Begin("load", LoadName,
           IF host = "tvpaint" THEN Key(host, active, Here.next) ELSE NoKey, LoadPlan)
  /\ docs' = IF host = "tvpaint" THEN [docs EXCEPT ![active].next = @ + 1] ELSE docs
  /\ UNCHANGED <<formVars, host, granted, active, open, rows, calm>>

OpenManager ==
  /\ MayOpen /\ "manager" \notin open /\ open' = open \cup {"manager"}
  /\ Refresh /\ UNCHANGED <<formVars, host, granted, docs, active, calm, acts>>

PressRefresh ==
  /\ "manager" \in open /\ Idle
  /\ Refresh /\ UNCHANGED <<formVars, host, granted, docs, active, open, calm, acts>>

\* "Remove instance" of a row's menu.
RemoveRow ==
  /\ Act
  /\ "manager" \in open /\ Idle
  /\ \E i \in DOMAIN rows.list :
       LET r == rows.list[i] IN
       op' = [NoOp EXCEPT !.what = "remove", !.name = r.name, !.key = r.key,
                          !.plan = RemovePlan, !.steady = rows.doc = active]
  /\ UNCHANGED <<formVars, host, granted, docs, active, open, rows, calm>>

\* A tool is made anew when it is shown again.
CloseCreator ==
  /\ Idle /\ "creator" \in open /\ open' = open \ {"creator"} /\ ClearForm
  /\ UNCHANGED <<host, granted, docs, active, rows, op, calm, acts>>
CloseManager ==
  /\ Idle /\ "manager" \in open /\ open' = open \ {"manager"} /\ rows' = NoRows
  /\ UNCHANGED <<formVars, host, granted, docs, active, op, calm, acts>>

SwitchDocument ==
  /\ Act
  /\ host # "harmony" /\ \E d \in Docs \ {active} : active' = d
  /\ op' = IF Idle THEN op ELSE [op EXCEPT !.steady = FALSE]
  /\ UNCHANGED <<formVars, host, granted, docs, open, rows, calm>>

\* The user deletes a layer, never the last one.
DeleteLayer ==
  /\ Act
  /\ host # "tvpaint" /\ Cardinality(Here.alive) > 1
  /\ \E n \in Here.alive :
       docs' = [docs EXCEPT ![active] =
                 [Here EXCEPT !.alive = Here.alive \ {n}, !.icon = Here.icon \ {n}]]
  /\ UNCHANGED <<formVars, host, granted, active, open, rows, op, calm>>

StagingNext == \/ Step \/ OpenCreator \/ Edit \/ Confirm \/ Create \/ Load \/ OpenManager \/ PressRefresh
               \/ RemoveRow \/ CloseCreator \/ CloseManager \/ SwitchDocument \/ DeleteLayer

StagingSpec == StagingInit /\ [][StagingNext]_stagingVars

-----------------------------------------------------------------------------
(* Properties.                                                             *)

\* While its document stays active, an operation drops or changes no record but
\* its own and those of deleted layers, and no record of another document: the
\* read, change and write of a whole list loses nothing, whatever its length
\* was before.  (Unless what is there could not be read and was taken for an empty
\* list: then the write drops it all.)
Kept ==
  [][op.steady /\ docs' # docs =>
      \A d \in Docs : \A i \in DOMAIN Stored(d) :
        LET r == Stored(d)[i] IN
        \/ r \in {Stored(d)'[j] : j \in DOMAIN Stored(d)'}
        \/ /\ d = active
           /\ r.key = op.key \/ (host # "tvpaint" /\ r.key \notin docs[d].alive)]_stagingVars

\* Between operations what the user sees is what is stored.  A row of the Subset
\* Manager stands for an instance the document still holds under the name shown,
\* so that "Remove instance" removes that one; and Photoshop marks with an icon
\* exactly the groups that are published: a record without a marked group, or a
\* mark without a record, is the work of an operation that failed midway.
ShownIsStored ==
  calm /\ Idle =>
    /\ "manager" \in open /\ rows.doc = active =>
         \A i \in DOMAIN rows.list : \E j \in DOMAIN Stored(active) : Stored(active)[j] = rows.list[i]
    /\ host = "photoshop" =>
         \A d \in Docs : \A n \in docs[d].alive :
           n \in docs[d].icon
             <=> \E i \in DOMAIN docs[d].list : docs[d].list[i].kind = "instance" /\ docs[d].list[i].key = n
=============================================================================
