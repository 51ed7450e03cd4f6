---------------------------- MODULE CreatorWindow ----------------------------
(***************************************************************************)
(* The form of the Creator tool (tools/creator/app.py).  Every edit makes  *)
(* the form invalid and starts a timer; when it fires, the asset is looked *)
(* up, the subset's name is computed and the form becomes valid again.     *)
(* Only a valid form creates, and what it creates is the computed name.    *)
(***************************************************************************)
EXTENDS Naturals

CONSTANTS
  Families,   \* the families that have a Creator plugin
  Texts,      \* what a user types into the subset field
  DefaultOf,  \* the default text of a family
  Assets,     \* names of the project's assets
  Typos,      \* other texts of the asset field, the empty one among them
  NoFamily,   \* "No registered families"
  NoName      \* nothing computed yet

ASSUME FormAssumption ==
  /\ DefaultOf \in [Families -> Texts]
  /\ Assets \cap Typos = {} /\ NoFamily \notin Families
  /\ \A f \in Families, t \in Texts : <<f, t>> # NoName

VARIABLES
  item,     \* current item of the family list
  text,     \* the subset field
  asset,    \* the asset field
  result,   \* the computed name, in the disabled field
  valid,    \* state["valid"]
  pending   \* the timer of channel "gui" runs

formVars == <<item, text, asset, result, valid, pending>>

InitForm ==
  /\ item = NoFamily /\ text = NoName /\ asset = NoName
  /\ result = NoName /\ valid = FALSE /\ pending = FALSE
ClearForm ==
  /\ item' = NoFamily /\ text' = NoName /\ asset' = NoName
  /\ result' = NoName /\ valid' = FALSE /\ pending' = FALSE

\* get_subset_name of the family's plugin.
SubsetName(f, t) == <<f, t>>

\* on_data_changed: nothing is created until the timer confirms the form.
DataChanged == valid' = FALSE /\ pending' = TRUE

\* A new window is filled from the session and from the registered plugins; it
\* selects the family of the task, or the first one.
FillForm(a, f) ==
  /\ asset' = a /\ item' = f /\ result' = NoName
  /\ text' = IF f = NoFamily THEN NoName ELSE DefaultOf[f]
  /\ DataChanged

PickFamily ==
  \E f \in Families \ {item} :
    /\ item # NoFamily
    /\ item' = f /\ text' = DefaultOf[f]
    /\ DataChanged /\ UNCHANGED <<asset, result>>

\* (Mutant: typing does not hold creation back.)
TypeTextLoosely ==
  \E t \in Texts \ {text} :
    /\ text' = t /\ pending' = TRUE /\ UNCHANGED <<item, asset, result, valid>>
TypeText ==
  \E t \in Texts \ {text} :
    /\ text' = t /\ DataChanged /\ UNCHANGED <<item, asset, result>>

TypeAsset ==
  \E a \in (Assets \cup Typos) \ {asset} :
    /\ asset' = a /\ DataChanged /\ UNCHANGED <<item, text, result>>

\* The timer fires.  A text that names no asset leaves the last name shown.
CheckData ==
  /\ pending /\ pending' = FALSE
  /\ valid' = (asset \in Assets /\ item # NoFamily)
  /\ result' = IF valid' THEN SubsetName(item, text) ELSE result
  /\ UNCHANGED <<item, text, asset>>

\* A plugin's get_subset_name raises in the timer's callback.
CheckRaises ==
  /\ pending /\ asset \in Assets /\ item # NoFamily
  /\ pending' = FALSE /\ UNCHANGED <<item, text, asset, result, valid>>

EditForm == PickFamily \/ TypeText \/ TypeAsset
Timer == CheckData \/ CheckRaises

\* A form that may create shows the name its fields give, of a family that has
\* a plugin, for an asset that exists: no edit and no late timer leaves the
\* button enabled over a name computed from earlier fields.
ReadyMatches ==
  valid => item \in Families /\ asset \in Assets /\ result = SubsetName(item, text)
=============================================================================
