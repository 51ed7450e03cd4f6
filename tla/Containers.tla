----------------------------- MODULE Containers -----------------------------
(***************************************************************************)
(* Published representations, the containers of a scene that refer to      *)
(* them, and what api.load, update, switch and remove (pipeline.py) do to  *)
(* a container.  Every function asks the database anew, where other users  *)
(* publish, archive and delete in the meantime.                            *)
(***************************************************************************)
EXTENDS Integers, Sequences, FiniteSets

CONSTANTS
  Subsets,      \* [asset, name]: the subsets of the project
  ReprNames,    \* names of representations
  Containers,   \* names containers have in the scene
  Accepts,      \* the representations the loader of a container is compatible with
  Orphans,      \* containers whose loader is registered no more
  NoRepre,      \* no such container
  FirstVersions,\* what is published at the start
  FirstScenes,  \* the scenes that may be open then
  MaxVersion,   \* bound: versions of a subset
  MaxDocs       \* bound: changes other users make

ASSUME SubsetsAssumption ==
  /\ \A s \in Subsets : s = [asset |-> s.asset, name |-> s.name]
  /\ FirstVersions \in [Subsets -> Seq((SUBSET ReprNames) \ {{}})]
  /\ \A s \in Subsets : Len(FirstVersions[s]) <= MaxVersion
ASSUME LoadersAssumption == Accepts \in [Containers -> SUBSET ReprNames] /\ Orphans \subseteq Containers
ASSUME BoundsAssumption == MaxVersion \in Nat /\ MaxDocs \in Nat

HeroVersion == 0        \* HeroVersionType: the version that replaces itself
LatestVersion == -1     \* update's default

\* A representation is known by the version it belongs to and its name.
Repres == [subset : Subsets, version : 0..MaxVersion, name : ReprNames]
ASSUME NoRepreAssumption == NoRepre \notin Repres
ASSUME ScenesAssumption == FirstScenes \subseteq [Containers -> Repres \cup {NoRepre}]

VARIABLES
  versions,     \* per subset and version: the representations published with it
  hero,         \* per subset: the version its hero version points to, and its representations
  archived,     \* representations that became "archived_representation"
  lost,         \* representations whose document was deleted
  docs,         \* number of changes other users made
  scene         \* the representation of each container, as host.ls() tells

docVars == <<versions, hero, archived, lost, docs>>

Latest(s) == Len(versions[s])
HasVersion(s, v) ==
  \/ v = LatestVersion /\ Latest(s) > 0
  \/ v = HeroVersion /\ hero[s].of > 0
  \/ v \in 1..Latest(s)

\* What a query for a representation finds: by its id, or with its type too.
Found(r) ==
  /\ HasVersion(r.subset, r.version) /\ r \notin lost
  /\ r.name \in IF r.version = HeroVersion THEN hero[r.subset].repres ELSE versions[r.subset][r.version]
IsRepre(r) == Found(r) /\ r \notin archived

InitContainers ==
  /\ versions = FirstVersions
  /\ hero = [s \in Subsets |-> [of |-> 0, repres |-> {}]]
  /\ archived = {} /\ lost = {} /\ docs = 0
  /\ scene \in FirstScenes

\* host.ls(), in Maya: the sets that are marked as containers.
Present == {c \in Containers : scene[c] # NoRepre}

\* containerise: what was loaded becomes a set with the mark and the id of its
\* representation.
Containerise(c, r) == scene' = [scene EXCEPT ![c] = r]

(* The functions of pipeline.py, for a container as the caller knows it: its
   name c and the representation r it had when the caller asked. *)

\* get_representation_context by id, is_compatible_loader, Loader.load.
Load(c, r) ==
  /\ scene[c] = NoRepre /\ c \notin Orphans /\ Found(r) /\ r.name \in Accepts[c]
  /\ Containerise(c, r)

\* (Mutant: the versions sorted the other way around.)
UpdatedToFirst(r, v) == [r EXCEPT !.version = IF v = LatestVersion THEN 1 ELSE v]

\* The representation of the asked version that has the same name.
UpdatedTo(r, v) == [r EXCEPT !.version = IF v = LatestVersion THEN Latest(r.subset) ELSE v]

\* Otherwise update raises: an assertion, no loader, a loader given None
\* because the version was published without that representation, or one
\* that finds its container gone.
CanUpdate(c, r, v) ==
  /\ Found(r) /\ HasVersion(r.subset, v) /\ IsRepre(UpdatedTo(r, v))
  /\ c \notin Orphans /\ scene[c] # NoRepre

CanRemove(c, r) == Found(r) /\ c \notin Orphans /\ scene[c] # NoRepre

CanSwitch(c, r) == IsRepre(r) /\ c \notin Orphans /\ r.name \in Accepts[c] /\ scene[c] # NoRepre

-----------------------------------------------------------------------------
\* Other users.
DocStep == docs < MaxDocs /\ docs' = docs + 1 /\ UNCHANGED scene

PublishVersion(s) ==
  /\ DocStep /\ Latest(s) < MaxVersion
  /\ \E names \in (SUBSET ReprNames) \ {{}} : versions' = [versions EXCEPT ![s] = Append(@, names)]
  /\ UNCHANGED <<hero, archived, lost>>

\* The hero version is made of a version with its representations.
PublishHero(s) ==
  /\ DocStep /\ Latest(s) > 0
  /\ hero' = [hero EXCEPT ![s] = [of |-> Latest(s), repres |-> versions[s][Latest(s)]]]
  /\ UNCHANGED <<versions, archived, lost>>

ArchiveRepre(r) ==
  /\ DocStep /\ IsRepre(r) /\ archived' = archived \cup {r}
  /\ UNCHANGED <<versions, hero, lost>>

DeleteRepre(r) ==
  /\ DocStep /\ Found(r) /\ lost' = lost \cup {r}
  /\ UNCHANGED <<versions, hero, archived>>

Elsewhere ==
  \/ \E s \in Subsets : PublishVersion(s) \/ PublishHero(s)
  \/ \E r \in Repres : ArchiveRepre(r) \/ DeleteRepre(r)
=============================================================================
