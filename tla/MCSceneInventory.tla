-------------------------- MODULE MCSceneInventory --------------------------
(* Two assets with two and one subset; one container nested in another; one  *)
(* of them of a loader that takes one representation only.                   *)
EXTENDS SceneInventory

S(a, n) == [asset |-> a, name |-> n]
MCSubsets == {S("hero", "model"), S("hero", "rig"), S("prop", "model")}
MCReprNames == {"abc", "ma"}
MCContainers == {"c1", "c2"}
MCAccepts == [c \in MCContainers |-> IF c = "c1" THEN MCReprNames ELSE {"ma"}]
MCNoRepre == [none |-> TRUE]
MCFirstVersions == [s \in MCSubsets |->
  IF s = S("hero", "model") THEN <<{"abc", "ma"}, {"ma"}>> ELSE IF s = S("prop", "model") THEN <<{"ma"}>> ELSE <<>>]
R(s, v, n) == [subset |-> s, version |-> v, name |-> n]
MCFirstScenes == {
  [c \in MCContainers |-> IF c = "c1" THEN R(S("hero", "model"), 1, "abc") ELSE R(S("prop", "model"), 1, "ma")],
  [c \in MCContainers |-> R(S("hero", "model"), IF c = "c1" THEN 1 ELSE 2, "ma")]}
MCParent == [c \in MCContainers |-> "c1"]
MCFollowed == {R(S("prop", "model"), 1, "ma")}
=============================================================================
