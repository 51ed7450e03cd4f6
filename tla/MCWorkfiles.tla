---------------------------- MODULE MCWorkfiles ----------------------------
(* Two assets; one has a task more than the other. *)
EXTENDS MayaHost
MCTasksOf == [a \in Assets |-> IF a = "hero" THEN {"anim", "rig"} ELSE {"anim"}]
MCFirstFiles == {[dir |-> [asset |-> "hero", task |-> "rig", at |-> 0], asset |-> "hero", task |-> "rig", version |-> 1]}
=============================================================================
