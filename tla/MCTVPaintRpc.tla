---------------------------- MODULE MCTVPaintRpc ----------------------------
(* A panel route that waits and one that does not, whose tool reads the      *)
(* scene when it opens.                                                      *)
EXTENDS TVPaintRpc

MCRoutes  == {"loader_tool", "scene_inventory_tool"}
MCWaited  == {"loader_tool"}
MCTalking == {"scene_inventory_tool"}
=============================================================================
