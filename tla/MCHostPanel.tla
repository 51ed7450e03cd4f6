----------------------------- MODULE MCHostPanel -----------------------------
(* Three connections of the panel, three presses and three calls.            *)
EXTENDS HostPanel
=============================================================================
