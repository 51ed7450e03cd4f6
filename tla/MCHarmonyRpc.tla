---------------------------- MODULE MCHarmonyRpc ----------------------------
(* Model-checking instance of HarmonyRpc. *)
EXTENDS HarmonyRpc

\* A call shorter than the echo it may share a buffer with.
MCCallLens == {1}
=============================================================================
