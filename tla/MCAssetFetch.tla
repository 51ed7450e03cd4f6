----------------------------- MODULE MCAssetFetch -----------------------------
(* Two projects for the user to switch between, the session's asset and one more. *)
EXTENDS AssetFetch

MCProjects == {"project", "library"}
MCNames == {"context", "other"}
MCContextName == "context"
=============================================================================
