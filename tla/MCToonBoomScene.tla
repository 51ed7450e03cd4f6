--------------------------- MODULE MCToonBoomScene ---------------------------
(* The template and one work file, four writes after the start: two saves   *)
(* and their archives, or a save, an archive, an extraction and a write of   *)
(* someone else.                                                             *)
EXTENDS ToonBoomScene
=============================================================================
