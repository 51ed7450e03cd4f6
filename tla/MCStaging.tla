------------------------------ MODULE MCStaging ------------------------------
(* Two documents whose first layers have the same id, and two families, one  *)
(* with a plugin of its own.                                                  *)
EXTENDS Staging
MCDefault == [f \in Families |-> IF f = "image" THEN "Main" ELSE "Other"]
MCOldName == [d \in Docs |-> IF d = 1 THEN <<"image", "Main">> ELSE <<"image", "Other">>]
MCLoadName == <<"layout", "Main">>
MCBlank == [kind |-> "instance", key |-> -1, name |-> <<"blank", "blank">>]
=============================================================================
