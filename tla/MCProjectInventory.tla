------------------------- MODULE MCProjectInventory -------------------------
(* A project of each schema, with and without assets, and no project at all. *)
EXTENDS ProjectInventory

P(doc, schema, silo, list) == [doc |-> doc, schema |-> schema, silo |-> silo, list |-> list, meta |-> 0, val |-> 0]
A(name) == Asset(name, "film", 0)
MCFirstDatabases == {
  [project |-> None, assets |-> <<>>],
  [project |-> P("2.0", "1.0", TRUE, FALSE), assets |-> <<A(<<"a">>), [A(<<"b">>) EXCEPT !.visual = 1]>>],
  [project |-> P("2.0", "1.0", TRUE, TRUE), assets |-> <<A(<<"a">>)>>],
  [project |-> P("2.0", "1.1", TRUE, FALSE), assets |-> <<A(<<"a">>)>>],
  [project |-> P("2.1", "1.1", TRUE, FALSE), assets |-> <<A(<<"a">>)>>],
  [project |-> P("2.1", "1.1", FALSE, FALSE), assets |-> <<>>]}
MCNames == {<<"a">>, <<"b">>}
Symmetric == Permutations(Users)
=============================================================================
