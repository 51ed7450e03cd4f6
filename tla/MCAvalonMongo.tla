---------------------------- MODULE MCAvalonMongo ----------------------------
(* Two connection objects, the io module's and a library loader's, used by   *)
(* the main thread and a worker thread.                                      *)
EXTENDS AvalonMongo, TLC

CONSTANTS io, library, main, worker

MCObjects == {io, library}
MCThreads == {main, worker}
Symmetry  == Permutations(MCObjects) \cup Permutations(MCThreads)
=============================================================================
