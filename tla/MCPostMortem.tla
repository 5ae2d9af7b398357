---------------------------- MODULE MCPostMortem ----------------------------
(* The three threads that differ: the one that exits, the server and a     *)
(* thread of the game, which can only fault.                               *)
EXTENDS PostMortem

CONSTANTS G, S, T

MCThreads == {G, S, T}
=============================================================================
