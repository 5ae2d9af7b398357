----------------------------- MODULE MCCoopWait -----------------------------
(* The game thread and the audio scheduler (priority 3, extras.c:2231),    *)
(* with one thread above them both and one between them.                   *)
EXTENDS CoopWait, TLC

CONSTANTS G, S, High, Mid

MCThreads == {G, S, High, Mid}
MCBasePri == G :> 10 @@ S :> 3 @@ High :> 20 @@ Mid :> 5
=============================================================================
