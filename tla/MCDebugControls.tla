-------------------------- MODULE MCDebugControls --------------------------
(* Two buttons, a stick that is centred or pushed, a ring of two slots     *)
(* that three commands overrun, and devices that are idle or busy.         *)
EXTENDS DebugControls, TLC

CONSTANTS A, B

MCButtons == {A, B}
MCSticks == {0, -1}
MCDevices == {Neutral, [buttons |-> {A}, x |-> 1, y |-> 0]}
=============================================================================
