--------------------------- MODULE MCAspHandlers ---------------------------
(* Two voices.  Vectors of 4 and buffers of 3 make a buffer one and a half *)
(* frames; the loops are passed within three lists; the pitches leave      *)
(* fractions and frames over.                                              *)
EXTENDS AspHandlers

CONSTANTS v1, v2

MCVoices == {v1, v2}
MCFilter == [f \in 0 .. 4 |-> <<6 - f, 2 * f + 1>>]
MCCoefficients == v1 :> (0 :> <<0, 1>> @@ 1 :> <<-1, 1>>)
               @@ v2 :> (0 :> <<1, 0>> @@ 1 :> <<-1, 0>>)
MCRom == v1 :> <<3, 4, 8, 5, 2>> @@ v2 :> <<6, 1, 7, 9>>
MCLoopStart == v1 :> 1 @@ v2 :> 1
MCPitches == v1 :> {5, 7} @@ v2 :> {7}
MCRamp ==
    v1 :> [targetL |-> 9, rateL |-> 4, startL |-> -3, targetR |-> -5, rateR |-> -4,
           startR |-> 2, dry |-> 1, wet |-> 2]
    @@ v2 :> [targetL |-> 1, rateL |-> 0, startL |-> 1, targetR |-> 30, rateR |-> 8,
              startR |-> 0, dry |-> 2, wet |-> 1]
MCFade ==
    v1 :> [targetL |-> 0, rateL |-> -8, startL |-> 9, targetR |-> 0, rateR |-> 4,
           startR |-> -5, dry |-> 1, wet |-> 1]
    @@ v2 :> [targetL |-> 0, rateL |-> -4, startL |-> 1, targetR |-> 0, rateR |-> -4,
              startR |-> 20, dry |-> 1, wet |-> 0]
MCRestarts == {v2}
MCResidue == [dmem |-> [c \in Cells |-> c % 3], left |-> Zeros(Lanes), right |-> Zeros(Lanes),
              v24 |-> Zeros(6), block |-> <<"loop", v1>>, saved |-> Zeros(Frame)]
MCAsides == {[op |-> "0x12B0", low |-> 1], [op |-> "0x1000"],
             [op |-> "0x1BB4", finds |-> MCResidue]}
MCAsideTasks == {2}
=============================================================================
