---------------------------- MODULE AspHandlers ----------------------------
(***************************************************************************)
(* What the commands of an audio list do: the handlers of the recompiled   *)
(* rsp/aspMain.cpp, named after the labels the jump table sends them to.   *)
(*                                                                         *)
(* DMEM is shared by all voices, so whatever of a voice must outlive its   *)
(* commands is kept in DRAM: the last samples decoded (ADPCM), the window  *)
(* and the fraction of the resampler (RESAMPLE) and the volumes with their *)
(* ramps (ENVMIXER).  Each handler fetches its block, works, and stores it *)
(* again, and three handlers use the same place, r24, to do so.            *)
(*                                                                         *)
(* The code's sizes are constants here.  A cell is a sample of 16 bits, or *)
(* a compressed frame of 9 bytes; cell 0 is DMEM[0x4F0].  Samples are      *)
(* integers small enough not to saturate; a 32-bit rate or volume is one   *)
(* number.  The dispatch loop is in AspPump; here list is what is left to  *)
(* be dispatched.  Lists are written by the game's synthesizer, which is   *)
(* not in this repository: Pull is what it asks of the handlers.           *)
(***************************************************************************)
EXTENDS Integers, Sequences, SequencesExt

CONSTANTS Voices,
          Lanes,        \* samples in a vector: 8
          Vectors,      \* vectors in a buffer of 0x170 bytes: 23
          TempSize,     \* cells between the second buffer and the dry ones
          Taps,         \* samples under the resampling filter: 4
          Phases,       \* fractions of a sample: 0x10000
          Filter,       \* DMEM[0xB0]: the taps for each fraction
          Coefficients, \* of each voice's predictors, by number
          Rom,          \* the compressed frames of each voice, looped at their end
          LoopStart,    \* the frame at which a voice's loop starts
          Pitches,      \* each voice's pitches, in Phases to the sample
          Ramp,         \* each voice's volumes from its start on
          Fade,         \* its volumes when it is faded out
          Restarts,     \* the voices that may be restarted
          Gain,         \* of the wet buses in the output
          Half,         \* values of half a rate: 0x10000
          Asides,       \* commands that belong to no voice, see Aside
          AsideTasks,   \* bound: the lists that may have one
          MaxTasks      \* bound: tasks run

(* Of each channel the target, the rate of a vector and the start; and     *)
(* what goes to the dry and to the wet buses.                              *)
Ramps == [targetL : Int, rateL : Int, startL : Int,
          targetR : Int, rateR : Int, startR : Int, dry : Int, wet : Int]

Numbers(n) == [1 .. n -> Int]

ASSUME HandlerAssumption ==
    /\ {Lanes, Vectors, TempSize, Taps, Phases} \subseteq Nat \ {0}
    /\ Vectors > 1 /\ Taps < Lanes
    /\ Filter \in [0 .. Phases - 1 -> Numbers(Taps)]
    /\ Gain \in Int /\ Half \in Nat \ {0} /\ MaxTasks \in Nat
    /\ Ramp \in [Voices -> Ramps] /\ Fade \in [Voices -> Ramps]
    /\ \A v \in Voices :
          /\ Coefficients[v] \in [0 .. 1 -> Numbers(2)]
          /\ Rom[v] \in Seq(Nat) /\ LoopStart[v] \in 1 .. Len(Rom[v]) - 1
          /\ Pitches[v] \subseteq Nat

Buffer == Lanes * Vectors
Frame  == 2 * Lanes
Main   == 0
Second == Main + Buffer
Temp   == Second + Buffer
DryL   == Temp + TempSize
DryR   == DryL + Buffer
WetL   == DryR + Buffer
WetR   == WetL + Buffer
Cells  == 0 .. WetR + Buffer - 1

(* The frames that a list may have to decode of a voice at a pitch. *)
Most(pitch) == ((Buffer * pitch) \div Phases + Frame) \div Frame

(* The synthesizer keeps to the buffers: what it decodes of a voice for    *)
(* one list fits where it is decoded from and to, and passes the loop      *)
(* once; and a list moves far enough for the resampler not to need again   *)
(* what lies before Temp, where its output may go.                         *)
ASSUME LayoutAssumption ==
    \A v \in Voices : \A pitch \in Pitches[v] :
        /\ Frame * (Most(pitch) + 2) <= TempSize
        /\ Most(pitch) + 1 <= 2 * Buffer
        /\ Most(pitch) <= Len(Rom[v]) - LoopStart[v]
        /\ (Taps - 1) * Phases <= Buffer * pitch

(* The blocks of DRAM that commands name. *)
Blocks == {<<kind, v>> : kind \in {"rom", "book", "loop", "adpcm", "resample", "env"},
                         v \in Voices} \union {<<"out">>}

VARIABLES
    asp,        \* what the microcode works on, see Machine
    list,       \* the commands not dispatched yet
    building,   \* the synthesizer is writing the list
    tasks,      \* lists written
    todo,       \* the voices it has not come to yet
    voice,      \* where each voice is when the list is done
    wanted,     \* history: the samples the list should produce
    lost,       \* history: the voices some of whose commands will not be dispatched
    harm        \* history: what the list has that no voice asked for, see Aside

vars == <<asp, list, building, tasks, todo, voice, wanted, lost, harm>>

(* dmem: the buffers.  book: DMEM[0x3F0], the predictors in use.  loop:    *)
(* DMEM[0xE], where SETLOOP says that a loop's state is.  left and right:  *)
(* r24+0x00 and r24+0x20, a vector of volumes each, and scratch.  v24:     *)
(* r24+0x40, targets and rates of both ramps, dry and wet gain.  start:    *)
(* r24+0x50, the left volume a ramp starts from.                           *)
Machine == [dmem : [Cells -> Int], book : {<<>>} \union Numbers(2 * Frame), loop : Blocks,
            left : Numbers(Lanes), right : Numbers(Lanes), v24 : Numbers(6), start : Int,
            dram : [Blocks -> Seq(Int)]]

(* What a block of DRAM holds. *)
Shape(b) ==
    CASE b[1] = "rom"                -> Numbers(Len(Rom[b[2]]))
      [] b[1] = "book"               -> Numbers(2 * Frame)
      [] b[1] \in {"loop", "adpcm"}  -> Numbers(Frame)
      [] b[1] = "resample"           -> {s \in Numbers(Taps + 1) : s[Taps + 1] \in 0 .. Phases - 1}
      [] b[1] = "env"                -> Numbers(Frame + 6)
      [] OTHER                       -> Seq(Int)

(* What 0x1BB4 may leave behind. *)
Residue(r) ==
    /\ r.dmem \in [Cells -> Int] /\ r.v24 \in Numbers(6)
    /\ r.left \in Numbers(Lanes) /\ r.right \in Numbers(Lanes)
    /\ r.block \in Blocks /\ r.saved \in Shape(r.block)

(* By what the entry of the table holds when they are dispatched. *)
ASSUME AsideAssumption ==
    \A c \in Asides :
        \/ c.op = "0x12B0" /\ c.low \in 0 .. Half - 1
        \/ c.op = "0x1000"
        \/ c.op = "0x1BB4" /\ Residue(c.finds)

UpTo(n) == [i \in 1 .. n |-> i]
Zeros(n) == [i \in 1 .. n |-> 0]

Window(mem, a, n) == [i \in 1 .. n |-> mem[a + i - 1]]

Put(mem, a, s) ==
    [c \in DOMAIN mem |-> IF c \in a .. a + Len(s) - 1 THEN s[c - a + 1] ELSE mem[c]]

Total(s) == FoldLeft(LAMBDA sum, x : sum + x, 0, s)

(* Loops of the code run at least once and work in whole vectors. *)
InVectors(n) == IF n <= 0 THEN 1 ELSE (n + Lanes - 1) \div Lanes
-----------------------------------------------------------------------------
(* The handlers: what command c makes of a. *)

L_119C(a, c) == \* CLEARBUFF
    [a EXCEPT !.dmem = Put(a.dmem, c.dst, Zeros(Lanes * InVectors(c.n)))]

L_11C8(a, c) == \* LOADBUFF; a length of 0 is skipped
    IF c.n = 0 THEN a
    ELSE [a EXCEPT !.dmem = Put(a.dmem, c.dst, SubSeq(a.dram[c.addr], c.from + 1, c.from + c.n))]

L_1208(a, c) == \* SAVEBUFF; a length of 0 is skipped
    IF c.n = 0 THEN a
    ELSE [a EXCEPT !.dram = [a.dram EXCEPT ![c.addr] = Window(a.dmem, c.src, c.n)]]

L_1248(a, c) == [a EXCEPT !.book = a.dram[c.addr]] \* LOADADPCM

(* SETVOL by its flags: 0 and 4 set the target and the rate of the left    *)
(* and of the right ramp, 6 the left start and the dry and wet gains.      *)
L_127C(a, c) ==
    IF c.flags = 6
    THEN [a EXCEPT !.v24 = [a.v24 EXCEPT ![5] = c.dry, ![6] = c.wet], !.start = c.low]
    ELSE LET i == IF c.flags = 0 THEN 1 ELSE 3
         IN [a EXCEPT !.v24 = [a.v24 EXCEPT ![i] = c.low, ![i + 1] = c.word]]

(* Entry 14 of the jump table leads into the middle of SETVOL: only the low *)
(* half of the rate of the right ramp is stored.                           *)
L_12B0(a, c) ==
    [a EXCEPT !.v24 = [a.v24 EXCEPT ![4] = (a.v24[4] - (a.v24[4] % Half)) + c.low]]

(* Mutant: the channels are swapped. *)
InterleaveRightFirst(a, c) ==
    [a EXCEPT !.dmem = Put(a.dmem, Main, [i \in 1 .. 2 * Buffer |->
        IF i % 2 = 1 THEN a.dmem[DryR + i \div 2] ELSE a.dmem[DryL + i \div 2 - 1]])]

L_12D4(a, c) == \* INTERLEAVE
    [a EXCEPT !.dmem = Put(a.dmem, Main, [i \in 1 .. 2 * Buffer |->
        IF i % 2 = 1 THEN a.dmem[DryL + i \div 2] ELSE a.dmem[DryR + i \div 2 - 1]])]

(* A vector at a time, upwards. *)
Moved(a, c) ==
    LET Move(mem, k) == Put(mem, c.dst + Lanes * (k - 1),
                                 Window(mem, c.src + Lanes * (k - 1), Lanes))
    IN FoldLeft(Move, a.dmem, UpTo(InVectors(c.n)))

L_1348(a, c) == [a EXCEPT !.dmem = Moved(a, c)] \* DMEMMOVE

(* Mutant: the opcode is left in the address. *)
SetloopUnmasked(a, c) == [a EXCEPT !.loop = <<c.op, c.addr[2]>>]

(* SETLOOP, the opcode taken off the address.  The word covers entries 7   *)
(* and 8 of the jump table, see Handler.                                   *)
L_1384(a, c) == [a EXCEPT !.loop = c.addr]
-----------------------------------------------------------------------------
(* ADPCM.  A compressed frame is a number: its header, which names the     *)
(* predictor, and its residuals, unpacked and scaled.                      *)

(* Where the samples before the first new one come from.  0x1 is A_INIT,   *)
(* 0x2 is A_LOOP.                                                          *)
L_140C(a, c) == IF "LOOP" \in c.flags THEN a.dram[a.loop] ELSE a.dram[c.state]

L_1460(a, c) == IF "INIT" \in c.flags THEN Zeros(Frame) ELSE L_140C(a, c)

Predictor(frame) == frame % 2

Residuals(frame) == [i \in 1 .. Frame |-> ((frame + i * i) % 3) - 1]

(* The predictor's entry: a vector of weights for each of the last two     *)
(* samples.                                                                *)
Entry(book, frame) ==
    SubSeq(book, Frame * Predictor(frame) + 1, Frame * Predictor(frame) + Frame)

(* One vector: each lane is predicted from the last two samples and from   *)
(* the residuals of the lanes before it, which weigh as the last sample    *)
(* does, one lane on.                                                      *)
Predicted(entry, before, r) ==
    [i \in 1 .. Lanes |->
        entry[i] * before[Lanes - 1] + entry[Lanes + i] * before[Lanes]
        + Total([j \in 1 .. i - 1 |-> entry[Lanes + i - j] * r[j]]) + r[i]]

L_1510(book, mem, src, dst) ==
    LET r   == Residuals(mem[src])
        e   == Entry(book, mem[src])
        v28 == Predicted(e, Window(mem, dst - Lanes, Lanes), SubSeq(r, 1, Lanes))
        v27 == Predicted(e, v28, SubSeq(r, Lanes + 1, Frame))
    IN Put(mem, dst, v28 \o v27)

(* The samples before, then one frame after the other. *)
Decoded(a, c) ==
    LET Step(mem, k) == L_1510(a.book, mem, c.src + k - 1, c.dst + Frame * k)
    IN FoldLeft(Step, Put(a.dmem, c.dst, L_1460(a, c)), UpTo(c.count))

(* Mutant: the samples kept go where they were fetched from. *)
AdpcmKeepsAtLoop(a, c) ==
    LET to == IF "LOOP" \in c.flags THEN a.loop ELSE c.state
    IN [a.dram EXCEPT ![to] = Window(Decoded(a, c), c.dst + Frame * c.count, Frame)]

(* The last frame, or what was fetched if there was none, is kept at the   *)
(* voice's own address, whichever it came from.                            *)
L_1634(a, c) ==
    [a.dram EXCEPT ![c.state] = Window(Decoded(a, c), c.dst + Frame * c.count, Frame)]

L_139C(a, c) == [a EXCEPT !.dmem = Decoded(a, c), !.dram = L_1634(a, c)] \* ADPCM
-----------------------------------------------------------------------------
(* RESAMPLE.  What is kept is the window that the next sample out starts   *)
(* with, and its fraction.                                                 *)
L_1860 == Zeros(Taps + 1)

L_1848(a, c) == IF c.init THEN L_1860 ELSE a.dram[c.state]

(* The kept window goes right before the new samples; that is where the    *)
(* positions are counted from.  Output i (from 0) starts in cell At and at *)
(* the fraction Phase.                                                     *)
At(a, c, i) == c.src - Taps + (L_1848(a, c)[Taps + 1] + i * c.pitch) \div Phases

Phase(a, c, i) == (L_1848(a, c)[Taps + 1] + i * c.pitch) % Phases

L_18E8(c) == IF c.out = 0 THEN Main ELSE Second

Filtered(taps, s) == Total([t \in 1 .. Taps |-> taps[t] * s[t]])

Resampled(a, c) ==
    LET Out(mem, i) == Filtered(Filter[Phase(a, c, i)], Window(mem, At(a, c, i), Taps))
        Step(mem, k) ==
            Put(mem, L_18E8(c) + Lanes * (k - 1),
                     [j \in 1 .. Lanes |-> Out(mem, Lanes * (k - 1) + j - 1)])
    IN FoldLeft(Step, Put(a.dmem, c.src - Taps, SubSeq(L_1848(a, c), 1, Taps)), UpTo(Vectors))

(* Mutant: what is kept is the last sample out, not the next. *)
KeepLastPosition(a, c) ==
    Window(Resampled(a, c), At(a, c, Buffer - 1), Taps) \o <<Phase(a, c, Buffer - 1)>>

L_1A3C(a, c) == Window(Resampled(a, c), At(a, c, Buffer), Taps) \o <<Phase(a, c, Buffer)>>

L_17EC(a, c) == \* RESAMPLE; the block passes through r24, addresses through r24+0x20
    [a EXCEPT !.dmem = Resampled(a, c),
              !.dram = [a.dram EXCEPT ![c.state] = L_1A3C(a, c)],
              !.left = L_1A3C(a, c) \o SubSeq(a.left, Taps + 2, Lanes),
              !.right = [j \in 1 .. Lanes |-> Phase(a, c, Buffer + j - 1)]]
-----------------------------------------------------------------------------
(* ENVMIXER.  A rate is that of a vector, so that a lane of the first one  *)
(* has its share of it.  A volume goes no further than its target.         *)
Toward(target, rate, x) ==
    IF rate >= 0 THEN IF x > target THEN target ELSE x
    ELSE IF x < target THEN target ELSE x

FirstLeft(w, x)  == [j \in 1 .. Lanes |-> Toward(w[1], w[2], x + (w[2] * j) \div Lanes)]
FirstRight(w, x) == [j \in 1 .. Lanes |-> Toward(w[3], w[4], x + (w[4] * j) \div Lanes)]

L_1BA8(w, l) == [j \in 1 .. Lanes |-> Toward(w[1], w[2], l[j] + w[2])]
L_1BB4(w, r) == [j \in 1 .. Lanes |-> Toward(w[3], w[4], r[j] + w[4])]

(* Vector k of the main buffer is added to the four buses. *)
L_1BE4(mem, k, w, l, r) ==
    LET In(j) == mem[Main + Lanes * (k - 1) + j - 1]
        Add(m, bus, vol, gain) ==
            Put(m, bus + Lanes * (k - 1),
                   [j \in 1 .. Lanes |->
                       m[bus + Lanes * (k - 1) + j - 1] + In(j) * vol[j] * gain])
    IN Add(Add(Add(Add(mem, DryL, l, w[5]), WetL, l, w[6]), DryR, r, w[5]), WetR, r, w[6])

(* Mutant: targets and rates are not part of the block. *)
RampsStayInDmem(a, c) ==
    IF c.init THEN [left |-> a.left, right |-> a.right, v24 |-> a.v24]
    ELSE [left |-> SubSeq(a.dram[c.state], 1, Lanes),
          right |-> SubSeq(a.dram[c.state], Lanes + 1, Frame),
          v24 |-> a.v24]

L_1A9C(a, c) ==
    IF c.init THEN [left |-> a.left, right |-> a.right, v24 |-> a.v24]
    ELSE [left |-> SubSeq(a.dram[c.state], 1, Lanes),
          right |-> SubSeq(a.dram[c.state], Lanes + 1, Frame),
          v24 |-> SubSeq(a.dram[c.state], Frame + 1, Frame + 6)]

(* The first vector of an INIT starts the ramps, all others continue them. *)
MixVector(a, c, s, k) ==
    LET w == L_1A9C(a, c).v24
        l == IF c.init /\ k = 1 THEN FirstLeft(w, a.start) ELSE L_1BA8(w, s.left)
        r == IF c.init /\ k = 1 THEN FirstRight(w, c.right) ELSE L_1BB4(w, s.right)
    IN [mem |-> L_1BE4(s.mem, k, w, l, r), left |-> l, right |-> r]

MixStart(a, c) == [mem |-> a.dmem, left |-> L_1A9C(a, c).left, right |-> L_1A9C(a, c).right]

Mixed(a, c) == FoldLeft(LAMBDA s, k : MixVector(a, c, s, k), MixStart(a, c), UpTo(Vectors))

L_1C5C(a, c) ==
    [a.dram EXCEPT ![c.state] = Mixed(a, c).left \o Mixed(a, c).right \o L_1A9C(a, c).v24]

L_1A64(a, c) == \* ENVMIXER
    [a EXCEPT !.dmem = Mixed(a, c).mem, !.left = Mixed(a, c).left, !.right = Mixed(a, c).right,
              !.v24 = L_1A9C(a, c).v24, !.dram = L_1C5C(a, c)]

L_1C84(a, c) == \* MIXER
    [a EXCEPT !.dmem = Put(a.dmem, c.dst, [i \in 1 .. Buffer |->
        a.dmem[c.dst + i - 1] + c.gain * a.dmem[c.src + i - 1]])]

(* In the middle of ENVMIXER's loop, which goes on with the addresses, the *)
(* vectors and the length of a transfer that earlier commands left in the  *)
(* registers: c.finds stands for what becomes of the buffers and of r24,   *)
(* and for what is stored in which block.                                  *)
L_1BB4Alone(a, c) ==
    [a EXCEPT !.dmem = c.finds.dmem, !.left = c.finds.left, !.right = c.finds.right,
              !.v24 = c.finds.v24, !.dram = [a.dram EXCEPT ![c.finds.block] = c.finds.saved]]
-----------------------------------------------------------------------------
(* The dispatch of one command, by the jump table.  Entry 14 is 0x12B0.    *)
(* Entries 7 and 8 are 0 at first, and the halves of an address once there *)
(* has been a SETLOOP: 0x1BB4 is one place where they lead.  0x1000 stands *)
(* for 0 and for every target that is not known: the task ends there.      *)
Handler ==
    /\ ~building /\ list # <<>>
    /\ LET c == Head(list) IN
          \/ c.op = "CLEARBUFF"  /\ asp' = L_119C(asp, c)
          \/ c.op = "LOADBUFF"   /\ asp' = L_11C8(asp, c)
          \/ c.op = "SAVEBUFF"   /\ asp' = L_1208(asp, c)
          \/ c.op = "LOADADPCM"  /\ asp' = L_1248(asp, c)
          \/ c.op = "SETVOL"     /\ asp' = L_127C(asp, c)
          \/ c.op = "INTERLEAVE" /\ asp' = L_12D4(asp, c)
          \/ c.op = "DMEMMOVE"   /\ asp' = L_1348(asp, c)
          \/ c.op = "SETLOOP"    /\ asp' = L_1384(asp, c)
          \/ c.op = "ADPCM"      /\ asp' = L_139C(asp, c)
          \/ c.op = "RESAMPLE"   /\ asp' = L_17EC(asp, c)
          \/ c.op = "ENVMIXER"   /\ asp' = L_1A64(asp, c)
          \/ c.op = "MIXER"      /\ asp' = L_1C84(asp, c)
          \/ c.op = "0x12B0"     /\ asp' = L_12B0(asp, c)
          \/ c.op = "0x1BB4"     /\ asp' = L_1BB4Alone(asp, c)
          \/ c.op = "0x1000"     /\ UNCHANGED asp
    /\ list' = IF Head(list).op = "0x1000" THEN <<>> ELSE Tail(list)
    /\ UNCHANGED <<building, tasks, todo, voice, wanted, lost, harm>>
-----------------------------------------------------------------------------
(* The reference.  A voice is its frames decoded one sample after the      *)
(* other, as if it had no loop and nobody else used the microcode.         *)
Recurred(s, w, r) ==
    FoldLeft(LAMBDA y, k : Append(y, w[k][1] * y[Len(y) - 1] + w[k][2] * y[Len(y)] + r[k]),
             s, UpTo(Len(r)))

Plain == [v \in Voices |->
    LET n        == Frame * Len(Rom[v])
        Source(k) == Rom[v][((k - 1) \div Frame) + 1]
    IN Recurred(<<0, 0>>, [k \in 1 .. n |-> Coefficients[v][Predictor(Source(k))]],
                          [k \in 1 .. n |-> Residuals(Source(k))[((k - 1) % Frame) + 1]])]

(* The frame played as the voice's n-th, from 0. *)
SourceFrame(v, n) ==
    IF n < Len(Rom[v]) THEN n
    ELSE LoopStart[v] + ((n - Len(Rom[v])) % (Len(Rom[v]) - LoopStart[v]))

SampleAt(v, k) ==
    IF k < 0 THEN 0 ELSE Plain[v][Frame * SourceFrame(v, k \div Frame) + (k % Frame) + 3]

(* The voice, resampled: what is heard of it at a place counted in Phases  *)
(* from its start, before which it is silent.                              *)
SourceWindow(v, place) ==
    [t \in 1 .. Taps |-> SampleAt(v, (place \div Phases) - Taps + t - 1)]

Heard(v, place) == Filtered(Filter[place % Phases], SourceWindow(v, place))

(* The volume of the k-th sample (from 1) since its ramp began. *)
RampedLeft(r, k)  == Toward(r.targetL, r.rateL, r.startL + (r.rateL * k) \div Lanes)
RampedRight(r, k) == Toward(r.targetR, r.rateR, r.startR + (r.rateR * k) \div Lanes)

(* A voice's block after n samples of a ramp: the volumes of the vector    *)
(* that ends there, and the words of the ramp.                             *)
LeftAt(r, n)  == [j \in 1 .. Lanes |-> RampedLeft(r, n - Lanes + j)]
RightAt(r, n) == [j \in 1 .. Lanes |-> RampedRight(r, n - Lanes + j)]
Words(r) == <<r.targetL, r.rateL, r.targetR, r.rateR, r.dry, r.wet>>
RampBlock(r, n) == LeftAt(r, n) \o RightAt(r, n) \o Words(r)
-----------------------------------------------------------------------------
(* The synthesizer (external).  It writes the commands of all voices, each *)
(* once, then those of the output.                                         *)

(* A predictor as the microcode wants it: the weights of the last but one  *)
(* and of the last sample in every lane of a vector, which are the samples *)
(* that follow a 1 there.                                                  *)
Weights(w, s) ==
    SubSeq(Recurred(s, [k \in 1 .. Lanes |-> w], Zeros(Lanes)), 3, Lanes + 2)

Expanded(w) == Weights(w, <<1, 0>>) \o Weights(w, <<0, 1>>)

Book(v) == Expanded(Coefficients[v][0]) \o Expanded(Coefficients[v][1])

Flat == [targetL |-> 0, rateL |-> 0, startL |-> 0,
         targetR |-> 0, rateR |-> 0, startR |-> 0, dry |-> 0, wet |-> 0]
Silent == [fresh |-> TRUE, place |-> 0, dec |-> 0, ramp |-> Flat, since |-> 0]

(* The frame before v's n-th, as the decoder needs it. *)
Before(v, n) == [i \in 1 .. Frame |-> SampleAt(v, Frame * (n - 1) + i - 1)]

Init ==
    /\ asp = [dmem |-> [c \in Cells |-> 0], book |-> <<>>, loop |-> <<"out">>,
              left |-> Zeros(Lanes), right |-> Zeros(Lanes), v24 |-> Zeros(6), start |-> 0,
              dram |-> [b \in Blocks |->
                           CASE b[1] = "rom"      -> Rom[b[2]]
                             [] b[1] = "book"     -> Book(b[2])
                             [] b[1] = "loop"     -> Before(b[2], LoopStart[b[2]])
                             [] b[1] = "adpcm"    -> Zeros(Frame)
                             [] b[1] = "resample" -> Zeros(Taps + 1)
                             [] b[1] = "env"      -> Zeros(Frame + 6)
                             [] OTHER             -> <<>>]]
    /\ list = <<>> /\ building = FALSE /\ tasks = 0 /\ todo = {}
    /\ voice = [v \in Voices |-> Silent]
    /\ wanted = <<>>
    /\ lost = {} /\ harm = "none"

StartList ==
    /\ list = <<>> /\ ~building /\ tasks < MaxTasks
    /\ building' = TRUE /\ tasks' = tasks + 1 /\ todo' = Voices
    /\ list' = <<[op |-> "CLEARBUFF", dst |-> DryL, n |-> 4 * Buffer]>>
    /\ wanted' = Zeros(2 * Buffer)
    /\ harm' = IF harm = "cut" THEN "none" ELSE harm
    /\ UNCHANGED <<asp, voice, lost>>

(* Frames to decode, so that the resampler has what it moves past. *)
Needed(s, pitch) ==
    LET more == ((s.place + Buffer * pitch) \div Phases) - Frame * s.dec
    IN IF more <= 0 THEN 0 ELSE (more + Frame - 1) \div Frame

(* Frames up to the end of the voice or of its loop. *)
UntilLoop(v, dec) ==
    LET again == Len(Rom[v]) - LoopStart[v] IN
    IF dec <= Len(Rom[v]) THEN Len(Rom[v]) - dec
    ELSE (again - ((dec - Len(Rom[v])) % again)) % again

(* Frames are loaded from an even one on, as DMA wants it. *)
Fetch(v, dec, count, flags, dst) ==
    LET from == SourceFrame(v, dec) - (SourceFrame(v, dec) % 2)
        skip == SourceFrame(v, dec) % 2
    IN << [op |-> "LOADBUFF", addr |-> <<"rom", v>>, from |-> from, dst |-> Main,
           n |-> IF count = 0 THEN 0 ELSE count + skip],
          [op |-> "ADPCM", flags |-> flags, state |-> <<"adpcm", v>>, src |-> Main + skip,
           dst |-> dst, count |-> count] >>

(* A pass that comes to the end goes on at the loop; the samples the loop  *)
(* was fetched with are moved over.                                        *)
Decode(v, s, need) ==
    LET now  == IF need < UntilLoop(v, s.dec) THEN need ELSE UntilLoop(v, s.dec)
        next == Temp + Frame * (now + 1)
    IN Fetch(v, s.dec, now, IF s.fresh THEN {"INIT"} ELSE {}, Temp)
       \o IF need = now THEN <<>>
          ELSE <<[op |-> "SETLOOP", addr |-> <<"loop", v>>]>>
               \o Fetch(v, s.dec + now, need - now, {"LOOP"}, next)
               \o <<[op |-> "DMEMMOVE", src |-> next + Frame, dst |-> next,
                     n |-> Frame * (need - now)]>>

(* The resampler writes where the mixer reads, or elsewhere and is moved.  *)
Resample(v, s, pitch) ==
    << [op |-> "RESAMPLE", init |-> s.fresh, state |-> <<"resample", v>>, pitch |-> pitch,
        src |-> Temp + Frame - (Frame * s.dec - (s.place \div Phases)),
        out |-> tasks % 2] >>
    \o IF tasks % 2 = 0 THEN <<>>
       ELSE <<[op |-> "DMEMMOVE", src |-> Second, dst |-> Main, n |-> Buffer]>>

Envelope(v, s) ==
    (IF s.since > 0 THEN <<>>
     ELSE << [op |-> "SETVOL", flags |-> 0, low |-> s.ramp.targetL, word |-> s.ramp.rateL],
             [op |-> "SETVOL", flags |-> 4, low |-> s.ramp.targetR, word |-> s.ramp.rateR],
             [op |-> "SETVOL", flags |-> 6, low |-> s.ramp.startL,
              dry |-> s.ramp.dry, wet |-> s.ramp.wet] >>)
    \o << [op |-> "ENVMIXER", init |-> s.since = 0, state |-> <<"env", v>>,
           right |-> IF s.since = 0 THEN s.ramp.startR ELSE 0] >>

(* How a voice goes on: started, as it is, faded out from now on, or       *)
(* restarted.                                                              *)
Continuations(v) ==
    LET new == [Silent EXCEPT !.ramp = Ramp[v]] IN
    IF voice[v].fresh THEN {new}
    ELSE {voice[v], [voice[v] EXCEPT !.ramp = Fade[v], !.since = 0]}
         \union (IF v \in Restarts THEN {new} ELSE {})

Pull(v) ==
    /\ building /\ v \in todo
    /\ todo' = todo \ {v}
    /\ \E pitch \in Pitches[v], s \in Continuations(v) :
          /\ list' = list \o (<<[op |-> "LOADADPCM", addr |-> <<"book", v>>]>>
                           \o Decode(v, s, Needed(s, pitch))
                           \o Resample(v, s, pitch) \o Envelope(v, s))
          /\ voice' = [voice EXCEPT ![v] =
                [fresh |-> FALSE, place |-> s.place + Buffer * pitch,
                 dec |-> s.dec + Needed(s, pitch), ramp |-> s.ramp, since |-> s.since + Buffer]]
          /\ wanted' = [i \in 1 .. 2 * Buffer |->
                LET k == (i + 1) \div 2
                    x == Heard(v, s.place + (k - 1) * pitch)
                    y == IF i % 2 = 1 THEN RampedLeft(s.ramp, s.since + k)
                         ELSE RampedRight(s.ramp, s.since + k)
                IN wanted[i] + x * y * s.ramp.dry + Gain * x * y * s.ramp.wet]
          /\ lost' = IF harm # "none" THEN lost \union {v}
                     ELSE IF s.fresh THEN lost \ {v} ELSE lost
    /\ UNCHANGED <<asp, building, tasks, harm>>

(* Lists have commands that belong to no voice: aspMain.us.1.0.toml and    *)
(* the comments on the dispatch name them.  They are between the voices    *)
(* here, at most one in a list.  One that ends the list costs the voices   *)
(* behind it their commands; one that went to an unknown place may cost    *)
(* anything, from then on.                                                 *)
Aside ==
    /\ building /\ tasks \in AsideTasks
    /\ ~\E i \in DOMAIN list : list[i] \in Asides
    /\ \E c \in Asides :
          /\ list' = Append(list, c)
          /\ harm' = IF harm # "none" \/ c.op = "0x12B0" THEN harm
                     ELSE IF c.op = "0x1000" THEN "cut" ELSE "astray"
    /\ lost' = IF harm' = "astray" THEN Voices ELSE lost
    /\ UNCHANGED <<asp, building, tasks, todo, voice, wanted>>

FinishList ==
    /\ building /\ todo = {}
    /\ building' = FALSE
    /\ list' = list \o
        << [op |-> "MIXER", dst |-> DryL, src |-> WetL, gain |-> Gain],
           [op |-> "MIXER", dst |-> DryR, src |-> WetR, gain |-> Gain],
           [op |-> "INTERLEAVE"],
           [op |-> "SAVEBUFF", addr |-> <<"out">>, src |-> Main, n |-> 2 * Buffer] >>
    /\ UNCHANGED <<asp, tasks, todo, voice, wanted, lost, harm>>

Next ==
    \/ StartList
    \/ \E v \in Voices : Pull(v)
    \/ Aside
    \/ FinishList
    \/ Handler

Spec == Init /\ [][Next]_vars
-----------------------------------------------------------------------------
Done == list = <<>> /\ ~building

(* The buffers and the scratch keep the shapes the commands expect, and    *)
(* between lists the blocks do, whatever list went wrong before; SETLOOP,  *)
(* its opcode masked off, names a block of DRAM.                           *)
TypeOK ==
    /\ asp \in Machine /\ (Done => \A b \in Blocks : asp.dram[b] \in Shape(b))
    /\ building \in BOOLEAN /\ tasks \in 0 .. MaxTasks /\ todo \subseteq Voices
    /\ \A v \in Voices :
          /\ voice[v].fresh \in BOOLEAN
          /\ {voice[v].place, voice[v].dec, voice[v].since} \subseteq Nat
    /\ lost \subseteq Voices /\ harm \in {"none", "cut", "astray"}

(* Started, and every command since then dispatched. *)
Playing == {v \in Voices \ lost : ~voice[v].fresh}

(* What a list leaves in the output buffer is the sum of its voices, each  *)
(* decoded, resampled, looped and faded as if it were alone and had never  *)
(* been cut into lists: no voice hears another through the buffers, the    *)
(* predictors or the scratch that all share, no seam where lists meet.  It *)
(* is so again after a list that ended early, once the voices that lost    *)
(* commands have been restarted.                                           *)
OutputIsTheMix ==
    Done /\ tasks > 0 /\ harm = "none" /\ lost = {} => asp.dram[<<"out">>] = wanted

(* The decoder goes on where it was: what is kept for a voice are its last *)
(* samples, also after a loop, whose own samples stay what they were, and  *)
(* after a command that had nothing to decode.  A list that ended early    *)
(* has done so for the voices before its end.                              *)
DecoderKeepsPlace ==
    Done => \A v \in Playing :
        /\ asp.dram[<<"adpcm", v>>] = Before(v, voice[v].dec)
        /\ asp.dram[<<"loop", v>>] = Before(v, LoopStart[v])

(* The resampler goes on at the next sample out, not at the last, with its *)
(* fraction, whatever the pitch was.                                       *)
ResamplerKeepsPlace ==
    Done => \A v \in Playing :
        asp.dram[<<"resample", v>>] =
            SourceWindow(v, voice[v].place) \o <<voice[v].place % Phases>>

(* The volumes of a voice are on the ramp it was given last, never past    *)
(* its target, and the ramp is its own: a SETVOL for another voice, half a *)
(* one for none, or the block of another voice fetched to the same place,  *)
(* has not touched it.                                                     *)
VolumesKeepPlace ==
    Done => \A v \in Playing :
        asp.dram[<<"env", v>>] = RampBlock(voice[v].ramp, voice[v].since)
=============================================================================
