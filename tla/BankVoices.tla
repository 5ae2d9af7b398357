------------------------------ MODULE BankVoices ------------------------------
(***************************************************************************)
(* The hooks that keep the game's synthesizer away from sound banks the    *)
(* game has freed.                                                         *)
(*                                                                         *)
(* A bank lives in the main pool, a bump allocator whose low side is       *)
(* pushed and popped like a stack: main_pool_pop_state moves the low head  *)
(* back to a saved mark, and the next allocation writes over what was      *)
(* there.  A voice of the synthesizer keeps a pointer (dc_table) to a      *)
(* wavetable inside a bank, and every audio frame reads through it while   *)
(* its em_motion is AL_PLAYING.  Two hooks stop voices:                    *)
(*                                                                         *)
(*   - pkmnstadium_audio_stop_voices, when func_8004FF20 ends a scene's    *)
(*     music: it clears every high-level voice and stops the synthesizer   *)
(*     voices that are sources of the auxiliary bus;                       *)
(*   - pkmnstadium_pool_pop_silence_voices, at the entry of every          *)
(*     main_pool_pop_state: it stops the voices on the two lists that      *)
(*     main.cpp registered whose dc_table is in the range the pop frees.   *)
(*                                                                         *)
(* The pool, the sequencer and the synthesizer are the game's: they are    *)
(* modelled from what the hooks and their comments say of them.  The       *)
(* game's threads run one at a time and none of these steps yields, so     *)
(* each is one action.                                                     *)
(***************************************************************************)
EXTENDS Integers, Sequences

CONSTANTS
    PVoices,      \* the synthesizer's voices (N_PVoice)
    AuxSources,   \* those that are sources of n_syn->auxBus
    Feeders,      \* the high-level voices, the array at D_800FC7D0
    PoolSize,     \* cells of the main pool
    MaxAllocs,    \* bound: allocations in a behaviour
    MaxPushes,    \* bound: saved pool states at a time
    NoBank        \* what a cleared unk_038, or an empty cell, holds

ASSUME VoicesAssumption ==
    /\ AuxSources \subseteq PVoices
    /\ PoolSize \in Nat \ {0} /\ MaxAllocs \in Nat /\ MaxPushes \in Nat
    /\ NoBank \notin Nat

VARIABLES
    low,       \* sMemPool.listHeadL
    saved,     \* listHeadL of each saved MainPoolState, the newest last
    owner,     \* the allocation whose bytes each cell of the pool holds
    place,     \* the cells each allocation so far was given
    arrayUp,   \* D_800FC7D0 and D_800FC7CC are set
    synthUp,   \* n_syn, its auxBus and its voice lists are set
    feeds,     \* unk_038 of each high-level voice: the bank it plays from
    list,      \* the list of N_ALSynth each synthesizer voice is on
    motion,    \* em_motion
    table,     \* dc_table: the cell of the wavetable it reads
    given,     \* history: the bank that wavetable belonged to at the start
    leaving    \* the music was stopped, and no sequence was loaded since

pool   == <<low, saved, owner, place>>
voices == <<list, motion, table, given>>
vars   == <<pool, arrayUp, synthUp, feeds, voices, leaving>>

Cells == 0 .. PoolSize - 1
Banks == 1 .. MaxAllocs

AL_STOPPED == 0
AL_PLAYING == 1

\* Mutant: the layout gives a value that is no motion at all.
StoppedUnknown == 2

\* The value main.cpp registers for a voice that the synthesizer must skip.
StoppedValue == AL_STOPPED

Init ==
    /\ low = 0 /\ saved = <<>> /\ place = <<>>
    /\ owner = [c \in Cells |-> NoBank]
    /\ arrayUp = FALSE /\ synthUp = FALSE /\ leaving = FALSE
    /\ feeds = [h \in Feeders |-> NoBank]
    /\ list = [v \in PVoices |-> "free"]
    /\ motion = [v \in PVoices |-> AL_STOPPED]
    /\ table = [v \in PVoices |-> 0]
    /\ given = [v \in PVoices |-> NoBank]

-----------------------------------------------------------------------------
(* The game: its audio start-up, its pool, its sequencer.                  *)

SynthNew ==
    /\ ~synthUp
    /\ synthUp' = TRUE
    /\ UNCHANGED <<pool, arrayUp, feeds, voices, leaving>>

FeedersNew ==
    /\ ~arrayUp
    /\ arrayUp' = TRUE
    /\ UNCHANGED <<pool, synthUp, feeds, voices, leaving>>

Push ==
    /\ Len(saved) < MaxPushes
    /\ saved' = Append(saved, low)
    /\ UNCHANGED <<low, owner, place, arrayUp, synthUp, feeds, voices, leaving>>

\* A bank, or anything else, of n cells on the low side: its bytes replace
\* whatever the cells held.
Alloc(n) ==
    /\ Len(place) < MaxAllocs
    /\ low + n <= PoolSize
    /\ low' = low + n
    /\ place' = Append(place, low .. low + n - 1)
    /\ owner' = [c \in Cells |-> IF c \in low .. low + n - 1
                                 THEN Len(place) + 1 ELSE owner[c]]
    /\ UNCHANGED <<saved, arrayUp, synthUp, feeds, voices, leaving>>

\* A sequence is loaded: a high-level voice will play from a bank in the pool.
LoadSequence(h, b) ==
    /\ arrayUp
    /\ b <= Len(place)
    /\ \A c \in place[b] : c < low /\ owner[c] = b
    /\ feeds' = [feeds EXCEPT ![h] = b]
    /\ leaving' = FALSE
    /\ UNCHANGED <<pool, arrayUp, synthUp, voices>>

EndSequence(h) ==
    /\ feeds[h] # NoBank
    /\ feeds' = [feeds EXCEPT ![h] = NoBank]
    /\ UNCHANGED <<pool, arrayUp, synthUp, voices, leaving>>

\* A note: a synthesizer voice, free, in release or stolen, is put on
\* pAllocList, given a wavetable of the bank and set playing.
StartNote(h, v, c) ==
    /\ synthUp
    /\ feeds[h] # NoBank /\ c \in place[feeds[h]]
    /\ list' = [list EXCEPT ![v] = "alloc"]
    /\ motion' = [motion EXCEPT ![v] = AL_PLAYING]
    /\ table' = [table EXCEPT ![v] = c]
    /\ given' = [given EXCEPT ![v] = feeds[h]]
    /\ UNCHANGED <<pool, arrayUp, synthUp, feeds, leaving>>

\* The note is released: it rings on from pLameList.
NoteOff(v) ==
    /\ list[v] = "alloc"
    /\ list' = [list EXCEPT ![v] = "lame"]
    /\ UNCHANGED <<pool, arrayUp, synthUp, feeds, motion, table, given, leaving>>

\* The release has died away, or a stopped voice is collected.
ReleaseEnds(v) ==
    /\ list[v] = "lame"
    /\ list' = [list EXCEPT ![v] = "free"]
    /\ motion' = [motion EXCEPT ![v] = AL_STOPPED]
    /\ UNCHANGED <<pool, arrayUp, synthUp, feeds, table, given, leaving>>

-----------------------------------------------------------------------------
(* The hooks.                                                              *)

\* pkmnstadium_audio_stop_voices: it returns at once without the voice array,
\* clears unk_038 of every high-level voice, and then, when the synthesizer
\* and the sources of its auxiliary bus are there, stops those sources.
AudioStopVoices ==
    /\ feeds' = IF arrayUp THEN [h \in Feeders |-> NoBank] ELSE feeds
    /\ motion' = IF arrayUp /\ synthUp
                 THEN [v \in PVoices |-> IF v \in AuxSources THEN AL_STOPPED
                                                             ELSE motion[v]]
                 ELSE motion
    /\ leaving' = TRUE
    /\ UNCHANGED <<pool, arrayUp, synthUp, list, table, given>>

\* Mutant: the walk main.cpp says it replaced, of the auxiliary bus alone.
WalkedOnBus == {v \in AuxSources : list[v] \in {"alloc", "lame"}}

\* The layout registered in main.cpp: the lists whose voices are walked.
Walked == {v \in PVoices : list[v] \in {"alloc", "lame"}}

\* Mutant: the range starts one cell too low.
FreedFromBelow(c) == c >= saved[Len(saved)] - 1 /\ c < low

\* The range [saved.L, current.L) that the pop frees.
Freed(c) == c >= saved[Len(saved)] /\ c < low

\* pkmnstadium_pool_pop_silence_voices: nothing without a synthesizer, and
\* nothing when the range is empty.
Silenced ==
    IF synthUp /\ saved[Len(saved)] < low
    THEN [v \in PVoices |-> IF v \in Walked /\ Freed(table[v])
                            THEN StoppedValue ELSE motion[v]]
    ELSE motion

\* main_pool_pop_state, the hook at its entry included.  The game pops once
\* the scene's music was stopped, or when no high-level voice plays from what
\* goes away.
PopState ==
    /\ saved # <<>>
    /\ leaving \/ \A h \in Feeders :
           feeds[h] # NoBank => \A c \in place[feeds[h]] : ~Freed(c)
    /\ motion' = Silenced
    /\ low' = saved[Len(saved)]
    /\ saved' = SubSeq(saved, 1, Len(saved) - 1)
    /\ leaving' = FALSE
    /\ UNCHANGED <<owner, place, arrayUp, synthUp, feeds, list, table, given>>

Next ==
    \/ SynthNew
    \/ FeedersNew
    \/ Push
    \/ \E n \in 1 .. PoolSize : Alloc(n)
    \/ \E h \in Feeders, b \in Banks : LoadSequence(h, b)
    \/ \E h \in Feeders : EndSequence(h)
    \/ \E h \in Feeders, v \in PVoices, c \in Cells : StartNote(h, v, c)
    \/ \E v \in PVoices : NoteOff(v) \/ ReleaseEnds(v)
    \/ AudioStopVoices
    \/ PopState

Spec == Init /\ [][Next]_vars

-----------------------------------------------------------------------------

\* The pool's head and marks, the voices' lists and em_motion hold only what
\* the game's structures allow; em_motion is written by the two hooks too.
TypeOK ==
    /\ low \in 0 .. PoolSize /\ saved \in Seq(0 .. PoolSize)
    /\ place \in Seq(SUBSET Cells) /\ Len(place) <= MaxAllocs
    /\ owner \in [Cells -> Banks \union {NoBank}]
    /\ arrayUp \in BOOLEAN /\ synthUp \in BOOLEAN /\ leaving \in BOOLEAN
    /\ feeds \in [Feeders -> Banks \union {NoBank}]
    /\ list \in [PVoices -> {"free", "alloc", "lame"}]
    /\ motion \in [PVoices -> {AL_STOPPED, AL_PLAYING}]
    /\ table \in [PVoices -> Cells]
    /\ given \in [PVoices -> Banks \union {NoBank}]

\* A voice the synthesizer will pull on the next audio frame: on one of the
\* lists it walks, and through the gate at the top of n_alEnvmixerPull.
Pulled(v) == list[v] # "free" /\ motion[v] = AL_PLAYING

\* Whatever the order of loads, notes, releases, stops and pops, a voice that
\* will be pulled reads a wavetable that is still in the live part of the pool
\* and still belongs to the bank the note was started from.  This is the
\* use-after-free that the comments of the two hooks describe.
PlayingBanksAreLive ==
    \A v \in PVoices : Pulled(v) => /\ table[v] < low
                                    /\ owner[table[v]] = given[v]

\* "Stays out of the way otherwise": a pop stops no voice whose wavetable the
\* pop leaves in the pool.
KeepsOthersPlaying ==
    [][ Len(saved') < Len(saved)
        => \A v \in PVoices : Pulled(v) /\ table[v] < low' => Pulled(v)' ]_vars
=============================================================================
