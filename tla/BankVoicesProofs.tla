--------------------------- MODULE BankVoicesProofs ---------------------------
(***************************************************************************)
(* Proofs about the sound banks and the voices, for any number of voices,  *)
(* any pool and any order of loads, notes, stops and pops.                 *)
(*                                                                         *)
(* That no playing voice reads freed cells is not inductive alone: a note  *)
(* may start at any time, so the bank a high-level voice plays from has    *)
(* to be live as well (FeedsLive); that in turn needs that the saved marks *)
(* of the pool never pass its head (Marks), and that a hook which finds    *)
(* the synthesizer or the voice array missing has nothing to do (Unset).   *)
(***************************************************************************)
EXTENDS BankVoices, SequenceTheorems, TLAPS

(* The saved states are a stack of marks below the head. *)
Marks ==
    /\ \A i \in 1 .. Len(saved) : saved[i] <= low
    /\ \A i, j \in 1 .. Len(saved) : i <= j => saved[i] <= saved[j]

(* The bank allocation b was given is still all there. *)
Live(b) ==
    /\ b \in 1 .. Len(place)
    /\ \A c \in place[b] : c < low /\ owner[c] = b

FeedsLive == \A h \in Feeders : feeds[h] # NoBank => Live(feeds[h])

(* What is not set yet has nothing to stop, and after a stop nothing feeds. *)
Unset ==
    /\ ~synthUp => \A v \in PVoices : motion[v] = AL_STOPPED
    /\ ~arrayUp \/ leaving => \A h \in Feeders : feeds[h] = NoBank

IInv == TypeOK /\ Marks /\ FeedsLive /\ Unset /\ PlayingBanksAreLive

(* The steps other than Push, Alloc and PopState: they leave the pool alone. *)
Quiet ==
    \/ SynthNew \/ FeedersNew \/ AudioStopVoices
    \/ \E h \in Feeders, b \in Banks : LoadSequence(h, b)
    \/ \E h \in Feeders : EndSequence(h)
    \/ \E h \in Feeders, v \in PVoices, c \in Cells : StartNote(h, v, c)
    \/ \E v \in PVoices : NoteOff(v) \/ ReleaseEnds(v)
    \/ UNCHANGED vars

-----------------------------------------------------------------------------
(* The newest mark, and the stack without it. *)
LEMMA Popped ==
    ASSUME NEW s \in Seq(0 .. PoolSize), s # <<>>
    PROVE  LET t == SubSeq(s, 1, Len(s) - 1) IN
           /\ Len(s) \in Nat \ {0}
           /\ s[Len(s)] \in 0 .. PoolSize
           /\ t \in Seq(0 .. PoolSize)
           /\ Len(t) = Len(s) - 1
           /\ \A i \in 1 .. Len(t) : t[i] = s[i]
<1>1. Len(s) \in Nat \ {0}  BY EmptySeq, LenProperties
<1>2. \A i \in 1 .. Len(s) : s[i] \in 0 .. PoolSize  BY LenProperties
<1>3. \A i \in 1 .. Len(s) - 1 : s[i] \in 0 .. PoolSize  BY <1>1, <1>2
<1>4. 1 \in Int /\ Len(s) - 1 \in Int  BY <1>1
<1>5. DEFINE t == SubSeq(s, 1, Len(s) - 1)
<1>6. /\ t \in Seq(0 .. PoolSize)
      /\ Len(t) = IF 1 <= Len(s) - 1 THEN Len(s) - 1 - 1 + 1 ELSE 0
      /\ \A i \in 1 .. Len(s) - 1 - 1 + 1 : t[i] = s[1 + i - 1]
  BY <1>3, <1>4, SubSeqProperties
<1>7. Len(t) = Len(s) - 1
  <2>1. CASE Len(s) = 1  BY <1>6, <2>1
  <2>2. CASE Len(s) # 1
    <3>1. \A n \in Nat : n # 0 /\ n # 1 => 1 <= n - 1 /\ n - 1 - 1 + 1 = n - 1
      OBVIOUS
    <3>2. QED  BY <1>1, <1>6, <2>2, <3>1
  <2>3. QED  BY <2>1, <2>2
<1>8. \A i \in 1 .. Len(t) : t[i] = s[i]
  <2>1. SUFFICES ASSUME NEW i \in 1 .. Len(t) PROVE t[i] = s[i]  OBVIOUS
  <2>2. i \in 1 .. Len(s) - 1 - 1 + 1 /\ 1 + i - 1 = i  BY <1>1, <1>7
  <2>3. QED  BY <1>6, <2>2
<1>9. QED  BY <1>1, <1>2, <1>6, <1>7, <1>8

(* A pop stops a voice or leaves it. *)
LEMMA SilencedType ==
    ASSUME TypeOK PROVE Silenced \in [PVoices -> {AL_STOPPED, AL_PLAYING}]
BY DEF TypeOK, Silenced, StoppedValue

(* What a new allocation leaves of the ones before it. *)
LEMMA AllocKeeps ==
    ASSUME TypeOK, NEW k \in 1 .. PoolSize, Alloc(k)
    PROVE /\ low' \in 0 .. PoolSize /\ low <= low'
          /\ place' \in Seq(SUBSET Cells) /\ Len(place') = Len(place) + 1
          /\ Len(place') <= MaxAllocs /\ Len(place) \in Nat
          /\ \A b \in 1 .. Len(place) : place'[b] = place[b]
          /\ \A c \in Cells : c < low => owner'[c] = owner[c]
          /\ owner' \in [Cells -> Banks \union {NoBank}]
<1> USE VoicesAssumption DEF TypeOK
<1>1. Len(place) \in Nat  BY LenProperties
<1>2. low .. low + k - 1 \in SUBSET Cells  BY DEF Alloc, Cells
<1>3. place' = Append(place, low .. low + k - 1)  BY DEF Alloc
<1>4. /\ place' \in Seq(SUBSET Cells) /\ Len(place') = Len(place) + 1
      /\ \A b \in 1 .. Len(place) : place'[b] = place[b]
  BY <1>2, <1>3, AppendProperties
<1>5. Len(place) + 1 \in Banks /\ Len(place') <= MaxAllocs
  BY <1>1, <1>4 DEF Alloc, Banks
<1>6. owner' \in [Cells -> Banks \union {NoBank}]  BY <1>5 DEF Alloc
<1>7. \A c \in Cells : c < low => owner'[c] = owner[c]  BY DEF Alloc, Cells
<1>8. low' \in 0 .. PoolSize /\ low <= low'  BY DEF Alloc
<1>9. QED  BY <1>1, <1>4, <1>5, <1>6, <1>7, <1>8

-----------------------------------------------------------------------------
(* Types are preserved by every step. *)
LEMMA TypeStep == ASSUME TypeOK, [Next]_vars PROVE TypeOK'
<1> USE VoicesAssumption DEF TypeOK
<1>1. CASE SynthNew \/ FeedersNew \/ AudioStopVoices
  BY <1>1 DEF SynthNew, FeedersNew, AudioStopVoices, pool, voices
<1>2. CASE Push
  <2>1. saved' \in Seq(0 .. PoolSize)  BY <1>2, AppendProperties DEF Push
  <2>2. QED  BY <1>2, <2>1 DEF Push, voices
<1>3. ASSUME NEW k \in 1 .. PoolSize, Alloc(k) PROVE TypeOK'
  BY <1>3, AllocKeeps DEF Alloc, voices
<1>4. ASSUME NEW h \in Feeders, NEW b \in Banks, LoadSequence(h, b) PROVE TypeOK'
  BY <1>4 DEF LoadSequence, pool, voices
<1>5. ASSUME NEW h \in Feeders, EndSequence(h) PROVE TypeOK'
  BY <1>5 DEF EndSequence, pool, voices
<1>6. ASSUME NEW h \in Feeders, NEW v \in PVoices, NEW c \in Cells, StartNote(h, v, c)
      PROVE TypeOK'
  BY <1>6 DEF StartNote, pool
<1>7. ASSUME NEW v \in PVoices, NoteOff(v) \/ ReleaseEnds(v) PROVE TypeOK'
  BY <1>7 DEF NoteOff, ReleaseEnds, pool
<1>8. CASE PopState
  <2>1. saved # <<>>  BY <1>8 DEF PopState
  <2>2. saved' \in Seq(0 .. PoolSize) /\ low' \in 0 .. PoolSize
    BY <1>8, <2>1, Popped DEF PopState
  <2>3. motion' \in [PVoices -> {AL_STOPPED, AL_PLAYING}]
    BY <1>8, SilencedType DEF PopState
  <2>4. QED  BY <1>8, <2>2, <2>3 DEF PopState
<1>9. CASE UNCHANGED vars  BY <1>9 DEF vars, pool, voices
<1>10. QED  BY <1>1, <1>2, <1>3, <1>4, <1>5, <1>6, <1>7, <1>8, <1>9 DEF Next

(* The marks stay a stack below the head. *)
LEMMA MarksStep == ASSUME TypeOK, Marks, [Next]_vars PROVE Marks'
<1> USE VoicesAssumption DEF TypeOK
<1>1. CASE Push
  <2>1. /\ Len(saved) \in Nat /\ Len(saved') = Len(saved) + 1
        /\ \A i \in 1 .. Len(saved) : saved'[i] = saved[i]
        /\ saved'[Len(saved) + 1] = low
    BY <1>1, LenProperties, AppendProperties DEF Push
  <2>2. \A i \in 1 .. Len(saved') : i \in 1 .. Len(saved) \/ i = Len(saved) + 1
    BY <2>1
  <2>3. low' = low  BY <1>1 DEF Push
  <2>4. \A i \in 1 .. Len(saved') : saved'[i] <= low'  BY <2>1, <2>2, <2>3 DEF Marks
  <2>5. ASSUME NEW i \in 1 .. Len(saved'), NEW j \in 1 .. Len(saved'), i <= j
        PROVE saved'[i] <= saved'[j]
    <3>1. CASE j = Len(saved) + 1  BY <2>1, <2>3, <2>4, <3>1
    <3>2. CASE j \in 1 .. Len(saved)
      <4>1. i \in 1 .. Len(saved)  BY <2>1, <2>5, <3>2
      <4>2. QED  BY <2>1, <2>5, <3>2, <4>1 DEF Marks
    <3>3. QED  BY <2>2, <3>1, <3>2
  <2>6. QED  BY <2>4, <2>5 DEF Marks
<1>2. ASSUME NEW k \in 1 .. PoolSize, Alloc(k) PROVE Marks'
  <2>1. low <= low' /\ low' \in Int /\ saved' = saved  BY <1>2, AllocKeeps DEF Alloc
  <2>2. \A i \in 1 .. Len(saved) : saved[i] \in 0 .. PoolSize  BY LenProperties
  <2>3. QED  BY <2>1, <2>2 DEF Marks
<1>3. CASE PopState
  <2>1. saved # <<>> /\ low' = saved[Len(saved)]  BY <1>3 DEF PopState
  <2>2. /\ Len(saved) \in Nat \ {0} /\ Len(saved') = Len(saved) - 1
        /\ \A i \in 1 .. Len(saved') : saved'[i] = saved[i]
    BY <1>3, <2>1, Popped DEF PopState
  <2>3. \A i \in 1 .. Len(saved') : i \in 1 .. Len(saved) /\ i <= Len(saved)
    BY <2>2
  <2>4. QED  BY <2>1, <2>2, <2>3 DEF Marks
<1>4. CASE Quiet
  <2>1. saved' = saved /\ low' = low
    BY <1>4 DEF Quiet, SynthNew, FeedersNew, AudioStopVoices, LoadSequence,
       EndSequence, StartNote, NoteOff, ReleaseEnds, vars, pool
  <2>2. QED  BY <2>1 DEF Marks
<1>5. QED  BY <1>1, <1>2, <1>3, <1>4 DEF Next, Quiet

(* A live bank stays live as long as the cells it has are not freed. *)
LEMMA FeedsLiveStep ==
    ASSUME TypeOK, Marks, FeedsLive, Unset, [Next]_vars PROVE FeedsLive'
<1> USE VoicesAssumption DEF TypeOK
<1>1. ASSUME NEW k \in 1 .. PoolSize, Alloc(k) PROVE FeedsLive'
  <2>1. SUFFICES ASSUME NEW h \in Feeders, feeds[h] # NoBank PROVE Live(feeds[h])'
    BY <1>1 DEF Alloc, FeedsLive, Live
  <2>2. Live(feeds[h])  BY <2>1 DEF FeedsLive
  <2>3. feeds' = feeds  BY <1>1 DEF Alloc
  <2>4. place[feeds[h]] \subseteq Cells  BY <2>2, LenProperties DEF Live
  <2>5. feeds[h] \in 1 .. Len(place') /\ place'[feeds[h]] = place[feeds[h]]
    BY <1>1, <2>2, AllocKeeps DEF Live
  <2>6. \A c \in place[feeds[h]] : c < low' /\ owner'[c] = feeds[h]
    BY <1>1, <2>2, <2>4, AllocKeeps DEF Live, Cells
  <2>7. QED  BY <2>3, <2>5, <2>6 DEF Live
<1>2. ASSUME NEW h \in Feeders, NEW b \in Banks, LoadSequence(h, b) PROVE FeedsLive'
  <2>1. Live(b)  BY <1>2 DEF LoadSequence, Live, Banks
  <2>2. feeds' = [feeds EXCEPT ![h] = b] /\ low' = low /\ owner' = owner /\ place' = place
    BY <1>2 DEF LoadSequence, pool
  <2>3. QED  BY <2>1, <2>2 DEF FeedsLive, Live
<1>3. ASSUME NEW h \in Feeders, EndSequence(h) PROVE FeedsLive'
  BY <1>3 DEF EndSequence, FeedsLive, Live, pool
<1>4. CASE AudioStopVoices
  BY <1>4 DEF AudioStopVoices, FeedsLive, Live, pool
<1>5. CASE PopState
  <2>1. SUFFICES ASSUME NEW h \in Feeders, feeds[h] # NoBank PROVE Live(feeds[h])'
    BY <1>5 DEF PopState, FeedsLive, Live
  <2>2. Live(feeds[h])  BY <2>1 DEF FeedsLive
  <2>3. ~leaving  BY <2>1 DEF Unset
  <2>4. \A c \in place[feeds[h]] : ~Freed(c)  BY <1>5, <2>1, <2>3 DEF PopState
  <2>5. saved # <<>> /\ low' = saved[Len(saved)] /\ owner' = owner /\ place' = place
        /\ feeds' = feeds
    BY <1>5 DEF PopState
  <2>6. low' \in Int  BY <2>5, Popped
  <2>7. place[feeds[h]] \subseteq Cells  BY <2>2, LenProperties DEF Live
  <2>8. \A c \in place[feeds[h]] : c < low'
    BY <2>2, <2>4, <2>5, <2>6, <2>7 DEF Live, Freed, Cells
  <2>9. QED  BY <2>2, <2>5, <2>8 DEF Live
<1>6. ASSUME feeds' = feeds, low' = low, owner' = owner, place' = place PROVE FeedsLive'
  BY <1>6 DEF FeedsLive, Live
<1>7. CASE SynthNew \/ FeedersNew \/ Push \/ UNCHANGED vars
  BY <1>6, <1>7 DEF SynthNew, FeedersNew, Push, pool, vars
<1>8. ASSUME NEW h \in Feeders, NEW v \in PVoices, NEW c \in Cells, StartNote(h, v, c)
      PROVE FeedsLive'
  BY <1>6, <1>8 DEF StartNote, pool
<1>9. ASSUME NEW v \in PVoices, NoteOff(v) \/ ReleaseEnds(v) PROVE FeedsLive'
  BY <1>6, <1>9 DEF NoteOff, ReleaseEnds, pool
<1>10. QED  BY <1>1, <1>2, <1>3, <1>4, <1>5, <1>7, <1>8, <1>9 DEF Next

(* Without a synthesizer nothing plays; without voices nothing feeds. *)
LEMMA UnsetStep == ASSUME TypeOK, Unset, [Next]_vars PROVE Unset'
<1> USE DEF TypeOK
<1>1. CASE SynthNew \/ FeedersNew \/ Push
  BY <1>1 DEF SynthNew, FeedersNew, Push, voices, Unset
<1>2. ASSUME NEW k \in 1 .. PoolSize, Alloc(k) PROVE Unset'
  BY <1>2 DEF Alloc, voices, Unset
<1>3. ASSUME NEW h \in Feeders, NEW b \in Banks, LoadSequence(h, b) PROVE Unset'
  BY <1>3 DEF LoadSequence, voices, Unset
<1>4. ASSUME NEW h \in Feeders, EndSequence(h) PROVE Unset'
  BY <1>4 DEF EndSequence, voices, Unset
<1>5. ASSUME NEW h \in Feeders, NEW v \in PVoices, NEW c \in Cells, StartNote(h, v, c)
      PROVE Unset'
  BY <1>5 DEF StartNote, Unset
<1>6. ASSUME NEW v \in PVoices, NoteOff(v) \/ ReleaseEnds(v) PROVE Unset'
  BY <1>6 DEF NoteOff, ReleaseEnds, Unset
<1>7. CASE AudioStopVoices  BY <1>7 DEF AudioStopVoices, Unset
<1>8. CASE PopState
  <2>1. ~synthUp => \A v \in PVoices : motion'[v] = AL_STOPPED
    BY <1>8 DEF PopState, Silenced, Unset
  <2>2. QED  BY <1>8, <2>1 DEF PopState, Unset
<1>9. CASE UNCHANGED vars  BY <1>9 DEF vars, voices, Unset
<1>10. QED  BY <1>1, <1>2, <1>3, <1>4, <1>5, <1>6, <1>7, <1>8, <1>9 DEF Next

(* A pop leaves playing only what it leaves in the pool. *)
LEMMA PopSilences ==
    ASSUME IInv, PopState, NEW v \in PVoices
    PROVE /\ low' \in Int /\ low' <= low
          /\ Pulled(v)' => Pulled(v) /\ table[v] < low'
          /\ Pulled(v) /\ table[v] < low' => Pulled(v)'
<1> USE VoicesAssumption DEF IInv, TypeOK
<1>1. saved # <<>> /\ low' = saved[Len(saved)] /\ list' = list /\ motion' = Silenced
  BY DEF PopState
<1>2. low' \in 0 .. PoolSize /\ Len(saved) \in 1 .. Len(saved)
  BY <1>1, Popped
<1>3. low' <= low  BY <1>1, <1>2 DEF Marks
<1>4. table[v] \in Int  BY DEF Cells
<1>5. ASSUME Pulled(v)' PROVE Pulled(v) /\ table[v] < low'
  <2>1. list[v] # "free" /\ Silenced[v] = AL_PLAYING  BY <1>1, <1>5 DEF Pulled
  <2>2. motion[v] = AL_PLAYING
    BY <2>1 DEF Silenced, StoppedValue, AL_PLAYING, AL_STOPPED
  <2>3. Pulled(v)  BY <2>1, <2>2 DEF Pulled
  <2>4. synthUp  BY <2>2 DEF Unset, AL_PLAYING, AL_STOPPED
  <2>5. table[v] < low  BY <2>3 DEF PlayingBanksAreLive
  <2>6. v \in Walked  BY <2>1 DEF Walked
  <2>7. ~(saved[Len(saved)] < low /\ Freed(table[v]))
    BY <2>1, <2>4, <2>6 DEF Silenced, StoppedValue, AL_PLAYING, AL_STOPPED
  <2>8. table[v] < low'  BY <1>1, <1>2, <1>3, <1>4, <2>5, <2>7 DEF Freed
  <2>9. QED  BY <2>3, <2>8
<1>6. ASSUME Pulled(v), table[v] < low' PROVE Pulled(v)'
  <2>1. ~Freed(table[v])  BY <1>1, <1>2, <1>4, <1>6 DEF Freed
  <2>2. Silenced[v] = motion[v]  BY <2>1 DEF Silenced
  <2>3. QED  BY <1>1, <1>6, <2>2 DEF Pulled
<1>7. QED  BY <1>2, <1>3, <1>5, <1>6

(* No step makes a pulled voice read a cell that is not its bank's. *)
LEMMA LiveStep == ASSUME IInv, [Next]_vars PROVE PlayingBanksAreLive'
<1> USE VoicesAssumption DEF IInv, TypeOK
<1>1. SUFFICES ASSUME NEW v \in PVoices, Pulled(v)'
               PROVE table'[v] < low' /\ owner'[table'[v]] = given'[v]
  BY DEF PlayingBanksAreLive
<1>2. ASSUME Pulled(v), table'[v] = table[v], given'[v] = given[v], low' = low, owner' = owner
      PROVE table'[v] < low' /\ owner'[table'[v]] = given'[v]
  BY <1>2 DEF PlayingBanksAreLive
<1>3. CASE Quiet /\ ~\E h \in Feeders, w \in PVoices, c \in Cells : StartNote(h, w, c)
  <2>1. table'[v] = table[v] /\ given'[v] = given[v] /\ low' = low /\ owner' = owner
    BY <1>3 DEF Quiet, SynthNew, FeedersNew, AudioStopVoices, LoadSequence,
       EndSequence, NoteOff, ReleaseEnds, vars, pool, voices
  <2>2. Pulled(v)
    <3>1. CASE SynthNew \/ FeedersNew \/ UNCHANGED vars
      BY <1>1, <3>1 DEF SynthNew, FeedersNew, vars, voices, Pulled
    <3>2. CASE AudioStopVoices
      BY <1>1, <3>2 DEF AudioStopVoices, Pulled, AL_STOPPED, AL_PLAYING
    <3>3. ASSUME NEW h \in Feeders, NEW b \in Banks, LoadSequence(h, b) PROVE Pulled(v)
      BY <1>1, <3>3 DEF LoadSequence, voices, Pulled
    <3>4. ASSUME NEW h \in Feeders, EndSequence(h) PROVE Pulled(v)
      BY <1>1, <3>4 DEF EndSequence, voices, Pulled
    <3>5. ASSUME NEW w \in PVoices, NoteOff(w) \/ ReleaseEnds(w) PROVE Pulled(v)
      BY <1>1, <3>5 DEF NoteOff, ReleaseEnds, Pulled, AL_STOPPED, AL_PLAYING
    <3>6. QED  BY <1>3, <3>1, <3>2, <3>3, <3>4, <3>5 DEF Quiet
  <2>3. QED  BY <1>2, <2>1, <2>2
<1>4. ASSUME NEW h \in Feeders, NEW w \in PVoices, NEW c \in Cells, StartNote(h, w, c)
      PROVE table'[v] < low' /\ owner'[table'[v]] = given'[v]
  <2>1. low' = low /\ owner' = owner  BY <1>4 DEF StartNote, pool
  <2>2. Live(feeds[h]) /\ c \in place[feeds[h]]  BY <1>4 DEF StartNote, FeedsLive
  <2>3. CASE w = v
    <3>1. table'[v] = c /\ given'[v] = feeds[h]  BY <1>4, <2>3 DEF StartNote
    <3>2. QED  BY <2>1, <2>2, <3>1 DEF Live
  <2>4. CASE w # v
    <3>1. table'[v] = table[v] /\ given'[v] = given[v] /\ Pulled(v)
      BY <1>1, <1>4, <2>4 DEF StartNote, Pulled
    <3>2. QED  BY <1>2, <2>1, <3>1
  <2>5. QED  BY <2>3, <2>4
<1>5. CASE Push
  BY <1>1, <1>2, <1>5 DEF Push, voices, Pulled
<1>6. ASSUME NEW k \in 1 .. PoolSize, Alloc(k)
      PROVE table'[v] < low' /\ owner'[table'[v]] = given'[v]
  <2>1. table' = table /\ given' = given /\ Pulled(v)
    BY <1>1, <1>6 DEF Alloc, voices, Pulled
  <2>2. table[v] \in Cells /\ table[v] < low /\ owner[table[v]] = given[v]
    BY <2>1 DEF PlayingBanksAreLive
  <2>3. low <= low' /\ low' \in Int /\ owner'[table[v]] = owner[table[v]]
    BY <1>6, <2>2, AllocKeeps
  <2>4. QED  BY <2>1, <2>2, <2>3 DEF Cells
<1>7. CASE PopState
  <2>1. table' = table /\ given' = given /\ owner' = owner  BY <1>7 DEF PopState
  <2>2. Pulled(v) /\ table[v] < low'  BY <1>1, <1>7, PopSilences
  <2>3. QED  BY <2>1, <2>2 DEF PlayingBanksAreLive
<1>8. QED  BY <1>3, <1>4, <1>5, <1>6, <1>7 DEF Next, Quiet

-----------------------------------------------------------------------------
(* The invariant the theorems below rest on. *)
THEOREM Invariance == Spec => []IInv
<1>1. Init => IInv
  <2> SUFFICES ASSUME Init PROVE IInv  OBVIOUS
  <2> USE VoicesAssumption DEF Init
  <2>1. saved \in Seq(0 .. PoolSize) /\ place \in Seq(SUBSET Cells)
        /\ Len(saved) = 0 /\ Len(place) = 0
    BY EmptySeq
  <2>2. TypeOK
    <3>1. 0 \in Cells /\ low \in 0 .. PoolSize  BY DEF Cells
    <3>2. Len(place) <= MaxAllocs  BY <2>1
    <3>3. QED  BY <2>1, <3>1, <3>2 DEF TypeOK
  <2>3. Marks  BY <2>1 DEF Marks
  <2>4. FeedsLive /\ Unset  BY DEF FeedsLive, Unset
  <2>5. PlayingBanksAreLive  BY DEF PlayingBanksAreLive, Pulled
  <2>6. QED  BY <2>2, <2>3, <2>4, <2>5 DEF IInv
<1>2. IInv /\ [Next]_vars => IInv'
  <2> SUFFICES ASSUME IInv, [Next]_vars PROVE IInv'  OBVIOUS
  <2>1. TypeOK'  BY TypeStep DEF IInv
  <2>2. Marks' /\ FeedsLive' /\ Unset'
    BY MarksStep, FeedsLiveStep, UnsetStep DEF IInv
  <2>3. PlayingBanksAreLive'  BY LiveStep
  <2>4. QED  BY <2>1, <2>2, <2>3 DEF IInv
<1>3. QED  BY <1>1, <1>2, PTL DEF Spec

(* The pool, the marks and the voices keep their types: in particular what *)
(* the hooks write into em_motion is one of the synthesizer's own values.  *)
THEOREM TypeCorrect == Spec => []TypeOK
<1>1. IInv => TypeOK  BY DEF IInv
<1>2. QED  BY <1>1, Invariance, PTL

(* No voice the synthesizer will pull reads freed or overwritten cells,    *)
(* whatever the order of loads, notes, stops and pops.                     *)
THEOREM BanksStayLive == Spec => []PlayingBanksAreLive
<1>1. IInv => PlayingBanksAreLive  BY DEF IInv
<1>2. QED  BY <1>1, Invariance, PTL

(* A pop silences no voice whose wavetable it leaves in the pool. *)
THEOREM OthersKeepPlaying == Spec => KeepsOthersPlaying
<1>1. IInv /\ [Next]_vars =>
        [ Len(saved') < Len(saved)
          => \A v \in PVoices : Pulled(v) /\ table[v] < low' => Pulled(v)' ]_vars
  <2> SUFFICES ASSUME IInv, Next, Len(saved') < Len(saved), NEW v \in PVoices,
                      Pulled(v), table[v] < low'
               PROVE Pulled(v)'
    BY DEF vars
  <2>1. Len(saved) \in Nat  BY LenProperties DEF IInv, TypeOK
  <2>2. CASE PopState  BY <2>2, PopSilences
  <2>3. CASE Push
    <3>1. Len(saved') = Len(saved) + 1
      BY <2>3, AppendProperties DEF Push, IInv, TypeOK
    <3>2. QED  BY <2>1, <3>1
  <2>4. ASSUME saved' = saved PROVE FALSE  BY <2>1, <2>4
  <2>5. CASE \E k \in 1 .. PoolSize : Alloc(k)  BY <2>4, <2>5 DEF Alloc
  <2>6. CASE Quiet
    BY <2>4, <2>6 DEF Quiet, SynthNew, FeedersNew, AudioStopVoices, LoadSequence,
       EndSequence, StartNote, NoteOff, ReleaseEnds, vars, pool
  <2>7. QED  BY <2>2, <2>3, <2>5, <2>6 DEF Next, Quiet
<1>2. QED  BY <1>1, Invariance, PTL DEF Spec, KeepsOthersPlaying
=============================================================================
