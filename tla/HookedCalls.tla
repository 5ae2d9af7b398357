------------------------------ MODULE HookedCalls -----------------------------
(***************************************************************************)
(* The hooks that bracket a function of the game, and the one of them the  *)
(* game depends on: the override of Memmap_GetFragmentVaddr.               *)
(*                                                                         *)
(* A hook at a function's entry cannot hand anything to the hook at its    *)
(* exit, so each pair in extras.c keeps a shadow stack of arguments, one   *)
(* per thread: the entry hook pushes, the exit hook pops and reads.  The   *)
(* stacks are fixed arrays; the index keeps counting beyond the array, and *)
(* the exit of a call that did not fit either reports nothing or falls     *)
(* back on slot 0.                                                         *)
(*                                                                         *)
(* The exit hook of Memmap_GetFragmentVaddr changes what the function      *)
(* returns.  The decompressed "pattern" fragments share one link address   *)
(* (the bucket 0x8FF00000) and one pointer, gFragments[id]; several of     *)
(* them, the variants, are resident at a time.  The hook resolves an       *)
(* address of the bucket from the game's own answer or from where the      *)
(* geo-layout walker stands (gGeoLayoutCommand).                           *)
(*                                                                         *)
(* The game's threads run one at a time; a hooked loader waits for the     *)
(* cartridge inside the bracket and another thread runs meanwhile, but     *)
(* Memmap_GetFragmentVaddr is a table lookup and never waits.              *)
(***************************************************************************)
EXTENDS Integers, Sequences, FiniteSets, SequencesExt

CONSTANTS
    Threads,     \* the game's threads
    Walker,      \* the one that walks geo layouts
    Lookers,     \* bound: those that call Memmap_GetFragmentVaddr
    Loaders,     \* the hooked functions other than Memmap_GetFragmentVaddr
    FallBack,    \* those whose exit falls back on slot 0 (load2, aload, ...)
    Cap,         \* slots of each function's shadow stack
    Args,        \* what a loader may be called with
    MaxDepth,    \* bound: nested calls of each thread
    Variants,    \* the fragments of the ambiguous bucket
    Size,        \* the bytes of each
    Slots,       \* buffers a variant may be loaded into, numbered from 1
    SlotSize,    \* bytes of a buffer, which follow each other in memory
    MaxOffset,   \* bound: the offsets asked for in the bucket
    Nothing      \* an exit hook that reports nothing; an empty slot

Memmap == "Memmap_GetFragmentVaddr"
Fns == Loaders \union {Memmap}

ASSUME CallsAssumption ==
    /\ Walker \in Lookers /\ Lookers \subseteq Threads
    /\ FallBack \subseteq Fns /\ Memmap \in FallBack
    /\ Memmap \notin Loaders /\ "process_geo_layout" \notin Fns
    /\ Cap \in [Fns -> Nat \ {0}] /\ MaxDepth \in [Threads -> Nat]
    /\ SlotSize \in Nat \ {0} /\ MaxOffset \in Nat
    /\ IsFiniteSet(Slots) /\ Slots = 1 .. Cardinality(Slots)
    /\ Size \in [Variants -> 1 .. SlotSize]

\* What Memmap_GetFragmentVaddr is asked for: an offset in the ambiguous
\* bucket, the synthetic address of one variant, or another fragment's.
Inputs == [kind : {"pattern"}, off : 0 .. MaxOffset]
              \union [kind : {"synthetic"}, of : Variants]
              \union {[kind |-> "fragment"]}

VARIABLES
    calls,    \* the calls in progress on each thread, the innermost last
    stack,    \* s_..._stack: the shadow stack of each thread and function
    sp,       \* s_..._sp
    base,     \* the address each variant is loaded at, 0 when it is not
    native,   \* gFragments[id] of the bucket: the variant registered last
    geo,      \* gGeoLayoutCommand: the address the walker stands at, or 0
    last      \* history: what the step did, when it was an exit hook

shadow == <<stack, sp>>
memory == <<base, native>>
vars   == <<calls, shadow, memory, geo, last>>

\* The calls of f in progress on t, by their place in calls[t], and how many.
CallsOf(t, f) == {i \in DOMAIN calls[t] : calls[t][i].fn = f}
Depth(t, f) == Cardinality(CallsOf(t, f))

\* Addresses are those of the buffers; an answer outside them is the game's
\* own for a fragment of another bucket.
OtherAddress == (Cardinality(Slots) + 2) * SlotSize

Init ==
    /\ calls = [t \in Threads |-> <<>>]
    /\ stack = [t \in Threads |-> [f \in Fns |-> [i \in 0 .. Cap[f] - 1 |-> Nothing]]]
    /\ sp = [t \in Threads |-> [f \in Fns |-> 0]]
    /\ base = [v \in Variants |-> 0]
    /\ native = 0
    /\ geo = 0
    /\ last = Nothing

-----------------------------------------------------------------------------
(* The game: its walks and its variants.                                   *)

\* A thread inside Memmap_GetFragmentVaddr does not give way.
InMemmap(t) == calls[t] # <<>> /\ Last(calls[t]).fn = Memmap
NoneInMemmap == \A t \in Threads : ~InMemmap(t)

Holds(v, a) == base[v] # 0 /\ a \in base[v] .. base[v] + Size[v] - 1

\* The walks in progress, and the variant whose layout some of them are at:
\* the one of the innermost.
Walks == CallsOf(Walker, "process_geo_layout")
Walked(walks) == calls[Walker][Max(walks)].arg

LoadVariant(v, s) ==
    /\ NoneInMemmap
    /\ base[v] = 0
    /\ \A w \in Variants : base[w] # s * SlotSize
    /\ base' = [base EXCEPT ![v] = s * SlotSize]
    /\ native' = s * SlotSize
    /\ last' = Nothing
    /\ UNCHANGED <<calls, shadow, geo>>

\* The pointer of the bucket is left as it was.
UnloadVariant(v) ==
    /\ NoneInMemmap
    /\ base[v] # 0
    /\ \A i \in Walks : calls[Walker][i].arg # v
    /\ base' = [base EXCEPT ![v] = 0]
    /\ last' = Nothing
    /\ UNCHANGED <<calls, shadow, native, geo>>

\* process_geo_layout, or a branch from one layout into another.
StartWalk(v) ==
    /\ NoneInMemmap
    /\ Len(calls[Walker]) < MaxDepth[Walker]
    /\ base[v] # 0
    /\ calls' = [calls EXCEPT ![Walker] =
                     Append(@, [fn |-> "process_geo_layout", arg |-> v])]
    /\ \E o \in 0 .. Size[v] - 1 : geo' = base[v] + o
    /\ last' = Nothing
    /\ UNCHANGED <<shadow, memory>>

EndWalk ==
    /\ NoneInMemmap
    /\ calls[Walker] # <<>> /\ Last(calls[Walker]).fn = "process_geo_layout"
    /\ calls' = [calls EXCEPT ![Walker] = Front(@)]
    /\ LET outer == Walks \ {Len(calls[Walker])}
       IN  geo' = IF outer # {} THEN base[Walked(outer)] ELSE 0
    /\ last' = Nothing
    /\ UNCHANGED <<shadow, memory>>

-----------------------------------------------------------------------------
(* The hooks.                                                              *)

\* Mutant: the index counts only the calls that fit.
EnterCountsStored(t, f, a) ==
    /\ NoneInMemmap
    /\ Len(calls[t]) < MaxDepth[t]
    /\ calls' = [calls EXCEPT ![t] = Append(@, [fn |-> f, arg |-> a])]
    /\ stack' = IF sp[t][f] < Cap[f]
                THEN [stack EXCEPT ![t][f][sp[t][f]] = a] ELSE stack
    /\ sp' = [sp EXCEPT ![t][f] = IF @ < Cap[f] THEN @ + 1 ELSE @]
    /\ last' = Nothing
    /\ UNCHANGED <<memory, geo>>

\* Mutant: the array is not __thread, the index is.
EnterShared(t, f, a) ==
    /\ NoneInMemmap
    /\ Len(calls[t]) < MaxDepth[t]
    /\ calls' = [calls EXCEPT ![t] = Append(@, [fn |-> f, arg |-> a])]
    /\ stack' = IF sp[t][f] < Cap[f]
                THEN [u \in Threads |-> [stack[u] EXCEPT ![f][sp[t][f]] = a]]
                ELSE stack
    /\ sp' = [sp EXCEPT ![t][f] = @ + 1]
    /\ last' = Nothing
    /\ UNCHANGED <<memory, geo>>

\* An entry hook: the argument goes to the slot the index names, when there
\* is such a slot, and the index counts the call in any case.
Enter(t, f, a) ==
    /\ NoneInMemmap
    /\ Len(calls[t]) < MaxDepth[t]
    /\ calls' = [calls EXCEPT ![t] = Append(@, [fn |-> f, arg |-> a])]
    /\ stack' = IF sp[t][f] < Cap[f]
                THEN [stack EXCEPT ![t][f][sp[t][f]] = a] ELSE stack
    /\ sp' = [sp EXCEPT ![t][f] = @ + 1]
    /\ last' = Nothing
    /\ UNCHANGED <<memory, geo>>

\* What the exit hook of f reads on thread t, the index already taken back.
Popped(t, f) == LET i == sp[t][f] - 1
                IN  IF i \in 0 .. Cap[f] - 1 THEN stack[t][f][i]
                    ELSE IF f \in FallBack THEN stack[t][f][0]
                    ELSE Nothing

\* What the outermost call of f on t was given.
Outermost(t, f) == calls[t][Min(CallsOf(t, f))].arg

Leave(t, f) ==
    /\ calls[t] # <<>> /\ Last(calls[t]).fn = f
    /\ calls' = [calls EXCEPT ![t] = Front(@)]
    /\ sp' = [sp EXCEPT ![t][f] = @ - 1]
    /\ UNCHANGED <<stack, memory, geo>>

LoaderExit(t, f) ==
    /\ NoneInMemmap
    /\ Leave(t, f)
    /\ last' = [fn |-> f, depth |-> Depth(t, f), own |-> Last(calls[t]).arg,
                outermost |-> Outermost(t, f), saw |-> Popped(t, f)]

\* What the game's own lookup returns: gFragments[id] plus the offset, a
\* synthetic address unchanged (no buffer is there), another fragment's own.
GameResult(input) ==
    IF input.kind = "pattern" /\ native # 0 THEN native + input.off
    ELSE IF input.kind = "fragment" THEN OtherAddress
    ELSE 0

\* recomp_addr_in_loaded_variant: the address is inside some resident variant.
InLoadedVariant(a) == \E v \in Variants : Holds(v, a)

\* recomp_resolve_via_data_context: the offset in the variant the walker
\* stands in, 0 when it stands in none or the variant is too short.
ViaDataContext(input) ==
    LET here == {v \in Variants : Holds(v, geo) /\ input.off < Size[v]}
    IN  IF here = {} THEN 0 ELSE base[CHOOSE v \in here : TRUE] + input.off

\* Mutant: the game's answer is trusted whenever there is one.
ResolvedTrusting(input, game) ==
    CASE input.kind = "synthetic" -> base[input.of]
      [] input.kind = "fragment" -> game
      [] input.kind = "pattern" -> IF game # 0 THEN game ELSE ViaDataContext(input)

\* The answer of the exit hook for the input it popped: the synthetic table
\* first, then, for the ambiguous bucket alone, the game's answer when it is
\* inside a resident variant, the data context, and the game's answer.
Resolved(input, game) ==
    CASE input.kind = "synthetic" -> base[input.of]
      [] input.kind = "fragment" -> game
      [] input.kind = "pattern" ->
             IF InLoadedVariant(game) \/ ViaDataContext(input) = 0
             THEN game ELSE ViaDataContext(input)

\* The exit hook of Memmap_GetFragmentVaddr.  A synthetic address whose slot
\* is empty ends the process.
MemmapExit(t) ==
    LET own  == Last(calls[t]).arg
        game == GameResult(own)
        saw  == Popped(t, Memmap)
    IN  /\ Leave(t, Memmap)
        /\ saw.kind = "synthetic" => base[saw.of] # 0
        /\ last' = [fn |-> Memmap, depth |-> Depth(t, Memmap), own |-> own,
                    outermost |-> Outermost(t, Memmap), saw |-> saw, by |-> t, game |-> game,
                    answer |-> Resolved(saw, game)]

Next ==
    \/ \E v \in Variants, s \in Slots : LoadVariant(v, s)
    \/ \E v \in Variants : UnloadVariant(v) \/ StartWalk(v)
    \/ EndWalk
    \/ \E t \in Threads :
           \/ \E f \in Loaders, a \in Args : Enter(t, f, a)
           \/ \E f \in Loaders : LoaderExit(t, f)
    \/ \E t \in Lookers : (\E a \in Inputs : Enter(t, Memmap, a)) \/ MemmapExit(t)

Spec == Init /\ [][Next]_vars

-----------------------------------------------------------------------------

\* The shadow stacks mirror the calls: the index of each is the number of calls
\* of its function in progress on its thread, those that did not fit included,
\* so that every exit takes back what its own entry counted.
TypeOK ==
    /\ \A t \in Threads, f \in Fns :
           /\ sp[t][f] = Depth(t, f)
           /\ \A i \in DOMAIN stack[t][f] :
                  stack[t][f][i] \in {Nothing} \union
                      (IF f = Memmap THEN Inputs ELSE Args)
    /\ base \in [Variants -> {0} \union {s * SlotSize : s \in Slots}]
    /\ native \in {0} \union {s * SlotSize : s \in Slots}
    /\ geo \in 0 .. OtherAddress

\* Whatever other threads call meanwhile and however deep the calls nest, an
\* exit hook reports the arguments of the very call that returns; a call that
\* did not fit reports nothing, or the outermost one in the loaders that fall
\* back on slot 0, and spoils no call around it.
ExitSeesOwnCall ==
    last # Nothing =>
        last.saw = IF last.depth <= Cap[last.fn] THEN last.own
                   ELSE IF last.fn \in FallBack THEN last.outermost
                   ELSE Nothing

\* The lookup that the walker's thread is about to return from, inside a walk
\* of a variant that holds the offset asked for.
WalkedLookup ==
    /\ InMemmap(Walker) /\ Walks # {}
    /\ Last(calls[Walker]).arg.kind = "pattern"
    /\ Last(calls[Walker]).arg.off < Size[Walked(Walks)]

\* The address the walked variant gives that lookup.
InWalkedVariant == base[Walked(Walks)] + Last(calls[Walker]).arg.off

\* When gFragments[id] points at no resident variant for the offset (its
\* variant was unloaded, or is too short), a literal met while a layout is
\* walked resolves into the variant that is walked, also after walks nested in
\* it have ended; and an address of any other fragment keeps the game's answer.
WalkedVariantWhenGameFails ==
    [][ \A t \in Threads : InMemmap(t) /\ ~InMemmap(t)' =>
            LET own == Last(calls[t]).arg
            IN  /\ own.kind = "fragment" => last'.answer = GameResult(own)
                /\ t = Walker /\ WalkedLookup /\ ~InLoadedVariant(GameResult(own))
                   => last'.answer = InWalkedVariant ]_vars

\* The comment above the hook in game.toml: "whichever variant's [base,
\* base+size) contains gGeoLayoutCommand is the variant the literal should
\* resolve against".
WalkedVariantIsActive ==
    [][ WalkedLookup /\ ~InMemmap(Walker)' => last'.answer = InWalkedVariant ]_vars
=============================================================================
