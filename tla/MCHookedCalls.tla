----------------------------- MODULE MCHookedCalls ----------------------------
(***************************************************************************)
(* Two threads, one loader that falls back on slot 0 and one that does     *)
(* not, calls nested deeper than the shadow stacks, two variants of        *)
(* different sizes in two neighbouring buffers.                            *)
(***************************************************************************)
EXTENDS HookedCalls, TLC

CONSTANTS gameThread, audioThread, long, short, this, that

MCThreads  == {gameThread, audioThread}
MCLoaders  == {"aload", "lookup"}
MCFallBack == {"aload", Memmap}
MCCap      == [f \in {"aload", "lookup", Memmap} |-> 1]
MCVariants == {long, short}
MCMaxDepth == [t \in MCThreads |-> IF t = gameThread THEN 3 ELSE 1]
MCArgs     == {this, that}
MCSize     == [v \in MCVariants |-> IF v = long THEN 2 ELSE 1]

\* What a loader is called with is only compared.
ArgSymmetry == Permutations(MCArgs)
=============================================================================
