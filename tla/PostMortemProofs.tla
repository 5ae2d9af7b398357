-------------------------- MODULE PostMortemProofs --------------------------
(***************************************************************************)
(* Proofs about the dumps, for any set of threads.                         *)
(*                                                                         *)
(* g_dump_mutex says who is inside a dump (Locking) and what the files hold *)
(* depends on how far that dump is (Files); a suspend count is the number  *)
(* of walks that have the thread in hand (Counts).                         *)
(***************************************************************************)
EXTENDS PostMortem, FiniteSetTheorems, TLAPS

(* Between psr_post_mortem_dump's lock and unlock. *)
InDump(t) ==
    \/ pc[t] \in {"open", "write", "history", "unlock"}
    \/ pc[t] \in {"walk", "frames"} /\ reason[t] # "threads"

Locking == \A t \in Threads : InDump(t) <=> g_dump_mutex = t

(* Only the server walks without the mutex. *)
Reasons ==
    \A t \in Threads :
        /\ reason[t] = "threads" => t = Server
        /\ pc[t] \in {"lock", "open", "write", "history", "unlock"} => reason[t] # "threads"

Walks ==
    \A t \in Threads :
        /\ walking[t] # NoOne <=> pc[t] = "frames"
        /\ walking[t] # t /\ t \notin left[t]

Walkers(u) == {t \in Threads : walking[t] = u}

Counts ==
    \A u \in Threads :
        IsFiniteSet(Walkers(u)) /\ suspended[u] = Cardinality(Walkers(u))

Settled ==
    /\ report.closed
    /\ \/ report.by = {}
       \/ \E t \in Threads : report.by = {t} /\ (history = t \/ missed)

Files ==
    /\ g_dump_mutex = NoOne => Settled
    /\ \A t \in Threads :
          /\ pc[t] \in {"open", "unlock"} => Settled
          /\ pc[t] \in {"write", "walk", "frames"} /\ InDump(t) => report.by = {t}
          /\ pc[t] = "history" => report.by = {t} /\ report.closed

Types ==
    /\ {alive, buildDir, missed} \subseteq BOOLEAN
    /\ pc \in [Threads -> {"run", "heap", "lock", "open", "write", "walk", "frames",
                           "history", "unlock", "end"}]
    /\ reason \in [Threads -> {"none", "seh", "atexit", "tcp", "threads"}]
    /\ {g_dump_mutex, heap, history} \subseteq Threads \cup {NoOne}
    /\ left \in [Threads -> SUBSET Threads]
    /\ walking \in [Threads -> Threads \cup {NoOne}]
    /\ suspended \in [Threads -> Int]
    /\ report \in [by : SUBSET Threads, closed : BOOLEAN]

IInv == Types /\ Locking /\ Reasons /\ Walks /\ Counts /\ Files

-----------------------------------------------------------------------------
(* The steps by which a thread begins or goes on, without a walk.          *)
Begins(t) == Allocate(t) \/ Allocated(t) \/ Fault(t) \/ Lock(t) \/ End(t)
Holds(t) == Open(t) \/ Write(t) \/ History(t) \/ Unlock(t)

LEMMA Cases ==
    ASSUME Next
    PROVE \/ Exit \/ DumpCommand \/ DumpThreads \/ Quit
          \/ \E t \in Threads : Begins(t)
          \/ \E t \in Threads : Holds(t)
          \/ \E t \in Threads : Suspend(t)
          \/ \E t \in Threads : NoContext(t) \/ Frames(t)
          \/ \E t \in Threads : Walked(t)
BY DEF Next, Dump, Begins, Holds

(* Types are preserved, but for the sign of a suspend count: see Counts.   *)
LEMMA TypesStep == ASSUME Types, Walks, [Next]_vars PROVE Types'
<1> USE ProcessAssumption DEF Types, At, CanStep, Goto, walk, files
<1>1. CASE Exit \/ DumpCommand \/ DumpThreads \/ Quit
  <2>1. CASE Exit  BY <2>1 DEF Exit, Call
  <2>2. CASE DumpCommand  BY <2>2 DEF DumpCommand, Call
  <2>3. CASE DumpThreads  BY <2>3 DEF DumpThreads
  <2>4. CASE Quit  BY <2>4 DEF Quit
  <2>5. QED  BY <1>1, <2>1, <2>2, <2>3, <2>4
<1>2. ASSUME NEW t \in Threads, Begins(t) PROVE Types'
  <2>1. CASE Allocate(t)  BY <2>1 DEF Allocate
  <2>2. CASE Allocated(t)  BY <2>2 DEF Allocated
  <2>3. CASE Fault(t)  BY <2>3 DEF Fault, Call
  <2>4. CASE Lock(t)  BY <2>4 DEF Lock
  <2>5. CASE End(t)  BY <2>5 DEF End
  <2>6. QED  BY <1>2, <2>1, <2>2, <2>3, <2>4, <2>5 DEF Begins
<1>3. ASSUME NEW t \in Threads, Holds(t) PROVE Types'
  <2>1. CASE Open(t)
    <3>1. report' = [by |-> {t}, closed |-> FALSE] \/ report' = report
      BY <2>1 DEF Open
    <3>2. {t} \in SUBSET Threads  OBVIOUS
    <3>3. report' \in [by : SUBSET Threads, closed : BOOLEAN]
      <4>1. CASE report' = [by |-> {t}, closed |-> FALSE]  BY <3>2, <4>1
      <4>2. CASE report' = report  BY <4>2
      <4>3. QED  BY <3>1, <4>1, <4>2
    <3>4. pc' = [pc EXCEPT ![t] = "write"] \/ pc' = [pc EXCEPT ![t] = "unlock"]
      BY <2>1 DEF Open
    <3>5. QED  BY <2>1, <3>3, <3>4 DEF Open
  <2>2. CASE Write(t)  BY <2>2 DEF Write
  <2>3. CASE History(t)  BY <2>3 DEF History
  <2>4. CASE Unlock(t)  BY <2>4 DEF Unlock
  <2>5. QED  BY <1>3, <2>1, <2>2, <2>3, <2>4 DEF Holds
<1>4. ASSUME NEW t \in Threads, Suspend(t) PROVE Types'
  BY <1>4 DEF Suspend
<1>5. ASSUME NEW t \in Threads, NoContext(t) \/ Frames(t) PROVE Types'
  <2>1. walking[t] \in Threads  BY <1>5 DEF NoContext, Frames, Walks
  <2>2. CASE NoContext(t)  BY <2>1, <2>2 DEF NoContext, Resume
  <2>3. CASE Frames(t)  BY <2>1, <2>3 DEF Frames, Resume
  <2>4. QED  BY <1>5, <2>2, <2>3
<1>6. ASSUME NEW t \in Threads, Walked(t) PROVE Types'
  <2>1. CASE reason[t] = "threads"  BY <1>6, <2>1 DEF Walked
  <2>2. CASE reason[t] # "threads"
    <3>1. report' = [by |-> report.by \cup {t}, closed |-> TRUE]
      BY <1>6, <2>2 DEF Walked
    <3>2. report' \in [by : SUBSET Threads, closed : BOOLEAN]  BY <3>1
    <3>3. QED  BY <1>6, <2>2, <3>2 DEF Walked
  <2>3. QED  BY <2>1, <2>2
<1>7. CASE UNCHANGED vars  BY <1>7 DEF vars
<1>8. QED  BY <1>1, <1>2, <1>3, <1>4, <1>5, <1>6, <1>7, Cases

(* Who may walk without the mutex, and who is inside a dump. *)
LEMMA LockingStep ==
    ASSUME Types, Types', Locking, Reasons, [Next]_vars
    PROVE Locking' /\ Reasons'
<1> USE ProcessAssumption DEF Types, Locking, Reasons, InDump, At, CanStep, Goto, walk, files
<1>1. CASE Exit \/ DumpCommand \/ DumpThreads \/ Quit
  <2>1. CASE Exit  BY <2>1 DEF Exit, Call
  <2>2. CASE DumpCommand  BY <2>2 DEF DumpCommand, Call
  <2>3. CASE DumpThreads  BY <2>3 DEF DumpThreads
  <2>4. CASE Quit  BY <2>4 DEF Quit
  <2>5. QED  BY <1>1, <2>1, <2>2, <2>3, <2>4
<1>2. ASSUME NEW t \in Threads, Begins(t) PROVE Locking' /\ Reasons'
  <2>1. CASE Allocate(t)  BY <2>1 DEF Allocate
  <2>2. CASE Allocated(t)  BY <2>2 DEF Allocated
  <2>3. CASE Fault(t)  BY <2>3 DEF Fault, Call
  <2>4. CASE Lock(t)  BY <2>4 DEF Lock
  <2>5. CASE End(t)  BY <2>5 DEF End
  <2>6. QED  BY <1>2, <2>1, <2>2, <2>3, <2>4, <2>5 DEF Begins
<1>3. ASSUME NEW t \in Threads, Holds(t) PROVE Locking' /\ Reasons'
  <2>1. CASE Open(t)
    <3>1. CASE pc' = [pc EXCEPT ![t] = "write"]  BY <2>1, <3>1 DEF Open
    <3>2. CASE pc' = [pc EXCEPT ![t] = "unlock"]  BY <2>1, <3>2 DEF Open
    <3>3. QED  BY <2>1, <3>1, <3>2 DEF Open
  <2>2. CASE Write(t)  BY <2>2 DEF Write
  <2>3. CASE History(t)  BY <2>3 DEF History
  <2>4. CASE Unlock(t)  BY <2>4 DEF Unlock
  <2>5. QED  BY <1>3, <2>1, <2>2, <2>3, <2>4 DEF Holds
<1>4. ASSUME NEW t \in Threads, Suspend(t) PROVE Locking' /\ Reasons'
  BY <1>4 DEF Suspend
<1>5. ASSUME NEW t \in Threads, NoContext(t) \/ Frames(t) PROVE Locking' /\ Reasons'
  <2>1. CASE NoContext(t)  BY <2>1 DEF NoContext, Resume
  <2>2. CASE Frames(t)  BY <2>2 DEF Frames, Resume
  <2>3. QED  BY <1>5, <2>1, <2>2
<1>6. ASSUME NEW t \in Threads, Walked(t) PROVE Locking' /\ Reasons'
  <2>1. CASE reason[t] = "threads"  BY <1>6, <2>1 DEF Walked
  <2>2. CASE reason[t] # "threads"  BY <1>6, <2>2 DEF Walked
  <2>3. QED  BY <2>1, <2>2
<1>7. CASE UNCHANGED vars  BY <1>7 DEF vars
<1>8. QED  BY <1>1, <1>2, <1>3, <1>4, <1>5, <1>6, <1>7, Cases

(* A walk has a thread in hand exactly while it is at its frames, and      *)
(* never itself.                                                           *)
LEMMA WalksStep == ASSUME Types, Types', Walks, [Next]_vars PROVE Walks'
<1> USE ProcessAssumption DEF Types, Walks, At, CanStep, Goto, walk, files
<1>1. CASE Exit \/ DumpCommand \/ DumpThreads \/ Quit
  <2>1. CASE Exit  BY <2>1 DEF Exit, Call
  <2>2. CASE DumpCommand  BY <2>2 DEF DumpCommand, Call
  <2>3. CASE DumpThreads  BY <2>3 DEF DumpThreads
  <2>4. CASE Quit  BY <2>4 DEF Quit
  <2>5. QED  BY <1>1, <2>1, <2>2, <2>3, <2>4
<1>2. ASSUME NEW t \in Threads, Begins(t) PROVE Walks'
  <2>1. CASE Allocate(t)  BY <2>1 DEF Allocate
  <2>2. CASE Allocated(t)  BY <2>2 DEF Allocated
  <2>3. CASE Fault(t)  BY <2>3 DEF Fault, Call
  <2>4. CASE Lock(t)  BY <2>4 DEF Lock
  <2>5. CASE End(t)  BY <2>5 DEF End
  <2>6. QED  BY <1>2, <2>1, <2>2, <2>3, <2>4, <2>5 DEF Begins
<1>3. ASSUME NEW t \in Threads, Holds(t) PROVE Walks'
  <2>1. CASE Open(t)
    <3>1. CASE pc' = [pc EXCEPT ![t] = "write"]  BY <2>1, <3>1 DEF Open
    <3>2. CASE pc' = [pc EXCEPT ![t] = "unlock"]  BY <2>1, <3>2 DEF Open
    <3>3. QED  BY <2>1, <3>1, <3>2 DEF Open
  <2>2. CASE Write(t)  BY <2>2 DEF Write
  <2>3. CASE History(t)  BY <2>3 DEF History
  <2>4. CASE Unlock(t)  BY <2>4 DEF Unlock
  <2>5. QED  BY <1>3, <2>1, <2>2, <2>3, <2>4 DEF Holds
<1>4. ASSUME NEW t \in Threads, Suspend(t) PROVE Walks'
  BY <1>4 DEF Suspend
<1>5. ASSUME NEW t \in Threads, NoContext(t) \/ Frames(t) PROVE Walks'
  <2>1. CASE NoContext(t)  BY <2>1 DEF NoContext, Resume
  <2>2. CASE Frames(t)  BY <2>2 DEF Frames, Resume
  <2>3. QED  BY <1>5, <2>1, <2>2
<1>6. ASSUME NEW t \in Threads, Walked(t) PROVE Walks'
  <2>1. CASE reason[t] = "threads"  BY <1>6, <2>1 DEF Walked
  <2>2. CASE reason[t] # "threads"  BY <1>6, <2>2 DEF Walked
  <2>3. QED  BY <2>1, <2>2
<1>7. CASE UNCHANGED vars  BY <1>7 DEF vars
<1>8. QED  BY <1>1, <1>2, <1>3, <1>4, <1>5, <1>6, <1>7, Cases

(* Only these steps touch a suspend count. *)
LEMMA OthersLeaveCounts ==
    ASSUME [Next]_vars, \A t \in Threads : ~Suspend(t) /\ ~NoContext(t) /\ ~Frames(t)
    PROVE UNCHANGED <<walking, suspended>>
<1>1. CASE UNCHANGED vars  BY <1>1 DEF vars, walk
<1>2. CASE Exit \/ DumpCommand \/ DumpThreads \/ Quit
  BY <1>2 DEF Exit, DumpCommand, DumpThreads, Quit, Call, walk
<1>3. ASSUME NEW t \in Threads, Begins(t) \/ Holds(t) \/ Walked(t)
      PROVE UNCHANGED <<walking, suspended>>
  BY <1>3 DEF Begins, Holds, Allocate, Allocated, Fault, Call, Lock, Open, Write, Walked,
     History, Unlock, End, walk
<1>4. QED  BY <1>1, <1>2, <1>3, Cases

(* Suspending adds the walk to the walkers of one thread, resuming takes   *)
(* it away.                                                                *)
LEMMA CountsStep == ASSUME Types, Walks, Counts, [Next]_vars PROVE Counts'
<1> USE ProcessAssumption DEF Types
<1>1. ASSUME NEW t \in Threads, Suspend(t) PROVE Counts'
  <2>1. CASE UNCHANGED <<walking, suspended>>
    <3>1. \A u \in Threads : Walkers(u)' = Walkers(u)  BY <2>1 DEF Walkers
    <3>2. QED  BY <2>1, <3>1 DEF Counts
  <2>2. ASSUME NEW u \in left[t],
               walking' = [walking EXCEPT ![t] = u],
               suspended' = [suspended EXCEPT ![u] = @ + 1]
        PROVE Counts'
    <3>1. walking[t] = NoOne /\ u \in Threads  BY <1>1, <2>2 DEF Suspend, Walks, At
    <3>2. SUFFICES ASSUME NEW v \in Threads
                   PROVE (IsFiniteSet(Walkers(v)) /\ suspended[v] = Cardinality(Walkers(v)))'
      BY DEF Counts
    <3>3. IsFiniteSet(Walkers(v)) /\ suspended[v] = Cardinality(Walkers(v))  BY DEF Counts
    <3>4. CASE v = u
      <4>1. Walkers(v)' = Walkers(v) \cup {t}  BY <2>2, <3>1, <3>4 DEF Walkers
      <4>2. t \notin Walkers(v)  BY <3>1 DEF Walkers
      <4>3. IsFiniteSet(Walkers(v)') /\ Cardinality(Walkers(v)') = Cardinality(Walkers(v)) + 1
        BY <3>3, <4>1, <4>2, FS_AddElement
      <4>4. suspended'[v] = suspended[v] + 1  BY <2>2, <3>4
      <4>5. QED  BY <3>3, <4>3, <4>4
    <3>5. CASE v # u
      <4>1. Walkers(v)' = Walkers(v)  BY <2>2, <3>1, <3>5 DEF Walkers
      <4>2. suspended'[v] = suspended[v]  BY <2>2, <3>5
      <4>3. QED  BY <3>3, <4>1, <4>2
    <3>6. QED  BY <3>4, <3>5
  <2>3. PICK u \in left[t] :
            \/ walking' = [walking EXCEPT ![t] = u] /\ suspended' = [suspended EXCEPT ![u] = @ + 1]
            \/ UNCHANGED <<walking, suspended>>
    BY <1>1 DEF Suspend
  <2>4. QED  BY <2>1, <2>2, <2>3
<1>2. ASSUME NEW t \in Threads, NoContext(t) \/ Frames(t) PROVE Counts'
  <2>1. DEFINE u == walking[t]
  <2>2. u \in Threads /\ walking' = [walking EXCEPT ![t] = NoOne]
        /\ suspended' = [suspended EXCEPT ![u] = @ - 1]
    BY <1>2 DEF NoContext, Frames, Resume, At, Walks
  <2>3. SUFFICES ASSUME NEW v \in Threads
                 PROVE (IsFiniteSet(Walkers(v)) /\ suspended[v] = Cardinality(Walkers(v)))'
    BY DEF Counts
  <2>4. IsFiniteSet(Walkers(v)) /\ suspended[v] = Cardinality(Walkers(v))  BY DEF Counts
  <2>5. CASE v = u
    <3>1. Walkers(v)' = Walkers(v) \ {t} /\ t \in Walkers(v)  BY <2>2, <2>5 DEF Walkers
    <3>2. IsFiniteSet(Walkers(v)') /\ Cardinality(Walkers(v)') = Cardinality(Walkers(v)) - 1
      BY <2>4, <3>1, FS_RemoveElement
    <3>3. suspended'[v] = suspended[v] - 1  BY <2>2, <2>5
    <3>4. QED  BY <2>4, <3>2, <3>3
  <2>6. CASE v # u
    <3>1. Walkers(v)' = Walkers(v)  BY <2>2, <2>6 DEF Walkers
    <3>2. suspended'[v] = suspended[v]  BY <2>2, <2>6
    <3>3. QED  BY <2>4, <3>1, <3>2
  <2>7. QED  BY <2>5, <2>6
<1>3. CASE \A t \in Threads : ~Suspend(t) /\ ~NoContext(t) /\ ~Frames(t)
  <2>1. UNCHANGED <<walking, suspended>>  BY <1>3, OthersLeaveCounts
  <2>2. \A u \in Threads : Walkers(u)' = Walkers(u)  BY <2>1 DEF Walkers
  <2>3. QED  BY <2>1, <2>2 DEF Counts
<1>4. QED  BY <1>1, <1>2, <1>3

(* What the files hold, by how far the dump inside g_dump_mutex is.        *)
LEMMA FilesStep ==
    ASSUME Types, Types', Locking, Reasons, Locking', Reasons', Files, [Next]_vars
    PROVE Files'
<1> USE ProcessAssumption
    DEF Types, Locking, Reasons, Files, InDump, Settled, At, CanStep, Goto, walk, files
<1>1. CASE Exit \/ DumpCommand \/ DumpThreads \/ Quit
  <2>1. CASE Exit  BY <2>1 DEF Exit, Call
  <2>2. CASE DumpCommand  BY <2>2 DEF DumpCommand, Call
  <2>3. CASE DumpThreads  BY <2>3 DEF DumpThreads
  <2>4. CASE Quit  BY <2>4 DEF Quit
  <2>5. QED  BY <1>1, <2>1, <2>2, <2>3, <2>4
<1>2. ASSUME NEW t \in Threads, Begins(t) PROVE Files'
  <2>1. CASE Allocate(t)  BY <2>1 DEF Allocate
  <2>2. CASE Allocated(t)  BY <2>2 DEF Allocated
  <2>3. CASE Fault(t)  BY <2>3 DEF Fault, Call
  <2>4. CASE Lock(t)  BY <2>4 DEF Lock
  <2>5. CASE End(t)  BY <2>5 DEF End
  <2>6. QED  BY <1>2, <2>1, <2>2, <2>3, <2>4, <2>5 DEF Begins
<1>3. ASSUME NEW t \in Threads, Holds(t) PROVE Files'
  <2>1. CASE Open(t)
    <3>1. CASE pc' = [pc EXCEPT ![t] = "write"]  BY <2>1, <3>1 DEF Open
    <3>2. CASE pc' = [pc EXCEPT ![t] = "unlock"]  BY <2>1, <3>2 DEF Open
    <3>3. QED  BY <2>1, <3>1, <3>2 DEF Open
  <2>2. CASE Write(t)  BY <2>2 DEF Write
  <2>3. CASE History(t)  BY <2>3 DEF History
  <2>4. CASE Unlock(t)  BY <2>4 DEF Unlock
  <2>5. QED  BY <1>3, <2>1, <2>2, <2>3, <2>4 DEF Holds
<1>4. ASSUME NEW t \in Threads, Suspend(t) PROVE Files'
  BY <1>4 DEF Suspend
<1>5. ASSUME NEW t \in Threads, NoContext(t) \/ Frames(t) PROVE Files'
  <2>1. CASE NoContext(t)  BY <2>1 DEF NoContext, Resume
  <2>2. CASE Frames(t)  BY <2>2 DEF Frames, Resume
  <2>3. QED  BY <1>5, <2>1, <2>2
<1>6. ASSUME NEW t \in Threads, Walked(t) PROVE Files'
  <2>1. CASE reason[t] = "threads"  BY <1>6, <2>1 DEF Walked
  <2>2. CASE reason[t] # "threads"  BY <1>6, <2>2 DEF Walked
  <2>3. QED  BY <2>1, <2>2
<1>7. CASE UNCHANGED vars  BY <1>7 DEF vars
<1>8. QED  BY <1>1, <1>2, <1>3, <1>4, <1>5, <1>6, <1>7, Cases

-----------------------------------------------------------------------------
(* The invariant the theorems below rest on. *)
THEOREM Invariance == Spec => []IInv
<1>1. Init => IInv
  <2> SUFFICES ASSUME Init PROVE IInv  OBVIOUS
  <2>1. Locking /\ Reasons /\ Walks
    BY ProcessAssumption DEF Init, Locking, Reasons, InDump, Walks
  <2>2. Files  BY ProcessAssumption DEF Init, Files, Settled
  <2>3. \A u \in Threads : Walkers(u) = {} /\ suspended[u] = 0
    BY ProcessAssumption DEF Init, Walkers
  <2>4. Counts  BY <2>3, FS_EmptySet DEF Counts
  <2>5. report \in [by : SUBSET Threads, closed : BOOLEAN]  BY DEF Init
  <2>6. Types
    <3>1. {alive, buildDir, missed} \subseteq BOOLEAN  BY DEF Init
    <3>2. {g_dump_mutex, heap, history} \subseteq Threads \cup {NoOne}  BY DEF Init
    <3>3. /\ left \in [Threads -> SUBSET Threads]
          /\ walking \in [Threads -> Threads \cup {NoOne}]
          /\ suspended \in [Threads -> Int]
      BY DEF Init
    <3>4. QED  BY <2>5, <3>1, <3>2, <3>3 DEF Init, Types
  <2>7. QED  BY <2>1, <2>2, <2>4, <2>6 DEF IInv
<1>2. IInv /\ [Next]_vars => IInv'
  <2> SUFFICES ASSUME IInv, [Next]_vars PROVE IInv'  BY DEF IInv
  <2>1. Types'  BY TypesStep DEF IInv
  <2>2. Locking' /\ Reasons'  BY <2>1, LockingStep DEF IInv
  <2>3. Walks'  BY <2>1, WalksStep DEF IInv
  <2>4. Counts'  BY CountsStep DEF IInv
  <2>5. Files'  BY <2>1, <2>2, FilesStep DEF IInv
  <2>6. QED  BY <2>1, <2>2, <2>3, <2>4, <2>5 DEF IInv
<1>3. QED  BY <1>1, <1>2, PTL DEF Spec

(* Every variable keeps its type; no thread is resumed more often than it  *)
(* was suspended.                                                          *)
THEOREM TypeCorrect == Spec => []TypeOK
<1>1. IInv => TypeOK
  <2> SUFFICES ASSUME IInv PROVE TypeOK  OBVIOUS
  <2>1. \A u \in Threads : suspended[u] \in Nat
    BY FS_CardinalityType DEF IInv, Counts
  <2>2. suspended \in [Threads -> Nat]  BY <2>1 DEF IInv, Types
  <2>3. QED  BY <2>2 DEF IInv, Types, TypeOK
<1>2. QED  BY <1>1, Invariance, PTL

(* The report holds the text of one dump, and between dumps it is complete. *)
THEOREM ReportsAreWhole == Spec => []ReportIsWhole
<1>1. IInv => ReportIsWhole
  <2> SUFFICES ASSUME IInv PROVE ReportIsWhole  OBVIOUS
  <2>1. g_dump_mutex = NoOne => report.closed  BY DEF IInv, Files, Settled
  <2>2. CASE g_dump_mutex = NoOne
    BY <2>2, ProcessAssumption DEF IInv, Types, Files, Settled, ReportIsWhole
  <2>3. CASE g_dump_mutex # NoOne
    <3>1. PICK t \in Threads : g_dump_mutex = t  BY <2>3 DEF IInv, Types
    <3>2. InDump(t)  BY <3>1 DEF IInv, Locking
    <3>3. Settled \/ report.by = {t}  BY <3>2 DEF IInv, Files, InDump
    <3>4. \E x \in Threads : report.by \subseteq {x}
      BY <3>3, ProcessAssumption DEF IInv, Types, Settled
    <3>5. QED  BY <2>1, <3>4 DEF ReportIsWhole
  <2>4. QED  BY <2>2, <2>3
<1>2. QED  BY <1>1, Invariance, PTL

(* Between dumps the report and the history come from the same dump, if    *)
(* that dump could open both.                                              *)
THEOREM FilesMatch == Spec => []HistoryMatchesReport
<1>1. IInv => HistoryMatchesReport
  BY DEF IInv, Files, Settled, HistoryMatchesReport
<1>2. QED  BY <1>1, Invariance, PTL

(* A thread that is suspended is in the hand of some walk. *)
LEMMA SuspendedBySome == IInv => EveryoneResumed
<1> SUFFICES ASSUME IInv, NEW u \in Threads, suspended[u] > 0
             PROVE \E t \in Threads : walking[t] = u
  BY DEF EveryoneResumed
<1>1. suspended[u] = Cardinality(Walkers(u))  BY DEF IInv, Counts
<1>2. Walkers(u) # {}  BY <1>1, FS_EmptySet
<1>3. QED  BY <1>2 DEF Walkers

(* Nobody stays suspended when no walk has it in hand. *)
THEOREM NobodyLeftSuspended == Spec => []EveryoneResumed
BY SuspendedBySome, Invariance, PTL

(* Only dump_threads can suspend the thread that writes a report. *)
THEOREM OneReportWalks == Spec => []WriterStoppedByServerOnly
<1>1. IInv => WriterStoppedByServerOnly
  <2> SUFFICES ASSUME IInv, g_dump_mutex # NoOne, suspended[g_dump_mutex] > 0
               PROVE walking[Server] = g_dump_mutex /\ reason[Server] = "threads"
    BY DEF WriterStoppedByServerOnly
  <2>1. g_dump_mutex \in Threads  BY DEF IInv, Types
  <2>2. PICK t \in Threads : walking[t] = g_dump_mutex
    BY <2>1, SuspendedBySome DEF EveryoneResumed
  <2>3. t # g_dump_mutex /\ pc[t] = "frames"
    BY <2>2 DEF IInv, Walks
  <2>4. reason[t] = "threads"
    BY <2>3 DEF IInv, Locking, InDump
  <2>5. QED  BY <2>2, <2>4 DEF IInv, Reasons
<1>2. QED  BY <1>1, Invariance, PTL
=============================================================================
