--------------------------- MODULE CoopWaitProofs ---------------------------
(***************************************************************************)
(* The safety of the two waits, for every set of threads and priorities.   *)
(* The inductive invariant adds to the invariants what the game thread     *)
(* remembers at each point of a wait, which priority it will restore, and  *)
(* that it stays awake there.                                              *)
(***************************************************************************)
EXTENDS CoopWait, FiniteSetTheorems, TLAPS

(* Wherever the priority is lowered, saved_pri is the one to go back to.   *)
SavedInv ==
    /\ pc = "work" => pri[Game] = BasePri[Game]
    /\ InWait /\ site = "replaced" =>
          saved_pri = BasePri[Game] /\ pri[Game] = WaitPri /\ pc # "restore"
    /\ InWait /\ site = "hooked" =>
          IF pc = "restore" THEN saved_pri = BasePri[Game] /\ pri[Game] = WaitPri
          ELSE pri[Game] = BasePri[Game]

(* A wait never blocks, and the hooked one has the processor wherever its  *)
(* priority is not lowered.                                                *)
AwakeInv ==
    InWait => Game \in runnable /\ (pri[Game] # WaitPri => current = Game)

(* Every task whose DONE the game still expects is somewhere on its way:   *)
(* with the host, posted, in the audio scheduler's queue, or done.  So     *)
(* taking a DONE never makes outstanding negative.                         *)
Accounted == outstanding = atHost + Posted(AudioScheduler) + mailbox[AudioScheduler] + done

IInv == TypeOK /\ SavedInv /\ AwakeInv /\ Accounted
-----------------------------------------------------------------------------
(* Counting the messages posted for a thread.                              *)

(* The messages posted for a thread are a natural number of messages. *)
LEMMA PostedType ==
    ASSUME NEW t, external_messages \in Seq(Threads)
    PROVE  Posted(t) \in Nat
<1> DEFINE I == {i \in 1 .. Len(external_messages) : external_messages[i] = t}
<1>1. Len(external_messages) \in Nat
    OBVIOUS
<1>2. IsFiniteSet(1 .. Len(external_messages))
    BY <1>1, FS_Interval
<1>3. IsFiniteSet(I)
    BY <1>2, FS_Subset
<1> QED
    BY <1>3, FS_CardinalityType DEF Posted

(* Posting a message for u adds one to u's count and to no other. *)
LEMMA PostedAppend ==
    ASSUME NEW t, NEW u \in Threads, external_messages \in Seq(Threads),
           external_messages' = Append(external_messages, u)
    PROVE  Posted(t)' = IF t = u THEN Posted(t) + 1 ELSE Posted(t)
<1> DEFINE n == Len(external_messages)
           I == {i \in 1 .. n : external_messages[i] = t}
           J == {i \in 1 .. Len(external_messages') : external_messages'[i] = t}
<1>1. n \in Nat /\ Len(external_messages') = n + 1
    OBVIOUS
<1>2. /\ \A i \in 1 .. n : external_messages'[i] = external_messages[i]
      /\ external_messages'[n + 1] = u
    OBVIOUS
<1>3. IsFiniteSet(I)
    <2>1. IsFiniteSet(1 .. n) /\ I \subseteq 1 .. n
        BY <1>1, FS_Interval
    <2> QED
        BY <2>1, FS_Subset
<1>4. n + 1 \notin I
    BY <1>1
<1>5. J = IF t = u THEN I \cup {n + 1} ELSE I
    BY <1>1, <1>2
<1>6. Cardinality(I \cup {n + 1}) = Cardinality(I) + 1
    BY <1>3, <1>4, FS_AddElement
<1>7. Posted(t)' = Cardinality(J) /\ Posted(t) = Cardinality(I)
    BY DEF Posted
<1> QED
    BY <1>5, <1>6, <1>7

(* Nothing is posted for anybody in an empty queue. *)
LEMMA PostedNone ==
    ASSUME NEW t, external_messages = <<>>
    PROVE  Posted(t) = 0
<1>1. {i \in 1 .. Len(external_messages) : external_messages[i] = t} = {}
    OBVIOUS
<1> QED
    BY <1>1, FS_EmptySet DEF Posted

(* The same of the next state. *)
LEMMA PostedNoneNext ==
    ASSUME NEW t, external_messages' = <<>>
    PROVE  Posted(t)' = 0
<1>1. {i \in 1 .. Len(external_messages') : external_messages'[i] = t} = {}
    OBVIOUS
<1> QED
    BY <1>1, FS_EmptySet DEF Posted

(* Posted depends on external_messages alone. *)
LEMMA PostedSame ==
    ASSUME NEW t, external_messages' = external_messages
    PROVE  Posted(t)' = Posted(t)
BY DEF Posted
-----------------------------------------------------------------------------
(* The scheduler.                                                          *)

(* After check_running_queue the current thread is a runnable one of the   *)
(* highest priority.                                                       *)
LEMMA SchedulerPicks ==
    ASSUME CheckRunningQueue
    PROVE  /\ IF runnable' = {} THEN current' = NoOne ELSE current' \in runnable'
           /\ \A t \in runnable' : pri'[t] <= pri'[current']
BY DEF CheckRunningQueue, Highest

(* A drain moves every posted message into its receiver's queue.           *)
LEMMA Drained ==
    ASSUME TypeOK, DrainExternal
    PROVE  /\ mailbox' \in [Threads -> Nat]
           /\ \A t \in Threads : mailbox'[t] = mailbox[t] + Posted(t) /\ Posted(t)' = 0
           /\ runnable \subseteq runnable' /\ runnable' \subseteq Threads
           /\ external_messages' \in Seq(Threads)
<1>1. \A t \in Threads : Posted(t) \in Nat
    BY PostedType DEF TypeOK
<1>2. \A t \in Threads : Posted(t)' = 0
    BY PostedNoneNext DEF DrainExternal
<1>3. \A t \in Threads : mailbox'[t] = mailbox[t] + Posted(t)
    BY DEF DrainExternal
<1>4. mailbox' \in [Threads -> Nat]
    BY <1>1 DEF TypeOK, DrainExternal
<1> QED
    BY <1>2, <1>3, <1>4 DEF TypeOK, DrainExternal
-----------------------------------------------------------------------------
(* The invariant.                                                          *)

(* It holds initially. *)
LEMMA InitIInv == Init => IInv
<1> SUFFICES ASSUME Init PROVE IInv
    OBVIOUS
<1> USE SchedulerAssumption
<1>1. TypeOK
    <2>1. external_messages \in Seq(Threads)
        BY DEF Init
    <2>2. mailbox \in [Threads -> Nat] /\ pri \in [Threads -> Nat] /\ saved_pri \in Nat
        BY DEF Init
    <2>3. current \in runnable /\ runnable # {} /\ runnable \subseteq Threads
        BY DEF Init
    <2>4. r2 \in BOOLEAN
        BY DEF Init
    <2>5. outstanding \in 0 .. MaxTasks
        BY DEF Init
    <2> QED
        BY <2>1, <2>2, <2>3, <2>4, <2>5 DEF Init, TypeOK
<1>2. SavedInv /\ AwakeInv
    BY DEF Init, SavedInv, AwakeInv, InWait
<1>3. Posted(AudioScheduler) = 0
    BY PostedNone DEF Init
<1>4. Accounted
    BY <1>3 DEF Init, Accounted
<1> QED
    BY <1>1, <1>2, <1>4 DEF IInv

(* A step of a thread that only receives: it handles a message or blocks.  *)
LEMMA HandleStep ==
    ASSUME IInv, NEW t \in Threads, Handle(t), t # Game \/ pc = "work"
    PROVE  IInv'
<1> USE SchedulerAssumption
<1>1. mailbox[t] \in Nat \ {0} /\ mailbox' = [mailbox EXCEPT ![t] = @ - 1]
    BY DEF IInv, TypeOK, Handle
<1>2. TypeOK'
    <2>1. mailbox' \in [Threads -> Nat]
        <3>1. mailbox \in [Threads -> Nat]
            BY DEF IInv, TypeOK
        <3>2. mailbox[t] - 1 \in Nat
            BY <1>1
        <3> QED
            BY ONLY <1>1, <3>1, <3>2
    <2>2. done' \in Nat
        BY DEF IInv, TypeOK, Handle
    <2>3. IF runnable' = {} THEN current' = NoOne ELSE current' \in runnable'
        BY SchedulerPicks DEF Handle
    <2>4. unk_AA0' \in BOOLEAN
        BY DEF IInv, TypeOK, Handle, Gate
    <2> QED
        BY <2>1, <2>2, <2>3, <2>4 DEF IInv, TypeOK, Handle, host, wait
<1>3. SavedInv'
    BY DEF IInv, SavedInv, InWait, Handle, wait
<1>4. AwakeInv'
    BY DEF IInv, TypeOK, SavedInv, AwakeInv, InWait, Handle, wait
<1>5. Accounted'
    <2>1. Posted(AudioScheduler)' = Posted(AudioScheduler)
        BY PostedSame DEF Handle, host
    <2>2. Posted(AudioScheduler) \in Nat
        BY PostedType DEF IInv, TypeOK
    <2>3. mailbox'[AudioScheduler] + done' = mailbox[AudioScheduler] + done
        <3>1. CASE t = AudioScheduler
            BY <1>1, <3>1 DEF IInv, TypeOK, Handle
        <3>2. CASE t # AudioScheduler
            BY <1>1, <3>2 DEF IInv, TypeOK, Handle
        <3> QED
            BY <3>1, <3>2
    <2>4. /\ mailbox[AudioScheduler] \in Nat /\ mailbox'[AudioScheduler] \in Nat
          /\ done \in Nat /\ done' \in Nat /\ atHost \in Nat
        BY <1>2 DEF IInv, TypeOK
    <2> QED
        BY <2>1, <2>2, <2>3, <2>4 DEF IInv, Accounted, Handle, host
<1> QED
    BY <1>2, <1>3, <1>4, <1>5 DEF IInv

(* The same for a thread that blocks: it has no message.                   *)
LEMMA BlockStep ==
    ASSUME IInv, NEW t \in Threads, Block(t), t # Game \/ pc = "work"
    PROVE  IInv'
<1>1. TypeOK'
    <2>1. IF runnable' = {} THEN current' = NoOne ELSE current' \in runnable'
        BY SchedulerPicks DEF Block
    <2> QED
        BY <2>1 DEF IInv, TypeOK, Block, host, wait, tasks
<1>2. SavedInv' /\ AwakeInv'
    BY DEF IInv, SavedInv, AwakeInv, InWait, Block, wait
<1>3. Accounted'
    BY PostedSame DEF IInv, Accounted, Block, host, tasks
<1> QED
    BY <1>1, <1>2, <1>3 DEF IInv

(* A drain followed by check_running_queue keeps what does not concern the *)
(* wait's own variables.                                                   *)
LEMMA DrainStep ==
    ASSUME IInv, DrainExternal, CheckRunningQueue,
           UNCHANGED <<atHost, done, outstanding>>
    PROVE  /\ mailbox' \in [Threads -> Nat] /\ external_messages' \in Seq(Threads)
           /\ runnable \subseteq runnable' /\ runnable' \subseteq Threads
           /\ IF runnable' = {} THEN current' = NoOne ELSE current' \in runnable'
           /\ Accounted'
<1>1. /\ mailbox' \in [Threads -> Nat] /\ external_messages' \in Seq(Threads)
      /\ runnable \subseteq runnable' /\ runnable' \subseteq Threads
    BY Drained DEF IInv
<1>2. IF runnable' = {} THEN current' = NoOne ELSE current' \in runnable'
    BY SchedulerPicks
<1>3. Accounted'
    <2>1. /\ mailbox'[AudioScheduler] = mailbox[AudioScheduler] + Posted(AudioScheduler)
          /\ Posted(AudioScheduler)' = 0
        BY Drained, SchedulerAssumption DEF IInv
    <2>2. Posted(AudioScheduler) \in Nat /\ mailbox[AudioScheduler] \in Nat
        BY PostedType, SchedulerAssumption DEF IInv, TypeOK
    <2> QED
        BY <2>1, <2>2 DEF IInv, TypeOK, Accounted
<1> QED
    BY <1>1, <1>2, <1>3

(* What the waits do to the priority and to saved_pri leaves SavedInv.     *)
LEMMA WaitingStep ==
    ASSUME IInv, Waiting
    PROVE  IInv'
<1> USE SchedulerAssumption
<1>1. CASE EnterReplaced \/ EnterHooked
    <2>1. TypeOK'
        <3>1. CASE EnterReplaced
            <4>1. pri' \in [Threads -> Nat] /\ \A t \in Threads \ {Game} : pri'[t] = BasePri[t]
                BY <3>1 DEF IInv, TypeOK, EnterReplaced, WaitPri
            <4>2. saved_pri' \in Nat
                BY <3>1 DEF IInv, TypeOK, EnterReplaced
            <4> QED
                BY <3>1, <4>1, <4>2 DEF IInv, TypeOK, EnterReplaced, sched, host, tasks
        <3>2. CASE EnterHooked
            BY <3>2 DEF IInv, TypeOK, EnterHooked, sched, host, tasks
        <3> QED
            BY <1>1, <3>1, <3>2
    <2>2. SavedInv' /\ AwakeInv'
        BY <1>1 DEF IInv, TypeOK, SavedInv, AwakeInv, InWait, WaitPri, EnterReplaced,
                    EnterHooked, sched
    <2>3. Accounted'
        BY <1>1, PostedSame
        DEF IInv, Accounted, EnterReplaced, EnterHooked, sched, host, tasks
    <2> QED
        BY <2>1, <2>2, <2>3 DEF IInv
<1>2. CASE Predicate
    <2>1. TypeOK'
        BY <1>2 DEF IInv, TypeOK, Predicate, sched, host, tasks
    <2>2. SavedInv' /\ AwakeInv'
        BY <1>2 DEF IInv, SavedInv, AwakeInv, InWait, Predicate, sched
    <2>3. Accounted'
        BY <1>2, PostedSame DEF IInv, Accounted, Predicate, sched, host, tasks
    <2> QED
        BY <2>1, <2>2, <2>3 DEF IInv
<1>3. CASE LeaveReplaced \/ LeaveHooked \/ RestoreHooked
    <2>1. TypeOK'
        <3>1. pri' \in [Threads -> Nat] /\ \A t \in Threads \ {Game} : pri'[t] = BasePri[t]
            BY <1>3 DEF IInv, TypeOK, LeaveReplaced, LeaveHooked, RestoreHooked
        <3> QED
            BY <1>3, <3>1 DEF IInv, TypeOK, LeaveReplaced, LeaveHooked, RestoreHooked,
                              sched, host, tasks
    <2>2. SavedInv' /\ AwakeInv'
        BY <1>3 DEF IInv, TypeOK, SavedInv, AwakeInv, InWait, LeaveReplaced, LeaveHooked,
                    RestoreHooked, sched
    <2>3. Accounted'
        BY <1>3, PostedSame DEF IInv, Accounted, LeaveReplaced,
                                LeaveHooked, RestoreHooked, sched, host, tasks
    <2> QED
        BY <2>1, <2>2, <2>3 DEF IInv
<1>4. CASE YieldReplaced \/ YieldHooked
    <2>1. /\ mailbox' \in [Threads -> Nat] /\ external_messages' \in Seq(Threads)
          /\ runnable \subseteq runnable' /\ runnable' \subseteq Threads
          /\ IF runnable' = {} THEN current' = NoOne ELSE current' \in runnable'
          /\ Accounted'
        BY <1>4, DrainStep DEF YieldReplaced, YieldHooked, YieldSelf, tasks
    <2>2. TypeOK'
        <3>1. pri' \in [Threads -> Nat] /\ \A t \in Threads \ {Game} : pri'[t] = BasePri[t]
            <4>1. pri' = pri \/ pri' = [pri EXCEPT ![Game] = 1]
                BY <1>4 DEF YieldReplaced, YieldHooked, WaitPri
            <4>2. pri \in [Threads -> Nat] /\ \A t \in Threads \ {Game} : pri[t] = BasePri[t]
                BY DEF IInv, TypeOK
            <4>3. CASE pri' = pri
                BY <4>2, <4>3
            <4>4. CASE pri' = [pri EXCEPT ![Game] = 1]
                BY <4>2, <4>4
            <4> QED
                BY <4>1, <4>3, <4>4
        <3>2. saved_pri' \in Nat
            BY <1>4 DEF IInv, TypeOK, YieldReplaced, YieldHooked, tasks
        <3> QED
            BY <1>4, <2>1, <3>1, <3>2 DEF IInv, TypeOK, YieldReplaced, YieldHooked, tasks
    <2>3. pri'[Game] = WaitPri
        BY <1>4 DEF IInv, TypeOK, SavedInv, InWait, YieldReplaced, YieldHooked
    <2>4. SavedInv'
        BY <1>4, <2>3 DEF IInv, TypeOK, SavedInv, InWait, YieldReplaced, YieldHooked
    <2>5. AwakeInv'
        BY <1>4, <2>1, <2>3 DEF IInv, AwakeInv, InWait, YieldReplaced, YieldHooked
    <2> QED
        BY <2>1, <2>2, <2>4, <2>5 DEF IInv
<1> QED
    BY <1>1, <1>2, <1>3, <1>4 DEF Waiting

(* Submitting a task and taking a DONE keep the tasks accounted for.       *)
LEMMA WorkingStep ==
    ASSUME IInv, Working
    PROVE  IInv'
<1> USE SchedulerAssumption
<1>1. CASE Submit
    <2>1. TypeOK'
        <3>1. IF runnable' = {} THEN current' = NoOne ELSE current' \in runnable'
            BY <1>1, SchedulerPicks DEF Submit
        <3> QED
            BY <1>1, <3>1 DEF IInv, TypeOK, Submit, Gate, wait
    <2>2. SavedInv' /\ AwakeInv'
        BY <1>1 DEF IInv, SavedInv, AwakeInv, InWait, Submit, Gate, wait
    <2>3. Accounted'
        <3>1. Posted(AudioScheduler)' = Posted(AudioScheduler)
            BY <1>1, PostedSame DEF Submit
        <3>2. Posted(AudioScheduler) \in Nat /\ mailbox[AudioScheduler] \in Nat
            BY PostedType DEF IInv, TypeOK
        <3>3. /\ outstanding' = outstanding + 1 /\ atHost' = atHost + 1
              /\ mailbox' = mailbox /\ done' = done
              /\ outstanding \in Nat /\ atHost \in Nat /\ done \in Nat
            BY <1>1 DEF IInv, TypeOK, Submit
        <3> QED
            BY <3>1, <3>2, <3>3 DEF IInv, Accounted
    <2> QED
        BY <2>1, <2>2, <2>3 DEF IInv
<1>2. CASE TakeDone
    <2>1. /\ Posted(AudioScheduler)' = Posted(AudioScheduler)
          /\ Posted(AudioScheduler) \in Nat /\ mailbox[AudioScheduler] \in Nat
        BY <1>2, PostedSame, PostedType DEF IInv, TypeOK, TakeDone, host, Gate
    <2>2. outstanding' \in 0 .. MaxTasks /\ done' \in Nat /\ Accounted'
        <3>1. /\ done \in Nat /\ done > 0 /\ done' = done - 1
              /\ atHost \in Nat /\ atHost' = atHost
              /\ mailbox'[AudioScheduler] = mailbox[AudioScheduler]
              /\ MaxTasks \in Nat
              /\ outstanding \in Nat /\ outstanding <= MaxTasks
              /\ outstanding' = outstanding - 1
            BY <1>2 DEF IInv, TypeOK, TakeDone, host, Gate
        <3>2. outstanding = atHost + Posted(AudioScheduler) + mailbox[AudioScheduler] + done
            BY DEF IInv, Accounted
        <3>3. outstanding' \in 0 .. MaxTasks /\ done' \in Nat
            BY <2>1, <3>1, <3>2
        <3>4. outstanding' = atHost' + Posted(AudioScheduler)' + mailbox'[AudioScheduler] + done'
            BY <2>1, <3>1, <3>2
        <3> QED
            BY <3>3, <3>4 DEF Accounted
    <2>3. TypeOK'
        BY <1>2, <2>2 DEF IInv, TypeOK, TakeDone, sched, host, wait, Gate
    <2>4. SavedInv' /\ AwakeInv'
        BY <1>2 DEF IInv, SavedInv, AwakeInv, InWait, TakeDone,
                    sched, wait, tasks
    <2> QED
        BY <2>2, <2>3, <2>4 DEF IInv
<1>3. CASE Sleep
    BY <1>3, BlockStep, HandleStep DEF Sleep
<1> QED
    BY <1>1, <1>2, <1>3 DEF Working

(* The host only appends to external_messages. *)
LEMMA HostStep ==
    ASSUME IInv, Host
    PROVE  IInv'
<1> USE SchedulerAssumption
<1>1. \A u \in Threads : Posted(u) \in Nat
    BY PostedType DEF IInv, TypeOK
<1>2. CASE Complete
    <2>1. Posted(AudioScheduler)' = Posted(AudioScheduler) + 1
        BY <1>2, PostedAppend DEF IInv, TypeOK, Complete
    <2>2. TypeOK'
        BY <1>2 DEF IInv, TypeOK, Complete, sched, wait, tasks
    <2>3. Accounted'
        BY <1>1, <1>2, <2>1 DEF IInv, TypeOK, Accounted, Complete, tasks
    <2>4. SavedInv' /\ AwakeInv'
        BY <1>2 DEF IInv, SavedInv, AwakeInv, InWait, Complete,
                    sched, wait, tasks
    <2> QED
        BY <2>2, <2>3, <2>4 DEF IInv
<1>3. ASSUME NEW t \in Threads, Interrupt(t) PROVE IInv'
    <2>1. Posted(AudioScheduler)' = Posted(AudioScheduler)
        BY <1>3, PostedAppend DEF IInv, TypeOK, Interrupt
    <2>2. TypeOK'
        BY <1>3 DEF IInv, TypeOK, Interrupt, sched, wait, tasks
    <2>3. Accounted'
        BY <1>3, <2>1 DEF IInv, Accounted, Interrupt, tasks
    <2>4. SavedInv' /\ AwakeInv'
        BY <1>3 DEF IInv, SavedInv, AwakeInv, InWait, Interrupt,
                    sched, wait, tasks
    <2> QED
        BY <2>2, <2>3, <2>4 DEF IInv
<1> QED
    BY <1>2, <1>3 DEF Host

(* Every thread is blocked and the scheduler delivers what was posted.     *)
LEMMA IdleStep ==
    ASSUME IInv, Idle
    PROVE  IInv'
<1>1. /\ mailbox' \in [Threads -> Nat] /\ external_messages' \in Seq(Threads)
      /\ runnable' \subseteq Threads
      /\ IF runnable' = {} THEN current' = NoOne ELSE current' \in runnable'
      /\ Accounted'
    BY DrainStep DEF Idle, tasks
<1>2. TypeOK'
    BY <1>1 DEF IInv, TypeOK, Idle, wait, tasks
<1>3. ~InWait
    BY SchedulerAssumption DEF IInv, TypeOK, AwakeInv, Idle
<1>4. SavedInv' /\ AwakeInv'
    BY <1>3 DEF IInv, SavedInv, AwakeInv, InWait, Idle, wait
<1> QED
    BY <1>1, <1>2, <1>4 DEF IInv

(* Every step keeps the invariant. *)
LEMMA StepIInv == IInv /\ [Next]_vars => IInv'
<1> SUFFICES ASSUME IInv, [Next]_vars PROVE IInv'
    OBVIOUS
<1>1. CASE Working
    BY <1>1, WorkingStep
<1>2. CASE Waiting
    BY <1>2, WaitingStep
<1>3. CASE Others
    BY <1>3, IdleStep, HandleStep, BlockStep DEF Others
<1>4. CASE Host
    BY <1>4, HostStep
<1>5. CASE UNCHANGED vars
    <2>1. TypeOK' /\ SavedInv' /\ AwakeInv'
        BY <1>5 DEF IInv, TypeOK, SavedInv, AwakeInv, InWait, vars,
                    sched, host, wait, tasks
    <2>2. Accounted'
        BY <1>5, PostedSame DEF IInv, Accounted, vars, host, tasks
    <2> QED
        BY <2>1, <2>2 DEF IInv
<1> QED
    BY <1>1, <1>2, <1>3, <1>4, <1>5 DEF Next
-----------------------------------------------------------------------------
(* The theorems.                                                           *)

(* The inductive invariant. *)
THEOREM Invariance == Spec => []IInv
BY InitIInv, StepIInv, PTL DEF Spec

(* Type correctness of both waits and of the scheduler they run on.        *)
THEOREM TypeCorrect == Spec => []TypeOK
BY Invariance, PTL DEF IInv

(* No path through func_8000771C's replacement or through the hook leaves  *)
(* the game thread's priority lowered.                                     *)
THEOREM PriorityComesBack == Spec => []PriorityIsBack
<1>1. IInv => PriorityIsBack
    BY DEF IInv, TypeOK, SavedInv, PriorityIsBack, InWait
<1> QED
    BY <1>1, Invariance, PTL

(* The game thread, outside its waits, gives way to higher priorities only. *)
THEOREM GivesWay == Spec => GivesWayOnlyInWaits
<1>1. IInv /\ IInv' /\ [Next]_vars =>
        [current = Game /\ pc = "work" /\ Game \in runnable' /\ current' # Game =>
            BasePri[current'] > BasePri[Game]]_vars
    <2> SUFFICES ASSUME IInv, IInv', Next, current = Game, pc = "work",
                        Game \in runnable', current' # Game
                 PROVE  BasePri[current'] > BasePri[Game]
        BY DEF vars
    <2> USE SchedulerAssumption
    <2>1. CheckRunningQueue /\ pri' = pri
        BY DEF Next, Working, Waiting, Others, Host, Submit, TakeDone, Sleep, Handle, Block,
               EnterReplaced, EnterHooked, Predicate, LeaveReplaced, LeaveHooked,
               YieldReplaced, YieldHooked, RestoreHooked, Idle, Complete, Interrupt, sched
    <2>2. current' \in runnable' /\ pri'[Game] <= pri'[current']
        BY <2>1, SchedulerPicks
    <2>3. /\ current' \in Threads /\ pri[current'] = BasePri[current']
          /\ pri[Game] = BasePri[Game]
        BY <2>2 DEF IInv, TypeOK, SavedInv
    <2>4. BasePri[current'] # BasePri[Game]
        BY <2>3
    <2>5. BasePri[current'] \in Nat /\ BasePri[Game] \in Nat
        BY <2>3
    <2> QED
        BY <2>1, <2>2, <2>3, <2>4, <2>5
<1> QED
    BY <1>1, Invariance, PTL DEF Spec, GivesWayOnlyInWaits

(* In a wait the game thread gets the processor only when nobody else can run. *)
THEOREM ComesLast == Spec => ComesLastInWaits
<1>1. IInv /\ IInv' /\ [Next]_vars => [Resumed => runnable' = {Game}]_vars
    <2> SUFFICES ASSUME IInv, IInv', Next, Resumed PROVE runnable' = {Game}
        BY DEF vars
    <2> USE SchedulerAssumption
    <2>1. pri'[Game] = WaitPri /\ CheckRunningQueue /\ runnable' # {}
        <3>1. CASE current # Game
            <4>1. pri[Game] = WaitPri /\ Game \in runnable
                BY <3>1 DEF IInv, AwakeInv, Resumed
            <4>2. pri' = pri /\ CheckRunningQueue
                BY <3>1 DEF Resumed, Next, Working, Waiting, Others, Host, Submit, TakeDone,
                   Sleep, Handle, Block, EnterReplaced, EnterHooked, Predicate, LeaveReplaced,
                   LeaveHooked, YieldReplaced, YieldHooked, RestoreHooked, Idle, Complete,
                   Interrupt, sched
            <4> QED
                BY <4>1, <4>2 DEF IInv, TypeOK, Resumed
        <3>2. CASE current = Game
            <4>1. YieldReplaced \/ YieldHooked
                BY <3>2 DEF Resumed, InWait, Next, Working, Waiting, Others, Host, Submit,
                   TakeDone, Sleep, Handle, Block, EnterReplaced, EnterHooked, Predicate,
                   LeaveReplaced, LeaveHooked, RestoreHooked, Idle, Complete, Interrupt, wait
            <4>2. pri'[Game] = WaitPri
                BY <4>1 DEF IInv, TypeOK, SavedInv, InWait, YieldReplaced, YieldHooked
            <4>3. CheckRunningQueue
                BY <4>1 DEF YieldReplaced, YieldHooked, YieldSelf
            <4> QED
                BY <4>2, <4>3 DEF IInv, TypeOK, Resumed
        <3> QED
            BY <3>1, <3>2
    <2>2. current' = Game /\ Game \in runnable' /\ \A t \in runnable' : pri'[t] <= WaitPri
        BY <2>1, SchedulerPicks DEF Resumed
    <2>3. \A t \in Threads \ {Game} : pri'[t] > WaitPri /\ pri'[t] \in Nat
        BY DEF IInv, TypeOK
    <2>4. runnable' \subseteq Threads
        BY DEF IInv, TypeOK
    <2> QED
        BY <2>2, <2>3, <2>4 DEF WaitPri
<1> QED
    BY <1>1, Invariance, PTL DEF Spec, ComesLastInWaits
=============================================================================
