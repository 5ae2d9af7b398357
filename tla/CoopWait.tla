------------------------------ MODULE CoopWait ------------------------------
(***************************************************************************)
(* The two busy-waits of the game thread that extras.c replaces: the whole *)
(* function func_8000771C, and the loop inside func_80003680 that game.toml *)
(* hooks with pkmnstadium_petit_cup_yield.  Both wait until func_80001C90  *)
(* holds: that D_80083CA0.unk_AA0 is zero, so that no DONE is waited for,  *)
(* or that the audio scheduler has posted one to D_800846C0.queue.         *)
(*                                                                         *)
(* Game threads are scheduled cooperatively: one is current, it keeps the  *)
(* processor until it calls the scheduler, and the runnable thread of the  *)
(* highest priority is current after such a call.  That scheduler, the     *)
(* host's task completions and the audio scheduler are not in this         *)
(* repository; they are modelled as the comments and the code in extras.c  *)
(* use them.  Only the host's threads run concurrently with the current    *)
(* game thread, and all they do is append to external_messages.            *)
(***************************************************************************)
EXTENDS Integers, Sequences, FiniteSets

CONSTANTS Threads, Game, AudioScheduler,
          BasePri,      \* the priority each thread was created with
          NoOne,        \* nobody is current: every thread is blocked
          MaxTasks      \* bound: tasks the game has outstanding

WaitPri == 1

ASSUME SchedulerAssumption ==
    /\ {Game, AudioScheduler} \subseteq Threads /\ Game # AudioScheduler
    /\ NoOne \notin Threads
    /\ BasePri \in [Threads -> Nat]
    /\ \A t, u \in Threads : BasePri[t] = BasePri[u] => t = u
    /\ \A t \in Threads \ {Game} : BasePri[t] > WaitPri
    /\ BasePri[Game] > BasePri[AudioScheduler]
    /\ MaxTasks \in Nat \ {0}

VARIABLES
    pri,            \* priorities
    runnable,       \* the current thread and those in running_queue
    current,        \* the thread that runs, or NoOne
    mailbox,        \* messages in the queue each thread receives from
    external_messages,      \* posted by the host, not delivered yet: their receivers
    atHost,         \* tasks the host is still working on
    done,           \* D_800846C0.queue.validCount
    outstanding,    \* tasks submitted whose DONE the game has not taken
    unk_AA0,        \* D_80083CA0.unk_AA0: not zero
    pc, site,       \* where the game thread is, and in which of the two waits
    saved_pri, r2   \* its locals

sched == <<runnable, current>>
host == <<external_messages, atHost>>
wait == <<pc, site, saved_pri, r2>>
tasks == <<done, outstanding, unk_AA0>>
vars == <<pri, sched, mailbox, host, tasks, wait>>

Init ==
    /\ pri = BasePri
    /\ runnable = {Game}
    /\ current = Game
    /\ mailbox = [t \in Threads |-> 0]
    /\ external_messages = <<>>
    /\ atHost = 0
    /\ done = 0
    /\ outstanding = 0
    /\ unk_AA0 = FALSE
    /\ pc = "work"
    /\ site \in {"replaced", "hooked"}
    /\ saved_pri = BasePri[Game]
    /\ r2 = FALSE
-----------------------------------------------------------------------------
(* The scheduler.  Here and below a definition that stands right before    *)
(* the one it resembles is that one with a bug, which the runs must notice. *)

(* check_running_queue: a runnable thread of the highest priority.         *)
Highest(S, p) == {t \in S : \A u \in S : p[u] <= p[t]}

CheckRunningQueue ==
    IF runnable' = {} THEN current' = NoOne ELSE current' \in Highest(runnable', pri')

(* How many messages for t the host has posted that were not delivered.    *)
Posted(t) == Cardinality({i \in 1 .. Len(external_messages) : external_messages[i] = t})

(* do_send of every pending external message, which wakes its receiver.    *)
DrainExternal ==
    /\ mailbox' = [t \in Threads |-> mailbox[t] + Posted(t)]
    /\ runnable' = runnable \cup {t \in Threads : Posted(t) > 0}
    /\ external_messages' = <<>>

(* Every thread is blocked: the scheduler waits for an external message.   *)
Idle ==
    /\ current = NoOne
    /\ external_messages # <<>>
    /\ DrainExternal
    /\ UNCHANGED <<pri, atHost, tasks, wait>>
    /\ CheckRunningQueue

(* unk_AA0 is written by the game's own code.  It says whether there is a  *)
(* DONE to wait for, and the game only waits for one that will come.       *)
Gate == unk_AA0' \in {b \in BOOLEAN : b => outstanding' > 0}

(* A game thread receives its next message and deals with it; the audio    *)
(* scheduler's dispatch of a DP-complete posts the DONE.                   *)
Handle(t) ==
    /\ current = t
    /\ mailbox[t] > 0
    /\ mailbox' = [mailbox EXCEPT ![t] = @ - 1]
    /\ done' = IF t = AudioScheduler THEN done + 1 ELSE done
    /\ UNCHANGED <<pri, runnable, host, outstanding, wait>>
    /\ IF t = AudioScheduler THEN unk_AA0' = unk_AA0 ELSE Gate
    /\ CheckRunningQueue

BlockAndGoIdle(t) ==
    /\ current = t
    /\ mailbox[t] = 0
    /\ runnable' = runnable \ {t}
    /\ current' = NoOne
    /\ UNCHANGED <<pri, mailbox, host, tasks, wait>>

(* It has no message left and blocks. *)
Block(t) ==
    /\ current = t
    /\ mailbox[t] = 0
    /\ runnable' = runnable \ {t}
    /\ UNCHANGED <<pri, mailbox, host, tasks, wait>>
    /\ CheckRunningQueue

(* The host finishes a task, or a VI interrupt is posted to a thread whose *)
(* queue still has room for it.                                            *)
Complete ==
    /\ atHost > 0
    /\ atHost' = atHost - 1
    /\ external_messages' = Append(external_messages, AudioScheduler)
    /\ UNCHANGED <<pri, sched, mailbox, tasks, wait>>

Interrupt(t) ==
    /\ t # AudioScheduler
    /\ mailbox[t] = 0
    /\ Posted(t) = 0
    /\ external_messages' = Append(external_messages, t)
    /\ UNCHANGED <<pri, sched, mailbox, atHost, tasks, wait>>
-----------------------------------------------------------------------------
(* The game thread between its waits.                                      *)

Submit ==
    /\ current = Game /\ pc = "work"
    /\ outstanding < MaxTasks
    /\ outstanding' = outstanding + 1
    /\ Gate
    /\ atHost' = atHost + 1
    /\ UNCHANGED <<pri, runnable, mailbox, external_messages, done, wait>>
    /\ CheckRunningQueue

TakeDone ==
    /\ current = Game /\ pc = "work"
    /\ done > 0
    /\ done' = done - 1
    /\ outstanding' = outstanding - 1
    /\ Gate
    /\ UNCHANGED <<pri, sched, mailbox, host, wait>>

(* It waits for a VI message. *)
Sleep ==
    /\ pc = "work"
    /\ \/ Block(Game)
       \/ Handle(Game)
-----------------------------------------------------------------------------
(* The waits.  Every step is one the current thread takes on its own, and  *)
(* the host's threads touch nothing it reads, so the calls between two     *)
(* calls of the scheduler are one step.                                    *)

EnterAtFullPriority ==
    /\ current = Game /\ pc = "work"
    /\ site' = "replaced"
    /\ saved_pri' = pri[Game]
    /\ pc' = "predicate"
    /\ UNCHANGED <<pri, sched, mailbox, host, tasks, r2>>

(* The game calls func_8000771C: the priority is lowered once, around the  *)
(* loop.                                                                   *)
EnterReplaced ==
    /\ current = Game /\ pc = "work"
    /\ site' = "replaced"
    /\ saved_pri' = pri[Game]
    /\ pri' = [pri EXCEPT ![Game] = WaitPri]
    /\ pc' = "predicate"
    /\ UNCHANGED <<sched, mailbox, host, tasks, r2>>

(* The game reaches the loop L_80003770 of func_80003680.                  *)
EnterHooked ==
    /\ current = Game /\ pc = "work"
    /\ site' = "hooked"
    /\ pc' = "predicate"
    /\ UNCHANGED <<pri, sched, mailbox, host, tasks, saved_pri, r2>>

(* func_80001C90 reads unk_AA0 and the queue and leaves its answer in r2.  *)
Predicate ==
    /\ current = Game /\ pc = "predicate"
    /\ r2' = (done > 0 \/ ~unk_AA0)
    /\ pc' = "decide"
    /\ UNCHANGED <<pri, sched, mailbox, host, tasks, site, saved_pri>>

LeaveAtWaitPriority ==
    /\ current = Game /\ pc = "decide"
    /\ site = "replaced" /\ r2
    /\ pc' = "work"
    /\ UNCHANGED <<pri, sched, mailbox, host, tasks, site, saved_pri, r2>>

(* The replaced loop breaks and restores the priority. *)
LeaveReplaced ==
    /\ current = Game /\ pc = "decide"
    /\ site = "replaced" /\ r2
    /\ pri' = [pri EXCEPT ![Game] = saved_pri]
    /\ pc' = "work"
    /\ UNCHANGED <<sched, mailbox, host, tasks, site, saved_pri, r2>>

(* The hook returns at once and the BEQ falls through. *)
LeaveHooked ==
    /\ current = Game /\ pc = "decide"
    /\ site = "hooked" /\ r2
    /\ pc' = "work"
    /\ UNCHANGED <<pri, sched, mailbox, host, tasks, site, saved_pri, r2>>

(* yield_self_1ms: deliver what the host has posted, then check_running_queue. *)
YieldSelf ==
    /\ DrainExternal
    /\ CheckRunningQueue

YieldReplaced ==
    /\ current = Game /\ pc = "decide"
    /\ site = "replaced" /\ ~r2
    /\ pri' = pri
    /\ YieldSelf
    /\ pc' = "predicate"
    /\ UNCHANGED <<atHost, tasks, site, saved_pri, r2>>

YieldAtFullPriority ==
    /\ current = Game /\ pc = "decide"
    /\ site = "hooked" /\ ~r2
    /\ saved_pri' = pri[Game]
    /\ pri' = pri
    /\ YieldSelf
    /\ pc' = "restore"
    /\ UNCHANGED <<atHost, tasks, site, r2>>

(* The hook lowers the priority for this one yield. *)
YieldHooked ==
    /\ current = Game /\ pc = "decide"
    /\ site = "hooked" /\ ~r2
    /\ saved_pri' = pri[Game]
    /\ pri' = [pri EXCEPT ![Game] = WaitPri]
    /\ YieldSelf
    /\ pc' = "restore"
    /\ UNCHANGED <<atHost, tasks, site, r2>>

(* Current again: the hook restores the priority and the BEQ jumps back.   *)
RestoreHooked ==
    /\ current = Game /\ pc = "restore"
    /\ pri' = [pri EXCEPT ![Game] = saved_pri]
    /\ pc' = "predicate"
    /\ UNCHANGED <<sched, mailbox, host, tasks, site, saved_pri, r2>>
-----------------------------------------------------------------------------
Working == Submit \/ TakeDone \/ Sleep
Waiting == \/ EnterReplaced \/ EnterHooked
           \/ Predicate
           \/ LeaveReplaced \/ LeaveHooked
           \/ YieldReplaced \/ YieldHooked \/ RestoreHooked
Others == \/ Idle
          \/ \E t \in Threads \ {Game} : Handle(t) \/ Block(t)
Host == Complete \/ \E t \in Threads : Interrupt(t)

Next == Working \/ Waiting \/ Others \/ Host

Spec == Init /\ [][Next]_vars

(* The host finishes what it was given, the current thread runs on, and a  *)
(* thread that handles its messages blocks in the end.  Nothing makes the  *)
(* game submit or wait, and no interrupt has to come.                      *)
Fairness ==
    /\ WF_vars(Complete)
    /\ WF_vars(Others)
    /\ WF_vars(pc # "work" /\ Waiting)

FairSpec == Spec /\ Fairness
-----------------------------------------------------------------------------
InWait == pc # "work"

TypeOK ==
    /\ pri \in [Threads -> Nat]
    /\ \A t \in Threads \ {Game} : pri[t] = BasePri[t]
    /\ runnable \subseteq Threads
    /\ IF runnable = {} THEN current = NoOne ELSE current \in runnable
    /\ mailbox \in [Threads -> Nat]
    /\ external_messages \in Seq(Threads)
    /\ atHost \in Nat /\ done \in Nat
    /\ outstanding \in 0 .. MaxTasks
    /\ unk_AA0 \in BOOLEAN
    /\ pc \in {"work", "predicate", "decide", "restore"}
    /\ site \in {"replaced", "hooked"}
    /\ saved_pri \in Nat /\ r2 \in BOOLEAN

(* Outside its waits, and wherever the hooked loop runs its own code, the  *)
(* game thread has the priority it was created with: no path through       *)
(* either wait leaves it lowered.                                          *)
PriorityIsBack ==
    \/ InWait /\ site = "replaced"
    \/ pc = "restore"
    \/ pri[Game] = BasePri[Game]

(* Outside its waits the game thread, still runnable, gives way only to a  *)
(* thread created with a higher priority: the waits let the audio          *)
(* scheduler in, and nothing else does.                                    *)
GivesWayOnlyInWaits ==
    [][current = Game /\ pc = "work" /\ Game \in runnable' /\ current' # Game =>
        BasePri[current'] > BasePri[Game]]_vars

(* In a wait the game thread comes last: it gets the processor, back from  *)
(* another thread or from its own yield, only when nobody else can run, so *)
(* whoever could bring the DONE has done all it can by the next check.     *)
Resumed ==
    /\ InWait /\ current' = Game
    /\ \/ current # Game
       \/ pc = "decide" /\ pc' \in {"predicate", "restore"}

ComesLastInWaits == [][Resumed => runnable' = {Game}]_vars

(* Every wait ends: the softlock both patches are there for.               *)
WaitEnds == InWait ~> ~InWait

=============================================================================
