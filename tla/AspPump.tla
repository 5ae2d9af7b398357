------------------------------ MODULE AspPump ------------------------------
(***************************************************************************)
(* How the audio microcode consumes a command list: the pre-task hook      *)
(* (src/main/rsp_aspmain_hook.cpp), and the pump and dispatch loop of the  *)
(* recompiled rsp/aspMain.cpp.                                             *)
(*                                                                         *)
(* A list is copied into DMEM chunk by chunk and walked with four          *)
(* registers: r28 and r27, the address and the length of what is left of   *)
(* it; r29 and r30, the slot and the length of what is left of the chunk.  *)
(* A list is a whole number of 8-byte commands, and everything here is     *)
(* counted in commands: a chunk of 0x140 bytes holds 40.  Slot 0 is        *)
(* DMEM[0x2B0].  The registers live in a thread_local context that the     *)
(* next task inherits, and so does DMEM.  What a command computes is left  *)
(* out; of its handler only the step of r30 is kept.                       *)
(***************************************************************************)
EXTENDS Integers, Sequences

CONSTANTS Chunk,        \* commands in a chunk
          MaxSize,      \* bound: commands in a list
          MaxTasks,     \* bound: tasks run
          MaxOffset     \* bound: slots walked past, by lists with a SPNOOP only

ASSUME PumpAssumption ==
    /\ Chunk \in Nat \ {0}
    /\ MaxSize \in Nat /\ MaxTasks \in Nat
    /\ MaxOffset \in Nat /\ MaxOffset > Chunk

VARIABLES
    n,          \* tasks begun: the list of task i is list i
    task,       \* the OSTask in DMEM: its list's size, no address, and a flag
    dmem,       \* what each slot of the chunk buffer holds
    r27, r28, r29, r30,
    pc,         \* where aspMain_impl is, or "idle" between tasks
    executed,   \* history: the commands dispatched for this task
    noops       \* history: how many of them were a SPNOOP

vars == <<n, task, dmem, r27, r28, r29, r30, pc, executed, noops>>

Slots == 0 .. Chunk - 1

(* Command i of list k; list 0 is memory no list of ours is in. *)
Cmd(k, i) == [list |-> k, at |-> i]

Unknown == Cmd(0, 0)

Init ==
    /\ n = 0
    /\ task = [size |-> 0, null |-> TRUE, flag |-> FALSE]
    /\ dmem = [s \in Slots |-> Unknown]
    /\ r27 = 0 /\ r28 = Unknown /\ r29 = 0 /\ r30 = 0
    /\ pc = "idle"
    /\ executed = <<>>
    /\ noops = 0
-----------------------------------------------------------------------------
HasList == task.size > 0 /\ ~task.null

(* DMEM after a DMA of len commands from the address at.  A length that is *)
(* not positive wraps and overwrites all of DMEM.                          *)
Copied(at, len) ==
    IF len > 0 THEN [s \in Slots |-> IF s < len THEN Cmd(at.list, at.at + s) ELSE dmem[s]]
    ELSE [s \in Slots |-> Unknown]

ChunkOf(len) == IF len > Chunk THEN Chunk ELSE len

(* Here and below a definition right before the one it resembles is that   *)
(* one with a bug, which the runs must notice.                             *)
SeedPastChunk ==
    /\ pc = "idle" /\ n < MaxTasks
    /\ n' = n + 1
    /\ task' \in [size : 0 .. MaxSize, null : BOOLEAN, flag : BOOLEAN]
    /\ executed' = <<>> /\ noops' = 0
    /\ pc' = "start"
    /\ IF HasList'
       THEN /\ dmem' = Copied(Cmd(n', 1), ChunkOf(task'.size))
            /\ r29' = 0
            /\ r30' = ChunkOf(task'.size)
            /\ r27' = task'.size - ChunkOf(task'.size)
            /\ r28' = Cmd(n', 1 + ChunkOf(task'.size))
       ELSE UNCHANGED <<dmem, r27, r28, r29, r30>>

(* The runtime starts a task; the hook preloads its first chunk and seeds  *)
(* the registers, unless there is no list.                                 *)
aspmain_pre_task ==
    /\ pc = "idle" /\ n < MaxTasks
    /\ n' = n + 1
    /\ task' \in [size : 0 .. MaxSize, null : BOOLEAN, flag : BOOLEAN]
    /\ executed' = <<>> /\ noops' = 0
    /\ pc' = "start"
    /\ IF HasList'
       THEN /\ dmem' = Copied(Cmd(n', 1), ChunkOf(task'.size))
            /\ r29' = 0
            /\ r30' = ChunkOf(task'.size)
            /\ r27' = task'.size
            /\ r28' = Cmd(n', 1)
       ELSE UNCHANGED <<dmem, r27, r28, r29, r30>>

(* L_1064: only a task with flag 2 has the list's address and length read  *)
(* from the OSTask.                                                        *)
L_1064 ==
    /\ pc = "start"
    /\ IF task.flag
       THEN /\ r28' = IF task.null THEN Unknown ELSE Cmd(n, 1)
            /\ r27' = task.size
       ELSE UNCHANGED <<r27, r28>>
    /\ pc' = "pump"
    /\ UNCHANGED <<n, task, dmem, r29, r30, executed, noops>>

PumpFullChunk ==
    /\ pc = "pump"
    /\ r30' = Chunk
    /\ dmem' = Copied(r28, r30')
    /\ r29' = 0
    /\ pc' = "dispatch"
    /\ UNCHANGED <<n, task, r27, r28, executed, noops>>

PumpUncapped ==
    /\ pc = "pump"
    /\ r30' = r27
    /\ dmem' = Copied(r28, r30')
    /\ r29' = 0
    /\ pc' = "dispatch"
    /\ UNCHANGED <<n, task, r27, r28, executed, noops>>

(* L_1120: the next chunk is copied over the last one. *)
L_1120 ==
    /\ pc = "pump"
    /\ r30' = ChunkOf(r27)
    /\ dmem' = Copied(r28, r30')
    /\ r29' = 0
    /\ pc' = "dispatch"
    /\ UNCHANGED <<n, task, r27, r28, executed, noops>>

HandlerKeepsR30(op) ==
    CASE op = "handled" -> r30' = r30 /\ pc' = "tail"
      [] op = "noop" -> r30' = r30 /\ pc' = "tail"
      [] op = "stop" -> r30' = r30 /\ pc' = "idle"

(* do_indirect_jump, by what the table holds for the opcode: a handler,    *)
(* which takes its command off r30 and goes on to L_10EC; L_10EC itself,   *)
(* for opcode 0 (SPNOOP), which takes nothing off; 0, or a target that is  *)
(* not known, which ends the task.                                         *)
do_indirect_jump(op) ==
    CASE op = "handled" -> r30' = r30 - 1 /\ pc' = "tail"
      [] op = "noop" -> r30' = r30 /\ pc' = "tail"
      [] op = "stop" -> r30' = r30 /\ pc' = "idle"

(* L_10C8: one command is loaded and jumped on. *)
L_10C8 ==
    /\ pc = "dispatch"
    /\ r29 < MaxOffset
    /\ r28' = Cmd(r28.list, r28.at + 1)
    /\ r27' = r27 - 1
    /\ executed' = Append(executed, IF r29 < Chunk THEN dmem[r29] ELSE Unknown)
    /\ \E op \in {"handled", "noop", "stop"} :
          /\ do_indirect_jump(op)
          /\ noops' = IF op = "noop" THEN noops + 1 ELSE noops
    /\ UNCHANGED <<n, task, dmem, r29>>

TailStopsOneEarly ==
    /\ pc = "tail"
    /\ r29' = r29 + 1
    /\ pc' = IF r30 > 0 THEN "dispatch" ELSE IF r27 <= 1 THEN "idle" ELSE "pump"
    /\ UNCHANGED <<n, task, dmem, r27, r28, r30, executed, noops>>

(* L_10EC: on in the chunk, on to the next chunk, or done. *)
L_10EC ==
    /\ pc = "tail"
    /\ r29' = r29 + 1
    /\ pc' = IF r30 > 0 THEN "dispatch" ELSE IF r27 <= 0 THEN "idle" ELSE "pump"
    /\ UNCHANGED <<n, task, dmem, r27, r28, r30, executed, noops>>
-----------------------------------------------------------------------------
aspMain == L_1064 \/ L_1120 \/ L_10C8 \/ L_10EC

Next == aspmain_pre_task \/ aspMain

Spec == Init /\ [][Next]_vars

(* The RSP thread runs a task it has begun.  No task has to come. *)
FairSpec == Spec /\ WF_vars(aspMain)
-----------------------------------------------------------------------------
Commands == [list : 0 .. MaxTasks, at : Int]

TypeOK ==
    /\ n \in 0 .. MaxTasks
    /\ task \in [size : 0 .. MaxSize, null : BOOLEAN, flag : BOOLEAN]
    /\ dmem \in [Slots -> Commands]
    /\ r27 \in Int /\ r28 \in Commands /\ r29 \in Nat
    /\ r30 \in Int /\ r30 <= Chunk
    /\ pc \in {"idle", "start", "pump", "dispatch", "tail"}
    /\ executed \in Seq(Commands)
    /\ noops \in Nat

(* A list is dispatched in its own order, each command once, from the      *)
(* first: nothing skipped at the start or at a chunk's end, nothing twice, *)
(* nothing of an earlier task out of the registers or the DMEM it left.    *)
(* (It takes a list without SPNOOP: that one is not counted off r30.)      *)
InOrder ==
    HasList /\ noops = 0 =>
        \A i \in DOMAIN executed : executed[i] = Cmd(n, i)

(* A task that ends of itself, and not at a command that stops it, has     *)
(* dispatched its whole list.                                              *)
WholeList ==
    [][HasList /\ noops = 0 /\ pc = "tail" /\ pc' = "idle" =>
        Len(executed) = task.size]_vars

(* The pump never copies from beyond the list. *)
PumpStaysInList ==
    [][HasList /\ noops = 0 /\ pc = "pump" /\ pc' = "dispatch" =>
        r28.at + r30' <= task.size + 1]_vars

(* Every task ends, before the watchdog of 100,000,000 transitions has to. *)
TaskEnds == (pc # "idle") ~> (pc = "idle" \/ noops > 0)
=============================================================================
