--------------------------- MODULE AspPumpProofs ---------------------------
(***************************************************************************)
(* Proofs about the audio pump, for any chunk, any list and any number of  *)
(* tasks.                                                                  *)
(*                                                                         *)
(* That a list is dispatched in order is not inductive alone: it needs to  *)
(* know that r28 and r27 count exactly what was dispatched, and that the   *)
(* slots from r29 on hold what r28 points at.  Counts and Resident say so. *)
(***************************************************************************)
EXTENDS AspPump, SequenceTheorems, TLAPS

Counted == HasList /\ noops = 0

(* r28 and r27 once they are loaded, in terms of what was dispatched. *)
Counts ==
    /\ Counted /\ pc = "start" => executed = <<>>
    /\ Counted /\ pc # "idle" =>
          /\ r28 = Cmd(n, Len(executed) + 1)
          /\ r27 = task.size - Len(executed)
    /\ Counted /\ pc \in {"start", "pump"} => r27 > 0

(* The slots that are still to be dispatched hold the list from r28 on. *)
Holds(first) ==
    /\ first + r30 <= Chunk
    /\ 0 <= r30 /\ r30 <= r27
    /\ \A s \in Slots : first <= s /\ s < first + r30 => dmem[s] = Cmd(n, r28.at + s - first)

Resident ==
    /\ Counted /\ pc = "dispatch" => r30 > 0 /\ Holds(r29)
    /\ Counted /\ pc = "tail" => Holds(r29 + 1)

IInv == TypeOK /\ Counts /\ Resident /\ InOrder

-----------------------------------------------------------------------------
(* A chunk is never longer than the buffer, nor than what there is. *)
LEMMA ChunkBounds ==
    ASSUME NEW len \in Int
    PROVE /\ ChunkOf(len) \in Int
          /\ ChunkOf(len) <= Chunk /\ ChunkOf(len) <= len
          /\ len > 0 => ChunkOf(len) > 0
BY PumpAssumption DEF ChunkOf

(* A chunk that starts at slot 0 ends at the slot its length says. *)
LEMMA ZeroPlus == \A len \in Int : 0 + len = len
OBVIOUS

(* What a DMA leaves in the buffer are commands. *)
LEMMA CopiedType ==
    ASSUME TypeOK, NEW at \in Commands, NEW len \in Int
    PROVE Copied(at, len) \in [Slots -> Commands]
<1>1. \A s \in Slots : Cmd(at.list, at.at + s) \in Commands /\ Unknown \in Commands
  BY PumpAssumption DEF Cmd, Unknown, Commands, Slots
<1>2. QED  BY <1>1 DEF Copied, TypeOK

(* Types are preserved by every step. *)
LEMMA TypeStep == ASSUME TypeOK, [Next]_vars PROVE TypeOK'
<1> USE PumpAssumption DEF TypeOK
<1>1. CASE aspmain_pre_task
  <2>1. n' \in 0 .. MaxTasks /\ task'.size \in Int  BY <1>1 DEF aspmain_pre_task
  <2>2. Cmd(n', 1) \in Commands  BY <2>1 DEF Cmd, Commands
  <2>3. ChunkOf(task'.size) \in Int /\ ChunkOf(task'.size) <= Chunk  BY <2>1, ChunkBounds
  <2>4. Copied(Cmd(n', 1), ChunkOf(task'.size)) \in [Slots -> Commands]
    BY <2>2, <2>3, CopiedType
  <2>5. CASE HasList'
    BY <1>1, <2>1, <2>2, <2>3, <2>4, <2>5 DEF aspmain_pre_task
  <2>6. CASE ~HasList'
    BY <1>1, <2>1, <2>6 DEF aspmain_pre_task
  <2>7. QED  BY <2>5, <2>6
<1>2. CASE L_1064
  <2>1. Cmd(n, 1) \in Commands /\ Unknown \in Commands  BY DEF Cmd, Unknown, Commands
  <2>2. QED  BY <1>2, <2>1 DEF L_1064
<1>3. CASE L_1120
  <2>1. ChunkOf(r27) \in Int /\ ChunkOf(r27) <= Chunk  BY ChunkBounds
  <2>2. Copied(r28, ChunkOf(r27)) \in [Slots -> Commands]  BY <2>1, CopiedType
  <2>3. QED  BY <1>3, <2>1, <2>2 DEF L_1120
<1>4. CASE L_10C8
  <2>1. Cmd(r28.list, r28.at + 1) \in Commands  BY DEF Cmd, Commands
  <2>2. (IF r29 < Chunk THEN dmem[r29] ELSE Unknown) \in Commands
    BY DEF Cmd, Unknown, Commands, Slots
  <2>3. executed' \in Seq(Commands)  BY <1>4, <2>2, AppendProperties DEF L_10C8
  <2>4. PICK op \in {"handled", "noop", "stop"} :
            do_indirect_jump(op) /\ noops' = IF op = "noop" THEN noops + 1 ELSE noops
    BY <1>4 DEF L_10C8
  <2>5. r30' \in Int /\ r30' <= Chunk /\ pc' \in {"idle", "tail"} /\ noops' \in Nat
    <3>1. CASE op = "handled"  BY <2>4, <3>1 DEF do_indirect_jump
    <3>2. CASE op = "noop"  BY <2>4, <3>2 DEF do_indirect_jump
    <3>3. CASE op = "stop"  BY <2>4, <3>3 DEF do_indirect_jump
    <3>4. QED  BY <3>1, <3>2, <3>3
  <2>6. QED  BY <1>4, <2>1, <2>3, <2>5 DEF L_10C8
<1>5. CASE L_10EC  BY <1>5 DEF L_10EC
<1>6. CASE UNCHANGED vars  BY <1>6 DEF vars
<1>7. QED  BY <1>1, <1>2, <1>3, <1>4, <1>5, <1>6 DEF Next, aspMain

(* A dispatch of a list without SPNOOP loads the command r28 points at. *)
LEMMA DispatchStep ==
    ASSUME IInv, L_10C8, Counted'
    PROVE /\ Counted /\ pc = "dispatch"
          /\ executed' = Append(executed, Cmd(n, Len(executed) + 1))
          /\ Len(executed') = Len(executed) + 1
          /\ pc' = "tail" => r30' = r30 - 1
<1> USE PumpAssumption DEF IInv, TypeOK
<1>1. PICK op \in {"handled", "noop", "stop"} :
          do_indirect_jump(op) /\ noops' = IF op = "noop" THEN noops + 1 ELSE noops
  BY DEF L_10C8
<1>2. op # "noop" /\ noops = 0  BY <1>1 DEF Counted
<1>3. Counted /\ pc = "dispatch"  BY <1>2 DEF L_10C8, Counted, HasList
<1>4. pc' = "tail" => r30' = r30 - 1  BY <1>1, <1>2 DEF do_indirect_jump
<1>5. r29 < Chunk /\ dmem[r29] = Cmd(n, r28.at)
  <2>1. r29 + r30 <= Chunk /\ r30 > 0  BY <1>3 DEF Resident, Holds
  <2>2. r29 \in Slots /\ r29 <= r29 /\ r29 < r29 + r30  BY <2>1 DEF Slots
  <2>3. dmem[r29] = Cmd(n, r28.at + r29 - r29)  BY <1>3, <2>2 DEF Resident, Holds
  <2>4. r28.at \in Int  BY DEF Commands
  <2>5. QED  BY <2>1, <2>3, <2>4
<1>6. r28.at = Len(executed) + 1  BY <1>3 DEF Counts, Cmd
<1>7. executed' = Append(executed, Cmd(n, Len(executed) + 1))  BY <1>5, <1>6 DEF L_10C8
<1>8. Len(executed') = Len(executed) + 1
  <2>1. Cmd(n, Len(executed) + 1) \in Commands  BY LenProperties DEF Cmd, Commands
  <2>2. QED  BY <1>7, <2>1, AppendProperties
<1>9. QED  BY <1>3, <1>4, <1>7, <1>8

(* r28 and r27 keep count of what was dispatched. *)
LEMMA CountsStep == ASSUME IInv, TypeOK', [Next]_vars PROVE Counts'
<1> USE PumpAssumption DEF IInv, TypeOK
<1>1. CASE aspmain_pre_task
  <2>1. executed' = <<>> /\ Len(executed') = 0  BY <1>1 DEF aspmain_pre_task
  <2>2. HasList' => r27' = task'.size /\ r28' = Cmd(n', 1) /\ task'.size > 0
    BY <1>1 DEF aspmain_pre_task, HasList
  <2>3. QED  BY <1>1, <2>1, <2>2 DEF Counts, Counted, aspmain_pre_task
<1>2. CASE L_1064
  <2>1. CASE Counted
    <3>1. Len(executed) = 0 /\ r27 = task.size /\ r28 = Cmd(n, 1)
      BY <1>2, <2>1 DEF L_1064, Counts
    <3>2. r27' = task.size /\ r28' = Cmd(n, 1)
      BY <1>2, <2>1, <3>1 DEF L_1064, Counted, HasList
    <3>3. QED  BY <1>2, <2>1, <3>1, <3>2 DEF L_1064, Counts, Counted, HasList
  <2>2. CASE ~Counted  BY <1>2, <2>2 DEF L_1064, Counts, Counted, HasList
  <2>3. QED  BY <2>1, <2>2
<1>3. CASE L_1120  BY <1>3 DEF L_1120, Counts, Counted, HasList
<1>4. CASE L_10C8
  <2>1. CASE Counted'
    <3>1. Counted /\ pc = "dispatch" /\ Len(executed') = Len(executed) + 1
      BY <1>4, <2>1, DispatchStep
    <3>2. r28 = Cmd(n, Len(executed) + 1) /\ r27 = task.size - Len(executed)
      BY <3>1 DEF Counts
    <3>3. r28' = Cmd(n, Len(executed) + 2)
      BY <1>4, <3>2, LenProperties DEF L_10C8, Cmd
    <3>4. r27' = task.size - Len(executed) - 1  BY <1>4, <3>2, LenProperties DEF L_10C8
    <3>5. pc' \in {"idle", "tail"}  BY <1>4 DEF L_10C8, do_indirect_jump
    <3>6. n' = n /\ task' = task  BY <1>4 DEF L_10C8
    <3>7. r28' = Cmd(n', Len(executed') + 1) /\ r27' = task'.size - Len(executed')
      BY <3>1, <3>3, <3>4, <3>6, LenProperties
    <3>8. QED  BY <3>5, <3>7 DEF Counts
  <2>2. CASE ~Counted'  BY <2>2 DEF Counts
  <2>3. QED  BY <2>1, <2>2
<1>5. CASE L_10EC  BY <1>5 DEF L_10EC, Counts, Counted, HasList
<1>6. CASE UNCHANGED vars  BY <1>6 DEF vars, Counts, Counted, HasList
<1>7. QED  BY <1>1, <1>2, <1>3, <1>4, <1>5, <1>6 DEF Next, aspMain

(* The slots ahead keep holding the list. *)
LEMMA ResidentStep == ASSUME IInv, TypeOK', [Next]_vars PROVE Resident'
<1> USE PumpAssumption DEF IInv, TypeOK
<1>1. CASE aspmain_pre_task \/ L_1064
  BY <1>1 DEF aspmain_pre_task, L_1064, Resident
<1>2. CASE L_1120
  <2>1. CASE Counted
    <3>1. r27 > 0 /\ r28 = Cmd(n, r28.at)  BY <1>2, <2>1 DEF L_1120, Counts, Cmd
    <3>2. r30' > 0 /\ r30' <= Chunk /\ r30' <= r27  BY <1>2, <3>1, ChunkBounds DEF L_1120
    <3>3. dmem' = [s \in Slots |-> IF s < r30' THEN Cmd(r28.list, r28.at + s) ELSE dmem[s]]
      BY <1>2, <3>2 DEF L_1120, Copied
    <3>4. r28.list = n  BY <3>1 DEF Cmd
    <3>5. r29' = 0 /\ r28' = r28 /\ r27' = r27 /\ n' = n /\ pc' = "dispatch"
      BY <1>2 DEF L_1120
    <3>6. \A s \in Slots : s < r30' => dmem'[s] = Cmd(n', r28'.at + s - r29')
      BY <3>3, <3>4, <3>5 DEF Slots, Commands
    <3>0. r30' \in Int  BY <1>2, ChunkBounds DEF L_1120
    <3>7. r29' + r30' <= Chunk /\ 0 <= r30' /\ r30' <= r27'
      <4>0. r29' = 0  BY <3>5
      <4>1. r29' + r30' <= Chunk
        <5>1. 0 + r30' = r30'  BY <3>0, ZeroPlus
        <5>2. r29' + r30' = r30'  BY <4>0, <5>1
        <5>3. QED  BY <3>2, <5>2
      <4>2. 0 <= r30'  BY <3>0, <3>2
      <4>3. r30' <= r27'  BY <3>2, <3>5
      <4>4. QED  BY <4>1, <4>2, <4>3
    <3>8. \A s \in Slots : r29' <= s /\ s < r29' + r30' =>
              dmem'[s] = Cmd(n', r28'.at + s - r29')
      BY <3>0, <3>5, <3>6
    <3>9. Holds(r29)'  BY <3>7, <3>8 DEF Holds
    <3>10. QED  BY <3>2, <3>5, <3>9 DEF Resident
  <2>2. CASE ~Counted  BY <1>2, <2>2 DEF L_1120, Resident, Counted, HasList
  <2>3. QED  BY <2>1, <2>2
<1>3. CASE L_10C8
  <2>1. CASE Counted' /\ pc' = "tail"
    <3>1. Counted /\ pc = "dispatch" /\ r30' = r30 - 1  BY <1>3, <2>1, DispatchStep
    <3>2. r30 > 0 /\ Holds(r29)  BY <3>1 DEF Resident
    <3>3. /\ r29' = r29 /\ dmem' = dmem /\ n' = n /\ r27' = r27 - 1
          /\ r28'.at = r28.at + 1
      BY <1>3 DEF L_10C8, Cmd
    <3>4. \A s \in Slots : r29' + 1 <= s /\ s < r29' + 1 + r30' =>
              dmem'[s] = Cmd(n', r28'.at + s - (r29' + 1))
      <4>1. SUFFICES ASSUME NEW s \in Slots, r29' + 1 <= s, s < r29' + 1 + r30'
                     PROVE dmem'[s] = Cmd(n', r28'.at + s - (r29' + 1))
        OBVIOUS
      <4>2. r29 <= s /\ s < r29 + r30  BY <3>1, <3>3, <4>1 DEF Slots
      <4>3. dmem[s] = Cmd(n, r28.at + s - r29)  BY <3>2, <4>2 DEF Holds
      <4>4. r28.at + s - r29 = r28'.at + s - (r29' + 1)  BY <3>3 DEF Commands, Slots
      <4>5. QED  BY <3>3, <4>3, <4>4
    <3>5. r29' + 1 + r30' <= Chunk /\ 0 <= r30' /\ r30' <= r27'
      BY <3>1, <3>2, <3>3 DEF Holds
    <3>6. Holds(r29 + 1)'  BY <3>4, <3>5 DEF Holds
    <3>7. QED  BY <2>1, <3>6 DEF Resident
  <2>2. CASE ~(Counted' /\ pc' = "tail")
    BY <1>3, <2>2 DEF L_10C8, do_indirect_jump, Resident
  <2>3. QED  BY <2>1, <2>2
<1>4. CASE L_10EC
  <2>1. CASE Counted /\ pc' = "dispatch"
    <3>1. Holds(r29 + 1)  BY <1>4, <2>1 DEF L_10EC, Resident
    <3>2. r30' > 0 /\ Holds(r29)'  BY <1>4, <2>1, <3>1 DEF L_10EC, Holds
    <3>3. QED  BY <2>1, <3>2 DEF Resident
  <2>2. CASE ~(Counted /\ pc' = "dispatch")
    BY <1>4, <2>2 DEF L_10EC, Resident, Counted, HasList
  <2>3. QED  BY <2>1, <2>2
<1>5. CASE UNCHANGED vars  BY <1>5 DEF vars, Resident, Counted, HasList, Holds
<1>6. QED  BY <1>1, <1>2, <1>3, <1>4, <1>5 DEF Next, aspMain

(* The order is kept: a step appends the next command of the list or none. *)
LEMMA InOrderStep == ASSUME IInv, TypeOK', [Next]_vars PROVE InOrder'
<1> USE DEF IInv, TypeOK
<1>1. CASE aspmain_pre_task  BY <1>1 DEF aspmain_pre_task, InOrder
<1>2. CASE L_1064 \/ L_1120 \/ L_10EC
  BY <1>2 DEF L_1064, L_1120, L_10EC, InOrder, HasList
<1>3. CASE L_10C8
  <2>1. CASE Counted'
    <3>1. Counted /\ executed' = Append(executed, Cmd(n, Len(executed) + 1)) /\ n' = n
      BY <1>3, <2>1, DispatchStep DEF L_10C8
    <3>2. Cmd(n, Len(executed) + 1) \in Commands
      BY LenProperties DEF Cmd, Commands
    <3>3. \A i \in DOMAIN executed' : executed'[i] = Cmd(n, i)
      <4>1. \A i \in DOMAIN executed : executed[i] = Cmd(n, i)
        BY <3>1 DEF InOrder, Counted
      <4>2. Len(executed') = Len(executed) + 1  BY <3>1, <3>2, AppendProperties
      <4>3. \A i \in 1 .. Len(executed) : executed'[i] = executed[i]
        BY <3>1, <3>2, AppendProperties
      <4>4. executed'[Len(executed) + 1] = Cmd(n, Len(executed) + 1)
        BY <3>1, <3>2, AppendProperties
      <4>5. DOMAIN executed = 1 .. Len(executed) /\ DOMAIN executed' = 1 .. Len(executed')
        BY LenProperties
      <4>6. QED  BY <4>1, <4>2, <4>3, <4>4, <4>5, LenProperties
    <3>4. QED  BY <3>1, <3>3 DEF InOrder
  <2>2. CASE ~Counted'  BY <2>2 DEF Counted, InOrder
  <2>3. QED  BY <2>1, <2>2
<1>4. CASE UNCHANGED vars  BY <1>4 DEF vars, InOrder, HasList
<1>5. QED  BY <1>1, <1>2, <1>3, <1>4 DEF Next, aspMain

-----------------------------------------------------------------------------
(* The invariant the theorems below rest on. *)
THEOREM Invariance == Spec => []IInv
<1>1. Init => IInv
  <2> SUFFICES ASSUME Init PROVE IInv  OBVIOUS
  <2>1. TypeOK
    BY PumpAssumption DEF Init, TypeOK, Commands, Cmd, Unknown, Slots
  <2>2. Counts /\ Resident /\ InOrder
    BY DEF Init, Counts, Resident, InOrder, Counted, HasList
  <2>3. QED  BY <2>1, <2>2 DEF IInv
<1>2. IInv /\ [Next]_vars => IInv'
  <2> SUFFICES ASSUME IInv, [Next]_vars PROVE IInv'  OBVIOUS
  <2>1. TypeOK'  BY TypeStep DEF IInv
  <2>2. Counts' /\ Resident' /\ InOrder'  BY <2>1, CountsStep, ResidentStep, InOrderStep
  <2>3. QED  BY <2>1, <2>2 DEF IInv
<1>3. QED  BY <1>1, <1>2, PTL DEF Spec

(* Every variable of the pump keeps its type. *)
THEOREM TypeCorrect == Spec => []TypeOK
<1>1. IInv => TypeOK  BY DEF IInv
<1>2. QED  BY <1>1, Invariance, PTL

(* A list is dispatched in its own order, each command once, whatever the  *)
(* tasks before it left in the registers and in DMEM.                      *)
THEOREM ListsRunInOrder == Spec => []InOrder
<1>1. IInv => InOrder  BY DEF IInv
<1>2. QED  BY <1>1, Invariance, PTL

(* A task that ends of itself has dispatched its whole list. *)
THEOREM ListsRunToTheEnd == Spec => WholeList
<1>1. IInv /\ [Next]_vars =>
        [HasList /\ noops = 0 /\ pc = "tail" /\ pc' = "idle" =>
            Len(executed) = task.size]_vars
  <2> SUFFICES ASSUME IInv, Next, HasList, noops = 0, pc = "tail", pc' = "idle"
               PROVE Len(executed) = task.size
    BY DEF vars
  <2>1. L_10EC
    BY DEF Next, aspMain, aspmain_pre_task, L_1064, L_1120, L_10C8
  <2>2. r30 <= 0 /\ r27 <= 0  BY <2>1 DEF L_10EC, IInv, TypeOK
  <2>3. 0 <= r30 /\ r30 <= r27 /\ r27 = task.size - Len(executed)
    BY DEF IInv, Resident, Counts, Counted, Holds
  <2>4. QED  BY <2>2, <2>3, LenProperties DEF IInv, TypeOK
<1>2. QED  BY <1>1, Invariance, PTL DEF Spec, WholeList

(* The pump copies nothing from beyond the list. *)
THEOREM PumpKeepsToTheList == Spec => PumpStaysInList
<1>1. IInv /\ [Next]_vars =>
        [HasList /\ noops = 0 /\ pc = "pump" /\ pc' = "dispatch" =>
            r28.at + r30' <= task.size + 1]_vars
  <2> SUFFICES ASSUME IInv, Next, HasList, noops = 0, pc = "pump", pc' = "dispatch"
               PROVE r28.at + r30' <= task.size + 1
    BY DEF vars
  <2>1. L_1120
    BY DEF Next, aspMain, aspmain_pre_task, L_1064, L_10C8, L_10EC
  <2>2. r28.at = Len(executed) + 1 /\ r27 = task.size - Len(executed)
    BY DEF IInv, Counts, Counted, Cmd
  <2>3. r30' \in Int /\ r30' <= r27  BY <2>1, ChunkBounds DEF L_1120, IInv, TypeOK
  <2>4. QED  BY <2>2, <2>3, LenProperties DEF IInv, TypeOK
<1>2. QED  BY <1>1, Invariance, PTL DEF Spec, PumpStaysInList
=============================================================================
