-------------------------- MODULE AresWorkerProofs --------------------------
(***************************************************************************)
(* Proofs about the Ares worker, for any set of calling threads.           *)
(*                                                                         *)
(* The invariants of AresWorker are not inductive alone: that no job is    *)
(* taken from an empty queue needs to know who holds the mutex where, and  *)
(* that shutdown() comes only after start().  Shape adds those facts.      *)
(***************************************************************************)
EXTENDS AresWorker, SequenceTheorems, TLAPS

Shape ==
    /\ g_mutex = Worker <=> wpc \in {"pred", "ready", "block"}
    /\ job # NoOne <=> wpc = "run"
    /\ lpc = "new" <=> wpc = "unborn"
    /\ lpc = "down" => wpc = "exited"

IInv == TypeOK /\ Shape /\ CaptureIsLive /\ NoneForgotten /\ NeverPopsEmpty

-----------------------------------------------------------------------------
(* Types are preserved by every step. *)
LEMMA TypeStep == ASSUME TypeOK, Shape, [Next]_vars PROVE TypeOK'
<1> USE DEF TypeOK
<1>1. CASE Lifecycle
  BY <1>1 DEF Lifecycle, Start, ShutdownStore, ShutdownNotify, ShutdownJoin, Wake
<1>2. CASE worker_main
  <2>1. CASE WorkerLock \/ WorkerPredicate \/ WorkerBlock \/ SpuriousWake \/ WorkerExit
    BY <1>2, <2>1 DEF WorkerLock, WorkerPredicate, WorkerBlock, SpuriousWake, WorkerExit
  <2>2. CASE WorkerTake
    <3>1. Head(g_queue) \in Threads /\ Tail(g_queue) \in Seq(Threads)
      BY <2>2, HeadTailProperties DEF WorkerTake
    <3>2. QED  BY <2>2, <3>1 DEF WorkerTake
  <2>3. CASE WorkerRun
    BY <2>3 DEF WorkerRun
  <2>4. QED  BY <1>2, <2>1, <2>2, <2>3 DEF worker_main
<1>3. ASSUME NEW t \in Threads, Dispatch(t) PROVE TypeOK'
  <2>1. CASE Post(t)
    <3>1. Append(g_queue, t) \in Seq(Threads)  BY AppendProperties
    <3>2. QED  BY <2>1, <3>1 DEF Post
  <2>2. CASE PostNotify(t)  BY <2>2 DEF PostNotify, Wake
  <2>3. CASE Return(t)      BY <2>3 DEF Return
  <2>4. QED  BY <1>3, <2>1, <2>2, <2>3 DEF Dispatch
<1>4. CASE UNCHANGED vars  BY <1>4 DEF vars
<1>5. QED  BY <1>1, <1>2, <1>3, <1>4 DEF Next

(* Who holds the mutex, whether a job is in hand, and whether the thread   *)
(* exists follow the worker's program counter.                             *)
LEMMA ShapeStep == ASSUME TypeOK, Shape, [Next]_vars PROVE Shape'
<1> USE ThreadAssumption DEF TypeOK, Shape
<1>1. CASE Lifecycle
  BY <1>1 DEF Lifecycle, Start, ShutdownStore, ShutdownNotify, ShutdownJoin, Wake
<1>2. CASE worker_main
  <2>1. CASE WorkerLock \/ WorkerPredicate \/ WorkerBlock \/ SpuriousWake
    BY <2>1 DEF WorkerLock, WorkerPredicate, WorkerBlock, SpuriousWake
  <2>2. CASE WorkerExit \/ WorkerRun
    BY <2>2 DEF WorkerExit, WorkerRun
  <2>3. CASE WorkerTake
    <3>1. Head(g_queue) \in Threads  BY <2>3, HeadTailProperties DEF WorkerTake
    <3>2. QED  BY <2>3, <3>1 DEF WorkerTake
  <2>4. QED  BY <1>2, <2>1, <2>2, <2>3 DEF worker_main
<1>3. ASSUME NEW t \in Threads, Dispatch(t) PROVE Shape'
  BY <1>3 DEF Dispatch, Post, PostNotify, Return, Wake
<1>4. CASE UNCHANGED vars  BY <1>4 DEF vars
<1>5. QED  BY <1>1, <1>2, <1>3, <1>4 DEF Next
-----------------------------------------------------------------------------
(* How the list of unfinished jobs moves.                                  *)

LEMMA UnfinishedType ==
  ASSUME TypeOK
  PROVE  /\ Unfinished \in Seq(Threads)
         /\ DOMAIN Unfinished = 1 .. Len(Unfinished)
         /\ Len(Unfinished) \in Nat
<1>1. Unfinished \in Seq(Threads)
  <2>1. CASE job = NoOne  BY <2>1 DEF TypeOK, Unfinished
  <2>2. CASE job # NoOne
    <3>1. <<job>> \in Seq(Threads)  BY <2>2 DEF TypeOK
    <3>2. QED  BY <2>2, <3>1, ConcatProperties DEF TypeOK, Unfinished
  <2>3. QED  BY <2>1, <2>2
<1>2. QED  BY <1>1, LenProperties

(* Posting puts the job last, whether or not another one is running. *)
LEMMA PostAppends ==
  ASSUME TypeOK, NEW t \in Threads, Post(t)
  PROVE  Unfinished' = Append(Unfinished, t)
<1>1. CASE job = NoOne  BY <1>1 DEF Post, Unfinished
<1>2. CASE job # NoOne
  <2>1. <<job>> \in Seq(Threads) /\ <<t>> \in Seq(Threads) /\ g_queue \in Seq(Threads)
    BY <1>2 DEF TypeOK
  <2>2. Append(g_queue, t) = g_queue \o <<t>>
    BY <2>1, AppendIsConcat
  <2>3. Append(<<job>> \o g_queue, t) = (<<job>> \o g_queue) \o <<t>>
    BY <2>1, ConcatProperties, AppendIsConcat
  <2>4. (<<job>> \o g_queue) \o <<t>> = <<job>> \o (g_queue \o <<t>>)
    BY <2>1, ConcatAssociative
  <2>5. QED  BY <1>2, <2>2, <2>3, <2>4 DEF Post, Unfinished
<1>3. QED  BY <1>1, <1>2

(* Taking a job moves the front of the queue into the worker's hands. *)
LEMMA TakeKeeps ==
  ASSUME TypeOK, Shape, WorkerTake
  PROVE  Unfinished' = Unfinished
<1>1. g_queue \in Seq(Threads) /\ g_queue # <<>> /\ job = NoOne
  BY DEF TypeOK, Shape, WorkerTake
<1>2. Head(g_queue) \in Threads /\ Tail(g_queue) \in Seq(Threads)
  BY <1>1, HeadTailProperties
<1>3. job' = Head(g_queue) /\ job' # NoOne /\ g_queue' = Tail(g_queue)
  BY <1>2, ThreadAssumption DEF WorkerTake
<1>4. <<Head(g_queue)>> \o Tail(g_queue) = g_queue
  <2>1. <<Head(g_queue)>> \in Seq(Threads) /\ Len(<<Head(g_queue)>>) = 1
    BY <1>2
  <2>2. Len(g_queue) \in Nat /\ Len(g_queue) > 0  BY <1>1, EmptySeq, LenProperties
  <2>3. /\ <<Head(g_queue)>> \o Tail(g_queue) \in Seq(Threads)
        /\ Len(<<Head(g_queue)>> \o Tail(g_queue)) = Len(g_queue)
    BY <1>1, <1>2, <2>1, <2>2, ConcatProperties, HeadTailProperties
  <2>4. ASSUME NEW i \in 1 .. Len(g_queue)
        PROVE  (<<Head(g_queue)>> \o Tail(g_queue))[i] = g_queue[i]
    <3>1. CASE i = 1
      BY <1>1, <1>2, <2>1, <2>2, <3>1, ConcatProperties, HeadTailProperties
    <3>2. CASE i # 1
      <4>1. i - 1 \in 1 .. Len(Tail(g_queue))  BY <1>1, <2>2, <3>2, HeadTailProperties
      <4>2. Tail(g_queue)[i - 1] = g_queue[i]
        BY <1>1, <2>2, <4>1, HeadTailProperties
      <4>3. (<<Head(g_queue)>> \o Tail(g_queue))[i] = Tail(g_queue)[i - 1]
        BY <1>1, <1>2, <2>1, <2>2, <3>2, <4>1, ConcatProperties, HeadTailProperties
      <4>4. QED  BY <4>2, <4>3
    <3>3. QED  BY <3>1, <3>2
  <2>5. QED  BY <1>1, <2>3, <2>4, SeqEqual
<1>5. QED  BY <1>1, <1>3, <1>4 DEF Unfinished

(* Running a job finishes the first unfinished one. *)
LEMMA RunDropsHead ==
  ASSUME TypeOK, Shape, WorkerRun
  PROVE  /\ Unfinished # <<>>
         /\ Head(Unfinished) = job
         /\ Unfinished' = Tail(Unfinished)
<1>1. g_queue \in Seq(Threads) /\ job \in Threads /\ job # NoOne
  BY DEF TypeOK, Shape, WorkerRun
<1>2. Unfinished = <<job>> \o g_queue /\ Unfinished' = g_queue
  BY <1>1 DEF Unfinished, WorkerRun
<1>3. <<job>> \in Seq(Threads) /\ Len(<<job>>) = 1 /\ <<job>>[1] = job
  BY <1>1
<1>4. /\ Unfinished \in Seq(Threads)
      /\ Len(Unfinished) = Len(g_queue) + 1
      /\ \A i \in 1 .. Len(g_queue) + 1 :
            Unfinished[i] = IF i <= 1 THEN job ELSE g_queue[i - 1]
  BY <1>1, <1>2, <1>3, ConcatProperties, LenProperties
<1>5. Len(g_queue) \in Nat  BY <1>1, LenProperties
<1>6. Unfinished # <<>> /\ Head(Unfinished) = job
  <2>1. Unfinished # <<>>  BY <1>4, <1>5, EmptySeq
  <2>2. Head(Unfinished) = Unfinished[1]  BY <1>4, <2>1
  <2>3. QED  BY <1>4, <1>5, <2>1, <2>2
<1>7. Tail(Unfinished) = g_queue
  <2>1. /\ Tail(Unfinished) \in Seq(Threads)
        /\ Len(Tail(Unfinished)) = Len(g_queue)
        /\ \A i \in 1 .. Len(g_queue) : Tail(Unfinished)[i] = Unfinished[i + 1]
    BY <1>4, <1>5, <1>6, HeadTailProperties
  <2>2. ASSUME NEW i \in 1 .. Len(g_queue) PROVE Tail(Unfinished)[i] = g_queue[i]
    BY <1>4, <1>5, <2>1, <2>2
  <2>3. QED  BY <1>1, <2>1, <2>2, SeqEqual
<1>8. QED  BY <1>2, <1>6, <1>7
-----------------------------------------------------------------------------
(* The steps that neither post, take nor finish a job leave the list alone *)
(* and neither start a call nor answer one.                                *)
Quiet ==
    \/ Lifecycle
    \/ WorkerLock \/ WorkerPredicate \/ WorkerBlock \/ SpuriousWake \/ WorkerExit
    \/ UNCHANGED vars

LEMMA QuietStep ==
  ASSUME Quiet
  PROVE  UNCHANGED <<Unfinished, dpc, fulfilled>>
<1> USE DEF Unfinished
<1>1. CASE Lifecycle
  BY <1>1 DEF Lifecycle, Start, ShutdownStore, ShutdownNotify, ShutdownJoin
<1>2. CASE WorkerLock \/ WorkerPredicate \/ WorkerBlock \/ SpuriousWake \/ WorkerExit
  BY <1>2 DEF WorkerLock, WorkerPredicate, WorkerBlock, SpuriousWake, WorkerExit
<1>3. CASE UNCHANGED vars  BY <1>3 DEF vars
<1>4. QED  BY <1>1, <1>2, <1>3 DEF Quiet

LEMMA CaptureStep == ASSUME IInv, [Next]_vars PROVE CaptureIsLive'
<1> DEFINE U == Unfinished
<1>u. U \in Seq(Threads) /\ DOMAIN U = 1 .. Len(U) /\ Len(U) \in Nat
  BY UnfinishedType DEF IInv
<1>t. TypeOK /\ Shape /\ CaptureIsLive /\ NoneForgotten  BY DEF IInv
<1>1. CASE Quiet
  BY <1>1, <1>t, QuietStep DEF CaptureIsLive
<1>2. ASSUME NEW t \in Threads, Post(t) PROVE CaptureIsLive'
  <2>1. Unfinished' = Append(U, t)  BY <1>t, <1>2, PostAppends
  <2>2. /\ DOMAIN Unfinished' = 1 .. Len(U) + 1
        /\ Unfinished'[Len(U) + 1] = t
        /\ \A i \in 1 .. Len(U) : Unfinished'[i] = U[i]
    BY <1>u, <2>1, AppendProperties, LenProperties
  <2>3. \A i \in 1 .. Len(U) : U[i] \in Threads /\ U[i] # t
    BY <1>u, <1>t, <1>2, ElementOfSeq DEF CaptureIsLive, Post
  <2>4. \A i \in 1 .. Len(U) : dpc'[U[i]] = dpc[U[i]] /\ fulfilled'[U[i]] = fulfilled[U[i]]
    BY <1>t, <1>2, <2>3 DEF Post, TypeOK
  <2>5. dpc'[t] = "pushed" /\ fulfilled'[t] = FALSE
    BY <1>t, <1>2 DEF Post, TypeOK
  <2> HIDE DEF U
  <2>6. \A i \in DOMAIN Unfinished' : dpc'[Unfinished'[i]] # "idle" /\ ~fulfilled'[Unfinished'[i]]
    <3>1. \A i \in 1 .. Len(U) : dpc'[U[i]] # "idle" /\ ~fulfilled'[U[i]]
      BY <1>u, <1>t, <2>4 DEF CaptureIsLive, U
    <3>2. QED  BY <1>u, <2>2, <2>5, <3>1
  <2>7. \A i, j \in DOMAIN Unfinished' : Unfinished'[i] = Unfinished'[j] => i = j
    <3>1. \A i, j \in 1 .. Len(U) : U[i] = U[j] => i = j
      BY <1>u, <1>t DEF CaptureIsLive, U
    <3>2. QED  BY <1>u, <2>2, <2>3, <3>1
  <2>8. QED  BY <2>6, <2>7 DEF CaptureIsLive
<1>3. ASSUME NEW t \in Threads, PostNotify(t) \/ Return(t) PROVE CaptureIsLive'
  <2>1. Unfinished' = U /\ fulfilled' = fulfilled
    BY <1>3 DEF PostNotify, Return, Unfinished
  <2>2. \A i \in DOMAIN U : U[i] \in Threads /\ dpc[U[i]] # "idle" /\ ~fulfilled[U[i]]
    BY <1>u, <1>t, ElementOfSeq DEF CaptureIsLive
  <2>3. \A i \in DOMAIN U : dpc'[U[i]] # "idle"
    BY <1>t, <1>3, <2>2 DEF PostNotify, Return, TypeOK
  <2>4. QED  BY <1>t, <2>1, <2>2, <2>3 DEF CaptureIsLive
<1>4. CASE WorkerTake
  BY <1>4, <1>t, TakeKeeps DEF CaptureIsLive, WorkerTake
<1>5. CASE WorkerRun
  <2>1. U # <<>> /\ Head(U) = job /\ Unfinished' = Tail(U)
    BY <1>t, <1>5, RunDropsHead
  <2>2. /\ U[1] = job
        /\ DOMAIN Unfinished' = 1 .. Len(U) - 1
        /\ \A i \in 1 .. Len(U) - 1 : Unfinished'[i] = U[i + 1]
    BY <1>u, <2>1, HeadTailProperties, LenProperties
  <2>3. \A i \in 1 .. Len(U) : U[i] \in Threads  BY <1>u, ElementOfSeq
  <2>4. \A i \in 1 .. Len(U) - 1 : U[i + 1] # job
    BY <1>u, <1>t, <2>2 DEF CaptureIsLive
  <2>5. dpc' = dpc /\ \A t \in Threads \ {job} : fulfilled'[t] = fulfilled[t]
    BY <1>t, <1>5 DEF WorkerRun, TypeOK
  <2> HIDE DEF U
  <2>6. \A i \in 1 .. Len(U) - 1 : dpc'[U[i+1]] # "idle" /\ ~fulfilled'[U[i+1]]
    BY <1>u, <1>t, <2>3, <2>4, <2>5 DEF CaptureIsLive, U
  <2>7. \A i, j \in 1 .. Len(U) - 1 : U[i+1] = U[j+1] => i = j
    BY <1>u, <1>t DEF CaptureIsLive, U
  <2>8. QED  BY <1>u, <2>2, <2>6, <2>7 DEF CaptureIsLive
<1>6. QED
  BY <1>1, <1>2, <1>3, <1>4, <1>5 DEF Next, worker_main, Dispatch, Quiet

LEMMA ForgottenStep == ASSUME IInv, [Next]_vars PROVE NoneForgotten'
<1> DEFINE U == Unfinished
<1>u. U \in Seq(Threads) /\ DOMAIN U = 1 .. Len(U) /\ Len(U) \in Nat
  BY UnfinishedType DEF IInv
<1>t. TypeOK /\ Shape /\ CaptureIsLive /\ NoneForgotten  BY DEF IInv
<1>1. CASE Quiet
  BY <1>1, <1>t, QuietStep DEF NoneForgotten
<1>2. ASSUME NEW t \in Threads, Post(t) PROVE NoneForgotten'
  <2>1. Unfinished' = Append(U, t)  BY <1>t, <1>2, PostAppends
  <2>2. /\ DOMAIN Unfinished' = 1 .. Len(U) + 1
        /\ Unfinished'[Len(U) + 1] = t
        /\ \A i \in 1 .. Len(U) : Unfinished'[i] = U[i]
    BY <1>u, <2>1, AppendProperties, LenProperties
  <2>3. \A s \in Threads \ {t} : dpc'[s] = dpc[s] /\ fulfilled'[s] = fulfilled[s]
    BY <1>t, <1>2 DEF Post, TypeOK
  <2> HIDE DEF U
  <2>4. ASSUME NEW s \in Threads, dpc'[s] # "idle", ~fulfilled'[s]
        PROVE  \E i \in DOMAIN Unfinished' : Unfinished'[i] = s
    <3>1. CASE s = t  BY <1>u, <2>2, <3>1
    <3>2. CASE s # t
      <4>1. PICK i \in 1 .. Len(U) : U[i] = s
        BY <1>u, <1>t, <2>3, <2>4, <3>2 DEF NoneForgotten, U
      <4>2. i \in DOMAIN Unfinished' /\ Unfinished'[i] = s  BY <1>u, <2>2, <4>1
      <4>3. QED  BY <4>2
    <3>3. QED  BY <3>1, <3>2
  <2>5. QED  BY <2>4 DEF NoneForgotten
<1>3. ASSUME NEW t \in Threads, PostNotify(t) \/ Return(t) PROVE NoneForgotten'
  <2>1. Unfinished' = U /\ fulfilled' = fulfilled
    BY <1>3 DEF PostNotify, Return, Unfinished
  <2>2. \A s \in Threads : dpc'[s] # "idle" => dpc[s] # "idle"
    BY <1>t, <1>3 DEF PostNotify, Return, TypeOK
  <2>3. QED  BY <1>t, <2>1, <2>2 DEF NoneForgotten
<1>4. CASE WorkerTake
  BY <1>4, <1>t, TakeKeeps DEF NoneForgotten, WorkerTake
<1>5. CASE WorkerRun
  <2>1. U # <<>> /\ Head(U) = job /\ Unfinished' = Tail(U)
    BY <1>t, <1>5, RunDropsHead
  <2>2. /\ U[1] = job
        /\ DOMAIN Unfinished' = 1 .. Len(U) - 1
        /\ \A i \in 1 .. Len(U) - 1 : Unfinished'[i] = U[i + 1]
    BY <1>u, <2>1, HeadTailProperties, LenProperties
  <2>3. /\ dpc' = dpc
        /\ \A s \in Threads : ~fulfilled'[s] => s # job /\ ~fulfilled[s]
    BY <1>t, <1>5 DEF WorkerRun, TypeOK
  <2> HIDE DEF U
  <2>4. ASSUME NEW s \in Threads, dpc'[s] # "idle", ~fulfilled'[s]
        PROVE  \E i \in DOMAIN Unfinished' : Unfinished'[i] = s
    <3>1. PICK i \in 1 .. Len(U) : U[i] = s
      BY <1>u, <1>t, <2>3, <2>4 DEF NoneForgotten, U
    <3>2. i # 1  BY <2>2, <2>3, <2>4, <3>1
    <3>3. i - 1 \in DOMAIN Unfinished' /\ Unfinished'[i - 1] = s
      BY <1>u, <2>2, <3>1, <3>2
    <3>4. QED  BY <3>3
  <2>5. QED  BY <2>4 DEF NoneForgotten
<1>6. QED
  BY <1>1, <1>2, <1>3, <1>4, <1>5 DEF Next, worker_main, Dispatch, Quiet

LEMMA NeverPopsStep == ASSUME IInv, [Next]_vars PROVE NeverPopsEmpty'
<1> USE ThreadAssumption DEF NeverPopsEmpty
<1>t. TypeOK /\ Shape /\ NeverPopsEmpty  BY DEF IInv
<1>1. CASE Lifecycle
  BY <1>1, <1>t DEF Lifecycle, Start, ShutdownStore, ShutdownNotify, ShutdownJoin, Wake,
                    TypeOK, Shape
<1>2. CASE worker_main
  <2>1. CASE WorkerLock \/ WorkerBlock \/ SpuriousWake \/ WorkerExit
    BY <1>t, <2>1 DEF WorkerLock, WorkerBlock, SpuriousWake, WorkerExit
  <2>2. CASE WorkerPredicate
    BY <1>t, <2>2 DEF WorkerPredicate
  <2>3. CASE WorkerTake \/ WorkerRun
    BY <1>t, <2>3 DEF WorkerTake, WorkerRun
  <2>4. QED  BY <1>2, <2>1, <2>2, <2>3 DEF worker_main
<1>3. ASSUME NEW t \in Threads, Dispatch(t) PROVE NeverPopsEmpty'
  <2>1. CASE Post(t)
    <3>1. g_queue' # <<>>  BY <1>t, <2>1, AppendProperties DEF Post, TypeOK
    <3>2. wpc' = wpc /\ wpc # "block" /\ dpc'[t] = "pushed"
      BY <1>t, <2>1 DEF Post, Shape, TypeOK
    <3>3. QED  BY <3>1, <3>2
  <2>2. CASE PostNotify(t)
    BY <1>t, <2>2 DEF PostNotify, Wake
  <2>3. CASE Return(t)
    <3>1. \A s \in Threads : dpc[s] = "pushed" => dpc'[s] = "pushed"
      BY <1>t, <2>3 DEF Return, TypeOK
    <3>2. QED  BY <1>t, <2>3, <3>1 DEF Return
  <2>4. QED  BY <1>3, <2>1, <2>2, <2>3 DEF Dispatch
<1>4. CASE UNCHANGED vars  BY <1>t, <1>4 DEF vars
<1>5. QED  BY <1>1, <1>2, <1>3, <1>4 DEF Next
-----------------------------------------------------------------------------
LEMMA InitIInv == Init => IInv
<1> SUFFICES ASSUME Init PROVE IInv  OBVIOUS
<1>1. TypeOK /\ Shape
  <2>1. g_queue \in Seq(Threads)  BY EmptySeq DEF Init
  <2>2. QED  BY <2>1, ThreadAssumption DEF Init, TypeOK, Shape
<1>2. Unfinished = <<>>  BY DEF Init, Unfinished
<1>3. DOMAIN <<>> = {}  BY LenProperties, EmptySeq
<1>4. CaptureIsLive /\ NoneForgotten /\ NeverPopsEmpty
  BY <1>2, <1>3 DEF Init, CaptureIsLive, NoneForgotten, NeverPopsEmpty
<1>5. QED  BY <1>1, <1>4 DEF IInv

(* The inductive invariant holds in every reachable state. *)
THEOREM Invariance == Spec => []IInv
<1>1. IInv /\ [Next]_vars => IInv'
  BY TypeStep, ShapeStep, CaptureStep, ForgottenStep, NeverPopsStep DEF IInv
<1>2. QED  BY InitIInv, <1>1, PTL DEF Spec

(* Every variable of the worker keeps its type (ares_worker.cpp:18-22). *)
THEOREM TypeCorrect == Spec => []TypeOK
<1>1. IInv => TypeOK  BY DEF IInv
<1>2. QED  BY <1>1, Invariance, PTL

(* A job that captured a stack frame by reference runs only while the      *)
(* frame's owner is blocked in dispatch, and runs at most once.            *)
THEOREM CapturesStayLive == Spec => []CaptureIsLive
<1>1. IInv => CaptureIsLive  BY DEF IInv
<1>2. QED  BY <1>1, Invariance, PTL

(* No caller of dispatch is left without a job that will answer it. *)
THEOREM NobodyForgotten == Spec => []NoneForgotten
<1>1. IInv => NoneForgotten  BY DEF IInv
<1>2. QED  BY <1>1, Invariance, PTL

(* worker_main never takes the front of an empty deque, and never sleeps   *)
(* over a job for which no notification is still to come.                  *)
THEOREM FrontIsThere == Spec => []NeverPopsEmpty
<1>1. IInv => NeverPopsEmpty  BY DEF IInv
<1>2. QED  BY <1>1, Invariance, PTL
-----------------------------------------------------------------------------
(* Refinement: one abstract Submit per Post, Serve per WorkerRun, Return   *)
(* per Return; every other step stutters.                                  *)

LEMMA InitRefines == Init => Executor!Init
<1> SUFFICES ASSUME Init PROVE Executor!Init  OBVIOUS
<1>1. Unfinished = <<>>  BY DEF Init, Unfinished
<1>2. QED  BY <1>1 DEF Init, Executor!Init

LEMMA StepRefines == ASSUME IInv, [Next]_vars PROVE [Executor!Next]_(Executor!vars)
<1> DEFINE status == [t \in Threads |-> IF dpc[t] = "idle" THEN "idle"
                                        ELSE IF fulfilled[t] THEN "served" ELSE "inside"]
<1>t. TypeOK /\ Shape /\ CaptureIsLive  BY DEF IInv
<1>1. CASE Quiet \/ WorkerTake
  <2>1. UNCHANGED <<Unfinished, dpc, fulfilled>>
    BY <1>1, <1>t, QuietStep, TakeKeeps DEF WorkerTake
  <2>2. QED  BY <2>1 DEF Executor!vars
<1>2. ASSUME NEW t \in Threads, Post(t) PROVE Executor!Submit(t)
  <2>1. Unfinished' = Append(Unfinished, t)  BY <1>t, <1>2, PostAppends
  <2>2. status[t] = "idle"  BY <1>2 DEF Post
  <2>3. status' = [status EXCEPT ![t] = "inside"]
    BY <1>t, <1>2 DEF Post, TypeOK
  <2>4. QED  BY <2>1, <2>2, <2>3 DEF Executor!Submit
<1>3. ASSUME NEW t \in Threads, PostNotify(t) PROVE UNCHANGED Executor!vars
  <2>1. Unfinished' = Unfinished  BY <1>3 DEF PostNotify, Unfinished
  <2>2. status' = status
    BY <1>t, <1>3 DEF PostNotify, TypeOK
  <2>3. QED  BY <2>1, <2>2 DEF Executor!vars
<1>4. ASSUME NEW t \in Threads, Return(t) PROVE Executor!Return(t)
  <2>1. Unfinished' = Unfinished  BY <1>4 DEF Return, Unfinished
  <2>2. status[t] = "served"  BY <1>4 DEF Return
  <2>3. status' = [status EXCEPT ![t] = "idle"]
    BY <1>t, <1>4 DEF Return, TypeOK
  <2>4. QED  BY <2>1, <2>2, <2>3 DEF Executor!Return
<1>5. CASE WorkerRun
  <2>1. Unfinished # <<>> /\ Head(Unfinished) = job /\ Unfinished' = Tail(Unfinished)
    BY <1>t, <1>5, RunDropsHead
  <2>2. job \in Threads /\ dpc[job] # "idle"
    <3>1. /\ Unfinished \in Seq(Threads) /\ Len(Unfinished) \in Nat
          /\ DOMAIN Unfinished = 1 .. Len(Unfinished)
      BY <1>t, UnfinishedType
    <3>2. 1 \in DOMAIN Unfinished /\ Unfinished[1] = job
      BY <2>1, <3>1, EmptySeq
    <3>3. QED  BY <1>t, <2>1, <3>1, <3>2, HeadTailProperties DEF CaptureIsLive
  <2>3. status' = [status EXCEPT ![job] = "served"]
    BY <1>t, <1>5, <2>2 DEF WorkerRun, TypeOK
  <2>4. QED  BY <2>1, <2>3 DEF Executor!Serve, Executor!Next
<1>6. QED
  BY <1>1, <1>2, <1>3, <1>4, <1>5
  DEF Next, worker_main, Dispatch, Quiet, Executor!Next

(* Callers of dispatch see the serial, first-come-first-served executor of *)
(* JobExecutor, whatever the threads and however they interleave with a    *)
(* start and a shutdown.                                                   *)
THEOREM Refinement == Spec => ImplementsExecutor
<1>1. Init => Executor!Init  BY InitRefines
<1>2. IInv /\ [Next]_vars => [Executor!Next]_(Executor!vars)  BY StepRefines
<1>3. QED  BY <1>1, <1>2, Invariance, PTL DEF Spec, ImplementsExecutor, Executor!Spec
=============================================================================
