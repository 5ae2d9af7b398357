----------------------------- MODULE AresWorker -----------------------------
(***************************************************************************)
(* src/main/ares_worker.cpp and the dispatch template of                   *)
(* include/ares_worker.h: one thread owns the Ares emulator and every      *)
(* other thread reaches it by posting a job and blocking on its future.    *)
(*                                                                         *)
(* A job is named by the thread that posted it: dispatch blocks, so a      *)
(* thread has at most one, and the job captures the caller's stack frame   *)
(* (the promise, and the request line) by reference.                       *)
(*                                                                         *)
(* Granularity: a step ends where another thread can see the difference.   *)
(* g_running is an atomic that shutdown() writes WITHOUT g_mutex, so the   *)
(* worker's predicate, its blocking and its second read of g_running are   *)
(* steps of their own although they all happen under the mutex.            *)
(***************************************************************************)
EXTENDS Naturals, Sequences

CONSTANTS Threads,          \* the threads that may call dispatch
          Worker,           \* g_thread
          NoOne             \* holder of a free mutex; the job of an idle worker

ASSUME ThreadAssumption ==
    /\ Worker \notin Threads
    /\ NoOne \notin Threads \cup {Worker}

VARIABLES
    g_running,      \* the atomic flag
    g_queue,        \* the deque of jobs, front first
    g_mutex,        \* who holds it
    wpc,            \* where the worker is in worker_main
    job,            \* the worker's local: the job it has taken
    dpc,            \* where each thread is in dispatch
    fulfilled,      \* per thread: its promise has a value
    lpc             \* where the owner of the lifecycle is: start and shutdown

vars == <<g_running, g_queue, g_mutex, wpc, job, dpc, fulfilled, lpc>>

Init ==
    /\ g_running = FALSE
    /\ g_queue = <<>>
    /\ g_mutex = NoOne
    /\ wpc = "unborn"
    /\ job = NoOne
    /\ dpc = [t \in Threads |-> "idle"]
    /\ fulfilled = [t \in Threads |-> FALSE]
    /\ lpc = "new"
-----------------------------------------------------------------------------
(* The lifecycle.                                                          *)

(* start(): exchange g_running and spawn the thread; a start() after a     *)
(* shutdown() spawns a new one, and one while the worker is up does nothing. *)
Start ==
    /\ lpc \in {"new", "down"}
    /\ lpc' = "up"
    /\ g_running' = TRUE
    /\ wpc' = "loop"
    /\ UNCHANGED <<g_queue, g_mutex, job, dpc, fulfilled>>

(* shutdown(), first statement: the store, with no lock held. *)
ShutdownStore ==
    /\ lpc = "up"
    /\ lpc' = "stored"
    /\ g_running' = FALSE
    /\ UNCHANGED <<g_queue, g_mutex, wpc, job, dpc, fulfilled>>

(* A notification reaches the worker only if it is blocked in wait(); the  *)
(* worker then goes back to take the mutex.                                *)
Wake == wpc' = IF wpc = "blocked" THEN "relock" ELSE wpc

(* shutdown(), second statement. *)
ShutdownNotify ==
    /\ lpc = "stored"
    /\ lpc' = "joining"
    /\ Wake
    /\ UNCHANGED <<g_running, g_queue, g_mutex, job, dpc, fulfilled>>

(* shutdown(), join() returns. *)
ShutdownJoin ==
    /\ lpc = "joining"
    /\ wpc = "exited"
    /\ lpc' = "down"
    /\ UNCHANGED <<g_running, g_queue, g_mutex, wpc, job, dpc, fulfilled>>
-----------------------------------------------------------------------------
(* dispatch(fn) and post_job, run by thread t.                             *)

(* Variants with a bug, here and below, each before the action it is a     *)
(* variant of: the runs must notice them.  Nothing else uses them.         *)
PostAtFront(t) ==
    /\ dpc[t] = "idle"
    /\ g_mutex = NoOne
    /\ g_queue' = <<t>> \o g_queue
    /\ fulfilled' = [fulfilled EXCEPT ![t] = FALSE]
    /\ dpc' = [dpc EXCEPT ![t] = "pushed"]
    /\ UNCHANGED <<g_running, g_mutex, wpc, job, lpc>>

PostKeepsLock(t) ==
    /\ dpc[t] = "idle"
    /\ g_mutex = NoOne
    /\ g_queue' = Append(g_queue, t)
    /\ fulfilled' = [fulfilled EXCEPT ![t] = FALSE]
    /\ dpc' = [dpc EXCEPT ![t] = "pushed"]
    /\ g_mutex' = t
    /\ UNCHANGED <<g_running, wpc, job, lpc>>

(* A new promise; lock, push_back, unlock.  The lock_guard's body touches  *)
(* nothing else that is shared, so the three are one step.                 *)
Post(t) ==
    /\ dpc[t] = "idle"
    /\ g_mutex = NoOne
    /\ g_queue' = Append(g_queue, t)
    /\ fulfilled' = [fulfilled EXCEPT ![t] = FALSE]
    /\ dpc' = [dpc EXCEPT ![t] = "pushed"]
    /\ UNCHANGED <<g_running, g_mutex, wpc, job, lpc>>

(* g_cv.notify_one(), after the unlock. *)
PostNotify(t) ==
    /\ dpc[t] = "pushed"
    /\ dpc' = [dpc EXCEPT ![t] = "waiting"]
    /\ Wake
    /\ UNCHANGED <<g_running, g_queue, g_mutex, job, fulfilled, lpc>>

ReturnAtOnce(t) ==
    /\ dpc[t] = "waiting"
    /\ dpc' = [dpc EXCEPT ![t] = "idle"]
    /\ UNCHANGED <<g_running, g_queue, g_mutex, wpc, job, fulfilled, lpc>>

(* fut.get() returns once the promise has a value. *)
Return(t) ==
    /\ dpc[t] = "waiting"
    /\ fulfilled[t]
    /\ dpc' = [dpc EXCEPT ![t] = "idle"]
    /\ UNCHANGED <<g_running, g_queue, g_mutex, wpc, job, fulfilled, lpc>>
-----------------------------------------------------------------------------
(* worker_main.                                                            *)

WaitWithoutPredicate ==
    /\ wpc \in {"loop", "relock"}
    /\ g_mutex = NoOne
    /\ g_mutex' = Worker
    /\ wpc' = IF wpc = "relock" THEN "ready" ELSE "pred"
    /\ UNCHANGED <<g_running, g_queue, job, dpc, fulfilled, lpc>>

(* Take the mutex: at the top of the loop, or on the way out of wait(). *)
WorkerLock ==
    /\ wpc \in {"loop", "relock"}
    /\ g_mutex = NoOne
    /\ g_mutex' = Worker
    /\ wpc' = "pred"
    /\ UNCHANGED <<g_running, g_queue, job, dpc, fulfilled, lpc>>

(* wait()'s predicate, evaluated under the mutex. *)
WorkerPredicate ==
    /\ wpc = "pred"
    /\ wpc' = IF g_queue # <<>> \/ ~g_running THEN "ready" ELSE "block"
    /\ UNCHANGED <<g_running, g_queue, g_mutex, job, dpc, fulfilled, lpc>>

(* The predicate was false: release the mutex and block, atomically. *)
WorkerBlock ==
    /\ wpc = "block"
    /\ g_mutex' = NoOne
    /\ wpc' = "blocked"
    /\ UNCHANGED <<g_running, g_queue, job, dpc, fulfilled, lpc>>

(* A condition variable may wake its waiter for no reason. *)
SpuriousWake ==
    /\ wpc = "blocked"
    /\ wpc' = "relock"
    /\ UNCHANGED <<g_running, g_queue, g_mutex, job, dpc, fulfilled, lpc>>

ExitWithoutDraining ==
    /\ wpc = "ready"
    /\ ~g_running
    /\ g_mutex' = NoOne
    /\ wpc' = "exited"
    /\ UNCHANGED <<g_running, g_queue, job, dpc, fulfilled, lpc>>

(* The second read of g_running: leave the loop only with nothing queued. *)
WorkerExit ==
    /\ wpc = "ready"
    /\ ~g_running
    /\ g_queue = <<>>
    /\ g_mutex' = NoOne
    /\ wpc' = "exited"
    /\ UNCHANGED <<g_running, g_queue, job, dpc, fulfilled, lpc>>

TakeFrontPopBack ==
    /\ wpc = "ready"
    /\ g_queue # <<>>
    /\ job' = Head(g_queue)
    /\ g_queue' = SubSeq(g_queue, 1, Len(g_queue) - 1)
    /\ g_mutex' = NoOne
    /\ wpc' = "run"
    /\ UNCHANGED <<g_running, dpc, fulfilled, lpc>>

(* Move the front out of the queue, pop it, unlock. *)
WorkerTake ==
    /\ wpc = "ready"
    /\ g_queue # <<>>
    /\ job' = Head(g_queue)
    /\ g_queue' = Tail(g_queue)
    /\ g_mutex' = NoOne
    /\ wpc' = "run"
    /\ UNCHANGED <<g_running, dpc, fulfilled, lpc>>

(* job(): fn runs and the promise it captured is given its value. *)
WorkerRun ==
    /\ wpc = "run"
    /\ fulfilled' = [fulfilled EXCEPT ![job] = TRUE]
    /\ job' = NoOne
    /\ wpc' = "loop"
    /\ UNCHANGED <<g_running, g_queue, g_mutex, dpc, lpc>>
-----------------------------------------------------------------------------
Lifecycle == Start \/ ShutdownStore \/ ShutdownNotify \/ ShutdownJoin

Dispatch(t) == Post(t) \/ PostNotify(t) \/ Return(t)

worker_main ==
    \/ WorkerLock \/ WorkerPredicate \/ WorkerBlock \/ SpuriousWake
    \/ WorkerExit \/ WorkerTake \/ WorkerRun

Next ==
    \/ Lifecycle
    \/ worker_main
    \/ \E t \in Threads : Dispatch(t)

Spec == Init /\ [][Next]_vars

(* The operating system schedules every thread that can run: the worker,   *)
(* a caller past its push, and a shutdown() that has begun.  Nobody has to *)
(* call dispatch or shutdown or start again, and no spurious wake-up is owed. *)
Fairness ==
    /\ WF_vars(lpc = "new" /\ Start)
    /\ WF_vars(ShutdownNotify)
    /\ WF_vars(ShutdownJoin)
    /\ WF_vars(WorkerLock)
    /\ WF_vars(WorkerPredicate \/ WorkerBlock \/ WorkerExit \/ WorkerTake \/ WorkerRun)
    /\ \A t \in Threads : WF_vars(PostNotify(t) \/ Return(t))

FairSpec == Spec /\ Fairness
-----------------------------------------------------------------------------
TypeOK ==
    /\ g_running \in BOOLEAN
    /\ g_queue \in Seq(Threads)
    /\ g_mutex \in {NoOne, Worker}
    /\ wpc \in {"unborn", "loop", "relock", "pred", "ready", "block", "blocked",
               "run", "exited"}
    /\ job \in Threads \cup {NoOne}
    /\ dpc \in [Threads -> {"idle", "pushed", "waiting"}]
    /\ fulfilled \in [Threads -> BOOLEAN]
    /\ lpc \in {"new", "up", "stored", "joining", "down"}

(* The jobs not finished yet, in the order they will run: the one the      *)
(* worker holds, then the queue.                                           *)
Unfinished == IF job = NoOne THEN g_queue ELSE <<job>> \o g_queue

(* A job captures its caller's stack frame by reference.  Every job the    *)
(* worker holds or will take belongs to a caller that is still inside      *)
(* dispatch and has not been answered, and no job is there twice.          *)
CaptureIsLive ==
    /\ \A i \in DOMAIN Unfinished :
          /\ dpc[Unfinished[i]] # "idle"
          /\ ~fulfilled[Unfinished[i]]
    /\ \A i, j \in DOMAIN Unfinished : Unfinished[i] = Unfinished[j] => i = j

(* Conversely no caller is forgotten: one that is inside dispatch and not  *)
(* answered has its job in the worker's hands or in the queue.             *)
NoneForgotten ==
    \A t \in Threads :
        dpc[t] # "idle" /\ ~fulfilled[t] =>
            \E i \in DOMAIN Unfinished : Unfinished[i] = t

(* The worker takes the front of the queue only when there is one: the     *)
(* second read of g_running never disagrees with the predicate that let it *)
(* through, and while it blocks with a job queued a notification is owed.  *)
NeverPopsEmpty ==
    /\ wpc = "ready" => g_queue # <<>> \/ ~g_running
    /\ wpc = "block" => g_queue = <<>>
    /\ wpc = "blocked" /\ g_queue # <<>> => \E t \in Threads : dpc[t] = "pushed"

(* dispatch is the serial, first-come-first-served executor its header     *)
(* promises.                                                               *)
Executor == INSTANCE JobExecutor
    WITH pending <- Unfinished,
         call <- [t \in Threads |-> IF dpc[t] = "idle" THEN "idle"
                                    ELSE IF fulfilled[t] THEN "served" ELSE "inside"]

ImplementsExecutor == Executor!Spec

(* Every call made while the worker has not left worker_main returns, also *)
(* when shutdown() is under way: the loop drains the queue before it ends. *)
EveryCallReturns ==
    \A t \in Threads :
        (dpc[t] = "waiting" /\ wpc \notin {"unborn", "exited"}) ~> (dpc[t] = "idle")

(* include/ares_worker.h:23, "stops the worker thread cleanly": shutdown() *)
(* returns, unless some thread still posts a job after the store: nobody   *)
(* is asked to keep the queue from draining.                               *)
ShutdownReturns ==
    (lpc = "stored") ~> (lpc = "down" \/ \E t \in Threads : dpc[t] = "pushed")
=============================================================================
