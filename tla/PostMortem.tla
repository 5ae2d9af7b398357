----------------------------- MODULE PostMortem -----------------------------
(***************************************************************************)
(* The reports the runner leaves behind: psr_post_mortem_dump in           *)
(* src/main/post_mortem.cpp, its three callers (the crash filter and the   *)
(* atexit handler of src/main/main.cpp, the debug server's command), and   *)
(* the debug server's dump_threads, which walks the same threads without   *)
(* taking g_dump_mutex.                                                    *)
(*                                                                         *)
(* Both walks suspend one thread at a time and allocate from the process   *)
(* heap (std::string, SymFromAddr) before they resume it; a suspended      *)
(* thread keeps every lock it holds, the heap's included.  A file holds    *)
(* the names of the dumps whose text is in it.                             *)
(***************************************************************************)
EXTENDS Integers

CONSTANTS Threads,
          Gfx,          \* runs the SDL event loop: SDL_QUIT makes it call std::exit
          Server,       \* the debug server's thread
          NoOne

ASSUME ProcessAssumption == {Gfx, Server} \subseteq Threads /\ NoOne \notin Threads

VARIABLES
    alive,          \* the process exists
    buildDir,       \* the directory of the hard-coded paths exists
    pc,             \* what each thread is doing
    reason,         \* why it dumps
    g_dump_mutex,   \* who holds it
    heap,           \* who holds the lock of the process heap
    left,           \* per thread: those its walk has not visited yet
    walking,        \* per thread: the thread it has suspended
    suspended,      \* suspend counts
    report,         \* last_run_report.json
    history,        \* last_run_input_history.json: the dump that wrote it
    missed          \* a history variable: the last dump that got as far could
                    \* not open last_run_input_history.json

vars == <<alive, buildDir, pc, reason, g_dump_mutex, heap, left, walking, suspended,
          report, history, missed>>

walk == <<left, walking, suspended>>
files == <<report, history, missed>>

Init ==
    /\ alive = TRUE
    /\ buildDir \in BOOLEAN
    /\ pc = [t \in Threads |-> "run"]
    /\ reason = [t \in Threads |-> "none"]
    /\ g_dump_mutex = NoOne
    /\ heap = NoOne
    /\ left = [t \in Threads |-> {}]
    /\ walking = [t \in Threads |-> NoOne]
    /\ suspended = [t \in Threads |-> 0]
    /\ report = [by |-> {}, closed |-> TRUE]
    /\ history = NoOne
    /\ missed = FALSE

CanStep(t) == alive /\ suspended[t] = 0

At(t, here) == CanStep(t) /\ pc[t] = here

Goto(t, there) == pc' = [pc EXCEPT ![t] = there]
-----------------------------------------------------------------------------
(* A thread's own work, now and then inside the allocator.                 *)

Allocate(t) ==
    /\ At(t, "run")
    /\ heap = NoOne
    /\ heap' = t
    /\ Goto(t, "heap")
    /\ UNCHANGED <<alive, buildDir, reason, g_dump_mutex, walk, files>>

Allocated(t) ==
    /\ At(t, "heap")
    /\ heap' = NoOne
    /\ Goto(t, "run")
    /\ UNCHANGED <<alive, buildDir, reason, g_dump_mutex, walk, files>>
-----------------------------------------------------------------------------
(* The callers of psr_post_mortem_dump.                                    *)

Call(t, why) ==
    /\ Goto(t, "lock")
    /\ reason' = [reason EXCEPT ![t] = why]
    /\ UNCHANGED <<alive, buildDir, g_dump_mutex, heap, walk, files>>

(* psr_crash_filter: an unhandled exception, wherever the thread was.      *)
Fault(t) ==
    /\ At(t, "run") \/ At(t, "heap")
    /\ Call(t, "seh")

(* SDL_QUIT, or main returning: std::exit runs the atexit handler. *)
Exit ==
    /\ At(Gfx, "run")
    /\ Call(Gfx, "atexit")

(* The debug server's post_mortem_dump command. *)
DumpCommand ==
    /\ At(Server, "run")
    /\ Call(Server, "tcp")

(* quit: ExitProcess, which runs no atexit handler. *)
Quit ==
    /\ At(Server, "run")
    /\ alive' = FALSE
    /\ UNCHANGED <<buildDir, pc, reason, g_dump_mutex, heap, walk, files>>

(* dump_threads, which only needs last_error.log to open.                  *)
DumpThreads ==
    /\ At(Server, "run")
    /\ buildDir
    /\ reason' = [reason EXCEPT ![Server] = "threads"]
    /\ left' = [left EXCEPT ![Server] = Threads \ {Server}]
    /\ Goto(Server, "walk")
    /\ UNCHANGED <<alive, buildDir, g_dump_mutex, heap, walking, suspended, files>>
-----------------------------------------------------------------------------
(* psr_post_mortem_dump.                                                   *)

(* As below, a definition right before the one it resembles is that one    *)
(* with a bug, which the runs must notice.                                 *)
LockNothing(t) ==
    /\ At(t, "lock")
    /\ g_dump_mutex' = t
    /\ Goto(t, "open")
    /\ UNCHANGED <<alive, buildDir, reason, heap, walk, files>>

Lock(t) ==
    /\ At(t, "lock")
    /\ g_dump_mutex = NoOne
    /\ g_dump_mutex' = t
    /\ Goto(t, "open")
    /\ UNCHANGED <<alive, buildDir, reason, heap, walk, files>>

(* fopen(..., "w") truncates the report, or fails and the dump is over.    *)
Open(t) ==
    /\ At(t, "open")
    /\ \/ /\ buildDir
          /\ report' = [by |-> {t}, closed |-> FALSE]
          /\ Goto(t, "write")
       \/ /\ report' = report
          /\ Goto(t, "unlock")
    /\ UNCHANGED <<alive, buildDir, reason, g_dump_mutex, heap, walk, history, missed>>

(* Every section up to the threads. *)
Write(t) ==
    /\ At(t, "write")
    /\ report' = [report EXCEPT !.by = @ \cup {t}]
    /\ left' = [left EXCEPT ![t] = Threads \ {t}]
    /\ Goto(t, "walk")
    /\ UNCHANGED <<alive, buildDir, reason, g_dump_mutex, heap, walking, suspended, history, missed>>

(* The walk goes on to a thread, and suspends it or cannot.                *)
Suspend(t) ==
    /\ At(t, "walk")
    /\ \E u \in left[t] :
          /\ left' = [left EXCEPT ![t] = @ \ {u}]
          /\ \/ /\ walking' = [walking EXCEPT ![t] = u]
                /\ suspended' = [suspended EXCEPT ![u] = @ + 1]
                /\ Goto(t, "frames")
             \/ UNCHANGED <<walking, suspended, pc>>
    /\ UNCHANGED <<alive, buildDir, reason, g_dump_mutex, heap, files>>

Resume(t) ==
    /\ suspended' = [suspended EXCEPT ![walking[t]] = @ - 1]
    /\ walking' = [walking EXCEPT ![t] = NoOne]
    /\ Goto(t, "walk")

LeaveSuspended(t) ==
    /\ At(t, "frames")
    /\ walking' = [walking EXCEPT ![t] = NoOne]
    /\ Goto(t, "walk")
    /\ UNCHANGED <<alive, buildDir, reason, g_dump_mutex, heap, left, suspended, files>>

ResumeTwice(t) ==
    /\ At(t, "frames")
    /\ suspended' = [suspended EXCEPT ![walking[t]] = @ - 2]
    /\ walking' = [walking EXCEPT ![t] = NoOne]
    /\ Goto(t, "walk")
    /\ UNCHANGED <<alive, buildDir, reason, g_dump_mutex, heap, left, files>>

(* GetThreadContext fails: the thread is resumed and left out. *)
NoContext(t) ==
    /\ At(t, "frames")
    /\ Resume(t)
    /\ UNCHANGED <<alive, buildDir, reason, g_dump_mutex, heap, left, files>>

(* Its frames are written, which allocates, and it is resumed.             *)
Frames(t) ==
    /\ At(t, "frames")
    /\ heap \in {NoOne, t}
    /\ report' = IF reason[t] = "threads" THEN report
                 ELSE [report EXCEPT !.by = @ \cup {t}]
    /\ Resume(t)
    /\ UNCHANGED <<alive, buildDir, reason, g_dump_mutex, heap, left, history, missed>>

WalkedAndUnlocked(t) ==
    /\ At(t, "walk")
    /\ left[t] = {}
    /\ IF reason[t] = "threads"
       THEN Goto(t, "run") /\ UNCHANGED <<report, g_dump_mutex>>
       ELSE /\ Goto(t, "history")
            /\ report' = [by |-> report.by \cup {t}, closed |-> TRUE]
            /\ g_dump_mutex' = NoOne
    /\ UNCHANGED <<alive, buildDir, reason, heap, walk, history, missed>>

(* Every thread visited: dump_threads replies, a dump closes its report.   *)
Walked(t) ==
    /\ At(t, "walk")
    /\ left[t] = {}
    /\ IF reason[t] = "threads"
       THEN Goto(t, "run") /\ report' = report
       ELSE Goto(t, "history") /\ report' = [by |-> report.by \cup {t}, closed |-> TRUE]
    /\ UNCHANGED <<alive, buildDir, reason, g_dump_mutex, heap, walk, history, missed>>

(* psr_dump_input_history_json, still under g_dump_mutex: it opens a file   *)
(* of its own, and returns without a word when it cannot.                  *)
History(t) ==
    /\ At(t, "history")
    /\ missed' \in BOOLEAN
    /\ history' = IF missed' THEN history ELSE t
    /\ Goto(t, "unlock")
    /\ UNCHANGED <<alive, buildDir, reason, g_dump_mutex, heap, walk, report>>

(* The lock_guard goes; a dump of the debug server's is over. *)
Unlock(t) ==
    /\ At(t, "unlock")
    /\ g_dump_mutex' = NoOne
    /\ Goto(t, IF reason[t] = "tcp" THEN "run" ELSE "end")
    /\ UNCHANGED <<alive, buildDir, reason, heap, walk, files>>

(* The crash filter's or std::exit's thread ends the process. *)
End(t) ==
    /\ At(t, "end")
    /\ alive' = FALSE
    /\ UNCHANGED <<buildDir, pc, reason, g_dump_mutex, heap, walk, files>>
-----------------------------------------------------------------------------
Dump(t) ==
    \/ Lock(t) \/ Open(t) \/ Write(t)
    \/ Suspend(t) \/ NoContext(t) \/ Frames(t) \/ Walked(t)
    \/ History(t) \/ Unlock(t) \/ End(t)

Next ==
    \/ Exit \/ DumpCommand \/ DumpThreads \/ Quit
    \/ \E t \in Threads : Allocate(t) \/ Allocated(t) \/ Fault(t) \/ Dump(t)

Spec == Init /\ [][Next]_vars

(* Every thread that is not suspended runs; nobody has to fault, exit or   *)
(* send a command.  GetThreadContext need not fail.                        *)
Fairness ==
    \A t \in Threads :
        /\ WF_vars(Allocated(t))
        /\ SF_vars(Lock(t))
        /\ WF_vars(Open(t) \/ Write(t) \/ Suspend(t) \/ Frames(t) \/ Walked(t)
                   \/ History(t) \/ Unlock(t) \/ End(t))

FairSpec == Spec /\ Fairness
-----------------------------------------------------------------------------
TypeOK ==
    /\ {alive, buildDir, missed} \subseteq BOOLEAN
    /\ pc \in [Threads -> {"run", "heap", "lock", "open", "write", "walk", "frames",
                           "history", "unlock", "end"}]
    /\ reason \in [Threads -> {"none", "seh", "atexit", "tcp", "threads"}]
    /\ {g_dump_mutex, heap, history} \subseteq Threads \cup {NoOne}
    /\ left \in [Threads -> SUBSET Threads]
    /\ walking \in [Threads -> Threads \cup {NoOne}]
    /\ suspended \in [Threads -> Nat]
    /\ report \in [by : SUBSET Threads, closed : BOOLEAN]

(* The report only ever holds the text of one dump, and between dumps it   *)
(* is complete, whichever of the three callers were waiting for the lock.  *)
ReportIsWhole ==
    /\ \E t \in Threads : report.by \subseteq {t}
    /\ g_dump_mutex = NoOne => report.closed

(* Between dumps the two files come from the same dump, so the history is  *)
(* the one that led to the report, unless the report's own dump could not  *)
(* open the history file: no other dump writes to either in between.       *)
HistoryMatchesReport ==
    g_dump_mutex = NoOne /\ report.by # {} => report.by = {history} \/ missed

(* Nobody stays suspended when no walk has it in hand, although a walk may *)
(* skip a thread, fail to read its context, and run beside another walk.   *)
EveryoneResumed ==
    \A u \in Threads : suspended[u] > 0 => \E t \in Threads : walking[t] = u

(* The thread that writes the report is suspended by dump_threads only:    *)
(* two reports never walk at the same time.                                *)
WriterStoppedByServerOnly ==
    g_dump_mutex # NoOne /\ suspended[g_dump_mutex] > 0 =>
        /\ walking[Server] = g_dump_mutex
        /\ reason[Server] = "threads"

(* src/main/post_mortem.hpp:5-10: a dump may be called from a crash, from  *)
(* atexit and from TCP, "mutex-guarded; concurrent calls serialize": each  *)
(* finishes in the end.                                                    *)
DumpFinishes ==
    \A t \in Threads :
        (alive /\ pc[t] = "lock") ~> (~alive \/ pc[t] \in {"run", "end"})
=============================================================================
