---------------------------- MODULE JobExecutor ----------------------------
(***************************************************************************)
(* What dispatch() of include/ares_worker.h promises its callers: "posts   *)
(* fn, blocks until it returns".  Jobs are served one at a time and in the *)
(* order in which they were submitted; a caller gets control back only     *)
(* after its own job has been served, and each job is served once.  The    *)
(* worker thread, its mutex and its condition variable do not appear here. *)
(***************************************************************************)
EXTENDS Naturals, Sequences

CONSTANT Threads            \* the threads that may call dispatch

VARIABLES
    pending,    \* the callers whose jobs are not served yet, oldest first
    call        \* per thread: "idle", "inside" dispatch, or "served"

vars == <<pending, call>>

Init ==
    /\ pending = <<>>
    /\ call = [t \in Threads |-> "idle"]

(* A thread enters dispatch: from now on its job has a place in the order. *)
Submit(t) ==
    /\ call[t] = "idle"
    /\ pending' = Append(pending, t)
    /\ call' = [call EXCEPT ![t] = "inside"]

(* The oldest job is served. *)
Serve ==
    /\ pending # <<>>
    /\ pending' = Tail(pending)
    /\ call' = [call EXCEPT ![Head(pending)] = "served"]

(* dispatch returns to its caller. *)
Return(t) ==
    /\ call[t] = "served"
    /\ call' = [call EXCEPT ![t] = "idle"]
    /\ UNCHANGED pending

Next ==
    \/ Serve
    \/ \E t \in Threads : Submit(t) \/ Return(t)

Spec == Init /\ [][Next]_vars
=============================================================================
