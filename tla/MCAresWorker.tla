---------------------------- MODULE MCAresWorker ----------------------------
(* Three callers: one queued behind another while a third is answered.     *)
EXTENDS AresWorker

CONSTANTS t1, t2, t3

MCThreads == {t1, t2, t3}
=============================================================================
