\* Three calling threads, one start, one shutdown at any time.
CONSTANTS
    t1 = t1
    t2 = t2
    t3 = t3
    Threads <- MCThreads
    Worker = Worker
    NoOne = NoOne
SPECIFICATION FairSpec
INVARIANTS
    TypeOK
    CaptureIsLive
    NoneForgotten
    NeverPopsEmpty
PROPERTIES
    ImplementsExecutor
    EveryCallReturns
\* After shutdown every thread may be idle or waiting for a worker that is gone.
CHECK_DEADLOCK FALSE
