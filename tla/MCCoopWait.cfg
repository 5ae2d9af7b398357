\* Both waits, two tasks outstanding, interrupts for three of the threads.
CONSTANTS
    G = G
    S = S
    High = High
    Mid = Mid
    Threads <- MCThreads
    Game <- G
    AudioScheduler <- S
    BasePri <- MCBasePri
    NoOne = NoOne
    MaxTasks = 2
SPECIFICATION FairSpec
INVARIANTS
    TypeOK
    PriorityIsBack
PROPERTIES
    GivesWayOnlyInWaits
    ComesLastInWaits
    WaitEnds
\* Every thread may be blocked with no interrupt to come.
CHECK_DEADLOCK FALSE
