\* Every caller, with the thread walk that takes no lock beside them.
CONSTANTS
    G = G
    S = S
    T = T
    Threads <- MCThreads
    Gfx <- G
    Server <- S
    NoOne = NoOne
SPECIFICATION Spec
INVARIANTS
    TypeOK
    ReportIsWhole
    HistoryMatchesReport
    EveryoneResumed
    WriterStoppedByServerOnly
\* The process ends.
CHECK_DEADLOCK FALSE
