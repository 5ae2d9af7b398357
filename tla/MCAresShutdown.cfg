\* shutdown() racing the worker's predicate: is it guaranteed to return?
CONSTANTS
    t1 = t1
    t2 = t2
    t3 = t3
    Threads <- MCThreads
    Worker = Worker
    NoOne = NoOne
SPECIFICATION FairSpec
PROPERTIES
    ShutdownReturns
CHECK_DEADLOCK FALSE
