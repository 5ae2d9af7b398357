\* Does a dump that was called finish?
CONSTANTS
    G = G
    S = S
    T = T
    Threads <- MCThreads
    Gfx <- G
    Server <- S
    NoOne = NoOne
SPECIFICATION FairSpec
PROPERTIES
    DumpFinishes
CHECK_DEADLOCK FALSE
