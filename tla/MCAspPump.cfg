\* Three tasks one after the other, lists of up to seven commands, chunks of three.
CONSTANTS
    Chunk = 3
    MaxSize = 7
    MaxTasks = 3
    MaxOffset = 5
SPECIFICATION FairSpec
INVARIANTS
    TypeOK
    InOrder
PROPERTIES
    WholeList
    PumpStaysInList
    TaskEnds
\* After the last task.
CHECK_DEADLOCK FALSE
