\* The safety of the controls: three commands through a ring of two slots.
CONSTANTS
    A = A
    B = B
    Buttons <- MCButtons
    StickPositions <- MCSticks
    INPUT_HISTORY_CAP = 2
    Devices <- MCDevices
    MaxCommands = 3
SPECIFICATION Spec
INVARIANTS
    TypeOK
    DisarmedIsNeutral
    PollIsCurrent
    DumpIsLatest
    DumpReplays
PROPERTIES
    HeldReachesGame
