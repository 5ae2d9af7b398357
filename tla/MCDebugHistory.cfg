\* A dump taken between a store and the record of the same command.
CONSTANTS
    A = A
    B = B
    Buttons <- MCButtons
    StickPositions <- MCSticks
    INPUT_HISTORY_CAP = 2
    Devices <- MCDevices
    MaxCommands = 3
SPECIFICATION Spec
INVARIANTS
    DumpExplainsInput
