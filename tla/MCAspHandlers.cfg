SPECIFICATION Spec
CONSTANTS
    v1 = v1
    v2 = v2
    Voices <- MCVoices
    Lanes = 4
    Vectors = 3
    TempSize = 48
    Taps = 2
    Phases = 5
    Filter <- MCFilter
    Coefficients <- MCCoefficients
    Rom <- MCRom
    LoopStart <- MCLoopStart
    Pitches <- MCPitches
    Ramp <- MCRamp
    Fade <- MCFade
    Restarts <- MCRestarts
    Gain = 3
    Half = 2
    Asides <- MCAsides
    AsideTasks <- MCAsideTasks
    MaxTasks = 3
INVARIANTS
    TypeOK
    OutputIsTheMix
    DecoderKeepsPlace
    ResamplerKeepsPlace
    VolumesKeepPlace
CHECK_DEADLOCK FALSE
