SPECIFICATION Spec
CONSTANTS
    PVoices = {v1, v2}
    AuxSources = {v1}
    Feeders = {h1}
    PoolSize = 3
    MaxAllocs = 3
    MaxPushes = 2
    NoBank = NoBank
INVARIANTS
    TypeOK
    PlayingBanksAreLive
PROPERTIES
    KeepsOthersPlaying
