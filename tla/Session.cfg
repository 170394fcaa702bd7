SPECIFICATION FairSpec
CONSTANTS
    Modes <- AllModes
    StartupTimeout = 2
    Prefill = 1
    Warmup = 1
    Duration = 5
    Window = 2
    SubscribeAfter = 2
    BatchTimeout = 1
    MaxLate = 2
INVARIANTS
    RowsTile
    DuringIsSnapshot
    ZeroMeansMeasured
PROPERTY SessionEnds
