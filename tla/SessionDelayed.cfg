SPECIFICATION Spec
CONSTANTS
    Modes <- AllModes
    StartupTimeout = 2
    Prefill = 1
    Warmup = 1
    Duration = 5
    Window = 2
    SubscribeAfter = 4
    BatchTimeout = 1
    MaxLate = 1
INVARIANT DelayedSnapshotTaken
