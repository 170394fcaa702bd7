SPECIFICATION FairSpec
CONSTANTS
    Profile <- AnyProfile
    Profiles <- Two
    Repetitions = 1
    MaxSize = 60
    MaxMillis = 3600000
    Attempts = 2
INVARIANTS
    NoProcessLeft
    SignalsOwnChild
    ManifestAgrees
    AnalyzedArePassed
    ZeroMeansPassed
    AllRunsRecorded
    RotationBalanced
    TaskTextRoundTrip
PROPERTIES
    InterruptEnds
