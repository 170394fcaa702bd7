SPECIFICATION FairSpec
CONSTANTS
    a = a
    b = b
    junk = junk
    s = s
    Text = {a, b, junk}
    Task = {a, b}
    NoText = NoText
    Kind = {"QUOTE"}
    Symbol = {s}
    Required <- RequiredOfTwo
    Update <- OneSymbol
    Period = 2
    SpinWindow = 1
    MaxSequence = 3
    MaxQueue = 2
    MaxLate = 3
INVARIANTS
    NoLostWakeup
    OneTaskAtATime
    NoReadyTaskWaits
    GridKept
PROPERTIES
    NoBurst
    BatchesContiguous
    ImplementsLifecycle
    StopObeyed
    ShutdownJoins
    KeepsPublishing
