SPECIFICATION Spec
CONSTANTS
    a = a
    b = b
    junk = junk
    s = s
    Text = {a, b}
    Task = {a, b}
    NoText = NoText
    Kind = {"QUOTE", "TIME_AND_SALE"}
    Symbol = {s}
    Required <- RequiredOfTwo
    Update <- OneSymbol
    Period = 2
    SpinWindow = 1
    MaxSequence = 3
    MaxQueue = 2
    MaxLate = 2
INVARIANTS
    EventFieldsIdentifyBatch
