SPECIFICATION Spec
CONSTANTS
    Expected <- PairExpected
    BatchTimeout = 1
    MaxSequence = 8
    Symbol = {"A"}
    Callbacks <- StreamCallbacks
    MaxTime = 3
    MaxCallbacks = 4
INVARIANT ExpiredIncompleteNotSampled
