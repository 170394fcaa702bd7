SPECIFICATION Spec
CONSTANTS
    Series = {"Trade:A", "Trade:B"}
    Milli = 2
    Period = 2
    SourceTimes = {0, 1, 2}
    MaxTime = 9
    MaxLate = 1
    MaxTrades = 3
    MaxDrops = 2
INVARIANTS
    MethodsNested
    DroppedInMeasurement
CONSTRAINT Reduced
