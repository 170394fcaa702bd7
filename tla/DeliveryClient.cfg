SPECIFICATION FairSpec
CONSTANTS
    t1 = t1
    t2 = t2
    Client = {"graal", "legacy"}
    Thread = {t1, t2}
    Kinds <- TwoKinds
    MarketBatch <- SmallBatches
    DataCount <- SmallCounts
    SymbolCount = 1
    RequireEvents = TRUE
    MaxCallbacks = 3
INVARIANTS
    MaximumIsLargest
    RowCountsMeasurement
    ZeroMeansMeasured
PROPERTY ClientEnds
