SPECIFICATION FairSpec
CONSTANTS
    ibm = ibm
    msft = msft
    Symbol = {ibm, msft}
    Batch <- SomeBatch
    HistoryLimit = 2
    Modes = {TRUE, FALSE}
    MaxTime = 2
    MaxRecords = 3
    MaxCallback = 2
INVARIANTS
    CompleteSnapshotHasAll
    NoHoles
    ExactCutover
PROPERTIES
    RequestAnswered
