SPECIFICATION PipelineSpec
CONSTANTS
    Expected <- QuoteAndTrade
    BatchTimeout = 0
    MaxSequence = 8
    Symbol = {0}
    Callbacks <- AnyList
    MaxTime = 2
    MaxCallbacks = 4
    PoolOrder <- Alternating
    MaxPublications = 2
    MaxFaults = 1
    MaxSkew = 1
INVARIANTS
    DeliveryConservation
    PublicationsClassified
    SampleConservation
    WarmupExcluded
    RowsAddUp
    CleanRunExact
    PassedRunExact
ACTION_CONSTRAINT Reduced
