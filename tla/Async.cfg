SPECIFICATION SpecAny
CONSTANTS
    Buckets <- TwoBuckets
    Syncers <- AllSyncers
    Own = Own
    Unset = Unset
    WireCap = 1
    MaxUpdates = 3
    Chunks = 2
    StoreSize = 2
    Threshold = 1
    MinOnPolicies = {0, 1}
    MaxInFlight = 1
    Window = 2
    CacheSizes = {0, 1}
    Lengths = {1, 2}
    MinSize = 1
    None = None
    MaxMade = 3
    MaxStarts = 3
    MaxSaves = 2
    UpdateEpochs = 1
    Configs <- Jobs
    Actors = {1, 2}
    Settings <- OneOfTwo
CHECK_DEADLOCK FALSE
INVARIANTS
    BatchIsFresh
    ReuseBounded
    WeightsMatchLabel
    SyncsPaired
    SamplesAreTrue
    CheckpointLoads
    OwnActions
    WholeBatch
    UpdatesOwnBatch
    CollectivesAgree
PROPERTY TrainingEnds
