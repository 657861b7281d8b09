\* The calls are limited in number and workers need not ask for their devices again, so every
\* behaviour may stop; that it does not stop too early is what the temporal properties say.
SPECIFICATION WorkerSpec
CONSTANTS
    None = None
    p = p
    c = c
    MaxPuts = 3
    MaxGets = 2
    Client <- MCClient
    Task <- MCTask
    Item <- MCItem
    Key = {k1, k2}
    Weight <- MCWeight
    Target <- MCTarget
    BatchKey = {}
    MaxSize = 1
    Uses <- WaitingPuts
    MixKeys = FALSE
    MixGets = FALSE
    Nobody = Nobody
    w1 = w1
    w2 = w2
    w3 = w3
    w4 = w4
    d1 = d1
    d2 = d2
    d3 = d3
    Worker <- MCWorkers
    Device <- MCDevices
    Accels <- MCAccels
INVARIANTS PutOrder OwnAnswer MutualExclusion NoFailure SameOrder
PROPERTIES CallsReturn EveryoneServed
CHECK_DEADLOCK FALSE
