SPECIFICATION Spec
CONSTANTS
    Policies <- NoWait
    NumGroups = 3
    ActorGpus = 1
    RolloutGpus = 2
    InferenceGpus = 1
    ActorMP = 1
    RolloutMP = 1
    IterGroups = 12
    NumIters = 3
    MaxRunning = 2
    Threshold = 2
INVARIANT ActorAlone
