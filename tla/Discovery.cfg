\* The walk, the driver over it, and the stages of one log path;
\* or two workers of a collective group.
CONSTANTS
    a = a
    b = b
    c = c
    g = g
    h = h
    None = None
    Proposal <- MCProposal
    Seeds <- MaybeSeeded
    SeedFiles <- MCSeedFiles
    MaxDepth = 2
    MaxTotalEdges = 4
    MaxStarts = 3
    Call = {c1, c2, c3}
    Code = {ok, failed}
    NoCode = NoCode
    Resting = Resting
    Relations = {"none", "same", "uncertain"}
    Duplex = FALSE
    Kinds = {"object", "tensors", "dict", "dataclass", "raw"}
    MaxTransfers = 2
    SyncRanks = {0}
SPECIFICATION MCPartsSpec
INVARIANTS
    SingleCheckpoint
    NoSubtaskTwice
    NoDuplicateId
    Rooted
    Grounded
    ReturnsOwnCode
    Paired
    SharedUntilCopied
PROPERTIES
    FinishedNotRetrained
    TransfersEnd
CHECK_DEADLOCK FALSE
