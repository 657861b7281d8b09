\* The driver, restarted while an edge trains.
CONSTANTS
    a = a
    b = b
    c = c
    g = g
    h = h
    None = None
    Proposal <- MCProposal
    Seeds <- MaybeSeeded
    SeedFiles <- MCSeedFiles
    MaxDepth = 2
    MaxTotalEdges = 4
    MaxStarts = 3
    Call = {c1, c2, c3}
    Code = {ok, failed}
    NoCode = NoCode
SPECIFICATION MCDriverSpec
INVARIANT PersistedWasTrained
CHECK_DEADLOCK FALSE
