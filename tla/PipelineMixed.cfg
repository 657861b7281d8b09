\* Two actors that accumulate gradients and train global batches twice.
SPECIFICATION PipeSpec
CONSTANTS
    Actors = {1, 2}
    Settings <- Both
INVARIANT UpdatesOwnBatch
