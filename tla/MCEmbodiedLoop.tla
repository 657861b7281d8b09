--------------------------- MODULE MCEmbodiedLoop ---------------------------
(* EmbodiedLoop with small jobs for TLC.                                     *)
EXTENDS EmbodiedLoop

\* Two env workers and three rollout workers, whose parts overlap; two stages, one or several
\* epochs, with and without auto_reset, prefetched bootstraps and evaluation; more env workers
\* than rollout workers; one environment; and a resumed job whose trajectories are cut for four actors.
Job == [numEnvs |-> 6, envWorkers |-> 2, rolloutWorkers |-> 3, actors |-> 2, stages |-> 1,
        chunks |-> 2, epochs |-> 2, autoReset |-> TRUE, overlap |-> TRUE,
        firstStep |-> 0, maxSteps |-> 2, syncInterval |-> 1,
        evalInterval |-> 1, evalChunks |-> 2, evalEpochs |-> 2, evalAutoReset |-> TRUE]
OneRobot == [Job EXCEPT !.numEnvs = 1, !.envWorkers = 1, !.rolloutWorkers = 1, !.actors = 1,
                        !.evalInterval = 2]
Jobs ==
    {Job, OneRobot,
     [Job EXCEPT !.numEnvs = 4, !.envWorkers = 1, !.rolloutWorkers = 2, !.actors = 4,
                 !.stages = 2, !.epochs = 1, !.autoReset = FALSE, !.evalAutoReset = FALSE,
                 !.syncInterval = 2, !.evalInterval = 2],
     [Job EXCEPT !.envWorkers = 3, !.rolloutWorkers = 1, !.actors = 3, !.stages = 2,
                 !.chunks = 1, !.epochs = 1, !.evalChunks = 1, !.autoReset = FALSE,
                 !.overlap = FALSE, !.evalInterval = 2],
     [Job EXCEPT !.numEnvs = 8, !.rolloutWorkers = 1, !.actors = 4, !.firstStep = 2,
                 !.maxSteps = 3, !.evalInterval = 0]}
=============================================================================
