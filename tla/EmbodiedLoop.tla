---------------------------- MODULE EmbodiedLoop ----------------------------
(***************************************************************************)
(* Synchronous embodied training: EmbodiedRunner.run over the env workers, *)
(* the rollout workers and the actors of one job.                          *)
(*                                                                         *)
(* Every env worker simulates its part of the environments in a few        *)
(* pipeline stages.  It sends the observations of a stage to the rollout   *)
(* workers, which answer with actions.  The key of a message names its     *)
(* source, its destination and "train" or "eval", but neither the stage    *)
(* nor the step: that an answer is used for the observations it was        *)
(* computed from rests on the order of the messages and on both sides      *)
(* counting the same loops.                                                *)
(*                                                                         *)
(* A worker that receives takes its shards one blocking get after the      *)
(* other.  Each key has one reader and queues without bound, so taking all *)
(* at once when all are there shows the same behaviours.                   *)
(***************************************************************************)
EXTENDS FiniteSets, CommMapper

CONSTANT Configs        \* the configurations of the job

VARIABLES
    cfg,                \* the configuration of this run
    ranks,              \* dst_rank_map, src_rank_map and the rollout workers' dst_ranks, src_ranks
    progress,           \* [at, step]: where EmbodiedRunner.run is, and global_step
    weights,            \* the training steps in the weights of the rollout workers
    env,                \* the env workers
    rollout,            \* the rollout workers: [calls, count]
    collector,          \* recv_rollout_trajectories of each actor: [left, batch]
    obsChannel,         \* rollout_channel, by <<env, rollout, mode>>
    resultChannel,      \* env_channel, by <<rollout, env, mode>>
    trajectories        \* actor_channel, with its default key

loopVars == <<cfg, ranks, progress, weights, env, rollout, collector,
              obsChannel, resultChannel, trajectories>>
Mode == {"train", "eval"}
EnvRank == 0..(cfg.envWorkers - 1)
RolloutRank == 0..(cfg.rolloutWorkers - 1)
Stage == 1..cfg.stages

\* The batch of a stage over all env workers, and the part of one env worker.
StageBatch(c) == c.numEnvs \div c.stages
PerWorker(c) == (c.numEnvs \div c.envWorkers) \div c.stages

\* compute_split_num
SplitNum(num, split) ==
    (CHOOSE m \in 1..(num * split) :
        /\ m % num = 0 /\ m % split = 0
        /\ \A k \in 1..(m - 1) : ~(k % num = 0 /\ k % split = 0)) \div split

\* What validate_embodied_cfg asserts.  The third conjunct says nothing beyond the second.
Validated(c) ==
    /\ c.numEnvs > 0
    /\ c.numEnvs % c.envWorkers = 0
    /\ (c.numEnvs % c.envWorkers) % c.stages = 0
    /\ PerWorker(c) > 0

\* What init_worker asserts in the maps of the ranks.
Mapped(c) == /\ Divides(StageBatch(c), c.envWorkers, c.rolloutWorkers)
             /\ Divides(StageBatch(c), c.rolloutWorkers, c.envWorkers)

\* There are workers of each kind, and every loop is made at least once: a job whose episodes have
\* no chunk, or that trains on no epoch, is not modelled, though no assertion excludes it.
JobType ==
    LET Positive == Nat \ {0}
    IN  [numEnvs : Nat, envWorkers : Positive, rolloutWorkers : Positive, actors : Positive, stages : Positive,
         chunks : Positive, epochs : Positive, autoReset : BOOLEAN, overlap : BOOLEAN,
         firstStep : Nat, maxSteps : Nat, syncInterval : Positive,
         evalInterval : Int, evalChunks : Positive, evalEpochs : Positive, evalAutoReset : BOOLEAN]

\* A job is resumed (firstStep) at a step of weight_sync_interval, and each trajectory can be cut
\* evenly for the actors; the code asserts neither.
ASSUME ConfigsAssumption ==
    \A c \in Configs :
        /\ c \in JobType
        /\ c.firstStep % c.syncInterval = 0
        /\ PerWorker(c) % SplitNum(c.actors, c.envWorkers * c.stages) = 0

\* _setup_dst_rank_map, _setup_src_rank_map, _setup_dst_ranks, _setup_src_ranks
RankMaps(c) ==
    LET batch == StageBatch(c)
        E     == c.envWorkers
        R     == c.rolloutWorkers
    IN  [toRollout   |-> [e \in 0..(E - 1) |-> DstRanks(batch, E, R, e)],
         fromRollout |-> [e \in 0..(E - 1) |-> SrcRanks(batch, R, E, e)],
         toEnv       |-> [r \in 0..(R - 1) |-> DstRanks(batch, R, E, r)],
         fromEnv     |-> [r \in 0..(R - 1) |-> SrcRanks(batch, E, R, r)]]
ToRollout(e) == ranks.toRollout[e]
FromRollout(e) == ranks.fromRollout[e]
ToEnv(r) == ranks.toEnv[r]
FromEnv(r) == ranks.fromEnv[r]

-----------------------------------------------------------------------------
(* An observation of one environment is told by its stage, its place in the  *)
(* batch of the stage, and the number of observations before it.             *)

Slots(e) == [n \in 1..PerWorker(cfg) |-> e * PerWorker(cfg) + n - 1]
Observed(e, mode, s, time) ==
    [n \in 1..PerWorker(cfg) |-> <<mode, s, Slots(e)[n], time>>]
Latest(e, mode, s) == Observed(e, mode, s, env[e].clock[mode][s])

\* Each batch of `batches` is cut into the shards of `parts`, and each shard put to the queue of
\* its destination (send_env_batch, send_rollout_result, send_chunk_actions).
Sent(channel, me, parts, mode, batches) ==
    [k \in DOMAIN channel |->
        LET mine == {n \in DOMAIN parts : k = <<me, parts[n].rank, mode>>}
        IN  channel[k] \o (IF mine = {} THEN <<>>
                           ELSE [b \in DOMAIN batches |->
                                    Split(batches[b], parts)[CHOOSE n \in mine : TRUE]])]

\* Each source in `parts` has a shard, of the size that is asserted, at the head of its queue.
Ready(channel, me, parts, mode) ==
    \A n \in DOMAIN parts :
        LET queue == channel[<<parts[n].rank, me, mode>>]
        IN  queue # <<>> /\ Len(Head(queue)) = parts[n].size
Merged(channel, me, parts, mode) ==
    FlattenSeq([n \in DOMAIN parts |-> Head(channel[<<parts[n].rank, me, mode>>])])
Taken(channel, me, parts, mode) ==
    [k \in DOMAIN channel |->
        IF \E n \in DOMAIN parts : k = <<parts[n].rank, me, mode>>
        THEN Tail(channel[k]) ELSE channel[k]]

-----------------------------------------------------------------------------
Beginning == [epoch |-> 1, chunk |-> 0, stage |-> 1]    \* chunk 0 is the bootstrap
NoVersion == -1

LoopInit ==
    /\ cfg \in {c \in Configs : Validated(c) /\ Mapped(c)}
    /\ ranks = RankMaps(cfg)
    /\ progress = [at |-> "start", step |-> cfg.firstStep]
    /\ weights = 0
    /\ env = [e \in EnvRank |->
                [calls |-> <<>>, at |-> Beginning, prefetched |-> FALSE, acted |-> <<>>,
                 clock |-> [m \in Mode |-> [s \in Stage |-> 0]],
                 steps |-> [s \in Stage |-> <<>>]]]
    /\ rollout = [r \in RolloutRank |-> [calls |-> <<>>, count |-> 0]]
    /\ collector = [a \in 1..cfg.actors |-> [left |-> 0, batch |-> <<>>]]
    /\ obsChannel = [k \in EnvRank \X RolloutRank \X Mode |-> <<>>]
    /\ resultChannel = [k \in RolloutRank \X EnvRank \X Mode |-> <<>>]
    /\ trajectories = <<>>

Called(workers, method) == [w \in DOMAIN workers |->
                               [workers[w] EXCEPT !.calls = Append(@, method)]]
AllReturned(workers) == \A w \in DOMAIN workers : workers[w].calls = <<>>
Executes(worker, method) == worker.calls # <<>> /\ Head(worker.calls) = method

-----------------------------------------------------------------------------
(* The env worker.                                                           *)

\* The observations of all stages are sent, new ones if the environments are reset
\* (_bootstrap_and_send_train, the first loop of evaluate).
Bootstrap(e, mode, reset, worker) ==
    LET clock == [s \in Stage |-> env[e].clock[mode][s] + (IF reset THEN 1 ELSE 0)]
    IN  /\ env' = [env EXCEPT ![e] = [worker EXCEPT !.clock[mode] = clock]]
        /\ obsChannel' = Sent(obsChannel, e, ToRollout(e), mode,
                              [s \in Stage |-> Observed(e, mode, s, clock[s])])

\* The next stage, and after the last one the next chunk.
After(at) == IF at.stage < cfg.stages THEN [at EXCEPT !.stage = @ + 1]
             ELSE [at EXCEPT !.stage = 1, !.chunk = @ + 1]
NextEpoch(at) == [epoch |-> at.epoch + 1, chunk |-> 0, stage |-> 1]
Returned(worker) == [worker EXCEPT !.calls = Tail(@), !.at = Beginning]

\* An epoch of _run_interact_once begins: the first one with what was prefetched, if it was.
BeginEpoch(e) ==
    LET begun == [env[e] EXCEPT !.at.chunk = 1]
    IN  /\ Executes(env[e], "interact") /\ env[e].at.chunk = 0
        /\ IF env[e].at.epoch = 1 /\ env[e].prefetched
           THEN /\ env' = [env EXCEPT ![e] = [begun EXCEPT !.prefetched = FALSE]]
                /\ UNCHANGED obsChannel
           ELSE Bootstrap(e, "train", ~cfg.autoReset, begun)
        /\ UNCHANGED <<cfg, ranks, progress, weights, rollout, collector, resultChannel, trajectories>>

PrefetchBootstrap(e) ==
    /\ Executes(env[e], "prefetch") /\ ~env[e].prefetched
    /\ Bootstrap(e, "train", ~cfg.autoReset, [Returned(env[e]) EXCEPT !.prefetched = TRUE])
    /\ UNCHANGED <<cfg, ranks, progress, weights, rollout, collector, resultChannel, trajectories>>

\* The answer for the stage is received: recv_rollout_results, recv_chunk_actions.
Receives(e, mode) ==
    /\ Ready(resultChannel, e, FromRollout(e), mode)
    /\ resultChannel' = Taken(resultChannel, e, FromRollout(e), mode)
Acted(e, mode) ==
    [observed |-> Latest(e, mode, env[e].at.stage),
     answer   |-> Merged(resultChannel, e, FromRollout(e), mode)]

\* The dones and rewards of the latest observation are joined with the answer's versions.
Appended(e) ==
    LET s == env[e].at.stage
    IN  [env[e].steps EXCEPT ![s] =
            Append(@, [time |-> env[e].clock["train"][s],
                       version |-> Acted(e, "train").answer[1].version])]

\* One chunk step of a stage: env_interact_step or env_evaluate_step, and the new observation
\* is sent if the loop goes on.
ChunkStep(e, mode, sends, worker) ==
    LET s == env[e].at.stage
        time == env[e].clock[mode][s] + 1
    IN  /\ Receives(e, mode)
        /\ env' = [env EXCEPT ![e] = [worker EXCEPT !.clock[mode][s] = time,
                                                    !.acted = Acted(e, mode)]]
        /\ obsChannel' = IF sends THEN Sent(obsChannel, e, ToRollout(e), mode,
                                            <<Observed(e, mode, s, time)>>)
                         ELSE obsChannel
        /\ UNCHANGED <<cfg, ranks, progress, weights, rollout, collector, trajectories>>

InteractStep(e) ==
    /\ Executes(env[e], "interact") /\ env[e].at.chunk \in 1..cfg.chunks
    /\ ChunkStep(e, "train", TRUE,
                 [env[e] EXCEPT !.at = After(@), !.steps = Appended(e)])

\* Mutant: the parts of the stages are numbered as if they alternated.
TrajectoriesAlternateMutant(e, steps) ==
    LET split == SplitNum(cfg.actors, cfg.envWorkers * cfg.stages)
        size  == PerWorker(cfg) \div split
    IN  [n \in 1..(cfg.stages * split) |->
            LET s == ((n - 1) % cfg.stages) + 1
                k == (n - 1) % split
            IN  [stage |-> s, steps |-> steps[s],
                 slots |-> SubSeq(Slots(e), k * size + 1, (k + 1) * size)]]

\* to_splited_trajectories: the environments of a stage cut into equal consecutive parts.
Trajectories(e, steps) ==
    LET split == SplitNum(cfg.actors, cfg.envWorkers * cfg.stages)
        size  == PerWorker(cfg) \div split
    IN  [n \in 1..(cfg.stages * split) |->
            LET s == (n - 1) \div split + 1
                k == (n - 1) % split
            IN  [stage |-> s, steps |-> steps[s],
                 slots |-> SubSeq(Slots(e), k * size + 1, (k + 1) * size)]]

\* The values of the last observation of a stage end its part of the epoch; after the last stage
\* of the last epoch the trajectories go to the actors.
EndOfEpoch(e) ==
    LET at    == env[e].at
        steps == Appended(e)
        acted == [env[e] EXCEPT !.acted = Acted(e, "train"), !.steps = steps]
        last  == at.epoch = cfg.epochs
    IN  /\ Executes(env[e], "interact") /\ at.chunk = cfg.chunks + 1
        /\ Receives(e, "train")
        /\ IF at.stage < cfg.stages
           THEN /\ env' = [env EXCEPT ![e] = [acted EXCEPT !.at.stage = @ + 1]]
                /\ UNCHANGED trajectories
           ELSE /\ env' = [env EXCEPT ![e] =
                    IF last THEN [Returned(acted) EXCEPT !.steps = [s \in Stage |-> <<>>]]
                    ELSE [acted EXCEPT !.at = NextEpoch(@)]]
                /\ trajectories' = IF last THEN trajectories \o Trajectories(e, steps)
                                   ELSE trajectories
        /\ UNCHANGED <<cfg, ranks, progress, weights, rollout, collector, obsChannel>>

\* An epoch of evaluate begins: without auto_reset each one with a reset, with it the first.
BeginEvalEpoch(e) ==
    LET begun == [env[e] EXCEPT !.at.chunk = 1]
    IN  /\ Executes(env[e], "evaluate") /\ env[e].at.chunk = 0
        /\ IF ~cfg.evalAutoReset \/ env[e].at.epoch = 1
           THEN Bootstrap(e, "eval", TRUE, begun)
           ELSE env' = [env EXCEPT ![e] = begun] /\ UNCHANGED obsChannel
        /\ UNCHANGED <<cfg, ranks, progress, weights, rollout, collector, resultChannel, trajectories>>

\* Mutant: with auto_reset, too, each epoch ends without sending.
SendsAfterEvalEachEpochMutant(at) == at.chunk # cfg.evalChunks

\* The observation after the last chunk is not sent, with auto_reset only that of the last epoch.
SendsAfterEval(at) ==
    IF cfg.evalAutoReset THEN ~(at.epoch = cfg.evalEpochs /\ at.chunk = cfg.evalChunks)
    ELSE at.chunk # cfg.evalChunks

EvaluateStep(e) ==
    LET at == env[e].at
        ends == at.chunk = cfg.evalChunks /\ at.stage = cfg.stages
    IN  /\ Executes(env[e], "evaluate") /\ at.chunk \in 1..cfg.evalChunks
        /\ ChunkStep(e, "eval", SendsAfterEval(at),
                     IF ~ends THEN [env[e] EXCEPT !.at = After(@)]
                     ELSE IF at.epoch < cfg.evalEpochs THEN [env[e] EXCEPT !.at = NextEpoch(@)]
                     ELSE Returned(env[e]))

-----------------------------------------------------------------------------
(* The rollout worker.                                                       *)

\* The answers that generate and evaluate give before they return.
GenerateCount == cfg.epochs * (cfg.chunks + 1) * cfg.stages
EvaluateCount == cfg.evalEpochs * cfg.evalChunks * cfg.stages

\* The last answers of an epoch hold values, and no versions.
VersionOf(count) ==
    IF (count \div cfg.stages) % (cfg.chunks + 1) = cfg.chunks THEN NoVersion ELSE weights

Answer(r, mode) ==
    LET obs     == Merged(obsChannel, r, FromEnv(r), mode)
        version == IF mode = "train" THEN VersionOf(rollout[r].count) ELSE weights
        count   == rollout[r].count + 1
        total   == IF mode = "train" THEN GenerateCount ELSE EvaluateCount
    IN  /\ Ready(obsChannel, r, FromEnv(r), mode)
        /\ obsChannel' = Taken(obsChannel, r, FromEnv(r), mode)
        /\ resultChannel' = Sent(resultChannel, r, ToEnv(r), mode,
               <<[n \in DOMAIN obs |-> [to |-> obs[n], version |-> version]]>>)
        /\ rollout' = [rollout EXCEPT ![r] =
               IF count < total THEN [@ EXCEPT !.count = count]
               ELSE [calls |-> Tail(@.calls), count |-> 0]]
        /\ UNCHANGED <<cfg, ranks, progress, weights, env, collector, trajectories>>

RolloutGenerate(r) == Executes(rollout[r], "generate") /\ Answer(r, "train")
RolloutEvaluate(r) == Executes(rollout[r], "evaluate") /\ Answer(r, "eval")

\* One trajectory of recv_rollout_trajectories; the actors share one queue.
RecvTrajectory(a) ==
    /\ collector[a].left > 0 /\ trajectories # <<>>
    /\ collector' = [collector EXCEPT ![a] =
           [left |-> @.left - 1, batch |-> Append(@.batch, Head(trajectories))]]
    /\ trajectories' = Tail(trajectories)
    /\ UNCHANGED <<cfg, ranks, progress, weights, env, rollout, obsChannel, resultChannel>>

-----------------------------------------------------------------------------
(* The runner.                                                               *)

\* A step of run begins: sync_weights if it is due, and the calls of generate_rollouts.
BeginStep ==
    /\ progress.at = "start" /\ progress.step < cfg.maxSteps
    /\ weights' = IF progress.step % cfg.syncInterval = 0 THEN progress.step ELSE weights
    /\ env' = Called(env, "interact")
    /\ rollout' = Called(rollout, "generate")
    /\ collector' = [a \in DOMAIN collector |->
           [left |-> SplitNum(cfg.envWorkers * cfg.stages, cfg.actors), batch |-> <<>>]]
    /\ progress' = [progress EXCEPT !.at = "rollouts"]
    /\ UNCHANGED <<cfg, ranks, obsChannel, resultChannel, trajectories>>

\* The actors have their trajectories and the rollout workers have returned.
StartTraining ==
    /\ progress.at = "rollouts"
    /\ \A a \in DOMAIN collector : collector[a].left = 0
    /\ AllReturned(rollout)
    /\ progress' = [progress EXCEPT !.at = "training"]
    /\ env' = IF cfg.overlap /\ progress.step + 1 < cfg.maxSteps THEN Called(env, "prefetch")
              ELSE env
    /\ UNCHANGED <<cfg, ranks, weights, rollout, collector, obsChannel, resultChannel, trajectories>>

\* check_progress: run_val.
EvalDue(step) ==
    cfg.evalInterval > 0 /\ (step % cfg.evalInterval = 0 \/ step = cfg.maxSteps)

\* The actors have trained and env_bootstrap_handle, if any, has returned:
\* _maybe_eval_and_checkpoint.
EndTraining ==
    LET step == progress.step + 1
        eval == EvalDue(step)
    IN  /\ progress.at = "training"
        /\ cfg.overlap /\ step < cfg.maxSteps => AllReturned(env)
        /\ progress' = [at |-> IF eval THEN "eval" ELSE "log", step |-> step]
        /\ weights' = IF eval THEN step ELSE weights
        /\ env' = IF eval THEN Called(env, "evaluate") ELSE env
        /\ rollout' = IF eval THEN Called(rollout, "evaluate") ELSE rollout
        /\ UNCHANGED <<cfg, ranks, collector, obsChannel, resultChannel, trajectories>>

\* The handles of evaluate, and that of interact, which _log_step_metrics waits for.
EndStep ==
    /\ progress.at \in {"eval", "log"} /\ AllReturned(env) /\ AllReturned(rollout)
    /\ progress' = [progress EXCEPT !.at = "start"]
    /\ UNCHANGED <<cfg, ranks, weights, env, rollout, collector,
                   obsChannel, resultChannel, trajectories>>

LoopEnded == progress.at = "start" /\ progress.step = cfg.maxSteps

LoopNext ==
    \/ \E e \in EnvRank : \/ BeginEpoch(e) \/ InteractStep(e) \/ EndOfEpoch(e)
                          \/ PrefetchBootstrap(e) \/ BeginEvalEpoch(e) \/ EvaluateStep(e)
    \/ \E r \in RolloutRank : RolloutGenerate(r) \/ RolloutEvaluate(r)
    \/ \E a \in DOMAIN collector : RecvTrajectory(a)
    \/ BeginStep \/ StartTraining \/ EndTraining \/ EndStep
    \/ LoopEnded /\ UNCHANGED loopVars

\* Every worker goes on while it can, and no worker's step takes away another's: so fairness of
\* all steps together is fairness of each worker.
LoopFairness == WF_loopVars(LoopNext)
LoopSpec == LoopInit /\ [][LoopNext]_loopVars /\ LoopFairness

-----------------------------------------------------------------------------
\* An env worker acts on the answers to its own latest observations, environment by environment,
\* in whatever way the stages and the shards of several workers interleave.
OwnActions ==
    \A e \in EnvRank : env[e].acted # <<>> =>
        [n \in DOMAIN env[e].acted.answer |-> env[e].acted.answer[n].to]
            = env[e].acted.observed

\* What the actors train on is every environment of every stage once, whichever actor took which
\* trajectory, each with all its steps in order, generated with the weights of the last sync, which
\* is less than weight_sync_interval steps ago.
WholeBatch ==
    progress.at = "training" =>
        LET pieces == FlattenSeq([a \in DOMAIN collector |-> collector[a].batch])
            held   == {h \in (DOMAIN pieces) \X (1..PerWorker(cfg)) :
                          h[2] \in DOMAIN pieces[h[1]].slots}
        IN  /\ progress.step - weights < cfg.syncInterval
            /\ {<<pieces[h[1]].stage, pieces[h[1]].slots[h[2]]>> : h \in held}
                   = Stage \X (0..(StageBatch(cfg) - 1))
            /\ Cardinality(held) = cfg.stages * StageBatch(cfg)
            /\ \A n \in DOMAIN pieces :
                  LET steps == pieces[n].steps
                  IN  /\ Len(steps) = cfg.epochs * (cfg.chunks + 1)
                      /\ \A m \in DOMAIN steps :
                            IF m % (cfg.chunks + 1) = 0 THEN steps[m].version = NoVersion
                            ELSE /\ steps[m].version = weights
                                 /\ steps[m + 1].time = steps[m].time + 1

\* The job is over, and every message has been received.
LoopFinished ==
    /\ LoopEnded
    /\ trajectories = <<>>
    /\ \A k \in DOMAIN obsChannel : obsChannel[k] = <<>>
    /\ \A k \in DOMAIN resultChannel : resultChannel[k] = <<>>
=============================================================================
