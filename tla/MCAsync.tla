------------------------------ MODULE MCAsync ------------------------------
(***************************************************************************)
(* The ways to train embodied policies, for TLC: asynchronous PPO or SAC   *)
(* over the same workers and weight syncers, the replay buffer of SAC, the *)
(* synchronous loop, and actors that train while rollouts go on.  One of   *)
(* them runs, the variables of the others keep their values.  Two tensors  *)
(* in two buckets, every kind of weight syncer; rounds of PPO without an   *)
(* on-policy minimum only with one of them, for the sake of time.          *)
(***************************************************************************)
EXTENDS AsyncPPO, AsyncSAC, ReplayBuffer, MCEmbodiedLoop, MCPipelineActor

VARIABLE algo      \* "ppo", "sac", "replay", "loop" or "pipeline"

TwoBuckets == <<{1}, {2}>>
AllSyncers == SyncerKinds
InitSync == {"patch_init"}

ppoVars == <<minOnPolicy, runner, chunks, actorChannel, recvQueue, store, batch>>
asyncVars == <<syncVars, ppoVars, runVars, replayVars>>
allVars == <<algo, asyncVars, loopVars, pipeVars>>

InitPPO ==
    /\ algo = "ppo" /\ Init
    /\ syncer # "patch" => minOnPolicy > 0
NoPPO ==
    /\ minOnPolicy = 0 /\ runner = "done" /\ chunks = <<>> /\ actorChannel = <<>>
    /\ recvQueue = <<>> /\ store = <<>> /\ batch = <<>>
NoSAC ==
    /\ loop = "done" /\ epoch = 0 /\ filled = FALSE /\ calls = {} /\ pending = FALSE
    /\ requested = FALSE /\ work = "none"
NoReplay == ReplayInit /\ autoSave = FALSE
NoSync == SyncInit /\ syncer = "instant"

InitSAC == algo = "sac" /\ SACInit /\ NoPPO /\ NoReplay
InitSynchronous ==
    /\ LoopInit /\ (algo # "loop" => cfg = OneRobot)
    /\ PipeInit /\ (algo # "pipeline" => setting = Accumulating)
InitAny ==
    /\ algo \in {"ppo", "sac", "replay", "loop", "pipeline"}
    /\ InitSynchronous
    /\ \/ InitPPO /\ NoSAC /\ NoReplay
       \/ InitSAC
       \/ algo = "replay" /\ ReplayInit /\ NoSync /\ NoPPO /\ NoSAC
       \/ algo \in {"loop", "pipeline"} /\ NoReplay /\ NoSync /\ NoPPO /\ NoSAC

NextPPO == algo = "ppo" /\ Next /\ UNCHANGED <<algo, runVars, replayVars, loopVars, pipeVars>>
NextSAC == algo = "sac" /\ SACNext /\ UNCHANGED <<algo, ppoVars, replayVars, loopVars, pipeVars>>
NextReplay ==
    algo = "replay" /\ ReplayNext /\ UNCHANGED <<algo, syncVars, ppoVars, runVars, loopVars, pipeVars>>
NextLoop == algo = "loop" /\ LoopNext /\ UNCHANGED <<algo, asyncVars, pipeVars>>
NextPipeline == algo = "pipeline" /\ PipeNext /\ UNCHANGED <<algo, asyncVars, loopVars>>

\* The steps of the loop and the micro-batches are limited, so that fairness of all steps of one
\* of the two implies that of each.
SpecAny ==
    /\ InitAny
    /\ [][NextPPO \/ NextSAC \/ NextReplay \/ NextLoop \/ NextPipeline]_allVars
    /\ Fairness
    /\ WF_allVars(NextLoop \/ NextPipeline)

\* SAC alone.
SpecSAC == InitSAC /\ InitSynchronous /\ [][NextSAC]_allVars

(* Training ends.  In asynchronous PPO, dropping stale trajectories and      *)
(* waiting for enough on-policy chunks never starves it; in the synchronous  *)
(* loop, workers that each count their steps never wait for a message that   *)
(* no one sends, and leave none; and actors that choose by what has come     *)
(* train every global batch update_epoch times.                              *)
TrainingEnds ==
    <>(/\ runner = "done"
       /\ algo = "loop" => LoopFinished
       /\ algo = "pipeline" => AllTrained)
=============================================================================
