------------------------------ MODULE AsyncSAC ------------------------------
(***************************************************************************)
(* Asynchronous SAC with sync_weight_no_wait: AsyncEmbodiedRunner asks for *)
(* a sync of the weights and goes on.  The actor trains in epochs, with an *)
(* await before each, so that the coroutine that sends the weights runs in *)
(* between; the rollout worker receives them in a task beside generation   *)
(* and looks for the end of that task once per epoch of episodes.          *)
(*                                                                         *)
(* The version of the actor is never set by this runner and stays 0.       *)
(***************************************************************************)
EXTENDS WeightSync

CONSTANT UpdateEpochs    \* update_epoch

ASSUME SACAssumption == UpdateEpochs \in Nat \ {0}

VARIABLES
    loop,        \* where AsyncEmbodiedRunner.run is
    epoch,       \* the epochs of this run_training that are done
    filled,      \* the replay buffer holds its min_buffer_size trajectories
    calls,       \* the remote calls of a sync that have not arrived
    pending,     \* _pending_rollout_weight_sync
    requested,   \* _weight_sync_requested
    work         \* _weight_sync_work: "none", "running" or "done"

runVars == <<loop, epoch, filled, calls, pending, requested, work>>
sacVars == <<syncVars, runVars>>

-----------------------------------------------------------------------------
\* The runner

HandlesDone == calls = {} /\ sender = SenderIdle

\* Mutant: the end of the sync before is not awaited.
RequestSyncEagerMutant ==
    /\ calls' = {"rollout", "actor"}
    /\ pending' = TRUE

\* update_rollout_weights(no_wait=True): dropped while the sync before is pending.
RequestSync ==
    IF pending /\ ~HandlesDone
    THEN UNCHANGED <<calls, pending>>
    ELSE calls' = {"rollout", "actor"} /\ pending' = TRUE

StartRun ==
    /\ loop = "start"
    /\ loop' = "train"
    /\ RequestSync
    /\ UNCHANGED <<syncVars, epoch, filled, requested, work>>

\* run_training has returned.
NextStep ==
    /\ loop = "train" /\ epoch = UpdateEpochs
    /\ loop' = IF Updates < MaxUpdates THEN "train" ELSE "done"
    /\ epoch' = 0
    /\ RequestSync
    /\ UNCHANGED <<syncVars, filled, requested, work>>

-----------------------------------------------------------------------------
\* The actor

\* One update_one_epoch of run_training, once the replay buffer is ready.
UpdateOneEpoch ==
    /\ loop = "train" /\ filled /\ epoch < UpdateEpochs
    /\ Update
    /\ epoch' = epoch + 1
    /\ UNCHANGED <<syncer, version, senderVars, wire, metadata, receiverVars,
                   loop, filled, calls, pending, requested, work>>

\* The call of sync_model_to_rollout arrives.
CallActor ==
    /\ "actor" \in calls
    /\ StartSend
    /\ calls' = calls \ {"actor"}
    /\ UNCHANGED <<syncer, history, version, snapshot, wire, metadata, receiverVars,
                   loop, epoch, filled, pending, requested, work>>

ActorSends ==
    /\ SenderStep
    /\ UNCHANGED <<syncer, history, version, receiverVars, runVars>>

-----------------------------------------------------------------------------
\* The rollout worker

\* _start_background_weight_sync_if_needed, given whether a sync is requested
\* and whether its task is running.
StartIfNeeded(isRequested, running) ==
    IF isRequested /\ ~running
    THEN /\ StartReceive
         /\ requested' = FALSE /\ work' = "running"
    ELSE /\ requested' = isRequested
         /\ work' = IF running THEN work ELSE "none"
         /\ UNCHANGED receiver

\* Mutant: a request that finds the task running is forgotten.
CallRolloutForgetsMutant ==
    /\ "rollout" \in calls
    /\ calls' = calls \ {"rollout"}
    /\ StartIfNeeded(work = "none", work # "none")
    /\ UNCHANGED <<syncer, history, version, senderVars, wire, metadata,
                   ready, buffer, model, label, loop, epoch, filled, pending>>

\* The call of request_actor_sync_model arrives.
CallRollout ==
    /\ "rollout" \in calls
    /\ calls' = calls \ {"rollout"}
    /\ StartIfNeeded(TRUE, work # "none")
    /\ UNCHANGED <<syncer, history, version, senderVars, wire, metadata,
                   ready, buffer, model, label, loop, epoch, filled, pending>>

\* A turn of _generate: _poll_background_weight_sync, and episodes whose
\* trajectories reach the replay buffer.
GenerateTurn ==
    /\ loop = "train"
    /\ StartIfNeeded(requested, work = "running")
    /\ filled' = TRUE
    /\ UNCHANGED <<syncer, history, version, senderVars, wire, metadata,
                   ready, buffer, model, label, loop, epoch, calls, pending>>

\* A step of the task _recv_and_apply_actor_sync.
RolloutReceives ==
    /\ ReceiverStep
    /\ work' = IF receiver' = ReceiverIdle THEN "done" ELSE work
    /\ UNCHANGED <<syncer, history, version, senderVars,
                   loop, epoch, filled, calls, pending, requested>>

-----------------------------------------------------------------------------
SACInit ==
    /\ SyncInit
    /\ loop = "start" /\ epoch = 0 /\ filled = FALSE
    /\ calls = {} /\ pending = FALSE
    /\ requested = FALSE /\ work = "none"

SACNext ==
    \/ StartRun \/ NextStep
    \/ UpdateOneEpoch \/ CallActor \/ ActorSends
    \/ CallRollout \/ GenerateTurn \/ RolloutReceives

SACSpec == SACInit /\ [][SACNext]_sacVars

-----------------------------------------------------------------------------
(* A patch is made of what differs from the sender's snapshot, so it is    *)
(* right only if the receiver has exactly the snapshot: whenever no sync   *)
(* is under way after the first one, the rollout worker's weights are what *)
(* the actor takes them to be, tensor by tensor, however training and the  *)
(* sync interleaved ("the receiver is aligned with the sender before the   *)
(* first real patch").                                                     *)
SyncUnderWay == sender # SenderIdle \/ receiver # ReceiverIdle \/ wire # <<>>
ReceiverHasSnapshot == snapshot # Unset /\ ~SyncUnderWay => model = snapshot

(* The syncs of the two sides stay paired, although the requests are two   *)
(* calls, one side drops what comes too early and the other coalesces: the *)
(* rollout worker never waits for weights that nobody is going to send,    *)
(* and the actor never sends weights that no task is going to receive.     *)
ToReceive == "rollout" \in calls \/ requested \/ receiver # ReceiverIdle
ToSend ==
    \/ "actor" \in calls \/ wire # <<>>
    \/ sender.at \in {"metadata", "init", "snapshot"}
    \/ sender.at = "sync" /\ (Patches \/ sender.next <= Len(Buckets))
SyncsPaired == ToReceive <=> ToSend
=============================================================================
