--------------------------- MODULE PipelineActor ---------------------------
(***************************************************************************)
(* PipelineEmbodiedFSDPActor.run_training: with use_training_pipeline the  *)
(* actors train on micro-batches while the env workers still produce       *)
(* them.  A global batch is `accumulation` micro-batches; each is trained  *)
(* update_epoch times.  While nothing new has come, an actor trains again  *)
(* on a global batch that it has.                                          *)
(*                                                                         *)
(* Every training of a micro-batch is a collective operation of all        *)
(* actors: FSDP gathers the parameters, and reduces the gradients with the *)
(* last micro-batch of a global batch only (no_sync).  An actor leaves the *)
(* operation when all have come to it.  So the actors, each of which       *)
(* decides by its own queue what to train next, have to agree in the kinds *)
(* of their operations.                                                    *)
(***************************************************************************)
EXTENDS Integers, Sequences, SequencesExt, FiniteSets

CONSTANTS
    Actors,           \* the ranks of the actors
    Settings          \* the settings [accumulation, updateEpoch, perStep]

ASSUME SettingsAssumption ==
    \A s \in Settings :
        /\ s.accumulation \in Nat \ {0} /\ s.updateEpoch \in Nat \ {0}
        \* The assertion of __init__ about micro_batches_per_step.
        /\ s.perStep \in Nat \ {0} /\ s.perStep % s.accumulation = 0

VARIABLES
    setting,
    put,              \* how many micro-batches the env workers have put for each actor
    channel,          \* the actor's key of the channel: micro-batches 1, 2, ...
    at,               \* where run_training is: "receive", "train", "choose", "again", "done"
    received,         \* received_micro_batch_count
    pendingBatch,     \* pending_global_batch
    current,          \* current_global_batch
    globalBatches,    \* global_batches: by train_count, the global batches in order
    again,            \* the global batch that is trained again, and its micro-batches to come
    grads,            \* the micro-batches whose gradients are accumulated
    updates,          \* the optimizer steps: [of: the global batch, grads]
    collectives       \* the collective operations: is_last of each

pipeVars == <<setting, put, channel, at, received, pendingBatch, current, globalBatches,
              again, grads, updates, collectives>>

PerStep == setting.perStep
GlobalBatchesPerStep == PerStep \div setting.accumulation
NoBatch == [of |-> <<>>, left |-> <<>>, count |-> 0]

PipeInit ==
    /\ setting \in Settings
    /\ put = [a \in Actors |-> 0]
    /\ channel = [a \in Actors |-> <<>>]
    /\ at = [a \in Actors |-> "receive"]
    /\ received = [a \in Actors |-> 0]
    /\ pendingBatch = [a \in Actors |-> <<>>]
    /\ current = [a \in Actors |-> <<>>]
    /\ globalBatches = [a \in Actors |-> [n \in 1..setting.updateEpoch |-> <<>>]]
    /\ again = [a \in Actors |-> NoBatch]
    /\ grads = [a \in Actors |-> <<>>]
    /\ updates = [a \in Actors |-> <<>>]
    /\ collectives = [a \in Actors |-> <<>>]

\* An env worker puts one more micro-batch of the actor (send_rollout_trajectories_pipeline).
PutMicroBatch(a) ==
    /\ put[a] < PerStep
    /\ put' = [put EXCEPT ![a] = @ + 1]
    /\ channel' = [channel EXCEPT ![a] = Append(@, put[a] + 1)]
    /\ UNCHANGED <<setting, at, received, pendingBatch, current, globalBatches, again, grads,
                   updates, collectives>>

\* A micro-batch is taken from the channel.
ReceiveMicroBatch(a) ==
    /\ received[a] < PerStep /\ channel[a] # <<>>
    /\ channel' = [channel EXCEPT ![a] = Tail(@)]
    /\ pendingBatch' = [pendingBatch EXCEPT ![a] = Append(@, Head(channel[a]))]
    /\ received' = [received EXCEPT ![a] = @ + 1]

\* The first loop: try_recv_micro_batch until there is none, or all have come.
TryReceive(a) ==
    /\ at[a] = "receive"
    /\ \/ ReceiveMicroBatch(a) /\ UNCHANGED at
       \/ /\ received[a] = PerStep \/ channel[a] = <<>>
          /\ at' = [at EXCEPT ![a] = "train"]
          /\ UNCHANGED <<channel, pendingBatch, received>>
    /\ UNCHANGED <<setting, put, current, globalBatches, again, grads, updates, collectives>>

\* train_micro_batch: the gradients add to those there are.  The actor is at its next collective
\* operation, and has left the one before, which all have come to.
TrainMicroBatch(a, isLast) ==
    /\ \A b \in Actors : Len(collectives[b]) >= Len(collectives[a])
    /\ collectives' = [collectives EXCEPT ![a] = Append(@, isLast)]

\* Mutant: the gradients are not set to zero after the step.
OptimizeNoZeroGradMutant(a, micro, isLast, batch) ==
    /\ grads' = [grads EXCEPT ![a] = Append(@, micro)]
    /\ updates' = IF isLast
                  THEN [updates EXCEPT ![a] =
                           Append(@, [of |-> batch, grads |-> Append(grads[a], micro)])]
                  ELSE updates

\* finish_global_batch: optimizer_step and zero_grad, after the last micro-batch.
Optimize(a, micro, isLast, batch) ==
    IF isLast
    THEN /\ updates' = [updates EXCEPT ![a] =
                Append(@, [of |-> batch, grads |-> Append(grads[a], micro)])]
         /\ grads' = [grads EXCEPT ![a] = <<>>]
    ELSE /\ grads' = [grads EXCEPT ![a] = Append(@, micro)]
         /\ UNCHANGED updates

\* Mutant: the last of those that have come ends the global batch.
IsLastPendingMutant(a) == Len(pendingBatch[a]) = 1
IsLast(a) == Len(current[a]) = setting.accumulation - 1

\* The second loop: the pending micro-batches are trained for the first time.
TrainNew(a) ==
    LET micro == Head(pendingBatch[a])
        batch == Append(current[a], micro)
    IN  /\ at[a] = "train" /\ pendingBatch[a] # <<>>
        /\ TrainMicroBatch(a, IsLast(a))
        /\ Optimize(a, micro, IsLast(a), batch)
        /\ pendingBatch' = [pendingBatch EXCEPT ![a] = Tail(@)]
        /\ IF IsLast(a)
           THEN /\ globalBatches' = [globalBatches EXCEPT ![a][1] = Append(@, batch)]
                /\ current' = [current EXCEPT ![a] = <<>>]
           ELSE /\ current' = [current EXCEPT ![a] = batch]
                /\ UNCHANGED globalBatches
        /\ UNCHANGED <<setting, put, channel, at, received, again>>

\* select_global_batch: the one trained least.
Selectable(a) == {n \in 1..(setting.updateEpoch - 1) : globalBatches[a][n] # <<>>}
Least(counts) == CHOOSE n \in counts : \A m \in counts : n <= m

\* All pending ones are trained: the step has ended, or a global batch is selected to be trained
\* again, or the actor waits for the next micro-batch.
ChooseNext(a) ==
    /\ at[a] = "train" /\ pendingBatch[a] = <<>>
    /\ IF Len(globalBatches[a][setting.updateEpoch]) = GlobalBatchesPerStep
       THEN /\ at' = [at EXCEPT ![a] = "done"]
            /\ UNCHANGED <<channel, pendingBatch, received, globalBatches, again>>
       ELSE IF Selectable(a) # {}
       THEN LET n == Least(Selectable(a))
                batch == Head(globalBatches[a][n])
            IN  /\ at' = [at EXCEPT ![a] = "again"]
                /\ again' = [again EXCEPT ![a] = [of |-> batch, left |-> batch, count |-> n]]
                /\ globalBatches' = [globalBatches EXCEPT ![a][n] = Tail(@)]
                /\ UNCHANGED <<channel, pendingBatch, received>>
       ELSE /\ at' = [at EXCEPT ![a] = "receive"]
            /\ IF received[a] < PerStep THEN ReceiveMicroBatch(a)
               ELSE UNCHANGED <<channel, pendingBatch, received>>
            /\ UNCHANGED <<globalBatches, again>>
    /\ UNCHANGED <<setting, put, current, grads, updates, collectives>>

TrainAgain(a) ==
    LET micro  == Head(again[a].left)
        isLast == Len(again[a].left) = 1
        count  == again[a].count + 1
    IN  /\ at[a] = "again"
        /\ TrainMicroBatch(a, isLast)
        /\ Optimize(a, micro, isLast, again[a].of)
        /\ IF isLast
           THEN /\ globalBatches' = [globalBatches EXCEPT ![a][count] = Append(@, again[a].of)]
                /\ again' = [again EXCEPT ![a] = NoBatch]
                /\ at' = [at EXCEPT ![a] = "receive"]
           ELSE /\ again' = [again EXCEPT ![a].left = Tail(@)]
                /\ UNCHANGED <<globalBatches, at>>
        /\ UNCHANGED <<setting, put, channel, received, pendingBatch, current>>

PipeDone == \A a \in Actors : at[a] = "done"
PipeNext ==
    \/ \E a \in Actors : \/ PutMicroBatch(a) \/ TryReceive(a) \/ TrainNew(a)
                         \/ ChooseNext(a) \/ TrainAgain(a)
    \/ PipeDone /\ UNCHANGED pipeVars

\* The env workers produce all their micro-batches, and each actor goes on while it can.
PipeFairness ==
    \A a \in Actors :
        /\ WF_pipeVars(PutMicroBatch(a))
        /\ WF_pipeVars(TryReceive(a) \/ TrainNew(a) \/ ChooseNext(a) \/ TrainAgain(a))
PipeSpec == PipeInit /\ [][PipeNext]_pipeVars /\ PipeFairness

-----------------------------------------------------------------------------
\* A step of the optimizer applies the gradients of its own global batch, all of them and no other.
UpdatesOwnBatch ==
    \A a \in Actors : \A n \in DOMAIN updates[a] : updates[a][n].grads = updates[a][n].of

\* Whatever each actor finds in its queue and chooses to train, the n-th collective operation is of
\* the same kind for all: none reduces gradients that another does not.
CollectivesAgree ==
    \A a, b \in Actors : \A n \in DOMAIN collectives[a] \cap DOMAIN collectives[b] :
        collectives[a][n] = collectives[b][n]

\* The step is over, and each global batch was the subject of update_epoch updates.
AllTrained ==
    /\ PipeDone
    /\ \A a \in Actors : \A g \in 1..GlobalBatchesPerStep :
          Cardinality({n \in DOMAIN updates[a] :
              updates[a][n].of = [k \in 1..setting.accumulation |->
                                     (g - 1) * setting.accumulation + k]})
              = setting.updateEpoch
=============================================================================
