------------------------------ MODULE AsyncPPO ------------------------------
(***************************************************************************)
(* Asynchronous PPO: AsyncPPOEmbodiedRunner trains in rounds, while the    *)
(* rollout worker generates without a pause and labels every chunk of a    *)
(* trajectory with the version of its weights.  Trajectories reach the     *)
(* actor through a channel, a receiving thread, a queue and a store that   *)
(* keeps the freshest.  Training blocks the actor's event loop, so that a  *)
(* sync of the weights never overlaps it; generation goes on during both.  *)
(*                                                                         *)
(* One actor rank and one rollout rank are modelled: the ranks meet in a   *)
(* barrier before a batch is built and then act alike.                     *)
(***************************************************************************)
EXTENDS WeightSync, FiniteSets, FiniteSetsExt

CONSTANTS
    Chunks,         \* chunks of a trajectory
    StoreSize,      \* rollout_store_size_per_rank
    Threshold,      \* staleness_threshold
    MinOnPolicies,  \* the values of on_policy_min_ratio to consider, in chunks of a full store
    MaxInFlight     \* bound on the trajectories in the channel and in the queue

ASSUME PPOAssumption ==
    /\ Chunks \in Nat \ {0} /\ StoreSize \in Nat \ {0} /\ MaxInFlight \in Nat \ {0}
    /\ Threshold \in Nat /\ MinOnPolicies \subseteq 0..(Chunks * StoreSize)

VARIABLES
    minOnPolicy,    \* on_policy_min_ratio, in chunks of a full store
    runner,         \* where AsyncPPOEmbodiedRunner.run is
    chunks,         \* the labels of the trajectory that is generated
    actorChannel,   \* trajectories sent and not received, by their labels
    recvQueue,      \* the actor's _recv_queue
    store,          \* the rollout_store: entries in ascending priority
    batch           \* the labels of the trajectories of the round's batch

vars == <<syncVars, minOnPolicy, runner, chunks, actorChannel, recvQueue, store, batch>>

-----------------------------------------------------------------------------
\* PriorityStore

MinVersion(labels) == Min(Range(labels))
SumVersion(labels) == FoldSeq(+, 0, labels)

\* The order of the priorities (minimum, mean).
Below(a, b) ==
    \/ MinVersion(a) < MinVersion(b)
    \/ MinVersion(a) = MinVersion(b) /\ SumVersion(a) < SumVersion(b)

Entry(labels) == [labels |-> labels, uses |-> 0]

\* SortedList.add: an entry follows those of the same priority, which are older.
Place(s, entry) ==
    LET before == Cardinality({i \in DOMAIN s : ~Below(entry.labels, s[i].labels)})
    IN  SubSeq(s, 1, before) \o <<entry>> \o SubSeq(s, before + 1, Len(s))

\* PriorityStore.add
Add(s, labels) ==
    IF Len(s) < StoreSize THEN Place(s, Entry(labels))
    ELSE IF Below(labels, s[1].labels) THEN s
    ELSE Tail(Place(s, Entry(labels)))

\* The store without the entries of the positions in old, which are its first ones.
CutFirst(s, old) == SubSeq(s, Cardinality(old) + 1, Len(s))

\* Mutant: the age of an entry is that of its newest chunk.
RemoveBelowNewestMutant(s, threshold) ==
    CutFirst(s, {i \in DOMAIN s : Max(Range(s[i].labels)) < threshold})

\* Mutant: entries may be one version too old.
RemoveBelowLateMutant(s, threshold) ==
    CutFirst(s, {i \in DOMAIN s : MinVersion(s[i].labels) < threshold - 1})

\* remove_below: the oldest entries come first, a priority beginning with the minimum.
RemoveBelow(s, threshold) == CutFirst(s, {i \in DOMAIN s : MinVersion(s[i].labels) < threshold})

\* get_metric: how many chunks of the store have version v.
ChunksOf(s, v) == Cardinality({p \in (DOMAIN s) \X (1..Chunks) : s[p[1]].labels[p[2]] = v})

Stale(labels) == MinVersion(labels) + Threshold < version

-----------------------------------------------------------------------------
\* The rollout worker and its environment

\* generate_one_epoch: a chunk is predicted and labelled without an await in
\* between; after the last chunk the environment worker sends the trajectory.
Generate ==
    /\ runner \notin {"start", "first_sync", "done"}
    /\ LET labels == Append(chunks, label)
       IN  IF Len(labels) < Chunks
           THEN /\ chunks' = labels
                /\ UNCHANGED actorChannel
           ELSE /\ Len(actorChannel) < MaxInFlight
                /\ chunks' = <<>>
                /\ actorChannel' = Append(actorChannel, labels)
    /\ UNCHANGED <<syncVars, minOnPolicy, runner, recvQueue, store, batch>>

-----------------------------------------------------------------------------
\* The actor

\* _recv_rollout_thread_main, a thread beside the event loop.
Receive ==
    /\ actorChannel # <<>> /\ Len(recvQueue) < MaxInFlight
    /\ actorChannel' = Tail(actorChannel)
    /\ recvQueue' = IF Stale(Head(actorChannel)) THEN recvQueue
                    ELSE Append(recvQueue, Head(actorChannel))
    /\ UNCHANGED <<syncVars, minOnPolicy, runner, chunks, store, batch>>

\* One turn of _drain_received_trajectories.
Drain ==
    /\ runner = "wait" /\ recvQueue # <<>>
    /\ recvQueue' = Tail(recvQueue)
    /\ store' = IF Stale(Head(recvQueue)) THEN store ELSE Add(store, Head(recvQueue))
    /\ UNCHANGED <<syncVars, minOnPolicy, runner, chunks, actorChannel, batch>>

\* The rest of a turn of _wait_for_rollout_store_ready and, once it leaves its
\* loop, construct_rollout_batch: topn of the store, whose entries stay in it.
Construct ==
    /\ runner = "wait" /\ recvQueue = <<>>
    /\ LET kept == RemoveBelow(store, version - Threshold)
       IN  IF Len(kept) >= StoreSize /\ ChunksOf(kept, version) >= minOnPolicy
           THEN /\ runner' = "train"
                /\ store' = [i \in DOMAIN kept |-> [kept[i] EXCEPT !.uses = @ + 1]]
                /\ batch' = [i \in DOMAIN kept |-> kept[i].labels]
           ELSE /\ store' = kept
                /\ UNCHANGED <<runner, batch>>
    /\ UNCHANGED <<syncVars, minOnPolicy, chunks, actorChannel, recvQueue>>

\* compute_advantages_and_returns and run_training.
Train ==
    /\ runner = "train"
    /\ Update
    /\ runner' = "trained" /\ batch' = <<>>
    /\ UNCHANGED <<syncer, version, senderVars, wire, metadata, receiverVars,
                   minOnPolicy, chunks, actorChannel, recvQueue, store>>

-----------------------------------------------------------------------------
\* The runner

DataUnchanged == UNCHANGED <<minOnPolicy, chunks, actorChannel, recvQueue, store, batch>>

\* global_step += 1; actor.set_global_step
SetVersion ==
    /\ runner = "trained"
    /\ runner' = "set"
    /\ version' = version + 1
    /\ UNCHANGED <<syncer, history, senderVars, wire, metadata, receiverVars>>
    /\ DataUnchanged

\* update_rollout_weights, which waits for both workers.
StartSync ==
    /\ \/ runner = "start" /\ runner' = "first_sync"
       \/ runner = "set" /\ runner' = "sync"
    /\ StartSend /\ StartReceive
    /\ UNCHANGED <<syncer, history, version, snapshot, wire, metadata, ready, buffer, model, label>>
    /\ DataUnchanged

EndSync ==
    /\ runner \in {"first_sync", "sync"}
    /\ sender = SenderIdle /\ receiver = ReceiverIdle
    /\ runner' = IF version < MaxUpdates THEN "wait" ELSE "done"
    /\ UNCHANGED syncVars
    /\ DataUnchanged

ActorSync ==
    /\ SenderStep
    /\ UNCHANGED <<syncer, history, version, receiverVars, runner>>
    /\ DataUnchanged

RolloutSync ==
    /\ ReceiverStep
    /\ UNCHANGED <<syncer, history, version, senderVars, runner>>
    /\ DataUnchanged

-----------------------------------------------------------------------------
Init ==
    /\ SyncInit
    /\ minOnPolicy \in MinOnPolicies
    /\ runner = "start"
    /\ chunks = <<>> /\ actorChannel = <<>> /\ recvQueue = <<>>
    /\ store = <<>> /\ batch = <<>>

Next ==
    \/ Generate \/ Receive \/ Drain \/ Construct \/ Train
    \/ SetVersion \/ StartSync \/ EndSync \/ ActorSync \/ RolloutSync

\* The event loops, the thread and the runner all go on by themselves.  The
\* drain ends when it finds the queue empty: strongly fair, as taking a
\* trajectory out takes no time beside the episode that makes the next one.
Fairness ==
    /\ WF_vars(Generate) /\ WF_vars(Receive)
    /\ WF_vars(Drain) /\ SF_vars(Construct) /\ WF_vars(Train)
    /\ WF_vars(SetVersion \/ StartSync \/ EndSync)
    /\ WF_vars(ActorSync) /\ WF_vars(RolloutSync)

Spec == Init /\ [][Next]_vars
FairSpec == Spec /\ Fairness

-----------------------------------------------------------------------------
(* A round trains on a full batch that is fresh when it is trained on,     *)
(* whatever happened to the version since its trajectories were received:  *)
(* no trajectory has a chunk older than staleness_threshold versions       *)
(* (remove_below after the drain), and enough chunks have the version that *)
(* is trained.                                                             *)
BatchIsFresh ==
    runner = "train" =>
        /\ Len(batch) = StoreSize
        /\ \A i \in DOMAIN batch : ~Stale(batch[i])
        /\ Cardinality({p \in (DOMAIN batch) \X (1..Chunks) : batch[p[1]][p[2]] = version})
               >= minOnPolicy

(* topn leaves the trajectories in the store, to be trained on again in    *)
(* the next round; no trajectory is used in more than threshold + 1 rounds.*)
ReuseBounded == \A e \in Range(store) : e.uses <= Threshold + 1

(* The label of a chunk tells the policy that made it.  From the first     *)
(* sync on, a patch syncer and a buffering bucket syncer give the rollout  *)
(* worker exactly the weights of its version; a bucket syncer that loads   *)
(* each bucket at once may mix them, while a sync is under way, with those *)
(* of the next version and no other.  After a sync both sides agree.       *)
WeightsMatchLabel ==
    runner \notin {"start", "first_sync", "done"} =>
        /\ IF syncer = "instant"
           THEN \A t \in Tensor :
                   \E u \in {label, label + 1} : u <= Updates /\ model[t] = WeightsAt(u)[t]
           ELSE model = WeightsAt(label)
        /\ runner = "wait" => label = version /\ model = Weights
=============================================================================
