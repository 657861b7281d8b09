----------------------------- MODULE WeightSync -----------------------------
(***************************************************************************)
(* How the actor's weights reach the rollout worker: the weight syncers of *)
(* hybrid_engines/weight_syncer, sync_model_to_rollout of the actor and    *)
(* sync_model_from_actor of the rollout worker.                            *)
(*                                                                         *)
(* Both are coroutines.  The state dict the actor sends from refers to the *)
(* live parameters, so that a tensor has the value of the moment at which  *)
(* its bucket, the snapshot or the patch is made, not that of the moment   *)
(* at which the sync was asked for.  Between two awaits nothing else runs  *)
(* in the same worker; at an await the actor may train and the rollout     *)
(* worker may generate.                                                    *)
(*                                                                         *)
(* A tensor's value is the number of the update that last changed it.      *)
(***************************************************************************)
EXTENDS Integers, Sequences, SequencesExt

CONSTANTS
    Buckets,     \* the tensors of the state dict, bucket by bucket
    Syncers,     \* the configurations of weight_syncer to consider
    Own,         \* a tensor with which only the rollout worker started
    Unset,
    WireCap,     \* sends under way before an await of a send returns
    MaxUpdates   \* bound on the updates of the actor's weights

SyncerKinds == {"instant", "buffered", "patch", "patch_init"}

Tensor == UNION Range(Buckets)

ASSUME SyncAssumption ==
    /\ Syncers \subseteq SyncerKinds
    /\ Buckets \in Seq(SUBSET Tensor)
    /\ Len(Buckets) > 0 /\ WireCap \in Nat \ {0} /\ MaxUpdates \in Nat
    /\ Own \notin Nat /\ Unset \notin [Tensor -> Nat]

VARIABLES
    syncer,      \* bucket, loaded at once or buffered, or patch, without or with init_sync
    history,     \* the actor's weights after 0, 1, ... updates
    version,     \* the actor's self.version
    sender,      \* sync_model_to_rollout: where it is, and its next bucket
    snapshot,    \* what the patch builder takes the receiver to have
    wire,        \* broadcasts that were sent and not received
    metadata,    \* the receiver's metadata has been sent
    receiver,    \* sync_model_from_actor: where it is, buckets and version received
    ready,       \* receiver_initialized()
    buffer,      \* the cpu_buffer of apply
    model,       \* the rollout worker's weights
    label        \* the rollout worker's self.version

senderVars == <<sender, snapshot>>
receiverVars == <<receiver, ready, buffer, model, label>>
syncVars == <<syncer, history, version, senderVars, wire, metadata, receiverVars>>

Updates == Len(history) - 1
WeightsAt(u) == history[u + 1]
Weights == WeightsAt(Updates)
Patches == syncer \in {"patch", "patch_init"}

NoBuffer == [t \in {} |-> 0]
SenderIdle == [at |-> "idle", next |-> 0]
ReceiverIdle == [at |-> "idle", got |-> 0, version |-> 0]

Sub(w, S) == [t \in S |-> w[t]]
Load(part, w) ==
    [t \in DOMAIN part \cup DOMAIN w |-> IF t \in DOMAIN part THEN part[t] ELSE w[t]]
Changed(w, old) == {t \in Tensor : w[t] # old[t]}

\* Without init_sync, both sides must load the same checkpoint.
SyncInit ==
    /\ syncer \in Syncers
    /\ history = <<[t \in Tensor |-> 0]>>
    /\ version = 0
    /\ sender = SenderIdle /\ snapshot = Unset
    /\ wire = <<>> /\ metadata = FALSE
    /\ receiver = ReceiverIdle /\ ready = FALSE /\ buffer = NoBuffer
    /\ model = IF syncer = "patch" THEN Weights ELSE [t \in Tensor |-> Own]
    /\ label = 0

-----------------------------------------------------------------------------
\* An update of the weights by the optimizer: some tensors change.
Update ==
    /\ Updates < MaxUpdates
    /\ \E changed \in SUBSET Tensor :
          history' = Append(history,
              [t \in Tensor |-> IF t \in changed THEN Updates + 1 ELSE Weights[t]])

-----------------------------------------------------------------------------
\* The actor: sync_model_to_rollout

CanSend == Len(wire) < WireCap
BucketMessage(i) ==
    [version |-> IF sender.at = "sync" THEN version ELSE 0, data |-> Sub(Weights, Buckets[i])]

\* sync_model_to_rollout is called; a patch syncer is initialised first.
StartSend ==
    /\ sender = SenderIdle
    /\ sender' = [at |-> IF Patches /\ snapshot = Unset THEN "metadata" ELSE "sync", next |-> 1]

\* The next bucket of iter_named_tensor_buckets is made and sent.
SendBucket ==
    /\ sender.at \in {"init", "sync"} /\ sender.next <= Len(Buckets)
    /\ sender.at = "sync" => ~Patches
    /\ CanSend
    /\ sender' = [sender EXCEPT !.next = @ + 1]
    /\ wire' = Append(wire, BucketMessage(sender.next))
    /\ UNCHANGED <<snapshot, metadata>>

\* The metadata of the receiver has arrived; with init_sync, buckets follow.
RecvMetadata ==
    /\ sender.at = "metadata" /\ metadata
    /\ sender' = [sender EXCEPT !.at = IF syncer = "patch_init" THEN "init" ELSE "snapshot"]
    /\ metadata' = FALSE
    /\ UNCHANGED <<snapshot, wire>>

InitSyncSent == sender.at = "init" /\ sender.next > Len(Buckets)

\* create_patch: what differs from the snapshot, which takes the new values,
\* after init_sender has taken the snapshot if this is the first sync.
SendPatch ==
    /\ \/ sender.at = "sync" /\ Patches
       \/ sender.at = "snapshot" \/ InitSyncSent
    /\ CanSend
    /\ LET known == IF snapshot = Unset THEN Weights ELSE snapshot
       IN  wire' = Append(wire, [version |-> version, data |-> Sub(Weights, Changed(Weights, known))])
    /\ snapshot' = Weights
    /\ sender' = [sender EXCEPT !.at = "sent"]
    /\ UNCHANGED metadata

\* The await of the last send returns.
FinishSend ==
    /\ \/ sender.at = "sent"
       \/ sender.at = "sync" /\ ~Patches /\ sender.next > Len(Buckets)
    /\ CanSend
    /\ sender' = SenderIdle
    /\ UNCHANGED <<snapshot, wire, metadata>>

SenderStep == SendBucket \/ RecvMetadata \/ SendPatch \/ FinishSend

-----------------------------------------------------------------------------
\* The rollout worker: sync_model_from_actor

StartReceive ==
    /\ receiver = ReceiverIdle
    /\ receiver' = [receiver EXCEPT !.at = IF Patches /\ ~ready THEN "metadata" ELSE "apply"]

\* init_receiver up to its first recv.
SendMetadata ==
    /\ receiver.at = "metadata"
    /\ metadata' = TRUE
    /\ receiver' = [receiver EXCEPT !.at = IF syncer = "patch_init" THEN "init" ELSE "apply"]
    /\ ready' = (syncer # "patch_init")
    /\ UNCHANGED <<wire, buffer, model, label>>

\* _apply_init_weights: each bucket is copied into the live weights.
ApplyInitBucket ==
    /\ receiver.at = "init" /\ wire # <<>>
    /\ wire' = Tail(wire)
    /\ model' = Load(Head(wire).data, model)
    /\ IF receiver.got + 1 = Len(Buckets)
       THEN /\ ready' = TRUE
            /\ receiver' = [receiver EXCEPT !.at = "apply", !.got = 0]
       ELSE /\ receiver' = [receiver EXCEPT !.got = @ + 1]
            /\ UNCHANGED ready
    /\ UNCHANGED <<metadata, buffer, label>>

\* Mutant: the version is taken over with the first bucket.
ApplyBucketEarlyVersionMutant ==
    /\ receiver.at = "apply" /\ ~Patches /\ wire # <<>>
    /\ LET message == Head(wire)
           last == receiver.got + 1 = Len(Buckets)
           held == Load(message.data, buffer)
       IN  /\ wire' = Tail(wire)
           /\ label' = IF receiver.got = 0 THEN message.version ELSE label
           /\ model' = IF syncer = "instant" THEN Load(message.data, model)
                       ELSE IF last THEN Load(held, model) ELSE model
           /\ buffer' = IF syncer = "instant" \/ last THEN NoBuffer ELSE held
           /\ receiver' = IF last THEN ReceiverIdle ELSE [receiver EXCEPT !.got = @ + 1]
    /\ UNCHANGED <<metadata, ready>>

\* BucketWeightSyncer.apply and, after the last bucket, self.version = applied_version.
ApplyBucket ==
    /\ receiver.at = "apply" /\ ~Patches /\ wire # <<>>
    /\ LET message == Head(wire)
           last == receiver.got + 1 = Len(Buckets)
           applied == IF receiver.got = 0 THEN message.version ELSE receiver.version
           held == Load(message.data, buffer)
       IN  /\ wire' = Tail(wire)
           /\ model' = IF syncer = "instant" THEN Load(message.data, model)
                       ELSE IF last THEN Load(held, model) ELSE model
           /\ buffer' = IF syncer = "instant" \/ last THEN NoBuffer ELSE held
           /\ label' = IF last THEN applied ELSE label
           /\ receiver' = IF last THEN ReceiverIdle
                          ELSE [receiver EXCEPT !.got = @ + 1, !.version = applied]
    /\ UNCHANGED <<metadata, ready>>

\* PatchWeightSyncer.apply and self.version = applied_version.
ApplyPatch ==
    /\ receiver.at = "apply" /\ Patches /\ wire # <<>>
    /\ wire' = Tail(wire)
    /\ model' = Load(Head(wire).data, model)
    /\ label' = Head(wire).version
    /\ receiver' = ReceiverIdle
    /\ UNCHANGED <<metadata, ready, buffer>>

ReceiverStep == SendMetadata \/ ApplyInitBucket \/ ApplyBucket \/ ApplyPatch
=============================================================================
