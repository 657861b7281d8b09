---------------------------- MODULE AsyncProofs ----------------------------
(***************************************************************************)
(* Proofs about the syncs of the weights: in asynchronous PPO the label of *)
(* every chunk tells the weights that made it, for any weight syncer,      *)
(* buckets, transport and number of updates; in asynchronous SAC the syncs *)
(* of the two workers stay paired, if a send is over only once it has been *)
(* received (WireCap = 1).                                                 *)
(*                                                                         *)
(* Both rest on a balance: what the sender has still to send, with what is *)
(* on the wire, is what the receiver has still to receive.  It is kept by  *)
(* each step of the two coroutines (SenderAdvances, ReceiverAdvances),     *)
(* whichever of the two algorithms runs them.  Where the messages of a     *)
(* patch syncer go depends on whether each side knows of the other         *)
(* (SyncInv).                                                              *)
(*                                                                         *)
(* PPOInv adds what each message and the rollout worker's weights hold at  *)
(* every point of a sync, which is why a label is never wrong between two  *)
(* buckets; SACInv adds which requests of a sync are under way.            *)
(*                                                                         *)
(* The batches of PPO are fresh and no trajectory is used too often, for   *)
(* any size of the store and any threshold.  StoreInv says that the        *)
(* entries are in ascending order of their oldest label (Ascending), so    *)
(* that the stale ones come first, and that an entry is used once a round  *)
(* at most, from the version of its oldest label on (UsedOK).              *)
(***************************************************************************)
EXTENDS AsyncPPO, AsyncSAC, SequenceTheorems, FiniteSetTheorems, NaturalsInduction,
        WellFoundedInduction, TLAPS

N == Len(Buckets)
Parts == UNION {[S -> Nat] : S \in SUBSET Tensor}
Messages == [version : Nat, data : Parts]

(* Types, and where each coroutine is.                                     *)

SyncType ==
    /\ syncer \in SyncerKinds
    /\ history \in Seq([Tensor -> Nat]) /\ Len(history) > 0
    /\ version \in Nat
    /\ sender \in [at : {"idle", "metadata", "init", "snapshot", "sync", "sent"}, next : 0..(N + 1)]
    /\ snapshot \in {Unset} \cup [Tensor -> Nat]
    /\ wire \in Seq(Messages)
    /\ metadata \in BOOLEAN
    /\ receiver \in [at : {"idle", "metadata", "init", "apply"}, got : 0..(N - 1), version : Nat]
    /\ ready \in BOOLEAN
    /\ buffer \in Parts
    /\ model \in [Tensor -> Nat \cup {Own}]
    /\ label \in Nat

SenderPlace ==
    /\ sender.at = "idle" => sender = SenderIdle
    /\ sender.at \in {"metadata", "snapshot"} => sender.next = 1
    /\ sender.at \in {"init", "sync"} => sender.next > 0
ReceiverPlace ==
    /\ receiver.at = "idle" => receiver = ReceiverIdle
    /\ receiver.at = "metadata" \/ (receiver.at = "apply" /\ Patches) => receiver.got = 0

\* What the sync under way has still to send and to receive.
FirstLength == IF syncer = "patch_init" THEN N + 1 ELSE 1
SendRest ==
    CASE sender.at = "metadata" -> FirstLength
      [] sender.at = "init" -> N + 2 - sender.next
      [] sender.at = "sync" -> IF Patches THEN 1 ELSE N + 1 - sender.next
      [] sender.at = "snapshot" -> 1
      [] OTHER -> 0
RecvRest ==
    CASE receiver.at = "metadata" -> FirstLength
      [] receiver.at = "init" -> N + 1 - receiver.got
      [] receiver.at = "apply" -> IF Patches THEN 1 ELSE N - receiver.got
      [] OTHER -> 0

\* What each side knows of the other, with a patch syncer.
SenderPhase ==
    /\ sender.at = "metadata" => Patches /\ snapshot = Unset
    /\ sender.at = "init" => syncer = "patch_init" /\ snapshot = Unset
    /\ sender.at = "snapshot" => syncer = "patch" /\ snapshot = Unset
    /\ sender.at = "sync" /\ Patches => snapshot # Unset
    /\ sender.at = "sent" => Patches /\ snapshot # Unset
ReceiverPhase ==
    /\ receiver.at = "metadata" => Patches /\ ~ready
    /\ receiver.at = "init" => syncer = "patch_init" /\ ~ready
    /\ receiver.at = "apply" /\ Patches => ready
BeforeMetadata ==
    Patches /\ ~ready /\ receiver.at \in {"idle", "metadata"} =>
        /\ wire = <<>> /\ ~metadata /\ snapshot = Unset
        /\ sender.at \in {"idle", "metadata"}
BeforeSnapshot == Patches /\ snapshot = Unset /\ sender.at # "init" => wire = <<>>
MetadataUnderWay == metadata => Patches /\ snapshot = Unset /\ sender.at \in {"idle", "metadata"}
OnlyPatches == ~Patches => snapshot = Unset /\ ~ready /\ ~metadata

SyncInv ==
    /\ SyncType /\ SenderPlace /\ ReceiverPlace /\ SenderPhase /\ ReceiverPhase
    /\ BeforeMetadata /\ BeforeSnapshot /\ MetadataUnderWay /\ OnlyPatches

-----------------------------------------------------------------------------
(* Asynchronous SAC                                                        *)

\* The messages of a sync that has not begun.
WholeSend == IF ~Patches THEN N ELSE IF snapshot = Unset THEN FirstLength ELSE 1
WholeRecv == IF ~Patches THEN N ELSE IF ready THEN 1 ELSE FirstLength
SendOwed == IF "actor" \in calls THEN WholeSend ELSE SendRest
RecvOwed == IF "rollout" \in calls \/ requested THEN WholeRecv ELSE RecvRest
SACType ==
    /\ calls \in SUBSET {"rollout", "actor"}
    /\ pending \in BOOLEAN /\ requested \in BOOLEAN
    /\ work \in {"none", "running", "done"}
\* A side is asked for one sync at a time, and a new one only once the last is over.
OneRequest ==
    /\ "actor" \in calls => sender.at = "idle"
    /\ "rollout" \in calls => ~requested
    /\ "rollout" \in calls \/ requested => receiver.at = "idle"
    /\ work = "running" <=> receiver.at # "idle"
    /\ ~pending => HandlesDone
Rendezvous == sender.at = "idle" => wire = <<>>
SACBalanced == Len(wire) + SendOwed = RecvOwed
\* A receiver that is ready before the sender took its snapshot waits for the first patch.
PatchOwed == ready /\ snapshot = Unset => SendOwed > 0
SACInv == SyncInv /\ SACType /\ OneRequest /\ Rendezvous /\ SACBalanced /\ PatchOwed

-----------------------------------------------------------------------------
(* Asynchronous PPO                                                        *)

Runners == {"start", "first_sync", "wait", "train", "trained", "set", "sync", "done"}
Syncing == runner \in {"first_sync", "sync"}
Rounds ==
    /\ runner \in Runners
    /\ runner \in {"start", "first_sync"} => version = 0
    /\ runner \in {"set", "sync"} => version > 0
    /\ Updates = IF runner = "trained" THEN version + 1 ELSE version
Quiet == ~Syncing => sender.at = "idle" /\ receiver.at = "idle"
Balanced == Len(wire) + SendRest = RecvRest
Initialised ==
    /\ runner = "start" => snapshot = Unset /\ ~ready
    /\ runner # "start" /\ Patches /\ sender.at = "idle" => snapshot # Unset
    /\ runner # "start" /\ Patches /\ receiver.at = "idle" => ready
    /\ runner = "sync" /\ Patches => snapshot # Unset /\ ready
\* The weights before the update that is synchronised.
Old == IF version = 0 THEN WeightsAt(0) ELSE WeightsAt(version - 1)
SnapshotRight ==
    snapshot # Unset =>
        snapshot = IF runner = "set" \/ sender.at = "sync" THEN Old ELSE WeightsAt(version)
LabelRight ==
    /\ label = IF version > 0 /\ (runner = "set" \/ receiver.at # "idle") THEN version - 1 ELSE version
    /\ receiver.at = "apply" /\ ~Patches /\ receiver.got > 0 => receiver.version = version
BufferRight ==
    /\ syncer # "buffered" \/ receiver.at # "apply" => buffer = NoBuffer
    /\ DOMAIN buffer = IF syncer = "buffered" THEN UNION {Buckets[i] : i \in 1..receiver.got} ELSE {}
    /\ \A t \in DOMAIN buffer : buffer[t] = WeightsAt(version)[t]
\* The k-th message on the wire is the one the receiver expects there.
PatchMessage == [version |-> version, data |-> Sub(WeightsAt(version), Changed(WeightsAt(version), Old))]
WireRight ==
    \A k \in 1..Len(wire) :
        IF Patches /\ (receiver.at = "apply" \/ receiver.got + k > N)
        THEN wire[k] = PatchMessage
        ELSE /\ wire[k].data = Sub(WeightsAt(version), Buckets[receiver.got + k])
             /\ ~Patches => wire[k].version = version
\* The weights of the rollout worker, between syncs and at every point of one.
ModelRight ==
    /\ runner \notin {"start", "set"} /\ receiver.at = "idle" => model = WeightsAt(version)
    /\ runner = "set" => model = Old
    /\ syncer = "patch" /\ (runner = "start" \/ receiver.at # "idle") => model = Old
    /\ syncer = "patch_init" /\ receiver.at = "apply" => model = Old
    /\ syncer = "buffered" /\ runner = "sync" /\ receiver.at = "apply" => model = Old
    /\ syncer \in {"instant", "patch_init"} /\ receiver.at \in {"init", "apply"} =>
           \A i \in 1..receiver.got : \A t \in Buckets[i] : model[t] = WeightsAt(version)[t]
    /\ syncer = "instant" /\ runner = "sync" /\ receiver.at = "apply" =>
           \A t \in Tensor : model[t] \in {Old[t], WeightsAt(version)[t]}
PPOInv ==
    /\ SyncInv /\ Rounds /\ Quiet /\ Balanced /\ Initialised
    /\ SnapshotRight /\ LabelRight /\ BufferRight /\ WireRight /\ ModelRight

-----------------------------------------------------------------------------
(* Buckets, sequences and partial state dicts.                             *)

LEMMA BucketFacts ==
    /\ N \in Nat \ {0} /\ DOMAIN Buckets = 1..N
    /\ \A i \in 1..N : Buckets[i] \in SUBSET Tensor
    /\ \A t \in Tensor : \E i \in 1..N : t \in Buckets[i]
    /\ FirstLength \in Nat \ {0} /\ FirstLength >= 1
<1>1. Buckets \in Seq(SUBSET Tensor) /\ N > 0 /\ N \in Nat
  BY SyncAssumption DEF N
<1>2. DOMAIN Buckets = 1..N /\ \A i \in 1..N : Buckets[i] \in SUBSET Tensor
  BY <1>1 DEF N
<1>3. ASSUME NEW t \in Tensor PROVE \E i \in 1..N : t \in Buckets[i]
  BY <1>2, <1>3 DEF Tensor, Range
<1>4. FirstLength \in Nat \ {0} /\ FirstLength >= 1
  BY <1>1 DEF FirstLength
<1> QED BY <1>1, <1>2, <1>3, <1>4

LEMMA AppendOne ==
    ASSUME NEW S, NEW s \in Seq(S), NEW e \in S
    PROVE  /\ Append(s, e) \in Seq(S) /\ Len(Append(s, e)) = Len(s) + 1 /\ Append(s, e) # <<>>
           /\ Len(s) \in Nat
           /\ \A n \in 1 .. Len(s) + 1 : Append(s, e)[n] = IF n <= Len(s) THEN s[n] ELSE e
OBVIOUS

LEMMA TailOne ==
    ASSUME NEW S, NEW s \in Seq(S), s # <<>>
    PROVE  /\ Head(s) \in S /\ Head(s) = s[1] /\ 1 \in 1 .. Len(s) /\ Len(s) \in Nat
           /\ Tail(s) \in Seq(S) /\ Len(Tail(s)) = Len(s) - 1
           /\ \A n \in 1 .. Len(s) - 1 : n + 1 \in 1 .. Len(s) /\ Tail(s)[n] = s[n + 1]
           /\ Len(s) = 1 => Tail(s) = <<>>
<1>1. /\ Head(s) \in S /\ Head(s) = s[1] /\ 1 \in 1 .. Len(s) /\ Len(s) \in Nat
      /\ Tail(s) \in Seq(S) /\ Len(Tail(s)) = Len(s) - 1
      /\ \A n \in 1 .. Len(s) - 1 : n + 1 \in 1 .. Len(s) /\ Tail(s)[n] = s[n + 1]
  OBVIOUS
<1>2. Len(s) = 1 => Tail(s) = <<>>
  <2>1. Len(s) = 1 => Len(Tail(s)) = 0 /\ Tail(s) \in Seq(S)
    BY <1>1
  <2> QED BY <2>1, EmptySeq
<1> QED BY <1>1, <1>2

LEMMA EmptyFacts == ASSUME NEW S, NEW s \in Seq(S) PROVE (s = <<>> <=> Len(s) = 0) /\ Len(s) \in Nat
OBVIOUS

LEMMA SubFacts ==
    ASSUME NEW w \in [Tensor -> Nat], NEW S \in SUBSET Tensor
    PROVE  /\ Sub(w, S) \in Parts /\ DOMAIN Sub(w, S) = S
           /\ \A t \in S : Sub(w, S)[t] = w[t]
<1>1. Sub(w, S) \in [S -> Nat]
  BY DEF Sub
<1>2. Sub(w, S) \in Parts
  BY <1>1 DEF Parts
<1> QED BY <1>2 DEF Sub

LEMMA PartFacts ==
    ASSUME NEW p \in Parts
    PROVE  /\ DOMAIN p \in SUBSET Tensor /\ p = [t \in DOMAIN p |-> p[t]]
           /\ \A t \in DOMAIN p : p[t] \in Nat
<1>1. PICK S \in SUBSET Tensor : p \in [S -> Nat]
  BY DEF Parts
<1>2. DOMAIN p = S
  BY <1>1
<1> QED BY <1>1, <1>2

LEMMA LoadModelType ==
    ASSUME NEW p \in Parts, NEW w \in [Tensor -> Nat \cup {Own}]
    PROVE  /\ Load(p, w) \in [Tensor -> Nat \cup {Own}]
           /\ \A t \in Tensor : Load(p, w)[t] = IF t \in DOMAIN p THEN p[t] ELSE w[t]
<1>1. DOMAIN p \cup DOMAIN w = Tensor
  BY PartFacts
<1>2. \A t \in Tensor : (IF t \in DOMAIN p THEN p[t] ELSE w[t]) \in Nat \cup {Own}
  BY PartFacts
<1>3. Load(p, w) = [t \in Tensor |-> IF t \in DOMAIN p THEN p[t] ELSE w[t]]
  BY <1>1 DEF Load
<1> QED BY <1>2, <1>3

LEMMA LoadBufferType ==
    ASSUME NEW p \in Parts, NEW q \in Parts
    PROVE  Load(p, q) \in Parts
<1>1. /\ DOMAIN p \cup DOMAIN q \in SUBSET Tensor
      /\ \A t \in DOMAIN p \cup DOMAIN q : (IF t \in DOMAIN p THEN p[t] ELSE q[t]) \in Nat
  BY PartFacts
<1>2. Load(p, q) \in [DOMAIN p \cup DOMAIN q -> Nat]
  BY <1>1 DEF Load
<1> QED BY <1>1, <1>2 DEF Parts

LEMMA NoBufferType == NoBuffer \in Parts /\ DOMAIN NoBuffer = {}
<1>1. NoBuffer \in [{} -> Nat]
  BY DEF NoBuffer
<1> QED BY <1>1 DEF Parts

LEMMA WeightsType ==
    ASSUME SyncType
    PROVE  /\ Updates \in Nat /\ Weights \in [Tensor -> Nat]
           /\ \A u \in 0..Updates : WeightsAt(u) \in [Tensor -> Nat]
<1>1. history \in Seq([Tensor -> Nat]) /\ Len(history) > 0 /\ Len(history) \in Nat
  BY DEF SyncType
<1>2. Updates \in Nat /\ Updates = Len(history) - 1
  BY <1>1 DEF Updates
<1>3. ASSUME NEW u \in 0..Updates PROVE WeightsAt(u) \in [Tensor -> Nat]
  <2>1. u + 1 \in 1..Len(history)
    BY <1>1, <1>2
  <2> QED BY <1>1, <2>1 DEF WeightsAt
<1> QED BY <1>2, <1>3 DEF Weights

LEMMA UpdateType ==
    ASSUME SyncType, Update
    PROVE  /\ history' \in Seq([Tensor -> Nat]) /\ Len(history') > 0 /\ Updates' = Updates + 1
           /\ \A u \in 0..Updates : WeightsAt(u)' = WeightsAt(u)
<1>1. PICK changed \in SUBSET Tensor :
        history' = Append(history, [t \in Tensor |-> IF t \in changed THEN Updates + 1 ELSE Weights[t]])
  BY DEF Update
<1> DEFINE w == [t \in Tensor |-> IF t \in changed THEN Updates + 1 ELSE Weights[t]]
<1>2. w \in [Tensor -> Nat]
  BY WeightsType
<1>3. history \in Seq([Tensor -> Nat]) /\ Updates = Len(history) - 1 /\ Updates \in Nat
  BY WeightsType DEF SyncType, Updates
<1> HIDE DEF w
<1>4. /\ history' \in Seq([Tensor -> Nat]) /\ Len(history') = Len(history) + 1
      /\ \A n \in 1 .. Len(history) : history'[n] = history[n]
  BY <1>1, <1>2, <1>3 DEF w
<1>5. ASSUME NEW u \in 0..Updates PROVE WeightsAt(u)' = WeightsAt(u)
  <2>1. u + 1 \in 1..Len(history)
    BY <1>3
  <2> QED BY <1>4, <2>1 DEF WeightsAt
<1> QED BY <1>3, <1>4, <1>5 DEF Updates

-----------------------------------------------------------------------------
(* Each step of the sender.                                                *)

SyncPhases ==
    /\ SenderPlace /\ ReceiverPlace /\ SenderPhase /\ ReceiverPhase
    /\ BeforeMetadata /\ BeforeSnapshot /\ MetadataUnderWay /\ OnlyPatches

SenderAdvances ==
    /\ Len(wire') + SendRest' = Len(wire) + SendRest
    /\ sender.at # "idle"
    /\ sender'.at = "idle" => wire' = wire /\ CanSend

LEMMA SendBucketType ==
    ASSUME SyncInv, SendBucket, UNCHANGED <<syncer, history, version, receiverVars>>
    PROVE  SyncType'
<1>1. /\ sender.next \in 1..N /\ sender' = [sender EXCEPT !.next = @ + 1]
      /\ wire' = Append(wire, BucketMessage(sender.next))
      /\ UNCHANGED <<snapshot, metadata, syncer, history, version, receiver, ready, buffer, model, label>>
  BY BucketFacts DEF SyncInv, SyncType, SenderPlace, SendBucket, receiverVars, N
<1>2. BucketMessage(sender.next) \in Messages
  <2>1. Sub(Weights, Buckets[sender.next]) \in Parts
    BY <1>1, BucketFacts, WeightsType, SubFacts DEF SyncInv
  <2> QED BY <2>1 DEF BucketMessage, Messages, SyncInv, SyncType
<1>3. wire' \in Seq(Messages)
  BY <1>1, <1>2, AppendOne DEF SyncInv, SyncType
<1>4. sender' \in [at : {"idle", "metadata", "init", "snapshot", "sync", "sent"}, next : 0..(N + 1)]
  <2>1. sender' = [at |-> sender.at, next |-> sender.next + 1] /\ sender.next + 1 \in 0..(N + 1)
    BY SMTT(30), <1>1, BucketFacts DEF SyncInv, SyncType
  <2> QED BY <2>1 DEF SyncInv, SyncType
<1> QED BY <1>1, <1>3, <1>4 DEF SyncInv, SyncType

LEMMA SendBucketKeeps ==
    ASSUME SyncInv, SendBucket, UNCHANGED <<syncer, history, version, receiverVars>>
    PROVE  SyncInv' /\ SenderAdvances /\ Len(wire') = Len(wire) + 1
<1>1. /\ sender.at \in {"init", "sync"} /\ (sender.at = "sync" => ~Patches)
      /\ sender.next \in 1..N /\ sender' = [sender EXCEPT !.next = @ + 1]
      /\ UNCHANGED <<snapshot, metadata, syncer, receiver, ready>>
      /\ sender'.at = sender.at /\ sender'.next = sender.next + 1
  BY BucketFacts DEF SyncInv, SyncType, SenderPlace, SendBucket, receiverVars, N
<1>2. SyncType'
  BY SendBucketType
<1>3. Len(wire') = Len(wire) + 1 /\ Len(wire) \in Nat
  <2>1. wire' = Append(wire, BucketMessage(sender.next)) /\ wire \in Seq(Messages)
    BY DEF SendBucket, SyncInv, SyncType
  <2> QED BY <2>1
<1>4. Patches' <=> Patches
  BY <1>1 DEF Patches
<1>5. SyncPhases'
  BY <1>1, <1>4 DEF SyncInv, SyncPhases, SenderPlace, ReceiverPlace, SenderPhase, ReceiverPhase,
     BeforeMetadata, BeforeSnapshot, MetadataUnderWay, OnlyPatches, Patches
<1>6. SendRest' = SendRest - 1 /\ SendRest \in Int
  BY SMTT(30), <1>1, <1>4, BucketFacts DEF SendRest
<1>7. SenderAdvances
  BY <1>1, <1>3, <1>6 DEF SenderAdvances
<1> QED BY <1>2, <1>3, <1>5, <1>7 DEF SyncInv, SyncPhases

LEMMA RecvMetadataKeeps ==
    ASSUME SyncInv, RecvMetadata, UNCHANGED <<syncer, history, version, receiverVars>>
    PROVE  SyncInv' /\ SenderAdvances /\ wire' = wire
<1>1. /\ sender.at = "metadata" /\ metadata /\ ~metadata' /\ metadata' = FALSE
      /\ sender' = [sender EXCEPT !.at = IF syncer = "patch_init" THEN "init" ELSE "snapshot"]
      /\ UNCHANGED <<snapshot, wire, syncer, history, version, receiver, ready, buffer, model, label>>
      /\ sender'.at = (IF syncer = "patch_init" THEN "init" ELSE "snapshot") /\ sender'.next = 1
  BY DEF SyncInv, SyncType, SenderPlace, RecvMetadata, receiverVars
<1>2. SyncType'
  BY <1>1, BucketFacts DEF SyncInv, SyncType
<1>4. (Patches' <=> Patches) /\ Patches
  BY <1>1 DEF Patches, SyncInv, SenderPhase
<1>5. SyncPhases'
  BY <1>1, <1>4 DEF SyncInv, SyncPhases, SenderPlace, ReceiverPlace, SenderPhase, ReceiverPhase,
     BeforeMetadata, BeforeSnapshot, MetadataUnderWay, OnlyPatches, Patches
<1>6. SendRest' = SendRest
  BY <1>1, <1>4, BucketFacts DEF SendRest, FirstLength
<1>7. SenderAdvances
  BY <1>1, <1>6 DEF SenderAdvances
<1> QED BY <1>1, <1>2, <1>5, <1>7 DEF SyncInv, SyncPhases

PatchData == Sub(Weights, Changed(Weights, IF snapshot = Unset THEN Weights ELSE snapshot))

LEMMA SendPatchKeeps ==
    ASSUME SyncInv, SendPatch, UNCHANGED <<syncer, history, version, receiverVars>>
    PROVE  /\ SyncInv' /\ SenderAdvances /\ Patches
           /\ wire' = Append(wire, [version |-> version, data |-> PatchData])
           /\ [version |-> version, data |-> PatchData] \in Messages
<1>1. /\ sender.at \in {"sync", "snapshot", "init"} /\ (sender.at = "sync" => Patches)
      /\ sender.at = "init" => sender.next > Len(Buckets)
      /\ sender' = [sender EXCEPT !.at = "sent"]
      /\ snapshot' = Weights
      /\ wire' = Append(wire, [version |-> version, data |-> PatchData])
      /\ UNCHANGED <<metadata, syncer, history, version, receiver, ready, buffer, model, label>>
      /\ sender'.at = "sent" /\ sender'.next = sender.next
  BY DEF SyncInv, SyncType, SendPatch, InitSyncSent, receiverVars, PatchData
<1>2. [version |-> version, data |-> PatchData] \in Messages
  <2>1. PatchData \in Parts
    BY WeightsType, SubFacts DEF SyncInv, PatchData, Changed
  <2> QED BY <2>1 DEF Messages, SyncInv, SyncType
<1>3. wire' \in Seq(Messages) /\ Len(wire') = Len(wire) + 1 /\ Len(wire) \in Nat
  BY <1>1, <1>2, AppendOne DEF SyncInv, SyncType
<1>4. snapshot' \in [Tensor -> Nat] /\ snapshot' # Unset
  BY <1>1, WeightsType, SyncAssumption DEF SyncInv
<1>5. SyncType'
  BY <1>1, <1>3, <1>4 DEF SyncInv, SyncType
<1>6. (Patches' <=> Patches) /\ Patches
  BY <1>1 DEF Patches, SyncInv, SenderPhase
<1>7. SyncPhases'
  BY <1>1, <1>4, <1>6 DEF SyncInv, SyncPhases, SenderPlace, ReceiverPlace, SenderPhase, ReceiverPhase,
     BeforeMetadata, BeforeSnapshot, MetadataUnderWay, OnlyPatches, Patches
<1>8. SendRest' = 0 /\ SendRest = 1
  <2>1. sender.at = "init" => sender.next = N + 1
    BY <1>1, BucketFacts DEF SyncInv, SyncType, N
  <2> QED BY <1>1, <1>6, <2>1, BucketFacts DEF SendRest
<1>9. SenderAdvances
  BY <1>1, <1>3, <1>8 DEF SenderAdvances
<1> QED BY <1>1, <1>2, <1>5, <1>6, <1>7, <1>9 DEF SyncInv, SyncPhases

LEMMA FinishSendKeeps ==
    ASSUME SyncInv, FinishSend, UNCHANGED <<syncer, history, version, receiverVars>>
    PROVE  SyncInv' /\ SenderAdvances /\ wire' = wire /\ sender'.at = "idle" /\ SendRest = 0
<1>1. /\ \/ sender.at = "sent"
         \/ sender.at = "sync" /\ ~Patches /\ sender.next > Len(Buckets)
      /\ CanSend /\ sender' = SenderIdle
      /\ UNCHANGED <<snapshot, wire, metadata, syncer, history, version, receiver, ready, buffer, model, label>>
      /\ sender'.at = "idle"
  BY DEF FinishSend, receiverVars, SenderIdle
<1>2. SyncType'
  BY <1>1, BucketFacts DEF SyncInv, SyncType, SenderIdle
<1>4. Patches' <=> Patches
  BY <1>1 DEF Patches
<1>5. SyncPhases'
  BY <1>1, <1>4 DEF SyncInv, SyncPhases, SenderPlace, ReceiverPlace, SenderPhase, ReceiverPhase,
     BeforeMetadata, BeforeSnapshot, MetadataUnderWay, OnlyPatches, Patches
<1>6. SendRest' = 0 /\ SendRest = 0
  <2>1. sender.at = "sync" => sender.next = N + 1
    BY <1>1, BucketFacts DEF SyncInv, SyncType, N, SenderPhase
  <2> QED BY <1>1, <1>4, <2>1, BucketFacts DEF SendRest
<1>7. SenderAdvances
  BY <1>1, <1>6 DEF SenderAdvances
<1> QED BY <1>1, <1>2, <1>5, <1>6, <1>7 DEF SyncInv, SyncPhases

LEMMA SenderKeeps ==
    ASSUME SyncInv, SenderStep, UNCHANGED <<syncer, history, version, receiverVars>>
    PROVE  SyncInv' /\ SenderAdvances
BY SendBucketKeeps, RecvMetadataKeeps, SendPatchKeeps, FinishSendKeeps DEF SenderStep

-----------------------------------------------------------------------------
(* Each step of the receiver, an update of the weights, the initial state. *)

ReceiverAdvances ==
    /\ Len(wire') + RecvRest = Len(wire) + RecvRest'
    /\ receiver.at # "idle"

LEMMA HeadFacts ==
    ASSUME SyncInv, wire # <<>>
    PROVE  /\ Head(wire) = wire[1] /\ Head(wire) \in Messages
           /\ Head(wire).data \in Parts /\ Head(wire).version \in Nat
           /\ Tail(wire) \in Seq(Messages) /\ Len(Tail(wire)) = Len(wire) - 1 /\ Len(wire) \in Nat
<1>1. wire \in Seq(Messages)
  BY DEF SyncInv, SyncType
<1>2. /\ Head(wire) = wire[1] /\ Head(wire) \in Messages
      /\ Tail(wire) \in Seq(Messages) /\ Len(Tail(wire)) = Len(wire) - 1 /\ Len(wire) \in Nat
  BY <1>1, TailOne
<1> QED BY <1>2 DEF Messages

LEMMA SendMetadataKeeps ==
    ASSUME SyncInv, SendMetadata, UNCHANGED <<syncer, history, version, senderVars>>
    PROVE  SyncInv' /\ ReceiverAdvances /\ Patches
<1>1. /\ receiver.at = "metadata" /\ metadata' = TRUE
      /\ receiver' = [receiver EXCEPT !.at = IF syncer = "patch_init" THEN "init" ELSE "apply"]
      /\ ready' = (syncer # "patch_init")
      /\ UNCHANGED <<wire, buffer, model, label, syncer, history, version, sender, snapshot>>
      /\ receiver'.at = (IF syncer = "patch_init" THEN "init" ELSE "apply") /\ receiver'.got = 0
      /\ receiver.got = 0
  BY DEF SyncInv, SyncType, ReceiverPlace, SendMetadata, senderVars
<1>2. SyncType'
  BY <1>1, BucketFacts DEF SyncInv, SyncType
<1>3. (Patches' <=> Patches) /\ Patches
  BY <1>1 DEF Patches, SyncInv, ReceiverPhase
<1>a. /\ wire = <<>> /\ snapshot = Unset /\ sender.at \in {"idle", "metadata"}
      /\ ready' <=> syncer # "patch_init"
  BY <1>1, <1>3 DEF SyncInv, BeforeMetadata, ReceiverPhase
<1>4. SyncPhases'
  BY <1>1, <1>3, <1>a DEF SyncInv, SyncPhases, SenderPlace, ReceiverPlace, SenderPhase, ReceiverPhase,
     BeforeMetadata, BeforeSnapshot, MetadataUnderWay, OnlyPatches, Patches
<1>5. RecvRest' = RecvRest
  BY <1>1, <1>3, BucketFacts DEF RecvRest, FirstLength
<1>6. ReceiverAdvances
  BY <1>1, <1>5 DEF ReceiverAdvances
<1> QED BY <1>2, <1>3, <1>4, <1>6 DEF SyncInv, SyncPhases

LEMMA ApplyInitKeeps ==
    ASSUME SyncInv, ApplyInitBucket, UNCHANGED <<syncer, history, version, senderVars>>
    PROVE  SyncInv' /\ ReceiverAdvances /\ Patches
<1>1. /\ receiver.at = "init" /\ wire # <<>>
      /\ wire' = Tail(wire)
      /\ model' = Load(Head(wire).data, model)
      /\ UNCHANGED <<metadata, buffer, label, syncer, history, version, sender, snapshot>>
  BY DEF ApplyInitBucket, senderVars
<1>2. \/ /\ receiver.got + 1 = N /\ ready' = TRUE
         /\ receiver' = [receiver EXCEPT !.at = "apply", !.got = 0]
         /\ receiver'.at = "apply" /\ receiver'.got = 0
      \/ /\ receiver.got + 1 # N /\ ready' = ready
         /\ receiver' = [receiver EXCEPT !.got = @ + 1]
         /\ receiver'.at = receiver.at /\ receiver'.got = receiver.got + 1
  BY DEF ApplyInitBucket, N, SyncInv, SyncType
<1>3. Patches /\ (Patches' <=> Patches) /\ syncer = "patch_init" /\ ~ready
  BY <1>1 DEF Patches, SyncInv, ReceiverPhase
<1>4. Head(wire).data \in Parts /\ wire' \in Seq(Messages) /\ Len(wire') = Len(wire) - 1 /\ Len(wire) \in Nat
  BY <1>1, HeadFacts
<1>5. model' \in [Tensor -> Nat \cup {Own}]
  BY <1>1, <1>4, LoadModelType DEF SyncInv, SyncType
<1>6. receiver' \in [at : {"idle", "metadata", "init", "apply"}, got : 0..(N - 1), version : Nat]
  <2>1. receiver.got + 1 # N => receiver.got + 1 \in 0..(N - 1)
    BY BucketFacts DEF SyncInv, SyncType
  <2>2. 0 \in 0..(N - 1)
    BY BucketFacts
  <2> QED BY <1>2, <2>1, <2>2 DEF SyncInv, SyncType
<1>7. SyncType'
  BY <1>1, <1>2, <1>4, <1>5, <1>6 DEF SyncInv, SyncType
<1>8. SyncPhases'
  BY <1>1, <1>2, <1>3 DEF SyncInv, SyncPhases, SenderPlace, ReceiverPlace, SenderPhase, ReceiverPhase,
     BeforeMetadata, BeforeSnapshot, MetadataUnderWay, OnlyPatches, Patches
<1>9. RecvRest' = RecvRest - 1 /\ RecvRest \in Int
  <2>1. receiver.got \in Nat /\ N \in Nat
    BY BucketFacts DEF SyncInv, SyncType
  <2>2. RecvRest = N + 1 - receiver.got
    BY <1>1 DEF RecvRest
  <2>3. CASE receiver.got + 1 = N /\ receiver'.at = "apply"
    BY <1>3, <2>1, <2>2, <2>3 DEF RecvRest
  <2>4. CASE receiver'.at = "init" /\ receiver'.got = receiver.got + 1
    BY <2>1, <2>2, <2>4 DEF RecvRest
  <2> QED BY <1>1, <1>2, <2>3, <2>4
<1>10. ReceiverAdvances
  BY <1>1, <1>4, <1>9 DEF ReceiverAdvances
<1> QED BY <1>3, <1>7, <1>8, <1>10 DEF SyncInv, SyncPhases

LEMMA ApplyBucketFacts ==
    ASSUME SyncInv, ApplyBucket, UNCHANGED <<syncer, history, version, senderVars>>
    PROVE  /\ receiver.at = "apply" /\ ~Patches /\ wire # <<>> /\ wire' = Tail(wire)
           /\ Head(wire) = wire[1] /\ Head(wire) \in Messages /\ Head(wire).data \in Parts
           /\ UNCHANGED <<metadata, ready, syncer, history, version, sender, snapshot>>
           /\ Load(Head(wire).data, buffer) \in Parts
           /\ \/ /\ receiver.got + 1 = N /\ receiver' = ReceiverIdle /\ buffer' = NoBuffer
                 /\ label' = IF receiver.got = 0 THEN Head(wire).version ELSE receiver.version
                 /\ model' = Load(IF syncer = "instant" THEN Head(wire).data
                                  ELSE Load(Head(wire).data, buffer), model)
              \/ /\ receiver.got + 1 \in 0..(N - 1) /\ label' = label
                 /\ receiver' = [at |-> "apply", got |-> receiver.got + 1,
                        version |-> IF receiver.got = 0 THEN Head(wire).version ELSE receiver.version]
                 /\ buffer' = IF syncer = "instant" THEN NoBuffer ELSE Load(Head(wire).data, buffer)
                 /\ model' = IF syncer = "instant" THEN Load(Head(wire).data, model) ELSE model
<1>1. /\ receiver.at = "apply" /\ ~Patches /\ wire # <<>> /\ wire' = Tail(wire)
      /\ UNCHANGED <<metadata, ready, syncer, history, version, sender, snapshot>>
  BY DEF ApplyBucket, senderVars
<1>2. Head(wire) = wire[1] /\ Head(wire) \in Messages /\ Head(wire).data \in Parts
  BY <1>1, HeadFacts
<1>3. Load(Head(wire).data, buffer) \in Parts
  BY <1>2, LoadBufferType DEF SyncInv, SyncType
<1>4. receiver.got + 1 = N \/ receiver.got + 1 \in 0..(N - 1)
  BY BucketFacts DEF SyncInv, SyncType
<1>5. receiver.got + 1 \in 0..(N - 1) => receiver.got + 1 # N
  BY BucketFacts
<1>6. receiver = [at |-> "apply", got |-> receiver.got, version |-> receiver.version]
  BY <1>1 DEF SyncInv, SyncType
<1>7. CASE receiver.got + 1 = N
  BY <1>1, <1>2, <1>3, <1>7 DEF ApplyBucket, N
<1>8. CASE receiver.got + 1 \in 0..(N - 1)
  BY <1>1, <1>2, <1>3, <1>5, <1>6, <1>8 DEF ApplyBucket, N
<1> QED BY <1>4, <1>7, <1>8

LEMMA ApplyBucketKeeps ==
    ASSUME SyncInv, ApplyBucket, UNCHANGED <<syncer, history, version, senderVars>>
    PROVE  SyncInv' /\ ReceiverAdvances /\ ~Patches
<1>1. /\ receiver.at = "apply" /\ ~Patches /\ wire # <<>> /\ wire' = Tail(wire)
      /\ UNCHANGED <<metadata, ready, syncer, history, version, sender, snapshot>>
      /\ Head(wire) \in Messages /\ Head(wire).data \in Parts
      /\ Load(Head(wire).data, buffer) \in Parts
  BY ApplyBucketFacts
<1>2. /\ label' \in Nat /\ buffer' \in Parts /\ model' \in [Tensor -> Nat \cup {Own}]
      /\ receiver' \in [at : {"idle", "metadata", "init", "apply"}, got : 0..(N - 1), version : Nat]
  <2>1. Head(wire).version \in Nat /\ receiver.version \in Nat /\ label \in Nat /\ 0 \in 0..(N - 1)
    BY SMTT(30), <1>1, BucketFacts DEF Messages, SyncInv, SyncType
  <2>2. /\ Load(Head(wire).data, model) \in [Tensor -> Nat \cup {Own}]
        /\ Load(Load(Head(wire).data, buffer), model) \in [Tensor -> Nat \cup {Own}]
        /\ model \in [Tensor -> Nat \cup {Own}] /\ NoBuffer \in Parts
    BY <1>1, LoadModelType, NoBufferType DEF SyncInv, SyncType
  <2> QED BY <1>1, <2>1, <2>2, ApplyBucketFacts DEF ReceiverIdle
<1>3. wire' \in Seq(Messages) /\ Len(wire') = Len(wire) - 1 /\ Len(wire) \in Nat
  BY <1>1, TailOne DEF SyncInv, SyncType
<1>4. SyncType'
  BY <1>1, <1>2, <1>3 DEF SyncInv, SyncType
<1>5. \/ receiver.got + 1 = N /\ receiver' = ReceiverIdle /\ receiver'.at = "idle"
      \/ receiver'.at = "apply" /\ receiver'.got = receiver.got + 1
  BY ApplyBucketFacts DEF ReceiverIdle
<1>6. Patches' <=> Patches
  BY <1>1 DEF Patches
<1>7. SyncPhases'
  BY <1>1, <1>5, <1>6 DEF SyncInv, SyncPhases, SenderPlace, ReceiverPlace, SenderPhase, ReceiverPhase,
     BeforeMetadata, BeforeSnapshot, MetadataUnderWay, OnlyPatches, Patches
<1>8. RecvRest' = RecvRest - 1 /\ RecvRest \in Int
  <2>1. receiver.got \in Nat /\ N \in Nat
    BY BucketFacts DEF SyncInv, SyncType
  <2>2. RecvRest = N - receiver.got
    BY <1>1 DEF RecvRest
  <2>3. CASE receiver.got + 1 = N /\ receiver'.at = "idle"
    BY <2>1, <2>2, <2>3 DEF RecvRest
  <2>4. CASE receiver'.at = "apply" /\ receiver'.got = receiver.got + 1
    BY <1>1, <1>6, <2>1, <2>2, <2>4 DEF RecvRest
  <2> QED BY <1>5, <2>3, <2>4
<1>9. ReceiverAdvances
  BY <1>1, <1>3, <1>8 DEF ReceiverAdvances
<1> QED BY <1>1, <1>4, <1>7, <1>9 DEF SyncInv, SyncPhases

LEMMA ApplyPatchKeeps ==
    ASSUME SyncInv, ApplyPatch, UNCHANGED <<syncer, history, version, senderVars>>
    PROVE  SyncInv' /\ ReceiverAdvances /\ Patches
<1>1. /\ receiver.at = "apply" /\ Patches /\ wire # <<>> /\ wire' = Tail(wire)
      /\ model' = Load(Head(wire).data, model)
      /\ label' = Head(wire).version
      /\ receiver' = ReceiverIdle /\ receiver'.at = "idle"
      /\ UNCHANGED <<metadata, ready, buffer, syncer, history, version, sender, snapshot>>
  BY DEF ApplyPatch, senderVars, ReceiverIdle
<1>2. /\ Head(wire) \in Messages /\ Head(wire).data \in Parts /\ Head(wire).version \in Nat
      /\ wire' \in Seq(Messages) /\ Len(wire') = Len(wire) - 1 /\ Len(wire) \in Nat
  BY <1>1, HeadFacts
<1>3. model' \in [Tensor -> Nat \cup {Own}]
  BY <1>1, <1>2, LoadModelType DEF SyncInv, SyncType
<1>4. SyncType'
  BY <1>1, <1>2, <1>3, BucketFacts DEF SyncInv, SyncType, ReceiverIdle
<1>5. Patches' <=> Patches
  BY <1>1 DEF Patches
<1>6. SyncPhases'
  BY <1>1, <1>5 DEF SyncInv, SyncPhases, SenderPlace, ReceiverPlace, SenderPhase, ReceiverPhase,
     BeforeMetadata, BeforeSnapshot, MetadataUnderWay, OnlyPatches, Patches
<1>7. RecvRest' = 0 /\ RecvRest = 1
  BY <1>1, <1>5 DEF RecvRest
<1>8. ReceiverAdvances
  BY <1>1, <1>2, <1>7 DEF ReceiverAdvances
<1> QED BY <1>1, <1>4, <1>6, <1>8 DEF SyncInv, SyncPhases

LEMMA ReceiverKeeps ==
    ASSUME SyncInv, ReceiverStep, UNCHANGED <<syncer, history, version, senderVars>>
    PROVE  SyncInv' /\ ReceiverAdvances
BY SendMetadataKeeps, ApplyInitKeeps, ApplyBucketKeeps, ApplyPatchKeeps DEF ReceiverStep

LEMMA UpdateKeeps ==
    ASSUME SyncInv, Update, UNCHANGED <<syncer, version, senderVars, wire, metadata, receiverVars>>
    PROVE  SyncInv'
<1>1. UNCHANGED <<syncer, version, sender, snapshot, wire, metadata, receiver, ready, buffer, model, label>>
  BY DEF senderVars, receiverVars
<1>2. history' \in Seq([Tensor -> Nat]) /\ Len(history') > 0
  BY UpdateType DEF SyncInv
<1>3. SyncType'
  BY <1>1, <1>2 DEF SyncInv, SyncType
<1>4. SyncPhases'
  BY <1>1 DEF SyncInv, SyncPhases, SenderPlace, ReceiverPlace, SenderPhase, ReceiverPhase,
     BeforeMetadata, BeforeSnapshot, MetadataUnderWay, OnlyPatches, Patches
<1> QED BY <1>3, <1>4 DEF SyncInv, SyncPhases

LEMMA SyncInitType ==
    ASSUME SyncInit
    PROVE  SyncInv /\ SendRest = 0 /\ RecvRest = 0 /\ Updates = 0 /\ Weights \in [Tensor -> Nat]
<1>1. /\ syncer \in SyncerKinds /\ history = <<[t \in Tensor |-> 0]>> /\ version = 0
      /\ sender = SenderIdle /\ snapshot = Unset /\ wire = <<>> /\ metadata = FALSE
      /\ receiver = ReceiverIdle /\ ready = FALSE /\ buffer = NoBuffer /\ label = 0
      /\ sender.at = "idle" /\ receiver.at = "idle" /\ sender.next = 0 /\ receiver.got = 0
  BY SyncAssumption DEF SyncInit, SenderIdle, ReceiverIdle
<1>2. /\ history \in Seq([Tensor -> Nat]) /\ Len(history) = 1
      /\ Updates = 0 /\ Weights = [t \in Tensor |-> 0] /\ Weights \in [Tensor -> Nat]
  BY <1>1 DEF Updates, Weights, WeightsAt
<1>3. model \in [Tensor -> Nat \cup {Own}]
  <2>1. model = Weights \/ model = [t \in Tensor |-> Own]
    BY DEF SyncInit
  <2>2. [t \in Tensor |-> Own] \in [Tensor -> Nat \cup {Own}]
    OBVIOUS
  <2>3. Weights \in [Tensor -> Nat \cup {Own}]
    BY <1>2
  <2> QED BY <2>1, <2>2, <2>3
<1>4. SyncType
  <2>1. 0 \in 0..(N + 1) /\ 0 \in 0..(N - 1) /\ wire \in Seq(Messages) /\ Len(history) > 0
    BY <1>1, <1>2, BucketFacts
  <2>2. /\ sender \in [at : {"idle", "metadata", "init", "snapshot", "sync", "sent"}, next : 0..(N + 1)]
        /\ receiver \in [at : {"idle", "metadata", "init", "apply"}, got : 0..(N - 1), version : Nat]
    BY <1>1, <2>1 DEF SenderIdle, ReceiverIdle
  <2> QED BY <1>1, <1>2, <1>3, <2>1, <2>2, NoBufferType DEF SyncType
<1>5. SyncPhases
  BY <1>1 DEF SyncPhases, SenderPlace, ReceiverPlace, SenderPhase, ReceiverPhase,
     BeforeMetadata, BeforeSnapshot, MetadataUnderWay, OnlyPatches
<1> QED BY <1>1, <1>2, <1>4, <1>5 DEF SyncInv, SyncPhases, SendRest, RecvRest

-----------------------------------------------------------------------------
(* Calls of a sync, and asynchronous SAC.                                  *)

LEMMA WholeFacts ==
    ASSUME SyncInv
    PROVE  /\ SendRest \in Nat /\ RecvRest \in Nat /\ Len(wire) \in Nat
           /\ WholeSend \in Nat \ {0} /\ WholeRecv \in Nat \ {0}
           /\ sender.at = "idle" => SendRest = 0
           /\ receiver.at = "idle" => RecvRest = 0
           /\ receiver.at # "idle" => RecvRest > 0
           /\ wire = <<>> <=> Len(wire) = 0
           /\ SendRest > 0 => sender.at # "sent"
           /\ sender.at \in {"metadata", "init", "snapshot"} => SendRest > 0
           /\ sender.at = "sync" => (SendRest > 0 <=> Patches \/ sender.next <= N)
           /\ sender.at = "sent" => SendRest = 0
<1>1. /\ N \in Nat \ {0} /\ FirstLength \in Nat \ {0}
      /\ sender.next \in 0..(N + 1) /\ receiver.got \in 0..(N - 1) /\ wire \in Seq(Messages)
      /\ sender.at \in {"idle", "metadata", "init", "snapshot", "sync", "sent"}
      /\ receiver.at \in {"idle", "metadata", "init", "apply"}
  BY BucketFacts DEF SyncInv, SyncType
<1>2. /\ SendRest \in Nat
      /\ sender.at = "idle" => SendRest = 0
      /\ sender.at \in {"metadata", "init", "snapshot"} => SendRest > 0
      /\ sender.at = "sync" => (SendRest > 0 <=> Patches \/ sender.next <= N)
      /\ sender.at = "sent" => SendRest = 0
  BY SMTT(30), <1>1 DEF SendRest
<1>3. /\ RecvRest \in Nat
      /\ receiver.at = "idle" => RecvRest = 0
      /\ receiver.at # "idle" => RecvRest > 0
  BY <1>1 DEF RecvRest
<1>4. Len(wire) \in Nat /\ (wire = <<>> <=> Len(wire) = 0)
  BY <1>1, EmptyFacts
<1>5. WholeSend \in Nat \ {0} /\ WholeRecv \in Nat \ {0}
  BY <1>1 DEF WholeSend, WholeRecv
<1> QED BY <1>2, <1>3, <1>4, <1>5

LEMMA WholeFactsNext ==
    ASSUME SyncInv'
    PROVE  SendRest' \in Nat /\ RecvRest' \in Nat /\ Len(wire') \in Nat
<1>1. /\ N \in Nat \ {0} /\ FirstLength' \in Nat \ {0}
      /\ sender'.next \in 0..(N + 1) /\ receiver'.got \in 0..(N - 1) /\ wire' \in Seq(Messages)
  BY BucketFacts DEF SyncInv, SyncType, FirstLength
<1>2. Len(wire') \in Nat
  BY <1>1, EmptyFacts
<1>3. SendRest' \in Nat
  BY <1>1 DEF SendRest
<1>4. RecvRest' \in Nat
  BY <1>1 DEF RecvRest
<1> QED BY <1>2, <1>3, <1>4

LEMMA StartSendKeeps ==
    ASSUME SyncInv, StartSend, UNCHANGED <<syncer, history, version, snapshot, wire, metadata, receiverVars>>
    PROVE  SyncInv' /\ SendRest' = WholeSend /\ sender.at = "idle" /\ sender'.at # "idle"
<1>1. /\ sender = SenderIdle /\ sender.at = "idle"
      /\ UNCHANGED <<syncer, history, version, snapshot, wire, metadata, receiver, ready, buffer, model, label>>
      /\ sender'.at = (IF Patches /\ snapshot = Unset THEN "metadata" ELSE "sync") /\ sender'.next = 1
      /\ sender' = [at |-> IF Patches /\ snapshot = Unset THEN "metadata" ELSE "sync", next |-> 1]
  BY DEF StartSend, receiverVars, SenderIdle
<1>2. SyncType'
  BY <1>1, BucketFacts DEF SyncInv, SyncType
<1>3. Patches' <=> Patches
  BY <1>1 DEF Patches
<1>4. SyncPhases'
  BY <1>1, <1>3 DEF SyncInv, SyncPhases, SenderPlace, ReceiverPlace, SenderPhase, ReceiverPhase,
     BeforeMetadata, BeforeSnapshot, MetadataUnderWay, OnlyPatches, Patches
<1>5. SendRest' = WholeSend
  BY <1>1, <1>3, BucketFacts DEF SendRest, WholeSend, FirstLength
<1> QED BY <1>1, <1>2, <1>4, <1>5 DEF SyncInv, SyncPhases

LEMMA StartReceiveKeeps ==
    ASSUME SyncInv, StartReceive,
           UNCHANGED <<syncer, history, version, senderVars, wire, metadata, ready, buffer, model, label>>
    PROVE  SyncInv' /\ RecvRest' = WholeRecv /\ receiver.at = "idle" /\ receiver'.at # "idle"
<1>1. /\ receiver = ReceiverIdle /\ receiver.at = "idle" /\ receiver.got = 0
      /\ UNCHANGED <<syncer, history, version, snapshot, sender, wire, metadata, ready, buffer, model, label>>
      /\ receiver'.at = (IF Patches /\ ~ready THEN "metadata" ELSE "apply") /\ receiver'.got = 0
      /\ receiver' = [at |-> IF Patches /\ ~ready THEN "metadata" ELSE "apply", got |-> 0, version |-> 0]
  BY DEF StartReceive, senderVars, ReceiverIdle
<1>2. SyncType'
  BY <1>1, BucketFacts DEF SyncInv, SyncType
<1>3. Patches' <=> Patches
  BY <1>1 DEF Patches
<1>4. SyncPhases'
  BY <1>1, <1>3 DEF SyncInv, SyncPhases, SenderPlace, ReceiverPlace, SenderPhase, ReceiverPhase,
     BeforeMetadata, BeforeSnapshot, MetadataUnderWay, OnlyPatches, Patches
<1>5. RecvRest' = WholeRecv
  BY <1>1, <1>3, BucketFacts DEF RecvRest, WholeRecv, FirstLength
<1> QED BY <1>1, <1>2, <1>4, <1>5 DEF SyncInv, SyncPhases

-----------------------------------------------------------------------------
SACRest == SACType /\ OneRequest /\ Rendezvous /\ SACBalanced /\ PatchOwed

LEMMA RequestKeeps ==
    ASSUME SACInv, RequestSync, UNCHANGED <<syncVars, requested, work>>
    PROVE  SACInv'
<1>1. UNCHANGED <<syncer, history, version, sender, snapshot, wire, metadata, receiver, ready, buffer, model, label>>
  BY DEF syncVars, senderVars, receiverVars
<1>2. SyncInv'
  BY <1>1 DEF SACInv, SyncInv, SyncType, SenderPlace, ReceiverPlace, SenderPhase, ReceiverPhase,
     BeforeMetadata, BeforeSnapshot, MetadataUnderWay, OnlyPatches, Patches
<1>3. /\ WholeSend' = WholeSend /\ WholeRecv' = WholeRecv /\ SendRest' = SendRest /\ RecvRest' = RecvRest
      /\ (HandlesDone <=> calls = {} /\ sender.at = "idle")
      /\ (HandlesDone' <=> calls' = {} /\ sender.at = "idle")
  BY <1>1 DEF WholeSend, WholeRecv, SendRest, RecvRest, Patches, FirstLength, HandlesDone, SACInv, SyncInv,
     SenderPlace, SenderIdle
<1>4. CASE UNCHANGED <<calls, pending>>
  <2>1. SACRest'
    BY <1>1, <1>3, <1>4 DEF SACInv, SACRest, SACType, OneRequest, Rendezvous, SACBalanced, PatchOwed,
       SendOwed, RecvOwed
  <2> QED BY <1>2, <2>1 DEF SACInv, SACRest
<1>5. CASE HandlesDone /\ calls' = {"rollout", "actor"} /\ pending' = TRUE
  <2>1. calls = {} /\ sender.at = "idle" /\ wire = <<>> /\ SendOwed = 0 /\ RecvOwed = 0
    BY <1>3, <1>5, WholeFacts DEF SACInv, Rendezvous, SACBalanced, SendOwed, RecvOwed
  <2>2. ~requested /\ receiver.at = "idle"
    BY <2>1, WholeFacts DEF RecvOwed, SACInv
  <2>3. SendOwed' = WholeSend /\ RecvOwed' = WholeRecv
    BY <1>3, <1>5 DEF SendOwed, RecvOwed
  <2>4. WholeSend = WholeRecv /\ WholeSend > 0
    <3>1. ready /\ snapshot = Unset => FALSE
      BY <2>1 DEF SACInv, PatchOwed
    <3>2. Patches /\ ~ready => snapshot = Unset
      BY <2>2 DEF SACInv, SyncInv, BeforeMetadata
    <3> QED BY <3>1, <3>2, WholeFacts DEF WholeSend, WholeRecv, SACInv
  <2>5. Len(wire) = 0
    BY <2>1
  <2>6. SACType' /\ OneRequest' /\ Rendezvous'
    BY <1>1, <1>3, <1>5, <2>1, <2>2 DEF SACInv, SACType, OneRequest, Rendezvous
  <2>7. SACBalanced' /\ PatchOwed'
    <3>1. WholeSend \in Nat /\ Len(wire') = 0
      BY <1>1, <2>5, WholeFacts DEF SACInv
    <3>2. Len(wire') + SendOwed' = RecvOwed'
      BY <2>3, <2>4, <3>1
    <3>3. SendOwed' > 0
      BY <2>3, <2>4
    <3> QED BY <3>2, <3>3 DEF SACBalanced, PatchOwed
  <2> QED BY <1>2, <2>6, <2>7 DEF SACInv
<1>6. (pending /\ ~HandlesDone) \/ HandlesDone
  BY DEF SACInv, OneRequest
<1> QED BY <1>4, <1>5, <1>6 DEF RequestSync

LEMMA CallActorKeeps ==
    ASSUME SACInv, CallActor
    PROVE  SACInv'
<1>1. /\ "actor" \in calls /\ calls' = calls \ {"actor"} /\ StartSend
      /\ UNCHANGED <<syncer, history, version, snapshot, wire, metadata, receiver, ready, buffer, model, label>>
      /\ UNCHANGED <<pending, requested, work>>
      /\ UNCHANGED <<syncer, history, version, snapshot, wire, metadata, receiverVars>>
  BY DEF CallActor, receiverVars
<1>2. SyncInv' /\ SendRest' = WholeSend /\ sender.at = "idle" /\ sender'.at # "idle"
  BY <1>1, StartSendKeeps DEF SACInv
<1>3. /\ WholeRecv' = WholeRecv /\ RecvRest' = RecvRest
      /\ ~HandlesDone
  BY <1>1 DEF WholeRecv, RecvRest, Patches, FirstLength, HandlesDone
<1>4. SendOwed = WholeSend /\ SendOwed' = WholeSend /\ RecvOwed' = RecvOwed
  BY <1>1, <1>2, <1>3 DEF SendOwed, RecvOwed
<1>5. SACRest'
  BY <1>1, <1>2, <1>3, <1>4 DEF SACInv, SACRest, SACType, OneRequest, Rendezvous, SACBalanced, PatchOwed
<1> QED BY <1>2, <1>5 DEF SACInv, SACRest

LEMMA ActorSendsKeeps ==
    ASSUME WireCap = 1, SACInv, ActorSends
    PROVE  SACInv'
<1>1. /\ SenderStep /\ UNCHANGED <<syncer, history, version, receiverVars>>
      /\ UNCHANGED <<syncer, receiver, ready, calls, pending, requested, work>>
  BY DEF ActorSends, receiverVars, runVars
<1>2. SyncInv' /\ SenderAdvances
  BY <1>1, SenderKeeps DEF SACInv
<1>3. sender.at # "idle" /\ "actor" \notin calls /\ ~HandlesDone
  BY <1>2 DEF SenderAdvances, SACInv, OneRequest, HandlesDone, SenderIdle
<1>4. /\ WholeRecv' = WholeRecv /\ RecvRest' = RecvRest
  BY <1>1 DEF WholeRecv, RecvRest, Patches, FirstLength
<1>5. SendOwed = SendRest /\ SendOwed' = SendRest' /\ RecvOwed' = RecvOwed
  BY <1>1, <1>3, <1>4 DEF SendOwed, RecvOwed
<1>6. sender'.at = "idle" => wire' = <<>>
  <2>1. sender'.at = "idle" => wire' = wire /\ Len(wire) < 1
    BY <1>2 DEF SenderAdvances, CanSend
  <2> QED BY <2>1, WholeFacts DEF SACInv
<1>7. SACBalanced'
  BY <1>2, <1>5 DEF SenderAdvances, SACInv, SACBalanced
<1>8. PatchOwed'
  <2>1. SUFFICES ASSUME ready', snapshot' = Unset PROVE SendOwed' > 0
    BY DEF PatchOwed
  <2>2. Patches'
    BY <1>1, <1>2, <2>1 DEF SyncInv, OnlyPatches, Patches
  <2>3. sender'.at \in {"idle", "metadata", "init", "snapshot"}
    BY <1>2, <2>1, <2>2 DEF SyncInv, SenderPhase, SyncType
  <2>4. sender'.at # "idle"
    <3>1. SUFFICES ASSUME sender'.at = "idle" PROVE FALSE
      OBVIOUS
    <3>2. FinishSend
      BY <1>1, <1>3, <3>1 DEF SenderStep, SendBucket, RecvMetadata, SendPatch, SACInv, SyncInv, SyncType
    <3> QED BY <1>1, <2>1, <2>2, <3>2 DEF FinishSend, SACInv, SyncInv, SenderPhase, Patches
  <2>5. SendRest' > 0
    <3>1. sender'.next \in 0..(N + 1) /\ N \in Nat \ {0} /\ FirstLength' \in Nat \ {0}
      BY <1>2, BucketFacts DEF SyncInv, SyncType, FirstLength
    <3> QED BY <2>3, <2>4, <3>1 DEF SendRest
  <2> QED BY <1>5, <2>5
<1>9. SACType' /\ OneRequest' /\ Rendezvous'
  BY <1>1, <1>3, <1>6 DEF SACInv, SACType, OneRequest, Rendezvous
<1> QED BY <1>2, <1>7, <1>8, <1>9 DEF SACInv

LEMMA StartIfNeededKeeps ==
    ASSUME SACInv, NEW running \in BOOLEAN, NEW isRequested \in BOOLEAN,
           StartIfNeeded(isRequested, running),
           work = "running" => running,
           \/ "rollout" \in calls /\ calls' = calls \ {"rollout"} /\ isRequested
              /\ (work # "none" => running)
           \/ calls' = calls /\ (isRequested <=> requested) /\ (running => work = "running"),
           UNCHANGED <<syncer, history, version, senderVars, wire, metadata, ready, buffer, model, label, pending>>
    PROVE  SACInv'
<1>1. UNCHANGED <<syncer, history, version, sender, snapshot, wire, metadata, ready, buffer, model, label, pending>>
  BY DEF senderVars
<1>2. /\ WholeSend' = WholeSend /\ SendRest' = SendRest /\ WholeRecv' = WholeRecv
      /\ "actor" \in calls' <=> "actor" \in calls
      /\ SendOwed' = SendOwed
      /\ calls = {} => calls' = {}
  BY <1>1 DEF WholeSend, WholeRecv, SendRest, Patches, FirstLength, SendOwed
<1>3. CASE isRequested /\ ~running
  <2>1. StartReceive /\ requested' = FALSE /\ work' = "running"
    BY <1>3 DEF StartIfNeeded
  <2>2. SyncInv' /\ RecvRest' = WholeRecv /\ receiver.at = "idle" /\ receiver'.at # "idle"
    BY <2>1, StartReceiveKeeps DEF SACInv
  <2>3. RecvOwed = WholeRecv /\ RecvOwed' = RecvRest' /\ "rollout" \notin calls'
    BY <1>3, <2>1, <2>2 DEF RecvOwed, SACInv, OneRequest
  <2>4. SACType'
    BY <1>1, <1>2, <2>1 DEF SACInv, SACType
  <2>6. Rendezvous' /\ PatchOwed'
    BY <1>1, <1>2 DEF SACInv, Rendezvous, PatchOwed
  <2>7. SACBalanced'
    BY <1>1, <1>2, <2>2, <2>3 DEF SACInv, SACBalanced
  <2>5. OneRequest'
    BY <1>1, <1>2, <2>1, <2>2, <2>3 DEF SACInv, OneRequest, HandlesDone
  <2> QED BY <2>2, <2>4, <2>5, <2>6, <2>7 DEF SACInv
<1>4. CASE ~(isRequested /\ ~running)
  <2>1. /\ receiver' = receiver /\ (requested' <=> isRequested) /\ requested' = isRequested
        /\ work' = IF running THEN work ELSE "none"
    BY <1>4 DEF StartIfNeeded
  <2>2. SyncInv'
    BY <1>1, <2>1 DEF SACInv, SyncInv, SyncType, SenderPlace, ReceiverPlace, SenderPhase, ReceiverPhase,
     BeforeMetadata, BeforeSnapshot, MetadataUnderWay, OnlyPatches, Patches
  <2>3. RecvRest' = RecvRest
    BY <1>1, <2>1 DEF RecvRest, Patches, FirstLength
  <2>4. RecvOwed' = RecvOwed /\ ("rollout" \in calls' => ~requested')
        /\ ("rollout" \in calls' \/ requested' => receiver.at = "idle")
    BY <1>2, <2>1, <2>3 DEF RecvOwed, SACInv, OneRequest
  <2>5. work = "running" <=> work' = "running"
    BY <2>1
  <2>6. SACType'
    BY <1>1, <1>2, <2>1 DEF SACInv, SACType
  <2>7. Rendezvous' /\ SACBalanced' /\ PatchOwed'
    BY <1>1, <1>2, <2>4 DEF SACInv, Rendezvous, SACBalanced, PatchOwed
  <2>8. ~HandlesDone \/ HandlesDone'
    BY <1>1, <1>2 DEF HandlesDone
  <2>9. OneRequest'
    BY <1>1, <1>2, <2>1, <2>4, <2>5, <2>8 DEF SACInv, OneRequest
  <2> QED BY <2>2, <2>6, <2>7, <2>9 DEF SACInv
<1> QED BY <1>3, <1>4

LEMMA CallRolloutKeeps ==
    ASSUME SACInv, CallRollout
    PROVE  SACInv'
<1>1. /\ "rollout" \in calls /\ calls' = calls \ {"rollout"}
      /\ StartIfNeeded(TRUE, work # "none")
      /\ UNCHANGED <<syncer, history, version, senderVars, wire, metadata, ready, buffer, model, label, pending>>
  BY DEF CallRollout
<1>2. (work # "none") \in BOOLEAN /\ TRUE \in BOOLEAN
  OBVIOUS
<1>3. work = "running" => work # "none"
  OBVIOUS
<1> DEFINE running == work # "none"
<1>4. /\ running \in BOOLEAN /\ StartIfNeeded(TRUE, running) /\ (work = "running" => running)
      /\ (work # "none" => running)
  BY <1>1, <1>2, <1>3
<1> HIDE DEF running
<1> QED BY <1>1, <1>2, <1>4, StartIfNeededKeeps

LEMMA GenerateTurnKeeps ==
    ASSUME SACInv, GenerateTurn
    PROVE  SACInv'
<1>1. /\ StartIfNeeded(requested, work = "running") /\ calls' = calls
      /\ UNCHANGED <<syncer, history, version, senderVars, wire, metadata, ready, buffer, model, label, pending>>
  BY DEF GenerateTurn
<1>2. (work = "running") \in BOOLEAN /\ requested \in BOOLEAN
  BY DEF SACInv, SACType
<1> QED BY <1>1, <1>2, StartIfNeededKeeps

LEMMA RolloutReceivesKeeps ==
    ASSUME SACInv, RolloutReceives
    PROVE  SACInv'
<1>1. /\ ReceiverStep /\ UNCHANGED <<syncer, history, version, senderVars>>
      /\ UNCHANGED <<syncer, sender, snapshot, calls, pending, requested>>
      /\ work' = IF receiver' = ReceiverIdle THEN "done" ELSE work
  BY DEF RolloutReceives, senderVars
<1>2. SyncInv' /\ ReceiverAdvances
  BY <1>1, ReceiverKeeps DEF SACInv
<1>3. receiver.at # "idle" /\ "rollout" \notin calls /\ ~requested /\ work = "running"
  BY <1>2 DEF ReceiverAdvances, SACInv, OneRequest
<1>4. receiver' = ReceiverIdle <=> receiver'.at = "idle"
  BY <1>2 DEF SyncInv, ReceiverPlace, ReceiverIdle
<1>5. WholeSend' = WholeSend /\ SendRest' = SendRest /\ SendOwed' = SendOwed
  BY <1>1 DEF WholeSend, SendRest, SendOwed, Patches, FirstLength
<1>6. RecvOwed = RecvRest /\ RecvOwed' = RecvRest'
  BY <1>1, <1>3 DEF RecvOwed
<1>7. OneRequest' /\ SACType'
  BY <1>1, <1>3, <1>4 DEF SACInv, SACType, OneRequest, HandlesDone
<1>8. SACBalanced'
  <2>1. RecvRest \in Nat /\ RecvRest' \in Nat /\ SendOwed \in Nat /\ Len(wire) \in Nat /\ Len(wire') \in Nat
    BY <1>2, WholeFacts, WholeFactsNext DEF SACInv, SendOwed
  <2> QED BY <1>2, <1>5, <1>6, <2>1 DEF ReceiverAdvances, SACInv, SACBalanced
<1>9. Rendezvous'
  <2>1. wire = <<>> => wire' = wire
    BY <1>1 DEF ReceiverStep, SendMetadata, ApplyInitBucket, ApplyBucket, ApplyPatch
  <2> QED BY <1>1, <2>1 DEF SACInv, Rendezvous
<1>10. PatchOwed'
  <2>1. SUFFICES ASSUME ready', snapshot' = Unset PROVE SendOwed' > 0
    BY DEF PatchOwed
  <2>2. CASE ready
    BY <1>1, <1>5, <2>1, <2>2 DEF SACInv, PatchOwed
  <2>3. CASE ~ready
    <3>1. \/ SendMetadata
          \/ ApplyInitBucket /\ receiver.got + 1 = N
      BY <1>1, <2>1, <2>3 DEF ReceiverStep, ApplyInitBucket, ApplyBucket, ApplyPatch, N
    <3>2. CASE SendMetadata
      <4>1. wire' = wire /\ wire = <<>>
        BY <2>3, <3>2 DEF SendMetadata, SACInv, SyncInv, ReceiverPhase, BeforeMetadata
      <4>2. RecvOwed > 0 /\ Len(wire) = 0
        BY <1>3, <1>6, <4>1, WholeFacts DEF SACInv
      <4> QED BY <1>5, <4>2, WholeFacts DEF SACInv, SACBalanced, SendOwed
    <3>3. CASE ApplyInitBucket /\ receiver.got + 1 = N
      <4>1. receiver.at = "init" /\ wire # <<>> /\ syncer = "patch_init"
        BY <3>3 DEF ApplyInitBucket, SACInv, SyncInv, ReceiverPhase
      <4>2. sender.at = "init"
        BY <1>1, <2>1, <4>1 DEF SACInv, SyncInv, BeforeSnapshot, Patches
      <4>3. SendRest > 0 /\ "actor" \notin calls
        BY <4>2, WholeFacts DEF SACInv, OneRequest
      <4> QED BY <1>5, <4>3 DEF SendOwed
    <3> QED BY <3>1, <3>2, <3>3
  <2> QED BY <2>2, <2>3
<1> QED BY <1>2, <1>7, <1>8, <1>9, <1>10 DEF SACInv

LEMMA UpdateOneEpochKeeps ==
    ASSUME SACInv, UpdateOneEpoch
    PROVE  SACInv'
<1>1. /\ Update /\ UNCHANGED <<syncer, version, senderVars, wire, metadata, receiverVars>>
      /\ UNCHANGED <<syncer, sender, snapshot, wire, receiver, ready, calls, pending, requested, work>>
  BY DEF UpdateOneEpoch, senderVars, receiverVars
<1>2. SyncInv'
  BY <1>1, UpdateKeeps DEF SACInv
<1>3. SACRest'
  BY <1>1 DEF SACInv, SACRest, SACType, OneRequest, Rendezvous, SACBalanced, PatchOwed, HandlesDone,
     SendOwed, RecvOwed, WholeSend, WholeRecv, SendRest, RecvRest, Patches, FirstLength
<1> QED BY <1>2, <1>3 DEF SACInv, SACRest

LEMMA SACStep ==
    ASSUME WireCap = 1, SACInv, [SACNext]_sacVars
    PROVE  SACInv'
<1>1. CASE SACNext
  <2>1. ASSUME StartRun \/ NextStep PROVE RequestSync /\ UNCHANGED <<syncVars, requested, work>>
    BY <2>1 DEF StartRun, NextStep
  <2> QED BY <1>1, <2>1, RequestKeeps, UpdateOneEpochKeeps, CallActorKeeps, ActorSendsKeeps, CallRolloutKeeps,
         GenerateTurnKeeps, RolloutReceivesKeeps DEF SACNext
<1>2. CASE UNCHANGED sacVars
  <2>1. UNCHANGED <<syncer, history, version, sender, snapshot, wire, metadata, receiver, ready, buffer, model, label,
                    calls, pending, requested, work>>
    BY <1>2 DEF sacVars, syncVars, runVars, senderVars, receiverVars
  <2> QED BY <2>1 DEF SACInv, SyncInv, SyncType, SenderPlace, ReceiverPlace, SenderPhase, ReceiverPhase,
     BeforeMetadata, BeforeSnapshot, MetadataUnderWay, OnlyPatches, Patches, SACType, OneRequest, Rendezvous,
     SACBalanced, PatchOwed, HandlesDone, SendOwed, RecvOwed, WholeSend, WholeRecv, SendRest, RecvRest,
     FirstLength
<1> QED BY <1>1, <1>2

LEMMA SACStart ==
    ASSUME SACInit
    PROVE  SACInv
<1>1. SyncInit /\ calls = {} /\ ~pending /\ pending = FALSE /\ requested = FALSE /\ work = "none"
  BY DEF SACInit
<1>2. SyncInv /\ SendRest = 0 /\ RecvRest = 0
  BY <1>1, SyncInitType
<1>3. sender = SenderIdle /\ sender.at = "idle" /\ receiver.at = "idle" /\ wire = <<>> /\ ready = FALSE
  BY <1>1 DEF SyncInit, SenderIdle, ReceiverIdle
<1>4. Len(wire) = 0
  BY <1>3
<1>5. SendOwed = 0 /\ RecvOwed = 0
  BY <1>1, <1>2 DEF SendOwed, RecvOwed
<1>6. SACBalanced /\ PatchOwed /\ Rendezvous
  BY <1>3, <1>4, <1>5 DEF SACBalanced, PatchOwed, Rendezvous
<1>7. SACType /\ OneRequest
  BY <1>1, <1>3 DEF SACType, OneRequest, HandlesDone, SyncInit
<1> QED BY <1>2, <1>6, <1>7 DEF SACInv

(* The invariant of asynchronous SAC: the syncs stay balanced, whatever    *)
(* the order in which calls arrive, updates are made and messages are      *)
(* taken.                                                                  *)
THEOREM SACInvariant == WireCap = 1 /\ SACSpec => []SACInv
<1> SUFFICES ASSUME WireCap = 1 PROVE SACSpec => []SACInv
  OBVIOUS
<1>1. SACInit => SACInv
  BY SACStart
<1>2. SACInv /\ [SACNext]_sacVars => SACInv'
  BY SACStep
<1> QED BY <1>1, <1>2, PTL DEF SACSpec

LEMMA SACPaired == SACInv => SyncsPaired
<1> SUFFICES ASSUME SACInv PROVE SyncsPaired
  OBVIOUS
<1>1. RecvOwed > 0 <=> ToReceive
  <2>1. receiver # ReceiverIdle <=> receiver.at # "idle"
    BY DEF SACInv, SyncInv, ReceiverPlace, ReceiverIdle
  <2> QED BY <2>1, WholeFacts DEF SACInv, RecvOwed, ToReceive
<1>2. SendOwed > 0 \/ Len(wire) > 0 <=> ToSend
  <2>1. sender.at \in {"idle", "metadata", "init", "snapshot", "sync", "sent"}
    BY DEF SACInv, SyncInv, SyncType
  <2>2. "actor" \in calls => sender.at = "idle"
    BY DEF SACInv, OneRequest
  <2>3. sender.next <= N <=> sender.next <= Len(Buckets)
    BY DEF N
  <2> QED BY <2>1, <2>2, <2>3, WholeFacts DEF SACInv, SendOwed, ToSend
<1>3. SendOwed \in Nat /\ RecvOwed \in Nat /\ Len(wire) \in Nat /\ Len(wire) + SendOwed = RecvOwed
  BY WholeFacts DEF SACInv, SendOwed, RecvOwed, SACBalanced
<1> QED BY <1>1, <1>2, <1>3 DEF SyncsPaired

-----------------------------------------------------------------------------
(* Asynchronous PPO: the runner and the training.                          *)

LEMMA CurrentWeights ==
    ASSUME SyncInv, Rounds
    PROVE  /\ WeightsAt(version) \in [Tensor -> Nat] /\ Old \in [Tensor -> Nat]
           /\ runner # "trained" => Weights = WeightsAt(version)
           /\ version = 0 => Old = WeightsAt(version)
           /\ version \in Nat
<1>1. Updates \in Nat /\ version \in Nat /\ version \in 0..Updates
  BY WeightsType DEF SyncInv, SyncType, Rounds
<1>2. version > 0 => version - 1 \in 0..Updates
  BY <1>1
<1>3. 0 \in 0..Updates /\ WeightsAt(version) \in [Tensor -> Nat] /\ WeightsAt(0) \in [Tensor -> Nat]
  BY <1>1, WeightsType DEF SyncInv
<1>4. version > 0 => WeightsAt(version - 1) \in [Tensor -> Nat]
  BY <1>2, WeightsType DEF SyncInv
<1>5. Old \in [Tensor -> Nat]
  BY <1>1, <1>3, <1>4 DEF Old
<1> QED BY <1>1, <1>3, <1>5 DEF Rounds, Weights, Old

LEMMA QuietWire ==
    ASSUME PPOInv, ~Syncing
    PROVE  wire = <<>> /\ Len(wire) = 0 /\ sender.at = "idle" /\ receiver.at = "idle" /\ receiver.got = 0
<1>1. sender.at = "idle" /\ receiver.at = "idle"
  BY DEF PPOInv, Quiet
<1>2. receiver.got = 0
  BY <1>1 DEF PPOInv, SyncInv, ReceiverPlace, ReceiverIdle
<1> QED BY <1>1, <1>2, WholeFacts DEF PPOInv, Balanced

LEMMA PPOStart ==
    ASSUME Init
    PROVE  PPOInv
<1>1. SyncInit /\ runner = "start"
  BY DEF Init
<1>2. SyncInv /\ SendRest = 0 /\ RecvRest = 0 /\ Updates = 0
  BY <1>1, SyncInitType
<1>3. /\ sender.at = "idle" /\ receiver.at = "idle" /\ receiver.got = 0 /\ wire = <<>> /\ Len(wire) = 0
      /\ ready = FALSE /\ snapshot = Unset /\ version = 0 /\ label = 0 /\ buffer = NoBuffer
      /\ syncer = "patch" => model = Weights
  BY <1>1 DEF SyncInit, SenderIdle, ReceiverIdle
<1>4. Rounds /\ Quiet /\ Balanced /\ Initialised
  BY <1>1, <1>2, <1>3 DEF Rounds, Runners, Quiet, Balanced, Initialised
<1>5. SnapshotRight /\ LabelRight /\ WireRight
  BY <1>1, <1>3 DEF SnapshotRight, LabelRight, WireRight
<1>6. BufferRight
  BY <1>1, <1>3, NoBufferType DEF BufferRight
<1>7. ModelRight
  <2>1. Old = Weights
    BY <1>1, <1>2, <1>3 DEF Old, Weights
  <2> QED BY <1>1, <1>3, <2>1 DEF ModelRight
<1> QED BY <1>2, <1>4, <1>5, <1>6, <1>7 DEF PPOInv

LEMMA SameSync ==
    ASSUME PPOInv, UNCHANGED syncVars,
           \/ runner' = runner
           \/ runner = "wait" /\ runner' = "train"
           \/ Syncing /\ sender.at = "idle" /\ receiver.at = "idle" /\ runner' \in {"wait", "done"}
    PROVE  PPOInv'
<1>1. UNCHANGED <<syncer, history, version, sender, snapshot, wire, metadata, receiver, ready, buffer, model, label>>
  BY DEF syncVars, senderVars, receiverVars
<1>2. SyncInv'
  BY <1>1 DEF PPOInv, SyncInv, SyncType, SenderPlace, ReceiverPlace, SenderPhase, ReceiverPhase,
     BeforeMetadata, BeforeSnapshot, MetadataUnderWay, OnlyPatches, Patches
<1>3. /\ Old' = Old /\ WeightsAt(version)' = WeightsAt(version) /\ Updates' = Updates /\ Patches' = Patches
      /\ SendRest' = SendRest /\ RecvRest' = RecvRest /\ PatchMessage' = PatchMessage
  BY <1>1 DEF Old, WeightsAt, Updates, Patches, SendRest, RecvRest, FirstLength, PatchMessage
<1>4. Rounds' /\ Quiet' /\ Balanced' /\ Initialised'
  BY <1>1, <1>3 DEF PPOInv, Rounds, Runners, Quiet, Balanced, Initialised, Syncing
<1>5. SnapshotRight' /\ LabelRight'
  BY <1>1, <1>3 DEF PPOInv, SnapshotRight, LabelRight, Syncing
<1>6. BufferRight'
  BY <1>1, <1>3 DEF PPOInv, BufferRight
<1>7. WireRight'
  BY <1>1, <1>3 DEF PPOInv, WireRight
<1>8. ModelRight'
  BY <1>1, <1>3 DEF PPOInv, ModelRight, Syncing
<1> QED BY <1>2, <1>4, <1>5, <1>6, <1>7, <1>8 DEF PPOInv

LEMMA TrainKeeps ==
    ASSUME PPOInv, Train
    PROVE  PPOInv'
<1>1. /\ runner = "train" /\ runner' = "trained" /\ Update
      /\ UNCHANGED <<syncer, version, senderVars, wire, metadata, receiverVars>>
      /\ UNCHANGED <<syncer, version, sender, snapshot, wire, metadata, receiver, ready, buffer, model, label>>
  BY DEF Train, senderVars, receiverVars
<1>2. SyncInv'
  BY <1>1, UpdateKeeps DEF PPOInv
<1>3. wire = <<>> /\ Len(wire) = 0 /\ sender.at = "idle" /\ receiver.at = "idle" /\ receiver.got = 0
  BY <1>1, QuietWire DEF Syncing
<1>4. Updates = version /\ version \in Nat /\ Updates' = Updates + 1
  BY <1>1, UpdateType DEF PPOInv, SyncInv, SyncType, Rounds
<1>5. /\ Old' = Old /\ WeightsAt(version)' = WeightsAt(version)
  <2>1. \A u \in 0..Updates : WeightsAt(u)' = WeightsAt(u)
    BY <1>1, UpdateType DEF PPOInv, SyncInv
  <2>2. 0 \in 0..Updates /\ version \in 0..Updates /\ (version # 0 => version - 1 \in 0..Updates)
    BY <1>4
  <2>3. WeightsAt(0)' = WeightsAt(0) /\ (version # 0 => WeightsAt(version - 1)' = WeightsAt(version - 1))
    BY <1>1, <2>1, <2>2 DEF WeightsAt
  <2>4. WeightsAt(version)' = WeightsAt(version)
    BY <1>1, <2>1, <2>2 DEF WeightsAt
  <2> QED BY <1>1, <2>3, <2>4 DEF Old, WeightsAt
<1>6. Rounds' /\ Quiet' /\ Initialised'
  BY <1>1, <1>3, <1>4 DEF PPOInv, Rounds, Runners, Quiet, Initialised, Patches
<1>7. Balanced'
  BY <1>1 DEF PPOInv, Balanced, SendRest, RecvRest, FirstLength, Patches
<1>8. SnapshotRight' /\ LabelRight'
  BY <1>1, <1>3, <1>5 DEF PPOInv, SnapshotRight, LabelRight, Patches
<1>9. BufferRight' /\ WireRight'
  BY <1>1, <1>3, <1>5 DEF PPOInv, BufferRight, WireRight
<1>10. ModelRight'
  BY <1>1, <1>3, <1>5 DEF PPOInv, ModelRight
<1> QED BY <1>2, <1>6, <1>7, <1>8, <1>9, <1>10 DEF PPOInv

LEMMA SetVersionKeeps ==
    ASSUME PPOInv, SetVersion
    PROVE  PPOInv'
<1>1. /\ runner = "trained" /\ runner' = "set" /\ version' = version + 1
      /\ UNCHANGED <<syncer, history, sender, snapshot, wire, metadata, receiver, ready, buffer, model, label>>
  BY DEF SetVersion, senderVars, receiverVars
<1>2. version \in Nat /\ Updates = version + 1 /\ Updates' = Updates
  BY <1>1 DEF PPOInv, SyncInv, SyncType, Rounds, Updates
<1>3. SyncInv'
  BY <1>1, <1>2 DEF PPOInv, SyncInv, SyncType, SenderPlace, ReceiverPlace, SenderPhase, ReceiverPhase,
     BeforeMetadata, BeforeSnapshot, MetadataUnderWay, OnlyPatches, Patches
<1>4. wire = <<>> /\ Len(wire) = 0 /\ sender.at = "idle" /\ receiver.at = "idle" /\ receiver.got = 0
  BY <1>1, QuietWire DEF Syncing
<1>5. Old' = WeightsAt(version)
  <2>1. version' # 0 /\ version' - 1 = version
    BY <1>1, <1>2
  <2> QED BY <1>1, <2>1 DEF Old, WeightsAt
<1>6. Rounds' /\ Quiet' /\ Initialised'
  BY <1>1, <1>2, <1>4 DEF PPOInv, Rounds, Runners, Quiet, Initialised, Patches
<1>7. Balanced'
  BY <1>1 DEF PPOInv, Balanced, SendRest, RecvRest, FirstLength, Patches
<1>8. SnapshotRight' /\ LabelRight'
  BY <1>1, <1>2, <1>4, <1>5 DEF PPOInv, SnapshotRight, LabelRight, Patches
<1>9. WireRight'
  BY <1>1, <1>4 DEF WireRight
<1>10. BufferRight'
  <2>1. buffer = NoBuffer
    BY <1>4 DEF PPOInv, BufferRight
  <2> QED BY <1>1, <1>4, <2>1, NoBufferType DEF PPOInv, BufferRight
<1>11. ModelRight'
  BY <1>1, <1>4, <1>5 DEF PPOInv, ModelRight
<1> QED BY <1>3, <1>6, <1>7, <1>8, <1>9, <1>10, <1>11 DEF PPOInv

LEMMA StartSyncKeeps ==
    ASSUME PPOInv, StartSync
    PROVE  PPOInv'
<1>1. /\ \/ runner = "start" /\ runner' = "first_sync"
         \/ runner = "set" /\ runner' = "sync"
      /\ UNCHANGED <<syncer, history, version, snapshot, wire, metadata, ready, buffer, model, label>>
      /\ sender = SenderIdle /\ receiver = ReceiverIdle
      /\ sender'.at = (IF Patches /\ snapshot = Unset THEN "metadata" ELSE "sync") /\ sender'.next = 1
      /\ sender' = [at |-> IF Patches /\ snapshot = Unset THEN "metadata" ELSE "sync", next |-> 1]
      /\ receiver'.at = (IF Patches /\ ~ready THEN "metadata" ELSE "apply") /\ receiver'.got = 0
      /\ receiver' = [at |-> IF Patches /\ ~ready THEN "metadata" ELSE "apply", got |-> 0, version |-> 0]
      /\ (Patches' <=> Patches)
  BY DEF StartSync, StartSend, StartReceive, ReceiverIdle, Patches
<1>2. wire = <<>> /\ Len(wire) = 0 /\ sender.at = "idle" /\ receiver.at = "idle"
  BY <1>1, QuietWire DEF Syncing
<1>3. Patches => (ready <=> snapshot # Unset) /\ (snapshot = Unset <=> runner = "start")
  BY <1>1, <1>2 DEF PPOInv, Initialised
<1>4. SyncType'
  BY <1>1, BucketFacts DEF PPOInv, SyncInv, SyncType
<1>5. SyncPhases'
  BY <1>1, <1>2, <1>3 DEF PPOInv, SyncInv, SyncPhases, SenderPlace, ReceiverPlace, SenderPhase, ReceiverPhase,
     BeforeMetadata, BeforeSnapshot, MetadataUnderWay, OnlyPatches, Patches
<1>6. Balanced'
  <2>1. SendRest' = IF Patches THEN (IF snapshot = Unset THEN FirstLength ELSE 1) ELSE N
    BY <1>1, BucketFacts DEF SendRest, FirstLength
  <2>2. RecvRest' = IF Patches THEN (IF snapshot = Unset THEN FirstLength ELSE 1) ELSE N
    BY <1>1, <1>3, BucketFacts DEF RecvRest, FirstLength
  <2> QED BY <1>1, <1>2, <2>1, <2>2, BucketFacts DEF Balanced
<1>7. /\ Old' = Old /\ WeightsAt(version)' = WeightsAt(version) /\ Updates' = Updates
  BY <1>1 DEF Old, WeightsAt, Updates
<1>8. Rounds' /\ Quiet'
  BY <1>1, <1>7 DEF PPOInv, Rounds, Runners, Quiet, Syncing
<1>9. Initialised'
  BY <1>1, <1>3 DEF Initialised
<1>10. SnapshotRight'
  BY <1>1, <1>2, <1>3, <1>7 DEF PPOInv, SnapshotRight, SyncInv, OnlyPatches
<1>11. LabelRight'
  BY <1>1, <1>2 DEF PPOInv, LabelRight, Rounds
<1>12. BufferRight'
  <2>1. buffer = NoBuffer
    BY <1>2 DEF PPOInv, BufferRight
  <2>2. 1..0 = {}
    OBVIOUS
  <2>3. UNION {Buckets[i] : i \in 1..0} = {}
    BY <2>2
  <2> QED BY <1>1, <2>1, <2>3, NoBufferType DEF BufferRight
<1>13. WireRight'
  BY <1>1, <1>2 DEF WireRight
<1>14. ModelRight'
  <2>1. 1..0 = {}
    OBVIOUS
  <2>2. /\ runner = "set" => model = Old
        /\ runner = "start" /\ syncer = "patch" => model = Old
    BY DEF PPOInv, ModelRight
  <2>3. syncer = "patch_init" /\ receiver'.at = "apply" => runner = "set"
    BY <1>1, <1>3 DEF Patches
  <2> QED BY <1>1, <1>7, <2>1, <2>2, <2>3 DEF ModelRight
<1> QED BY <1>4, <1>5, <1>6, <1>8, <1>9, <1>10, <1>11, <1>12, <1>13, <1>14 DEF PPOInv, SyncInv, SyncPhases

-----------------------------------------------------------------------------
(* Asynchronous PPO: the sender.                                           *)

(* The message that is sent is the one that the receiver expects there.    *)
Expected(m, k) ==
    IF Patches /\ (receiver.at = "apply" \/ receiver.got + k > N)
    THEN m = PatchMessage
    ELSE /\ m.data = Sub(WeightsAt(version), Buckets[receiver.got + k])
         /\ ~Patches => m.version = version

LEMMA WireAppend ==
    ASSUME PPOInv, NEW m \in Messages, wire' = Append(wire, m), Expected(m, Len(wire) + 1),
           UNCHANGED <<syncer, history, version, receiver>>
    PROVE  WireRight'
<1>1. /\ wire \in Seq(Messages) /\ Len(wire) \in Nat
  BY EmptyFacts DEF PPOInv, SyncInv, SyncType
<1>2. /\ Len(wire') = Len(wire) + 1
      /\ \A n \in 1 .. Len(wire) + 1 : wire'[n] = IF n <= Len(wire) THEN wire[n] ELSE m
  BY <1>1, AppendOne
<1>3. PatchMessage' = PatchMessage /\ WeightsAt(version)' = WeightsAt(version) /\ (Patches' <=> Patches)
  BY DEF PatchMessage, WeightsAt, Patches, Old
<1>4. SUFFICES ASSUME NEW k \in 1..Len(wire')
               PROVE  IF Patches /\ (receiver.at = "apply" \/ receiver.got + k > N)
                      THEN wire'[k] = PatchMessage
                      ELSE /\ wire'[k].data = Sub(WeightsAt(version), Buckets[receiver.got + k])
                           /\ ~Patches => wire'[k].version = version
  BY <1>3 DEF WireRight
<1>5. CASE k <= Len(wire)
  <2>1. k \in 1..Len(wire) /\ wire'[k] = wire[k]
    BY <1>1, <1>2, <1>5
  <2> QED BY <2>1 DEF PPOInv, WireRight
<1>6. CASE k = Len(wire) + 1
  <2>1. wire'[k] = m
    BY <1>1, <1>2, <1>6
  <2> QED BY <1>6, <2>1 DEF Expected
<1> QED BY <1>1, <1>2, <1>5, <1>6

LEMMA SentBucket ==
    ASSUME PPOInv, SendBucket, Weights = WeightsAt(version)
    PROVE  Expected(BucketMessage(sender.next), Len(wire) + 1) /\ BucketMessage(sender.next) \in Messages
<1>1. /\ sender.at \in {"init", "sync"} /\ (sender.at = "sync" => ~Patches) /\ sender.next \in 1..N
      /\ N \in Nat /\ Len(wire) \in Nat /\ receiver.got \in Nat
      /\ receiver.at \in {"idle", "metadata", "init", "apply"}
  BY BucketFacts, WholeFacts DEF PPOInv, SyncInv, SyncType, SenderPlace, SendBucket, N
<1>2. BucketMessage(sender.next).data = Sub(WeightsAt(version), Buckets[sender.next])
  BY DEF BucketMessage
<1>3. BucketMessage(sender.next) \in Messages
  <2>1. Sub(Weights, Buckets[sender.next]) \in Parts
    BY <1>1, BucketFacts, WeightsType, SubFacts DEF PPOInv, SyncInv
  <2> QED BY <2>1 DEF BucketMessage, Messages, PPOInv, SyncInv, SyncType
<1>4. CASE sender.at = "sync"
  <2>1. ~Patches /\ receiver.at \in {"idle", "apply"}
    BY <1>1, <1>4 DEF PPOInv, SyncInv, ReceiverPhase, Patches
  <2>2. SendRest = N + 1 - sender.next /\ RecvRest = (IF receiver.at = "idle" THEN 0 ELSE N - receiver.got)
    BY <1>4, <2>1 DEF SendRest, RecvRest
  <2>3. receiver.got + (Len(wire) + 1) = sender.next
    BY SMTT(30), <1>1, <2>2 DEF PPOInv, Balanced
  <2>4. BucketMessage(sender.next).version = version
    BY <1>4 DEF BucketMessage
  <2> QED BY <1>2, <1>3, <2>1, <2>3, <2>4 DEF Expected
<1>5. CASE sender.at = "init"
  <2>1. Patches /\ SendRest = N + 2 - sender.next
    BY <1>5 DEF PPOInv, SyncInv, SenderPhase, Patches, SendRest
  <2>2. receiver.at = "init"
    <3>1. receiver.at # "metadata"
      BY <1>5, <2>1 DEF PPOInv, SyncInv, BeforeMetadata, ReceiverPhase
    <3>2. RecvRest > 1
      BY <1>1, <2>1 DEF PPOInv, Balanced
    <3> QED BY <1>1, <2>1, <3>1, <3>2 DEF RecvRest
  <2>3. RecvRest = N + 1 - receiver.got
    BY <2>2 DEF RecvRest
  <2>4. receiver.got + (Len(wire) + 1) = sender.next
    BY SMTT(30), <1>1, <2>1, <2>3 DEF PPOInv, Balanced
  <2>5. ~(receiver.got + (Len(wire) + 1) > N)
    BY <1>1, <2>4
  <2> QED BY <1>2, <1>3, <2>1, <2>2, <2>4, <2>5 DEF Expected
<1> QED BY <1>1, <1>4, <1>5

LEMMA SentPatch ==
    ASSUME PPOInv, SendPatch, Syncing, Weights = WeightsAt(version)
    PROVE  Expected([version |-> version, data |-> PatchData], Len(wire) + 1)
<1>1. /\ sender.at \in {"sync", "snapshot", "init"} /\ (sender.at = "sync" => Patches)
      /\ sender.at = "init" => sender.next > N
  BY DEF SendPatch, InitSyncSent, N
<1>2. Patches
  BY <1>1 DEF PPOInv, SyncInv, SenderPhase, Patches
<1>3. PatchData = Sub(WeightsAt(version), Changed(WeightsAt(version), Old))
  <2>1. CASE snapshot = Unset
    <3>1. runner = "first_sync"
      BY <1>2, <2>1 DEF PPOInv, Initialised, Syncing
    <3>2. Old = WeightsAt(version)
      BY <3>1, CurrentWeights DEF PPOInv, Rounds
    <3> QED BY <2>1, <3>2 DEF PatchData
  <2>2. CASE snapshot # Unset
    <3>1. sender.at = "sync"
      BY <1>1, <2>2 DEF PPOInv, SyncInv, SenderPhase
    <3>2. snapshot = Old
      BY <2>2, <3>1 DEF PPOInv, SnapshotRight
    <3> QED BY <2>2, <3>2 DEF PatchData
  <2> QED BY <2>1, <2>2
<1>4. receiver.at = "apply" \/ receiver.got + (Len(wire) + 1) > N
  <2>1. /\ N \in Nat /\ Len(wire) \in Nat /\ receiver.got \in Nat /\ sender.next \in 0..(N + 1)
        /\ receiver.at \in {"idle", "metadata", "init", "apply"}
    BY BucketFacts, WholeFacts DEF PPOInv, SyncInv, SyncType
  <2>2. SendRest = 1
    <3>1. sender.at = "init" => sender.next = N + 1
      BY <1>1, <2>1
    <3> QED BY <1>1, <1>2, <2>1, <3>1 DEF SendRest
  <2>3. receiver.at # "metadata"
    BY <1>1, <1>2 DEF PPOInv, SyncInv, BeforeMetadata, ReceiverPhase
  <2>4. receiver.at # "idle"
    BY <2>1, <2>2, WholeFacts DEF PPOInv, Balanced
  <2>5. receiver.at = "init" => RecvRest = N + 1 - receiver.got
    BY DEF RecvRest
  <2> QED BY <2>1, <2>2, <2>3, <2>4, <2>5 DEF PPOInv, Balanced
<1> QED BY <1>2, <1>3, <1>4 DEF Expected, PatchMessage

LEMMA ActorSyncKeeps ==
    ASSUME PPOInv, ActorSync
    PROVE  PPOInv'
<1>1. /\ SenderStep /\ UNCHANGED <<syncer, history, version, receiverVars>>
      /\ UNCHANGED <<syncer, history, version, receiver, ready, buffer, model, label, runner>>
      /\ (Patches' <=> Patches)
  BY DEF ActorSync, receiverVars, Patches
<1>2. SyncInv' /\ SenderAdvances
  BY <1>1, SenderKeeps DEF PPOInv
<1>3. sender.at # "idle" /\ Syncing /\ runner # "start" /\ runner # "trained" /\ runner # "set"
  BY <1>2 DEF SenderAdvances, PPOInv, Quiet, Syncing
<1>4. Weights = WeightsAt(version)
  BY <1>3, CurrentWeights DEF PPOInv
<1>5. /\ Old' = Old /\ WeightsAt(version)' = WeightsAt(version) /\ Updates' = Updates
      /\ RecvRest' = RecvRest
  BY <1>1 DEF Old, WeightsAt, Updates, RecvRest, FirstLength
<1>6. Balanced'
  BY <1>2, <1>5 DEF SenderAdvances, PPOInv, Balanced
<1>7. Rounds' /\ Quiet' /\ LabelRight' /\ BufferRight' /\ ModelRight'
  BY <1>1, <1>3, <1>5 DEF PPOInv, Rounds, Quiet, Syncing, LabelRight, BufferRight, ModelRight
<1>8. CASE SendBucket
  <2>1. UNCHANGED <<snapshot>> /\ sender'.at = sender.at /\ wire' = Append(wire, BucketMessage(sender.next))
        /\ (sender.at = "sync" => ~Patches)
    BY <1>8 DEF SendBucket, PPOInv, SyncInv, SyncType
  <2>2. WireRight'
    BY <1>1, <1>4, <1>8, <2>1, SentBucket, WireAppend
  <2>3. Initialised' /\ SnapshotRight'
    BY <1>1, <1>3, <1>5, <2>1 DEF PPOInv, Initialised, SnapshotRight
  <2> QED BY <1>2, <1>6, <1>7, <2>2, <2>3 DEF PPOInv
<1>9. CASE RecvMetadata
  <2>1. UNCHANGED <<snapshot, wire>> /\ sender'.at \in {"init", "snapshot"} /\ sender.at = "metadata"
    BY <1>9 DEF RecvMetadata, PPOInv, SyncInv, SyncType
  <2>2. WireRight'
    BY <1>1, <1>5, <2>1 DEF PPOInv, WireRight, PatchMessage
  <2>3. Initialised' /\ SnapshotRight'
    BY <1>1, <1>3, <1>5, <2>1 DEF PPOInv, Initialised, SnapshotRight
  <2> QED BY <1>2, <1>6, <1>7, <2>2, <2>3 DEF PPOInv
<1>10. CASE SendPatch
  <2>1. /\ wire' = Append(wire, [version |-> version, data |-> PatchData])
        /\ [version |-> version, data |-> PatchData] \in Messages
    BY <1>1, <1>10, SendPatchKeeps DEF PPOInv
  <2>2. WireRight'
    BY <1>1, <1>3, <1>4, <1>10, <2>1, SentPatch, WireAppend
  <2>3. snapshot' = Weights /\ sender'.at = "sent" /\ snapshot' # Unset
    BY <1>10, WeightsType, SyncAssumption DEF SendPatch, PPOInv, SyncInv, SyncType
  <2>4. Initialised' /\ SnapshotRight'
    BY <1>1, <1>3, <1>4, <1>5, <2>3 DEF PPOInv, Initialised, SnapshotRight
  <2> QED BY <1>2, <1>6, <1>7, <2>2, <2>4 DEF PPOInv
<1>11. CASE FinishSend
  <2>1. /\ UNCHANGED <<snapshot, wire>> /\ sender'.at = "idle"
        /\ sender.at = "sent" \/ (sender.at = "sync" /\ ~Patches)
    BY <1>11 DEF FinishSend, SenderIdle
  <2>2. WireRight'
    BY <1>1, <1>5, <2>1 DEF PPOInv, WireRight, PatchMessage
  <2>3. (Patches => snapshot # Unset) /\ (sender.at = "sync" => snapshot = Unset)
    BY <2>1 DEF PPOInv, SyncInv, SenderPhase, OnlyPatches
  <2>4. Initialised' /\ SnapshotRight'
    BY <1>1, <1>3, <1>5, <2>1, <2>3 DEF PPOInv, Initialised, SnapshotRight
  <2> QED BY <1>2, <1>6, <1>7, <2>2, <2>4 DEF PPOInv
<1> QED BY <1>1, <1>8, <1>9, <1>10, <1>11 DEF SenderStep

-----------------------------------------------------------------------------
(* Asynchronous PPO: the receiver.                                         *)

LEMMA ReceiveSame ==
    ASSUME PPOInv, RolloutSync
    PROVE  /\ ReceiverStep
           /\ UNCHANGED <<syncer, history, version, senderVars>>
           /\ UNCHANGED <<syncer, history, version, sender, snapshot, runner>>
           /\ (Patches' <=> Patches) /\ Old' = Old /\ WeightsAt(version)' = WeightsAt(version)
           /\ Updates' = Updates /\ PatchMessage' = PatchMessage
           /\ receiver.at # "idle" /\ Syncing /\ runner \in {"first_sync", "sync"}
           /\ (runner = "first_sync" => version = 0) /\ version \in Nat
           /\ (runner = "sync" => version > 0 /\ (Patches => ready))
           /\ SyncInv' /\ Balanced' /\ Rounds' /\ Quiet' /\ SnapshotRight'
<1>1. /\ ReceiverStep
      /\ UNCHANGED <<syncer, history, version, senderVars>>
      /\ UNCHANGED <<syncer, history, version, sender, snapshot, runner>>
  BY DEF RolloutSync, senderVars
<1>2. SyncInv' /\ ReceiverAdvances
  BY <1>1, ReceiverKeeps DEF PPOInv
<1>3. /\ (Patches' <=> Patches) /\ Old' = Old /\ WeightsAt(version)' = WeightsAt(version)
      /\ Updates' = Updates /\ PatchMessage' = PatchMessage /\ SendRest' = SendRest
  BY <1>1 DEF Patches, Old, WeightsAt, Updates, PatchMessage, SendRest, FirstLength
<1>4. receiver.at # "idle" /\ Syncing /\ runner \in {"first_sync", "sync"}
  BY <1>2 DEF ReceiverAdvances, PPOInv, Quiet, Syncing
<1>5. Balanced'
  <2>1. RecvRest \in Nat /\ RecvRest' \in Nat /\ SendRest \in Nat /\ Len(wire) \in Nat /\ Len(wire') \in Nat
    BY <1>2, WholeFacts, WholeFactsNext DEF PPOInv
  <2> QED BY <1>2, <1>3, <2>1 DEF ReceiverAdvances, PPOInv, Balanced
<1>6. Rounds' /\ Quiet' /\ SnapshotRight'
  BY <1>1, <1>3, <1>4 DEF PPOInv, Rounds, Quiet, Syncing, SnapshotRight
<1>7. /\ (runner = "first_sync" => version = 0) /\ version \in Nat
      /\ (runner = "sync" => version > 0 /\ (Patches => ready))
  BY DEF PPOInv, Rounds, Initialised, SyncInv, SyncType
<1> QED BY <1>1, <1>2, <1>3, <1>4, <1>5, <1>6, <1>7

LEMMA SendMetadataSync ==
    ASSUME PPOInv, RolloutSync, SendMetadata
    PROVE  PPOInv'
<1>1. /\ receiver.at = "metadata" /\ ready' = (syncer # "patch_init")
      /\ UNCHANGED <<wire, buffer, model, label>>
      /\ receiver'.at = (IF syncer = "patch_init" THEN "init" ELSE "apply") /\ receiver'.got = 0
      /\ Patches /\ ~ready /\ wire = <<>>
  BY DEF SendMetadata, PPOInv, SyncInv, SyncType, ReceiverPlace, ReceiverPhase, BeforeMetadata
<1>2. /\ runner = "first_sync" /\ version = 0 /\ Patches'
      /\ UNCHANGED <<syncer, history, version, sender, snapshot, runner>>
      /\ Old' = Old /\ WeightsAt(version)' = WeightsAt(version)
      /\ SyncInv' /\ Balanced' /\ Rounds' /\ Quiet' /\ SnapshotRight'
  BY <1>1, ReceiveSame
<1>3. Initialised' /\ LabelRight'
  BY <1>1, <1>2 DEF PPOInv, Initialised, LabelRight
<1>4. WireRight'
  BY <1>1 DEF WireRight
<1>5. syncer \in {"patch", "patch_init"} /\ 1..0 = {}
  BY <1>1 DEF Patches
<1>6. BufferRight'
  <2>1. buffer = NoBuffer
    BY <1>5 DEF PPOInv, BufferRight
  <2> QED BY <1>1, <1>2, <1>5, <2>1, NoBufferType DEF BufferRight
<1>7. ModelRight'
  BY <1>1, <1>2, <1>5 DEF PPOInv, ModelRight
<1> QED BY <1>2, <1>3, <1>4, <1>6, <1>7 DEF PPOInv

LEMMA ApplyInitSync ==
    ASSUME PPOInv, RolloutSync, ApplyInitBucket
    PROVE  PPOInv'
<1> DEFINE w == WeightsAt(version)
<1>1. /\ receiver.at = "init" /\ wire # <<>> /\ wire' = Tail(wire)
      /\ model' = Load(Head(wire).data, model) /\ UNCHANGED <<buffer, label>>
      /\ Patches /\ ~ready /\ syncer = "patch_init"
  BY DEF ApplyInitBucket, PPOInv, SyncInv, ReceiverPhase, Patches
<1>2. \/ /\ receiver.got + 1 = N /\ ready' = TRUE
         /\ receiver'.at = "apply" /\ receiver'.got = 0
      \/ /\ receiver.got + 1 \in 0..(N - 1) /\ ready' = ready
         /\ receiver'.at = "init" /\ receiver'.got = receiver.got + 1
  <2>1. receiver.got \in 0..(N - 1) /\ N \in Nat \ {0}
    BY BucketFacts DEF PPOInv, SyncInv, SyncType
  <2>2. CASE receiver.got + 1 = N
    BY <1>1, <2>1, <2>2 DEF ApplyInitBucket, N, PPOInv, SyncInv, SyncType
  <2>3. CASE receiver.got + 1 # N
    <3>1. receiver.got + 1 \in 0..(N - 1)
      BY <2>1, <2>3
    <3>2. ready' = ready /\ receiver' = [receiver EXCEPT !.got = @ + 1]
      BY <2>3 DEF ApplyInitBucket, N
    <3> QED BY <1>1, <3>1, <3>2 DEF PPOInv, SyncInv, SyncType
  <2> QED BY <2>2, <2>3
<1>3. /\ runner = "first_sync" /\ version = 0 /\ Patches'
      /\ UNCHANGED <<syncer, history, version, sender, snapshot, runner>>
      /\ Old' = Old /\ WeightsAt(version)' = w /\ PatchMessage' = PatchMessage
      /\ SyncInv' /\ Balanced' /\ Rounds' /\ Quiet' /\ SnapshotRight'
  BY <1>1, ReceiveSame
<1>4. /\ w \in [Tensor -> Nat] /\ Old = w
  BY <1>3, CurrentWeights DEF PPOInv
<1> HIDE DEF w
<1>5. /\ receiver.got \in 0..(N - 1) /\ N \in Nat \ {0} /\ receiver.got + 1 \in 1..N
      /\ Len(wire) \in Nat \ {0} /\ model \in [Tensor -> Nat \cup {Own}]
      /\ Buckets[receiver.got + 1] \in SUBSET Tensor
  <2>1. receiver.got \in 0..(N - 1) /\ N \in Nat \ {0} /\ model \in [Tensor -> Nat \cup {Own}]
    BY BucketFacts DEF PPOInv, SyncInv, SyncType
  <2>2. Len(wire) \in Nat \ {0}
    BY <1>1, WholeFacts DEF PPOInv
  <2>3. receiver.got + 1 \in 1..N
    BY <2>1
  <2> QED BY <2>1, <2>2, <2>3, BucketFacts
<1>6. Head(wire).data = Sub(w, Buckets[receiver.got + 1]) /\ Head(wire).data \in Parts
  <2>1. Head(wire) = wire[1] /\ 1 \in 1..Len(wire) /\ Head(wire).data \in Parts
    BY <1>1, <1>5, HeadFacts DEF PPOInv
  <2>2. ~(receiver.got + 1 > N)
    BY <1>5
  <2> QED BY <1>1, <2>1, <2>2 DEF PPOInv, WireRight, w
<1>7. /\ model' \in [Tensor -> Nat \cup {Own}]
      /\ \A t \in Tensor : model'[t] = IF t \in Buckets[receiver.got + 1] THEN w[t] ELSE model[t]
  <2>1. /\ DOMAIN Sub(w, Buckets[receiver.got + 1]) = Buckets[receiver.got + 1]
        /\ \A t \in Buckets[receiver.got + 1] : Sub(w, Buckets[receiver.got + 1])[t] = w[t]
    BY <1>4, <1>5, SubFacts
  <2>2. /\ model' \in [Tensor -> Nat \cup {Own}]
        /\ \A t \in Tensor : model'[t] = IF t \in DOMAIN Head(wire).data THEN Head(wire).data[t] ELSE model[t]
    BY <1>1, <1>5, <1>6, LoadModelType
  <2> QED BY <1>6, <2>1, <2>2
<1>8. \A i \in 1..(receiver.got + 1) : \A t \in Buckets[i] : model'[t] = w[t]
  <2>1. \A i \in 1..receiver.got : \A t \in Buckets[i] : model[t] = w[t]
    BY <1>1 DEF PPOInv, ModelRight, w
  <2>2. \A i \in 1..(receiver.got + 1) : i \in 1..receiver.got \/ i = receiver.got + 1
    BY <1>5
  <2>3. \A i \in 1..(receiver.got + 1) : Buckets[i] \in SUBSET Tensor
    BY <1>5, BucketFacts
  <2> QED BY <1>7, <2>1, <2>2, <2>3
<1>9. Initialised' /\ LabelRight'
  BY <1>1, <1>2, <1>3 DEF PPOInv, Initialised, LabelRight
<1>10. WireRight'
  <2>1. SUFFICES ASSUME NEW k \in 1..Len(wire')
                 PROVE  IF receiver'.at = "apply" \/ receiver'.got + k > N
                        THEN wire'[k] = PatchMessage
                        ELSE wire'[k].data = Sub(w, Buckets[receiver'.got + k])
    BY <1>3 DEF WireRight
  <2>2. k \in Nat /\ k + 1 \in 1..Len(wire) /\ wire'[k] = wire[k + 1]
    BY <1>1, <1>5, TailOne DEF PPOInv, SyncInv, SyncType
  <2>3. IF receiver.got + (k + 1) > N
        THEN wire[k + 1] = PatchMessage
        ELSE wire[k + 1].data = Sub(w, Buckets[receiver.got + (k + 1)])
    BY <1>1, <2>2 DEF PPOInv, WireRight, w
  <2>4. receiver.got + (k + 1) = (receiver.got + 1) + k
    <3>1. receiver.got \in Nat /\ k \in Nat
      BY <1>5, <2>2
    <3> QED BY <3>1
  <2> QED BY SMTT(30), <1>2, <1>5, <2>2, <2>3, <2>4
<1>11. BufferRight'
  BY <1>1, <1>3, NoBufferType DEF PPOInv, BufferRight
<1>12. ModelRight'
  <2>1. CASE receiver.got + 1 = N /\ receiver'.at = "apply" /\ receiver'.got = 0
    <3>1. \A t \in Tensor : model'[t] = w[t]
      BY <1>5, <1>8, <2>1, BucketFacts
    <3>2. model' = w
      BY <1>4, <1>7, <3>1
    <3>3. 1..0 = {}
      OBVIOUS
    <3> QED BY <1>1, <1>3, <1>4, <2>1, <3>2, <3>3 DEF ModelRight
  <2>2. CASE receiver'.at = "init" /\ receiver'.got = receiver.got + 1
    BY <1>1, <1>3, <1>8, <2>2 DEF ModelRight
  <2> QED BY <1>2, <2>1, <2>2
<1> QED BY <1>3, <1>9, <1>10, <1>11, <1>12 DEF PPOInv

LEMMA ApplyPatchSync ==
    ASSUME PPOInv, RolloutSync, ApplyPatch
    PROVE  PPOInv'
<1> DEFINE w == WeightsAt(version)
<1>1. /\ receiver.at = "apply" /\ Patches /\ wire # <<>> /\ wire' = Tail(wire)
      /\ model' = Load(Head(wire).data, model) /\ label' = Head(wire).version
      /\ receiver' = ReceiverIdle /\ receiver'.at = "idle" /\ receiver'.got = 0
      /\ UNCHANGED <<ready, buffer>> /\ ready
  BY DEF ApplyPatch, ReceiverIdle, PPOInv, SyncInv, ReceiverPhase
<1>2. /\ runner \in {"first_sync", "sync"} /\ version \in Nat /\ Patches'
      /\ UNCHANGED <<syncer, history, version, sender, snapshot, runner>>
      /\ Old' = Old /\ WeightsAt(version)' = w
      /\ SyncInv' /\ Balanced' /\ Rounds' /\ Quiet' /\ SnapshotRight'
  BY <1>1, ReceiveSame
<1>3. w \in [Tensor -> Nat] /\ Old \in [Tensor -> Nat]
  BY CurrentWeights DEF PPOInv
<1>4. Head(wire) = [version |-> version, data |-> Sub(w, Changed(w, Old))] /\ Head(wire).data \in Parts
  <2>1. Head(wire) = wire[1] /\ Len(wire) \in Nat /\ Head(wire).data \in Parts /\ 1 \in 1..Len(wire)
    BY <1>1, HeadFacts, WholeFacts DEF PPOInv
  <2> QED BY <1>1, <2>1 DEF PPOInv, WireRight, PatchMessage
<1>5. model = Old
  BY <1>1 DEF PPOInv, ModelRight, Patches
<1>6. model' = w
  <2>1. Changed(w, Old) \in SUBSET Tensor
    BY DEF Changed
  <2>2. /\ DOMAIN Sub(w, Changed(w, Old)) = Changed(w, Old)
        /\ \A t \in Changed(w, Old) : Sub(w, Changed(w, Old))[t] = w[t]
    BY <1>3, <2>1, SubFacts
  <2>3. /\ model' \in [Tensor -> Nat \cup {Own}] /\ model \in [Tensor -> Nat \cup {Own}]
        /\ \A t \in Tensor : model'[t] = IF t \in Changed(w, Old) THEN w[t] ELSE Old[t]
    BY <1>1, <1>4, <1>5, <2>2, LoadModelType DEF PPOInv, SyncInv, SyncType
  <2>4. \A t \in Tensor : model'[t] = w[t]
    BY <2>3 DEF Changed
  <2> QED BY <1>3, <2>3, <2>4
<1>7. Initialised' /\ LabelRight'
  BY <1>1, <1>2, <1>4 DEF PPOInv, Initialised, LabelRight
<1>8. WireRight'
  <2>1. Len(wire') = 0
    <3>1. RecvRest' = 0 /\ SendRest' \in Nat /\ Len(wire') \in Nat
      BY <1>1, <1>2, WholeFactsNext DEF RecvRest
    <3> QED BY <1>2, <3>1 DEF Balanced
  <2> QED BY <2>1 DEF WireRight
<1>9. BufferRight'
  <2>1. buffer = NoBuffer /\ syncer # "buffered"
    BY <1>1 DEF PPOInv, BufferRight, Patches
  <2> QED BY <1>1, <1>2, <2>1, NoBufferType DEF BufferRight
<1>10. ModelRight'
  BY <1>1, <1>2, <1>6 DEF ModelRight
<1> QED BY <1>2, <1>7, <1>8, <1>9, <1>10 DEF PPOInv

LEMMA ApplyBucketSync ==
    ASSUME PPOInv, RolloutSync, ApplyBucket
    PROVE  PPOInv'
<1> DEFINE w == WeightsAt(version)
<1> DEFINE p == Head(wire).data
<1> DEFINE next == receiver.got + 1
<1>1. /\ receiver.at = "apply" /\ ~Patches /\ wire # <<>> /\ wire' = Tail(wire)
      /\ UNCHANGED ready /\ syncer \in {"instant", "buffered"}
  BY DEF ApplyBucket, Patches, PPOInv, SyncInv, SyncType, SyncerKinds
<1>2. /\ runner \in {"first_sync", "sync"} /\ version \in Nat /\ ~Patches'
      /\ UNCHANGED <<syncer, history, version, sender, snapshot, runner>>
      /\ Old' = Old /\ WeightsAt(version)' = w
      /\ (runner = "first_sync" => version = 0) /\ (runner = "sync" => version > 0)
      /\ SyncInv' /\ Balanced' /\ Rounds' /\ Quiet' /\ SnapshotRight'
  BY <1>1, ReceiveSame
<1>3. w \in [Tensor -> Nat] /\ Old \in [Tensor -> Nat]
  BY CurrentWeights DEF PPOInv
<1>4. /\ receiver.got \in 0..(N - 1) /\ N \in Nat \ {0} /\ next \in 1..N /\ receiver.got \in Nat
      /\ Len(wire) \in Nat \ {0} /\ model \in [Tensor -> Nat \cup {Own}] /\ buffer \in Parts
      /\ Buckets[next] \in SUBSET Tensor /\ wire \in Seq(Messages)
  <2>1. receiver.got \in 0..(N - 1) /\ N \in Nat \ {0} /\ model \in [Tensor -> Nat \cup {Own}]
        /\ buffer \in Parts /\ wire \in Seq(Messages)
    BY BucketFacts DEF PPOInv, SyncInv, SyncType
  <2>2. Len(wire) \in Nat \ {0}
    BY <1>1, WholeFacts DEF PPOInv
  <2>3. next \in 1..N
    BY <2>1
  <2> QED BY <2>1, <2>2, <2>3, BucketFacts
<1>5. p = Sub(w, Buckets[next]) /\ p \in Parts /\ Head(wire).version = version
  <2>1. Head(wire) = wire[1] /\ 1 \in 1..Len(wire) /\ Head(wire).data \in Parts
    BY <1>1, <1>4, HeadFacts DEF PPOInv
  <2> QED BY <1>1, <2>1 DEF PPOInv, WireRight
<1> HIDE DEF w, p, next
<1>6. DOMAIN p = Buckets[next] /\ \A t \in Buckets[next] : p[t] = w[t]
  BY <1>3, <1>4, <1>5, SubFacts
<1>7. /\ Load(p, buffer) \in Parts
      /\ DOMAIN Load(p, buffer) = Buckets[next] \cup DOMAIN buffer
      /\ \A t \in DOMAIN Load(p, buffer) : Load(p, buffer)[t] = w[t]
  <2>1. \A t \in DOMAIN buffer : buffer[t] = w[t]
    BY DEF PPOInv, BufferRight, w
  <2>2. Load(p, buffer) \in Parts
    BY <1>4, <1>5, LoadBufferType
  <2>3. /\ DOMAIN Load(p, buffer) = DOMAIN p \cup DOMAIN buffer
        /\ \A t \in DOMAIN p \cup DOMAIN buffer :
               Load(p, buffer)[t] = IF t \in DOMAIN p THEN p[t] ELSE buffer[t]
    BY DEF Load
  <2> QED BY <1>6, <2>1, <2>2, <2>3
<1>8. /\ Load(p, model) \in [Tensor -> Nat \cup {Own}]
      /\ \A t \in Tensor : Load(p, model)[t] = IF t \in Buckets[next] THEN w[t] ELSE model[t]
  BY <1>4, <1>5, <1>6, LoadModelType
<1>9. /\ Load(Load(p, buffer), model) \in [Tensor -> Nat \cup {Own}]
      /\ \A t \in Tensor : Load(Load(p, buffer), model)[t] =
             IF t \in Buckets[next] \cup DOMAIN buffer THEN w[t] ELSE model[t]
  BY <1>4, <1>7, LoadModelType
<1>10. (IF receiver.got = 0 THEN Head(wire).version ELSE receiver.version) = version
  BY <1>1, <1>4, <1>5 DEF PPOInv, LabelRight
<1>11. \/ /\ next = N /\ receiver' = ReceiverIdle /\ buffer' = NoBuffer /\ label' = version
          /\ receiver'.at = "idle" /\ receiver'.got = 0
          /\ model' = Load(IF syncer = "instant" THEN p ELSE Load(p, buffer), model)
       \/ /\ next \in 0..(N - 1) /\ label' = label
          /\ receiver'.at = "apply" /\ receiver'.got = next /\ receiver'.version = version
          /\ buffer' = IF syncer = "instant" THEN NoBuffer ELSE Load(p, buffer)
          /\ model' = IF syncer = "instant" THEN Load(p, model) ELSE model
  BY <1>2, <1>10, ApplyBucketFacts DEF PPOInv, ReceiverIdle, RolloutSync, p, next
<1>12. \A i \in 1..next : (i \in 1..receiver.got \/ i = next) /\ Buckets[i] \in SUBSET Tensor
  <2>1. \A i \in 1..next : i \in 1..N /\ (i \in 1..receiver.got \/ i = next)
    BY <1>4 DEF next
  <2> QED BY <2>1, BucketFacts
<1>13. syncer = "instant" => \A i \in 1..next : \A t \in Buckets[i] : Load(p, model)[t] = w[t]
  <2>1. syncer = "instant" => \A i \in 1..receiver.got : \A t \in Buckets[i] : model[t] = w[t]
    BY <1>1 DEF PPOInv, ModelRight, w
  <2> QED BY <1>8, <1>12, <2>1
<1>14. syncer = "buffered" => Buckets[next] \cup DOMAIN buffer = UNION {Buckets[i] : i \in 1..next}
  <2>1. syncer = "buffered" => DOMAIN buffer = UNION {Buckets[i] : i \in 1..receiver.got}
    BY DEF PPOInv, BufferRight
  <2>2. \A i \in 1..receiver.got : i \in 1..next
    BY <1>4 DEF next
  <2>3. next \in 1..next
    BY <1>4
  <2> QED BY <1>12, <2>1, <2>2, <2>3
<1>15. CASE /\ next = N /\ receiver' = ReceiverIdle /\ buffer' = NoBuffer /\ label' = version
            /\ receiver'.at = "idle" /\ receiver'.got = 0
            /\ model' = Load(IF syncer = "instant" THEN p ELSE Load(p, buffer), model)
  <2>1. \A t \in Tensor : \E i \in 1..next : t \in Buckets[i]
    BY <1>15, BucketFacts
  <2>2. model' = w
    <3>1. CASE syncer = "instant"
      <4>1. \A t \in Tensor : model'[t] = w[t]
        BY <1>13, <1>15, <2>1, <3>1
      <4>2. model' \in [Tensor -> Nat \cup {Own}]
        BY <1>8, <1>15, <3>1
      <4> QED BY <1>3, <4>1, <4>2
    <3>2. CASE syncer = "buffered"
      <4>1. \A t \in Tensor : t \in Buckets[next] \cup DOMAIN buffer
        BY <1>14, <2>1, <3>2
      <4>2. \A t \in Tensor : model'[t] = w[t]
        BY <1>9, <1>15, <3>2, <4>1
      <4>3. model' \in [Tensor -> Nat \cup {Own}]
        BY <1>9, <1>15, <3>2
      <4> QED BY <1>3, <4>2, <4>3
    <3> QED BY <1>1, <3>1, <3>2
  <2>3. ModelRight'
    BY <1>2, <1>15, <2>2 DEF ModelRight
  <2>4. Initialised' /\ LabelRight'
    BY <1>1, <1>2, <1>15 DEF PPOInv, Initialised, LabelRight
  <2>5. WireRight'
    <3>1. RecvRest' = 0 /\ SendRest' \in Nat /\ Len(wire') \in Nat
      BY <1>2, <1>15, WholeFactsNext DEF RecvRest
    <3>2. Len(wire') = 0
      BY <1>2, <3>1 DEF Balanced
    <3> QED BY <3>2 DEF WireRight
  <2>6. BufferRight'
    <3>1. UNION {Buckets[i] : i \in 1..0} = {}
      <4>1. 1..0 = {}
        OBVIOUS
      <4> QED BY <4>1
    <3> QED BY <1>2, <1>15, <3>1, NoBufferType DEF BufferRight
  <2> QED BY <1>2, <2>3, <2>4, <2>5, <2>6 DEF PPOInv
<1>16. CASE /\ next \in 0..(N - 1) /\ label' = label
            /\ receiver'.at = "apply" /\ receiver'.got = next /\ receiver'.version = version
            /\ buffer' = IF syncer = "instant" THEN NoBuffer ELSE Load(p, buffer)
            /\ model' = IF syncer = "instant" THEN Load(p, model) ELSE model
  <2>1. Initialised' /\ LabelRight'
    BY <1>1, <1>2, <1>16 DEF PPOInv, Initialised, LabelRight
  <2>2. WireRight'
    <3>1. SUFFICES ASSUME NEW k \in 1..Len(wire')
                   PROVE  /\ wire'[k].data = Sub(w, Buckets[next + k])
                          /\ wire'[k].version = version
      BY <1>2, <1>16 DEF WireRight
    <3>2. k \in Nat /\ k + 1 \in 1..Len(wire) /\ wire'[k] = wire[k + 1]
      BY <1>1, <1>4, TailOne
    <3>3. wire[k + 1].data = Sub(w, Buckets[receiver.got + (k + 1)]) /\ wire[k + 1].version = version
      BY <1>1, <3>2 DEF PPOInv, WireRight, w
    <3>4. receiver.got + (k + 1) = (receiver.got + 1) + k
      <4>1. receiver.got \in Nat /\ k \in Nat
        BY <1>4, <3>2
      <4> QED BY <4>1
    <3> QED BY <3>2, <3>3, <3>4 DEF next
  <2>3. BufferRight'
    <3>1. CASE syncer = "instant"
      BY <1>2, <1>16, <3>1, NoBufferType DEF BufferRight
    <3>2. CASE syncer = "buffered"
      BY <1>2, <1>7, <1>14, <1>16, <3>2 DEF BufferRight
    <3> QED BY <1>1, <3>1, <3>2
  <2>4. ModelRight'
    <3>1. CASE syncer = "instant"
      <4>1. runner = "sync" => \A t \in Tensor : model[t] \in {Old[t], w[t]}
        BY <1>1, <3>1 DEF PPOInv, ModelRight, w
      <4>2. runner = "sync" => \A t \in Tensor : model'[t] \in {Old[t], w[t]}
        BY <1>8, <1>16, <3>1, <4>1
      <4> QED BY <1>2, <1>13, <1>16, <3>1, <4>2 DEF ModelRight
    <3>2. CASE syncer = "buffered"
      <4>1. runner = "sync" => model = Old
        BY <1>1, <3>2 DEF PPOInv, ModelRight
      <4> QED BY <1>2, <1>16, <3>2, <4>1 DEF ModelRight
    <3> QED BY <1>1, <3>1, <3>2
  <2> QED BY <1>2, <2>1, <2>2, <2>3, <2>4 DEF PPOInv
<1> QED BY <1>11, <1>15, <1>16

LEMMA RolloutSyncKeeps ==
    ASSUME PPOInv, RolloutSync
    PROVE  PPOInv'
<1>1. ReceiverStep
  BY ReceiveSame
<1> QED BY <1>1, SendMetadataSync, ApplyInitSync, ApplyBucketSync, ApplyPatchSync DEF ReceiverStep

LEMMA PPOStep ==
    ASSUME PPOInv, [Next]_vars
    PROVE  PPOInv'
<1>1. CASE Generate \/ Receive \/ Drain
  <2>1. UNCHANGED <<syncVars, runner>>
    BY <1>1 DEF Generate, Receive, Drain
  <2> QED BY <2>1, SameSync
<1>2. CASE Construct
  <2>1. UNCHANGED syncVars /\ runner = "wait" /\ (runner' = "train" \/ runner' = runner)
    BY <1>2 DEF Construct
  <2> QED BY <2>1, SameSync
<1>3. CASE EndSync
  <2>1. /\ UNCHANGED syncVars /\ Syncing /\ sender.at = "idle" /\ receiver.at = "idle"
        /\ runner' \in {"wait", "done"}
    BY <1>3 DEF EndSync, Syncing, SenderIdle, ReceiverIdle
  <2> QED BY <2>1, SameSync
<1>4. CASE UNCHANGED vars
  <2>1. UNCHANGED <<syncVars, runner>>
    BY <1>4 DEF vars
  <2> QED BY <2>1, SameSync
<1> QED BY <1>1, <1>2, <1>3, <1>4, TrainKeeps, SetVersionKeeps, StartSyncKeeps, ActorSyncKeeps,
    RolloutSyncKeeps
       DEF Next

(* The invariant of asynchronous PPO: at every point of a sync, the wire   *)
(* and the weights of the rollout worker hold what the protocol means them *)
(* to.                                                                     *)
THEOREM PPOInvariant == Spec => []PPOInv
<1>1. Init => PPOInv
  BY PPOStart
<1>2. PPOInv /\ [Next]_vars => PPOInv'
  BY PPOStep
<1> QED BY <1>1, <1>2, PTL DEF Spec

LEMMA PPOLabels == PPOInv => WeightsMatchLabel
<1> SUFFICES ASSUME PPOInv, runner \notin {"start", "first_sync", "done"} PROVE
        /\ IF syncer = "instant"
           THEN \A t \in Tensor :
                   \E u \in {label, label + 1} : u <= Updates /\ model[t] = WeightsAt(u)[t]
           ELSE model = WeightsAt(label)
        /\ runner = "wait" => label = version /\ model = Weights
  BY DEF WeightsMatchLabel
<1>1. /\ runner \in {"wait", "train", "trained", "set", "sync"} /\ version \in Nat
      /\ version <= Updates /\ Updates \in Nat
  BY WeightsType DEF PPOInv, Rounds, Runners, SyncInv, SyncType
<1>2. CASE runner # "set" /\ receiver.at = "idle"
  <2>1. label = version /\ model = WeightsAt(version)
    BY <1>1, <1>2 DEF PPOInv, LabelRight, ModelRight
  <2>2. runner = "wait" => Weights = WeightsAt(version)
    BY CurrentWeights DEF PPOInv
  <2> QED BY <1>1, <2>1, <2>2
<1>3. CASE runner = "set"
  <2>1. version > 0 /\ label = version - 1 /\ model = WeightsAt(label)
    BY <1>1, <1>3 DEF PPOInv, Rounds, LabelRight, ModelRight, Old
  <2>2. label <= Updates
    BY <1>1, <2>1
  <2> QED BY <1>3, <2>1, <2>2
<1>4. CASE runner # "set" /\ receiver.at # "idle"
  <2>1. runner = "sync" /\ version > 0 /\ label = version - 1 /\ (Patches => ready)
    BY <1>1, <1>4 DEF PPOInv, Quiet, Syncing, Rounds, LabelRight, Initialised
  <2>2. receiver.at = "apply"
    BY <1>4, <2>1 DEF PPOInv, SyncInv, SyncType, ReceiverPhase, Patches
  <2>3. Old = WeightsAt(label)
    BY <2>1 DEF Old
  <2>4. CASE syncer = "instant"
    <3>1. \A t \in Tensor : model[t] \in {Old[t], WeightsAt(version)[t]}
      BY <2>1, <2>2, <2>4 DEF PPOInv, ModelRight
    <3>2. label + 1 = version /\ label <= Updates
      BY <1>1, <2>1
    <3> QED BY <1>1, <2>1, <2>3, <2>4, <3>1, <3>2
  <2>5. CASE syncer # "instant"
    <3>1. syncer \in {"patch", "patch_init", "buffered"}
      BY <2>5 DEF PPOInv, SyncInv, SyncType, SyncerKinds
    <3>2. model = Old
      BY <1>4, <2>1, <2>2, <3>1 DEF PPOInv, ModelRight
    <3> QED BY <2>1, <2>3, <2>5, <3>2
  <2> QED BY <2>4, <2>5
<1> QED BY <1>2, <1>3, <1>4

(* The label that generate_one_epoch gives a chunk is the version of the   *)
(* weights that made it, for every weight syncer; one that loads buckets   *)
(* at once may mix in those of the next version, and no other.             *)
THEOREM WeightsMatchLabelHolds == Spec => []WeightsMatchLabel
BY PPOInvariant, PPOLabels, PTL

(* update_rollout_weights(no_wait=True): as often as one worker is asked   *)
(* for a sync, however its calls are dropped or coalesced, the other is    *)
(* too, so that neither waits for the other for ever.                      *)
THEOREM SyncsPairedHolds == WireCap = 1 /\ SACSpec => []SyncsPaired
<1> SUFFICES ASSUME WireCap = 1 PROVE SACSpec => []SyncsPaired
  OBVIOUS
<1>1. SACSpec => []SACInv
  BY SACInvariant
<1> QED BY <1>1, SACPaired, PTL

-----------------------------------------------------------------------------
(* The rollout store of asynchronous PPO                                   *)

\* The labels of a trajectory when v is the newest version.
Labelled(v) == {l \in Seq(0..v) : l # <<>>}
Entries(v) == [labels : Labelled(v), uses : Nat]

\* The minimum comes first in the order of the priorities.
Ascending(s) ==
    \A i, j \in 1..Len(s) : i < j => MinVersion(s[i].labels) <= MinVersion(s[j].labels)

\* An entry is used once a round, beginning with the round of its oldest version.
RoundTaken == IF runner \in {"train", "trained"} THEN 1 ELSE 0
UsedOK(e, rounds) == e.uses <= Threshold + 1 /\ e.uses + MinVersion(e.labels) <= rounds

StoreInv ==
    /\ chunks \in Seq(0..version)
    /\ actorChannel \in Seq(Labelled(version)) /\ recvQueue \in Seq(Labelled(version))
    /\ store \in Seq(Entries(version)) /\ Len(store) <= StoreSize
    /\ \A i \in 1..Len(store) : UsedOK(store[i], version + RoundTaken)
    /\ Ascending(store)
    /\ BatchIsFresh

LEMMA NatMin == ASSUME NEW T \in SUBSET Nat, T # {} PROVE \E x \in T : \A y \in T : x <= y
<1>1. IsWellFoundedOn(OpToRel(<, Nat), Nat)
  BY NatLessThanWellFounded
<1>2. PICK x \in T : \A y \in T : ~(<<y, x>> \in OpToRel(<, Nat))
  BY <1>1, WFMin
<1>3. \A y \in T : ~(y < x)
  BY <1>2 DEF OpToRel
<1> QED BY <1>3

LEMMA MinOf == ASSUME NEW v \in Nat, NEW l \in Labelled(v) PROVE MinVersion(l) \in 0..v
<1>1. l \in Seq(0..v) /\ 1 \in 1..Len(l)
  BY DEF Labelled
<1>2. Range(l) \in SUBSET (0..v) /\ l[1] \in Range(l)
  BY <1>1 DEF Range
<1>3. Range(l) \in SUBSET Nat /\ Range(l) # {}
  BY <1>2
<1>4. PICK x \in Range(l) : \A y \in Range(l) : x <= y
  BY <1>3, NatMin
<1>5. Min(Range(l)) \in Range(l)
  BY <1>4 DEF Min
<1> QED BY <1>2, <1>5 DEF MinVersion

LEMMA NextVersion ==
    ASSUME NEW v \in Nat
    PROVE  /\ Seq(0..v) \subseteq Seq(0..(v + 1)) /\ Seq(Labelled(v)) \subseteq Seq(Labelled(v + 1))
           /\ Seq(Entries(v)) \subseteq Seq(Entries(v + 1))
<1>1. ASSUME NEW S, NEW T, S \subseteq T PROVE Seq(S) \subseteq Seq(T)
  BY <1>1
<1>2. 0..v \subseteq 0..(v + 1)
  OBVIOUS
<1>3. Seq(0..v) \subseteq Seq(0..(v + 1))
  BY <1>1, <1>2
<1>4. Labelled(v) \subseteq Labelled(v + 1)
  BY <1>3 DEF Labelled
<1>5. Entries(v) \subseteq Entries(v + 1)
  BY <1>4 DEF Entries
<1> QED BY <1>1, <1>3, <1>4, <1>5

\* Positions that have all those before them, and how many they are.
LEMMA FirstOnes ==
    ASSUME NEW n \in Nat, NEW S \in SUBSET (1..n)
    PROVE  /\ Cardinality(S) \in 0..n
           /\ \A i \in 1..n : (\A j \in S : j < i) => Cardinality(S) < i
           /\ \A i \in 1..n : 1..i \subseteq S => i <= Cardinality(S)
<1>1. IsFiniteSet(1..n) /\ Cardinality(1..n) = n
  BY FS_Interval
<1>2. IsFiniteSet(S) /\ Cardinality(S) \in Nat /\ Cardinality(S) <= n
  BY <1>1, FS_Subset, FS_CardinalityType
<1>3. ASSUME NEW i \in 1..n, \A j \in S : j < i PROVE Cardinality(S) < i
  <2>1. S \in SUBSET (1..(i - 1))
    BY <1>3
  <2>2. IsFiniteSet(1..(i - 1)) /\ Cardinality(1..(i - 1)) = i - 1
    BY FS_Interval
  <2>3. Cardinality(S) <= i - 1
    BY <2>1, <2>2, FS_Subset
  <2> QED BY <1>2, <2>3
<1>4. ASSUME NEW i \in 1..n, 1..i \subseteq S PROVE i <= Cardinality(S)
  <2>1. IsFiniteSet(1..i) /\ Cardinality(1..i) = i
    BY FS_Interval
  <2> QED BY <1>2, <1>4, <2>1, FS_Subset
<1> QED BY <1>2, <1>3, <1>4

LEMMA PlaceFacts ==
    ASSUME NEW v \in Nat, NEW s \in Seq(Entries(v)), Ascending(s), NEW e \in Entries(v)
    PROVE  LET p == Place(s, e)
           IN  /\ p \in Seq(Entries(v)) /\ Len(p) = Len(s) + 1 /\ Ascending(p)
               /\ \A n \in 1..Len(p) : p[n] = e \/ \E m \in 1..Len(s) : p[n] = s[m]
<1> DEFINE L == Len(s)
           S == {i \in DOMAIN s : ~Below(e.labels, s[i].labels)}
           b == Cardinality(S)
           p == SubSeq(s, 1, b) \o <<e>> \o SubSeq(s, b + 1, L)
<1>1. Place(s, e) = p
  BY DEF Place
<1>2. L \in Nat /\ DOMAIN s = 1..L /\ S \in SUBSET (1..L)
  OBVIOUS
<1>3. MinVersion(e.labels) \in Int /\ \A i \in 1..L : MinVersion(s[i].labels) \in Int
  <2>1. \A f \in Entries(v) : MinVersion(f.labels) \in Int
    BY MinOf DEF Entries
  <2>2. \A i \in 1..L : s[i] \in Entries(v)
    OBVIOUS
  <2> HIDE DEF L
  <2> QED BY <2>1, <2>2
<1>4. b \in 0..L
  BY <1>2, FirstOnes
<1>5. ASSUME NEW i \in 1..L, i <= b PROVE MinVersion(s[i].labels) <= MinVersion(e.labels)
  <2> SUFFICES ASSUME MinVersion(e.labels) < MinVersion(s[i].labels) PROVE FALSE
    BY <1>3
  <2>1. ASSUME NEW j \in S PROVE j < i
    <3>1. j \in 1..L /\ ~(MinVersion(e.labels) < MinVersion(s[j].labels))
      BY <1>2 DEF Below
    <3>2. i < j => MinVersion(s[i].labels) <= MinVersion(s[j].labels)
      BY <3>1 DEF Ascending
    <3> QED BY <1>3, <3>1, <3>2
  <2> QED BY <1>2, <1>4, <1>5, <2>1, FirstOnes
<1>6. ASSUME NEW i \in 1..L, i > b PROVE MinVersion(e.labels) <= MinVersion(s[i].labels)
  <2> SUFFICES ASSUME MinVersion(s[i].labels) < MinVersion(e.labels) PROVE FALSE
    BY <1>3
  <2>1. ASSUME NEW j \in 1..i PROVE j \in S
    <3>1. j \in 1..L /\ (j < i \/ j = i)
      OBVIOUS
    <3>2. MinVersion(s[j].labels) <= MinVersion(s[i].labels)
      BY <1>3, <3>1 DEF Ascending
    <3>3. MinVersion(s[j].labels) < MinVersion(e.labels)
      BY <1>3, <3>1, <3>2
    <3> QED BY <1>2, <1>3, <3>1, <3>3 DEF Below
  <2>2. 1..i \subseteq S
    BY <2>1
  <2> HIDE DEF S
  <2>3. i <= Cardinality(S)
    BY <1>2, <2>2, FirstOnes
  <2> QED BY <1>2, <1>4, <1>6, <2>3
<1> HIDE DEF S, b
<1>7. /\ p \in Seq(Entries(v)) /\ Len(p) = L + 1
      /\ \A n \in 1..L + 1 : p[n] = IF n <= b THEN s[n] ELSE IF n = b + 1 THEN e ELSE s[n - 1]
  <2> DEFINE front == SubSeq(s, 1, b)
             back == SubSeq(s, b + 1, L)
  <2>1. front \in Seq(Entries(v)) /\ Len(front) = b /\ \A n \in 1..b : front[n] = s[n]
    BY <1>2, <1>4
  <2>2. back \in Seq(Entries(v)) /\ Len(back) = L - b /\ \A n \in 1..L - b : back[n] = s[n + b]
    <3>1. /\ back \in Seq(Entries(v)) /\ Len(back) = IF b + 1 <= L THEN L - (b + 1) + 1 ELSE 0
          /\ \A n \in 1..Len(back) : back[n] = s[(b + 1) + n - 1]
      BY <1>2, <1>4, SubSeqProperties
    <3>2. Len(back) = L - b
      <4>1. \A a, n \in Nat : (IF a + 1 <= n THEN n - (a + 1) + 1 ELSE 0) = IF a <= n THEN n - a ELSE 0
        OBVIOUS
      <4>2. L \in Nat /\ b \in Nat /\ b <= L
        BY <1>2, <1>4
      <4> HIDE DEF L, back
      <4> QED BY <3>1, <4>1, <4>2
    <3>3. \A n \in 1..L - b : (b + 1) + n - 1 = n + b
      BY <1>4
    <3> HIDE DEF back
    <3> QED BY <3>1, <3>2, <3>3
  <2>3. <<e>> \in Seq(Entries(v)) /\ Len(<<e>>) = 1 /\ <<e>>[1] = e
    OBVIOUS
  <2> HIDE DEF front, back
  <2> DEFINE q == front \o <<e>>
  <2>4. /\ q \in Seq(Entries(v)) /\ Len(q) = b + 1
        /\ \A n \in 1..b + 1 : q[n] = IF n <= b THEN s[n] ELSE e
    BY <1>4, <2>1, <2>3
  <2> HIDE DEF q
  <2>5. /\ q \o back \in Seq(Entries(v)) /\ Len(q \o back) = Len(q) + Len(back)
        /\ \A n \in 1..Len(q) + Len(back) :
              (q \o back)[n] = IF n <= Len(q) THEN q[n] ELSE back[n - Len(q)]
    BY <2>2, <2>4, ConcatProperties
  <2>6. \A n \in 1..L + 1 : n > b + 1 => n - (b + 1) \in 1..L - b /\ (n - (b + 1)) + b = n - 1
    BY <1>2, <1>4
  <2>7. \A n \in 1..L + 1 : (n <= b + 1 => n \in 1..b + 1) /\ n \in 1..Len(q) + Len(back)
    BY <1>2, <1>4, <2>2, <2>4
  <2>8. \A n \in 1..L + 1 : (q \o back)[n] = IF n <= b THEN s[n] ELSE IF n = b + 1 THEN e ELSE s[n - 1]
    BY SMTT(30), <1>2, <1>4, <2>2, <2>4, <2>5, <2>6, <2>7
  <2>9. Len(q \o back) = L + 1
    BY <1>2, <1>4, <2>2, <2>4, <2>5
  <2> QED BY <2>5, <2>8, <2>9 DEF q, front, back
<1> HIDE DEF p
<1>8. \A n \in 1..L + 1 :
        \/ n <= b /\ n \in 1..L /\ p[n] = s[n]
        \/ n = b + 1 /\ p[n] = e
        \/ n > b + 1 /\ n - 1 \in 1..L /\ n - 1 > b /\ p[n] = s[n - 1]
  BY <1>2, <1>4, <1>7
<1>9. \A n \in 1..L + 1 : p[n] = e \/ \E m \in 1..L : p[n] = s[m]
  BY <1>8
<1>10. ASSUME NEW i \in 1..L + 1, NEW j \in 1..L + 1, i < j
       PROVE  MinVersion(p[i].labels) <= MinVersion(p[j].labels)
  <2>1. CASE i <= b
    <3>1. i \in 1..L /\ p[i] = s[i] /\ MinVersion(s[i].labels) <= MinVersion(e.labels)
      BY <1>4, <1>5, <1>8, <2>1
    <3>2. CASE j <= b
      BY <1>4, <1>8, <1>10, <3>1, <3>2 DEF Ascending
    <3>3. CASE j = b + 1
      BY <1>4, <1>8, <3>1, <3>3
    <3>4. CASE j > b + 1
      <4>1. j - 1 \in 1..L /\ p[j] = s[j - 1] /\ i < j - 1
        BY <1>4, <1>8, <2>1, <3>4
      <4> QED BY <3>1, <4>1 DEF Ascending
    <3> QED BY <1>4, <3>2, <3>3, <3>4
  <2>2. CASE i = b + 1
    <3>1. j - 1 \in 1..L /\ j - 1 > b /\ p[j] = s[j - 1] /\ p[i] = e
      BY <1>4, <1>8, <1>10, <2>2
    <3> QED BY <1>6, <3>1
  <2>3. CASE i > b + 1
    <3>1. i - 1 \in 1..L /\ j - 1 \in 1..L /\ i - 1 < j - 1 /\ p[i] = s[i - 1] /\ p[j] = s[j - 1]
      BY <1>4, <1>8, <1>10, <2>3
    <3> QED BY <3>1 DEF Ascending
  <2> QED BY <1>4, <2>1, <2>2, <2>3
<1>11. Ascending(p)
  BY <1>7, <1>10 DEF Ascending
<1> QED BY <1>1, <1>7, <1>9, <1>11

LEMMA AddFacts ==
    ASSUME NEW v \in Nat, NEW s \in Seq(Entries(v)), Ascending(s), Len(s) <= StoreSize,
           NEW l \in Labelled(v)
    PROVE  LET r == Add(s, l)
           IN  /\ r \in Seq(Entries(v)) /\ Len(r) <= StoreSize /\ Ascending(r)
               /\ \A n \in 1..Len(r) : r[n] = Entry(l) \/ \E m \in 1..Len(s) : r[n] = s[m]
<1> DEFINE e == Entry(l)
           p == Place(s, e)
<1>1. e \in Entries(v)
  BY DEF Entry, Entries
<1>2. /\ p \in Seq(Entries(v)) /\ Len(p) = Len(s) + 1 /\ Ascending(p)
      /\ \A n \in 1..Len(p) : p[n] = e \/ \E m \in 1..Len(s) : p[n] = s[m]
  BY <1>1, PlaceFacts
<1>3. Len(s) \in Nat /\ StoreSize \in Nat \ {0}
  BY PPOAssumption
<1> HIDE DEF p, e
<1>4. CASE Len(s) < StoreSize
  <2>1. Add(s, l) = p
    BY <1>4 DEF Add, p, e
  <2> QED BY <1>2, <1>3, <1>4, <2>1 DEF e
<1>5. CASE ~(Len(s) < StoreSize) /\ Below(l, s[1].labels)
  BY <1>5 DEF Add
<1>6. CASE ~(Len(s) < StoreSize) /\ ~Below(l, s[1].labels)
  <2>1. Add(s, l) = Tail(p) /\ Len(s) = StoreSize
    BY <1>3, <1>6 DEF Add, p, e
  <2>2. p # <<>>
    BY <1>2, <1>3
  <2>3. /\ Tail(p) \in Seq(Entries(v)) /\ Len(Tail(p)) = Len(s)
        /\ \A n \in 1..Len(Tail(p)) : n + 1 \in 1..Len(p) /\ Tail(p)[n] = p[n + 1]
    BY <1>2, <1>3, <2>2
  <2>4. ASSUME NEW i \in 1..Len(Tail(p)), NEW j \in 1..Len(Tail(p)), i < j
        PROVE  MinVersion(Tail(p)[i].labels) <= MinVersion(Tail(p)[j].labels)
    <3>1. i + 1 < j + 1
      BY <2>4
    <3> QED BY <1>2, <2>3, <3>1 DEF Ascending
  <2>5. Ascending(Tail(p))
    BY <2>4 DEF Ascending
  <2>6. \A n \in 1..Len(Tail(p)) : Tail(p)[n] = e \/ \E m \in 1..Len(s) : Tail(p)[n] = s[m]
    BY <1>2, <2>3
  <2> QED BY <1>3, <2>1, <2>3, <2>5, <2>6 DEF e
<1> QED BY <1>4, <1>5, <1>6

LEMMA RemoveFacts ==
    ASSUME NEW v \in Nat, NEW s \in Seq(Entries(v)), Ascending(s), NEW threshold \in Int
    PROVE  LET r == RemoveBelow(s, threshold)
           IN  /\ r \in Seq(Entries(v)) /\ Len(r) <= Len(s) /\ Ascending(r)
               /\ \A n \in 1..Len(r) : /\ \E m \in 1..Len(s) : r[n] = s[m]
                                       /\ MinVersion(r[n].labels) >= threshold
<1> DEFINE L == Len(s)
           old == {i \in DOMAIN s : MinVersion(s[i].labels) < threshold}
           b == Cardinality(old)
           r == SubSeq(s, b + 1, L)
<1>1. RemoveBelow(s, threshold) = r
  BY DEF RemoveBelow, CutFirst
<1>2. L \in Nat /\ DOMAIN s = 1..L /\ old \in SUBSET (1..L)
  OBVIOUS
<1>3. \A i \in 1..L : MinVersion(s[i].labels) \in Int
  <2>1. \A f \in Entries(v) : MinVersion(f.labels) \in Int
    BY MinOf DEF Entries
  <2>2. \A i \in 1..L : s[i] \in Entries(v)
    OBVIOUS
  <2> HIDE DEF L
  <2> QED BY <2>1, <2>2
<1>4. b \in 0..L
  BY <1>2, FirstOnes
<1>5. ASSUME NEW i \in 1..L, i > b PROVE MinVersion(s[i].labels) >= threshold
  <2> SUFFICES ASSUME MinVersion(s[i].labels) < threshold PROVE FALSE
    BY <1>3
  <2>1. ASSUME NEW j \in 1..i PROVE j \in old
    <3>1. j \in 1..L /\ (j < i \/ j = i)
      OBVIOUS
    <3>2. MinVersion(s[j].labels) <= MinVersion(s[i].labels)
      BY <1>3, <3>1 DEF Ascending
    <3>3. MinVersion(s[j].labels) < threshold
      BY <1>3, <3>1, <3>2
    <3> QED BY <1>2, <3>1, <3>3
  <2>2. 1..i \subseteq old
    BY <2>1
  <2> HIDE DEF old
  <2>3. i <= Cardinality(old)
    BY <1>2, <2>2, FirstOnes
  <2> QED BY <1>2, <1>4, <1>5, <2>3
<1> HIDE DEF old, b
<1>6. /\ r \in Seq(Entries(v)) /\ Len(r) = L - b
      /\ \A n \in 1..Len(r) : n + b \in 1..L /\ n + b > b /\ r[n] = s[n + b]
  <2>1. /\ r \in Seq(Entries(v)) /\ Len(r) = IF b + 1 <= L THEN L - (b + 1) + 1 ELSE 0
        /\ \A n \in 1..Len(r) : r[n] = s[(b + 1) + n - 1]
    BY <1>2, <1>4, SubSeqProperties
  <2>2. Len(r) = L - b
    <3>1. \A a, n \in Nat : (IF a + 1 <= n THEN n - (a + 1) + 1 ELSE 0) = IF a <= n THEN n - a ELSE 0
      OBVIOUS
    <3>2. L \in Nat /\ b \in Nat /\ b <= L
      BY <1>2, <1>4
    <3> HIDE DEF L, r
    <3> QED BY <2>1, <3>1, <3>2
  <2>3. \A n \in 1..L - b : (b + 1) + n - 1 = n + b /\ n + b \in 1..L /\ n + b > b
    BY <1>2, <1>4
  <2> HIDE DEF r
  <2> QED BY <2>1, <2>2, <2>3
<1> HIDE DEF r
<1>7. ASSUME NEW i \in 1..Len(r), NEW j \in 1..Len(r), i < j
      PROVE  MinVersion(r[i].labels) <= MinVersion(r[j].labels)
  <2>1. i + b < j + b
    BY <1>4, <1>7
  <2> QED BY <1>6, <2>1 DEF Ascending
<1>8. Ascending(r)
  BY <1>7 DEF Ascending
<1>9. Len(r) <= L
  BY <1>2, <1>4, <1>6
<1>10. \A n \in 1..Len(r) : (\E m \in 1..L : r[n] = s[m]) /\ MinVersion(r[n].labels) >= threshold
  BY <1>5, <1>6
<1> QED BY <1>1, <1>6, <1>8, <1>9, <1>10

\* Steps that leave the round and the store alone.
LEMMA RoundKept ==
    ASSUME StoreInv, version \in Nat, UNCHANGED <<version, minOnPolicy, store, batch>>,
           runner' = runner \/ (runner' \notin {"train", "trained"} /\ runner \notin {"train", "trained"})
    PROVE  BatchIsFresh' /\ \A i \in 1..Len(store) : UsedOK(store'[i], version' + RoundTaken')
<1>1. RoundTaken' = RoundTaken
  BY DEF RoundTaken
<1>2. BatchIsFresh'
  BY DEF StoreInv, BatchIsFresh, Stale
<1>3. \A i \in 1..Len(store) : UsedOK(store'[i], version' + RoundTaken')
  BY <1>1 DEF StoreInv
<1> QED BY <1>2, <1>3

LEMMA GenerateStore == ASSUME PPOInv, StoreInv, Generate PROVE StoreInv'
<1>1. /\ version \in Nat /\ label \in 0..version /\ chunks \in Seq(0..version)
      /\ UNCHANGED <<version, minOnPolicy, store, batch, runner, recvQueue>>
  BY DEF Generate, syncVars, receiverVars, senderVars, PPOInv, SyncInv, SyncType, LabelRight, StoreInv
<1> DEFINE labels == Append(chunks, label)
<1>2. labels \in Seq(0..version) /\ labels \in Labelled(version)
  <2>1. labels \in Seq(0..version) /\ Len(labels) = Len(chunks) + 1 /\ Len(chunks) \in Nat
    BY <1>1
  <2>2. labels # <<>>
    BY <2>1
  <2> QED BY <2>1, <2>2 DEF Labelled
<1>3. \/ chunks' = labels /\ actorChannel' = actorChannel
      \/ chunks' = <<>> /\ actorChannel' = Append(actorChannel, labels)
  BY DEF Generate
<1> HIDE DEF labels
<1>4. chunks' \in Seq(0..version) /\ actorChannel' \in Seq(Labelled(version))
  <2>1. actorChannel \in Seq(Labelled(version)) /\ <<>> \in Seq(0..version)
    BY DEF StoreInv
  <2>2. Append(actorChannel, labels) \in Seq(Labelled(version))
    BY <1>2, <2>1
  <2> QED BY <1>2, <1>3, <2>1, <2>2
<1> QED BY <1>1, <1>4, RoundKept DEF StoreInv

LEMMA ReceiveStore == ASSUME PPOInv, StoreInv, Receive PROVE StoreInv'
<1>1. /\ version \in Nat /\ actorChannel # <<>>
      /\ UNCHANGED <<version, minOnPolicy, store, batch, runner, chunks>>
      /\ actorChannel' = Tail(actorChannel)
      /\ recvQueue' = recvQueue \/ recvQueue' = Append(recvQueue, Head(actorChannel))
  BY DEF Receive, syncVars, PPOInv, SyncInv, SyncType
<1>2. actorChannel' \in Seq(Labelled(version)) /\ recvQueue' \in Seq(Labelled(version))
  <2>1. actorChannel \in Seq(Labelled(version)) /\ recvQueue \in Seq(Labelled(version))
    BY DEF StoreInv
  <2>2. Head(actorChannel) \in Labelled(version) /\ Tail(actorChannel) \in Seq(Labelled(version))
    BY <1>1, <2>1
  <2>3. Append(recvQueue, Head(actorChannel)) \in Seq(Labelled(version))
    BY <2>1, <2>2
  <2> QED BY <1>1, <2>1, <2>2, <2>3
<1> QED BY <1>1, <1>2, RoundKept DEF StoreInv

LEMMA DrainStore == ASSUME PPOInv, StoreInv, Drain PROVE StoreInv'
<1>1. /\ version \in Nat /\ recvQueue # <<>> /\ runner = "wait"
      /\ UNCHANGED <<version, minOnPolicy, batch, runner, chunks, actorChannel>>
      /\ recvQueue' = Tail(recvQueue)
      /\ store' = store \/ store' = Add(store, Head(recvQueue))
  BY DEF Drain, syncVars, PPOInv, SyncInv, SyncType
<1>2. Head(recvQueue) \in Labelled(version) /\ recvQueue' \in Seq(Labelled(version))
  BY <1>1 DEF StoreInv
<1> DEFINE l == Head(recvQueue)
<1>3. CASE store' = store
  BY <1>1, <1>2, <1>3, RoundKept DEF StoreInv
<1>4. CASE store' = Add(store, l)
  <2>1. /\ store' \in Seq(Entries(version)) /\ Len(store') <= StoreSize /\ Ascending(store')
        /\ \A n \in 1..Len(store') :
              store'[n] = Entry(l) \/ \E m \in 1..Len(store) : store'[n] = store[m]
    BY <1>1, <1>2, <1>4, AddFacts DEF StoreInv
  <2>2. RoundTaken' = RoundTaken
    BY <1>1 DEF RoundTaken
  <2>3. \A i \in 1..Len(store) : UsedOK(store[i], version + RoundTaken)
    BY DEF StoreInv
  <2>4. UsedOK(Entry(l), version + RoundTaken)
    <3>1. MinVersion(l) \in 0..version
      BY <1>1, <1>2, MinOf
    <3>2. Entry(l).uses = 0 /\ Entry(l).labels = l
      BY DEF Entry
    <3>3. Threshold \in Nat /\ RoundTaken \in {0, 1}
      BY PPOAssumption DEF RoundTaken
    <3> HIDE DEF l
    <3> QED BY <1>1, <3>1, <3>2, <3>3 DEF UsedOK
  <2>5. \A i \in 1..Len(store') : UsedOK(store'[i], version' + RoundTaken')
    BY <1>1, <2>1, <2>2, <2>3, <2>4
  <2>6. BatchIsFresh'
    BY <1>1 DEF BatchIsFresh
  <2> QED BY <1>1, <1>2, <2>1, <2>5, <2>6 DEF StoreInv, Ascending
<1> QED BY <1>1, <1>3, <1>4

LEMMA ConstructStore == ASSUME PPOInv, StoreInv, Construct PROVE StoreInv'
<1> DEFINE kept == RemoveBelow(store, version - Threshold)
           trains == Len(kept) >= StoreSize /\ ChunksOf(kept, version) >= minOnPolicy
<1>1. /\ version \in Nat /\ Threshold \in Nat /\ StoreSize \in Nat /\ runner = "wait"
      /\ UNCHANGED <<version, minOnPolicy, chunks, actorChannel, recvQueue>>
  BY PPOAssumption DEF Construct, syncVars, PPOInv, SyncInv, SyncType
<1>2. IF trains
      THEN /\ runner' = "train"
           /\ store' = [i \in DOMAIN kept |-> [kept[i] EXCEPT !.uses = @ + 1]]
           /\ batch' = [i \in DOMAIN kept |-> kept[i].labels]
      ELSE store' = kept /\ UNCHANGED <<runner, batch>>
  BY DEF Construct
<1>3. store \in Seq(Entries(version)) /\ Len(store) <= StoreSize /\ Ascending(store)
  BY DEF StoreInv
<1>4. /\ kept \in Seq(Entries(version)) /\ Len(kept) <= Len(store) /\ Ascending(kept)
      /\ \A n \in 1..Len(kept) : /\ \E m \in 1..Len(store) : kept[n] = store[m]
                                 /\ MinVersion(kept[n].labels) >= version - Threshold
  BY <1>1, <1>3, RemoveFacts
<1>5. \A n \in 1..Len(kept) : UsedOK(kept[n], version)
  <2>1. RoundTaken = 0
    BY <1>1 DEF RoundTaken
  <2>2. \A i \in 1..Len(store) : UsedOK(store[i], version + RoundTaken)
    BY DEF StoreInv
  <2>3. \A i \in 1..Len(store) : UsedOK(store[i], version)
    BY <1>1, <2>1, <2>2
  <2> HIDE DEF kept
  <2> QED BY <1>4, <2>3
<1> HIDE DEF kept
<1>6. Len(kept) \in Nat /\ Len(kept) <= StoreSize /\ DOMAIN kept = 1..Len(kept)
  BY <1>1, <1>3, <1>4
<1>7. CASE ~trains
  <2>1. store' = kept /\ UNCHANGED <<runner, batch>>
    BY <1>2, <1>7
  <2>2. version' + RoundTaken' = version
    BY <1>1, <2>1 DEF RoundTaken
  <2>3. BatchIsFresh'
    BY <1>1, <2>1 DEF BatchIsFresh
  <2> QED BY <1>1, <1>4, <1>5, <1>6, <2>1, <2>2, <2>3 DEF StoreInv, Ascending
<1>8. CASE trains
  <2>1. /\ runner' = "train"
        /\ store' = [i \in 1..Len(kept) |-> [kept[i] EXCEPT !.uses = @ + 1]]
        /\ batch' = [i \in 1..Len(kept) |-> kept[i].labels]
    BY <1>2, <1>6, <1>8
  <2>2. ASSUME NEW i \in 1..Len(kept)
        PROVE  /\ store'[i] \in Entries(version) /\ store'[i].labels = kept[i].labels
               /\ store'[i].uses = kept[i].uses + 1 /\ kept[i] \in Entries(version)
    <3>1. kept[i] \in Entries(version) /\ store'[i] = [kept[i] EXCEPT !.uses = @ + 1]
      BY <1>4, <2>1
    <3> QED BY <3>1 DEF Entries
  <2>3. /\ store' \in Seq(Entries(version)) /\ Len(store') = Len(kept)
        /\ batch' \in Seq(Labelled(version)) /\ Len(batch') = Len(kept) /\ DOMAIN batch' = DOMAIN kept
    <3>1. \A i \in 1..Len(kept) : [kept[i] EXCEPT !.uses = @ + 1] \in Entries(version)
                                  /\ kept[i].labels \in Labelled(version)
      BY <2>1, <2>2 DEF Entries
    <3> QED BY <1>6, <2>1, <3>1
  <2>4. version' + RoundTaken' = version + 1
    BY <1>1, <2>1 DEF RoundTaken
  <2>5. ASSUME NEW i \in 1..Len(kept) PROVE UsedOK(store'[i], version + 1)
    <3>1. /\ kept[i].uses \in Nat /\ MinVersion(kept[i].labels) \in 0..version
          /\ kept[i].uses + MinVersion(kept[i].labels) <= version
          /\ MinVersion(kept[i].labels) >= version - Threshold
      BY <1>1, <1>4, <1>5, <2>2, MinOf DEF Entries, UsedOK
    <3>2. kept[i].uses + 1 <= Threshold + 1 /\ kept[i].uses + 1 + MinVersion(kept[i].labels) <= version + 1
      BY SMTT(30), <1>1, <3>1
    <3> QED BY <2>2, <3>2 DEF UsedOK
  <2>6. Ascending(store')
    BY <1>4, <2>2, <2>3 DEF Ascending
  <2>7. BatchIsFresh'
    <3>1. Len(batch') = StoreSize
      <4>1. Len(kept) >= StoreSize
        BY <1>8
      <4>2. \A m, n \in Nat : m >= n /\ m <= n => m = n
        OBVIOUS
      <4> HIDE DEF trains
      <4> QED BY <1>1, <1>6, <2>3, <4>1, <4>2
    <3>2. \A i \in DOMAIN batch' : ~(MinVersion(batch'[i]) + Threshold < version)
      <4>1. ASSUME NEW i \in 1..Len(kept) PROVE ~(MinVersion(kept[i].labels) + Threshold < version)
        <5>1. MinVersion(kept[i].labels) \in 0..version
          BY <1>1, <2>2, MinOf DEF Entries
        <5> QED BY <1>1, <1>4, <5>1
      <4> QED BY <1>6, <2>1, <2>3, <4>1
    <3>3. {p \in (DOMAIN batch') \X (1..Chunks) : batch'[p[1]][p[2]] = version}
            = {p \in (DOMAIN kept) \X (1..Chunks) : kept[p[1]].labels[p[2]] = version}
      <4>1. \A i \in DOMAIN kept : batch'[i] = kept[i].labels
        BY <1>6, <2>1
      <4> QED BY <2>3, <4>1
    <3>4. Cardinality({p \in (DOMAIN batch') \X (1..Chunks) : batch'[p[1]][p[2]] = version})
            >= minOnPolicy
      BY <1>8, <3>3 DEF ChunksOf
    <3> QED BY <1>1, <3>1, <3>2, <3>4 DEF BatchIsFresh, Stale
  <2> QED BY <1>1, <1>6, <2>3, <2>4, <2>5, <2>6, <2>7 DEF StoreInv
<1> QED BY <1>7, <1>8

LEMMA SetVersionStore == ASSUME PPOInv, StoreInv, SetVersion PROVE StoreInv'
<1>1. /\ version \in Nat /\ version' = version + 1 /\ runner = "trained" /\ runner' = "set"
      /\ UNCHANGED <<minOnPolicy, chunks, actorChannel, recvQueue, store, batch>>
  BY DEF SetVersion, DataUnchanged, PPOInv, SyncInv, SyncType
<1>2. version' + RoundTaken' = version + RoundTaken
  BY <1>1 DEF RoundTaken
<1>3. BatchIsFresh'
  BY <1>1 DEF BatchIsFresh
<1>4. /\ chunks' \in Seq(0..version') /\ actorChannel' \in Seq(Labelled(version'))
      /\ recvQueue' \in Seq(Labelled(version')) /\ store' \in Seq(Entries(version'))
  BY <1>1, NextVersion DEF StoreInv
<1> QED BY <1>1, <1>2, <1>3, <1>4 DEF StoreInv, Ascending

LEMMA TrainStore == ASSUME PPOInv, StoreInv, Train PROVE StoreInv'
<1>1. /\ runner = "train" /\ runner' = "trained"
      /\ UNCHANGED <<version, minOnPolicy, chunks, actorChannel, recvQueue, store>>
  BY DEF Train
<1>2. version' + RoundTaken' = version + RoundTaken
  BY <1>1 DEF RoundTaken
<1>3. BatchIsFresh'
  BY <1>1 DEF BatchIsFresh
<1> QED BY <1>1, <1>2, <1>3 DEF StoreInv, Ascending

LEMMA SyncStore ==
    ASSUME PPOInv, StoreInv, StartSync \/ EndSync \/ ActorSync \/ RolloutSync \/ UNCHANGED vars
    PROVE  StoreInv'
<1>1. /\ version \in Nat
      /\ UNCHANGED <<version, minOnPolicy, chunks, actorChannel, recvQueue, store, batch>>
  BY DEF StartSync, EndSync, ActorSync, RolloutSync, DataUnchanged, vars, syncVars, PPOInv, SyncInv,
         SyncType
<1>2. runner' = runner \/ (runner' \notin {"train", "trained"} /\ runner \notin {"train", "trained"})
  BY DEF StartSync, EndSync, ActorSync, RolloutSync, vars
<1>3. BatchIsFresh' /\ \A i \in 1..Len(store) : UsedOK(store'[i], version' + RoundTaken')
  BY <1>1, <1>2, RoundKept
<1> QED BY <1>1, <1>3 DEF StoreInv, Ascending

LEMMA StoreStep == ASSUME PPOInv, StoreInv, [Next]_vars PROVE StoreInv'
BY GenerateStore, ReceiveStore, DrainStore, ConstructStore, TrainStore, SetVersionStore, SyncStore
   DEF Next

LEMMA StoreStart == Init => StoreInv
<1> SUFFICES ASSUME Init PROVE StoreInv
  OBVIOUS
<1>1. /\ chunks = <<>> /\ actorChannel = <<>> /\ recvQueue = <<>> /\ store = <<>> /\ runner = "start"
  BY DEF Init
<1> QED BY <1>1, PPOAssumption DEF StoreInv, Ascending, BatchIsFresh

THEOREM StoreInvariant == Spec => []StoreInv
<1>1. PPOInv /\ PPOInv' /\ StoreInv /\ [Next]_vars => StoreInv'
  BY StoreStep
<1> QED BY <1>1, StoreStart, PPOInvariant, PTL DEF Spec

(* A round trains on a full batch none of whose trajectories is older than *)
(* staleness_threshold versions, and enough of whose chunks have the       *)
(* version that is trained, for any store, threshold and number of chunks: *)
(* remove_below after the drain, whatever the thread has received.         *)
THEOREM BatchIsFreshHolds == Spec => []BatchIsFresh
<1>1. StoreInv => BatchIsFresh
  BY DEF StoreInv
<1> QED BY <1>1, StoreInvariant, PTL

(* No trajectory is used in more than staleness_threshold + 1 rounds,      *)
(* though topn leaves it in the store.                                     *)
THEOREM ReuseBoundedHolds == Spec => []ReuseBounded
<1>1. ASSUME StoreInv PROVE ReuseBounded
  <2>1. Range(store) = {store[i] : i \in 1..Len(store)}
    BY <1>1 DEF StoreInv, Range
  <2> QED BY <1>1, <2>1 DEF ReuseBounded, StoreInv, UsedOK
<1> QED BY <1>1, StoreInvariant, PTL
=============================================================================
