------------------------- MODULE TrainingDataProofs -------------------------
(***************************************************************************)
(* What the actors train on.                                               *)
(*                                                                         *)
(* Pipelined actors: every step of the optimizer applies the gradients of  *)
(* its own global batch, for any number of actors and micro-batches, if    *)
(* gradients are accumulated over several micro-batches or global batches  *)
(* are trained several times, but not both.  With both it is not so        *)
(* (pipeline_mixed).  The reason is that the gradients are those of the    *)
(* current global batch whenever no other is trained again (Grads), and    *)
(* that only a global batch of one micro-batch is ever trained again       *)
(* (Again), at a time when there is no current one.  The ranks agree which *)
(* collective operations reduce gradients, because the kind of an          *)
(* operation depends only on how many there were (Kinds).                  *)
(*                                                                         *)
(* Replay buffer: a sample is a chunk of the trajectory that the index     *)
(* names.  The reason is that the cache holds the newest trajectories in   *)
(* slots taken in turn, so that the slot of a trajectory says how long ago *)
(* it was put (InTurn), and that the cells of a slot are moved along when  *)
(* slots grow (Holds); and for a trajectory that left the cache, that a    *)
(* directory is used by one start or one checkpoint only, so that an id    *)
(* that is given out again names another file (FilesInv).                  *)
(***************************************************************************)
EXTENDS PipelineActor, ReplayBuffer, WellFoundedInduction, SequenceTheorems, TLAPS

OneOfBoth == \A s \in Settings : s.accumulation = 1 \/ s.updateEpoch = 1

Batch == Seq(Nat)
Where == {"receive", "train", "again", "done"}
Trained == [of : Batch, left : Batch, count : Nat]
Step == [of : Batch, grads : Batch]

PipeTypeOK ==
    /\ setting \in Settings
    /\ put \in [Actors -> Nat]
    /\ channel \in [Actors -> Batch]
    /\ at \in [Actors -> Where]
    /\ pendingBatch \in [Actors -> Batch]
    /\ current \in [Actors -> Batch]
    /\ globalBatches \in [Actors -> [1 .. setting.updateEpoch -> Seq(Batch)]]
    /\ again \in [Actors -> Trained]
    /\ grads \in [Actors -> Batch]
    /\ updates \in [Actors -> Seq(Step)]

\* The gradients are those of the current global batch, which is empty if each is one micro-batch.
Grads == \A a \in Actors : /\ at[a] # "again" => grads[a] = current[a]
                           /\ setting.accumulation = 1 => current[a] = <<>>

\* What is trained again is a whole global batch of one micro-batch.
Again == \A a \in Actors : at[a] = "again" =>
            /\ setting.accumulation = 1 /\ grads[a] = <<>>
            /\ Len(again[a].of) = 1 /\ again[a].left = again[a].of
            /\ again[a].count \in 1 .. setting.updateEpoch - 1

Singles == setting.accumulation = 1 =>
              \A a \in Actors : \A n \in 1 .. setting.updateEpoch :
                  \A m \in 1 .. Len(globalBatches[a][n]) : Len(globalBatches[a][n][m]) = 1

\* The n-th collective operation of an actor ends a global batch if n is a multiple of `accumulation`,
\* and since the last that did it has trained the micro-batches of its current one.
Kinds == /\ collectives \in [Actors -> Seq(BOOLEAN)]
         /\ \A a \in Actors :
               /\ Len(collectives[a]) % setting.accumulation = Len(current[a])
               /\ \A n \in 1 .. Len(collectives[a]) :
                     collectives[a][n] = (n % setting.accumulation = 0)

PipeInv == PipeTypeOK /\ Grads /\ Again /\ Singles /\ UpdatesOwnBatch

-----------------------------------------------------------------------------
LEMMA NatMin == ASSUME NEW T \in SUBSET Nat, T # {} PROVE \E x \in T : \A y \in T : x <= y
<1>1. IsWellFoundedOn(OpToRel(<, Nat), Nat)
  BY NatLessThanWellFounded
<1>2. PICK x \in T : \A y \in T : ~(<<y, x>> \in OpToRel(<, Nat))
  BY <1>1, WFMin
<1>3. \A y \in T : ~(y < x)
  BY <1>2 DEF OpToRel
<1> QED BY <1>3

LEMMA AppendOne ==
    ASSUME NEW S, NEW s \in Seq(S), NEW e \in S
    PROVE  /\ Append(s, e) \in Seq(S) /\ Len(Append(s, e)) = Len(s) + 1
           /\ DOMAIN Append(s, e) = 1 .. Len(s) + 1 /\ DOMAIN s = 1 .. Len(s)
           /\ \A n \in 1 .. Len(s) + 1 : Append(s, e)[n] = IF n <= Len(s) THEN s[n] ELSE e
OBVIOUS

LEMMA TailOne ==
    ASSUME NEW S, NEW s \in Seq(S), s # <<>>
    PROVE  /\ Head(s) \in S /\ Head(s) = s[1] /\ 1 \in 1 .. Len(s)
           /\ Tail(s) \in Seq(S) /\ Len(Tail(s)) = Len(s) - 1
           /\ \A n \in 1 .. Len(Tail(s)) : n + 1 \in 1 .. Len(s) /\ Tail(s)[n] = s[n + 1]
OBVIOUS

\* What is said of a global batch of length 1.
LEMMA SingleBatch ==
    ASSUME NEW b \in Batch, Len(b) = 1
    PROVE  Head(b) \in Nat /\ Append(<<>>, Head(b)) = b
<1>1. b \in Seq(Nat) /\ b # <<>>
  <2>1. b \in Seq(Nat)
    BY DEF Batch
  <2>2. Len(<<>>) = 0
    BY EmptySeq
  <2> QED BY SMTT(30), <2>1, <2>2
<1>2. Head(b) = b[1] /\ b[1] \in Nat
  BY <1>1, TailOne, ElementOfSeq
<1>3. /\ Append(<<>>, b[1]) \in Seq(Nat) /\ Len(Append(<<>>, b[1])) = 1
      /\ Append(<<>>, b[1])[1] = b[1]
  BY <1>2
<1>4. \A n \in 1 .. 1 : n = 1
  OBVIOUS
<1>5. Append(<<>>, b[1]) = b
  BY <1>1, <1>3, <1>4, SeqEqual
<1> QED BY <1>2, <1>5

LEMMA SettingFacts ==
    ASSUME PipeTypeOK
    PROVE  /\ setting.accumulation \in Nat \ {0} /\ setting.updateEpoch \in Nat \ {0}
           /\ 1 \in 1 .. setting.updateEpoch
BY SettingsAssumption DEF PipeTypeOK

\* An actor adds a step of the optimizer.
LEMMA UpdateKept ==
    ASSUME PipeTypeOK, UpdatesOwnBatch, NEW a \in Actors, NEW batch \in Batch,
           updates' = [updates EXCEPT ![a] = Append(@, [of |-> batch, grads |-> batch])]
    PROVE  updates' \in [Actors -> Seq(Step)] /\ UpdatesOwnBatch'
<1> DEFINE e == [of |-> batch, grads |-> batch]
<1>1. e \in Step /\ e.of = batch /\ e.grads = batch /\ updates \in [Actors -> Seq(Step)]
  BY DEF Step, PipeTypeOK
<1>2. /\ Append(updates[a], e) \in Seq(Step)
      /\ DOMAIN Append(updates[a], e) = 1 .. Len(updates[a]) + 1
      /\ DOMAIN updates[a] = 1 .. Len(updates[a])
      /\ \A n \in 1 .. Len(updates[a]) + 1 :
            Append(updates[a], e)[n] = IF n <= Len(updates[a]) THEN updates[a][n] ELSE e
  BY <1>1, AppendOne
<1>3. updates' \in [Actors -> Seq(Step)] /\ updates'[a] = Append(updates[a], e)
      /\ \A b \in Actors \ {a} : updates'[b] = updates[b]
  BY <1>1, <1>2
<1>4. ASSUME NEW n \in DOMAIN updates'[a] PROVE updates'[a][n].grads = updates'[a][n].of
  <2>1. n \in 1 .. Len(updates[a]) + 1 /\ Len(updates[a]) \in Nat
    BY <1>1, <1>2, <1>3, <1>4
  <2>2. CASE n <= Len(updates[a])
    BY <1>2, <1>3, <2>1, <2>2 DEF UpdatesOwnBatch
  <2>3. CASE ~(n <= Len(updates[a]))
    BY <1>1, <1>2, <1>3, <2>1, <2>3
  <2> QED BY <2>2, <2>3
<1> QED BY <1>3, <1>4 DEF UpdatesOwnBatch

-----------------------------------------------------------------------------
\* Micro-batches that are put or received touch nothing that the properties speak of.
LEMMA Received ==
    ASSUME PipeInv, NEW a \in Actors, ReceiveMicroBatch(a)
    PROVE  channel' \in [Actors -> Batch] /\ pendingBatch' \in [Actors -> Batch]
<1>1. /\ channel \in [Actors -> Seq(Nat)] /\ pendingBatch \in [Actors -> Seq(Nat)]
      /\ channel[a] # <<>> /\ channel' = [channel EXCEPT ![a] = Tail(@)]
      /\ pendingBatch' = [pendingBatch EXCEPT ![a] = Append(@, Head(channel[a]))]
  BY DEF PipeInv, PipeTypeOK, Batch, ReceiveMicroBatch
<1>2. Tail(channel[a]) \in Seq(Nat) /\ Head(channel[a]) \in Nat
  BY <1>1, TailOne
<1>3. Append(pendingBatch[a], Head(channel[a])) \in Seq(Nat)
  BY <1>1, <1>2
<1> QED BY <1>1, <1>2, <1>3 DEF Batch

LEMMA DataMoves ==
    ASSUME PipeInv, channel' \in [Actors -> Batch], pendingBatch' \in [Actors -> Batch],
           put' \in [Actors -> Nat], NEW a \in Actors, NEW w \in {"receive", "train", "done"},
           at' = at \/ (at[a] # "again" /\ at' = [at EXCEPT ![a] = w]),
           UNCHANGED <<setting, current, globalBatches, again, grads, updates>>
    PROVE  PipeInv'
<1>1. at' \in [Actors -> Where] /\ \A b \in Actors : at'[b] = "again" <=> at[b] = "again"
  BY DEF PipeInv, PipeTypeOK, Where
<1>2. PipeTypeOK'
  BY <1>1 DEF PipeInv, PipeTypeOK
<1>3. Grads' /\ Again' /\ Singles' /\ UpdatesOwnBatch'
  BY <1>1 DEF PipeInv, Grads, Again, Singles, UpdatesOwnBatch
<1> QED BY <1>2, <1>3 DEF PipeInv

LEMMA PutInv == ASSUME PipeInv, NEW a \in Actors, PutMicroBatch(a) PROVE PipeInv'
<1>1. /\ put \in [Actors -> Nat] /\ channel \in [Actors -> Seq(Nat)]
      /\ put' = [put EXCEPT ![a] = @ + 1]
      /\ channel' = [channel EXCEPT ![a] = Append(@, put[a] + 1)]
      /\ UNCHANGED <<setting, at, pendingBatch, current, globalBatches, again, grads, updates>>
      /\ pendingBatch \in [Actors -> Batch]
  BY DEF PipeInv, PipeTypeOK, PutMicroBatch, Batch
<1>2. Append(channel[a], put[a] + 1) \in Seq(Nat) /\ put[a] + 1 \in Nat
  BY <1>1
<1>3. channel' \in [Actors -> Batch] /\ put' \in [Actors -> Nat]
  BY <1>1, <1>2 DEF Batch
<1> QED BY <1>1, <1>3, DataMoves

LEMMA TryReceiveInv == ASSUME PipeInv, NEW a \in Actors, TryReceive(a) PROVE PipeInv'
<1>1. /\ at[a] = "receive" /\ put' = put /\ put \in [Actors -> Nat]
      /\ channel \in [Actors -> Batch] /\ pendingBatch \in [Actors -> Batch]
      /\ UNCHANGED <<setting, current, globalBatches, again, grads, updates>>
  BY DEF TryReceive, PipeInv, PipeTypeOK
<1>2. CASE ReceiveMicroBatch(a) /\ UNCHANGED at
  BY <1>1, <1>2, Received, DataMoves
<1>3. CASE at' = [at EXCEPT ![a] = "train"] /\ UNCHANGED <<channel, pendingBatch>>
  BY <1>1, <1>3, DataMoves
<1> QED BY <1>2, <1>3 DEF TryReceive

LEMMA TrainNewInv == ASSUME PipeInv, NEW a \in Actors, TrainNew(a) PROVE PipeInv'
<1> DEFINE micro == Head(pendingBatch[a])
           batch == Append(current[a], micro)
<1>1. /\ at[a] = "train" /\ pendingBatch[a] # <<>>
      /\ Optimize(a, micro, IsLast(a), batch)
      /\ pendingBatch' = [pendingBatch EXCEPT ![a] = Tail(@)]
      /\ UNCHANGED <<setting, put, channel, at, again>>
      /\ PipeTypeOK /\ pendingBatch \in [Actors -> Seq(Nat)]
      /\ current \in [Actors -> Seq(Nat)] /\ grads \in [Actors -> Seq(Nat)]
  BY DEF TrainNew, PipeInv, PipeTypeOK, Batch
<1>2. grads[a] = current[a]
  BY <1>1 DEF PipeInv, Grads
<1>3. Tail(pendingBatch[a]) \in Seq(Nat) /\ micro \in Nat
  BY <1>1, TailOne
<1>4. batch \in Seq(Nat) /\ Len(batch) = Len(current[a]) + 1 /\ Len(current[a]) \in Nat
  BY <1>1, <1>3
<1>5. pendingBatch' \in [Actors -> Batch]
  BY <1>1, <1>3 DEF Batch
<1> HIDE DEF micro, batch
<1>6. CASE IsLast(a)
  <2>1. /\ updates' = [updates EXCEPT ![a] = Append(@, [of |-> batch, grads |-> batch])]
        /\ grads' = [grads EXCEPT ![a] = <<>>]
        /\ globalBatches' = [globalBatches EXCEPT ![a][1] = Append(@, batch)]
        /\ current' = [current EXCEPT ![a] = <<>>]
    BY <1>1, <1>2, <1>6 DEF Optimize, TrainNew, micro, batch
  <2>2. updates' \in [Actors -> Seq(Step)] /\ UpdatesOwnBatch'
    BY <1>1, <1>4, <2>1, UpdateKept DEF PipeInv, Batch
  <2>3. globalBatches[a][1] \in Seq(Batch) /\ 1 \in 1 .. setting.updateEpoch
    BY SMTT(30), <1>1, SettingFacts DEF PipeTypeOK
  <2>4. /\ Append(globalBatches[a][1], batch) \in Seq(Batch)
        /\ \A m \in 1 .. Len(globalBatches[a][1]) + 1 :
              Append(globalBatches[a][1], batch)[m]
                 = IF m <= Len(globalBatches[a][1]) THEN globalBatches[a][1][m] ELSE batch
        /\ Len(Append(globalBatches[a][1], batch)) = Len(globalBatches[a][1]) + 1
    BY SMTT(30), <1>4, <2>3, AppendOne DEF Batch
  <2>5. globalBatches' \in [Actors -> [1 .. setting.updateEpoch -> Seq(Batch)]]
    BY <1>1, <2>1, <2>4 DEF PipeTypeOK
  <2>6. current' \in [Actors -> Batch] /\ grads' \in [Actors -> Batch]
    BY <1>1, <2>1 DEF Batch
  <2>7. PipeTypeOK'
    BY <1>1, <1>5, <2>2, <2>5, <2>6 DEF PipeTypeOK
  <2>8. Grads' /\ Again'
    BY <1>1, <2>1 DEF PipeInv, Grads, Again, PipeTypeOK
  <2>9. ASSUME setting.accumulation = 1, NEW b \in Actors, NEW n \in 1 .. setting.updateEpoch,
               NEW m \in 1 .. Len(globalBatches'[b][n])
        PROVE  Len(globalBatches'[b][n][m]) = 1
    <3>1. CASE b = a /\ n = 1
      <4>1. globalBatches'[b][n] = Append(globalBatches[a][1], batch)
        BY <1>1, <2>1, <2>3, <3>1 DEF PipeTypeOK
      <4>2. current[a] = <<>>
        BY <2>9 DEF PipeInv, Grads
      <4>3. Len(batch) = 1
        BY <1>4, <4>2
      <4>4. Len(globalBatches[a][1]) \in Nat
        BY <2>3
      <4>5. CASE m <= Len(globalBatches[a][1])
        BY <2>3, <2>4, <2>9, <3>1, <4>1, <4>4, <4>5 DEF PipeInv, Singles
      <4>6. CASE ~(m <= Len(globalBatches[a][1]))
        BY <2>4, <2>9, <3>1, <4>1, <4>3, <4>4, <4>6
      <4> QED BY <4>5, <4>6
    <3>2. CASE ~(b = a /\ n = 1)
      <4>1. globalBatches'[b][n] = globalBatches[b][n]
        BY <1>1, <2>1, <3>2 DEF PipeTypeOK
      <4> QED BY <2>9, <4>1 DEF PipeInv, Singles
    <3> QED BY <3>1, <3>2
  <2>10. Singles'
    BY <1>1, <2>9 DEF Singles
  <2> QED BY <2>2, <2>7, <2>8, <2>10 DEF PipeInv
<1>7. CASE ~IsLast(a)
  <2>1. /\ grads' = [grads EXCEPT ![a] = batch] /\ current' = [current EXCEPT ![a] = batch]
        /\ UNCHANGED <<globalBatches, updates>>
    BY <1>1, <1>2, <1>7 DEF Optimize, TrainNew, micro, batch
  <2>2. PipeTypeOK'
    BY <1>1, <1>4, <1>5, <2>1 DEF PipeTypeOK, Batch
  <2>3. setting.accumulation # 1
    BY <1>1, <1>7 DEF IsLast, PipeInv, Grads
  <2>4. Grads' /\ Again' /\ Singles' /\ UpdatesOwnBatch'
    BY <1>1, <2>1, <2>3 DEF PipeInv, PipeTypeOK, Grads, Again, Singles, UpdatesOwnBatch
  <2> QED BY <2>2, <2>4 DEF PipeInv
<1> QED BY <1>6, <1>7

LEMMA ChooseInv == ASSUME OneOfBoth, PipeInv, NEW a \in Actors, ChooseNext(a) PROVE PipeInv'
<1>1. /\ at[a] = "train" /\ put' = put /\ put \in [Actors -> Nat] /\ PipeTypeOK
      /\ channel \in [Actors -> Batch] /\ pendingBatch \in [Actors -> Batch]
      /\ UNCHANGED <<setting, current, grads, updates>>
  BY DEF ChooseNext, PipeInv, PipeTypeOK
<1>2. CASE /\ at' = [at EXCEPT ![a] = "done"]
           /\ UNCHANGED <<channel, pendingBatch, globalBatches, again>>
  BY <1>1, <1>2, DataMoves
<1>3. CASE /\ at' = [at EXCEPT ![a] = "receive"]
           /\ ReceiveMicroBatch(a) \/ UNCHANGED <<channel, pendingBatch>>
           /\ UNCHANGED <<globalBatches, again>>
  BY <1>1, <1>3, Received, DataMoves
<1>4. ASSUME NEW n, n = Least(Selectable(a)), Selectable(a) # {},
             at' = [at EXCEPT ![a] = "again"],
             again' = [again EXCEPT ![a] = [of |-> Head(globalBatches[a][n]),
                                            left |-> Head(globalBatches[a][n]), count |-> n]],
             globalBatches' = [globalBatches EXCEPT ![a][n] = Tail(@)],
             UNCHANGED <<channel, pendingBatch>>
      PROVE  PipeInv'
  <2>1. setting.accumulation \in Nat \ {0} /\ setting.updateEpoch \in Nat \ {0}
    BY <1>1, SettingFacts
  <2>2. n \in Selectable(a)
    <3>1. Selectable(a) \in SUBSET Nat
      BY DEF Selectable
    <3>2. \E x \in Selectable(a) : \A m \in Selectable(a) : x <= m
      BY <1>4, <3>1, NatMin
    <3> QED BY <1>4, <3>2 DEF Least
  <2>3. n \in 1 .. setting.updateEpoch - 1 /\ globalBatches[a][n] # <<>>
    BY <2>2 DEF Selectable
  <2>4. n \in 1 .. setting.updateEpoch /\ n \in Nat /\ setting.updateEpoch # 1
    BY <2>1, <2>3
  <2>5. setting.accumulation = 1
    BY <1>1, <2>4 DEF OneOfBoth, PipeTypeOK
  <2>6. globalBatches[a][n] \in Seq(Batch)
    BY ZenonT(30), <1>1, <2>4 DEF PipeTypeOK
  <2>7. /\ Head(globalBatches[a][n]) \in Batch /\ Head(globalBatches[a][n]) = globalBatches[a][n][1]
        /\ 1 \in 1 .. Len(globalBatches[a][n]) /\ Tail(globalBatches[a][n]) \in Seq(Batch)
        /\ \A m \in 1 .. Len(Tail(globalBatches[a][n])) :
              m + 1 \in 1 .. Len(globalBatches[a][n])
              /\ Tail(globalBatches[a][n])[m] = globalBatches[a][n][m + 1]
    BY <2>3, <2>6, TailOne
  <2>8. Len(Head(globalBatches[a][n])) = 1
    BY <2>4, <2>5, <2>7 DEF PipeInv, Singles
  <2>9. globalBatches' \in [Actors -> [1 .. setting.updateEpoch -> Seq(Batch)]]
    BY <1>1, <1>4, <2>7 DEF PipeTypeOK
  <2>10. again' \in [Actors -> Trained] /\ at' \in [Actors -> Where]
    BY <1>1, <1>4, <2>4, <2>7 DEF PipeTypeOK, Trained, Where
  <2>11. PipeTypeOK'
    BY <1>1, <1>4, <2>9, <2>10 DEF PipeTypeOK
  <2>12. Grads' /\ UpdatesOwnBatch'
    BY <1>1, <1>4 DEF PipeInv, PipeTypeOK, Grads, UpdatesOwnBatch
  <2>13. Again'
    <3>1. ASSUME NEW b \in Actors, at'[b] = "again"
          PROVE  /\ setting.accumulation = 1 /\ grads[b] = <<>>
                 /\ Len(again'[b].of) = 1 /\ again'[b].left = again'[b].of
                 /\ again'[b].count \in 1 .. setting.updateEpoch - 1
      <4>1. CASE b = a
        <5>1. grads[a] = <<>>
          BY <1>1, <2>5 DEF PipeInv, Grads
        <5>2. again'[a] = [of |-> Head(globalBatches[a][n]),
                           left |-> Head(globalBatches[a][n]), count |-> n]
          BY <1>1, <1>4 DEF PipeTypeOK
        <5> QED BY <2>3, <2>5, <2>8, <4>1, <5>1, <5>2
      <4>2. CASE b # a
        BY <1>1, <1>4, <3>1, <4>2 DEF PipeInv, PipeTypeOK, Again
      <4> QED BY <4>1, <4>2
    <3> QED BY <1>1, <3>1 DEF Again
  <2>14. Singles'
    <3>1. ASSUME NEW b \in Actors, NEW k \in 1 .. setting.updateEpoch,
                 NEW m \in 1 .. Len(globalBatches'[b][k])
          PROVE  Len(globalBatches'[b][k][m]) = 1
      <4>1. CASE b = a /\ k = n
        <5>1. globalBatches'[b][k] = Tail(globalBatches[a][n])
          BY <1>1, <1>4, <2>4, <4>1 DEF PipeTypeOK
        <5>2. m + 1 \in 1 .. Len(globalBatches[a][n])
              /\ globalBatches'[b][k][m] = globalBatches[a][n][m + 1]
          BY <2>7, <3>1, <5>1
        <5> QED BY <2>4, <2>5, <5>2 DEF PipeInv, Singles
      <4>2. CASE ~(b = a /\ k = n)
        <5>1. globalBatches'[b][k] = globalBatches[b][k]
          BY <1>1, <1>4, <4>2 DEF PipeTypeOK
        <5> QED BY <2>5, <3>1, <5>1 DEF PipeInv, Singles
      <4> QED BY <4>1, <4>2
    <3> QED BY <1>1, <3>1 DEF Singles
  <2> QED BY <2>11, <2>12, <2>13, <2>14 DEF PipeInv
<1> QED BY <1>2, <1>3, <1>4 DEF ChooseNext

LEMMA TrainAgainInv == ASSUME PipeInv, NEW a \in Actors, TrainAgain(a) PROVE PipeInv'
<1> DEFINE of == again[a].of
           count == again[a].count + 1
<1>1. /\ at[a] = "again" /\ UNCHANGED <<setting, put, channel, pendingBatch, current>>
      /\ PipeTypeOK /\ again[a] \in Trained
  BY DEF TrainAgain, PipeInv, PipeTypeOK
<1>2. /\ setting.accumulation = 1 /\ grads[a] = <<>> /\ Len(of) = 1 /\ again[a].left = of
      /\ again[a].count \in 1 .. setting.updateEpoch - 1
  BY <1>1 DEF PipeInv, Again
<1>3. of \in Batch /\ Append(<<>>, Head(of)) = of
  BY <1>1, <1>2, SingleBatch DEF Trained
<1>4. /\ updates' = [updates EXCEPT ![a] = Append(@, [of |-> of, grads |-> of])]
      /\ grads' = [grads EXCEPT ![a] = <<>>]
      /\ globalBatches' = [globalBatches EXCEPT ![a][count] = Append(@, of)]
      /\ again' = [again EXCEPT ![a] = NoBatch]
      /\ at' = [at EXCEPT ![a] = "receive"]
  BY <1>2, <1>3 DEF TrainAgain, Optimize
<1>5. count \in 1 .. setting.updateEpoch
  BY <1>1, <1>2, SettingFacts
<1> HIDE DEF of, count
<1>6. updates' \in [Actors -> Seq(Step)] /\ UpdatesOwnBatch'
  BY <1>1, <1>3, <1>4, UpdateKept DEF PipeInv
<1>7. globalBatches[a][count] \in Seq(Batch)
  BY ZenonT(30), <1>1, <1>5 DEF PipeTypeOK
<1>8. /\ Append(globalBatches[a][count], of) \in Seq(Batch)
      /\ Len(Append(globalBatches[a][count], of)) = Len(globalBatches[a][count]) + 1
      /\ \A m \in 1 .. Len(globalBatches[a][count]) + 1 :
            Append(globalBatches[a][count], of)[m]
               = IF m <= Len(globalBatches[a][count]) THEN globalBatches[a][count][m] ELSE of
  BY <1>3, <1>7, AppendOne
<1>9. globalBatches' \in [Actors -> [1 .. setting.updateEpoch -> Seq(Batch)]]
  BY <1>1, <1>4, <1>8 DEF PipeTypeOK
<1>10. NoBatch \in Trained
  BY DEF NoBatch, Trained, Batch
<1>11. /\ again' \in [Actors -> Trained] /\ at' \in [Actors -> Where]
       /\ grads' \in [Actors -> Batch]
  BY <1>1, <1>4, <1>10 DEF PipeTypeOK, Where, Batch
<1>12. PipeTypeOK'
  BY <1>1, <1>6, <1>9, <1>11 DEF PipeTypeOK
<1>13. Grads' /\ Again'
  <2>1. /\ at'[a] = "receive" /\ grads'[a] = <<>>
        /\ \A b \in Actors \ {a} : at'[b] = at[b] /\ grads'[b] = grads[b] /\ again'[b] = again[b]
    BY <1>1, <1>4 DEF PipeTypeOK
  <2>2. Grads'
    BY <1>1, <1>2, <2>1 DEF PipeInv, Grads
  <2>3. Again'
    BY <1>1, <2>1 DEF PipeInv, Again
  <2> QED BY <2>2, <2>3
<1>14. Singles'
  <2>1. ASSUME NEW b \in Actors, NEW k \in 1 .. setting.updateEpoch,
               NEW m \in 1 .. Len(globalBatches'[b][k])
        PROVE  Len(globalBatches'[b][k][m]) = 1
    <3>1. CASE b = a /\ k = count
      <4>1. globalBatches'[b][k] = Append(globalBatches[a][count], of)
        BY <1>1, <1>4, <1>5, <3>1 DEF PipeTypeOK
      <4>2. Len(of) = 1
        BY <1>2 DEF of
      <4>3. Len(globalBatches[a][count]) \in Nat
        BY <1>7
      <4>4. CASE m <= Len(globalBatches[a][count])
        BY <1>2, <1>5, <1>8, <2>1, <4>1, <4>3, <4>4 DEF PipeInv, Singles
      <4>5. CASE ~(m <= Len(globalBatches[a][count]))
        BY <1>8, <2>1, <4>1, <4>2, <4>3, <4>5
      <4> QED BY <4>4, <4>5
    <3>2. CASE ~(b = a /\ k = count)
      <4>1. globalBatches'[b][k] = globalBatches[b][k]
        BY <1>1, <1>4, <3>2 DEF PipeTypeOK
      <4> QED BY <1>2, <2>1, <4>1 DEF PipeInv, Singles
    <3> QED BY <3>1, <3>2
  <2> QED BY <1>1, <2>1 DEF Singles
<1> QED BY <1>6, <1>12, <1>13, <1>14 DEF PipeInv

-----------------------------------------------------------------------------
LEMMA ModIs ==
    ASSUME NEW q \in Int, NEW r \in Nat, NEW d \in Nat, r < d
    PROVE  (q * d + r) % d = r
OBVIOUS

\* Counting one further modulo d.
LEMMA ModNext ==
    ASSUME NEW x \in Nat, NEW d \in Nat \ {0}
    PROVE  (x + 1) % d = IF x % d = d - 1 THEN 0 ELSE (x % d) + 1
<1> DEFINE q == x \div d
           r == x % d
<1>1. q \in Nat /\ r \in 0 .. d - 1 /\ x = q * d + r
  OBVIOUS
<1> HIDE DEF q, r
<1>2. CASE r = d - 1
  <2>1. x + 1 = (q + 1) * d + 0
    BY <1>1, <1>2
  <2>2. ((q + 1) * d + 0) % d = 0
    BY <1>1, ModIs
  <2> QED BY <1>1, <1>2, <2>1, <2>2 DEF r
<1>3. CASE r # d - 1
  <2>1. x + 1 = q * d + (r + 1) /\ r + 1 \in Nat /\ r + 1 < d
    BY <1>1, <1>3
  <2>2. (q * d + (r + 1)) % d = r + 1
    BY <1>1, <2>1, ModIs
  <2> QED BY <1>1, <1>3, <2>1, <2>2 DEF r
<1> QED BY <1>1, <1>2, <1>3 DEF r

\* One more collective operation, which ends the global batch if it has as many micro-batches as it needs.
LEMMA KindsNext ==
    ASSUME PipeTypeOK, Kinds, NEW a \in Actors, NEW isLast \in BOOLEAN,
           isLast = (Len(current[a]) = setting.accumulation - 1),
           collectives' = [collectives EXCEPT ![a] = Append(@, isLast)],
           current' \in [Actors -> Batch], \A b \in Actors \ {a} : current'[b] = current[b],
           Len(current'[a]) = IF isLast THEN 0 ELSE Len(current[a]) + 1,
           setting' = setting
    PROVE  Kinds'
<1> DEFINE old == collectives[a]
           new == Append(collectives[a], isLast)
           d == setting.accumulation
<1>1. collectives \in [Actors -> Seq(BOOLEAN)] /\ old \in Seq(BOOLEAN) /\ Len(old) \in Nat
  BY DEF Kinds
<1>2. /\ new \in Seq(BOOLEAN) /\ Len(new) = Len(old) + 1
      /\ \A n \in 1 .. Len(old) + 1 : new[n] = IF n <= Len(old) THEN old[n] ELSE isLast
  BY <1>1, AppendOne
<1>3. d \in Nat \ {0}
  BY SettingFacts
<1>4. Len(old) % d = Len(current[a])
  BY DEF Kinds
<1>5. (Len(old) + 1) % d = IF Len(old) % d = d - 1 THEN 0 ELSE (Len(old) % d) + 1
  BY <1>1, <1>3, ModNext
<1>6. isLast = ((Len(old) + 1) % d = 0)
  <2>1. Len(current[a]) \in Nat
    BY DEF PipeTypeOK, Batch
  <2> QED BY <1>3, <1>4, <1>5, <2>1
<1>7. (Len(old) + 1) % d = Len(current'[a])
  BY <1>4, <1>5
<1>8. \A n \in 1 .. Len(old) : old[n] = (n % d = 0)
  BY DEF Kinds
<1>9. ASSUME NEW n \in 1 .. Len(old) + 1 PROVE new[n] = (n % d = 0)
  <2>1. CASE n <= Len(old)
    <3>1. n \in 1 .. Len(old) /\ new[n] = old[n]
      BY <1>1, <1>2, <2>1
    <3> QED BY <1>8, <3>1
  <2>2. CASE ~(n <= Len(old))
    <3>1. n = Len(old) + 1 /\ new[n] = isLast
      BY <1>1, <1>2, <2>2
    <3> QED BY <1>6, <3>1
  <2> QED BY <2>1, <2>2
<1>10. /\ collectives' \in [Actors -> Seq(BOOLEAN)] /\ collectives'[a] = new
       /\ \A b \in Actors \ {a} : collectives'[b] = collectives[b]
  BY <1>1, <1>2
<1> HIDE DEF old, new
<1>11. ASSUME NEW b \in Actors
       PROVE  /\ Len(collectives'[b]) % d = Len(current'[b])
              /\ \A n \in 1 .. Len(collectives'[b]) : collectives'[b][n] = (n % d = 0)
  <2>1. CASE b = a
    BY <1>2, <1>7, <1>9, <1>10, <2>1
  <2>2. CASE b # a
    BY <1>10, <2>2 DEF Kinds
  <2> QED BY <2>1, <2>2
<1> QED BY <1>10, <1>11 DEF Kinds

LEMMA TrainNewKinds == ASSUME PipeInv, Kinds, NEW a \in Actors, TrainNew(a) PROVE Kinds'
<1> DEFINE batch == Append(current[a], Head(pendingBatch[a]))
<1>1. /\ PipeTypeOK /\ setting' = setting /\ pendingBatch[a] # <<>>
      /\ collectives' = [collectives EXCEPT ![a] = Append(@, IsLast(a))]
      /\ current' = [current EXCEPT ![a] = IF IsLast(a) THEN <<>> ELSE batch]
  BY DEF PipeInv, TrainNew, TrainMicroBatch
<1>2. current \in [Actors -> Seq(Nat)] /\ pendingBatch[a] \in Seq(Nat)
  BY <1>1 DEF PipeTypeOK, Batch
<1>3. Head(pendingBatch[a]) \in Nat
  BY <1>1, <1>2, TailOne
<1>4. batch \in Seq(Nat) /\ Len(batch) = Len(current[a]) + 1
  BY <1>2, <1>3
<1> HIDE DEF batch
<1>5. /\ current' \in [Actors -> Batch] /\ \A b \in Actors \ {a} : current'[b] = current[b]
      /\ Len(current'[a]) = IF IsLast(a) THEN 0 ELSE Len(current[a]) + 1
  BY <1>1, <1>2, <1>4 DEF Batch
<1>6. IsLast(a) \in BOOLEAN /\ IsLast(a) = (Len(current[a]) = setting.accumulation - 1)
  BY DEF IsLast
<1> QED BY <1>1, <1>5, <1>6, KindsNext

LEMMA TrainAgainKinds == ASSUME PipeInv, Kinds, NEW a \in Actors, TrainAgain(a) PROVE Kinds'
<1>1. /\ PipeTypeOK /\ at[a] = "again" /\ setting' = setting /\ current' = current
      /\ collectives' = [collectives EXCEPT ![a] = Append(@, Len(again[a].left) = 1)]
  BY DEF PipeInv, TrainAgain, TrainMicroBatch
<1>2. setting.accumulation = 1 /\ Len(again[a].left) = 1 /\ current[a] = <<>>
  BY <1>1 DEF PipeInv, Again, Grads
<1>3. /\ current' \in [Actors -> Batch] /\ \A b \in Actors \ {a} : current'[b] = current[b]
      /\ Len(current[a]) = 0 /\ Len(current'[a]) = 0
  BY <1>1, <1>2 DEF PipeTypeOK
<1>4. collectives' = [collectives EXCEPT ![a] = Append(@, TRUE)]
  BY <1>1, <1>2
<1>5. TRUE = (Len(current[a]) = setting.accumulation - 1)
  BY <1>2, <1>3
<1> QED BY <1>1, <1>3, <1>4, <1>5, KindsNext

LEMMA KindsInit == PipeInit => Kinds
<1> SUFFICES ASSUME PipeInit PROVE Kinds
  OBVIOUS
<1>1. setting.accumulation \in Nat \ {0}
  BY SettingsAssumption DEF PipeInit
<1>2. \A a \in Actors : collectives[a] = <<>> /\ current[a] = <<>>
  BY DEF PipeInit
<1>3. 0 % setting.accumulation = 0
  <2>1. (0 * setting.accumulation + 0) % setting.accumulation = 0
    BY <1>1, ModIs
  <2> QED BY <1>1, <2>1
<1> QED BY <1>2, <1>3 DEF PipeInit, Kinds

LEMMA KindsStep == ASSUME PipeInv, Kinds, [PipeNext]_pipeVars PROVE Kinds'
<1>1. ASSUME UNCHANGED <<setting, current, collectives>> PROVE Kinds'
  BY <1>1 DEF Kinds
<1>2. ASSUME NEW a \in Actors, PutMicroBatch(a) \/ TryReceive(a) \/ ChooseNext(a) PROVE Kinds'
  BY <1>1, <1>2 DEF PutMicroBatch, TryReceive, ChooseNext
<1>3. CASE UNCHANGED pipeVars
  BY <1>1, <1>3 DEF pipeVars
<1> QED BY <1>2, <1>3, TrainNewKinds, TrainAgainKinds DEF PipeNext

LEMMA PipeInitInv == PipeInit => PipeInv
<1> SUFFICES ASSUME PipeInit PROVE PipeInv
  OBVIOUS
<1>1. PipeTypeOK
  BY DEF PipeInit, PipeTypeOK, Batch, Where, Trained, NoBatch, Step
<1>2. Grads /\ Again
  BY DEF PipeInit, Grads, Again
<1>3. Singles /\ UpdatesOwnBatch
  BY DEF PipeInit, Singles, UpdatesOwnBatch
<1> QED BY <1>1, <1>2, <1>3 DEF PipeInv

LEMMA PipeStep == ASSUME OneOfBoth, PipeInv, [PipeNext]_pipeVars PROVE PipeInv'
<1>1. ASSUME NEW a \in Actors,
             PutMicroBatch(a) \/ TryReceive(a) \/ TrainNew(a) \/ ChooseNext(a) \/ TrainAgain(a)
      PROVE  PipeInv'
  BY <1>1, PutInv, TryReceiveInv, TrainNewInv, ChooseInv, TrainAgainInv
<1>2. CASE UNCHANGED pipeVars
  BY <1>2 DEF pipeVars, PipeInv, PipeTypeOK, Grads, Again, Singles, UpdatesOwnBatch
<1> QED BY <1>1, <1>2 DEF PipeNext

\* finish_global_batch applies the gradients of the global batch it ends, all of them and no other,
\* however new micro-batches and repeated training alternate, unless gradients are accumulated and
\* global batches repeated in one configuration (fsdp_actor_worker_pipeline.py:86-153).
THEOREM UpdatesOwnBatchHolds == ASSUME OneOfBoth PROVE PipeSpec => []UpdatesOwnBatch
<1>1. PipeInv /\ [PipeNext]_pipeVars => PipeInv'
  BY PipeStep
<1>2. PipeInv => UpdatesOwnBatch
  BY DEF PipeInv
<1> QED BY <1>1, <1>2, PipeInitInv, PTL DEF PipeSpec

\* Each actor decides by its own queue what to train next (try_recv_micro_batch, select_global_batch),
\* and yet the n-th training of all of them is of the same kind, so that no actor reduces gradients
\* while another does not (no_sync of FSDP), unless gradients are accumulated and global batches
\* repeated in one configuration.
THEOREM CollectivesAgreeHolds == ASSUME OneOfBoth PROVE PipeSpec => []CollectivesAgree
<1>1. PipeInv /\ Kinds /\ [PipeNext]_pipeVars => PipeInv' /\ Kinds'
  BY PipeStep, KindsStep
<1>2. Kinds => CollectivesAgree
  <2>1. ASSUME Kinds, NEW a \in Actors, NEW b \in Actors,
               NEW n \in DOMAIN collectives[a] \cap DOMAIN collectives[b]
        PROVE  collectives[a][n] = collectives[b][n]
    <3>1. n \in 1 .. Len(collectives[a]) /\ n \in 1 .. Len(collectives[b])
      BY <2>1 DEF Kinds
    <3> QED BY <2>1, <3>1 DEF Kinds
  <2> QED BY <2>1 DEF CollectivesAgree
<1> QED BY <1>1, <1>2, PipeInitInv, KindsInit, PTL DEF PipeSpec

-----------------------------------------------------------------------------
(* Addresses in a buffer of slots of the same length.                      *)

LEMMA Apart == ASSUME NEW n \in Nat, NEW a \in Nat, NEW b \in Nat, a < b PROVE a * n + n <= b * n
<1>1. PICK d \in Nat : b = a + 1 + d
  <2>1. b - a - 1 \in Nat /\ b = a + 1 + (b - a - 1)
    OBVIOUS
  <2> QED BY <2>1
<1>2. (a + 1 + d) * n = a * n + n + d * n
  OBVIOUS
<1>3. d * n \in Nat /\ a * n \in Nat
  OBVIOUS
<1> QED BY <1>1, <1>2, <1>3

\* The k-th cell of slot s is in the buffer, and belongs to no other slot.
LEMMA InBuffer ==
    ASSUME NEW n \in Nat, NEW size \in Nat, NEW s \in 0 .. size - 1, NEW k \in 1 .. n
    PROVE  s * n + k \in 1 .. size * n
<1>1. s * n + n <= size * n
  BY Apart
<1>2. s * n \in Nat /\ size * n \in Nat
  OBVIOUS
<1> QED BY <1>1, <1>2

LEMMA OtherSlot ==
    ASSUME NEW n \in Nat, NEW s \in Nat, NEW t \in Nat, s # t, NEW k \in 1 .. n
    PROVE  t * n + k - s * n \notin 1 .. n
<1>1. s * n \in Nat /\ t * n \in Nat
  OBVIOUS
<1>2. CASE s < t
  <2>1. s * n + n <= t * n
    BY <1>2, Apart
  <2> QED BY <1>1, <2>1
<1>3. CASE t < s
  <2>1. t * n + n <= s * n
    BY <1>3, Apart
  <2> QED BY <1>1, <2>1
<1> QED BY <1>2, <1>3

LEMMA Address ==
    ASSUME NEW n \in Nat \ {0}, NEW s \in Nat, NEW r \in 0 .. n - 1
    PROVE  (s * n + r) \div n = s /\ (s * n + r) % n = r
<1>1. (s * n + r) \div n = s
  OBVIOUS
<1>2. (s * n + r) % n = r
  OBVIOUS
<1> QED BY <1>1, <1>2

\* The slot after `last`.
LEMMA NextSlot ==
    ASSUME NEW size \in Nat, NEW last \in 0 .. size - 1
    PROVE  (last + 1) % size = IF last + 1 = size THEN 0 ELSE last + 1
<1>1. CASE last + 1 = size
  <2>1. (1 * size + 0) % size = 0
    BY Address
  <2> QED BY <1>1, <2>1
<1>2. CASE last + 1 < size
  <2>1. (0 * size + (last + 1)) % size = last + 1
    BY <1>2, Address
  <2>2. 0 * size + (last + 1) = last + 1
    OBVIOUS
  <2> QED BY <1>2, <2>1, <2>2
<1> QED BY <1>1, <1>2

-----------------------------------------------------------------------------
(* The cache.                                                              *)

IsCache(c) == c = [slot |-> c.slot, owner |-> c.owner, last |-> c.last, len |-> c.len, cells |-> c.cells]

\* The slot that was taken `age` puts ago.
Turn(last, age) == IF last >= age THEN last - age ELSE last - age + cacheSize

\* The slots are taken in turn, and owner is the inverse of slot.
InTurn(c, n) ==
    /\ c.last \in 0 .. cacheSize - 1
    /\ \A id \in DOMAIN c.slot : /\ c.slot[id] = Turn(c.last, n - id)
                                 /\ c.slot[id] \in DOMAIN c.owner /\ c.owner[c.slot[id]] = id
    /\ \A s \in DOMAIN c.owner : c.owner[s] \in DOMAIN c.slot /\ c.slot[c.owner[s]] = s

IsBuffer(c) == c.len \in Nat /\ DOMAIN c.cells = 1 .. cacheSize * c.len

\* The cells of its slot show the trajectory of entry e.
Shows(c, id, e) ==
    /\ e.n <= c.len
    /\ \A k \in 1 .. e.n : c.cells[c.slot[id] * c.len + k] = <<e.serial, k>>

\* The cache holds the newest of the trajectories low, ..., n - 1, whose entries are in list.
Holds(c, list, low, n) ==
    /\ IsCache(c)
    /\ DOMAIN c.slot = {id \in Nat : low <= id /\ n - cacheSize <= id /\ id < n}
    /\ cacheSize > 0 =>
          /\ InTurn(c, n)
          /\ IsBuffer(c)
          /\ \A id \in DOMAIN c.slot : Shows(c, id, list[id + 1])

LEMMA TurnFacts ==
    ASSUME cacheSize \in Nat, NEW last \in 0 .. cacheSize - 1, NEW age \in 1 .. cacheSize
    PROVE  /\ Turn(last, age) \in 0 .. cacheSize - 1
           /\ Turn(last, age) = last => age = cacheSize
           /\ age = cacheSize => Turn(last, age) = last
           /\ age < cacheSize => Turn((last + 1) % cacheSize, age + 1) = Turn(last, age)
           /\ Turn((last + 1) % cacheSize, 1) = last
           /\ (last + 1) % cacheSize \in 0 .. cacheSize - 1
<1>1. (last + 1) % cacheSize = IF last + 1 = cacheSize THEN 0 ELSE last + 1
  BY NextSlot
<1>2. PICK next : next = (last + 1) % cacheSize
  OBVIOUS
<1>3. next = IF last + 1 = cacheSize THEN 0 ELSE last + 1
  BY <1>1, <1>2
<1>4. /\ age < cacheSize => Turn(next, age + 1) = Turn(last, age)
      /\ Turn(next, 1) = last /\ next \in 0 .. cacheSize - 1
  BY <1>3 DEF Turn
<1>5. /\ Turn(last, age) \in 0 .. cacheSize - 1
      /\ Turn(last, age) = last => age = cacheSize
      /\ age = cacheSize => Turn(last, age) = last
  BY DEF Turn
<1> QED BY <1>2, <1>4, <1>5

\* The slots of c grow to a length of at least n, and what they show is moved along.
Grows(c, e, n) ==
    /\ IsCache(e) /\ e.slot = c.slot /\ e.owner = c.owner /\ e.last = c.last
    /\ IsBuffer(e) /\ c.len <= e.len /\ n <= e.len
    /\ \A id \in DOMAIN c.slot : \A k \in 1 .. c.len :
          e.cells[c.slot[id] * e.len + k] = c.cells[c.slot[id] * c.len + k]

LEMMA Grown ==
    ASSUME cacheSize \in Nat \ {0}, NEW c, IsCache(c), IsBuffer(c),
           \A id \in DOMAIN c.slot : c.slot[id] \in 0 .. cacheSize - 1,
           NEW n \in Nat
    PROVE  Grows(c, Ensured(c, n), n)
<1> USE DEF IsBuffer
<1> DEFINE e == Ensured(c, n)
<1>1. CASE n <= c.len
  BY <1>1 DEF Ensured, Grows, IsBuffer
<1>2. CASE ~(n <= c.len)
  <2> DEFINE cells == [i \in 1 .. cacheSize * n |->
                 LET slot == (i - 1) \div n
                     pos == (i - 1) % n
                 IN  IF slot \in Range(c.slot) /\ pos < c.len
                     THEN c.cells[slot * c.len + pos + 1] ELSE Blank]
  <2>1. e = [c EXCEPT !.len = n, !.cells = cells]
    BY <1>2 DEF Ensured
  <2>2. ASSUME NEW id \in DOMAIN c.slot, NEW k \in 1 .. c.len
        PROVE  cells[c.slot[id] * n + k] = c.cells[c.slot[id] * c.len + k]
    <3>1. PICK s : s = c.slot[id]
      OBVIOUS
    <3>2. s \in Nat /\ s \in 0 .. cacheSize - 1 /\ s \in Range(c.slot)
      BY <3>1 DEF Range
    <3>3. k \in 1 .. n /\ n \in Nat \ {0} /\ k - 1 \in 0 .. n - 1 /\ k - 1 < c.len
      BY <1>2
    <3>4. s * n + k \in 1 .. cacheSize * n
      BY <3>2, <3>3, InBuffer
    <3>5. (s * n + (k - 1)) \div n = s /\ (s * n + (k - 1)) % n = k - 1
      BY <3>2, <3>3, Address
    <3>6. s * n \in Nat /\ s * c.len \in Nat
      BY <3>2
    <3>7. s * n + k - 1 = s * n + (k - 1) /\ s * c.len + (k - 1) + 1 = s * c.len + k
      BY <3>6
    <3>8. cells[s * n + k] = c.cells[s * c.len + k]
      <4>1. PICK i \in 1 .. cacheSize * n : i = s * n + k
        BY <3>4
      <4>2. (i - 1) \div n = s /\ (i - 1) % n = k - 1
        <5>1. i - 1 = s * n + (k - 1)
          <6>1. PICK a \in Nat : a = s * n
            BY <3>6
          <6>2. i = a + k => i - 1 = a + (k - 1)
            BY <3>3
          <6> QED BY <4>1, <6>1, <6>2
        <5> QED BY <3>5, <5>1
      <4>3. cells[i] = c.cells[s * c.len + (k - 1) + 1]
        BY <3>2, <3>3, <4>2
      <4> QED BY <3>7, <4>1, <4>3
    <3> QED BY <3>1, <3>8
  <2> HIDE DEF cells
  <2>3. IsCache(e) /\ e.slot = c.slot /\ e.owner = c.owner /\ e.last = c.last /\ e.len = n /\ e.cells = cells
    BY <2>1 DEF IsCache
  <2>4. DOMAIN cells = 1 .. cacheSize * n
    BY DEF cells
  <2>5. Grows(c, e, n)
    <3> HIDE DEF e
    <3> QED BY <1>2, <2>2, <2>3, <2>4 DEF Grows, IsBuffer
  <2> QED BY <2>5
<1> QED BY <1>1, <1>2

\* Data is written to a slot, and to no other.
Fills(e, slot, data, cells) ==
    /\ DOMAIN cells = DOMAIN e.cells
    /\ \A k \in DOMAIN data : cells[slot * e.len + k] = data[k]
    /\ \A s \in 0 .. cacheSize - 1 : \A k \in 1 .. e.len :
          s # slot => cells[s * e.len + k] = e.cells[s * e.len + k]

LEMMA WrittenCells ==
    ASSUME cacheSize \in Nat \ {0}, NEW e, IsBuffer(e),
           NEW slot \in 0 .. cacheSize - 1, NEW data, NEW n \in Nat, DOMAIN data = 1 .. n, n <= e.len
    PROVE  Fills(e, slot, data, Written(e, slot, data))
<1> DEFINE cells == Written(e, slot, data)
<1> USE DEF IsBuffer
<1>1. \A i \in DOMAIN e.cells :
         cells[i] = IF i - slot * e.len \in 1 .. n THEN data[i - slot * e.len] ELSE e.cells[i]
  BY DEF Written
<1>2. ASSUME NEW k \in 1 .. n PROVE cells[slot * e.len + k] = data[k]
  <2>1. slot * e.len \in Nat /\ slot * e.len + k - slot * e.len = k
    OBVIOUS
  <2>2. slot * e.len + k \in DOMAIN e.cells
    <3>1. k \in 1 .. e.len
      OBVIOUS
    <3> QED BY <3>1, InBuffer
  <2>3. PICK i : i = slot * e.len + k
    OBVIOUS
  <2>4. i \in DOMAIN e.cells /\ i - slot * e.len = k /\ k \in 1 .. n
    BY <2>1, <2>2, <2>3
  <2>5. cells[i] = data[k]
    BY <1>1, <2>4
  <2> QED BY <2>3, <2>5
<1>3. ASSUME NEW s \in 0 .. cacheSize - 1, NEW k \in 1 .. e.len, s # slot
      PROVE  cells[s * e.len + k] = e.cells[s * e.len + k]
  <2>1. s * e.len + k \in DOMAIN e.cells
    BY InBuffer
  <2>2. s * e.len + k - slot * e.len \notin 1 .. e.len
    <3>1. PICK w \in Nat : w = e.len
      OBVIOUS
    <3>2. s \in Nat /\ slot \in Nat /\ k \in 1 .. w
      BY <3>1
    <3>3. s * w + k - slot * w \notin 1 .. w
      BY <1>3, <3>2, OtherSlot
    <3> QED BY <3>1, <3>3
  <2>3. PICK i : i = s * e.len + k
    OBVIOUS
  <2>4. \A x : x \notin 1 .. e.len => x \notin 1 .. n
    OBVIOUS
  <2>5. i \in DOMAIN e.cells /\ i - slot * e.len \notin 1 .. n
    BY SMTT(30), <2>1, <2>2, <2>3, <2>4
  <2>6. cells[i] = e.cells[i]
    BY <1>1, <2>5
  <2> QED BY <2>3, <2>6
<1>4. DOMAIN cells = DOMAIN e.cells
  BY DEF Written
<1>5. Fills(e, slot, data, cells)
  <2> HIDE DEF cells
  <2> QED BY <1>2, <1>3, <1>4 DEF Fills
<1> QED BY <1>5

DataOf(e) == Data(e.serial, e.n)

LEMMA DataFacts ==
    ASSUME NEW e, e.n \in Nat
    PROVE  /\ Len(DataOf(e)) = e.n /\ DOMAIN DataOf(e) = 1 .. e.n
           /\ \A k \in 1 .. e.n : DataOf(e)[k] = <<e.serial, k>>
<1>1. PICK n, serial : n = e.n /\ serial = e.serial
  OBVIOUS
<1>2. DataOf(e) = [k \in 1 .. n |-> <<serial, k>>]
  BY <1>1 DEF DataOf, Data
<1>3. /\ Len([k \in 1 .. n |-> <<serial, k>>]) = n
      /\ DOMAIN [k \in 1 .. n |-> <<serial, k>>] = 1 .. n
      /\ \A k \in 1 .. n : [j \in 1 .. n |-> <<serial, j>>][k] = <<serial, k>>
  BY <1>1
<1> QED BY <1>1, <1>2, <1>3

\* A put of the next trajectory takes the slot of the one that leaves the cache.
LEMMA PutHolds ==
    ASSUME cacheSize \in Nat \ {0}, NEW list, NEW low \in Nat, NEW n \in Nat, low <= n,
           \A i \in 1 .. n + 1 : list[i].n \in Nat,
           NEW c, Holds(c, list, low, n)
    PROVE  Holds(Put(c, n, DataOf(list[n + 1])), list, low, n + 1)
<1> DEFINE data == DataOf(list[n + 1])
           m == list[n + 1].n
           gone == n - cacheSize
           last == c.last
<1>1. /\ m \in Nat /\ Len(data) = m /\ DOMAIN data = 1 .. m
      /\ \A k \in 1 .. m : data[k] = <<list[n + 1].serial, k>>
  <2>1. list[n + 1].n \in Nat
    OBVIOUS
  <2> QED BY <2>1, DataFacts
<1> HIDE DEF data
<1>2. /\ IsCache(c) /\ InTurn(c, n) /\ IsBuffer(c)
      /\ DOMAIN c.slot = {id \in Nat : low <= id /\ n - cacheSize <= id /\ id < n}
      /\ \A id \in DOMAIN c.slot : Shows(c, id, list[id + 1])
  BY DEF Holds
<1>3. /\ last \in 0 .. cacheSize - 1
      /\ (last + 1) % cacheSize \in 0 .. cacheSize - 1
      /\ Turn((last + 1) % cacheSize, 1) = last
  <2>1. last \in 0 .. cacheSize - 1 /\ 1 \in 1 .. cacheSize
    BY <1>2 DEF InTurn
  <2> QED BY <2>1, TurnFacts
<1>4. ASSUME NEW id \in DOMAIN c.slot
      PROVE  /\ id \in Nat /\ id # n
             /\ c.slot[id] \in 0 .. cacheSize - 1
             /\ c.slot[id] = last <=> id = gone
             /\ id # gone => c.slot[id] = Turn((last + 1) % cacheSize, (n + 1) - id)
  <2>1. id \in Nat /\ id < n /\ n - id \in 1 .. cacheSize /\ (n - id = cacheSize <=> id = gone)
    BY <1>2
  <2>2. c.slot[id] = Turn(last, n - id)
    BY <1>2 DEF InTurn
  <2>3. (n - id) + 1 = (n + 1) - id /\ (id # gone => n - id < cacheSize)
    BY <2>1
  <2> HIDE DEF gone
  <2> QED BY SMTT(30), <1>3, <2>1, <2>2, <2>3, TurnFacts
<1> DEFINE e == Ensured(c, m)
<1>5. Grows(c, e, m)
  <2>1. \A id \in DOMAIN c.slot : c.slot[id] \in 0 .. cacheSize - 1
    BY <1>4
  <2> QED BY <1>1, <1>2, <2>1, Grown
<1> HIDE DEF e
<1> DEFINE rest == IF last \in DOMAIN c.owner THEN Without(c.slot, c.owner[last]) ELSE c.slot
           cells == Written(e, last, data)
           p == Put(c, n, data)
<1>6. n \notin DOMAIN c.slot
  BY <1>4
<1>7. p = [slot |-> [x \in DOMAIN rest \cup {n} |-> IF x = n THEN last ELSE rest[x]],
           owner |-> [s \in DOMAIN c.owner \cup {last} |-> IF s = last THEN n ELSE c.owner[s]],
           last |-> (last + 1) % cacheSize, len |-> e.len, cells |-> cells]
  <2>1. e.slot = c.slot /\ e.owner = c.owner /\ e.last = last
    BY <1>5 DEF Grows
  <2> QED BY <1>1, <1>6, <2>1 DEF Put, e
<1>8. /\ DOMAIN rest = DOMAIN c.slot \ {gone}
      /\ \A id \in DOMAIN rest : rest[id] = c.slot[id]
  <2>1. CASE last \in DOMAIN c.owner
    <3>1. c.owner[last] \in DOMAIN c.slot /\ c.slot[c.owner[last]] = last
      BY <1>2, <2>1 DEF InTurn
    <3>2. c.owner[last] = gone
      BY <1>4, <3>1
    <3> QED BY <2>1, <3>2 DEF Without
  <2>2. CASE last \notin DOMAIN c.owner
    <3>1. gone \notin DOMAIN c.slot
      BY <1>2, <1>4, <2>2 DEF InTurn
    <3> QED BY <2>2, <3>1
  <2> QED BY <2>1, <2>2
<1> HIDE DEF rest
<1>9. /\ IsCache(p) /\ p.last = (last + 1) % cacheSize /\ p.len = e.len /\ p.cells = cells
      /\ DOMAIN p.slot = (DOMAIN c.slot \ {gone}) \cup {n}
      /\ p.slot[n] = last
      /\ \A id \in DOMAIN c.slot \ {gone} : p.slot[id] = c.slot[id]
      /\ DOMAIN p.owner = DOMAIN c.owner \cup {last}
      /\ p.owner[last] = n
      /\ \A s \in DOMAIN c.owner \ {last} : p.owner[s] = c.owner[s]
  <2>1. \A id \in DOMAIN c.slot : id # n
    BY <1>4
  <2> HIDE DEF cells, p
  <2> QED BY <1>7, <1>8, <2>1 DEF IsCache
<1> HIDE DEF p
<1>10. DOMAIN p.slot = {id \in Nat : low <= id /\ (n + 1) - cacheSize <= id /\ id < n + 1}
  <2>1. \A id \in Nat : (id # gone /\ n - cacheSize <= id /\ id < n) \/ id = n
                        <=> (n + 1) - cacheSize <= id /\ id < n + 1
    OBVIOUS
  <2> HIDE DEF gone
  <2> QED BY <1>2, <1>9, <2>1
<1>11. InTurn(p, n + 1)
  <2>1. ASSUME NEW id \in DOMAIN p.slot
        PROVE  /\ p.slot[id] = Turn(p.last, (n + 1) - id)
               /\ p.slot[id] \in DOMAIN p.owner /\ p.owner[p.slot[id]] = id
    <3>1. CASE id = n
      <4>1. (n + 1) - n = 1
        OBVIOUS
      <4> QED BY <1>3, <1>9, <3>1, <4>1
    <3>2. CASE id # n
      <4>1. id \in DOMAIN c.slot /\ id # gone
        BY <1>9, <3>2
      <4>2. p.slot[id] = c.slot[id] /\ c.slot[id] # last /\ c.slot[id] = Turn(p.last, (n + 1) - id)
        BY <1>4, <1>9, <4>1
      <4>3. c.slot[id] \in DOMAIN c.owner /\ c.owner[c.slot[id]] = id
        BY <1>2, <4>1 DEF InTurn
      <4> QED BY <1>9, <4>2, <4>3
    <3> QED BY <3>1, <3>2
  <2>2. ASSUME NEW s \in DOMAIN p.owner
        PROVE  p.owner[s] \in DOMAIN p.slot /\ p.slot[p.owner[s]] = s
    <3>1. CASE s = last
      BY <1>9, <3>1
    <3>2. CASE s # last
      <4>1. /\ s \in DOMAIN c.owner /\ p.owner[s] = c.owner[s]
        BY <1>9, <3>2
      <4>2. c.owner[s] \in DOMAIN c.slot /\ c.slot[c.owner[s]] = s
        BY <1>2, <4>1 DEF InTurn
      <4>3. c.owner[s] # gone
        BY <1>4, <3>2, <4>2
      <4> QED BY <1>9, <4>1, <4>2, <4>3
    <3> QED BY <3>1, <3>2
  <2>3. p.last \in 0 .. cacheSize - 1
    BY <1>3, <1>9
  <2> HIDE DEF last, gone
  <2>4. \A id \in DOMAIN p.slot : /\ p.slot[id] = Turn(p.last, (n + 1) - id)
                                 /\ p.slot[id] \in DOMAIN p.owner /\ p.owner[p.slot[id]] = id
    BY <2>1
  <2>5. \A s \in DOMAIN p.owner : p.owner[s] \in DOMAIN p.slot /\ p.slot[p.owner[s]] = s
    BY <2>2
  <2> QED BY Zenon, <2>3, <2>4, <2>5 DEF InTurn
<1>12. Fills(e, last, data, cells)
  <2>1. IsBuffer(e) /\ m <= e.len
    BY <1>5 DEF Grows
  <2> QED BY <1>1, <1>3, <2>1, WrittenCells
<1> HIDE DEF cells
<1>13. ASSUME NEW id \in DOMAIN p.slot PROVE Shows(p, id, list[id + 1])
  <2>1. CASE id = n
    BY <1>1, <1>5, <1>9, <1>12, <2>1 DEF Shows, Grows, Fills
  <2>2. CASE id # n
    <3>1. id \in DOMAIN c.slot /\ id # gone /\ p.slot[id] = c.slot[id]
      BY <1>9, <2>2
    <3>2. c.slot[id] \in 0 .. cacheSize - 1 /\ c.slot[id] # last
      BY <1>4, <3>1
    <3>3. PICK s, x : s = c.slot[id] /\ x = list[id + 1]
      OBVIOUS
    <3>4. /\ x.n <= c.len
          /\ \A k \in 1 .. x.n : c.cells[s * c.len + k] = <<x.serial, k>>
      BY <1>2, <3>1, <3>3 DEF Shows
    <3>5. x.n \in Nat
      <4>1. id + 1 \in 1 .. n + 1
        BY <1>2, <3>1
      <4> QED BY <3>3, <4>1
    <3>6. \A k \in 1 .. x.n : k \in 1 .. c.len /\ k \in 1 .. e.len
      BY <1>2, <1>5, <3>4, <3>5 DEF IsBuffer, Grows
    <3>7. \A k \in 1 .. x.n : cells[s * e.len + k] = <<x.serial, k>>
      BY <1>5, <1>12, <3>1, <3>2, <3>3, <3>4, <3>6 DEF Grows, Fills
    <3>8. x.n <= e.len
      BY <1>2, <1>5, <3>4, <3>5 DEF IsBuffer, Grows
    <3> QED BY <1>9, <3>1, <3>3, <3>7, <3>8 DEF Shows
  <2> QED BY <2>1, <2>2
<1>14. IsBuffer(p)
  BY <1>5, <1>9, <1>12 DEF IsBuffer, Grows, Fills
<1> QED BY <1>9, <1>10, <1>11, <1>13, <1>14 DEF Holds, p, data

LEMMA EmptyHolds == ASSUME cacheSize \in Nat, NEW list, NEW n \in Nat PROVE Holds(EmptyCache, list, n, n)
<1>1. /\ IsCache(EmptyCache) /\ DOMAIN EmptyCache.slot = {} /\ DOMAIN EmptyCache.owner = {}
      /\ EmptyCache.last = 0 /\ EmptyCache.len = 0
      /\ DOMAIN EmptyCache.cells = 1 .. 0
  BY DEF EmptyCache, IsCache
<1> HIDE DEF EmptyCache
<1>2. {id \in Nat : n <= id /\ n - cacheSize <= id /\ id < n} = {}
  OBVIOUS
<1>3. cacheSize > 0 => InTurn(EmptyCache, n)
  BY <1>1 DEF InTurn
<1>4. IsBuffer(EmptyCache)
  BY <1>1 DEF IsBuffer
<1> QED BY <1>1, <1>2, <1>3, <1>4 DEF Holds

\* Only the entries below n matter.
LEMMA HoldsSame ==
    ASSUME cacheSize \in Nat, NEW list, NEW other, NEW low \in Nat, NEW n \in Nat,
           \A i \in 1 .. n : other[i] = list[i],
           NEW c, Holds(c, list, low, n)
    PROVE  Holds(c, other, low, n)
<1>1. ASSUME NEW id \in DOMAIN c.slot PROVE other[id + 1] = list[id + 1]
  <2>1. id + 1 \in 1 .. n
    BY DEF Holds
  <2> QED BY <2>1
<1>2. \A id \in DOMAIN c.slot : Shows(c, id, list[id + 1]) => Shows(c, id, other[id + 1])
  BY <1>1
<1> QED BY <1>2 DEF Holds

\* A cache of size 0 holds nothing.
LEMMA HoldsNothing ==
    ASSUME cacheSize = 0, NEW list, NEW other, NEW low \in Nat, NEW n \in Nat, NEW m \in Nat,
           NEW c, Holds(c, list, low, n)
    PROVE  Holds(c, other, low, m)
<1>1. /\ {id \in Nat : low <= id /\ n - cacheSize <= id /\ id < n} = {}
      /\ {id \in Nat : low <= id /\ m - cacheSize <= id /\ id < m} = {}
  OBVIOUS
<1> QED BY <1>1 DEF Holds
-----------------------------------------------------------------------------
(* The inductive invariant.                                                *)

Dirs == {None} \cup ({"auto", "checkpoint"} \X Nat)
Entry == [id : Nat, serial : Nat, n : Nat, dir : Dirs]

\* The ids are the positions in the list.
IsList(list) == list \in Seq(Entry) /\ \A i \in 1 .. Len(list) : list[i].id = i - 1

TypeOK ==
    /\ autoSave \in BOOLEAN /\ up \in BOOLEAN
    /\ cacheSize \in Nat /\ (~autoSave => cacheSize = Window)
    /\ made \in Nat /\ starts \in Nat /\ saves \in Nat

\* The index, and the cache and the window that follow it.
MemoryInv ==
    /\ IsList(index) /\ counter = Len(index) /\ Holds(cache, index, 0, counter)
    /\ windowValid => window = Newest(index, Window)
    /\ ~up => index = <<>> /\ cache = EmptyCache /\ ~windowValid /\ saving = {}

\* No directory is used before its start or its checkpoint.
DirsInv ==
    /\ \A f \in disk \cup saving :
          /\ f = [dir |-> f.dir, id |-> f.id, data |-> f.data]
          /\ \A m \in Nat : /\ f.dir = <<"auto", m>> => m <= starts
                            /\ f.dir = <<"checkpoint", m>> => m <= saves
    /\ \A f \in saving : f.dir = AutoDir

\* The file of an entry is the file of its trajectory, although ids are given out again.
FilesInv ==
    autoSave =>
        /\ \A i \in 1 .. Len(index) : \A m \in Nat : index[i].dir = <<"checkpoint", m>> => m <= saves
        /\ \A f \in disk \cup saving : \A i \in 1 .. Len(index) :
              f.dir = index[i].dir /\ f.id = i - 1 => f.data = DataOf(index[i])
        /\ \A f \in disk \cup saving :
              up /\ f.dir = AutoDir => f.id \in 0 .. counter - 1 /\ index[f.id + 1].dir = AutoDir

\* The latest checkpoint is a list of trajectories with the files of some of them.
SavedInv ==
    saved # None =>
        /\ IsList(saved.index) /\ saved.counter = Len(saved.index)
        /\ saved.dir = <<"checkpoint", saves>>
        /\ \A f \in disk : f.dir = saved.dir =>
              f.id \in 0 .. saved.counter - 1 /\ f.data = DataOf(saved.index[f.id + 1])

ReplayInv == TypeOK /\ MemoryInv /\ DirsInv /\ FilesInv /\ SavedInv /\ CheckpointLoads

-----------------------------------------------------------------------------
(* Lists of entries.                                                       *)

\* How many entries Newest(s, n) has.
Tailed(s, n) == IF Len(s) > n THEN n ELSE Len(s)

LEMMA NewestFacts ==
    ASSUME NEW S, NEW s \in Seq(S), NEW n \in Nat
    PROVE  /\ Tailed(s, n) \in Nat /\ Tailed(s, n) <= Len(s) /\ Tailed(s, n) <= n
           /\ Newest(s, n) \in Seq(S)
           /\ Len(Newest(s, n)) = Tailed(s, n)
           /\ DOMAIN Newest(s, n) = 1 .. Tailed(s, n)
           /\ \A i \in 1 .. Tailed(s, n) : Newest(s, n)[i] = s[(Len(s) - Tailed(s, n)) + i]
<1> DEFINE first == (IF Len(s) > n THEN Len(s) - n ELSE 0) + 1
<1>1. Len(s) \in Nat /\ first \in 1 .. Len(s) + 1
  OBVIOUS
<1>2. Len(s) - first + 1 = Tailed(s, n) /\ Tailed(s, n) \in Nat /\ first - 1 = Len(s) - Tailed(s, n)
  BY DEF Tailed
<1>3. Tailed(s, n) <= Len(s) /\ Tailed(s, n) <= n
  BY DEF Tailed
<1> HIDE DEF first
<1>4. /\ SubSeq(s, first, Len(s)) \in Seq(S)
      /\ Len(SubSeq(s, first, Len(s))) = IF first <= Len(s) THEN Len(s) - first + 1 ELSE 0
      /\ \A i \in 1 .. Len(s) - first + 1 : SubSeq(s, first, Len(s))[i] = s[first + i - 1]
  BY <1>1, SubSeqProperties
<1>5. Newest(s, n) = SubSeq(s, first, Len(s))
  BY DEF Newest, first
<1>6. Newest(s, n) \in Seq(S) /\ Len(Newest(s, n)) = Tailed(s, n)
  BY <1>1, <1>2, <1>4, <1>5
<1>7. ASSUME NEW i \in 1 .. Tailed(s, n) PROVE Newest(s, n)[i] = s[(Len(s) - Tailed(s, n)) + i]
  <2>1. first + i - 1 = (Len(s) - Tailed(s, n)) + i
    BY <1>1, <1>2
  <2> QED BY <1>2, <1>4, <1>5, <2>1
<1> QED BY <1>2, <1>3, <1>6, <1>7

LEMMA NewestEntries ==
    ASSUME NEW list, IsList(list), NEW n \in Nat, NEW e \in Range(Newest(list, n))
    PROVE  \E i \in 1 .. Len(list) : e = list[i] /\ e.id = i - 1 /\ i > Len(list) - n
<1>1. list \in Seq(Entry) /\ Len(list) \in Nat
  BY DEF IsList
<1> DEFINE m == Tailed(list, n)
<1>2. /\ m \in Nat /\ m <= Len(list) /\ m <= n /\ (m = n \/ m = Len(list))
      /\ DOMAIN Newest(list, n) = 1 .. m
      /\ \A i \in 1 .. m : Newest(list, n)[i] = list[(Len(list) - m) + i]
  BY <1>1, NewestFacts DEF Tailed
<1> HIDE DEF m
<1>3. PICK j \in 1 .. m : e = Newest(list, n)[j]
  BY <1>2 DEF Range
<1>4. PICK i : i = (Len(list) - m) + j
  OBVIOUS
<1>5. i \in 1 .. Len(list) /\ i > Len(list) - n
  BY <1>1, <1>2, <1>4
<1>6. e = list[i]
  BY <1>2, <1>3, <1>4
<1> QED BY <1>5, <1>6 DEF IsList

LEMMA ListFacts ==
    ASSUME NEW list, IsList(list)
    PROVE  /\ list \in Seq(Entry) /\ Len(list) \in Nat /\ DOMAIN list = 1 .. Len(list)
           /\ \A i \in 1 .. Len(list) : list[i] \in Entry /\ list[i].id = i - 1 /\ list[i].n \in Nat
<1>1. list \in Seq(Entry) /\ \A i \in 1 .. Len(list) : list[i].id = i - 1
  BY DEF IsList
<1>2. /\ Len(list) \in Nat /\ DOMAIN list = 1 .. Len(list)
      /\ \A i \in 1 .. Len(list) : list[i] \in Entry
  BY <1>1
<1>3. \A e \in Entry : e.n \in Nat
  BY DEF Entry
<1> QED BY <1>1, <1>2, <1>3

-----------------------------------------------------------------------------
(* The cache after the files of the newest entries were put in it.         *)

IsFilled(f, entries, n) ==
    f = [k \in 0 .. n |-> IF k = 0 THEN EmptyCache
                          ELSE Put(f[k - 1], entries[k].id, FileOf(entries[k]).data)]

LEMMA FilledExist == ASSUME NEW entries, NEW n \in Nat PROVE \E f : IsFilled(f, entries, n)
<1> DEFINE T == {m \in Nat : ~\E f : IsFilled(f, entries, m)}
<1> SUFFICES T = {}
  OBVIOUS
<1> SUFFICES ASSUME T # {} PROVE FALSE
  OBVIOUS
<1>1. PICK m \in T : \A y \in T : m <= y
  BY NatMin
<1>2. CASE m = 0
  <2>1. IsFilled([k \in 0 .. 0 |-> EmptyCache], entries, 0)
    BY DEF IsFilled
  <2> QED BY <1>1, <1>2, <2>1
<1>3. CASE m # 0
  <2>1. m - 1 \in Nat /\ m - 1 \notin T
    BY <1>1, <1>3
  <2>2. PICK f : IsFilled(f, entries, m - 1)
    BY <2>1
  <2> DEFINE G(e, k) == IF k = 0 THEN EmptyCache
                        ELSE Put(e[k - 1], entries[k].id, FileOf(entries[k]).data)
             e == [k \in 0 .. m |-> G(f, k)]
  <2>3. \A k \in 0 .. m - 1 : f[k] = G(f, k)
    BY <2>2 DEF IsFilled
  <2>4. \A k \in 0 .. m - 1 : e[k] = f[k]
    <3> HIDE DEF G
    <3> QED BY <2>3
  <2> HIDE DEF e
  <2>5. ASSUME NEW k \in 0 .. m PROVE G(e, k) = G(f, k)
    <3>1. CASE k = 0
      BY <3>1
    <3>2. CASE k # 0
      <4>1. k - 1 \in 0 .. m - 1
        BY <3>2
      <4>2. e[k - 1] = f[k - 1]
        BY <2>4, <4>1
      <4> QED BY <4>2
    <3> QED BY <3>1, <3>2
  <2>6. e = [k \in 0 .. m |-> G(e, k)]
    <3> HIDE DEF G
    <3> QED BY <2>5 DEF e
  <2>7. IsFilled(e, entries, m)
    BY <2>6 DEF IsFilled
  <2> QED BY <1>1, <2>7
<1> QED BY <1>2, <1>3

LEMMA RefilledIs ==
    ASSUME NEW entries, Len(entries) \in Nat
    PROVE  \E f : IsFilled(f, entries, Len(entries)) /\ Refilled(entries) = f[Len(entries)]
<1>1. PICK n \in Nat : n = Len(entries)
  OBVIOUS
<1> DEFINE filled == CHOOSE f : f = [k \in 0 .. n |-> IF k = 0 THEN EmptyCache
                          ELSE Put(f[k - 1], entries[k].id, FileOf(entries[k]).data)]
<1>2. \E f : IsFilled(f, entries, n)
  BY FilledExist
<1>3. IsFilled(filled, entries, n)
  BY <1>2 DEF IsFilled
<1>4. Refilled(entries) = filled[n]
  BY <1>1 DEF Refilled
<1> QED BY <1>1, <1>3, <1>4

LEMMA RefilledHolds ==
    ASSUME cacheSize \in Nat, NEW list, IsList(list),
           \A e \in Range(Newest(list, cacheSize)) : FileOf(e).data = DataOf(e)
    PROVE  Holds(Refilled(Newest(list, cacheSize)), list, 0, Len(list))
<1> DEFINE n == Len(list)
           m == Tailed(list, cacheSize)
           entries == Newest(list, cacheSize)
           low == n - m
<1>1. /\ list \in Seq(Entry) /\ n \in Nat
      /\ \A i \in 1 .. n : list[i].id = i - 1 /\ list[i].n \in Nat
  BY ListFacts
<1>2. /\ m \in Nat /\ m <= n /\ m <= cacheSize /\ (m = n \/ m = cacheSize)
      /\ Len(entries) = m /\ DOMAIN entries = 1 .. m
      /\ \A i \in 1 .. m : entries[i] = list[low + i]
  BY <1>1, NewestFacts DEF Tailed
<1>3. \A i \in 1 .. m : FileOf(entries[i]).data = DataOf(entries[i])
  BY <1>2 DEF Range
<1> HIDE DEF m, entries
<1>4. PICK f : IsFilled(f, entries, m) /\ Refilled(entries) = f[m]
  BY <1>2, RefilledIs
<1> HIDE DEF n
<1>5. low \in Nat /\ low + m = n
  BY <1>1, <1>2
<1> HIDE DEF low
<1> DEFINE T == {k \in 0 .. m : ~Holds(f[k], list, low, low + k)}
<1>6. T = {}
  <2> SUFFICES ASSUME T # {} PROVE FALSE
    OBVIOUS
  <2>1. T \in SUBSET Nat
    BY <1>2
  <2>2. PICK k \in T : \A y \in T : k <= y
    BY <2>1, NatMin
  <2>3. k \in 0 .. m /\ ~Holds(f[k], list, low, low + k)
    BY <2>2
  <2>4. CASE k = 0
    <3>1. f[0] = EmptyCache
      BY <1>2, <1>4 DEF IsFilled
    <3>2. low + 0 = low
      BY <1>5
    <3> QED BY <1>5, <2>3, <2>4, <3>1, <3>2, EmptyHolds
  <2>5. CASE k # 0
    <3>1. k - 1 \in 0 .. m /\ k - 1 \notin T /\ k \in 1 .. m
      BY <1>2, <2>2, <2>3, <2>5
    <3>2. Holds(f[k - 1], list, low, low + (k - 1))
      BY <3>1
    <3>3. PICK a \in Nat : a = low + (k - 1)
      BY <1>5, <3>1
    <3>4. a + 1 = low + k /\ low <= a /\ a + 1 \in 1 .. n
      BY <1>2, <1>5, <3>1, <3>3
    <3>5. entries[k] = list[a + 1] /\ entries[k].id = a
      BY <1>1, <1>2, <3>1, <3>4
    <3>6. f[k] = Put(f[k - 1], a, DataOf(list[a + 1]))
      <4>1. f[k] = Put(f[k - 1], entries[k].id, FileOf(entries[k]).data)
        BY <1>2, <1>4, <3>1 DEF IsFilled
      <4> QED BY <1>3, <3>1, <3>5, <4>1
    <3>7. \A i \in 1 .. a + 1 : list[i].n \in Nat
      BY <1>1, <3>4
    <3>8. cacheSize \in Nat \ {0}
      BY <1>2, <3>1
    <3>9. Holds(f[k], list, low, a + 1)
      BY <1>5, <3>2, <3>3, <3>4, <3>6, <3>7, <3>8, PutHolds
    <3> QED BY <2>3, <3>4, <3>9
  <2> QED BY <2>4, <2>5
<1>7. Holds(f[m], list, low, low + m)
  BY <1>2, <1>6
<1>8. Holds(f[m], list, low, n)
  BY <1>5, <1>7
<1>9. {id \in Nat : low <= id /\ n - cacheSize <= id /\ id < n}
      = {id \in Nat : 0 <= id /\ n - cacheSize <= id /\ id < n}
  BY <1>1, <1>2, <1>5
<1>10. Holds(f[m], list, 0, n)
  BY <1>8, <1>9 DEF Holds
<1> QED BY <1>4, <1>10 DEF n, entries

-----------------------------------------------------------------------------
(* What the invariant says.                                                *)

LEMMA Appended ==
    ASSUME NEW list, IsList(list), NEW e \in Entry, e.id = Len(list)
    PROVE  /\ IsList(Append(list, e)) /\ Len(Append(list, e)) = Len(list) + 1
           /\ Last(Append(list, e)) = e
           /\ \A i \in 1 .. Len(list) : Append(list, e)[i] = list[i]
           /\ Append(list, e)[Len(list) + 1] = e
<1>1. list \in Seq(Entry) /\ Len(list) \in Nat /\ \A i \in 1 .. Len(list) : list[i].id = i - 1
  BY ListFacts
<1>2. /\ Append(list, e) \in Seq(Entry) /\ Len(Append(list, e)) = Len(list) + 1
      /\ \A i \in 1 .. Len(list) : Append(list, e)[i] = list[i]
      /\ Append(list, e)[Len(list) + 1] = e
  BY <1>1
<1>3. ASSUME NEW i \in 1 .. Len(list) + 1 PROVE Append(list, e)[i].id = i - 1
  <2>1. i \in 1 .. Len(list) \/ i = Len(list) + 1
    BY <1>1
  <2>2. CASE i \in 1 .. Len(list)
    BY <1>1, <1>2, <2>2
  <2>3. CASE i = Len(list) + 1
    BY <1>1, <1>2, <2>3
  <2> QED BY <2>1, <2>2, <2>3
<1>4. Last(Append(list, e)) = e
  BY <1>2 DEF Last
<1>5. IsList(Append(list, e))
  BY <1>2, <1>3 DEF IsList
<1> QED BY <1>2, <1>4, <1>5

\* The entries of a checkpoint, with the directory of its files.
LEMMA Loaded ==
    ASSUME NEW list, IsList(list), NEW dir \in Dirs,
           NEW entries, entries = [i \in DOMAIN list |-> [list[i] EXCEPT !.dir = dir]]
    PROVE  /\ IsList(entries) /\ Len(entries) = Len(list)
           /\ \A i \in 1 .. Len(list) : entries[i].dir = dir /\ DataOf(entries[i]) = DataOf(list[i])
<1>1. /\ Len(list) \in Nat /\ DOMAIN list = 1 .. Len(list)
      /\ \A i \in 1 .. Len(list) : list[i] \in Entry /\ list[i].id = i - 1
  BY ListFacts
<1>2. \A e \in Entry : /\ [e EXCEPT !.dir = dir] \in Entry
                       /\ [e EXCEPT !.dir = dir].dir = dir /\ [e EXCEPT !.dir = dir].id = e.id
                       /\ [e EXCEPT !.dir = dir].serial = e.serial /\ [e EXCEPT !.dir = dir].n = e.n
  BY DEF Entry
<1>3. /\ DOMAIN entries = 1 .. Len(list)
      /\ \A i \in 1 .. Len(list) : entries[i] = [list[i] EXCEPT !.dir = dir]
  BY <1>1
<1>4. \A i \in 1 .. Len(list) : /\ entries[i] \in Entry /\ entries[i].dir = dir
                                /\ entries[i].id = i - 1
                                /\ entries[i].serial = list[i].serial /\ entries[i].n = list[i].n
  BY <1>1, <1>2, <1>3
<1>5. entries \in Seq(Entry) /\ Len(entries) = Len(list)
  <2>1. entries = [i \in 1 .. Len(list) |-> entries[i]]
    BY <1>1
  <2>2. [i \in 1 .. Len(list) |-> entries[i]] \in Seq(Entry)
    BY <1>1, <1>4
  <2>3. Len([i \in 1 .. Len(list) |-> entries[i]]) = Len(list)
    BY <1>1
  <2> QED BY <2>1, <2>2, <2>3
<1> QED BY <1>4, <1>5 DEF IsList, DataOf

LEMMA HoldsNext ==
    ASSUME cacheSize' = cacheSize, Holds(cache', index', 0, counter')
    PROVE  Holds(cache, index, 0, counter)'
BY DEF Holds, IsCache, InTurn, Turn, IsBuffer, Shows

\* Every cached trajectory of the index can be read from the cache.
LEMMA CacheFacts ==
    ASSUME TypeOK, MemoryInv, NEW i \in 1 .. Len(index)
    PROVE  /\ Cached(i - 1) <=> i > Len(index) - cacheSize
           /\ Cached(i - 1) => \A k \in 1 .. index[i].n : Cell(i - 1, k) = <<index[i].serial, k>>
<1>1. Len(index) \in Nat /\ counter = Len(index) /\ Holds(cache, index, 0, counter) /\ cacheSize \in Nat
  BY ListFacts DEF MemoryInv, TypeOK
<1>2. DOMAIN cache.slot = {id \in Nat : 0 <= id /\ counter - cacheSize <= id /\ id < counter}
  BY <1>1 DEF Holds
<1>3. Cached(i - 1) <=> i > Len(index) - cacheSize
  BY <1>1, <1>2 DEF Cached
<1>4. ASSUME Cached(i - 1) PROVE \A k \in 1 .. index[i].n : Cell(i - 1, k) = <<index[i].serial, k>>
  <2>1. cacheSize > 0 /\ i - 1 \in DOMAIN cache.slot
    BY <1>1, <1>3, <1>4 DEF Cached
  <2>2. Shows(cache, i - 1, index[(i - 1) + 1])
    BY <1>1, <2>1 DEF Holds
  <2>3. (i - 1) + 1 = i
    OBVIOUS
  <2> QED BY <2>2, <2>3 DEF Shows, Cell
<1> QED BY <1>3, <1>4

LEMMA SamplesFollow == ASSUME ReplayInv PROVE SamplesAreTrue
<1>1. /\ TypeOK /\ MemoryInv /\ FilesInv
      /\ IsList(index) /\ Window \in Nat
  BY ReplayAssumption DEF ReplayInv, MemoryInv
<1>2. up => WindowNow = Newest(index, Window)
  BY <1>1 DEF MemoryInv, WindowNow
<1>3. ASSUME NEW e \in Range(Newest(index, Window))
      PROVE  /\ autoSave \/ Cached(e.id)
             /\ Readable(e) => \A k \in 1 .. e.n : Read(e, k) = <<e.serial, k>>
  <2>1. PICK i \in 1 .. Len(index) : e = index[i] /\ e.id = i - 1 /\ i > Len(index) - Window
    BY <1>1, NewestEntries
  <2>2. /\ Cached(e.id) <=> i > Len(index) - cacheSize
        /\ Cached(e.id) => \A k \in 1 .. e.n : Cell(e.id, k) = <<e.serial, k>>
    <3>1. PICK id : id = i - 1
      OBVIOUS
    <3> QED BY <1>1, <2>1, <3>1, CacheFacts
  <2>3. autoSave \/ Cached(e.id)
    BY <1>1, <2>1, <2>2 DEF TypeOK
  <2>4. CASE Cached(e.id)
    BY <2>2, <2>3, <2>4 DEF Read
  <2>5. CASE ~Cached(e.id)
    <3>1. ASSUME Readable(e) PROVE FileOf(e).data = DataOf(e)
      <4>1. PICK f : f = FileOf(e)
        OBVIOUS
      <4>2. Files(e.dir, e.id) # {}
        BY <2>5, <3>1 DEF Readable, Loadable
      <4>3. f \in Files(e.dir, e.id)
        BY <4>1, <4>2 DEF FileOf
      <4>4. f \in disk /\ f.dir = index[i].dir /\ f.id = i - 1
        BY <2>1, <4>3 DEF Files
      <4> QED BY <1>1, <2>1, <2>3, <2>5, <4>1, <4>4 DEF FilesInv
    <3>2. e.n \in Nat
      BY <1>1, <2>1, ListFacts
    <3> QED BY <2>3, <2>5, <3>1, <3>2, DataFacts DEF Read
  <2> QED BY <2>4, <2>5
<1> QED BY <1>2, <1>3 DEF SamplesAreTrue

\* The files of a checkpoint are those of entries of the index.
LEMMA CheckpointFilesAre ==
    ASSUME ReplayInv, up, NEW f \in CheckpointFiles
    PROVE  /\ f = [dir |-> f.dir, id |-> f.id, data |-> f.data] /\ f.dir = CheckpointDir
           /\ f.id \in 0 .. counter - 1 /\ f.data = DataOf(index[f.id + 1])
<1>1. /\ TypeOK /\ MemoryInv /\ DirsInv /\ FilesInv
      /\ IsList(index) /\ counter = Len(index)
  BY DEF ReplayInv, MemoryInv
<1>2. Len(index) \in Nat /\ DOMAIN index = 1 .. Len(index)
  BY <1>1, ListFacts
<1>3. CASE ~autoSave
  <2>1. PICK e \in Range(index) :
           /\ Cached(e.id)
           /\ f = [dir |-> CheckpointDir, id |-> e.id, data |-> [k \in 1 .. e.n |-> Cell(e.id, k)]]
    BY <1>3 DEF CheckpointFiles
  <2>2. PICK i \in 1 .. Len(index) : e = index[i] /\ e.id = i - 1
    BY <1>1, <1>2, ListFacts DEF Range
  <2>3. PICK id : id = i - 1
    OBVIOUS
  <2>4. \A k \in 1 .. e.n : Cell(id, k) = <<e.serial, k>>
    BY <1>1, <2>1, <2>2, <2>3, CacheFacts
  <2>5. [k \in 1 .. e.n |-> Cell(id, k)] = DataOf(e)
    BY <2>4 DEF DataOf, Data
  <2>6. f.id = id /\ f.dir = CheckpointDir /\ f.data = DataOf(e)
    BY <2>1, <2>2, <2>3, <2>5
  <2>7. id \in 0 .. counter - 1 /\ id + 1 = i
    BY <1>1, <1>2, <2>3
  <2> QED BY <2>1, <2>2, <2>6, <2>7
<1>4. CASE autoSave
  <2>1. PICK g \in UNION {Files(AutoDir, window[i].id) : i \in DOMAIN window} :
           f = [g EXCEPT !.dir = CheckpointDir]
    BY <1>4 DEF CheckpointFiles
  <2>2. g \in disk /\ g.dir = AutoDir
    BY <2>1 DEF Files
  <2>3. g = [dir |-> g.dir, id |-> g.id, data |-> g.data]
    BY <1>1, <2>2 DEF DirsInv
  <2>4. /\ f = [dir |-> CheckpointDir, id |-> g.id, data |-> g.data]
    BY <2>1, <2>3
  <2>5. g.id \in 0 .. counter - 1 /\ index[g.id + 1].dir = AutoDir
    BY <1>1, <1>4, <2>2 DEF FilesInv
  <2>6. PICK i \in 1 .. Len(index) : i = g.id + 1 /\ g.id = i - 1
    BY <1>1, <1>2, <2>5
  <2>7. g.data = DataOf(index[i])
    BY <1>1, <1>4, <2>2, <2>5, <2>6 DEF FilesInv
  <2> QED BY <2>4, <2>5, <2>6, <2>7
<1> QED BY <1>3, <1>4

-----------------------------------------------------------------------------
(* Every step keeps the invariant.                                         *)

\* The lists of trajectories are kept.
LEMMA SavedKept ==
    ASSUME SavedInv, CheckpointLoads, UNCHANGED <<autoSave, saved, saves>>, disk \subseteq disk',
           \A f \in disk' \ disk : \E m \in Nat : f.dir = <<"auto", m>>
    PROVE  SavedInv' /\ CheckpointLoads'
<1>1. SavedInv'
  <2>1. ASSUME saved # None, NEW f \in disk', f.dir = saved.dir PROVE f \in disk
    <3>1. saved.dir = <<"checkpoint", saves>>
      BY <2>1 DEF SavedInv
    <3>2. ASSUME NEW m \in Nat, f.dir = <<"auto", m>> PROVE FALSE
      <4>1. <<"auto", m>>[1] = "auto" /\ <<"checkpoint", saves>>[1] = "checkpoint"
        OBVIOUS
      <4> QED BY <2>1, <3>1, <3>2, <4>1
    <3> QED BY <3>2
  <2> QED BY <2>1 DEF SavedInv
<1>2. CheckpointLoads'
  <2>1. \A dir, id : Files(dir, id) \subseteq Files(dir, id)'
    BY DEF Files
  <2> QED BY <2>1 DEF CheckpointLoads
<1> QED BY <1>1, <1>2

LEMMA InitReplay == ASSUME ReplayInit PROVE ReplayInv
<1>1. TypeOK
  BY ReplayAssumption DEF ReplayInit, TypeOK
<1>2. IsList(<<>>) /\ Len(<<>>) = 0
  BY EmptySeq DEF IsList
<1>3. MemoryInv
  <2>1. Holds(EmptyCache, <<>>, 0, 0)
    BY <1>1, EmptyHolds DEF TypeOK
  <2> QED BY <1>2, <2>1 DEF ReplayInit, MemoryInv
<1>4. DirsInv /\ FilesInv /\ SavedInv /\ CheckpointLoads
  BY <1>2 DEF ReplayInit, DirsInv, FilesInv, SavedInv, CheckpointLoads
<1> QED BY <1>1, <1>3, <1>4 DEF ReplayInv

LEMMA AddInv == ASSUME ReplayInv, NEW n \in Lengths, AddTrajectory(n) PROVE ReplayInv'
<1> DEFINE entry == [id |-> counter, serial |-> made + 1, n |-> n,
                     dir |-> IF autoSave THEN AutoDir ELSE None]
           file == [dir |-> AutoDir, id |-> counter, data |-> Data(made + 1, n)]
<1>1. /\ TypeOK /\ MemoryInv /\ DirsInv /\ FilesInv /\ SavedInv /\ CheckpointLoads
      /\ IsList(index) /\ counter = Len(index) /\ Holds(cache, index, 0, counter)
      /\ Len(index) \in Nat
  BY ListFacts DEF ReplayInv, MemoryInv
<1>2. /\ up /\ index' = Append(index, entry)
      /\ saving' = IF autoSave THEN saving \cup {file} ELSE saving
      /\ counter' = counter + 1 /\ made' = made + 1 /\ windowValid' = FALSE
      /\ cache' = IF cacheSize > 0 THEN Put(cache, entry.id, Data(entry.serial, entry.n)) ELSE cache
      /\ UNCHANGED <<autoSave, cacheSize, up, window, disk, saved, starts, saves>>
  <2>1. Indexed(n) /\ PutInCache(Last(index'))
    BY DEF AddTrajectory
  <2>2. index' = Append(index, entry)
    BY <2>1 DEF Indexed
  <2>3. Last(index') = entry
    <3>1. Len(Append(index, entry)) = Len(index) + 1 /\ Append(index, entry)[Len(index) + 1] = entry
      <4>1. index \in Seq(Entry \cup {entry})
        BY <1>1, ListFacts
      <4> QED BY <4>1
    <3> QED BY <2>2, <3>1 DEF Last
  <2> QED BY <2>1, <2>2, <2>3 DEF Indexed, PutInCache, replayConfig
<1>3. AutoDir \in Dirs /\ entry \in Entry /\ n \in Nat /\ made \in Nat /\ starts \in Nat
  <2>1. made \in Nat /\ starts \in Nat /\ n \in Nat
    BY <1>1, ReplayAssumption DEF TypeOK
  <2>2. AutoDir \in Dirs /\ None \in Dirs
    BY <2>1 DEF AutoDir, Dirs
  <2> QED BY <1>1, <2>1, <2>2 DEF Entry
<1>4. /\ entry.id = Len(index) /\ DataOf(entry) = Data(made + 1, n)
      /\ Data(entry.serial, entry.n) = DataOf(entry)
      /\ entry.dir = IF autoSave THEN AutoDir ELSE None
  BY <1>1 DEF DataOf
<1>5. file = [dir |-> file.dir, id |-> file.id, data |-> file.data] /\ file.dir = AutoDir /\ file.id = counter
      /\ file.data = DataOf(entry)
  BY <1>4
<1> HIDE DEF entry, file
<1>6. /\ IsList(index') /\ Len(index') = Len(index) + 1
      /\ \A i \in 1 .. Len(index) : index'[i] = index[i]
      /\ index'[Len(index) + 1] = entry
  BY <1>1, <1>2, <1>3, <1>4, Appended
<1>7. TypeOK'
  BY <1>1, <1>2 DEF TypeOK
<1>8. MemoryInv'
  <2>1. Holds(cache', index', 0, counter')
    <3>1. cacheSize \in Nat
      BY <1>1 DEF TypeOK
    <3>2. Holds(cache, index', 0, counter)
      <4>1. PICK list, c, k : list = index' /\ c = cache /\ k = counter
        OBVIOUS
      <4>2. \A i \in 1 .. k : list[i] = index[i]
        BY <1>1, <1>6, <4>1
      <4>3. Holds(c, list, 0, k)
        BY <1>1, <3>1, <4>1, <4>2, HoldsSame
      <4> QED BY <4>1, <4>3
    <3>3. CASE cacheSize > 0
      <4>1. PICK list, k : list = index' /\ k = counter
        OBVIOUS
      <4>2. \A i \in 1 .. k + 1 : list[i].n \in Nat
        BY <1>1, <1>6, <4>1, ListFacts
      <4>3. list[k + 1] = entry
        BY <1>1, <1>6, <4>1
      <4>4. Holds(Put(cache, k, DataOf(list[k + 1])), list, 0, k + 1)
        BY <1>1, <3>1, <3>2, <3>3, <4>1, <4>2, PutHolds
      <4>5. cache' = Put(cache, k, DataOf(list[k + 1]))
        BY <1>1, <1>2, <1>4, <3>3, <4>1, <4>3
      <4> QED BY <1>2, <4>1, <4>4, <4>5
    <3>4. CASE cacheSize = 0
      <4>1. PICK list, k : list = index' /\ k = counter
        OBVIOUS
      <4>2. Holds(cache, list, 0, k + 1)
        BY <1>1, <3>2, <3>4, <4>1, HoldsNothing
      <4> QED BY <1>2, <3>4, <4>1, <4>2
    <3> QED BY <3>1, <3>3, <3>4
  <2>2. Holds(cache, index, 0, counter)'
    BY <1>2, <2>1, HoldsNext
  <2> QED BY <1>1, <1>2, <1>6, <2>2 DEF MemoryInv
<1>9. AutoDir' = AutoDir
  BY <1>2 DEF AutoDir
<1>10. DirsInv'
  <2>1. \A m \in Nat : AutoDir = <<"auto", m>> => m <= starts
    BY <1>3 DEF AutoDir
  <2>2. \A m \in Nat : AutoDir # <<"checkpoint", m>>
    BY <1>3 DEF AutoDir
  <2>3. \A f \in disk' \cup saving' : f \in disk \cup saving \/ f = file
    BY <1>2
  <2>4. \A f \in saving' : f.dir = AutoDir
    BY <1>1, <1>2, <1>5 DEF DirsInv
  <2>5. ASSUME NEW f \in disk' \cup saving'
        PROVE  /\ f = [dir |-> f.dir, id |-> f.id, data |-> f.data]
               /\ \A m \in Nat : /\ f.dir = <<"auto", m>> => m <= starts
                                 /\ f.dir = <<"checkpoint", m>> => m <= saves
    <3>1. CASE f \in disk \cup saving
      BY <1>1, <3>1 DEF DirsInv
    <3>2. CASE f = file
      BY <1>5, <2>1, <2>2, <3>2
    <3> QED BY <2>3, <3>1, <3>2
  <2> QED BY <1>2, <1>9, <2>4, <2>5 DEF DirsInv
<1>11. FilesInv'
  <2>1. SUFFICES ASSUME autoSave PROVE FilesInv'
    BY <1>2 DEF FilesInv
  <2>2. ASSUME NEW i \in 1 .. Len(index')
        PROVE  i \in 1 .. Len(index) \/ (i = Len(index) + 1 /\ index'[i] = entry)
    BY <1>1, <1>6
  <2>3. ASSUME NEW i \in 1 .. Len(index'), NEW m \in Nat, index'[i].dir = <<"checkpoint", m>> PROVE m <= saves
    <3>1. CASE i \in 1 .. Len(index)
      BY <1>1, <1>6, <2>1, <2>3, <3>1 DEF FilesInv
    <3>2. CASE index'[i] = entry
      <4>1. AutoDir = <<"checkpoint", m>>
        BY <1>4, <2>1, <2>3, <3>2
      <4> QED BY <1>3, <4>1 DEF AutoDir
    <3> QED BY <2>2, <3>1, <3>2
  <2>4. ASSUME NEW f \in disk' \cup saving' PROVE f \in disk \cup saving \/ f = file
    BY <1>2
  <2>5. ASSUME NEW f \in disk \cup saving, f.dir = AutoDir
        PROVE  f.id \in 0 .. counter - 1 /\ index[f.id + 1].dir = AutoDir
    BY <1>1, <1>2, <2>1, <2>5 DEF FilesInv
  <2>6. ASSUME NEW f \in disk' \cup saving', NEW i \in 1 .. Len(index'),
               f.dir = index'[i].dir, f.id = i - 1
        PROVE  f.data = DataOf(index'[i])
    <3>1. CASE f \in disk \cup saving /\ i \in 1 .. Len(index)
      BY <1>1, <1>6, <2>1, <2>6, <3>1 DEF FilesInv
    <3>2. CASE f \in disk \cup saving /\ i = Len(index) + 1 /\ index'[i] = entry
      <4>1. f.dir = AutoDir /\ f.id = counter
        BY <1>1, <1>4, <2>1, <2>6, <3>2
      <4> QED BY <1>1, <2>5, <3>2, <4>1
    <3>3. CASE f = file
      <4>1. i = Len(index) + 1
        BY <1>1, <1>5, <2>6, <3>3
      <4> QED BY <1>5, <1>6, <3>3, <4>1
    <3> QED BY <2>2, <2>4, <3>1, <3>2, <3>3
  <2>7. ASSUME NEW f \in disk' \cup saving', f.dir = AutoDir
        PROVE  f.id \in 0 .. counter' - 1 /\ index'[f.id + 1].dir = AutoDir
    <3>1. CASE f \in disk \cup saving
      <4>1. f.id \in 0 .. counter - 1 /\ index[f.id + 1].dir = AutoDir
        BY <2>5, <2>7, <3>1
      <4>2. PICK i \in 1 .. Len(index) : i = f.id + 1
        BY <1>1, <4>1
      <4> QED BY <1>1, <1>2, <1>6, <4>1, <4>2
    <3>2. CASE f = file
      BY <1>1, <1>2, <1>4, <1>5, <1>6, <2>1, <3>2
    <3> QED BY <2>4, <3>1, <3>2
  <2>8. \A i \in 1 .. Len(index') : \A m \in Nat : index'[i].dir = <<"checkpoint", m>> => m <= saves'
    BY <1>2, <2>3
  <2>9. \A f \in disk' \cup saving' : \A i \in 1 .. Len(index') :
           f.dir = index'[i].dir /\ f.id = i - 1 => f.data = DataOf(index'[i])
    BY <2>6
  <2>10. \A f \in disk' \cup saving' :
            f.dir = AutoDir' => f.id \in 0 .. counter' - 1 /\ index'[f.id + 1].dir = AutoDir'
    BY <1>9, <2>7
  <2>11. \A i : DataOf(index[i])' = DataOf(index'[i])
    BY DEF DataOf, Data
  <2> QED BY <2>8, <2>9, <2>10, <2>11 DEF FilesInv
<1>12. SavedInv' /\ CheckpointLoads'
  BY <1>1, <1>2, SavedKept
<1> QED BY <1>7, <1>8, <1>10, <1>11, <1>12 DEF ReplayInv

\* Nothing that the index is about changes.
LEMMA MemoryKept ==
    ASSUME MemoryInv, UNCHANGED <<cacheSize, up, index, counter, cache>>,
           windowValid' => window' = Newest(index, Window), ~up => ~windowValid' /\ saving' = {}
    PROVE  MemoryInv'
<1>1. Holds(cache', index', 0, counter')
  BY DEF MemoryInv
<1>2. Holds(cache, index, 0, counter)'
  BY <1>1, HoldsNext
<1> QED BY <1>2 DEF MemoryInv

LEMMA FinishSaveInv == ASSUME ReplayInv, FinishSave PROVE ReplayInv'
<1>1. /\ TypeOK /\ MemoryInv /\ DirsInv /\ FilesInv /\ SavedInv /\ CheckpointLoads
  BY DEF ReplayInv
<1>2. PICK f \in saving : disk' = disk \cup {f} /\ saving' = saving \ {f}
  BY DEF FinishSave
<1>3. /\ UNCHANGED <<autoSave, cacheSize, up, index, counter, cache, window, windowValid>>
      /\ UNCHANGED <<saved, made, starts, saves>>
  BY DEF FinishSave, replayConfig
<1>4. disk' \cup saving' = disk \cup saving /\ AutoDir' = AutoDir
  BY <1>2, <1>3 DEF AutoDir
<1>5. TypeOK'
  BY <1>1, <1>3 DEF TypeOK
<1>6. MemoryInv'
  <2>1. windowValid' => window' = Newest(index, Window)
    BY <1>1, <1>3 DEF MemoryInv
  <2>2. ~up => ~windowValid' /\ saving' = {}
    BY <1>1, <1>2, <1>3 DEF MemoryInv
  <2> QED BY <1>1, <1>3, <2>1, <2>2, MemoryKept
<1>7. DirsInv'
  BY <1>1, <1>2, <1>3, <1>4 DEF DirsInv
<1>8. FilesInv'
  BY <1>1, <1>3, <1>4 DEF FilesInv, DataOf, Data
<1>9. SavedInv' /\ CheckpointLoads'
  <2>1. f.dir = <<"auto", starts>> /\ starts \in Nat
    BY <1>1 DEF DirsInv, AutoDir, TypeOK
  <2>2. \A g \in disk' \ disk : \E m \in Nat : g.dir = <<"auto", m>>
    BY <1>2, <2>1
  <2> QED BY <1>1, <1>2, <1>3, <2>2, SavedKept
<1> QED BY <1>5, <1>6, <1>7, <1>8, <1>9 DEF ReplayInv

\* The process is lost; the disk and the checkpoints are not.
LEMMA LoseInv ==
    ASSUME ReplayInv, Lose, UNCHANGED <<replayConfig, disk, saved, made, starts, saves>>
    PROVE  ReplayInv'
<1>1. /\ TypeOK /\ MemoryInv /\ DirsInv /\ FilesInv /\ SavedInv /\ CheckpointLoads
  BY DEF ReplayInv
<1>2. /\ up' = FALSE /\ index' = <<>> /\ counter' = 0 /\ cache' = EmptyCache
      /\ window' = <<>> /\ windowValid' = FALSE /\ saving' = {}
      /\ UNCHANGED <<autoSave, cacheSize, disk, saved, made, starts, saves>>
  BY DEF Lose, replayConfig
<1>3. TypeOK'
  BY <1>1, <1>2 DEF TypeOK
<1>4. IsList(<<>>) /\ Len(<<>>) = 0
  BY EmptySeq DEF IsList
<1>5. MemoryInv'
  <2>1. Holds(EmptyCache, <<>>, 0, 0)
    BY <1>1, EmptyHolds DEF TypeOK
  <2>2. Holds(cache', index', 0, counter')
    BY <1>2, <2>1
  <2>3. Holds(cache, index, 0, counter)'
    BY <1>2, <2>2, HoldsNext
  <2>4. EmptyCache' = EmptyCache
    BY DEF EmptyCache
  <2> QED BY <1>2, <1>4, <2>3, <2>4 DEF MemoryInv
<1>6. DirsInv'
  BY <1>1, <1>2 DEF DirsInv
<1>7. FilesInv'
  BY <1>2, <1>4 DEF FilesInv
<1>8. SavedInv' /\ CheckpointLoads'
  BY <1>1, <1>2, SavedKept
<1> QED BY <1>3, <1>5, <1>6, <1>7, <1>8 DEF ReplayInv

LEMMA SampleInv == ASSUME ReplayInv, Sample PROVE ReplayInv'
<1>1. /\ TypeOK /\ MemoryInv /\ DirsInv /\ FilesInv /\ SavedInv /\ CheckpointLoads
  BY DEF ReplayInv
<1>2. UNCHANGED <<replayConfig, disk, saved, made, starts, saves>> /\ up
  BY DEF Sample
<1>3. CASE Lose
  BY <1>2, <1>3, LoseInv
<1>4. CASE ~Lose
  <2>1. window' = WindowNow /\ UNCHANGED <<up, index, counter, cache, saving>>
    BY <1>4 DEF Sample
  <2>2. UNCHANGED <<autoSave, cacheSize>>
    BY <1>2 DEF replayConfig
  <2>3. WindowNow = Newest(index, Window)
    BY <1>1 DEF WindowNow, MemoryInv
  <2>4. MemoryInv'
    BY <1>1, <1>2, <2>1, <2>2, <2>3, MemoryKept
  <2>5. TypeOK'
    BY <1>1, <1>2, <2>1, <2>2 DEF TypeOK
  <2>6. AutoDir' = AutoDir
    BY <1>2 DEF AutoDir
  <2>7. DirsInv' /\ FilesInv'
    BY <1>1, <1>2, <2>1, <2>2, <2>6 DEF DirsInv, FilesInv, DataOf, Data
  <2>8. SavedInv' /\ CheckpointLoads'
    BY <1>1, <1>2, <2>2, SavedKept
  <2> QED BY <2>4, <2>5, <2>7, <2>8 DEF ReplayInv
<1> QED BY <1>3, <1>4

LEMMA SaveCheckpointInv == ASSUME ReplayInv, SaveCheckpoint PROVE ReplayInv'
<1>1. /\ TypeOK /\ MemoryInv /\ DirsInv /\ FilesInv
      /\ IsList(index) /\ counter = Len(index) /\ Len(index) \in Nat
      /\ starts \in Nat /\ saves \in Nat /\ Window \in Nat
  BY ReplayAssumption, ListFacts DEF ReplayInv, MemoryInv, TypeOK
<1>2. /\ up /\ disk' = disk \cup CheckpointFiles
      /\ saved' = [dir |-> CheckpointDir, index |-> index, counter |-> counter]
      /\ saves' = saves + 1
      /\ UNCHANGED <<autoSave, cacheSize, up, index, counter, cache, window, windowValid>>
      /\ UNCHANGED <<saving, made, starts>>
  BY DEF SaveCheckpoint, replayConfig, memory
<1>3. \A f \in CheckpointFiles : /\ f = [dir |-> f.dir, id |-> f.id, data |-> f.data]
                                /\ f.dir = CheckpointDir
                                /\ f.id \in 0 .. counter - 1 /\ f.data = DataOf(index[f.id + 1])
  BY <1>2, CheckpointFilesAre
<1>4. /\ AutoDir' = AutoDir /\ CheckpointDir = <<"checkpoint", saves'>> /\ AutoDir # CheckpointDir
      /\ \A m \in Nat : /\ CheckpointDir # <<"auto", m>>
                        /\ CheckpointDir = <<"checkpoint", m>> => m = saves + 1
  BY <1>2 DEF AutoDir, CheckpointDir
<1>5. TypeOK'
  BY <1>1, <1>2 DEF TypeOK
<1>6. MemoryInv'
  BY <1>1, <1>2, MemoryKept DEF MemoryInv
<1>7. DirsInv'
  <2>1. ASSUME NEW f \in disk' \cup saving'
        PROVE  /\ f = [dir |-> f.dir, id |-> f.id, data |-> f.data]
               /\ \A m \in Nat : /\ f.dir = <<"auto", m>> => m <= starts
                                 /\ f.dir = <<"checkpoint", m>> => m <= saves + 1
    <3>1. CASE f \in disk \cup saving
      BY <1>1, <3>1 DEF DirsInv
    <3>2. CASE f \in CheckpointFiles
      BY <1>1, <1>3, <1>4, <3>2
    <3> QED BY <1>2, <3>1, <3>2
  <2>2. \A f \in saving' : f.dir = AutoDir
    BY <1>1, <1>2 DEF DirsInv
  <2> QED BY <1>2, <1>4, <2>1, <2>2 DEF DirsInv
<1>8. FilesInv'
  <2>1. SUFFICES ASSUME autoSave PROVE FilesInv'
    BY <1>2 DEF FilesInv
  <2>2. \A i \in 1 .. Len(index) : \A m \in Nat : index[i].dir = <<"checkpoint", m>> => m <= saves
    BY <1>1, <2>1 DEF FilesInv
  <2>3. \A i \in 1 .. Len(index) : \A m \in Nat : index[i].dir = <<"checkpoint", m>> => m <= saves + 1
    BY <1>1, <2>2
  <2>4. ASSUME NEW f \in disk' \cup saving', NEW i \in 1 .. Len(index), f.dir = index[i].dir, f.id = i - 1
        PROVE  f.data = DataOf(index[i])
    <3>1. CASE f \in disk \cup saving
      BY <1>1, <2>1, <2>4, <3>1 DEF FilesInv
    <3>2. CASE f \in CheckpointFiles
      <4>1. index[i].dir = <<"checkpoint", saves + 1>>
        BY <1>2, <1>3, <1>4, <2>4, <3>2
      <4>2. saves + 1 \in Nat /\ ~(saves + 1 <= saves)
        BY <1>1
      <4> QED BY <2>2, <4>1, <4>2
    <3> QED BY <1>2, <3>1, <3>2
  <2>5. ASSUME NEW f \in disk' \cup saving', f.dir = AutoDir
        PROVE  f.id \in 0 .. counter - 1 /\ index[f.id + 1].dir = AutoDir
    <3>1. f \in disk \cup saving
      BY <1>2, <1>3, <1>4, <2>5
    <3> QED BY <1>1, <1>2, <2>1, <2>5, <3>1 DEF FilesInv
  <2>6. \A i : DataOf(index[i])' = DataOf(index[i])
    BY <1>2 DEF DataOf, Data
  <2> QED BY <1>2, <1>4, <2>3, <2>4, <2>5, <2>6 DEF FilesInv
<1>9. SavedInv'
  <2>1. /\ saved'.index = index /\ saved'.counter = counter /\ saved'.dir = CheckpointDir
    BY <1>2
  <2>2. ASSUME NEW f \in disk', f.dir = CheckpointDir
        PROVE  f.id \in 0 .. counter - 1 /\ f.data = DataOf(index[f.id + 1])
    <3>1. CASE f \in disk
      <4>1. saves + 1 \in Nat /\ ~(saves + 1 <= saves)
        BY <1>1
      <4> QED BY <1>1, <1>2, <1>4, <2>2, <3>1, <4>1 DEF DirsInv
    <3> QED BY <1>2, <1>3, <3>1
  <2> QED BY <1>1, <1>4, <2>1, <2>2 DEF SavedInv, DataOf, Data
<1>10. CheckpointLoads'
  <2>1. /\ saved'.index = index /\ saved'.dir = CheckpointDir
    BY <1>2
  <2>2. ASSUME ~autoSave, NEW e \in Range(Newest(index, Window))
        PROVE  \E f \in disk' : f.dir = CheckpointDir /\ f.id = e.id /\ f.data = Data(e.serial, e.n)
    <3>1. PICK i \in 1 .. Len(index) : e = index[i] /\ e.id = i - 1 /\ i > Len(index) - Window
      BY <1>1, NewestEntries
    <3>2. PICK id : id = i - 1
      OBVIOUS
    <3>3. cacheSize = Window
      BY <1>1, <2>2 DEF TypeOK
    <3>4. /\ Cached(id)
          /\ \A k \in 1 .. e.n : Cell(id, k) = <<e.serial, k>>
      BY <1>1, <3>1, <3>2, <3>3, CacheFacts
    <3> DEFINE f == [dir |-> CheckpointDir, id |-> e.id, data |-> [k \in 1 .. e.n |-> Cell(e.id, k)]]
    <3>5. f \in CheckpointFiles
      <4>1. e \in Range(index)
        BY <1>1, <3>1, ListFacts DEF Range
      <4> QED BY <2>2, <3>1, <3>2, <3>4, <4>1 DEF CheckpointFiles
    <3>6. f.dir = CheckpointDir /\ f.id = e.id /\ f.data = Data(e.serial, e.n)
      BY <3>1, <3>2, <3>4 DEF Data
    <3> QED BY <1>2, <3>5, <3>6
  <2> QED BY <1>2, <2>1, <2>2 DEF CheckpointLoads, Files, Newest, Data
<1> QED BY <1>5, <1>6, <1>7, <1>8, <1>9, <1>10 DEF ReplayInv

\* The list and the cache of a process that was started.
LEMMA StartMemory ==
    ASSUME ReplayInv, Start
    PROVE  /\ IsList(index') /\ counter' = Len(index') /\ Holds(cache', index', 0, counter')
           /\ index' = <<>>
              \/ /\ saved # None /\ Len(index') = Len(saved.index)
                 /\ \A i \in 1 .. Len(index') :
                       index'[i].dir = saved.dir /\ DataOf(index'[i]) = DataOf(saved.index[i])
<1>1. TypeOK /\ SavedInv /\ cacheSize \in Nat /\ saves \in Nat
  BY DEF ReplayInv, TypeOK
<1>2. CASE saved = None
  <2>1. index' = <<>> /\ counter' = 0 /\ cache' = EmptyCache
    BY <1>2 DEF Start, Fresh
  <2>2. IsList(<<>>) /\ Len(<<>>) = 0
    BY EmptySeq DEF IsList
  <2>3. Holds(EmptyCache, <<>>, 0, 0)
    BY <1>1, EmptyHolds
  <2> QED BY <2>1, <2>2, <2>3
<1>3. CASE saved # None
  <2> DEFINE entries == [i \in DOMAIN saved.index |-> [saved.index[i] EXCEPT !.dir = saved.dir]]
  <2>1. /\ \A e \in Range(Newest(entries, cacheSize)) : Loadable(e)
        /\ index' = entries /\ counter' = saved.counter
        /\ cache' = Refilled(Newest(entries, cacheSize))
    BY <1>3 DEF Start, LoadCheckpoint
  <2>2. /\ IsList(saved.index) /\ saved.counter = Len(saved.index)
        /\ saved.dir = <<"checkpoint", saves>>
        /\ \A f \in disk : f.dir = saved.dir =>
              f.id \in 0 .. saved.counter - 1 /\ f.data = DataOf(saved.index[f.id + 1])
    BY <1>1, <1>3 DEF SavedInv
  <2>3. saved.dir \in Dirs
    BY <1>1, <2>2 DEF Dirs
  <2>4. /\ IsList(entries) /\ Len(entries) = Len(saved.index)
        /\ \A i \in 1 .. Len(saved.index) :
              entries[i].dir = saved.dir /\ DataOf(entries[i]) = DataOf(saved.index[i])
    <3> HIDE DEF entries
    <3>1. PICK list, dir : list = saved.index /\ dir = saved.dir
      OBVIOUS
    <3>2. entries = [i \in DOMAIN list |-> [list[i] EXCEPT !.dir = dir]]
      BY <3>1 DEF entries
    <3>3. IsList(list) /\ dir \in Dirs
      BY <2>2, <2>3, <3>1
    <3>4. /\ IsList(entries) /\ Len(entries) = Len(list)
          /\ \A i \in 1 .. Len(list) : entries[i].dir = dir /\ DataOf(entries[i]) = DataOf(list[i])
      BY <3>2, <3>3, Loaded
    <3> QED BY <3>1, <3>4
  <2> HIDE DEF entries
  <2>5. ASSUME NEW e \in Range(Newest(entries, cacheSize)) PROVE FileOf(e).data = DataOf(e)
    <3>1. PICK i \in 1 .. Len(entries) : e = entries[i] /\ e.id = i - 1
      BY <1>1, <2>4, NewestEntries
    <3>2. Files(e.dir, e.id) # {}
      BY <2>1 DEF Loadable
    <3>3. PICK f : f = FileOf(e)
      OBVIOUS
    <3>4. f \in disk /\ f.dir = saved.dir /\ f.id = i - 1
      BY <2>4, <3>1, <3>2, <3>3 DEF FileOf, Files
    <3>5. f.id + 1 = i
      BY <2>4, <3>1, <3>4, ListFacts
    <3> QED BY <2>2, <2>4, <3>1, <3>3, <3>4, <3>5
  <2>6. Holds(Refilled(Newest(entries, cacheSize)), entries, 0, Len(entries))
    BY <1>1, <2>4, <2>5, RefilledHolds
  <2> QED BY <1>3, <2>1, <2>2, <2>4, <2>6
<1> QED BY <1>2, <1>3

LEMMA StartInv == ASSUME ReplayInv, Start PROVE ReplayInv'
<1>1. /\ TypeOK /\ MemoryInv /\ DirsInv /\ FilesInv /\ SavedInv /\ CheckpointLoads
      /\ starts \in Nat /\ saves \in Nat
  BY DEF ReplayInv, TypeOK
<1>2. /\ ~up /\ up' = TRUE /\ starts' = starts + 1
      /\ UNCHANGED <<autoSave, cacheSize, window, windowValid, saving, disk, saved, made, saves>>
  BY DEF Start, replayConfig
<1>3. /\ IsList(index') /\ counter' = Len(index') /\ Holds(cache', index', 0, counter')
      /\ index' = <<>>
         \/ /\ saved # None /\ Len(index') = Len(saved.index)
            /\ \A i \in 1 .. Len(index') :
                  index'[i].dir = saved.dir /\ DataOf(index'[i]) = DataOf(saved.index[i])
  BY StartMemory
<1>4. saving = {} /\ ~windowValid
  BY <1>1, <1>2 DEF MemoryInv
<1>5. TypeOK'
  BY <1>1, <1>2 DEF TypeOK
<1>6. MemoryInv'
  <2>1. Holds(cache, index, 0, counter)'
    BY <1>2, <1>3, HoldsNext
  <2> QED BY <1>2, <1>3, <1>4, <2>1 DEF MemoryInv
<1>7. DirsInv'
  BY <1>1, <1>2, <1>4 DEF DirsInv
<1>8. FilesInv'
  <2>1. AutoDir' = <<"auto", starts + 1>> /\ starts + 1 \in Nat /\ ~(starts + 1 <= starts)
    BY <1>1, <1>2 DEF AutoDir
  <2>2. \A f \in disk' \cup saving' : f.dir # AutoDir'
    BY <1>1, <1>2, <1>4, <2>1 DEF DirsInv
  <2>3. CASE index' = <<>>
    <3>1. Len(index') = 0
      BY <2>3, EmptySeq
    <3> QED BY <2>2, <3>1 DEF FilesInv
  <2>4. CASE index' # <<>>
    <3>1. /\ saved # None /\ Len(index') = Len(saved.index)
          /\ \A i \in 1 .. Len(index') :
                index'[i].dir = saved.dir /\ DataOf(index'[i]) = DataOf(saved.index[i])
      BY <1>3, <2>4
    <3>2. /\ saved.dir = <<"checkpoint", saves>> /\ Len(index') \in Nat
          /\ \A f \in disk : f.dir = saved.dir =>
                f.id \in 0 .. saved.counter - 1 /\ f.data = DataOf(saved.index[f.id + 1])
      BY <1>1, <1>3, <3>1, ListFacts DEF SavedInv
    <3>3. \A i \in 1 .. Len(index') : \A m \in Nat : index'[i].dir = <<"checkpoint", m>> => m <= saves
      BY <1>1, <3>1, <3>2
    <3>4. ASSUME NEW f \in disk' \cup saving', NEW i \in 1 .. Len(index'),
                 f.dir = index'[i].dir, f.id = i - 1
          PROVE  f.data = DataOf(index'[i])
      <4>1. f \in disk /\ f.dir = saved.dir /\ f.id + 1 = i
        BY <1>2, <1>4, <3>1, <3>2, <3>4
      <4> QED BY <3>1, <3>2, <4>1
    <3>5. \A i : DataOf(index[i])' = DataOf(index'[i])
      BY DEF DataOf, Data
    <3> QED BY <1>2, <2>2, <3>3, <3>4, <3>5 DEF FilesInv
  <2> QED BY <2>3, <2>4
<1>9. SavedInv' /\ CheckpointLoads'
  BY <1>1, <1>2, SavedKept
<1> QED BY <1>5, <1>6, <1>7, <1>8, <1>9 DEF ReplayInv

LEMMA ReplayStep == ASSUME ReplayInv, [ReplayNext]_replayVars PROVE ReplayInv'
<1>1. ASSUME NEW n \in Lengths, AddTrajectory(n) PROVE ReplayInv'
  BY <1>1, AddInv
<1>2. CASE FinishSave
  BY <1>2, FinishSaveInv
<1>3. CASE Sample
  BY <1>3, SampleInv
<1>4. CASE SaveCheckpoint
  BY <1>4, SaveCheckpointInv
<1>5. CASE Crash
  BY <1>5, LoseInv DEF Crash
<1>6. CASE Start
  BY <1>6, StartInv
<1>7. CASE UNCHANGED replayVars
  <2>1. /\ TypeOK /\ MemoryInv /\ DirsInv /\ FilesInv /\ SavedInv /\ CheckpointLoads
    BY DEF ReplayInv
  <2>2. UNCHANGED <<autoSave, cacheSize, up, index, counter, cache, window, windowValid, saving>>
        /\ UNCHANGED <<disk, saved, made, starts, saves>>
    BY <1>7 DEF replayVars, replayConfig, memory
  <2>3. TypeOK'
    BY <2>1, <2>2 DEF TypeOK
  <2>4. MemoryInv'
    BY <2>1, <2>2, MemoryKept DEF MemoryInv
  <2>5. AutoDir' = AutoDir
    BY <2>2 DEF AutoDir
  <2>6. DirsInv' /\ FilesInv'
    BY <2>1, <2>2, <2>5 DEF DirsInv, FilesInv, DataOf, Data
  <2>7. SavedInv' /\ CheckpointLoads'
    BY <2>1, <2>2, SavedKept
  <2> QED BY <2>3, <2>4, <2>6, <2>7 DEF ReplayInv
<1> QED BY <1>1, <1>2, <1>3, <1>4, <1>5, <1>6, <1>7 DEF ReplayNext

-----------------------------------------------------------------------------
(* What sample_chunks reads of a trajectory, in the cache or in its file,  *)
(* is of the trajectory that the index says it is, of the window of the    *)
(* index as it is: whatever the sizes of the window and the cache, in      *)
(* whatever order trajectories of whatever lengths came, and however often *)
(* the process was started again (SamplesAreTrue).                         *)
THEOREM SamplesAreTrueHolds == ReplaySpec => []SamplesAreTrue
<1>1. ReplayInit => ReplayInv
  BY InitReplay
<1>2. ReplayInv /\ [ReplayNext]_replayVars => ReplayInv'
  BY ReplayStep
<1>3. ReplayInv => SamplesAreTrue
  BY SamplesFollow
<1> QED BY <1>1, <1>2, <1>3, PTL DEF ReplaySpec

(* Without auto_save save_checkpoint writes files from the cache alone,    *)
(* and yet the latest checkpoint always has the files of the window of     *)
(* then, with their trajectories, so that load_checkpoint finds them       *)
(* (CheckpointLoads).                                                      *)
THEOREM CheckpointLoadsHolds == ReplaySpec => []CheckpointLoads
<1>1. ReplayInit => ReplayInv
  BY InitReplay
<1>2. ReplayInv /\ [ReplayNext]_replayVars => ReplayInv'
  BY ReplayStep
<1>3. ReplayInv => CheckpointLoads
  BY DEF ReplayInv
<1> QED BY <1>1, <1>2, <1>3, PTL DEF ReplaySpec
=============================================================================
