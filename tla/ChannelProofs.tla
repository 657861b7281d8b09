---------------------------- MODULE ChannelProofs ----------------------------
(***************************************************************************)
(* Theorems about the channel worker, for any sets of keys, calls and      *)
(* payloads, any weights and any maxsize, and about its clients.           *)
(*                                                                         *)
(* Every get of a client returns what the channel worker has taken from    *)
(* its queue for it, for any number of clients, keys and calls and in      *)
(* whatever order the gets are answered, as long as a client calls no get  *)
(* that blocks while it has others outstanding.                            *)
(*                                                                         *)
(* The pipe that brings the answers does not know whose they are, and a    *)
(* get that blocks takes the first that comes.  It is its own because a    *)
(* client has as many recvs outstanding as it has open gets (Counted): the *)
(* one that blocks is then the only one that is open (Blocking), and every *)
(* answer in the pipe is that of another open get (Sent, Distinct).        *)
(*                                                                         *)
(* The puts of a client to a key enter its queue in the order of their     *)
(* calls, as long as a client has puts to one key outstanding at a time.   *)
(* Only the first of the chain may have begun, and what is in the pipe is  *)
(* the chain, without its first one if that has begun (Chain): the put     *)
(* that begins takes its own item (TakesOwn).                              *)
(***************************************************************************)
EXTENDS ChannelClient, TLAPS, FiniteSetTheorems, SequenceTheorems, WellFoundedInduction

-----------------------------------------------------------------------------
\* Typing of the operators on deques and coroutine states.

LEMMA RemainingType ==
    ASSUME NEW S, NEW w \in Seq(S), NEW n \in Nat
    PROVE  Remaining(w, n) \in Seq(S)
BY DEF Remaining

LEMMA AppendType ==
    ASSUME NEW S, NEW f \in [Key -> Seq(S)], NEW k \in Key, NEW e \in S
    PROVE  [f EXCEPT ![k] = Append(@, e)] \in [Key -> Seq(S)]
OBVIOUS

LEMMA UpdateType ==
    ASSUME NEW S, NEW f \in [Key -> S], NEW k \in Key, NEW e \in S
    PROVE  [f EXCEPT ![k] = e] \in [Key -> S]
OBVIOUS

LEMMA CallType ==
    ASSUME call \in [Task -> Call], NEW t \in Task, NEW k \in Key,
           NEW items \in Seq(Item), NEW target \in Nat
    PROVE  [call EXCEPT ![t] = Locals(k, items, target)] \in [Task -> Call]
BY DEF Call, Locals

LEMMA WokenPCType == ASSUME NEW s \in PC PROVE WokenPC(s) \in PC
BY DEF WokenPC, PC, PutPC, GetPC, PeekPC

LEMMA SwitchType ==
    ASSUME NEW t, NEW s \in PC, NEW W, pc \in [Task -> PC], Switch(t, s, W)
    PROVE  pc' \in [Task -> PC]
BY WokenPCType DEF Switch

\* The states of a task that carries the payload of a put.
PutState == PutPC \cup {"stored", "full"}

\* A wake-up keeps a put a put, and leaves a task that does not wait alone.
LEMMA SwitchPutState ==
    ASSUME NEW t \in Task, NEW s \in PC, NEW W, pc \in [Task -> PC], Switch(t, s, W)
    PROVE  /\ pc'[t] = s
           /\ \A u \in Task \ {t} : pc'[u] \in PutState <=> pc[u] \in PutState
BY DEF Switch, PutState, WokenPC, PC, PutPC, GetPC, PeekPC

-----------------------------------------------------------------------------
\* The type invariant is not inductive: that PutResume finds a payload to
\* append rests on what Put left in the locals of the call.

Carries == \A t \in Task : pc[t] \in PutState => \E i \in Item : call[t].items = <<i>>

TypeInv == TypeOK /\ Carries

LEMMA Append1Type ==
    ASSUME TypeOK, NEW t \in Task, NEW k \in Key, NEW i \in Item, Append1(t, k, i)
    PROVE  /\ queue' \in [Key -> Seq(Item)]
           /\ getters' \in [Key -> Seq(Task)]
           /\ putters' \in [Key -> Seq(Task)]
           /\ pc' \in [Task -> PC]
           /\ pc'[t] \in PutState
           /\ \A u \in Task \ {t} : pc'[u] \in PutState <=> pc[u] \in PutState
<1>1. "stored" \in PC /\ pc \in [Task -> PC] /\ Switch(t, "stored", Woken(getters[k], 1))
  BY DEF Append1, TypeOK, PC
<1>2. Remaining(getters[k], 1) \in Seq(Task)
  BY RemainingType DEF TypeOK
<1>3. queue' \in [Key -> Seq(Item)]
  BY AppendType DEF Append1, TypeOK
<1>4. getters' \in [Key -> Seq(Task)]
  BY <1>2, UpdateType DEF Append1, TypeOK
<1> QED BY <1>1, <1>3, <1>4, SwitchType, SwitchPutState DEF Append1, TypeOK, PutState

LEMMA PutBodyType ==
    ASSUME TypeOK, NEW t \in Task, NEW k \in Key, NEW i \in Item, PutBody(t, k, i)
    PROVE  /\ queue' \in [Key -> Seq(Item)]
           /\ getters' \in [Key -> Seq(Task)]
           /\ putters' \in [Key -> Seq(Task)]
           /\ pc' \in [Task -> PC]
           /\ pc'[t] \in PutState
           /\ \A u \in Task \ {t} : pc'[u] \in PutState <=> pc[u] \in PutState
<1>1. CASE Full(k)
  <2>1. "putting" \in PC /\ pc \in [Task -> PC] /\ Switch(t, "putting", {})
    BY <1>1 DEF PutBody, TypeOK, PC, PutPC
  <2>2. putters' = [putters EXCEPT ![k] = Append(@, t)] /\ UNCHANGED <<queue, getters>>
    BY <1>1 DEF PutBody
  <2> QED BY <2>1, <2>2, AppendType, SwitchType, SwitchPutState DEF TypeOK, PutState, PutPC
<1>2. CASE ~Full(k)
  BY <1>2, Append1Type DEF PutBody
<1> QED BY <1>1, <1>2

LEMMA TakeNType ==
    ASSUME TypeOK, NEW t \in Task, NEW k \in Key, NEW n \in 0 .. Len(queue[k]),
           NEW s \in PC, TakeN(t, k, n, s)
    PROVE  /\ queue' \in [Key -> Seq(Item)]
           /\ putters' \in [Key -> Seq(Task)]
           /\ pc' \in [Task -> PC]
           /\ pc'[t] = s
           /\ \A u \in Task \ {t} : pc'[u] \in PutState <=> pc[u] \in PutState
<1>1. pc \in [Task -> PC] /\ Switch(t, s, Woken(putters[k], n))
  BY DEF TakeN, TypeOK
<1>2. Remaining(putters[k], n) \in Seq(Task)
  BY RemainingType DEF TypeOK
<1>3. SubSeq(queue[k], n + 1, Len(queue[k])) \in Seq(Item)
  BY DEF TypeOK
<1>4. putters' \in [Key -> Seq(Task)]
  BY <1>2, UpdateType DEF TakeN, TypeOK
<1>5. queue' \in [Key -> Seq(Item)]
  BY <1>3, UpdateType DEF TakeN, TypeOK
<1> QED BY <1>1, <1>4, <1>5, SwitchType, SwitchPutState

LEMMA PutTyped ==
    ASSUME TypeInv, NEW t \in Task, NEW k \in Key, NEW i \in Item,
           Put(t, k, i) \/ PutNowait(t, k, i)
    PROVE  TypeInv'
<1>1. call' = [call EXCEPT ![t] = Locals(k, <<i>>, 0)] /\ fresh' = fresh \ {i}
  BY DEF Put, PutNowait
<1>2. call' \in [Task -> Call] /\ fresh' \subseteq Item
  <2>1. <<i>> \in Seq(Item) /\ 0 \in Nat /\ call \in [Task -> Call] /\ fresh \subseteq Item
    BY DEF TypeInv, TypeOK
  <2> QED BY <1>1, <2>1, CallType
<1>3. /\ queue' \in [Key -> Seq(Item)]
      /\ getters' \in [Key -> Seq(Task)]
      /\ putters' \in [Key -> Seq(Task)]
      /\ pc' \in [Task -> PC]
      /\ \A u \in Task \ {t} : pc'[u] \in PutState <=> pc[u] \in PutState
  <2>1. CASE PutBody(t, k, i)
    BY <2>1, PutBodyType DEF TypeInv
  <2>2. CASE Append1(t, k, i)
    BY <2>2, Append1Type DEF TypeInv
  <2>3. CASE Switch(t, "full", {}) /\ UNCHANGED <<queue, getters, putters>>
    <3>1. "full" \in PC
      BY DEF PC
    <3> QED BY <2>3, <3>1, SwitchType, SwitchPutState DEF TypeInv, TypeOK
  <2> QED BY <2>1, <2>2, <2>3 DEF Put, PutNowait
<1>4. Carries'
  BY <1>1, <1>3 DEF Carries, TypeInv, TypeOK, Locals
<1> QED BY <1>2, <1>3, <1>4 DEF TypeInv, TypeOK

LEMMA PutResumeTyped ==
    ASSUME TypeInv, NEW t \in Task, PutResume(t)
    PROVE  TypeInv'
<1>1. PICK i \in Item : call[t].items = <<i>>
  BY DEF TypeInv, Carries, PutResume, PutState, PutPC
<1>2. call[t].key \in Key /\ PutBody(t, call[t].key, i) /\ UNCHANGED <<call, fresh>>
  BY <1>1 DEF TypeInv, TypeOK, PutResume, Call
<1>3. pc[t] \in PutState
  BY DEF PutResume, PutState, PutPC
<1>4. Carries'
  BY <1>2, <1>3, PutBodyType DEF TypeInv, Carries
<1> QED BY <1>2, <1>4, PutBodyType DEF TypeInv, TypeOK

LEMMA GetBodyTyped ==
    ASSUME TypeInv, NEW t \in Task, NEW k \in Key, GetBody(t, k), UNCHANGED fresh
    PROVE  TypeInv'
<1>1. CASE queue[k] = <<>>
  <2>1. /\ getters' = [getters EXCEPT ![k] = Append(@, t)]
        /\ Switch(t, "getting", {})
        /\ call' = [call EXCEPT ![t] = Locals(k, <<>>, 0)]
        /\ UNCHANGED <<queue, putters>>
    BY <1>1 DEF GetBody
  <2>2. "getting" \in PC /\ "getting" \notin PutState /\ <<>> \in Seq(Item)
    BY DEF PC, GetPC, PutState, PutPC
  <2>3. Carries'
    <3>1. pc'[t] \notin PutState /\ \A u \in Task \ {t} : pc'[u] \in PutState <=> pc[u] \in PutState
      BY <2>1, <2>2, SwitchPutState DEF TypeInv, TypeOK
    <3>2. \A u \in Task \ {t} : call'[u] = call[u]
      BY <2>1 DEF TypeInv, TypeOK
    <3> QED BY <3>1, <3>2 DEF Carries, TypeInv
  <2> QED BY <2>1, <2>2, <2>3, AppendType, CallType, SwitchType DEF TypeInv, TypeOK
<1>2. CASE queue[k] # <<>>
  <2>1. /\ call' = [call EXCEPT ![t] = Locals(k, <<Head(queue[k])>>, 0)]
        /\ TakeN(t, k, 1, "done")
        /\ UNCHANGED getters
    BY <1>2 DEF GetBody
  <2>2. "done" \in PC /\ "done" \notin PutState /\ 1 \in 0 .. Len(queue[k])
        /\ <<Head(queue[k])>> \in Seq(Item)
    BY <1>2 DEF PC, PutState, PutPC, TypeInv, TypeOK
  <2>3. Carries'
    BY <2>1, <2>2, TakeNType DEF Carries, TypeInv, TypeOK
  <2> QED BY <2>1, <2>2, <2>3, CallType, TakeNType DEF TypeInv, TypeOK
<1> QED BY <1>1, <1>2

LEMMA GetNowaitTyped ==
    ASSUME TypeInv, NEW t \in Task, NEW k \in Key, GetNowait(t, k)
    PROVE  TypeInv'
<1>1. CASE queue[k] = <<>>
  <2>1. /\ Switch(t, "empty", {})
        /\ call' = [call EXCEPT ![t] = Locals(k, <<>>, 0)]
        /\ UNCHANGED <<queue, getters, putters, fresh>>
    BY <1>1 DEF GetNowait
  <2>2. "empty" \in PC /\ "empty" \notin PutState /\ <<>> \in Seq(Item)
    BY DEF PC, PutState, PutPC
  <2>3. Carries'
    <3>1. pc'[t] \notin PutState /\ \A u \in Task \ {t} : pc'[u] \in PutState <=> pc[u] \in PutState
      BY <2>1, <2>2, SwitchPutState DEF TypeInv, TypeOK
    <3>2. \A u \in Task \ {t} : call'[u] = call[u]
      BY <2>1 DEF TypeInv, TypeOK
    <3> QED BY <3>1, <3>2 DEF Carries, TypeInv
  <2> QED BY <2>1, <2>2, <2>3, CallType, SwitchType DEF TypeInv, TypeOK
<1>2. CASE queue[k] # <<>>
  BY <1>2, GetBodyTyped DEF GetNowait
<1> QED BY <1>1, <1>2

LEMMA BatchBodyTyped ==
    ASSUME TypeInv, NEW t \in Task, NEW k \in Key, NEW batch \in Seq(Item),
           NEW target \in Nat, BatchBody(t, k, batch, target), UNCHANGED fresh
    PROVE  TypeInv'
<1>1. PICK n \in 0 .. Len(queue[k]), awaits \in BOOLEAN :
        /\ call' = [call EXCEPT ![t] = Locals(k, Taking(batch, queue[k], n), target)]
        /\ getters' = [getters EXCEPT ![k] = IF awaits THEN Append(@, t) ELSE @]
        /\ TakeN(t, k, n, IF awaits THEN "peeking" ELSE "batched")
  BY DEF BatchBody
<1>2. Taking(batch, queue[k], n) \in Seq(Item)
  BY <1>1 DEF Taking, TypeInv, TypeOK
<1>3. /\ (IF awaits THEN "peeking" ELSE "batched") \in PC
      /\ (IF awaits THEN "peeking" ELSE "batched") \notin PutState
  BY DEF PC, PeekPC, PutState, PutPC
<1>4. getters' \in [Key -> Seq(Task)]
  BY <1>1, AppendType DEF TypeInv, TypeOK
<1>5. Carries'
  BY <1>1, <1>3, TakeNType DEF Carries, TypeInv, TypeOK
<1> QED BY <1>1, <1>2, <1>3, <1>4, <1>5, CallType, TakeNType DEF TypeInv, TypeOK

LEMMA TypeInit == Init => TypeInv
<1>1. ASSUME Init PROVE TypeOK
  BY <1>1, ChannelAssumption DEF Init, TypeOK, NewCall, Locals, Call, PC
<1>2. ASSUME Init PROVE Carries
  BY <1>2 DEF Init, Carries, PutState, PutPC
<1> QED BY <1>1, <1>2 DEF TypeInv

LEMMA TypeStep == ASSUME TypeInv, [Next]_vars PROVE TypeInv'
<1>1. ASSUME NEW t \in Task, Arrive(t) PROVE TypeInv'
  <2>1. PICK k \in Key :
          \/ \E i \in Item : Put(t, k, i) \/ PutNowait(t, k, i)
          \/ Get(t, k)
          \/ GetNowait(t, k)
          \/ k \in BatchKey /\ \E target \in Target : GetBatch(t, k, target)
    BY <1>1 DEF Arrive
  <2>2. ASSUME NEW target \in Target, GetBatch(t, k, target) PROVE TypeInv'
    <3>1. target \in Nat /\ <<>> \in Seq(Item)
      BY <2>2, ChannelAssumption
    <3> QED BY <2>2, <3>1, BatchBodyTyped DEF GetBatch
  <2>3. ASSUME Get(t, k) PROVE TypeInv'
    BY <2>3, GetBodyTyped DEF Get
  <2> QED BY <2>1, <2>2, <2>3, PutTyped, GetNowaitTyped
<1>2. ASSUME NEW t \in Task, Resume(t) PROVE TypeInv'
  <2>1. call[t].key \in Key /\ call[t].items \in Seq(Item) /\ call[t].target \in Nat
    BY DEF TypeInv, TypeOK, Call
  <2>2. CASE GetResume(t)
    BY <2>1, <2>2, GetBodyTyped DEF GetResume
  <2>3. CASE GetBatchResume(t)
    BY <2>1, <2>3, BatchBodyTyped DEF GetBatchResume
  <2>4. CASE PutResume(t)
    BY <2>4, PutResumeTyped
  <2> QED BY <1>2, <2>2, <2>3, <2>4 DEF Resume
<1>3. CASE UNCHANGED vars
  BY <1>3 DEF vars, TypeInv, TypeOK, Carries
<1> QED BY <1>1, <1>2, <1>3 DEF Next

\* Every order in which the event loop runs the calls keeps the deques and
\* queues of the channel worker well formed, and a put never loses its payload
\* while it waits.
THEOREM TypeInvariance == Spec => []TypeInv
<1>1. Init => TypeInv
  BY TypeInit
<1>2. TypeInv /\ [Next]_vars => TypeInv'
  BY TypeStep
<1> QED BY <1>1, <1>2, PTL DEF Spec

\* The type invariant that the runs check.
THEOREM TypeCorrect == Spec => []TypeOK
BY TypeInvariance, PTL DEF TypeInv
-----------------------------------------------------------------------------
(***************************************************************************)
(* No call of the channel worker sleeps beside what it waits for, for any  *)
(* number of calls, keys and payloads.                                     *)
(*                                                                         *)
(* "Some woken task has still to run" is not inductive.  What is: where    *)
(* tasks sleep, the woken tasks that have not run are at least as many as  *)
(* the items (for getters) or the free places (for putters).               *)
(***************************************************************************)

-----------------------------------------------------------------------------
\* Facts about deques.

NoRepeats(w) == \A a, b \in 1 .. Len(w) : w[a] = w[b] => a = b

LEMMA RemainingElements ==
    ASSUME NEW S, NEW w \in Seq(S), NEW n \in Nat
    PROVE  /\ Len(Remaining(w, n)) = IF n < Len(w) THEN Len(w) - n ELSE 0
           /\ \A j \in 1 .. Len(Remaining(w, n)) : j + n \in 1 .. Len(w) /\ Remaining(w, n)[j] = w[j + n]
BY DEF Remaining

LEMMA WokenElements ==
    ASSUME NEW S, NEW w \in Seq(S), NEW n \in Nat, NEW u
    PROVE  u \in Woken(w, n) <=> \E j \in 1 .. Len(w) : j <= n /\ u = w[j]
BY DEF Woken

\* The n tasks at the head of a deque without repetitions are n tasks.
LEMMA WokenCardinality ==
    ASSUME NEW S, NEW w \in Seq(S), NoRepeats(w), NEW n \in 0 .. Len(w)
    PROVE  IsFiniteSet(Woken(w, n)) /\ Cardinality(Woken(w, n)) = n
<1> DEFINE f == [j \in 1 .. n |-> w[j]]
<1>1. Woken(w, n) = {w[j] : j \in 1 .. n}
  BY DEF Woken
<1>2. f \in Bijection(1 .. n, Woken(w, n))
  BY <1>1 DEF Bijection, Injection, Surjection, IsInjective, NoRepeats
<1>3. ExistsBijection(1 .. n, Woken(w, n))
  BY <1>2 DEF ExistsBijection
<1>4. IsFiniteSet(1 .. n) /\ Cardinality(1 .. n) = n
  BY FS_Interval
<1> QED BY <1>3, <1>4, FS_Bijection

-----------------------------------------------------------------------------
\* A deque f is sound when the tasks in it are distinct, wait for its key, and
\* are in one of the waiting states S.  The lemmas follow it through one step
\* of task t that wakes the tasks of W: p, c are pc and call before the step,
\* p2, c2 after it.

Sound(f, S, p, c) ==
    \A k \in Key :
        /\ NoRepeats(f[k])
        /\ \A j \in 1 .. Len(f[k]) : p[f[k][j]] \in S /\ c[f[k][j]].key = k

StepOf(t, W, p, c, p2, c2) ==
    \A u \in Task \ {t} : (u \notin W => p2[u] = p[u]) /\ c2[u] = c[u]

LEMMA SoundUnchanged ==
    ASSUME NEW f \in [Key -> Seq(Task)], NEW S, NEW p, NEW c, NEW p2, NEW c2, NEW t, NEW W,
           StepOf(t, W, p, c, p2, c2), Sound(f, S, p, c), p[t] \notin S,
           \A u \in W : p[u] \notin S
    PROVE  Sound(f, S, p2, c2)
<1> SUFFICES ASSUME NEW k \in Key, NEW j \in 1 .. Len(f[k])
             PROVE  p2[f[k][j]] \in S /\ c2[f[k][j]].key = k
  BY DEF Sound
<1>1. f[k][j] \in Task /\ p[f[k][j]] \in S /\ c[f[k][j]].key = k
  BY DEF Sound
<1> QED BY <1>1 DEF StepOf

LEMMA SoundWoken ==
    ASSUME NEW f \in [Key -> Seq(Task)], NEW S, NEW p, NEW c, NEW p2, NEW c2, NEW t,
           NEW k \in Key, NEW n \in Nat,
           StepOf(t, Woken(f[k], n), p, c, p2, c2), Sound(f, S, p, c), p[t] \notin S
    PROVE  Sound([f EXCEPT ![k] = Remaining(@, n)], S, p2, c2)
<1> DEFINE g == [f EXCEPT ![k] = Remaining(@, n)]
<1>1. ASSUME NEW m \in Key, m # k
      PROVE  /\ NoRepeats(g[m])
             /\ \A j \in 1 .. Len(g[m]) : p2[g[m][j]] \in S /\ c2[g[m][j]].key = m
  <2>1. g[m] = f[m] /\ NoRepeats(f[m])
    BY <1>1 DEF Sound
  <2>2. ASSUME NEW j \in 1 .. Len(f[m]) PROVE p2[f[m][j]] \in S /\ c2[f[m][j]].key = m
    <3>1. f[m][j] \in Task /\ p[f[m][j]] \in S /\ c[f[m][j]].key = m
      BY DEF Sound
    <3>2. f[m][j] \notin Woken(f[k], n)
      <4>1. f[k] \in Seq(Task)
        OBVIOUS
      <4>2. SUFFICES ASSUME NEW i \in 1 .. Len(f[k]), f[k][i] = f[m][j] PROVE FALSE
        BY <4>1, WokenElements
      <4>3. c[f[k][i]].key = k
        BY DEF Sound
      <4> QED BY <3>1, <4>2, <4>3, <1>1
    <3> QED BY <3>1, <3>2 DEF StepOf
  <2> QED BY <2>1, <2>2
<1>2. /\ NoRepeats(g[k])
      /\ \A j \in 1 .. Len(g[k]) : p2[g[k][j]] \in S /\ c2[g[k][j]].key = k
  <2>1. g[k] = Remaining(f[k], n) /\ NoRepeats(f[k]) /\ f[k] \in Seq(Task)
    BY DEF Sound
  <2>2. /\ Len(g[k]) \in Nat
        /\ \A j \in 1 .. Len(g[k]) : j + n \in 1 .. Len(f[k]) /\ g[k][j] = f[k][j + n]
    BY <2>1, RemainingElements
  <2>3. NoRepeats(g[k])
    BY <2>1, <2>2 DEF NoRepeats
  <2>4. ASSUME NEW j \in 1 .. Len(g[k]) PROVE p2[g[k][j]] \in S /\ c2[g[k][j]].key = k
    <3>1. /\ g[k][j] = f[k][j + n] /\ j + n \in 1 .. Len(f[k])
          /\ f[k][j + n] \in Task /\ p[f[k][j + n]] \in S /\ c[f[k][j + n]].key = k
      BY <2>1, <2>2 DEF Sound
    <3>2. f[k][j + n] \notin Woken(f[k], n)
      <4>1. SUFFICES ASSUME NEW i \in 1 .. Len(f[k]), i <= n, f[k][i] = f[k][j + n] PROVE FALSE
        BY <2>1, WokenElements
      <4> QED BY <2>1, <2>2, <3>1, <4>1 DEF NoRepeats
    <3> QED BY <3>1, <3>2 DEF StepOf
  <2> QED BY <2>3, <2>4
<1> QED BY <1>1, <1>2 DEF Sound

LEMMA SoundAppend ==
    ASSUME NEW f \in [Key -> Seq(Task)], NEW S, NEW p, NEW c, NEW p2, NEW c2, NEW t \in Task,
           NEW W, NEW k \in Key,
           StepOf(t, W, p, c, p2, c2), Sound(f, S, p, c), p[t] \notin S,
           \A u \in W : p[u] \notin S,
           p2[t] \in S, c2[t].key = k
    PROVE  Sound([f EXCEPT ![k] = Append(@, t)], S, p2, c2)
<1> DEFINE g == [f EXCEPT ![k] = Append(@, t)]
<1>1. Sound(f, S, p2, c2)
  BY SoundUnchanged
<1>2. ASSUME NEW m \in Key, m # k
      PROVE  /\ NoRepeats(g[m])
             /\ \A j \in 1 .. Len(g[m]) : p2[g[m][j]] \in S /\ c2[g[m][j]].key = m
  BY <1>1, <1>2 DEF Sound
<1>3. /\ NoRepeats(g[k])
      /\ \A j \in 1 .. Len(g[k]) : p2[g[k][j]] \in S /\ c2[g[k][j]].key = k
  <2>1. f[k] \in Seq(Task) /\ g[k] = Append(f[k], t) /\ NoRepeats(f[k])
    BY DEF Sound
  <2>2. \A j \in 1 .. Len(f[k]) : f[k][j] # t
    BY DEF Sound
  <2>3. /\ Len(g[k]) = Len(f[k]) + 1 /\ g[k][Len(f[k]) + 1] = t
        /\ \A j \in 1 .. Len(f[k]) : g[k][j] = f[k][j]
    BY <2>1
  <2>4. NoRepeats(g[k])
    BY <2>1, <2>2, <2>3 DEF NoRepeats
  <2>5. ASSUME NEW j \in 1 .. Len(g[k]) PROVE p2[g[k][j]] \in S /\ c2[g[k][j]].key = k
    BY <1>1, <2>1, <2>3, <2>5 DEF Sound
  <2> QED BY <2>4, <2>5
<1> QED BY <1>2, <1>3 DEF Sound

-----------------------------------------------------------------------------
\* The inductive invariant.

GetWait == {"getting", "peeking"}
PutWait == {"putting"}

\* The deques hold distinct tasks that wait for their key.
Deques == Sound(getters, GetWait, pc, call) /\ Sound(putters, PutWait, pc, call)

\* Only get_batch peeks.
PeekKeys == \A t \in Task : pc[t] \in PeekPC => call[t].key \in BatchKey

\* Where gets sleep, a woken get has still to run for every item.
Fed == \A k \in Key \ BatchKey :
          getters[k] # <<>> => Len(queue[k]) <= Cardinality(RunnableGetters(k))

\* Where puts sleep, a woken put has still to run for every free place.
Room == \A k \in Key :
          putters[k] # <<>> => /\ MaxSize > 0
                              /\ MaxSize <= Len(queue[k]) + Cardinality(RunnablePutters(k))

WakeInv == TypeInv /\ Deques /\ PeekKeys /\ Fed /\ Room

\* Task t runs, on key k: it was just called, or it was woken on k.
Runs(t, k) ==
    pc[t] = "new" \/ (pc[t] \in {"put_woken", "get_woken", "peek_woken"} /\ call[t].key = k)

CallStep(t, k) == call'[t].key = k /\ \A u \in Task \ {t} : call'[u] = call[u]

LEMMA RunnableFinite ==
    ASSUME NEW k
    PROVE  /\ IsFiniteSet(RunnableGetters(k)) /\ Cardinality(RunnableGetters(k)) \in Nat
           /\ IsFiniteSet(RunnablePutters(k)) /\ Cardinality(RunnablePutters(k)) \in Nat
<1>1. RunnableGetters(k) \in SUBSET Task /\ RunnablePutters(k) \in SUBSET Task
  BY DEF RunnableGetters, RunnablePutters
<1> QED BY <1>1, ChannelAssumption, FS_Subset, FS_CardinalityType

LEMMA RunnableWithout ==
    ASSUME NEW k, NEW t
    PROVE  /\ Cardinality(RunnableGetters(k) \ {t}) \in Nat
           /\ Cardinality(RunnablePutters(k) \ {t}) \in Nat
           /\ Cardinality(RunnableGetters(k) \ {t}) >= Cardinality(RunnableGetters(k)) - 1
           /\ Cardinality(RunnablePutters(k) \ {t}) >= Cardinality(RunnablePutters(k)) - 1
<1>1. IsFiniteSet(RunnableGetters(k) \ {t}) /\ IsFiniteSet(RunnablePutters(k) \ {t})
  BY RunnableFinite, FS_RemoveElement
<1>2. Cardinality(RunnableGetters(k) \ {t}) \in Nat /\ Cardinality(RunnablePutters(k) \ {t}) \in Nat
  BY <1>1, FS_CardinalityType
<1>3. ASSUME NEW S, IsFiniteSet(S), Cardinality(S) \in Nat
      PROVE  Cardinality(S \ {t}) >= Cardinality(S) - 1
  <2>1. Cardinality(S \ {t}) = IF t \in S THEN Cardinality(S) - 1 ELSE Cardinality(S)
    BY <1>3, FS_RemoveElement
  <2> QED BY <1>3, <2>1
<1>4. /\ Cardinality(RunnableGetters(k) \ {t}) >= Cardinality(RunnableGetters(k)) - 1
      /\ Cardinality(RunnablePutters(k) \ {t}) >= Cardinality(RunnablePutters(k)) - 1
  BY <1>3, RunnableFinite
<1> QED BY <1>2, <1>4

\* What a switch does to the sets of runnable tasks.
LEMMA SwitchStep ==
    ASSUME TypeOK, NEW t \in Task, NEW k \in Key, Runs(t, k), CallStep(t, k),
           NEW s \in {"stored", "done", "batched", "full", "empty", "putting", "getting", "peeking"},
           NEW W \in SUBSET Task, Switch(t, s, W), \A u \in W : pc[u] \in GetWait \cup PutWait
    PROVE  /\ StepOf(t, W, pc, call, pc', call')
           /\ t \notin W /\ pc[t] \notin GetWait /\ pc[t] \notin PutWait
           /\ pc'[t] = s
           /\ \A m : RunnableGetters(m)' = (RunnableGetters(m) \ {t})
                        \cup {u \in W : pc[u] \in GetWait /\ call[u].key = m}
           /\ \A m : RunnablePutters(m)' = (RunnablePutters(m) \ {t})
                        \cup {u \in W : pc[u] \in PutWait /\ call[u].key = m}
           /\ \A m : m # k => t \notin RunnableGetters(m) /\ t \notin RunnablePutters(m)
           /\ \A u \in Task \ {t} : pc'[u] \in PeekPC <=> pc[u] \in PeekPC
<1>1. pc'[t] = s /\ \A u \in Task \ {t} : pc'[u] = IF u \in W THEN WokenPC(pc[u]) ELSE pc[u]
  BY DEF Switch
<1>2. t \notin W /\ pc[t] \notin GetWait /\ pc[t] \notin PutWait
  BY DEF Runs, GetWait, PutWait
<1>3. \A u \in W : \/ pc[u] = "putting" /\ pc'[u] = "put_woken"
                   \/ pc[u] = "getting" /\ pc'[u] = "get_woken"
                   \/ pc[u] = "peeking" /\ pc'[u] = "peek_woken"
  <2> SUFFICES ASSUME NEW u \in W
               PROVE  \/ pc[u] = "putting" /\ pc'[u] = "put_woken"
                      \/ pc[u] = "getting" /\ pc'[u] = "get_woken"
                      \/ pc[u] = "peeking" /\ pc'[u] = "peek_woken"
    OBVIOUS
  <2>1. pc'[u] = WokenPC(pc[u])
    BY <1>1, <1>2
  <2>2. pc[u] \in {"putting", "getting", "peeking"}
    BY DEF GetWait, PutWait
  <2> QED BY <2>1, <2>2 DEF WokenPC
<1>4. StepOf(t, W, pc, call, pc', call')
  BY <1>1 DEF StepOf, CallStep
<1>5. ASSUME NEW m
      PROVE  /\ RunnableGetters(m)' = (RunnableGetters(m) \ {t})
                        \cup {u \in W : pc[u] \in GetWait /\ call[u].key = m}
             /\ RunnablePutters(m)' = (RunnablePutters(m) \ {t})
                        \cup {u \in W : pc[u] \in PutWait /\ call[u].key = m}
  <2>1. ASSUME NEW u \in Task
        PROVE  /\ u \in RunnableGetters(m)' <=>
                      \/ u \in RunnableGetters(m) \ {t}
                      \/ u \in W /\ pc[u] \in GetWait /\ call[u].key = m
               /\ u \in RunnablePutters(m)' <=>
                      \/ u \in RunnablePutters(m) \ {t}
                      \/ u \in W /\ pc[u] \in PutWait /\ call[u].key = m
    <3>1. CASE u = t
      BY <1>1, <1>2, <3>1 DEF RunnableGetters, RunnablePutters
    <3>2. CASE u # t /\ u \in W
      BY <1>3, <3>2 DEF RunnableGetters, RunnablePutters, CallStep, GetWait, PutWait
    <3>3. CASE u # t /\ u \notin W
      BY <1>1, <3>3 DEF RunnableGetters, RunnablePutters, CallStep
    <3> QED BY <3>1, <3>2, <3>3
  <2>2. RunnableGetters(m)' \subseteq Task /\ RunnablePutters(m)' \subseteq Task
        /\ RunnableGetters(m) \subseteq Task /\ RunnablePutters(m) \subseteq Task
    BY DEF RunnableGetters, RunnablePutters
  <2> QED BY <2>1, <2>2
<1>6. \A m : m # k => t \notin RunnableGetters(m) /\ t \notin RunnablePutters(m)
  BY DEF Runs, RunnableGetters, RunnablePutters
<1>7. \A u \in Task \ {t} : pc'[u] \in PeekPC <=> pc[u] \in PeekPC
  BY <1>1, <1>3 DEF PeekPC
<1> QED BY <1>1, <1>2, <1>4, <1>5, <1>6, <1>7

-----------------------------------------------------------------------------
\* The effects that an action can have on the deques, the queue and the sets
\* of runnable tasks.

\* put_nowait on a queue with room.
LEMMA StoreKeeps ==
    ASSUME WakeInv, NEW t \in Task, NEW k \in Key, NEW i, Runs(t, k), CallStep(t, k),
           pc[t] \in {"new", "put_woken"}, Append1(t, k, i)
    PROVE  Deques' /\ PeekKeys' /\ Fed' /\ Room'
<1> DEFINE W == Woken(getters[k], 1)
<1> USE DEF WakeInv, TypeInv
<1>1. /\ queue' = [queue EXCEPT ![k] = Append(@, i)]
      /\ getters' = [getters EXCEPT ![k] = Remaining(@, 1)]
      /\ putters' = putters
      /\ Switch(t, "stored", W)
  BY DEF Append1
<1>2. getters[k] \in Seq(Task) /\ queue[k] \in Seq(Item) /\ NoRepeats(getters[k])
  BY DEF TypeOK, Deques, Sound
<1>3. \A u \in W : u \in Task /\ pc[u] \in GetWait /\ call[u].key = k
  BY <1>2, WokenElements DEF Deques, Sound
<1>4. W \in SUBSET Task /\ \A u \in W : pc[u] \in GetWait \cup PutWait /\ pc[u] \notin PutWait
  BY <1>3 DEF GetWait, PutWait
<1> HIDE DEF W
<1>5. /\ StepOf(t, W, pc, call, pc', call')
      /\ t \notin W /\ pc[t] \notin GetWait /\ pc[t] \notin PutWait
      /\ pc'[t] = "stored"
      /\ \A m : RunnableGetters(m)' = (RunnableGetters(m) \ {t})
                   \cup {u \in W : pc[u] \in GetWait /\ call[u].key = m}
      /\ \A m : RunnablePutters(m)' = (RunnablePutters(m) \ {t})
                   \cup {u \in W : pc[u] \in PutWait /\ call[u].key = m}
      /\ \A m : m # k => t \notin RunnableGetters(m) /\ t \notin RunnablePutters(m)
      /\ \A u \in Task \ {t} : pc'[u] \in PeekPC <=> pc[u] \in PeekPC
  BY <1>1, <1>4, SwitchStep
<1>6. Deques'
  <2>1. Sound(getters', GetWait, pc', call')
    BY <1>1, <1>5, SoundWoken DEF Deques, TypeOK, W
  <2>2. Sound(putters', PutWait, pc', call')
    BY <1>1, <1>4, <1>5, SoundUnchanged DEF Deques, TypeOK
  <2> QED BY <2>1, <2>2 DEF Deques
<1>7. PeekKeys'
  BY <1>5 DEF PeekKeys, CallStep, PeekPC
<1>8. Room'
  <2>1. ASSUME NEW m \in Key, putters'[m] # <<>>
        PROVE  MaxSize > 0 /\ MaxSize <= Len(queue'[m]) + Cardinality(RunnablePutters(m)')
    <3>1. RunnablePutters(m)' = RunnablePutters(m) \ {t}
      BY <1>4, <1>5
    <3>2. MaxSize > 0 /\ MaxSize <= Len(queue[m]) + Cardinality(RunnablePutters(m))
      BY <1>1, <2>1 DEF Room
    <3>3. CASE m = k
      <4>1. Len(queue'[k]) = Len(queue[k]) + 1
        BY <1>1, <1>2 DEF TypeOK
      <4>2. Cardinality(RunnablePutters(k) \ {t}) >= Cardinality(RunnablePutters(k)) - 1
        BY RunnableWithout
      <4>3. Cardinality(RunnablePutters(k) \ {t}) \in Nat
        BY RunnableWithout
      <4> QED BY <3>1, <3>2, <3>3, <4>1, <4>2, <4>3, <1>2, RunnableFinite, ChannelAssumption
    <3>4. CASE m # k
      <4>1. RunnablePutters(m)' = RunnablePutters(m)
        BY <1>5, <3>1, <3>4
      <4>2. queue'[m] = queue[m]
        BY <1>1, <3>4 DEF TypeOK
      <4> QED BY <3>2, <4>1, <4>2
    <3> QED BY <3>3, <3>4
  <2> QED BY <2>1 DEF Room
<1>9. Fed'
  <2>1. ASSUME NEW m \in Key \ BatchKey, getters'[m] # <<>>
        PROVE  Len(queue'[m]) <= Cardinality(RunnableGetters(m)')
    <3>1. CASE m = k
      <4>1. Len(getters[k]) > 1
        BY <1>1, <1>2, <2>1, <3>1, RemainingElements DEF TypeOK, Remaining
      <4>2. IsFiniteSet(W) /\ Cardinality(W) = 1
        BY <1>2, <4>1, WokenCardinality DEF W
      <4>3. PICK g : W = {g}
        BY <4>2, FS_Singleton
      <4>4. t \notin RunnableGetters(k) /\ g \notin RunnableGetters(k)
        BY <1>3, <4>3 DEF RunnableGetters, GetWait
      <4>5. RunnableGetters(k)' = RunnableGetters(k) \cup {g}
        BY <1>3, <1>5, <4>3, <4>4
      <4>6. Cardinality(RunnableGetters(k) \cup {g}) = Cardinality(RunnableGetters(k)) + 1
        BY <4>4, RunnableFinite, FS_AddElement
      <4>7. Len(queue'[k]) = Len(queue[k]) + 1
        BY <1>1, <1>2 DEF TypeOK
      <4>8. Len(queue[k]) <= Cardinality(RunnableGetters(k))
        BY <4>1, <2>1, <3>1 DEF Fed
      <4> QED BY <1>2, <3>1, <4>5, <4>6, <4>7, <4>8, RunnableFinite
    <3>2. CASE m # k
      <4>1. RunnableGetters(m)' = RunnableGetters(m)
        BY <1>3, <1>5, <3>2
      <4>2. queue'[m] = queue[m] /\ getters'[m] = getters[m]
        BY <1>1, <3>2 DEF TypeOK
      <4> QED BY <2>1, <4>1, <4>2 DEF Fed
    <3> QED BY <3>1, <3>2
  <2> QED BY <2>1 DEF Fed
<1> QED BY <1>6, <1>7, <1>8, <1>9

\* n items taken with get_nowait; the task is then done, or, on a key that
\* get_batch reads, sleeps among the getters.
LEMMA TakeKeeps ==
    ASSUME WakeInv, NEW t \in Task, NEW k \in Key, Runs(t, k), CallStep(t, k),
           pc[t] \in {"new", "get_woken", "peek_woken"},
           NEW n \in 0 .. Len(queue[k]), k \in BatchKey \/ n = 1,
           NEW s \in {"done", "batched", "peeking"}, TakeN(t, k, n, s),
           \/ s # "peeking" /\ getters' = getters
           \/ s = "peeking" /\ k \in BatchKey /\ getters' = [getters EXCEPT ![k] = Append(@, t)]
    PROVE  Deques' /\ PeekKeys' /\ Fed' /\ Room'
<1> DEFINE W == Woken(putters[k], n)
<1> USE DEF WakeInv, TypeInv
<1>1. /\ queue' = [queue EXCEPT ![k] = SubSeq(@, n + 1, Len(@))]
      /\ putters' = [putters EXCEPT ![k] = Remaining(@, n)]
      /\ Switch(t, s, W)
  BY DEF TakeN
<1>2. putters[k] \in Seq(Task) /\ queue[k] \in Seq(Item) /\ NoRepeats(putters[k]) /\ n \in Nat
  BY DEF TypeOK, Deques, Sound
<1>3. \A u \in W : u \in Task /\ pc[u] \in PutWait /\ call[u].key = k
  BY <1>2, WokenElements DEF Deques, Sound
<1>4. W \in SUBSET Task /\ \A u \in W : pc[u] \in GetWait \cup PutWait /\ pc[u] \notin GetWait
  BY <1>3 DEF GetWait, PutWait
<1>5. Len(queue'[k]) = Len(queue[k]) - n
  BY <1>1, <1>2 DEF TypeOK
<1> HIDE DEF W
<1>6. /\ StepOf(t, W, pc, call, pc', call')
      /\ t \notin W /\ pc[t] \notin GetWait /\ pc[t] \notin PutWait
      /\ pc'[t] = s
      /\ \A m : RunnableGetters(m)' = (RunnableGetters(m) \ {t})
                   \cup {u \in W : pc[u] \in GetWait /\ call[u].key = m}
      /\ \A m : RunnablePutters(m)' = (RunnablePutters(m) \ {t})
                   \cup {u \in W : pc[u] \in PutWait /\ call[u].key = m}
      /\ \A m : m # k => t \notin RunnableGetters(m) /\ t \notin RunnablePutters(m)
      /\ \A u \in Task \ {t} : pc'[u] \in PeekPC <=> pc[u] \in PeekPC
  BY <1>1, <1>4, SwitchStep
<1>7. Deques'
  <2>1. Sound(putters', PutWait, pc', call')
    BY <1>1, <1>2, <1>6, SoundWoken DEF Deques, TypeOK, W
  <2>2. Sound(getters', GetWait, pc', call')
    <3>1. CASE getters' = getters
      BY <1>4, <1>6, <3>1, SoundUnchanged DEF Deques, TypeOK
    <3>2. CASE s = "peeking" /\ getters' = [getters EXCEPT ![k] = Append(@, t)]
      <4>1. pc'[t] \in GetWait /\ call'[t].key = k
        BY <1>6, <3>2 DEF GetWait, CallStep
      <4> QED BY <1>4, <1>6, <3>2, <4>1, SoundAppend DEF Deques, TypeOK
    <3> QED BY <3>1, <3>2
  <2> QED BY <2>1, <2>2 DEF Deques
<1>8. PeekKeys'
  BY <1>6 DEF PeekKeys, CallStep, PeekPC
<1>9. Room'
  <2>1. ASSUME NEW m \in Key, putters'[m] # <<>>
        PROVE  MaxSize > 0 /\ MaxSize <= Len(queue'[m]) + Cardinality(RunnablePutters(m)')
    <3>1. CASE m = k
      <4>1. n < Len(putters[k])
        BY <1>1, <1>2, <2>1, <3>1 DEF TypeOK, Remaining
      <4>2. IsFiniteSet(W) /\ Cardinality(W) = n
        BY <1>2, <4>1, WokenCardinality DEF W
      <4>3. t \notin RunnablePutters(k) /\ RunnablePutters(k) \cap W = {}
        BY <1>3 DEF RunnablePutters, PutWait
      <4>4. RunnablePutters(k)' = RunnablePutters(k) \cup W
        BY <1>3, <1>6, <4>3
      <4>5. Cardinality(RunnablePutters(k) \cup W) = Cardinality(RunnablePutters(k)) + n
        <5>1. Cardinality(RunnablePutters(k) \cap W) = 0
          BY <4>3, FS_EmptySet
        <5>2. Cardinality(RunnablePutters(k) \cup W)
                 = Cardinality(RunnablePutters(k)) + Cardinality(W) - Cardinality(RunnablePutters(k) \cap W)
          BY <4>2, RunnableFinite, FS_Union
        <5> QED BY <1>2, <4>2, <5>1, <5>2, RunnableFinite
      <4>6. putters[k] # <<>>
        BY <4>1, <1>2
      <4> QED BY <1>2, <1>5, <3>1, <4>4, <4>5, <4>6, RunnableFinite, ChannelAssumption DEF Room
    <3>2. CASE m # k
      <4>1. RunnablePutters(m)' = RunnablePutters(m)
        BY <1>3, <1>6, <3>2
      <4>2. queue'[m] = queue[m] /\ putters'[m] = putters[m]
        BY <1>1, <3>2 DEF TypeOK
      <4> QED BY <2>1, <4>1, <4>2 DEF Room
    <3> QED BY <3>1, <3>2
  <2> QED BY <2>1 DEF Room
<1>10. Fed'
  <2>1. ASSUME NEW m \in Key \ BatchKey, getters'[m] # <<>>
        PROVE  Len(queue'[m]) <= Cardinality(RunnableGetters(m)')
    <3>1. RunnableGetters(m)' = RunnableGetters(m) \ {t} /\ getters'[m] = getters[m]
      BY <1>4, <1>6, <2>1 DEF TypeOK
    <3>2. Len(queue[m]) <= Cardinality(RunnableGetters(m))
      BY <2>1, <3>1 DEF Fed
    <3>3. CASE m = k
      <4>1. Len(queue'[k]) = Len(queue[k]) - 1
        BY <1>5, <2>1, <3>3
      <4>2. /\ Cardinality(RunnableGetters(k) \ {t}) >= Cardinality(RunnableGetters(k)) - 1
            /\ Cardinality(RunnableGetters(k) \ {t}) \in Nat
        BY RunnableWithout
      <4> QED BY <1>2, <3>1, <3>2, <3>3, <4>1, <4>2, RunnableFinite
    <3>4. CASE m # k
      <4>1. RunnableGetters(m)' = RunnableGetters(m)
        BY <1>6, <3>1, <3>4
      <4>2. queue'[m] = queue[m]
        BY <1>1, <3>4 DEF TypeOK
      <4> QED BY <3>2, <4>1, <4>2
    <3> QED BY <3>3, <3>4
  <2> QED BY <2>1 DEF Fed
<1> QED BY <1>7, <1>8, <1>9, <1>10

\* A step that wakes nobody: the task sleeps among the putters of a full
\* queue, among the getters of an empty one, or is told so.
LEMMA SleepKeeps ==
    ASSUME WakeInv, NEW t \in Task, NEW k \in Key, Runs(t, k), CallStep(t, k), queue' = queue,
           NEW s \in {"full", "empty", "putting", "getting"}, Switch(t, s, {}),
           \/ s \in {"full", "empty"} /\ pc[t] = "new" /\ UNCHANGED <<getters, putters>>
           \/ /\ s = "putting" /\ Full(k) /\ pc[t] \in {"new", "put_woken"} /\ getters' = getters
              /\ putters' = [putters EXCEPT ![k] = Append(@, t)]
           \/ /\ s = "getting" /\ queue[k] = <<>> /\ pc[t] \in {"new", "get_woken"} /\ putters' = putters
              /\ getters' = [getters EXCEPT ![k] = Append(@, t)]
    PROVE  Deques' /\ PeekKeys' /\ Fed' /\ Room'
<1> USE DEF WakeInv, TypeInv
<1>1. /\ StepOf(t, {}, pc, call, pc', call')
      /\ pc[t] \notin GetWait /\ pc[t] \notin PutWait
      /\ pc'[t] = s
      /\ \A m : RunnableGetters(m)' = RunnableGetters(m) \ {t}
      /\ \A m : RunnablePutters(m)' = RunnablePutters(m) \ {t}
      /\ \A m : m # k => t \notin RunnableGetters(m) /\ t \notin RunnablePutters(m)
      /\ \A u \in Task \ {t} : pc'[u] \in PeekPC <=> pc[u] \in PeekPC
  <2>1. {} \in SUBSET Task /\ \A u \in {} : pc[u] \in GetWait \cup PutWait
    OBVIOUS
  <2> QED BY <2>1, SwitchStep
<1>2. Deques'
  <2> DEFINE W == {}
  <2>w. /\ StepOf(t, W, pc, call, pc', call') /\ pc[t] \notin GetWait /\ pc[t] \notin PutWait
        /\ \A u \in W : pc[u] \notin GetWait /\ pc[u] \notin PutWait
    BY <1>1
  <2> HIDE DEF W
  <2>1. Sound(getters, GetWait, pc, call) /\ Sound(putters, PutWait, pc, call)
    BY DEF Deques
  <2>2. getters \in [Key -> Seq(Task)] /\ putters \in [Key -> Seq(Task)]
    BY DEF TypeOK
  <2>3. Sound(getters, GetWait, pc', call') /\ Sound(putters, PutWait, pc', call')
    <3>1. Sound(getters, GetWait, pc', call')
      BY <2>1, <2>2, <2>w, SoundUnchanged
    <3>2. Sound(putters, PutWait, pc', call')
      BY <2>1, <2>2, <2>w, SoundUnchanged
    <3> QED BY <3>1, <3>2
  <2>4. CASE getters' = getters /\ putters' = putters
    BY <2>3, <2>4 DEF Deques
  <2>5. CASE s = "putting" /\ getters' = getters /\ putters' = [putters EXCEPT ![k] = Append(@, t)]
    <3>1. pc'[t] \in PutWait /\ call'[t].key = k
      BY <1>1, <2>5 DEF PutWait, CallStep
    <3>2. Sound([putters EXCEPT ![k] = Append(@, t)], PutWait, pc', call')
      BY <2>1, <2>2, <2>w, <3>1, SoundAppend
    <3> QED BY <2>3, <2>5, <3>2 DEF Deques
  <2>6. CASE s = "getting" /\ putters' = putters /\ getters' = [getters EXCEPT ![k] = Append(@, t)]
    <3>1. pc'[t] \in GetWait /\ call'[t].key = k
      BY <1>1, <2>6 DEF GetWait, CallStep
    <3>2. Sound([getters EXCEPT ![k] = Append(@, t)], GetWait, pc', call')
      BY <2>1, <2>2, <2>w, <3>1, SoundAppend
    <3> QED BY <2>3, <2>6, <3>2 DEF Deques
  <2> QED BY <2>4, <2>5, <2>6
<1>3. PeekKeys'
  BY <1>1 DEF PeekKeys, CallStep, PeekPC
<1>4. Room'
  <2>1. ASSUME NEW m \in Key, putters'[m] # <<>>
        PROVE  MaxSize > 0 /\ MaxSize <= Len(queue[m]) + Cardinality(RunnablePutters(m)')
    <3>1. Cardinality(RunnablePutters(m)') \in Nat
      <4>1. RunnablePutters(m)' = RunnablePutters(m) \ {t}
        BY <1>1
      <4> QED BY <4>1, RunnableWithout
    <3>4. Len(queue[m]) \in Nat /\ MaxSize \in Nat
      BY ChannelAssumption DEF TypeOK
    <3>2. CASE s = "putting" /\ m = k
      BY <3>1, <3>4, <3>2 DEF Full
    <3>3. CASE ~(s = "putting" /\ m = k)
      <4>1. putters'[m] = putters[m] /\ t \notin RunnablePutters(m)
        BY <1>1, <3>3 DEF TypeOK, RunnablePutters
      <4>2. RunnablePutters(m)' = RunnablePutters(m)
        BY <1>1, <4>1
      <4> QED BY <2>1, <4>1, <4>2 DEF Room
    <3> QED BY <3>2, <3>3
  <2> QED BY <2>1 DEF Room
<1>5. Fed'
  <2>1. ASSUME NEW m \in Key \ BatchKey, getters'[m] # <<>>
        PROVE  Len(queue[m]) <= Cardinality(RunnableGetters(m)')
    <3>1. Cardinality(RunnableGetters(m)') \in Nat
      BY <1>1, RunnableWithout
    <3>2. CASE s = "getting" /\ m = k
      BY <3>1, <3>2
    <3>3. CASE ~(s = "getting" /\ m = k)
      <4>1. getters'[m] = getters[m] /\ t \notin RunnableGetters(m)
        BY <1>1, <3>3 DEF TypeOK, RunnableGetters
      <4>2. RunnableGetters(m)' = RunnableGetters(m)
        BY <1>1, <4>1
      <4> QED BY <2>1, <4>1, <4>2 DEF Fed
    <3> QED BY <3>2, <3>3
  <2> QED BY <2>1 DEF Fed
<1> QED BY <1>2, <1>3, <1>4, <1>5

-----------------------------------------------------------------------------
\* The actions.

LEMMA CallStepOf ==
    ASSUME TypeOK, NEW t \in Task, NEW k \in Key, NEW items, NEW target,
           call' = [call EXCEPT ![t] = Locals(k, items, target)]
    PROVE  CallStep(t, k)
BY DEF TypeOK, CallStep, Locals

LEMMA PutBodyKeeps ==
    ASSUME WakeInv, NEW t \in Task, NEW k \in Key, NEW i, Runs(t, k), CallStep(t, k),
           pc[t] \in {"new", "put_woken"}, PutBody(t, k, i)
    PROVE  Deques' /\ PeekKeys' /\ Fed' /\ Room'
<1>1. CASE Full(k)
  <2>1. /\ putters' = [putters EXCEPT ![k] = Append(@, t)]
        /\ Switch(t, "putting", {}) /\ queue' = queue /\ getters' = getters
    BY <1>1 DEF PutBody
  <2> QED BY <1>1, <2>1, SleepKeeps
<1>2. CASE ~Full(k)
  BY <1>2, StoreKeeps DEF PutBody
<1> QED BY <1>1, <1>2

LEMMA PutKeeps ==
    ASSUME WakeInv, NEW t \in Task, NEW k \in Key, NEW i \in Item,
           Put(t, k, i) \/ PutNowait(t, k, i)
    PROVE  Deques' /\ PeekKeys' /\ Fed' /\ Room'
<1>1. CallStep(t, k) /\ Runs(t, k) /\ pc[t] = "new"
  BY CallStepOf DEF Put, PutNowait, WakeInv, TypeInv, Runs
<1>2. CASE Put(t, k, i)
  BY <1>1, <1>2, PutBodyKeeps DEF Put
<1>3. CASE PutNowait(t, k, i) /\ Full(k)
  <2>1. Switch(t, "full", {}) /\ UNCHANGED <<queue, getters, putters>>
    BY <1>3 DEF PutNowait
  <2> QED BY <1>1, <2>1, SleepKeeps
<1>4. CASE PutNowait(t, k, i) /\ ~Full(k)
  BY <1>1, <1>4, StoreKeeps DEF PutNowait
<1> QED BY <1>2, <1>3, <1>4

LEMMA GetBodyKeeps ==
    ASSUME WakeInv, NEW t \in Task, NEW k \in Key, Runs(t, k), pc[t] \in {"new", "get_woken"},
           GetBody(t, k)
    PROVE  Deques' /\ PeekKeys' /\ Fed' /\ Room'
<1>1. TypeOK
  BY DEF WakeInv, TypeInv
<1>2. CASE queue[k] = <<>>
  <2>1. /\ getters' = [getters EXCEPT ![k] = Append(@, t)]
        /\ Switch(t, "getting", {})
        /\ call' = [call EXCEPT ![t] = Locals(k, <<>>, 0)]
        /\ queue' = queue /\ putters' = putters
    BY <1>2 DEF GetBody
  <2>2. CallStep(t, k)
    BY <1>1, <2>1, CallStepOf
  <2> QED BY <1>2, <2>1, <2>2, SleepKeeps
<1>3. CASE queue[k] # <<>>
  <2>1. /\ call' = [call EXCEPT ![t] = Locals(k, <<Head(queue[k])>>, 0)]
        /\ TakeN(t, k, 1, "done") /\ getters' = getters
    BY <1>3 DEF GetBody
  <2>2. CallStep(t, k)
    BY <1>1, <2>1, CallStepOf
  <2>3. 1 \in 0 .. Len(queue[k])
    BY <1>1, <1>3 DEF TypeOK
  <2> QED BY <2>1, <2>2, <2>3, TakeKeeps
<1> QED BY <1>2, <1>3

LEMMA GetNowaitKeeps ==
    ASSUME WakeInv, NEW t \in Task, NEW k \in Key, GetNowait(t, k)
    PROVE  Deques' /\ PeekKeys' /\ Fed' /\ Room'
<1>1. TypeOK /\ Runs(t, k) /\ pc[t] = "new"
  BY DEF WakeInv, TypeInv, Runs, GetNowait
<1>2. CASE queue[k] = <<>>
  <2>1. /\ Switch(t, "empty", {})
        /\ call' = [call EXCEPT ![t] = Locals(k, <<>>, 0)]
        /\ UNCHANGED <<queue, getters, putters>>
    BY <1>2 DEF GetNowait
  <2>2. CallStep(t, k)
    BY <1>1, <2>1, CallStepOf
  <2> QED BY <1>1, <2>1, <2>2, SleepKeeps
<1>3. CASE queue[k] # <<>>
  BY <1>1, <1>3, GetBodyKeeps DEF GetNowait
<1> QED BY <1>2, <1>3

LEMMA BatchBodyKeeps ==
    ASSUME WakeInv, NEW t \in Task, NEW k \in BatchKey, Runs(t, k),
           pc[t] \in {"new", "peek_woken"}, NEW batch, NEW target, BatchBody(t, k, batch, target)
    PROVE  Deques' /\ PeekKeys' /\ Fed' /\ Room'
<1>1. TypeOK /\ k \in Key
  BY ChannelAssumption DEF WakeInv, TypeInv
<1>2. PICK n \in 0 .. Len(queue[k]), awaits \in BOOLEAN :
        /\ call' = [call EXCEPT ![t] = Locals(k, Taking(batch, queue[k], n), target)]
        /\ getters' = [getters EXCEPT ![k] = IF awaits THEN Append(@, t) ELSE @]
        /\ TakeN(t, k, n, IF awaits THEN "peeking" ELSE "batched")
  BY DEF BatchBody
<1>3. CallStep(t, k)
  BY <1>1, <1>2, CallStepOf
<1>4. CASE awaits
  <2>1. getters' = [getters EXCEPT ![k] = Append(@, t)] /\ TakeN(t, k, n, "peeking")
    BY <1>2, <1>4
  <2> QED BY <1>1, <1>3, <2>1, TakeKeeps
<1>5. CASE ~awaits
  <2>1. getters' = getters /\ TakeN(t, k, n, "batched")
    BY <1>1, <1>2, <1>5 DEF TypeOK
  <2> QED BY <1>1, <1>3, <2>1, TakeKeeps
<1> QED BY <1>4, <1>5

LEMMA WakeStep == ASSUME WakeInv, [Next]_vars PROVE WakeInv'
<1>1. TypeInv'
  BY TypeStep DEF WakeInv
<1>2. ASSUME NEW t \in Task, Arrive(t) PROVE Deques' /\ PeekKeys' /\ Fed' /\ Room'
  <2>1. PICK k \in Key :
          \/ \E i \in Item : Put(t, k, i) \/ PutNowait(t, k, i)
          \/ Get(t, k)
          \/ GetNowait(t, k)
          \/ k \in BatchKey /\ \E target \in Target : GetBatch(t, k, target)
    BY <1>2 DEF Arrive
  <2>2. CASE Get(t, k)
    BY <2>2, GetBodyKeeps DEF Get, Runs
  <2>3. ASSUME k \in BatchKey, NEW target \in Target, GetBatch(t, k, target)
        PROVE  Deques' /\ PeekKeys' /\ Fed' /\ Room'
    BY <2>3, BatchBodyKeeps DEF GetBatch, Runs
  <2> QED BY <2>1, <2>2, <2>3, PutKeeps, GetNowaitKeeps
<1>3. ASSUME NEW t \in Task, Resume(t) PROVE Deques' /\ PeekKeys' /\ Fed' /\ Room'
  <2> DEFINE k == call[t].key
  <2>1. k \in Key
    BY DEF WakeInv, TypeInv, TypeOK, Call
  <2>2. CASE PutResume(t)
    <3>1. CallStep(t, k) /\ Runs(t, k) /\ pc[t] = "put_woken" /\ PutBody(t, k, call[t].items[1])
      BY <2>2 DEF PutResume, CallStep, Runs
    <3> HIDE DEF k
    <3> QED BY <2>1, <3>1, PutBodyKeeps
  <2>3. CASE GetResume(t)
    <3>1. Runs(t, k) /\ pc[t] = "get_woken" /\ GetBody(t, k)
      BY <2>3 DEF GetResume, Runs
    <3> HIDE DEF k
    <3> QED BY <2>1, <3>1, GetBodyKeeps
  <2>4. CASE GetBatchResume(t)
    <3>1. /\ Runs(t, k) /\ pc[t] = "peek_woken" /\ k \in BatchKey
          /\ BatchBody(t, k, call[t].items, call[t].target)
      BY <2>4 DEF GetBatchResume, Runs, WakeInv, PeekKeys, PeekPC
    <3> HIDE DEF k
    <3> QED BY <2>1, <3>1, BatchBodyKeeps
  <2> QED BY <1>3, <2>2, <2>3, <2>4 DEF Resume
<1>4. CASE UNCHANGED vars
  <2>1. UNCHANGED <<queue, getters, putters, pc, call>>
    BY <1>4 DEF vars
  <2>2. \A m : UNCHANGED <<RunnableGetters(m), RunnablePutters(m)>>
    BY <2>1 DEF RunnableGetters, RunnablePutters
  <2> QED BY <1>1, <2>1, <2>2 DEF WakeInv, Deques, Sound, PeekKeys, Fed, Room
<1> QED BY <1>1, <1>2, <1>3, <1>4 DEF Next, WakeInv

\* In every order in which the event loop runs the calls, the woken calls that
\* have still to run are at least as many as the items (for gets) or the free
\* places (for puts) that calls sleep beside.
THEOREM WakeInvariance == Spec => []WakeInv
<1>1. Init => WakeInv
  <2> SUFFICES ASSUME Init PROVE WakeInv
    OBVIOUS
  <2>1. TypeInv
    BY TypeInit
  <2>2. Deques
    BY DEF Init, Deques, Sound, NoRepeats
  <2>3. PeekKeys /\ Fed /\ Room
    BY DEF Init, PeekKeys, PeekPC, Fed, Room
  <2> QED BY <2>1, <2>2, <2>3 DEF WakeInv
<1>2. WakeInv /\ [Next]_vars => WakeInv'
  BY WakeStep
<1> QED BY <1>1, <1>2, PTL DEF Spec

\* No get of a key that only get reads sleeps beside an item while every woken
\* get has run, for any number of keys, calls and payloads (PeekQueue.get).
THEOREM NoIdleGetterHolds == Spec => []NoIdleGetter
<1>1. WakeInv => NoIdleGetter
  <2> SUFFICES ASSUME WakeInv, NEW k \in Key \ BatchKey, queue[k] # <<>>, getters[k] # <<>>
               PROVE  RunnableGetters(k) # {}
    BY DEF NoIdleGetter
  <2>1. queue[k] \in Seq(Item) /\ Len(queue[k]) <= Cardinality(RunnableGetters(k))
    BY DEF WakeInv, TypeInv, TypeOK, Fed
  <2>2. Len(queue[k]) \in Nat \ {0}
    BY <2>1
  <2>3. Cardinality(RunnableGetters(k)) # 0
    BY <2>1, <2>2
  <2> QED BY <2>3, FS_EmptySet
<1> QED BY <1>1, WakeInvariance, PTL

\* No put sleeps beside room while every woken put has run, for any capacity
\* and any number of calls: every item that leaves wakes a put (PeekQueue.put).
THEOREM NoIdlePutterHolds == Spec => []NoIdlePutter
<1>1. WakeInv => NoIdlePutter
  <2> SUFFICES ASSUME WakeInv, NEW k \in Key, ~Full(k), putters[k] # <<>>
               PROVE  RunnablePutters(k) # {}
    BY DEF NoIdlePutter
  <2>1. /\ Len(queue[k]) \in Nat /\ MaxSize \in Nat /\ MaxSize > 0
        /\ MaxSize <= Len(queue[k]) + Cardinality(RunnablePutters(k))
    BY ChannelAssumption DEF WakeInv, TypeInv, TypeOK, Room
  <2>2. Len(queue[k]) < MaxSize
    BY <2>1 DEF Full
  <2>3. Cardinality(RunnablePutters(k)) # 0
    BY <2>1, <2>2
  <2> QED BY <2>3, FS_EmptySet
<1> QED BY <1>1, WakeInvariance, PTL
-----------------------------------------------------------------------------
(***************************************************************************)
(* The channel worker implements the bounded first-in first-out queue of   *)
(* FifoChannel, for any keys, calls, payloads, weights and any maxsize.    *)
(*                                                                         *)
(* An action either moves items, and is then a step of FifoChannel, or it  *)
(* only puts the call to sleep or ends it with an error, and is then a     *)
(* stutter.  What the mapping shows of the other calls is left alone by a  *)
(* wake-up.  The step rests on two facts beside the types: the payloads of *)
(* the puts differ (Once), so an item enters once, and a get that waits    *)
(* has obtained nothing yet (Empty).                                       *)
(***************************************************************************)

\* What the mapping shows: the calls that obtain items, and what they have.
GetStates == GetPC \cup PeekPC \cup {"done", "batched"}
Obtained == [t \in Task |-> IF pc[t] \in GetStates THEN call[t].items ELSE <<>>]
ItemsEntered == {call[t].items[1] : t \in {u \in Task : pc[u] = "stored"}}

Once ==
    \A t \in Task : pc[t] \in PutState =>
        /\ call[t].items[1] \notin fresh
        /\ \A u \in Task \ {t} : pc[u] \in PutState => call[t].items[1] # call[u].items[1]

Empty == \A t \in Task : pc[t] \in GetPC => call[t].items = <<>>

RefInv == TypeInv /\ Once /\ Empty

-----------------------------------------------------------------------------
\* A wake-up changes neither who has put nor who obtains.
LEMMA SwitchKinds ==
    ASSUME NEW t \in Task, NEW s \in PC, NEW W, pc \in [Task -> PC], Switch(t, s, W)
    PROVE  /\ pc'[t] = s
           /\ \A u \in Task \ {t} : /\ pc'[u] \in PutState <=> pc[u] \in PutState
                                    /\ pc'[u] \in GetPC <=> pc[u] \in GetPC
                                    /\ pc'[u] \in GetStates <=> pc[u] \in GetStates
                                    /\ pc'[u] = "stored" <=> pc[u] = "stored"
BY DEF Switch, PutState, GetStates, WokenPC, PC, PutPC, GetPC, PeekPC

\* Once and Empty are kept by a step in which only t moves, a put with its payload or a get that
\* has nothing, or that ends.
LEMMA FactsKept ==
    ASSUME RefInv, NEW t \in Task, NEW s \in PC, NEW W, Switch(t, s, W),
           NEW k, NEW items, NEW target,
           \/ call' = [call EXCEPT ![t] = Locals(k, items, target)]
           \/ call' = call /\ items = call[t].items,
           \/ /\ s \in PutState
              /\ \/ fresh' = fresh /\ pc[t] \in PutState /\ items = call[t].items
                 \/ \E i \in fresh : items = <<i>> /\ fresh' = fresh \ {i}
           \/ s \notin PutState /\ fresh' = fresh,
           s \in GetPC => items = <<>>
    PROVE  Once' /\ Empty'
<1>1. /\ pc \in [Task -> PC] /\ call \in [Task -> Call] /\ fresh \subseteq Item
      /\ Once /\ Empty /\ Carries
  BY DEF RefInv, TypeInv, TypeOK
<1>2. /\ pc'[t] = s
      /\ \A u \in Task \ {t} : /\ pc'[u] \in PutState <=> pc[u] \in PutState
                               /\ pc'[u] \in GetPC <=> pc[u] \in GetPC
  BY <1>1, SwitchKinds
<1>3. call'[t].items = items /\ \A u \in Task \ {t} : call'[u] = call[u]
  BY <1>1 DEF Locals
<1>4. Empty'
  BY <1>1, <1>2, <1>3 DEF Empty
<1>5. fresh' \subseteq fresh
  OBVIOUS
<1>6. ASSUME s \in PutState
      PROVE  /\ items[1] \notin fresh'
             /\ \A u \in Task \ {t} : pc[u] \in PutState => items[1] # call[u].items[1]
  <2>1. CASE pc[t] \in PutState /\ fresh' = fresh /\ items = call[t].items
    BY <1>1, <2>1 DEF Once
  <2>2. CASE \E i \in fresh : items = <<i>> /\ fresh' = fresh \ {i}
    BY <1>1, <2>2 DEF Once
  <2> QED BY <1>6, <2>1, <2>2
<1>7. ASSUME NEW u \in Task, pc'[u] \in PutState
      PROVE  call'[u].items[1] \notin fresh'
  <2>1. CASE u = t
    BY <1>2, <1>3, <1>6, <1>7, <2>1
  <2>2. CASE u # t
    BY <1>1, <1>2, <1>3, <1>5, <1>7, <2>2 DEF Once
  <2> QED BY <2>1, <2>2
<1>8. ASSUME NEW u \in Task, NEW v \in Task \ {u}, pc'[u] \in PutState, pc'[v] \in PutState
      PROVE  call'[u].items[1] # call'[v].items[1]
  <2>1. CASE u = t
    BY <1>2, <1>3, <1>6, <1>8, <2>1
  <2>2. CASE v = t
    BY <1>2, <1>3, <1>6, <1>8, <2>2
  <2>3. CASE u # t /\ v # t
    BY <1>1, <1>2, <1>3, <1>8, <2>3 DEF Once
  <2> QED BY <2>1, <2>2, <2>3
<1> QED BY <1>4, <1>7, <1>8 DEF Once

-----------------------------------------------------------------------------
\* What a step of t shows of the other calls.
LEMMA OthersShown ==
    ASSUME TypeOK, NEW t \in Task, NEW s \in PC, NEW W, Switch(t, s, W),
           \A u \in Task \ {t} : call'[u] = call[u]
    PROVE  /\ Obtained' = [Obtained EXCEPT ![t] = IF s \in GetStates THEN call'[t].items ELSE <<>>]
           /\ s = "stored" /\ pc[t] # "stored" => ItemsEntered' = ItemsEntered \cup {call'[t].items[1]}
           /\ s # "stored" /\ pc[t] # "stored" => ItemsEntered' = ItemsEntered
<1>1. /\ pc'[t] = s
      /\ \A u \in Task \ {t} : /\ pc'[u] \in GetStates <=> pc[u] \in GetStates
                               /\ pc'[u] = "stored" <=> pc[u] = "stored"
  BY SwitchKinds DEF TypeOK
<1>2. Obtained' = [Obtained EXCEPT ![t] = IF s \in GetStates THEN call'[t].items ELSE <<>>]
  BY <1>1 DEF Obtained
<1>3. ASSUME pc[t] # "stored"
      PROVE  {u \in Task : pc'[u] = "stored"}
             = {u \in Task : pc[u] = "stored"} \cup (IF s = "stored" THEN {t} ELSE {})
  BY <1>1, <1>3
<1>4. ASSUME pc[t] # "stored" PROVE \A u \in {v \in Task : pc[v] = "stored"} : call'[u] = call[u]
  BY <1>4
<1>5. ASSUME s = "stored", pc[t] # "stored" PROVE ItemsEntered' = ItemsEntered \cup {call'[t].items[1]}
  BY <1>3, <1>4, <1>5 DEF ItemsEntered
<1>6. ASSUME s # "stored", pc[t] # "stored" PROVE ItemsEntered' = ItemsEntered
  BY <1>3, <1>4, <1>6 DEF ItemsEntered
<1> QED BY <1>2, <1>5, <1>6

Shown == <<queue, Obtained, ItemsEntered>>

\* The step of FifoChannel, through the mapping.
Enters(k, i) ==
    /\ i \notin ItemsEntered /\ ~Full(k)
    /\ queue' = [queue EXCEPT ![k] = Append(@, i)]
    /\ ItemsEntered' = ItemsEntered \cup {i} /\ Obtained' = Obtained
Leaves(t, k, n) ==
    /\ Obtained' = [Obtained EXCEPT ![t] = @ \o SubSeq(queue[k], 1, n)]
    /\ queue' = [queue EXCEPT ![k] = SubSeq(@, n + 1, Len(@))]
    /\ ItemsEntered' = ItemsEntered
FifoStep ==
    \/ \E k \in Key : \/ \E i \in Item : Enters(k, i)
                      \/ \E t \in Task : \E n \in 1 .. Len(queue[k]) : Leaves(t, k, n)
    \/ UNCHANGED Shown

LEMMA StoreStep ==
    ASSUME RefInv, NEW t \in Task, NEW k \in Key, NEW i \in Item, Append1(t, k, i), ~Full(k),
           pc[t] \notin GetStates, pc[t] # "stored",
           \A u \in Task \ {t} : call'[u] = call[u], call'[t].items = <<i>>, i \notin ItemsEntered
    PROVE  FifoStep
<1>1. /\ queue' = [queue EXCEPT ![k] = Append(@, i)]
      /\ Switch(t, "stored", Woken(getters[k], 1)) /\ TypeOK
      /\ "stored" \in PC /\ "stored" \notin GetStates
  BY DEF Append1, RefInv, TypeInv, PC, GetStates, GetPC, PeekPC
<1>2. Obtained' = [Obtained EXCEPT ![t] = <<>>] /\ ItemsEntered' = ItemsEntered \cup {i}
  BY <1>1, OthersShown
<1>3. Obtained' = Obtained
  BY <1>2 DEF Obtained
<1> QED BY <1>1, <1>2, <1>3 DEF FifoStep, Enters

LEMMA StutterStep ==
    ASSUME RefInv, NEW t \in Task, NEW s \in PC, NEW W, Switch(t, s, W), queue' = queue,
           pc[t] # "stored", s # "stored", \A u \in Task \ {t} : call'[u] = call[u],
           Obtained[t] = IF s \in GetStates THEN call'[t].items ELSE <<>>
    PROVE  FifoStep
<1>1. /\ Obtained' = [Obtained EXCEPT ![t] = IF s \in GetStates THEN call'[t].items ELSE <<>>]
      /\ ItemsEntered' = ItemsEntered
  BY OthersShown DEF RefInv, TypeInv
<1>2. Obtained' = Obtained
  BY <1>1 DEF Obtained
<1> QED BY <1>1, <1>2 DEF FifoStep, Shown

LEMMA TakeStep ==
    ASSUME RefInv, NEW t \in Task, NEW k \in Key, NEW n \in 0 .. Len(queue[k]),
           NEW s \in {"done", "batched", "peeking"}, TakeN(t, k, n, s),
           pc[t] # "stored", \A u \in Task \ {t} : call'[u] = call[u],
           call'[t].items = Obtained[t] \o SubSeq(queue[k], 1, n), Obtained[t] \in Seq(Item)
    PROVE  FifoStep
<1>1. /\ queue' = [queue EXCEPT ![k] = SubSeq(@, n + 1, Len(@))]
      /\ Switch(t, s, Woken(putters[k], n)) /\ TypeOK
      /\ s \in PC /\ s \in GetStates /\ s # "stored" /\ queue \in [Key -> Seq(Item)]
  BY DEF TakeN, RefInv, TypeInv, TypeOK, PC, GetStates, GetPC, PeekPC
<1>2. /\ Obtained' = [Obtained EXCEPT ![t] = Obtained[t] \o SubSeq(queue[k], 1, n)]
      /\ ItemsEntered' = ItemsEntered
  BY <1>1, OthersShown
<1>3. CASE n = 0
  <2>1. queue[k] \in Seq(Item)
    BY <1>1
  <2>2. SubSeq(queue[k], 1, Len(queue[k])) = queue[k] /\ SubSeq(queue[k], 1, 0) = <<>>
    BY <2>1
  <2>3. queue' = queue
    BY <1>1, <1>3, <2>2
  <2>4. Obtained[t] \o <<>> = Obtained[t]
    OBVIOUS
  <2>5. Obtained' = [Obtained EXCEPT ![t] = Obtained[t]]
    BY <1>2, <1>3, <2>2, <2>4
  <2>6. Obtained = [u \in Task |-> Obtained[u]]
    BY DEF Obtained
  <2>7. Obtained' = Obtained
    BY <2>5, <2>6
  <2> QED BY <1>2, <2>3, <2>7 DEF FifoStep, Shown
<1>4. CASE n # 0
  <2>1. n \in 1 .. Len(queue[k])
    BY <1>1, <1>4
  <2> QED BY <1>1, <1>2, <2>1 DEF FifoStep, Leaves
<1> QED BY <1>3, <1>4
-----------------------------------------------------------------------------
\* Each action keeps the facts and is a step of FifoChannel or a stutter.

\* What a call t shows before it moves items: nothing, or what a get_batch has taken.
LEMMA ShownBefore ==
    ASSUME RefInv, NEW t \in Task
    PROVE  /\ pc[t] \in {"new", "put_woken", "get_woken"} => Obtained[t] = <<>> /\ pc[t] # "stored"
           /\ pc[t] = "peek_woken" => Obtained[t] = call[t].items /\ pc[t] # "stored"
           /\ pc[t] \in {"new", "put_woken"} => pc[t] \notin GetStates
           /\ pc[t] = "put_woken" => pc[t] \in PutState
           /\ pc[t] = "new" => pc[t] \notin PutState
BY DEF RefInv, Empty, Obtained, GetStates, GetPC, PeekPC, PutPC, PutState

\* A payload that no put of PutState carries but t has not entered.
LEMMA NotEntered ==
    ASSUME RefInv, NEW t \in Task, NEW i,
           i \in fresh \/ (pc[t] \in PutState /\ pc[t] # "stored" /\ i = call[t].items[1])
    PROVE  i \notin ItemsEntered
<1> SUFFICES ASSUME NEW u \in Task, pc[u] = "stored", i = call[u].items[1] PROVE FALSE
  BY DEF ItemsEntered
<1>1. pc[u] \in PutState
  BY DEF PutState
<1> QED BY <1>1 DEF RefInv, Once

LEMMA PutRefines ==
    ASSUME RefInv, NEW t \in Task, NEW k \in Key, NEW i \in Item, Put(t, k, i) \/ PutNowait(t, k, i)
    PROVE  Once' /\ Empty' /\ FifoStep
<1>1. /\ pc[t] = "new" /\ i \in fresh /\ fresh' = fresh \ {i}
      /\ call' = [call EXCEPT ![t] = Locals(k, <<i>>, 0)]
      /\ TypeOK /\ call \in [Task -> Call]
  BY DEF Put, PutNowait, RefInv, TypeInv, TypeOK
<1>2. call'[t].items = <<i>> /\ \A u \in Task \ {t} : call'[u] = call[u]
  BY <1>1 DEF Locals
<1>3. CASE Append1(t, k, i) /\ ~Full(k)
  <2>1. Switch(t, "stored", Woken(getters[k], 1)) /\ "stored" \in PC /\ "stored" \in PutState
        /\ "stored" \notin GetPC
    BY <1>3 DEF Append1, PC, PutState, GetPC
  <2>2. Once' /\ Empty'
    BY <1>1, <2>1, FactsKept
  <2> QED BY <1>1, <1>2, <1>3, <2>2, ShownBefore, NotEntered, StoreStep
<1>4. ASSUME NEW s \in {"putting", "full"}, Switch(t, s, {}), queue' = queue
      PROVE  Once' /\ Empty' /\ FifoStep
  <2>1. s \in PC /\ s \in PutState /\ s \notin GetPC /\ s \notin GetStates /\ s # "stored"
    BY DEF PC, PutState, PutPC, GetPC, PeekPC, GetStates
  <2>2. Once' /\ Empty'
    BY <1>1, <1>4, <2>1, FactsKept
  <2> QED BY <1>1, <1>2, <1>4, <2>1, <2>2, ShownBefore, StutterStep
<1> QED BY <1>3, <1>4 DEF Put, PutNowait, PutBody

LEMMA PutResumeRefines ==
    ASSUME RefInv, NEW t \in Task, PutResume(t)
    PROVE  Once' /\ Empty' /\ FifoStep
<1>1. /\ pc[t] = "put_woken" /\ call' = call /\ fresh' = fresh
      /\ pc[t] \in PutState /\ TypeOK /\ call[t].key \in Key
  BY DEF PutResume, PutState, PutPC, RefInv, TypeInv, TypeOK, Call
<1>2. PICK i \in Item : call[t].items = <<i>>
  BY <1>1 DEF RefInv, TypeInv, Carries
<1>3. i = call[t].items[1] /\ PutBody(t, call[t].key, i)
  BY <1>2 DEF PutResume
<1>4. CASE Append1(t, call[t].key, i) /\ ~Full(call[t].key)
  <2>1. Switch(t, "stored", Woken(getters[call[t].key], 1)) /\ "stored" \in PC
        /\ "stored" \in PutState /\ "stored" \notin GetPC
    BY <1>4 DEF Append1, PC, PutState, GetPC
  <2>2. Once' /\ Empty'
    BY <1>1, <2>1, FactsKept
  <2> QED BY <1>1, <1>2, <1>3, <1>4, <2>2, ShownBefore, NotEntered, StoreStep
<1>5. CASE Switch(t, "putting", {}) /\ queue' = queue
  <2>1. "putting" \in PC /\ "putting" \in PutState /\ "putting" \notin GetPC /\ "putting" \notin GetStates
    BY DEF PC, PutState, PutPC, GetPC, PeekPC, GetStates
  <2>2. Once' /\ Empty'
    BY <1>1, <1>5, <2>1, FactsKept
  <2> QED BY <1>1, <1>5, <2>1, <2>2, ShownBefore, StutterStep
<1> QED BY <1>3, <1>4, <1>5 DEF PutBody

\* What a get takes.
LEMMA HeadAlone ==
    ASSUME NEW q \in Seq(Item), q # <<>>
    PROVE  1 \in 0 .. Len(q) /\ <<>> \o SubSeq(q, 1, 1) = <<Head(q)>>
<1>1. Len(q) \in Nat /\ Len(q) > 0 /\ Head(q) = q[1] /\ q[1] \in Item
  OBVIOUS
<1>2. SubSeq(q, 1, 1) \in Seq(Item) /\ Len(SubSeq(q, 1, 1)) = 1 /\ SubSeq(q, 1, 1)[1] = q[1]
  BY <1>1
<1>3. <<q[1]>> \in Seq(Item) /\ Len(<<q[1]>>) = 1 /\ <<q[1]>>[1] = q[1]
  BY <1>1
<1>4. \A i \in 1 .. 1 : i = 1
  OBVIOUS
<1>5. SubSeq(q, 1, 1) = <<q[1]>>
  BY <1>2, <1>3, <1>4, SeqEqual
<1>6. <<>> \o SubSeq(q, 1, 1) = SubSeq(q, 1, 1)
  BY <1>2
<1> QED BY <1>1, <1>5, <1>6

LEMMA GetBodyRefines ==
    ASSUME RefInv, NEW t \in Task, NEW k \in Key, pc[t] \in {"new", "get_woken"}, GetBody(t, k),
           fresh' = fresh
    PROVE  Once' /\ Empty' /\ FifoStep
<1>1. /\ Obtained[t] = <<>> /\ pc[t] # "stored" /\ TypeOK
      /\ call \in [Task -> Call] /\ queue[k] \in Seq(Item)
  BY ShownBefore DEF RefInv, TypeInv, TypeOK
<1>2. CASE queue[k] = <<>>
  <2>1. /\ Switch(t, "getting", {}) /\ queue' = queue
        /\ call' = [call EXCEPT ![t] = Locals(k, <<>>, 0)]
    BY <1>2 DEF GetBody
  <2>2. "getting" \in PC /\ "getting" \notin PutState /\ "getting" \in GetStates
    BY DEF PC, PutState, PutPC, GetPC, GetStates
  <2>3. call'[t].items = <<>> /\ \A u \in Task \ {t} : call'[u] = call[u]
    BY <1>1, <2>1 DEF Locals
  <2>4. Once' /\ Empty'
    BY <2>1, <2>2, FactsKept
  <2> QED BY <1>1, <2>1, <2>2, <2>3, <2>4, StutterStep
<1>3. CASE queue[k] # <<>>
  <2>1. /\ TakeN(t, k, 1, "done") /\ Switch(t, "done", Woken(putters[k], 1))
        /\ call' = [call EXCEPT ![t] = Locals(k, <<Head(queue[k])>>, 0)]
    BY <1>3 DEF GetBody, TakeN
  <2>2. "done" \in PC /\ "done" \notin PutState /\ "done" \notin GetPC
    BY DEF PC, PutState, PutPC, GetPC
  <2>3. call'[t].items = <<Head(queue[k])>> /\ \A u \in Task \ {t} : call'[u] = call[u]
    BY <1>1, <2>1 DEF Locals
  <2>4. 1 \in 0 .. Len(queue[k]) /\ <<>> \o SubSeq(queue[k], 1, 1) = <<Head(queue[k])>>
        /\ <<>> \in Seq(Item)
    BY <1>1, <1>3, HeadAlone
  <2>5. Once' /\ Empty'
    BY <2>1, <2>2, FactsKept
  <2> QED BY <1>1, <2>1, <2>3, <2>4, <2>5, TakeStep
<1> QED BY <1>2, <1>3

LEMMA GetNowaitRefines ==
    ASSUME RefInv, NEW t \in Task, NEW k \in Key, GetNowait(t, k)
    PROVE  Once' /\ Empty' /\ FifoStep
<1>1. pc[t] = "new" /\ fresh' = fresh /\ TypeOK /\ call \in [Task -> Call]
  BY DEF GetNowait, RefInv, TypeInv, TypeOK
<1>2. CASE queue[k] = <<>>
  <2>1. /\ Switch(t, "empty", {}) /\ queue' = queue
        /\ call' = [call EXCEPT ![t] = Locals(k, <<>>, 0)]
    BY <1>2 DEF GetNowait
  <2>2. "empty" \in PC /\ "empty" \notin PutState /\ "empty" \notin GetStates /\ "empty" \notin GetPC
    BY DEF PC, PutState, PutPC, GetPC, PeekPC, GetStates
  <2>3. \A u \in Task \ {t} : call'[u] = call[u]
    BY <1>1, <2>1
  <2>4. Once' /\ Empty'
    BY <1>1, <2>1, <2>2, FactsKept
  <2> QED BY <1>1, <2>1, <2>2, <2>3, <2>4, ShownBefore, StutterStep
<1>3. CASE queue[k] # <<>>
  BY <1>1, <1>3, GetBodyRefines DEF GetNowait
<1> QED BY <1>2, <1>3

LEMMA BatchBodyRefines ==
    ASSUME RefInv, NEW t \in Task, NEW k \in Key, NEW batch \in Seq(Item), NEW target,
           \/ pc[t] = "new" /\ batch = <<>>
           \/ pc[t] = "peek_woken" /\ batch = call[t].items,
           BatchBody(t, k, batch, target), fresh' = fresh
    PROVE  Once' /\ Empty' /\ FifoStep
<1>1. PICK n \in 0 .. Len(queue[k]), s \in {"peeking", "batched"} :
        /\ call' = [call EXCEPT ![t] = Locals(k, Taking(batch, queue[k], n), target)]
        /\ TakeN(t, k, n, s)
  BY DEF BatchBody
<1>2. Switch(t, s, Woken(putters[k], n)) /\ s \in PC /\ s \notin PutState /\ s \notin GetPC
  BY <1>1 DEF TakeN, PC, PeekPC, PutState, PutPC, GetPC
<1>3. Obtained[t] = batch /\ pc[t] # "stored"
  BY ShownBefore
<1>4. /\ call'[t].items = Obtained[t] \o SubSeq(queue[k], 1, n)
      /\ \A u \in Task \ {t} : call'[u] = call[u]
  BY <1>1, <1>3 DEF RefInv, TypeInv, TypeOK, Locals, Taking
<1>5. Once' /\ Empty'
  BY <1>1, <1>2, FactsKept
<1> QED BY <1>1, <1>3, <1>4, <1>5, TakeStep

LEMMA StepRefines == ASSUME RefInv, [Next]_vars PROVE Once' /\ Empty' /\ FifoStep
<1>1. ASSUME NEW t \in Task, Arrive(t) PROVE Once' /\ Empty' /\ FifoStep
  <2>1. PICK k \in Key :
          \/ \E i \in Item : Put(t, k, i) \/ PutNowait(t, k, i)
          \/ Get(t, k)
          \/ GetNowait(t, k)
          \/ k \in BatchKey /\ \E target \in Target : GetBatch(t, k, target)
    BY <1>1 DEF Arrive
  <2>2. ASSUME NEW target \in Target, GetBatch(t, k, target) PROVE Once' /\ Empty' /\ FifoStep
    <3>1. <<>> \in Seq(Item)
      OBVIOUS
    <3> QED BY <2>2, <3>1, BatchBodyRefines DEF GetBatch
  <2>3. ASSUME Get(t, k) PROVE Once' /\ Empty' /\ FifoStep
    BY <2>3, GetBodyRefines DEF Get
  <2> QED BY <2>1, <2>2, <2>3, PutRefines, GetNowaitRefines
<1>2. ASSUME NEW t \in Task, Resume(t) PROVE Once' /\ Empty' /\ FifoStep
  <2>1. call[t].key \in Key /\ call[t].items \in Seq(Item)
    BY DEF RefInv, TypeInv, TypeOK, Call
  <2>2. CASE GetResume(t)
    BY <2>1, <2>2, GetBodyRefines DEF GetResume
  <2>3. CASE GetBatchResume(t)
    BY <2>1, <2>3, BatchBodyRefines DEF GetBatchResume
  <2>4. CASE PutResume(t)
    BY <2>4, PutResumeRefines
  <2> QED BY <1>2, <2>2, <2>3, <2>4 DEF Resume
<1>3. CASE UNCHANGED vars
  BY <1>3 DEF vars, RefInv, Once, Empty, FifoStep, Shown, Obtained, ItemsEntered
<1> QED BY <1>1, <1>2, <1>3 DEF Next

\* What the channel worker does is what a bounded first-in first-out queue per key does, as a user of
\* Channel expects of asyncio.Queue: items enter once and only while there is room, and every get
\* and get_batch obtains them from the head, in the order in which they entered
\* (channel_worker.py:355-485).
THEOREM FifoRefinement == Spec => ImplementsFifo
<1>1. Init => RefInv
  <2> SUFFICES ASSUME Init PROVE RefInv
    OBVIOUS
  <2>1. Once /\ Empty
    BY DEF Init, Once, Empty, PutState, PutPC, GetPC
  <2> QED BY <2>1, TypeInit DEF RefInv
<1>2. RefInv /\ [Next]_vars => RefInv'
  BY StepRefines, TypeStep DEF RefInv
<1>3. Init => Fifo!FifoInit
  BY DEF Init, Fifo!FifoInit, GetPC, PeekPC
<1>4. RefInv /\ [Next]_vars => [Fifo!FifoNext]_(Fifo!fvars)
  <2> SUFFICES ASSUME RefInv, [Next]_vars PROVE [Fifo!FifoNext]_(Fifo!fvars)
    OBVIOUS
  <2>1. FifoStep
    BY StepRefines
  <2>2. ASSUME NEW k \in Key, NEW i \in Item, Enters(k, i) PROVE Fifo!Enter(k, i)
    <3>1. MaxSize = 0 \/ Len(queue[k]) < MaxSize
      BY <2>2, ChannelAssumption DEF Enters, Full, RefInv, TypeInv, TypeOK
    <3> QED BY <2>2, <3>1 DEF Enters, Fifo!Enter, Fifo!HasRoom, Obtained, ItemsEntered, GetStates
  <2>3. ASSUME NEW t \in Task, NEW k \in Key, NEW n \in 1 .. Len(queue[k]), Leaves(t, k, n)
        PROVE  Fifo!Leave(t, k, n)
    BY <2>3 DEF Leaves, Fifo!Leave, Obtained, ItemsEntered, GetStates
  <2>4. CASE UNCHANGED Shown
    BY <2>4 DEF Shown, Fifo!fvars, Obtained, ItemsEntered, GetStates
  <2> QED BY <2>1, <2>2, <2>3, <2>4 DEF FifoStep, Fifo!FifoNext
<1> QED BY <1>1, <1>2, <1>3, <1>4, PTL DEF Spec, ImplementsFifo, Fifo!FifoSpec

-----------------------------------------------------------------------------
(***************************************************************************)
(* The batches of get_batch.  The weight of a batch is what the loop has   *)
(* added up (SumAppend), which is what it tests before the next item.      *)
(***************************************************************************)

\* What the loop has added up after n items.
IsSum(f, s, m) == f = [n \in 0 .. m |-> IF n = 0 THEN 0 ELSE f[n - 1] + Weight[s[n]]]

LEMMA NatMin == ASSUME NEW T \in SUBSET Nat, T # {} PROVE \E x \in T : \A y \in T : x <= y
<1>1. IsWellFoundedOn(OpToRel(<, Nat), Nat)
  BY NatLessThanWellFounded
<1>2. PICK x \in T : \A y \in T : ~(<<y, x>> \in OpToRel(<, Nat))
  BY <1>1, WFMin
<1>3. \A y \in T : ~(y < x)
  BY <1>2 DEF OpToRel
<1> QED BY <1>3

LEMMA SumExists == ASSUME NEW s, NEW n \in Nat PROVE \E f : IsSum(f, s, n)
<1> DEFINE T == {m \in Nat : ~\E f : IsSum(f, s, m)}
<1> SUFFICES ASSUME T # {} PROVE FALSE
  OBVIOUS
<1>1. PICK m \in T : \A y \in T : m <= y
  BY NatMin
<1>2. CASE m = 0
  <2>1. IsSum([k \in 0 .. 0 |-> 0], s, 0)
    BY DEF IsSum
  <2> QED BY <1>1, <1>2, <2>1
<1>3. CASE m # 0
  <2>1. m - 1 \in Nat /\ m - 1 \notin T
    BY <1>1, <1>3
  <2>2. PICK f : IsSum(f, s, m - 1)
    BY <2>1
  <2> DEFINE G(e, k) == IF k = 0 THEN 0 ELSE e[k - 1] + Weight[s[k]]
             e == [k \in 0 .. m |-> G(f, k)]
  <2>3. \A k \in 0 .. m - 1 : f[k] = G(f, k)
    BY <2>2 DEF IsSum
  <2>4. \A k \in 0 .. m - 1 : e[k] = f[k]
    <3> HIDE DEF G
    <3> QED BY <2>3
  <2> HIDE DEF e
  <2>5. ASSUME NEW k \in 0 .. m PROVE G(e, k) = G(f, k)
    <3>1. CASE k = 0
      BY <3>1
    <3>2. CASE k # 0
      <4>1. k - 1 \in 0 .. m - 1
        BY <3>2
      <4>2. e[k - 1] = f[k - 1]
        BY <2>4, <4>1
      <4> QED BY <4>2
    <3> QED BY <3>1, <3>2
  <2>6. e = [k \in 0 .. m |-> G(e, k)]
    <3> HIDE DEF G
    <3> QED BY <2>5 DEF e
  <2>7. IsSum(e, s, m)
    BY <2>6 DEF IsSum
  <2> QED BY <1>1, <2>7
<1> QED BY <1>2, <1>3

LEMMA SumIs == ASSUME NEW s, Len(s) \in Nat PROVE \E f : IsSum(f, s, Len(s)) /\ SumWeight(s) = f[Len(s)]
<1>1. PICK m \in Nat : m = Len(s)
  OBVIOUS
<1> DEFINE sum == CHOOSE f : f = [n \in 0 .. m |-> IF n = 0 THEN 0 ELSE f[n - 1] + Weight[s[n]]]
<1>2. \E f : IsSum(f, s, m)
  BY SumExists
<1>3. IsSum(sum, s, m)
  BY <1>2 DEF IsSum
<1>4. SumWeight(s) = sum[m]
  BY <1>1 DEF SumWeight
<1> QED BY <1>1, <1>3, <1>4

\* The sums of two lists agree as far as the lists do.
LEMMA SumsAgree ==
    ASSUME NEW m \in Nat, NEW s, NEW u, NEW f, NEW g,
           IsSum(f, s, m), IsSum(g, u, m + 1), \A n \in 1 .. m : s[n] = u[n]
    PROVE  f[m] = g[m] /\ g[m + 1] = g[m] + Weight[u[m + 1]]
<1>1. /\ \A n \in 0 .. m : f[n] = IF n = 0 THEN 0 ELSE f[n - 1] + Weight[s[n]]
      /\ \A n \in 0 .. m + 1 : g[n] = IF n = 0 THEN 0 ELSE g[n - 1] + Weight[u[n]]
  BY DEF IsSum
<1> DEFINE T == {n \in 0 .. m : f[n] # g[n]}
<1>2. T = {}
  <2> SUFFICES ASSUME T # {} PROVE FALSE
    OBVIOUS
  <2>1. T \in SUBSET Nat
    OBVIOUS
  <2>2. PICK n \in T : \A y \in T : n <= y
    BY <2>1, NatMin
  <2>3. n # 0
    BY <1>1, <2>2
  <2>4. n \in 1 .. m /\ n - 1 \in 0 .. m /\ n - 1 \notin T
    BY <2>2, <2>3
  <2>5. f[n - 1] = g[n - 1]
    BY <2>4
  <2> QED BY <1>1, <2>2, <2>3, <2>4, <2>5
<1>3. f[m] = g[m]
  BY <1>2
<1>4. g[m + 1] = g[m] + Weight[u[m + 1]]
  <2>1. m + 1 \in 0 .. m + 1 /\ m + 1 # 0 /\ (m + 1) - 1 = m
    OBVIOUS
  <2> QED BY <1>1, <2>1
<1> QED BY <1>3, <1>4

\* An item adds its weight to that of the batch.
LEMMA SumAppend ==
    ASSUME NEW S, NEW s \in Seq(S), NEW i \in S
    PROVE  SumWeight(Append(s, i)) = SumWeight(s) + Weight[i]
<1> DEFINE u == Append(s, i)
<1>1. PICK m \in Nat : m = Len(s)
  OBVIOUS
<1>2. Len(u) = m + 1 /\ u[m + 1] = i /\ \A n \in 1 .. m : s[n] = u[n]
  BY <1>1
<1> HIDE DEF u
<1>3. PICK f : IsSum(f, s, m) /\ SumWeight(s) = f[m]
  BY <1>1, SumIs
<1>4. PICK g : IsSum(g, u, m + 1) /\ SumWeight(u) = g[m + 1]
  BY <1>2, SumIs
<1>5. f[m] = g[m] /\ g[m + 1] = g[m] + Weight[u[m + 1]]
  BY <1>2, <1>3, <1>4, SumsAgree
<1> QED BY <1>2, <1>3, <1>4, <1>5 DEF u

LEMMA SumType == ASSUME NEW s \in Seq(Item) PROVE SumWeight(s) \in Nat
<1>1. PICK m \in Nat : m = Len(s)
  OBVIOUS
<1>2. PICK f : IsSum(f, s, m) /\ SumWeight(s) = f[m]
  BY <1>1, SumIs
<1>3. \A n \in 0 .. m : f[n] = IF n = 0 THEN 0 ELSE f[n - 1] + Weight[s[n]]
  BY <1>2 DEF IsSum
<1>4. \A n \in 1 .. m : Weight[s[n]] \in Nat
  BY <1>1, ChannelAssumption
<1> DEFINE T == {n \in 0 .. m : f[n] \notin Nat}
<1>5. T = {}
  <2> SUFFICES ASSUME T # {} PROVE FALSE
    OBVIOUS
  <2>1. T \in SUBSET Nat
    OBVIOUS
  <2>2. PICK n \in T : \A y \in T : n <= y
    BY <2>1, NatMin
  <2>3. n # 0
    BY <1>3, <2>2
  <2>4. n \in 1 .. m /\ n - 1 \in 0 .. m /\ n - 1 \notin T
    BY <2>2, <2>3
  <2>5. f[n - 1] \in Nat
    BY <2>4
  <2>6. f[n] = f[n - 1] + Weight[s[n]]
    BY <1>3, <2>2, <2>3
  <2> QED BY <1>4, <2>2, <2>4, <2>5, <2>6
<1> QED BY <1>2, <1>5

\* What the loop takes, and what it leaves in the queue.
LEMMA TakingFacts ==
    ASSUME NEW batch \in Seq(Item), NEW q \in Seq(Item), NEW n \in Nat, n < Len(q)
    PROVE  /\ Taking(batch, q, n) \in Seq(Item)
           /\ q[n + 1] \in Item
           /\ Taking(batch, q, n + 1) = Append(Taking(batch, q, n), q[n + 1])
           /\ SubSeq(q, n + 1, Len(q)) # <<>> /\ Head(SubSeq(q, n + 1, Len(q))) = q[n + 1]
<1>1. n + 1 \in 1 .. Len(q) /\ Len(q) \in Nat /\ q[n + 1] \in Item
  OBVIOUS
<1>2. /\ SubSeq(q, 1, n) \in Seq(Item) /\ SubSeq(q, 1, n + 1) \in Seq(Item)
      /\ Len(SubSeq(q, 1, n)) = n /\ Len(SubSeq(q, 1, n + 1)) = n + 1
      /\ \A j \in 1 .. n : SubSeq(q, 1, n)[j] = q[j]
      /\ \A j \in 1 .. n + 1 : SubSeq(q, 1, n + 1)[j] = q[j]
  BY <1>1
<1>3. /\ Taking(batch, q, n) \in Seq(Item) /\ Taking(batch, q, n + 1) \in Seq(Item)
      /\ Len(Taking(batch, q, n)) = Len(batch) + n /\ Len(Taking(batch, q, n + 1)) = (Len(batch) + n) + 1
      /\ \A j \in 1 .. Len(batch) + n :
            Taking(batch, q, n)[j] = IF j <= Len(batch) THEN batch[j] ELSE q[j - Len(batch)]
      /\ \A j \in 1 .. (Len(batch) + n) + 1 :
            Taking(batch, q, n + 1)[j] = IF j <= Len(batch) THEN batch[j] ELSE q[j - Len(batch)]
  BY <1>2 DEF Taking
<1>4. Taking(batch, q, n + 1) = Append(Taking(batch, q, n), q[n + 1])
  <2>1. PICK a, m : a = Taking(batch, q, n) /\ m = Len(batch) + n
    OBVIOUS
  <2>2. PICK b : b = Taking(batch, q, n + 1)
    OBVIOUS
  <2>3. /\ a \in Seq(Item) /\ b \in Seq(Item) /\ m \in Nat /\ Len(a) = m /\ Len(b) = m + 1
        /\ \A j \in 1 .. m : a[j] = b[j]
    <3>1. a \in Seq(Item) /\ b \in Seq(Item) /\ m \in Nat /\ Len(a) = m /\ Len(b) = m + 1
      BY <1>3, <2>1, <2>2
    <3>2. ASSUME NEW j \in 1 .. m PROVE a[j] = b[j]
      <4>1. j \in 1 .. Len(batch) + n /\ j \in 1 .. (Len(batch) + n) + 1
        BY <2>1
      <4> QED BY <1>3, <2>1, <2>2, <4>1
    <3> QED BY <3>1, <3>2
  <2>4. b[m + 1] = q[n + 1]
    <3>1. m + 1 \in 1 .. (Len(batch) + n) + 1 /\ ~(m + 1 <= Len(batch)) /\ (m + 1) - Len(batch) = n + 1
      BY <2>1
    <3> QED BY <1>3, <2>2, <3>1
  <2>5. PICK c : c = Append(a, q[n + 1])
    OBVIOUS
  <2>6. /\ c \in Seq(Item) /\ Len(c) = m + 1 /\ c[m + 1] = q[n + 1]
        /\ \A j \in 1 .. m : c[j] = a[j]
    BY <1>1, <2>3, <2>5
  <2>7. \A j \in 1 .. m + 1 : b[j] = c[j]
    BY <2>3, <2>4, <2>6
  <2>8. b = c
    BY <2>3, <2>6, <2>7, SeqEqual
  <2> QED BY <2>1, <2>2, <2>5, <2>8
<1>5. SubSeq(q, n + 1, Len(q)) # <<>> /\ Head(SubSeq(q, n + 1, Len(q))) = q[n + 1]
  <2>1. PICK r : r = SubSeq(q, n + 1, Len(q))
    OBVIOUS
  <2>2. r \in Seq(Item) /\ Len(r) = Len(q) - n /\ r[1] = q[n + 1]
    BY <1>1, <2>1
  <2>3. r # <<>> /\ Head(r) = r[1]
    BY <1>1, <2>2
  <2> QED BY <2>1, <2>2, <2>3
<1> QED BY <1>1, <1>3, <1>4, <1>5

\* Only the step of a task itself ends its batch.
LEMMA SwitchBatched ==
    ASSUME pc \in [Task -> PC], NEW t \in Task, NEW s, NEW W, Switch(t, s, W),
           NEW u \in Task, pc[u] # "batched", pc'[u] = "batched"
    PROVE  u = t /\ s = "batched"
BY DEF Switch, WokenPC

\* The answer of call t, if it is given in this step, is a maximal batch.
Maximal(t) ==
    LET batch == call'[t].items
        rest == queue'[call'[t].key]
    IN  \/ SumWeight(batch) >= call'[t].target
        \/ rest # <<>> /\ SumWeight(batch) + Weight[Head(rest)] > call'[t].target

LEMMA BatchBodyMaximal ==
    ASSUME TypeInv, NEW t \in Task, NEW k \in Key, NEW batch \in Seq(Item), NEW target \in Nat,
           BatchBody(t, k, batch, target),
           NEW u \in Task, pc[u] # "batched", pc'[u] = "batched"
    PROVE  Maximal(u)
<1> DEFINE q == queue[k]
<1>1. q \in Seq(Item) /\ pc \in [Task -> PC] /\ call \in [Task -> Call] /\ queue \in [Key -> Seq(Item)]
  BY DEF TypeInv, TypeOK
<1>2. PICK n \in 0 .. Len(q) :
        /\ ~GoesOn(batch, q, target, n)
        /\ call' = [call EXCEPT ![t] = Locals(k, Taking(batch, q, n), target)]
        /\ TakeN(t, k, n, IF n = Len(q) /\ ~Reached(batch, q, target, n) THEN "peeking" ELSE "batched")
  BY DEF BatchBody
<1>3. u = t /\ ~(n = Len(q) /\ ~Reached(batch, q, target, n))
  BY <1>1, <1>2, SwitchBatched DEF TakeN
<1>4. /\ call'[u].items = Taking(batch, q, n) /\ call'[u].key = k /\ call'[u].target = target
      /\ queue'[k] = SubSeq(q, n + 1, Len(q))
  BY <1>1, <1>2, <1>3 DEF Locals, TakeN
<1> HIDE DEF q
<1>5. CASE Reached(batch, q, target, n)
  BY <1>4, <1>5 DEF Reached, Maximal
<1>6. CASE ~Reached(batch, q, target, n)
  <2>1. n \in Nat /\ n < Len(q)
    <3>1. Len(q) \in Nat /\ n # Len(q)
      BY <1>1, <1>3, <1>6
    <3> QED BY <1>2, <3>1
  <2>2. ~(SumWeight(Taking(batch, q, n + 1)) <= target)
    BY <1>2, <1>6, <2>1 DEF GoesOn
  <2>3. /\ Taking(batch, q, n) \in Seq(Item) /\ q[n + 1] \in Item
        /\ Taking(batch, q, n + 1) = Append(Taking(batch, q, n), q[n + 1])
        /\ SubSeq(q, n + 1, Len(q)) # <<>> /\ Head(SubSeq(q, n + 1, Len(q))) = q[n + 1]
    BY <1>1, <2>1, TakingFacts
  <2>4. SumWeight(Taking(batch, q, n)) + Weight[q[n + 1]] = SumWeight(Taking(batch, q, n + 1))
    BY <2>3, SumAppend
  <2>5. SumWeight(Taking(batch, q, n + 1)) \in Nat
    <3>1. Append(Taking(batch, q, n), q[n + 1]) \in Seq(Item)
      BY <2>3
    <3> QED BY <2>3, <3>1, SumType
  <2>6. SumWeight(Taking(batch, q, n)) + Weight[q[n + 1]] > target
    BY <2>2, <2>4, <2>5
  <2> QED BY <1>4, <2>3, <2>6 DEF Maximal
<1> QED BY <1>5, <1>6

LEMMA StepMaximal ==
    ASSUME TypeInv, [Next]_vars, NEW u \in Task, pc[u] # "batched", pc'[u] = "batched"
    PROVE  Maximal(u)
<1>1. pc \in [Task -> PC]
  BY DEF TypeInv, TypeOK
<1>2. ASSUME NEW t \in Task, NEW k \in Key, NEW i, PutBody(t, k, i) PROVE FALSE
  <2>1. \E s, W : s # "batched" /\ Switch(t, s, W)
    BY <1>2 DEF PutBody, Append1
  <2> QED BY <1>1, <2>1, SwitchBatched
<1>3. ASSUME NEW t \in Task, NEW k \in Key, GetBody(t, k) PROVE FALSE
  <2>1. \E s, W : s # "batched" /\ Switch(t, s, W)
    BY <1>3 DEF GetBody, TakeN
  <2> QED BY <1>1, <2>1, SwitchBatched
<1>4. ASSUME NEW t \in Task, Arrive(t) PROVE Maximal(u)
  <2>1. PICK k \in Key :
          \/ \E i \in Item : Put(t, k, i) \/ PutNowait(t, k, i)
          \/ Get(t, k)
          \/ GetNowait(t, k)
          \/ k \in BatchKey /\ \E target \in Target : GetBatch(t, k, target)
    BY <1>4 DEF Arrive
  <2>2. ASSUME NEW i \in Item, Put(t, k, i) PROVE FALSE
    BY <1>2, <2>2 DEF Put
  <2>3. ASSUME NEW i \in Item, PutNowait(t, k, i) PROVE FALSE
    <3>1. \E s, W : s # "batched" /\ Switch(t, s, W)
      BY <2>3 DEF PutNowait, Append1
    <3> QED BY <1>1, <3>1, SwitchBatched
  <2>4. ASSUME Get(t, k) PROVE FALSE
    BY <1>3, <2>4 DEF Get
  <2>5. ASSUME GetNowait(t, k) PROVE FALSE
    <3>1. GetBody(t, k) \/ Switch(t, "empty", {})
      BY <2>5 DEF GetNowait
    <3>2. ~Switch(t, "empty", {})
      BY <1>1, SwitchBatched
    <3> QED BY <1>3, <3>1, <3>2
  <2>6. ASSUME NEW target \in Target, GetBatch(t, k, target) PROVE Maximal(u)
    <3>1. target \in Nat /\ <<>> \in Seq(Item) /\ BatchBody(t, k, <<>>, target)
      BY <2>6, ChannelAssumption DEF GetBatch
    <3> QED BY <3>1, BatchBodyMaximal
  <2> QED BY <2>1, <2>2, <2>3, <2>4, <2>5, <2>6
<1>5. ASSUME NEW t \in Task, Resume(t) PROVE Maximal(u)
  <2>1. call[t].key \in Key /\ call[t].items \in Seq(Item) /\ call[t].target \in Nat
    BY DEF TypeInv, TypeOK, Call
  <2>2. CASE PutResume(t)
    BY <1>2, <2>1, <2>2 DEF PutResume
  <2>3. CASE GetResume(t)
    BY <1>3, <2>1, <2>3 DEF GetResume
  <2>4. CASE GetBatchResume(t)
    BY <2>1, <2>4, BatchBodyMaximal DEF GetBatchResume
  <2> QED BY <1>5, <2>2, <2>3, <2>4 DEF Resume
<1>6. CASE UNCHANGED vars
  BY <1>6 DEF vars
<1> QED BY <1>4, <1>5, <1>6 DEF Next

(* get_batch, however often it awaited items in between and whoever else   *)
(* took items meanwhile, answers only with a batch that has its target     *)
(* weight, or that the next item in the queue would make too heavy, for    *)
(* any weights and targets (BatchMaximal).                                 *)
THEOREM BatchMaximalHolds == Spec => BatchMaximal
<1>1. TypeInv /\ [Next]_vars =>
        [\A t \in Task : pc[t] # "batched" /\ pc'[t] = "batched" =>
            LET batch == call'[t].items
                rest == queue'[call'[t].key]
            IN \/ SumWeight(batch) >= call'[t].target
               \/ rest # <<>> /\ SumWeight(batch) + Weight[Head(rest)] > call'[t].target]_vars
  BY StepMaximal DEF Maximal
<1> QED BY <1>1, TypeInvariance, PTL DEF Spec, BatchMaximal

-----------------------------------------------------------------------------
\* The clients.

PutMethods == {"put", "put_nowait"}
GetMethods == {"get", "get_nowait", "get_batch"}
Op == [method : PutMethods \cup GetMethods, key : Key, async : BOOLEAN]
Message == [query : Task \cup {None}, data : Seq(Item)]

\* The states of a get, and those in which it is through.
Through == {"done", "batched", "empty"}
GetState == GetPC \cup PeekPC \cup Through

\* The gets of a client that have no answer yet.
Open(c) == {t \in Gets : Owner(t) = c /\ answer[t] = None}

ClientTyped ==
    /\ op \in [Task -> Op \cup {None}]
    /\ waiting \in [Client -> Task \cup {None}]
    /\ recvs \in [Client -> Seq(Task)]
    /\ back \in [Client -> Seq(Message)]
    /\ answer \in [Task -> Seq(Item) \cup {None}]

\* A nowait method blocks; what is a get in the channel worker is one of the client's.
Called ==
    /\ \A t \in Task : op[t] # None /\ op[t].method = "get_nowait" => ~op[t].async
    /\ \A t \in Task : pc[t] \in GetState \/ answer[t] # None => t \in Gets
    /\ \A t \in Task : op[t] = None => pc[t] = "new"

Counted == \A c \in Client : Cardinality(Open(c)) = Len(recvs[c])

Blocking ==
    \A c \in Client :
        /\ \A t \in Open(c) : ~op[t].async => recvs[c] = <<t>> /\ waiting[c] = t
        /\ \A n \in 1 .. Len(recvs[c]) :
              /\ recvs[c][n] \in Gets /\ Owner(recvs[c][n]) = c
              /\ ~op[recvs[c][n]].async => recvs[c][n] \in Open(c)

\* The answer m is that of the open get t.
AnswerOf(m, t) ==
    /\ pc[t] \in Through /\ m.data = call[t].items
    /\ IF pc[t] = "empty" THEN m.query = None /\ ~op[t].async ELSE m.query = t

Sent ==
    \A c \in Client : \A n \in 1 .. Len(back[c]) : \E t \in Open(c) : AnswerOf(back[c][n], t)

Distinct ==
    \A c \in Client : \A m, n \in 1 .. Len(back[c]) :
        back[c][m].query = back[c][n].query => m = n

AnswerInv == Called /\ Counted /\ Blocking /\ Sent /\ Distinct /\ OwnAnswer

ClientInv == TypeInv /\ ClientTyped /\ AnswerInv

\* What is in the pipe to the channel worker was put by a call.
Piped ==
    /\ pipe \in [Client -> Seq(Task)]
    /\ \A c \in Client : \A n \in 1 .. Len(pipe[c]) : op[pipe[c][n]] # None

-----------------------------------------------------------------------------
\* What a step of the channel worker leaves of the other calls.
Others(t) ==
    \A u \in Task \ {t} :
        /\ call'[u] = call[u]
        /\ pc[u] \in Through \cup {"new"} => pc'[u] = pc[u]
        /\ pc'[u] \in GetState => pc[u] \in GetState
        /\ pc'[u] \in Through => pc[u] \in Through
        /\ pc'[u] \in PutState => pc[u] \in PutState
        /\ pc[u] = "stored" => pc'[u] = "stored"
        /\ pc'[u] = "new" => pc[u] = "new"

LEMMA SwitchOthers ==
    ASSUME TypeInv, NEW t \in Task, NEW s, NEW W, Switch(t, s, W),
           \A u \in Task \ {t} : call'[u] = call[u]
    PROVE  Others(t) /\ pc'[t] = s
BY DEF Switch, Others, WokenPC, TypeInv, TypeOK, PC, PutPC, GetPC, PeekPC, Through, GetState, PutState

LEMMA PutOthers ==
    ASSUME TypeInv, NEW t \in Task, NEW k, NEW i,
           Put(t, k, i) \/ PutNowait(t, k, i)
    PROVE  Others(t) /\ pc[t] = "new" /\ pc'[t] \in {"putting", "stored", "full"}
<1>1. /\ pc[t] = "new" /\ call' = [call EXCEPT ![t] = Locals(k, <<i>>, 0)]
      /\ \E s \in {"putting", "stored", "full"}, W \in {{}, Woken(getters[k], 1)} : Switch(t, s, W)
  BY DEF Put, PutNowait, PutBody, Append1
<1>2. \A u \in Task \ {t} : call'[u] = call[u]
  BY <1>1 DEF TypeInv, TypeOK
<1> QED BY <1>1, <1>2, SwitchOthers

LEMMA GetBodyOthers ==
    ASSUME TypeInv, NEW t \in Task, NEW k, GetBody(t, k)
    PROVE  Others(t) /\ pc'[t] \in {"getting", "done"}
<1>1. /\ \E x : call' = [call EXCEPT ![t] = x]
      /\ \E s \in {"getting", "done"} : \E W : Switch(t, s, W)
  BY DEF GetBody, TakeN
<1>2. \A u \in Task \ {t} : call'[u] = call[u]
  BY <1>1 DEF TypeInv, TypeOK
<1> QED BY <1>1, <1>2, SwitchOthers

LEMMA BatchBodyOthers ==
    ASSUME TypeInv, NEW t \in Task, NEW k, NEW batch, NEW target, BatchBody(t, k, batch, target)
    PROVE  Others(t) /\ pc'[t] \in {"peeking", "batched"}
<1>1. /\ \E x : call' = [call EXCEPT ![t] = x]
      /\ \E s \in {"peeking", "batched"} : \E W : Switch(t, s, W)
  BY DEF BatchBody, TakeN
<1>2. \A u \in Task \ {t} : call'[u] = call[u]
  BY <1>1 DEF TypeInv, TypeOK
<1> QED BY <1>1, <1>2, SwitchOthers

LEMMA GetNowaitOthers ==
    ASSUME TypeInv, NEW t \in Task, NEW k, GetNowait(t, k)
    PROVE  Others(t) /\ pc'[t] \in {"getting", "done", "empty"}
<1>1. CASE queue[k] = <<>>
  <2>1. /\ call' = [call EXCEPT ![t] = Locals(k, <<>>, 0)] /\ Switch(t, "empty", {})
    BY <1>1 DEF GetNowait
  <2>2. \A u \in Task \ {t} : call'[u] = call[u]
    BY <2>1 DEF TypeInv, TypeOK
  <2> QED BY <2>1, <2>2, SwitchOthers
<1>2. CASE queue[k] # <<>>
  BY <1>2, GetBodyOthers DEF GetNowait
<1> QED BY <1>1, <1>2

LEMMA ResumeOthers ==
    ASSUME TypeInv, NEW t \in Task, Resume(t)
    PROVE  /\ Others(t) /\ pc[t] \notin Through \cup {"new"}
           /\ \/ pc'[t] \notin GetState
              \/ pc[t] \in GetState /\ pc'[t] # "empty"
<1>1. CASE PutResume(t)
  <2>1. /\ pc[t] = "put_woken" /\ call' = call
        /\ \E s \in {"putting", "stored"} : \E W : Switch(t, s, W)
    BY <1>1 DEF PutResume, PutBody, Append1
  <2> QED BY <2>1, SwitchOthers DEF Through, GetState, GetPC, PeekPC
<1>2. CASE GetResume(t)
  BY <1>2, GetBodyOthers DEF GetResume, Through, GetState, GetPC, PeekPC
<1>3. CASE GetBatchResume(t)
  BY <1>3, BatchBodyOthers DEF GetBatchResume, Through, GetState, GetPC, PeekPC
<1> QED BY <1>1, <1>2, <1>3 DEF Resume

-----------------------------------------------------------------------------
LEMMA OwnerType == ASSUME NEW t \in Task PROVE Owner(t) \in Client
BY ClientAssumption DEF Owner

LEMMA AppendFacts ==
    ASSUME NEW S, NEW s \in Seq(S), NEW e \in S
    PROVE  /\ Append(s, e) \in Seq(S) /\ Len(Append(s, e)) = Len(s) + 1
           /\ Append(s, e)[Len(s) + 1] = e
           /\ \A n \in 1 .. Len(s) : Append(s, e)[n] = s[n]
           /\ s = <<>> => Append(s, e) = <<e>>
<1>1. s = <<>> => Append(s, e) = <<e>>
  OBVIOUS
<1> QED BY <1>1

LEMMA GetsOp == ASSUME NEW t \in Gets PROVE t \in Task /\ op[t] # None
BY DEF Gets

LEMMA OpenFinite == ASSUME NEW c PROVE IsFiniteSet(Open(c))
<1>1. Open(c) \subseteq Task
  BY DEF Open, Gets
<1> QED BY <1>1, FS_Subset, ChannelAssumption

\* A client with a single recv, that of a get that blocks, has no other open get.
LEMMA BlocksAlone ==
    ASSUME AnswerInv, NEW c \in Client, NEW t \in Open(c), ~op[t].async
    PROVE  Open(c) = {t}
<1>1. recvs[c] = <<t>>
  BY DEF AnswerInv, Blocking
<1>2. Cardinality(Open(c)) = 1
  BY <1>1 DEF AnswerInv, Counted
<1>3. PICK x : Open(c) = {x}
  BY <1>2, OpenFinite, FS_Singleton
<1> QED BY <1>3

LEMMA ClientInitInv == ClientInit => ClientInv
<1> SUFFICES ASSUME ClientInit PROVE ClientInv
  OBVIOUS
<1>1. TypeInv
  BY TypeInit DEF ClientInit
<1>2. ClientTyped
  BY DEF ClientInit, ClientTyped
<1>3. Gets = {} /\ \A c : Open(c) = {}
  BY DEF ClientInit, Gets, Open
<1>4. Called
  BY DEF ClientInit, Init, Called, GetState, GetPC, PeekPC, Through
<1>5. Counted
  BY <1>3, FS_EmptySet DEF ClientInit, Counted
<1>6. Blocking /\ Sent /\ Distinct /\ OwnAnswer
  BY <1>3 DEF ClientInit, Blocking, Sent, Distinct, OwnAnswer
<1> QED BY <1>1, <1>2, <1>4, <1>5, <1>6 DEF ClientInv, AnswerInv

-----------------------------------------------------------------------------
\* The channel worker runs call t, and what it answers is sent.
LEMMA RunTyped ==
    ASSUME ClientInv, TypeInv', NEW t \in Task, Reply(t),
           UNCHANGED <<op, waiting, recvs, answer>>
    PROVE  ClientTyped'
<1> DEFINE m == [query |-> IF pc'[t] = "empty" THEN None ELSE t, data |-> call'[t].items]
<1>1. m \in Message
  BY DEF Message, TypeInv, TypeOK, Call
<1>2. back' \in [Client -> Seq(Message)]
  <2>1. back \in [Client -> Seq(Message)] /\ Owner(t) \in Client
    BY OwnerType DEF ClientInv, ClientTyped
  <2>2. back' = back \/ back' = [back EXCEPT ![Owner(t)] = Append(@, m)]
    BY DEF Reply
  <2> HIDE DEF m
  <2>3. Append(back[Owner(t)], m) \in Seq(Message)
    BY <1>1, <2>1
  <2> QED BY <2>1, <2>2, <2>3
<1> QED BY <1>2 DEF ClientInv, ClientTyped

LEMMA RunKeeps ==
    ASSUME ClientInv, TypeInv', NEW t \in Task, Others(t), Reply(t), pc[t] \notin Through,
           op[t] # None, pc'[t] \in GetState => t \in Gets,
           pc'[t] = "empty" => ~op[t].async,
           UNCHANGED <<op, waiting, recvs, answer>>
    PROVE  AnswerInv'
<1>1. Gets' = Gets /\ \A c : Open(c)' = Open(c)
  BY DEF Gets, Puts, Open
<1>2. Called'
  BY <1>1 DEF ClientInv, AnswerInv, Called, Others
<1>3. Counted' /\ Blocking'
  BY <1>1 DEF ClientInv, AnswerInv, Counted, Blocking
<1>4. OwnAnswer'
  <2> SUFFICES ASSUME NEW u \in Gets, answer[u] # None
               PROVE  pc'[u] \in Through /\ answer[u] = call'[u].items
    BY <1>1 DEF OwnAnswer, Through
  <2>1. pc[u] \in Through /\ answer[u] = call[u].items
    BY DEF ClientInv, AnswerInv, OwnAnswer, Through
  <2> QED BY <2>1, GetsOp DEF Others
<1> DEFINE o == Owner(t)
           m == [query |-> IF pc'[t] = "empty" THEN None ELSE t, data |-> call'[t].items]
<1>5. ASSUME NEW c \in Client, NEW n \in 1 .. Len(back[c])
      PROVE  \E u \in Open(c) :
                AnswerOf(back[c][n], u) /\ u # t /\ pc'[u] = pc[u] /\ call'[u] = call[u]
  <2>1. PICK u \in Open(c) : AnswerOf(back[c][n], u)
    BY DEF ClientInv, AnswerInv, Sent
  <2>2. u \in Task \ {t}
    BY <2>1 DEF AnswerOf, Open, Gets
  <2> QED BY <2>1, <2>2 DEF AnswerOf, Others
<1>6. CASE pc'[t] \notin Through
  <2>1. back' = back
    BY <1>6 DEF Reply, Through
  <2>2. Sent' /\ Distinct'
    BY <1>1, <1>5, <2>1 DEF Sent, ClientInv, AnswerInv, Distinct, AnswerOf
  <2> QED BY <1>2, <1>3, <1>4, <2>2 DEF AnswerInv
<1>7. CASE pc'[t] \in Through
  <2>1. back' = [back EXCEPT ![o] = Append(@, m)] /\ o \in Client
    BY <1>7, OwnerType DEF Reply, Through
  <2>2. t \in Open(o)
    BY <1>7 DEF ClientInv, AnswerInv, OwnAnswer, Open, GetState, Through
  <2>3. /\ m.data = call'[t].items
        /\ IF pc'[t] = "empty" THEN m.query = None /\ ~op[t].async ELSE m.query = t
    OBVIOUS
  <2>4. back[o] \in Seq(Message) /\ back \in [Client -> Seq(Message)]
    BY <2>1 DEF ClientInv, ClientTyped
  <2>5. ASSUME NEW n \in 1 .. Len(back[o]) PROVE back[o][n].query # m.query
    <3>1. PICK u \in Open(o) : AnswerOf(back[o][n], u) /\ u # t
      BY <1>5, <2>1
    <3>2. u \in Task /\ t \in Task /\ None \notin Task
      BY <3>1, NoneAssumption DEF Open, Gets
    <3>3. CASE pc[u] = "empty"
      BY <2>1, <2>2, <3>1, <3>3, BlocksAlone DEF AnswerOf, ClientInv
    <3>4. CASE pc[u] # "empty" /\ pc'[t] = "empty"
      BY <3>1, <3>2, <3>4 DEF AnswerOf
    <3>5. CASE pc[u] # "empty" /\ pc'[t] # "empty"
      BY <3>1, <3>2, <3>5 DEF AnswerOf
    <3> QED BY <3>3, <3>4, <3>5
  <2> HIDE DEF o, m
  <2>6. \A c \in Client \ {o} : back'[c] = back[c]
    BY <2>1, <2>4
  <2>7. /\ Len(back'[o]) = Len(back[o]) + 1 /\ back'[o][Len(back[o]) + 1] = m
        /\ \A n \in 1 .. Len(back[o]) : back'[o][n] = back[o][n]
        /\ \A n \in 1 .. Len(back'[o]) : n \in 1 .. Len(back[o]) \/ n = Len(back[o]) + 1
    BY <2>1, <2>4
  <2>8. Sent'
    <3> SUFFICES ASSUME NEW c \in Client, NEW n \in 1 .. Len(back'[c])
                 PROVE  \E u \in Open(c) : AnswerOf(back[c][n], u)'
      BY <1>1 DEF Sent
    <3>1. CASE back'[c][n] = m /\ c = o
      BY <1>7, <2>2, <2>3, <3>1 DEF AnswerOf
    <3>2. CASE n \in 1 .. Len(back[c]) /\ back'[c][n] = back[c][n]
      BY <1>5, <3>2 DEF AnswerOf
    <3> QED BY <2>6, <2>7, <3>1, <3>2
  <2>9. Distinct'
    <3> SUFFICES ASSUME NEW c \in Client, NEW i \in 1 .. Len(back'[c]), NEW j \in 1 .. Len(back'[c]),
                        back'[c][i].query = back'[c][j].query
                 PROVE  i = j
      BY DEF Distinct
    <3>1. CASE c # o
      BY <2>6, <3>1 DEF ClientInv, AnswerInv, Distinct
    <3>2. CASE c = o
      <4>1. \A a, b \in 1 .. Len(back[o]) : back[o][a].query = back[o][b].query => a = b
        BY <2>1 DEF ClientInv, AnswerInv, Distinct
      <4> QED BY <2>5, <2>7, <3>2, <4>1
    <3> QED BY <3>1, <3>2
  <2> QED BY <1>2, <1>3, <1>4, <2>8, <2>9 DEF AnswerInv
<1> QED BY <1>6, <1>7

-----------------------------------------------------------------------------
\* A client that goes on has no open get that blocks.
LEMMA NoneBlocks ==
    ASSUME ClientInv, NEW c \in Client, waiting[c] = None
    PROVE  \A t \in Open(c) : op[t].async
BY NoneAssumption DEF ClientInv, AnswerInv, Blocking, Open, Gets

\* What a call leaves of the others.
LEMMA BeginFacts ==
    ASSUME ClientInv, NEW t \in Task, op[t] = None, NEW method, NEW k \in Key, NEW async \in BOOLEAN,
           method \in PutMethods \cup GetMethods, Begin(t, method, k, async)
    PROVE  /\ op'[t] = [method |-> method, key |-> k, async |-> async] /\ op'[t] # None
           /\ \A u \in Task \ {t} : op'[u] = op[u]
           /\ op' \in [Task -> Op \cup {None}] /\ waiting' \in [Client -> Task \cup {None}]
           /\ waiting[Owner(t)] = None /\ (~async => waiting'[Owner(t)] = t)
           /\ \A c \in Client \ {Owner(t)} : waiting'[c] = waiting[c]
           /\ TypeInv' /\ UNCHANGED <<pc, call>>
           /\ method = "get_nowait" => ~async
           /\ pc[t] = "new" /\ answer[t] = None /\ t \notin Gets
<1> DEFINE r == [method |-> method, key |-> k, async |-> async]
<1>1. op' = [op EXCEPT ![t] = r] /\ r \in Op
  BY DEF Begin, Op
<1>2. r # None
  BY <1>1, NoneAssumption DEF Op, PutMethods, GetMethods
<1>3. TypeInv' /\ UNCHANGED <<pc, call>>
  <2>1. UNCHANGED vars
    BY DEF Begin
  <2> QED BY <2>1, TypeStep DEF ClientInv, vars
<1>4. pc[t] = "new" /\ t \notin Gets /\ answer[t] = None
  BY DEF ClientInv, AnswerInv, Called, Gets
<1>5. /\ waiting[Owner(t)] = None
      /\ waiting' = [waiting EXCEPT ![Owner(t)] = IF async THEN None ELSE t]
      /\ method = "get_nowait" => ~async
  BY DEF Begin
<1>6. Owner(t) \in Client
  BY OwnerType
<1> HIDE DEF r
<1>7. op \in [Task -> Op \cup {None}] /\ waiting \in [Client -> Task \cup {None}]
  BY DEF ClientInv, ClientTyped
<1> QED BY <1>1, <1>2, <1>3, <1>4, <1>5, <1>6, <1>7 DEF r

LEMMA CallPutKeeps ==
    ASSUME ClientInv, NEW t \in Task, op[t] = None, NEW method, NEW k \in Key, NEW async \in BOOLEAN,
           CallPut(t, method, k, async)
    PROVE  ClientInv'
<1>1. method \in PutMethods /\ UNCHANGED <<back, recvs, answer>> /\ Begin(t, method, k, async)
  BY DEF CallPut, PutMethods
<1>2. /\ op'[t] = [method |-> method, key |-> k, async |-> async] /\ op'[t] # None
      /\ \A u \in Task \ {t} : op'[u] = op[u]
      /\ op' \in [Task -> Op \cup {None}] /\ waiting' \in [Client -> Task \cup {None}]
      /\ waiting[Owner(t)] = None
      /\ \A c \in Client \ {Owner(t)} : waiting'[c] = waiting[c]
      /\ TypeInv' /\ UNCHANGED <<pc, call>>
      /\ pc[t] = "new" /\ answer[t] = None /\ t \notin Gets
  BY <1>1, BeginFacts
<1>3. Gets' = Gets
  BY <1>1, <1>2 DEF Gets, Puts, PutMethods
<1>4. \A c : Open(c)' = Open(c)
  BY <1>1, <1>3 DEF Open, Owner
<1>5. ClientTyped'
  BY <1>1, <1>2 DEF ClientInv, ClientTyped
<1>6. Called'
  BY <1>1, <1>2, <1>3 DEF ClientInv, AnswerInv, Called, PutMethods
<1>7. Counted' /\ Distinct'
  BY <1>1, <1>4 DEF ClientInv, AnswerInv, Counted, Distinct
<1>8. \A u \in Gets : u \in Task /\ op'[u] = op[u]
  BY <1>2, GetsOp
<1>9. Blocking'
  <2> SUFFICES ASSUME NEW c \in Client
               PROVE  /\ \A u \in Open(c) : ~op[u].async => recvs[c] = <<u>> /\ waiting'[c] = u
                      /\ \A n \in 1 .. Len(recvs[c]) :
                            /\ recvs[c][n] \in Gets /\ Owner(recvs[c][n]) = c
                            /\ ~op[recvs[c][n]].async => recvs[c][n] \in Open(c)
    BY <1>1, <1>3, <1>4, <1>8 DEF Blocking, Open, Owner
  <2>1. CASE c = Owner(t)
    BY <1>2, <2>1, NoneBlocks DEF ClientInv, AnswerInv, Blocking
  <2>2. CASE c # Owner(t)
    BY <1>2, <2>2 DEF ClientInv, AnswerInv, Blocking
  <2> QED BY <2>1, <2>2
<1>10. Sent' /\ OwnAnswer'
  BY <1>1, <1>2, <1>3, <1>4, <1>8 DEF ClientInv, AnswerInv, Sent, AnswerOf, OwnAnswer, Open
<1> QED BY <1>2, <1>5, <1>6, <1>7, <1>9, <1>10 DEF ClientInv, AnswerInv

\* A get that blocks begins when none is open.
LEMMA CallGetKeeps ==
    ASSUME ~MixGets, ClientInv, NEW t \in Task, op[t] = None,
           NEW method, NEW k \in Key, NEW async \in BOOLEAN, CallGet(t, method, k, async)
    PROVE  ClientInv'
<1> DEFINE o == Owner(t)
<1>1. /\ method \in GetMethods /\ UNCHANGED <<back, answer>> /\ Begin(t, method, k, async)
      /\ async \/ recvs[o] = <<>>
      /\ recvs' = [recvs EXCEPT ![o] = Append(@, t)]
  BY DEF CallGet, GetMethods
<1>2. /\ op'[t] = [method |-> method, key |-> k, async |-> async] /\ op'[t] # None
      /\ \A u \in Task \ {t} : op'[u] = op[u]
      /\ op' \in [Task -> Op \cup {None}] /\ waiting' \in [Client -> Task \cup {None}]
      /\ waiting[o] = None /\ (~async => waiting'[o] = t)
      /\ \A c \in Client \ {o} : waiting'[c] = waiting[c]
      /\ TypeInv' /\ UNCHANGED <<pc, call>>
      /\ method = "get_nowait" => ~async
      /\ pc[t] = "new" /\ answer[t] = None /\ t \notin Gets
  BY <1>1, BeginFacts
<1>3. Gets' = Gets \cup {t}
  BY <1>1, <1>2 DEF Gets, Puts, GetMethods
<1>4. \A c \in Client : Open(c)' = IF c = o THEN Open(c) \cup {t} ELSE Open(c)
  BY <1>1, <1>2, <1>3 DEF Open, Owner
<1>5. /\ o \in Client /\ recvs[o] \in Seq(Task) /\ recvs' \in [Client -> Seq(Task)]
      /\ \A c \in Client \ {o} : recvs'[c] = recvs[c]
      /\ Len(recvs'[o]) = Len(recvs[o]) + 1 /\ recvs'[o][Len(recvs[o]) + 1] = t
      /\ \A n \in 1 .. Len(recvs[o]) : recvs'[o][n] = recvs[o][n]
      /\ recvs[o] = <<>> => recvs'[o] = <<t>>
  <2>1. o \in Client /\ recvs \in [Client -> Seq(Task)]
    BY OwnerType DEF ClientInv, ClientTyped
  <2> HIDE DEF o
  <2>2. recvs'[o] = Append(recvs[o], t) /\ recvs[o] \in Seq(Task)
    BY <1>1, <2>1
  <2>3. \A c \in Client \ {o} : recvs'[c] = recvs[c]
    BY <1>1, <2>1
  <2>4. Append(recvs[o], t) \in Seq(Task)
    BY <2>2, AppendFacts
  <2>5. recvs' \in [Client -> Seq(Task)]
    BY <1>1, <2>1, <2>4
  <2> QED BY <2>1, <2>2, <2>3, <2>5, AppendFacts
<1> HIDE DEF o
<1>6. ClientTyped'
  BY <1>1, <1>2, <1>5 DEF ClientInv, ClientTyped
<1>7. Called'
  BY <1>1, <1>2, <1>3 DEF ClientInv, AnswerInv, Called
<1>8. Counted'
  <2>1. t \notin Open(o) /\ IsFiniteSet(Open(o))
    BY <1>2, OpenFinite DEF Open
  <2>2. Cardinality(Open(o) \cup {t}) = Cardinality(Open(o)) + 1
    BY <2>1, FS_AddElement
  <2> QED BY <1>4, <1>5, <2>2 DEF ClientInv, AnswerInv, Counted
<1>9. \A u \in Gets : u \in Task /\ op'[u] = op[u]
  BY <1>2, GetsOp
<1>10. Blocking'
  <2> SUFFICES ASSUME NEW c \in Client
               PROVE  /\ \A u \in Open(c)' : ~op'[u].async => recvs'[c] = <<u>> /\ waiting'[c] = u
                      /\ \A n \in 1 .. Len(recvs'[c]) :
                            /\ recvs'[c][n] \in Gets' /\ Owner(recvs'[c][n]) = c
                            /\ ~op'[recvs'[c][n]].async => recvs'[c][n] \in Open(c)'
    BY DEF Blocking, Owner
  <2>1. CASE c # o
    <3>1. recvs'[c] = recvs[c] /\ waiting'[c] = waiting[c] /\ Open(c)' = Open(c)
      BY <1>2, <1>4, <1>5, <2>1
    <3>2. \A u \in Open(c) : u \in Gets /\ op'[u] = op[u]
      BY <1>9 DEF Open
    <3>3. \A n \in 1 .. Len(recvs[c]) : recvs[c][n] \in Gets /\ op'[recvs[c][n]] = op[recvs[c][n]]
      BY <1>9 DEF ClientInv, AnswerInv, Blocking
    <3> QED BY <1>3, <3>1, <3>2, <3>3 DEF ClientInv, AnswerInv, Blocking
  <2>2. CASE c = o
    <3>1. \A u \in Open(o) : u \in Gets /\ op'[u].async
      BY <1>2, <1>5, <1>9, NoneBlocks DEF Open
    <3>2. \A u \in Open(o)' : u \in Open(o) \/ u = t
      BY <1>4, <1>5
    <3>3. ~async => recvs'[o] = <<t>> /\ waiting'[o] = t
      BY <1>1, <1>2, <1>5
    <3>4. ~async => Open(o) = {}
      <4>1. ~async => Cardinality(Open(o)) = 0
        BY <1>1, <1>5 DEF ClientInv, AnswerInv, Counted
      <4> QED BY <4>1, OpenFinite, FS_EmptySet
    <3>5. \A u \in Open(o)' : ~op'[u].async => recvs'[o] = <<u>> /\ waiting'[o] = u
      BY <1>2, <3>1, <3>2, <3>3
    <3>6. ASSUME NEW n \in 1 .. Len(recvs'[o])
          PROVE  /\ recvs'[o][n] \in Gets' /\ Owner(recvs'[o][n]) = o
                 /\ ~op'[recvs'[o][n]].async => recvs'[o][n] \in Open(o)'
      <4>1. CASE n \in 1 .. Len(recvs[o])
        <5>1. recvs'[o][n] = recvs[o][n] /\ o \in Client
          BY <1>5, <4>1
        <5>2. /\ recvs[o][n] \in Gets /\ Owner(recvs[o][n]) = o
              /\ ~op[recvs[o][n]].async => recvs[o][n] \in Open(o)
          BY <4>1, <5>1 DEF ClientInv, AnswerInv, Blocking
        <5>3. op'[recvs[o][n]] = op[recvs[o][n]]
          BY <1>9, <5>2
        <5> QED BY <1>3, <1>4, <5>1, <5>2, <5>3
      <4>2. CASE n = Len(recvs[o]) + 1
        BY <1>3, <1>4, <1>5, <4>2 DEF o
      <4> QED BY <1>5, <4>1, <4>2
    <3> QED BY <2>2, <3>5, <3>6
  <2> QED BY <2>1, <2>2
<1>11. Sent'
  <2> SUFFICES ASSUME NEW c \in Client, NEW n \in 1 .. Len(back[c])
               PROVE  \E u \in Open(c)' : AnswerOf(back[c][n], u)'
    BY <1>1 DEF Sent
  <2>1. PICK u \in Open(c) : AnswerOf(back[c][n], u)
    BY DEF ClientInv, AnswerInv, Sent
  <2>2. u \in Open(c)' /\ op'[u] = op[u]
    BY <1>4, <1>9, <2>1 DEF Open
  <2> QED BY <1>1, <1>2, <2>1, <2>2 DEF AnswerOf
<1>12. Distinct' /\ OwnAnswer'
  BY <1>1, <1>2, <1>3 DEF ClientInv, AnswerInv, Distinct, OwnAnswer
<1> QED BY <1>2, <1>6, <1>7, <1>8, <1>10, <1>11, <1>12 DEF ClientInv, AnswerInv

-----------------------------------------------------------------------------
LEMMA PutReturnsKeeps == ASSUME ClientInv, NEW t \in Task, PutReturns(t) PROVE ClientInv'
<1>1. t \in Puts /\ Release(t) /\ UNCHANGED <<vars, op, back, recvs, answer>>
  BY DEF PutReturns
<1>2. TypeInv' /\ UNCHANGED <<pc, call>>
  <2>1. UNCHANGED vars
    BY <1>1
  <2> QED BY <2>1, TypeStep DEF ClientInv, vars
<1>3. ClientTyped'
  BY <1>1, OwnerType DEF Release, ClientInv, ClientTyped
<1>4. Gets' = Gets /\ \A c : Open(c)' = Open(c)
  BY <1>1 DEF Gets, Puts, Open
<1>5. Called' /\ Counted' /\ Sent' /\ Distinct' /\ OwnAnswer'
  BY <1>1, <1>2, <1>4
     DEF ClientInv, AnswerInv, Called, Counted, Sent, AnswerOf, Distinct, OwnAnswer
<1>6. Blocking'
  <2> SUFFICES ASSUME NEW c \in Client, NEW u \in Open(c), waiting[c] = u
               PROVE  waiting'[c] = u
    BY <1>1, <1>4 DEF ClientInv, AnswerInv, Blocking
  <2>1. u # t
    BY <1>1 DEF Open, Gets
  <2> QED BY <1>1, <2>1 DEF Release, ClientInv, ClientTyped
<1> QED BY <1>2, <1>3, <1>5, <1>6 DEF ClientInv, AnswerInv

\* The first recv takes the first answer: that of some open get, its own if it blocks.
LEMMA ReceiveKeeps == ASSUME ClientInv, NEW o \in Client, Receive(o) PROVE ClientInv'
<1> DEFINE t == Head(recvs[o])
           m == Head(back[o])
<1>1. /\ recvs[o] # <<>> /\ back[o] # <<>>
      /\ answer' = [answer EXCEPT ![IF op[t].async THEN m.query ELSE t] = m.data]
      /\ Release(t)
      /\ recvs' = [recvs EXCEPT ![o] = Tail(@)] /\ back' = [back EXCEPT ![o] = Tail(@)]
      /\ UNCHANGED <<vars, op>>
  BY DEF Receive
<1>2. TypeInv' /\ UNCHANGED <<pc, call>>
  <2>1. UNCHANGED vars
    BY <1>1
  <2> QED BY <2>1, TypeStep DEF ClientInv, vars
<1>3. /\ recvs[o] \in Seq(Task) /\ back[o] \in Seq(Message)
      /\ recvs \in [Client -> Seq(Task)] /\ back \in [Client -> Seq(Message)]
  BY DEF ClientInv, ClientTyped
<1>4. /\ t = recvs[o][1] /\ 1 \in 1 .. Len(recvs[o]) /\ Len(Tail(recvs[o])) = Len(recvs[o]) - 1
      /\ Tail(recvs[o]) \in Seq(Task)
      /\ \A n \in 1 .. Len(Tail(recvs[o])) :
            n + 1 \in 1 .. Len(recvs[o]) /\ Tail(recvs[o])[n] = recvs[o][n + 1]
  BY <1>1, <1>3
<1>5. /\ m = back[o][1] /\ 1 \in 1 .. Len(back[o]) /\ Len(Tail(back[o])) = Len(back[o]) - 1
      /\ m \in Message /\ Tail(back[o]) \in Seq(Message)
      /\ \A n \in 1 .. Len(Tail(back[o])) :
            n + 1 \in 1 .. Len(back[o]) /\ Tail(back[o])[n] = back[o][n + 1]
  BY <1>1, <1>3
<1> HIDE DEF t, m
<1>6. t \in Gets /\ Owner(t) = o /\ (~op[t].async => t \in Open(o))
  BY <1>4 DEF ClientInv, AnswerInv, Blocking
<1>7. PICK u \in Open(o) : AnswerOf(m, u)
  BY <1>5 DEF ClientInv, AnswerInv, Sent
<1>8. u \in Task /\ u \in Gets /\ answer[u] = None /\ Owner(u) = o
  BY <1>7 DEF Open, Gets
<1>9. (IF op[t].async THEN m.query ELSE t) = u
  <2>1. CASE op[t].async
    <3>1. op[u].async
      <4> SUFFICES ASSUME ~op[u].async PROVE FALSE
        OBVIOUS
      <4>1. recvs[o] = <<u>>
        BY <1>7 DEF ClientInv, AnswerInv, Blocking
      <4> QED BY <1>4, <2>1, <4>1
    <3> QED BY <1>7, <2>1, <3>1 DEF AnswerOf
  <2>2. CASE ~op[t].async
    BY <1>6, <1>7, <2>2, BlocksAlone DEF ClientInv
  <2> QED BY <2>1, <2>2
<1>10. answer' = [answer EXCEPT ![u] = m.data] /\ m.data \in Seq(Item) /\ m.data # None
  BY <1>1, <1>5, <1>9, NoneAssumption DEF Message
<1>11. answer'[u] = m.data /\ \A v \in Task \ {u} : answer'[v] = answer[v]
  BY <1>8, <1>10 DEF ClientInv, ClientTyped
<1>12. /\ recvs'[o] = Tail(recvs[o]) /\ back'[o] = Tail(back[o])
       /\ \A c \in Client \ {o} : recvs'[c] = recvs[c] /\ back'[c] = back[c]
  BY <1>1, <1>3
<1>13. ClientTyped'
  <2>1. recvs' \in [Client -> Seq(Task)] /\ back' \in [Client -> Seq(Message)]
    BY <1>1, <1>3, <1>4, <1>5
  <2>2. answer' \in [Task -> Seq(Item) \cup {None}]
    BY <1>10 DEF ClientInv, ClientTyped
  <2>3. waiting' \in [Client -> Task \cup {None}]
    BY <1>1 DEF Release, ClientInv, ClientTyped
  <2> QED BY <1>1, <2>1, <2>2, <2>3 DEF ClientInv, ClientTyped
<1>14. Gets' = Gets
  BY <1>1 DEF Gets, Puts
<1>15. \A c \in Client : Open(c)' = Open(c) \ {u}
  BY <1>8, <1>10, <1>11, <1>14 DEF Open, Owner, Gets
<1>16. Called'
  BY <1>1, <1>2, <1>8, <1>11, <1>14 DEF ClientInv, AnswerInv, Called
<1>17. Counted'
  <2>1. \A c \in Client \ {o} : u \notin Open(c)
    BY <1>8 DEF Open
  <2>2. Cardinality(Open(o) \ {u}) = Cardinality(Open(o)) - 1
    BY <1>7, OpenFinite, FS_RemoveElement
  <2>3. \A c \in Client \ {o} : Open(c)' = Open(c)
    BY <1>15, <2>1
  <2> QED BY <1>4, <1>12, <1>15, <2>2, <2>3 DEF ClientInv, AnswerInv, Counted
<1>18. \A v \in Open(o) : ~op[v].async => v = u
  BY <1>7, BlocksAlone DEF ClientInv
<1>19. Blocking'
  <2>1. ASSUME NEW c \in Client \ {o}
        PROVE  /\ \A v \in Open(c)' : ~op[v].async => recvs'[c] = <<v>> /\ waiting'[c] = v
               /\ \A n \in 1 .. Len(recvs'[c]) :
                     /\ recvs'[c][n] \in Gets /\ Owner(recvs'[c][n]) = c
                     /\ ~op[recvs'[c][n]].async => recvs'[c][n] \in Open(c)'
    <3>1. Open(c)' = Open(c) /\ recvs'[c] = recvs[c]
      BY <1>8, <1>12, <1>15 DEF Open
    <3>2. \A v \in Open(c) : waiting[c] = v => waiting'[c] = v
      BY <1>1, <1>6 DEF Release, ClientInv, ClientTyped
    <3> QED BY <3>1, <3>2 DEF ClientInv, AnswerInv, Blocking
  <2>2. \A v \in Open(o)' : op[v].async
    BY <1>15, <1>18
  <2>3. ASSUME NEW n \in 1 .. Len(recvs'[o])
        PROVE  /\ recvs'[o][n] \in Gets /\ Owner(recvs'[o][n]) = o
               /\ op[recvs'[o][n]].async
    <3> DEFINE v == recvs[o][n + 1]
    <3>1. recvs'[o][n] = v /\ n + 1 \in 1 .. Len(recvs[o]) /\ n \in Nat \ {0}
      BY <1>4, <1>12
    <3>2. v \in Gets /\ Owner(v) = o /\ (~op[v].async => v \in Open(o))
      BY <3>1 DEF ClientInv, AnswerInv, Blocking
    <3> HIDE DEF v
    <3>3. ~op[v].async => recvs[o] = <<v>>
      BY <3>2 DEF ClientInv, AnswerInv, Blocking
    <3>4. Len(<<v>>) = 1
      OBVIOUS
    <3>5. op[v].async
      <4> SUFFICES ASSUME ~op[v].async PROVE FALSE
        OBVIOUS
      <4>1. Len(recvs[o]) = 1
        BY <3>3, <3>4
      <4> QED BY <3>1, <4>1
    <3> QED BY <3>1, <3>2, <3>5
  <2> SUFFICES ASSUME NEW c \in Client
               PROVE  /\ \A v \in Open(c)' : ~op[v].async => recvs'[c] = <<v>> /\ waiting'[c] = v
                      /\ \A n \in 1 .. Len(recvs'[c]) :
                            /\ recvs'[c][n] \in Gets /\ Owner(recvs'[c][n]) = c
                            /\ ~op[recvs'[c][n]].async => recvs'[c][n] \in Open(c)'
    BY <1>1, <1>14 DEF Blocking, Owner
  <2>4. CASE c = o
    BY <2>2, <2>3, <2>4
  <2>5. CASE c # o
    BY <2>1, <2>5
  <2> QED BY <2>4, <2>5
<1>20. ASSUME NEW c \in Client, NEW n \in 1 .. Len(back'[c])
       PROVE  \E k \in 1 .. Len(back[c]) : back'[c][n] = back[c][k] /\ (c = o => k = n + 1 /\ n > 0)
  <2>1. CASE c = o
    <3>1. back'[o] = Tail(back[o]) /\ n \in 1 .. Len(Tail(back[o]))
      BY <1>12, <2>1
    <3>2. n > 0 /\ n + 1 \in 1 .. Len(back[o]) /\ back'[o][n] = back[o][n + 1]
      BY <1>5, <3>1
    <3> QED BY <2>1, <3>2
  <2>2. CASE c # o
    BY <1>12, <2>2
  <2> QED BY <2>1, <2>2
<1>21. Sent'
  <2> SUFFICES ASSUME NEW c \in Client, NEW n \in 1 .. Len(back'[c])
               PROVE  \E v \in Open(c)' : AnswerOf(back[c][n], v)'
    BY DEF Sent
  <2>1. PICK k \in 1 .. Len(back[c]) : back'[c][n] = back[c][k] /\ (c = o => k = n + 1 /\ n > 0)
    BY <1>20
  <2>2. PICK v \in Open(c) : AnswerOf(back[c][k], v)
    BY DEF ClientInv, AnswerInv, Sent
  <2>3. v # u
    <3> SUFFICES ASSUME v = u PROVE FALSE
      OBVIOUS
    <3>1. c = o
      BY <1>8, <2>2 DEF Open
    <3>2. back[o][k].query = back[o][1].query
      BY <1>5, <1>7, <2>2, <3>1 DEF AnswerOf
    <3>3. k = 1
      BY <1>5, <3>1, <3>2 DEF ClientInv, AnswerInv, Distinct
    <3> QED BY <2>1, <3>1, <3>3
  <2>4. v \in Open(c)'
    BY <1>15, <2>2, <2>3
  <2>5. AnswerOf(back[c][n], v)'
    BY <1>1, <1>2, <2>1, <2>2 DEF AnswerOf
  <2> QED BY <2>4, <2>5
<1>22. Distinct'
  <2> SUFFICES ASSUME NEW c \in Client, NEW i \in 1 .. Len(back'[c]), NEW j \in 1 .. Len(back'[c]),
                      back'[c][i].query = back'[c][j].query
               PROVE  i = j
    BY DEF Distinct
  <2>1. CASE c = o
    <3>1. /\ i + 1 \in 1 .. Len(back[o]) /\ j + 1 \in 1 .. Len(back[o])
          /\ back'[o][i] = back[o][i + 1] /\ back'[o][j] = back[o][j + 1]
      BY <1>5, <1>12, <2>1
    <3>2. i + 1 = j + 1
      BY <2>1, <3>1 DEF ClientInv, AnswerInv, Distinct
    <3> QED BY <3>2
  <2>2. CASE c # o
    BY <1>12, <2>2 DEF ClientInv, AnswerInv, Distinct
  <2> QED BY <2>1, <2>2
<1>23. OwnAnswer'
  BY <1>1, <1>2, <1>7, <1>8, <1>11, <1>14, GetsOp
     DEF ClientInv, AnswerInv, OwnAnswer, AnswerOf, Through
<1> QED BY <1>2, <1>13, <1>16, <1>17, <1>19, <1>21, <1>22, <1>23 DEF ClientInv, AnswerInv

-----------------------------------------------------------------------------
LEMMA OpKey == ASSUME ClientInv, NEW t \in Task, op[t] # None PROVE op[t] \in Op /\ op[t].key \in Key
BY DEF ClientInv, ClientTyped, Op

LEMMA RunPutKeeps == ASSUME ClientInv, Piped, NEW t \in Task, RunPut(t) PROVE ClientInv'
<1> DEFINE item == Head(pipe[Owner(t)])
           k == op[item].key
<1>1. /\ t \in Puts
      /\ Put(t, k, item) \/ PutNowait(t, k, item)
      /\ UNCHANGED <<op, waiting, back, recvs, answer>>
  <2>1. t \in Puts /\ UNCHANGED <<op, waiting, back, recvs, answer>>
    BY DEF RunPut
  <2>2. IF op[t].method = "put" THEN Put(t, k, item) ELSE PutNowait(t, k, item)
    BY DEF RunPut
  <2> QED BY <2>1, <2>2
<1>2. op[t] # None /\ k \in Key
  <2>1. /\ pipe[Owner(t)] \in Seq(Task) /\ pipe[Owner(t)] # <<>>
        /\ \A n \in 1 .. Len(pipe[Owner(t)]) : op[pipe[Owner(t)][n]] # None
    BY OwnerType DEF RunPut, Piped
  <2>2. item = pipe[Owner(t)][1] /\ 1 \in 1 .. Len(pipe[Owner(t)]) /\ item \in Task
    BY <2>1
  <2>3. op[item] # None
    BY <2>1, <2>2
  <2> HIDE DEF item
  <2> QED BY <1>1, <2>2, <2>3, OpKey DEF Puts
<1>3. item \in Item
  BY <1>1 DEF Put, PutNowait, ClientInv, TypeInv, TypeOK
<1> HIDE DEF k, item
<1>4. TypeInv'
  BY <1>1, <1>2, <1>3, PutTyped DEF ClientInv
<1>5. Others(t) /\ pc[t] = "new" /\ pc'[t] \in {"putting", "stored", "full"}
  BY <1>1, PutOthers DEF ClientInv
<1>6. Reply(t)
  BY <1>1, <1>5 DEF Reply
<1>7. /\ pc[t] \notin Through /\ pc'[t] \notin GetState /\ pc'[t] # "empty"
  BY <1>5 DEF Through, GetState, GetPC, PeekPC
<1> QED BY <1>1, <1>2, <1>4, <1>5, <1>6, <1>7, RunTyped, RunKeeps DEF ClientInv

LEMMA RunGetKeeps == ASSUME ClientInv, NEW t \in Task, RunGet(t) PROVE ClientInv'
<1> DEFINE k == op[t].key
<1>1. /\ t \in Gets /\ Reply(t) /\ UNCHANGED <<op, waiting, recvs, answer>>
  BY DEF RunGet
<1>2. op[t] # None /\ op[t] \in Op /\ k \in Key
  BY <1>1, OpKey DEF Gets
<1>3. op[t].method \in GetMethods
  BY <1>1, <1>2 DEF Gets, Puts, Op, PutMethods
<1>4. \/ op[t].method = "get" /\ Get(t, k)
      \/ op[t].method = "get_nowait" /\ GetNowait(t, k)
      \/ op[t].method = "get_batch" /\ \E target \in Target : GetBatch(t, k, target)
  BY <1>3 DEF RunGet, GetMethods
<1> HIDE DEF k
<1>5. TypeInv'
  <2>1. CASE Get(t, k)
    BY <1>2, <2>1, GetBodyTyped DEF Get, ClientInv
  <2>2. CASE GetNowait(t, k)
    BY <1>2, <2>2, GetNowaitTyped DEF ClientInv
  <2>3. CASE \E target \in Target : GetBatch(t, k, target)
    <3>1. <<>> \in Seq(Item) /\ Target \subseteq Nat
      BY ChannelAssumption
    <3> QED BY <1>2, <2>3, <3>1, BatchBodyTyped DEF GetBatch, ClientInv
  <2> QED BY <1>4, <2>1, <2>2, <2>3
<1>6. /\ Others(t) /\ pc[t] = "new"
      /\ pc'[t] = "empty" => op[t].method = "get_nowait"
  <2>1. CASE op[t].method = "get" /\ Get(t, k)
    BY <2>1, GetBodyOthers DEF Get, ClientInv
  <2>2. CASE op[t].method = "get_nowait" /\ GetNowait(t, k)
    BY <2>2, GetNowaitOthers DEF GetNowait, ClientInv
  <2>3. CASE op[t].method = "get_batch" /\ \E target \in Target : GetBatch(t, k, target)
    BY <2>3, BatchBodyOthers DEF GetBatch, ClientInv
  <2> QED BY <1>4, <2>1, <2>2, <2>3
<1>7. pc[t] \notin Through /\ (pc'[t] = "empty" => ~op[t].async)
  BY <1>2, <1>6 DEF Through, ClientInv, AnswerInv, Called
<1> QED BY <1>1, <1>2, <1>5, <1>6, <1>7, RunTyped, RunKeeps DEF ClientInv

LEMMA RunOnKeeps == ASSUME ClientInv, NEW t \in Task, RunOn(t) PROVE ClientInv'
<1>1. Resume(t) /\ Reply(t) /\ UNCHANGED <<op, waiting, recvs, answer>>
  BY DEF RunOn
<1>2. TypeInv'
  BY <1>1, TypeStep DEF Next, ClientInv
<1>3. /\ Others(t) /\ pc[t] \notin Through \cup {"new"}
      /\ \/ pc'[t] \notin GetState
         \/ pc[t] \in GetState /\ pc'[t] # "empty"
  BY <1>1, ResumeOthers DEF ClientInv
<1>4. /\ op[t] # None /\ (pc'[t] \in GetState => t \in Gets) /\ pc'[t] # "empty"
  BY <1>3 DEF ClientInv, AnswerInv, Called, GetState, Through
<1> QED BY <1>1, <1>2, <1>3, <1>4, RunTyped, RunKeeps DEF ClientInv

LEMMA ClientStutter == ASSUME ClientInv, UNCHANGED <<vars, client>> PROVE ClientInv'
<1>1. UNCHANGED vars /\ UNCHANGED <<op, waiting, back, recvs, answer>>
  BY DEF client
<1>2. TypeInv' /\ UNCHANGED <<pc, call>>
  BY <1>1, TypeStep DEF ClientInv, vars
<1>3. Gets' = Gets /\ \A c : Open(c)' = Open(c)
  BY <1>1 DEF Gets, Puts, Open
<1>4. AnswerInv'
  BY <1>1, <1>2, <1>3
     DEF ClientInv, AnswerInv, Called, Counted, Blocking, Sent, AnswerOf, Distinct, OwnAnswer
<1> QED BY <1>1, <1>2, <1>4 DEF ClientInv, ClientTyped

LEMMA ClientStep ==
    ASSUME ~MixGets, ClientInv, Piped, [ClientNext]_<<vars, client>>
    PROVE  ClientInv'
<1>1. ASSUME NEW t \in Task, op[t] = None, NEW k \in Key, NEW async \in BOOLEAN, NEW method,
             CallPut(t, method, k, async) \/ CallGet(t, method, k, async)
      PROVE  ClientInv'
  BY <1>1, CallPutKeeps, CallGetKeeps
<1>2. ASSUME NEW t \in Task, RunPut(t) \/ RunGet(t) \/ RunOn(t) \/ PutReturns(t) PROVE ClientInv'
  BY <1>2, RunPutKeeps, RunGetKeeps, RunOnKeeps, PutReturnsKeeps
<1>3. ASSUME NEW c \in Client, Receive(c) PROVE ClientInv'
  BY <1>3, ReceiveKeeps
<1> QED BY <1>1, <1>2, <1>3, ClientStutter DEF ClientNext

\* A call stays, and only CallPut adds to the pipe.
LEMMA PipedCall ==
    ASSUME ClientInv, Piped, NEW t \in Task, op[t] = None,
           NEW method, NEW k \in Key, NEW async \in BOOLEAN,
           CallPut(t, method, k, async) \/ CallGet(t, method, k, async)
    PROVE  Piped'
<1>1. Begin(t, method, k, async) /\ method \in PutMethods \cup GetMethods
  BY DEF CallPut, CallGet, PutMethods, GetMethods
<1>2. op'[t] # None /\ \A u \in Task : op[u] # None => op'[u] # None
  <2> DEFINE r == [method |-> method, key |-> k, async |-> async]
  <2>1. op' = [op EXCEPT ![t] = r] /\ op \in [Task -> Op \cup {None}]
    BY <1>1 DEF Begin, ClientInv, ClientTyped
  <2>2. r # None
    BY <1>1, NoneAssumption DEF PutMethods, GetMethods
  <2> HIDE DEF r
  <2> QED BY <2>1, <2>2
<1>3. pipe' = pipe \/ pipe' = [pipe EXCEPT ![Owner(t)] = Append(@, t)]
  BY DEF CallPut, CallGet
<1>4. pipe' \in [Client -> Seq(Task)]
  <2>1. pipe \in [Client -> Seq(Task)] /\ Owner(t) \in Client
    BY OwnerType DEF Piped
  <2>2. Append(pipe[Owner(t)], t) \in Seq(Task)
    BY <2>1, AppendFacts
  <2> QED BY <1>3, <2>1, <2>2
<1>5. ASSUME NEW c \in Client, NEW n \in 1 .. Len(pipe'[c])
      PROVE  pipe'[c][n] = t \/ (n \in 1 .. Len(pipe[c]) /\ pipe'[c][n] = pipe[c][n])
  <2>1. pipe[c] \in Seq(Task) /\ (pipe'[c] = pipe[c] \/ pipe'[c] = Append(pipe[c], t))
    BY <1>3 DEF Piped
  <2>2. CASE pipe'[c] = pipe[c]
    BY <2>2
  <2>3. CASE pipe'[c] = Append(pipe[c], t)
    <3>1. /\ Len(pipe'[c]) = Len(pipe[c]) + 1 /\ pipe'[c][Len(pipe[c]) + 1] = t
          /\ \A m \in 1 .. Len(pipe[c]) : pipe'[c][m] = pipe[c][m]
      BY <2>1, <2>3, AppendFacts
    <3>2. n \in 1 .. Len(pipe[c]) \/ n = Len(pipe[c]) + 1
      BY <2>1, <3>1
    <3> QED BY <3>1, <3>2
  <2> QED BY <2>1, <2>2, <2>3
<1>6. \A c \in Client : \A n \in 1 .. Len(pipe[c]) : pipe[c][n] \in Task
  BY DEF Piped
<1> QED BY SMTT(30), <1>2, <1>4, <1>5, <1>6 DEF Piped

LEMMA PipedStep ==
    ASSUME ClientInv, Piped, [ClientNext]_<<vars, client>>
    PROVE  Piped'
<1>1. ASSUME NEW t \in Task, op[t] = None, NEW k \in Key, NEW async \in BOOLEAN, NEW method,
             CallPut(t, method, k, async) \/ CallGet(t, method, k, async)
      PROVE  Piped'
  BY <1>1, PipedCall
<1>2. ASSUME NEW t \in Task, RunPut(t) PROVE Piped'
  <2>1. op' = op /\ pipe[Owner(t)] # <<>> /\ pipe' = [pipe EXCEPT ![Owner(t)] = Tail(@)]
    BY <1>2 DEF RunPut
  <2>2. /\ pipe \in [Client -> Seq(Task)] /\ Owner(t) \in Client
        /\ Tail(pipe[Owner(t)]) \in Seq(Task)
        /\ \A n \in 1 .. Len(Tail(pipe[Owner(t)])) :
              n + 1 \in 1 .. Len(pipe[Owner(t)]) /\ Tail(pipe[Owner(t)])[n] = pipe[Owner(t)][n + 1]
    <3>1. pipe \in [Client -> Seq(Task)] /\ Owner(t) \in Client
      BY <1>2, OwnerType DEF Piped
    <3> DEFINE s == pipe[Owner(t)]
    <3>2. s \in Seq(Task) /\ s # <<>>
      BY <2>1, <3>1
    <3> HIDE DEF s
    <3>3. /\ Tail(s) \in Seq(Task)
          /\ \A n \in 1 .. Len(Tail(s)) : n + 1 \in 1 .. Len(s) /\ Tail(s)[n] = s[n + 1]
      BY <3>2
    <3> QED BY <3>1, <3>3 DEF s
  <2>3. pipe' \in [Client -> Seq(Task)]
    BY <2>1, <2>2
  <2>4. ASSUME NEW c \in Client, NEW n \in 1 .. Len(pipe'[c]) PROVE op[pipe'[c][n]] # None
    <3>1. CASE c = Owner(t)
      BY <2>1, <2>2, <3>1 DEF Piped
    <3>2. CASE c # Owner(t)
      BY <2>1, <2>2, <3>2 DEF Piped
    <3> QED BY <3>1, <3>2
  <2> QED BY <2>1, <2>3, <2>4 DEF Piped
<1>3. CASE UNCHANGED <<op, pipe>>
  BY <1>3 DEF Piped
<1>4. ASSUME NEW t \in Task, RunGet(t) \/ RunOn(t) \/ PutReturns(t) PROVE UNCHANGED <<op, pipe>>
  BY <1>4 DEF RunGet, RunOn, PutReturns
<1>5. ASSUME NEW c \in Client, Receive(c) PROVE UNCHANGED <<op, pipe>>
  BY <1>5 DEF Receive
<1>6. CASE UNCHANGED <<vars, client>>
  BY <1>3, <1>6 DEF client
<1> QED BY <1>1, <1>2, <1>3, <1>4, <1>5, <1>6 DEF ClientNext

\* A get returns what the channel worker took from the queue for it, though the pipe that brings
\* the answers is shared by all gets of the client and says nothing to those that block, as long as
\* none that blocks is called while others are outstanding (channel.py, async_work.py:331-404).
THEOREM OwnAnswerHolds == ASSUME ~MixGets PROVE ClientSpec => []OwnAnswer
<1>1. ClientInv /\ Piped /\ [ClientNext]_<<vars, client>> => (ClientInv /\ Piped)'
  BY ClientStep, PipedStep
<1>2. ClientInit => Piped
  BY DEF ClientInit, Piped
<1>3. ClientInv => OwnAnswer
  BY DEF ClientInv, AnswerInv
<1> QED BY <1>1, <1>2, <1>3, ClientInitInv, PTL DEF ClientSpec

-----------------------------------------------------------------------------
\* The puts of a client.

\* The calls of a client are made in the order of their numbers.
Numbered == \A t \in Task : op[t] # None => \A n \in 1 .. t[2] : op[<<t[1], n>>] # None

\* A put of the channel worker is one of a client, and has the item of its own call.
OwnItem ==
    \A t \in Task : /\ pc[t] \in PutState => t \in Puts /\ call[t].items = <<t>>
                    /\ op[t] = None => pc[t] = "new"

\* A remote call that has not begun is new, and a put among them is the first of its chain.
Made ==
    \A t \in rpcs : /\ t \in Task /\ op[t] # None /\ pc[t] = "new"
                    /\ t \in Puts => /\ chain[Owner(t)][op[t].key] # <<>>
                                     /\ Head(chain[Owner(t)][op[t].key]) = t

\* What is in the pipe, for the one key of which the client has puts outstanding.
Piping(c, s) ==
    s # <<>> => pipe[c] = IF pc[Head(s)] = "new" THEN s ELSE Tail(s)

\* A chain has the puts of its key in their order, and only its first one may have begun.
Chain(c, k) ==
    LET s == chain[c][k]
    IN  /\ \A n \in 1 .. Len(s) : s[n] \in Puts /\ Owner(s[n]) = c /\ op[s[n]].key = k
        /\ \A n \in 2 .. Len(s) : pc[s[n]] = "new"
        /\ \A m, n \in 1 .. Len(s) : m < n => s[m][2] < s[n][2]
        /\ Piping(c, s)
        /\ \A other \in Key \ {k} : s # <<>> => chain[c][other] = <<>>

Chains ==
    \A c \in Client : /\ \A k \in Key : Chain(c, k)
                      /\ (\A k \in Key : chain[c][k] = <<>>) => pipe[c] = <<>>

\* A put that is in no chain any more has returned, before those that are.
Returned ==
    \A t \in Puts :
        LET s == chain[Owner(t)][op[t].key]
        IN  \/ \E n \in 1 .. Len(s) : s[n] = t
            \/ pc[t] = "stored" /\ \A n \in 1 .. Len(s) : t[2] < s[n][2]

PutTypes ==
    /\ op \in [Task -> Op \cup {None}]
    /\ pipe \in [Client -> Seq(Task)]
    /\ chain \in [Client -> [Key -> Seq(Task)]]
    /\ rpcs \subseteq Task

OrderInv ==
    TypeInv /\ PutTypes /\ Numbered /\ OwnItem /\ Made /\ Chains /\ Returned

LEMMA PutsOp == ASSUME NEW t \in Puts PROVE t \in Task /\ op[t] # None /\ t \notin Gets
BY DEF Puts, Gets

LEMMA OrderTypes ==
    ASSUME OrderInv, NEW c \in Client, NEW k \in Key
    PROVE  /\ chain[c][k] \in Seq(Task) /\ pipe[c] \in Seq(Task) /\ Chain(c, k)
           /\ Len(chain[c][k]) \in Nat /\ chain[c] \in [Key -> Seq(Task)]
BY DEF OrderInv, PutTypes, Chains

LEMMA OrderKey ==
    ASSUME OrderInv, NEW t \in Task, op[t] # None
    PROVE  op[t].key \in Key /\ Owner(t) \in Client
BY OwnerType DEF OrderInv, PutTypes, Op

\* Chains in which nothing but the channel worker's tasks moved.
LEMMA ChainsKept ==
    ASSUME OrderInv, UNCHANGED <<op, pipe, chain>>, TypeInv', rpcs' \subseteq rpcs,
           \A u \in rpcs' : pc'[u] = pc[u],
           \A u \in Puts : (pc'[u] = "new" <=> pc[u] = "new") /\ (pc[u] = "stored" => pc'[u] = "stored"),
           \A u \in Task : op[u] = None => pc'[u] = "new",
           \A u \in Task : pc'[u] \in PutState => u \in Puts /\ call'[u].items = <<u>>
    PROVE  OrderInv'
<1>1. Puts' = Puts
  BY DEF Puts
<1>2. PutTypes' /\ Numbered' /\ OwnItem'
  BY <1>1 DEF OrderInv, PutTypes, Numbered, OwnItem
<1>3. Made'
  BY <1>1 DEF OrderInv, Made
<1>4. ASSUME NEW c \in Client, NEW k \in Key PROVE Chain(c, k)'
  <2> DEFINE s == chain[c][k]
  <2>1. s \in Seq(Task) /\ Chain(c, k)
    BY OrderTypes
  <2>2. \A n \in 1 .. Len(s) : s[n] \in Puts
    BY <2>1 DEF Chain
  <2>3. s # <<>> => Head(s) \in Puts
    BY <2>1, <2>2
  <2>4. Piping(c, s)'
    BY <2>1, <2>3 DEF Piping, Chain
  <2>5. \A n \in 2 .. Len(s) : s[n] \in Puts
    BY <2>2
  <2> QED BY <1>1, <2>1, <2>4, <2>5 DEF Chain
<1>5. Chains'
  BY <1>4 DEF OrderInv, Chains
<1>6. Returned'
  BY <1>1 DEF OrderInv, Returned
<1> QED BY <1>2, <1>3, <1>5, <1>6 DEF OrderInv

\* The remote call of a put that begins takes its own item from the pipe.
LEMMA TakesOwn ==
    ASSUME OrderInv, NEW t \in Task, RunPut(t)
    PROVE  LET s == chain[Owner(t)][op[t].key]
           IN  /\ t \in Puts /\ op[t].key \in Key /\ Owner(t) \in Client /\ s # <<>>
               /\ Head(s) = t /\ pipe[Owner(t)] = s /\ Head(pipe[Owner(t)]) = t
<1>1. t \in Puts /\ t \in rpcs
  BY DEF RunPut
<1>2. op[t].key \in Key /\ Owner(t) \in Client
  BY <1>1, PutsOp, OrderKey
<1> DEFINE s == chain[Owner(t)][op[t].key]
<1>3. s # <<>> /\ Head(s) = t /\ pc[t] = "new"
  BY <1>1 DEF OrderInv, Made
<1>4. Piping(Owner(t), s)
  BY <1>2, OrderTypes DEF Chain
<1> QED BY <1>1, <1>2, <1>3, <1>4 DEF Piping

LEMMA RunPutOrder == ASSUME OrderInv, NEW t \in Task, RunPut(t) PROVE OrderInv'
<1> DEFINE c == Owner(t)
           k == op[t].key
           s == chain[c][k]
<1>1. /\ t \in Puts /\ k \in Key /\ c \in Client /\ s # <<>> /\ Head(s) = t /\ pipe[c] = s
      /\ Head(pipe[c]) = t
  BY TakesOwn
<1>2. /\ Put(t, k, t) \/ PutNowait(t, k, t)
      /\ rpcs' = rpcs \ {t} /\ pipe' = [pipe EXCEPT ![c] = Tail(@)]
      /\ op' = op /\ chain' = chain
  <2>1. IF op[t].method = "put" THEN Put(t, k, t) ELSE PutNowait(t, k, t)
    BY <1>1 DEF RunPut
  <2> QED BY <2>1 DEF RunPut
<1>3. t \in Item /\ TypeInv
  BY ClientAssumption DEF OrderInv
<1>4. TypeInv'
  BY <1>1, <1>2, <1>3, PutTyped
<1>5. Others(t) /\ pc[t] = "new" /\ pc'[t] \in {"putting", "stored", "full"}
  BY <1>2, <1>3, PutOthers
<1>6. call'[t].items = <<t>>
  <2>1. call' = [call EXCEPT ![t] = Locals(k, <<t>>, 0)] /\ call \in [Task -> Call]
    BY <1>2, <1>3 DEF Put, PutNowait, TypeInv, TypeOK
  <2> QED BY <2>1 DEF Locals
<1>7. Puts' = Puts
  BY <1>2 DEF Puts
<1> HIDE DEF c, k
<1>8. /\ s \in Seq(Task) /\ pipe \in [Client -> Seq(Task)] /\ s[1] = t /\ Len(s) \in Nat
      /\ 1 \in 1 .. Len(s) /\ Chain(c, k)
  <2>1. s \in Seq(Task) /\ pipe \in [Client -> Seq(Task)] /\ Chain(c, k)
    BY <1>1, OrderTypes DEF OrderInv, PutTypes
  <2> QED BY <1>1, <2>1
<1>9. Tail(s) \in Seq(Task) /\ pipe'[c] = Tail(s) /\ \A o \in Client \ {c} : pipe'[o] = pipe[o]
  BY <1>1, <1>2, <1>8
<1>10. PutTypes'
  <2>1. pipe' \in [Client -> Seq(Task)]
    BY <1>1, <1>2, <1>8, <1>9
  <2> QED BY <1>2, <2>1 DEF OrderInv, PutTypes
<1>11. Numbered'
  BY <1>2 DEF OrderInv, Numbered
<1>12. OwnItem'
  <2> SUFFICES ASSUME NEW u \in Task
               PROVE  /\ pc'[u] \in PutState => u \in Puts /\ call'[u].items = <<u>>
                      /\ op[u] = None => pc'[u] = "new"
    BY <1>2, <1>7 DEF OwnItem
  <2>1. CASE u = t
    BY <1>1, <1>6, <2>1, PutsOp
  <2>2. CASE u # t
    BY <1>5, <2>2 DEF Others, OrderInv, OwnItem
  <2> QED BY <2>1, <2>2
<1>13. Made'
  <2> SUFFICES ASSUME NEW u \in rpcs, u # t
               PROVE  /\ u \in Task /\ op[u] # None /\ pc'[u] = "new"
                      /\ u \in Puts => /\ chain[Owner(u)][op[u].key] # <<>>
                                       /\ Head(chain[Owner(u)][op[u].key]) = u
    BY <1>2, <1>7 DEF Made
  <2>1. /\ u \in Task /\ op[u] # None /\ pc[u] = "new"
        /\ u \in Puts => /\ chain[Owner(u)][op[u].key] # <<>>
                         /\ Head(chain[Owner(u)][op[u].key]) = u
    BY DEF OrderInv, Made
  <2> QED BY <1>5, <2>1 DEF Others
<1>14. ASSUME NEW o \in Client, NEW l \in Key, o = c => l = k PROVE Chain(o, l)'
  <2> DEFINE z == chain[o][l]
  <2>1. z \in Seq(Task) /\ Chain(o, l)
    BY OrderTypes
  <2>2. \A n \in 1 .. Len(z) : z[n] \in Puts /\ Owner(z[n]) = o /\ op[z[n]].key = l /\ z[n] \in Task
    BY <2>1, PutsOp DEF Chain
  <2>3. o # c => \A n \in 1 .. Len(z) : z[n] # t
    BY <2>2 DEF c
  <2>4. o = c => \A n \in 2 .. Len(z) : z[n] # t
    <3> SUFFICES ASSUME o = c, NEW n \in 2 .. Len(z) PROVE z[n] # t
      OBVIOUS
    <3>1. z = s /\ n \in 1 .. Len(s) /\ 1 < n
      BY <1>8, <1>14
    <3>2. s[1][2] < s[n][2] /\ s[1][2] \in Nat
      <4>1. s[1][2] < s[n][2]
        BY <1>8, <3>1 DEF Chain
      <4> QED BY <1>8, <4>1, ClientAssumption
    <3> QED BY <1>8, <3>1, <3>2
  <2>5. \A n \in 2 .. Len(z) : z[n] # t /\ n \in 1 .. Len(z)
    BY <2>3, <2>4
  <2>6. \A n \in 2 .. Len(z) : pc'[z[n]] = "new"
    BY <1>5, <2>1, <2>2, <2>5 DEF Chain, Others
  <2>7. Piping(o, z)'
    <3>1. CASE o = c
      <4>1. z = s /\ Head(z) = t /\ pc'[t] # "new"
        BY <1>1, <1>5, <1>14, <3>1
      <4> QED BY <1>2, <1>9, <3>1, <4>1 DEF Piping
    <3>2. CASE o # c
      <4>1. z # <<>> => (pc'[Head(z)] = "new" <=> pc[Head(z)] = "new")
        <5>1. z # <<>> => Head(z) = z[1] /\ 1 \in 1 .. Len(z)
          BY <2>1
        <5> QED BY <1>5, <2>2, <2>3, <3>2, <5>1 DEF Others
      <4>2. Piping(o, z)
        BY <2>1 DEF Chain
      <4> QED BY <1>2, <1>9, <3>2, <4>1, <4>2 DEF Piping
    <3> QED BY <3>1, <3>2
  <2> QED BY <1>2, <1>7, <2>1, <2>2, <2>6, <2>7 DEF Chain
<1>15. ASSUME NEW l \in Key, l # k PROVE Chain(c, l)'
  <2>1. chain[c][l] = <<>>
    BY <1>1, <1>8, <1>15 DEF Chain
  <2> QED BY <1>2, <2>1 DEF Chain, Piping
<1>16. Chains'
  <2>1. ASSUME NEW o \in Client, \A l \in Key : chain[o][l] = <<>> PROVE pipe'[o] = <<>>
    <3>1. o # c
      BY SMTT(30), <1>1, <2>1
    <3> QED BY <1>9, <2>1, <3>1 DEF OrderInv, Chains
  <2> QED BY <1>2, <1>14, <1>15, <2>1 DEF Chains
<1>17. Returned'
  <2> SUFFICES ASSUME NEW u \in Puts
               PROVE  LET z == chain[Owner(u)][op[u].key]
                      IN  \/ \E n \in 1 .. Len(z) : z[n] = u
                          \/ pc'[u] = "stored" /\ \A n \in 1 .. Len(z) : u[2] < z[n][2]
    BY <1>2, <1>7 DEF Returned
  <2>1. LET z == chain[Owner(u)][op[u].key]
        IN  \/ \E n \in 1 .. Len(z) : z[n] = u
            \/ pc[u] = "stored" /\ \A n \in 1 .. Len(z) : u[2] < z[n][2]
    BY DEF OrderInv, Returned
  <2>2. u \in Task /\ (pc[u] = "stored" => pc'[u] = "stored")
    BY <1>5, PutsOp DEF Others
  <2> QED BY <2>1, <2>2
<1> QED BY <1>4, <1>10, <1>11, <1>12, <1>13, <1>16, <1>17 DEF OrderInv

LEMMA GetTyped ==
    ASSUME TypeInv, NEW t \in Task, NEW k \in Key,
           Get(t, k) \/ GetNowait(t, k) \/ \E target \in Target : GetBatch(t, k, target)
    PROVE  /\ TypeInv' /\ Others(t) /\ pc[t] = "new"
           /\ pc'[t] \in {"getting", "done", "peeking", "batched", "empty"}
<1>1. CASE Get(t, k)
  BY <1>1, GetBodyTyped, GetBodyOthers DEF Get
<1>2. CASE GetNowait(t, k)
  BY <1>2, GetNowaitTyped, GetNowaitOthers DEF GetNowait
<1>3. ASSUME NEW target \in Target, GetBatch(t, k, target)
      PROVE  TypeInv' /\ Others(t) /\ pc[t] = "new" /\ pc'[t] \in {"peeking", "batched"}
  <2>1. <<>> \in Seq(Item) /\ target \in Nat
    BY ChannelAssumption
  <2> QED BY <1>3, <2>1, BatchBodyTyped, BatchBodyOthers DEF GetBatch
<1> QED BY <1>1, <1>2, <1>3

LEMMA RunGetOrder == ASSUME OrderInv, NEW t \in Task, RunGet(t) PROVE OrderInv'
<1>1. t \in Gets /\ op[t] # None /\ t \notin Puts
  BY DEF RunGet, Gets
<1>2. op[t].key \in Key
  BY <1>1, OrderKey
<1>3. op[t].method \in GetMethods
  BY <1>1 DEF Puts, Op, OrderInv, PutTypes, PutMethods
<1>4. \/ Get(t, op[t].key) \/ GetNowait(t, op[t].key)
      \/ \E target \in Target : GetBatch(t, op[t].key, target)
  BY <1>3 DEF RunGet, GetMethods
<1>5. /\ TypeInv' /\ Others(t) /\ pc[t] = "new"
      /\ pc'[t] \in {"getting", "done", "peeking", "batched", "empty"}
  BY <1>2, <1>4, GetTyped DEF OrderInv
<1>6. UNCHANGED <<op, pipe, chain>> /\ rpcs' = rpcs \ {t}
  BY DEF RunGet
<1>7. \A u \in rpcs' : pc'[u] = pc[u]
  BY <1>5, <1>6 DEF Others, OrderInv, Made
<1>8. \A u \in Puts : (pc'[u] = "new" <=> pc[u] = "new") /\ (pc[u] = "stored" => pc'[u] = "stored")
  BY <1>1, <1>5, PutsOp DEF Others
<1>9. \A u \in Task : op[u] = None => pc'[u] = "new"
  BY <1>1, <1>5 DEF Others, OrderInv, OwnItem
<1>10. \A u \in Task : pc'[u] \in PutState => u \in Puts /\ call'[u].items = <<u>>
  <2>1. pc'[t] \notin PutState
    BY <1>5 DEF PutState, PutPC
  <2> QED BY <1>5, <2>1 DEF Others, OrderInv, OwnItem
<1> QED BY <1>5, <1>6, <1>7, <1>8, <1>9, <1>10, ChainsKept

\* A coroutine that goes on remains a put, or a get, and has begun before.
LEMMA ResumeKinds ==
    ASSUME TypeInv, NEW t \in Task, Resume(t)
    PROVE  /\ pc[t] \notin {"new", "stored"} /\ pc'[t] # "new"
           /\ pc'[t] \in PutState => pc[t] \in PutState /\ call'[t] = call[t]
<1>1. pc[t] \in {"put_woken", "get_woken", "peek_woken"}
  BY DEF Resume, PutResume, GetResume, GetBatchResume
<1>2. CASE PutResume(t)
  <2>1. pc'[t] \in {"putting", "stored"}
    BY <1>2 DEF PutResume, PutBody, Append1, Switch
  <2> QED BY <1>1, <1>2, <2>1 DEF PutResume, PutState, PutPC
<1>3. CASE GetResume(t) \/ GetBatchResume(t)
  <2>1. pc'[t] \in {"getting", "done", "peeking", "batched"}
    <3>1. CASE GetResume(t)
      BY <3>1, GetBodyOthers DEF GetResume
    <3>2. CASE GetBatchResume(t)
      BY <3>2, BatchBodyOthers DEF GetBatchResume
    <3> QED BY <1>3, <3>1, <3>2
  <2> QED BY <1>1, <2>1 DEF PutState, PutPC
<1> QED BY <1>2, <1>3 DEF Resume

LEMMA RunOnOrder == ASSUME OrderInv, NEW t \in Task, RunOn(t) PROVE OrderInv'
<1>1. Resume(t) /\ UNCHANGED <<op, pipe, chain, rpcs>> /\ TypeInv
  BY DEF RunOn, OrderInv
<1>2. TypeInv' /\ Others(t)
  BY <1>1, TypeStep, ResumeOthers DEF Next
<1>3. /\ pc[t] \notin {"new", "stored"} /\ pc'[t] # "new"
      /\ pc'[t] \in PutState => pc[t] \in PutState /\ call'[t] = call[t]
  BY <1>1, ResumeKinds
<1>4. \A u \in rpcs' : pc'[u] = pc[u]
  BY <1>1, <1>2, <1>3 DEF Others, OrderInv, Made
<1>5. \A u \in Puts : (pc'[u] = "new" <=> pc[u] = "new") /\ (pc[u] = "stored" => pc'[u] = "stored")
  BY <1>2, <1>3, PutsOp DEF Others
<1>6. \A u \in Task : op[u] = None => pc'[u] = "new"
  BY <1>2, <1>3 DEF Others, OrderInv, OwnItem
<1>7. \A u \in Task : pc'[u] \in PutState => u \in Puts /\ call'[u].items = <<u>>
  <2> SUFFICES ASSUME NEW u \in Task, pc'[u] \in PutState PROVE u \in Puts /\ call'[u].items = <<u>>
    OBVIOUS
  <2>1. pc[u] \in PutState /\ call'[u] = call[u]
    BY <1>2, <1>3 DEF Others
  <2> QED BY <2>1 DEF OrderInv, OwnItem
<1> QED BY <1>1, <1>2, <1>4, <1>5, <1>6, <1>7, ChainsKept

\* A call that is made comes after all others of its client, and changes nothing but op.
LEMMA CallOrder ==
    ASSUME OrderInv, NEW t \in Task, op[t] = None, NEW method \in PutMethods \cup GetMethods,
           NEW k \in Key, NEW async \in BOOLEAN, Begin(t, method, k, async)
    PROVE  /\ op' \in [Task -> Op \cup {None}] /\ op'[t] # None /\ op'[t].key = k
           /\ \A u \in Task \ {t} : op'[u] = op[u]
           /\ t \in Puts' <=> method \in PutMethods
           /\ \A u \in Task \ {t} : u \in Puts' <=> u \in Puts
           /\ \A u \in Puts : Owner(u) = Owner(t) => u[2] < t[2]
           /\ TypeInv' /\ UNCHANGED <<pc, call>> /\ pc[t] = "new" /\ t \notin Puts
           /\ Numbered' /\ OwnItem'
<1> DEFINE r == [method |-> method, key |-> k, async |-> async]
<1>1. op' = [op EXCEPT ![t] = r] /\ r \in Op /\ r.key = k /\ r.method = method
  BY DEF Begin, Op
<1>2. r # None
  BY <1>1, NoneAssumption DEF Op, PutMethods, GetMethods
<1>3. TypeInv' /\ UNCHANGED <<pc, call>>
  <2>1. UNCHANGED vars
    BY DEF Begin
  <2> QED BY <2>1, TypeStep DEF OrderInv, vars
<1>4. pc[t] = "new" /\ t \notin Puts /\ op \in [Task -> Op \cup {None}]
  BY DEF OrderInv, OwnItem, Puts, PutTypes
<1>5. t[2] > 1 => op[<<t[1], t[2] - 1>>] # None
  BY DEF Begin, Owner
<1> HIDE DEF r
<1>6. op'[t] = r /\ (\A u \in Task \ {t} : op'[u] = op[u]) /\ op' \in [Task -> Op \cup {None}]
  BY <1>1, <1>4
<1>7. /\ t \in Puts' <=> method \in PutMethods
      /\ \A u \in Task \ {t} : u \in Puts' <=> u \in Puts
  BY <1>1, <1>2, <1>6 DEF Puts, PutMethods
<1>8. t[1] \in Client /\ t[2] \in Nat \ {0} /\ t = <<t[1], t[2]>>
  BY ClientAssumption
<1>9. ASSUME NEW u \in Puts, Owner(u) = Owner(t) PROVE u[2] < t[2]
  <2>1. u \in Task /\ op[u] # None
    BY PutsOp
  <2>2. \A n \in 1 .. u[2] : op[<<u[1], n>>] # None
    BY <2>1 DEF OrderInv, Numbered
  <2>3. u[1] = t[1] /\ u[2] \in Nat
    BY <1>9, <2>1, ClientAssumption DEF Owner
  <2>4. t[2] \notin 1 .. u[2]
    BY <1>8, <2>2, <2>3
  <2> QED BY <1>8, <2>3, <2>4
<1>10. Numbered'
  <2> SUFFICES ASSUME NEW u \in Task, op'[u] # None, NEW n \in 1 .. u[2] PROVE op'[<<u[1], n>>] # None
    BY DEF Numbered
  <2>1. <<u[1], n>> \in Task /\ u[2] \in Nat
    BY ClientAssumption
  <2>2. op[<<u[1], n>>] # None => op'[<<u[1], n>>] # None
    BY <1>2, <1>6, <2>1
  <2>3. CASE u # t
    BY <1>6, <2>2, <2>3 DEF OrderInv, Numbered
  <2>4. CASE u = t
    <3>1. CASE n = t[2]
      BY <1>2, <1>6, <1>8, <2>4, <3>1
    <3>2. CASE n # t[2]
      <4> DEFINE w == <<t[1], t[2] - 1>>
      <4>1. t[2] > 1 /\ n \in 1 .. (t[2] - 1) /\ t[2] - 1 \in 1 .. t[2]
        BY <1>8, <2>4, <3>2
      <4>2. w \in Task /\ op[w] # None /\ w[1] = t[1] /\ w[2] = t[2] - 1
        BY <1>5, <4>1, ClientAssumption
      <4> HIDE DEF w
      <4>3. op[<<t[1], n>>] # None
        <5>1. \A m \in 1 .. w[2] : op[<<w[1], m>>] # None
          BY <4>2 DEF OrderInv, Numbered
        <5> QED BY <4>1, <4>2, <5>1
      <4> QED BY <2>2, <2>4, <4>3
    <3> QED BY <3>1, <3>2
  <2> QED BY <2>3, <2>4
<1>11. OwnItem'
  <2> SUFFICES ASSUME NEW u \in Task
               PROVE  /\ pc[u] \in PutState => u \in Puts' /\ call[u].items = <<u>>
                      /\ op'[u] = None => pc[u] = "new"
    BY <1>3 DEF OwnItem
  <2>1. /\ pc[u] \in PutState => u \in Puts /\ call[u].items = <<u>>
        /\ op[u] = None => pc[u] = "new"
    BY DEF OrderInv, OwnItem
  <2> QED BY <1>2, <1>4, <1>6, <1>7, <2>1
<1> QED BY <1>1, <1>2, <1>3, <1>4, <1>6, <1>7, <1>9, <1>10, <1>11

LEMMA CallGetOrder ==
    ASSUME OrderInv, NEW t \in Task, op[t] = None, NEW method, NEW k \in Key, NEW async \in BOOLEAN,
           CallGet(t, method, k, async)
    PROVE  OrderInv'
<1>1. /\ method \in GetMethods /\ method \notin PutMethods /\ Begin(t, method, k, async)
      /\ rpcs' = rpcs \cup {t} /\ UNCHANGED <<pipe, chain>>
  BY DEF CallGet, GetMethods, PutMethods
<1>2. /\ op' \in [Task -> Op \cup {None}] /\ op'[t] # None
      /\ \A u \in Task \ {t} : op'[u] = op[u]
      /\ \A u \in Task : u \in Puts' <=> u \in Puts
      /\ TypeInv' /\ UNCHANGED <<pc, call>> /\ pc[t] = "new" /\ t \notin Puts
      /\ Numbered' /\ OwnItem'
  BY <1>1, CallOrder
<1>3. Puts' = Puts
  BY <1>2 DEF Puts
<1>4. \A u \in Puts : u \in Task /\ op'[u] = op[u]
  BY <1>2, PutsOp
<1>5. PutTypes'
  BY <1>1, <1>2 DEF OrderInv, PutTypes
<1>6. Made'
  <2> SUFFICES ASSUME NEW u \in rpcs'
               PROVE  /\ u \in Task /\ op'[u] # None /\ pc[u] = "new"
                      /\ u \in Puts => /\ chain[Owner(u)][op[u].key] # <<>>
                                       /\ Head(chain[Owner(u)][op[u].key]) = u
    BY <1>1, <1>2, <1>3, <1>4 DEF Made
  <2>1. CASE u = t
    BY <1>2, <2>1
  <2>2. CASE u # t
    BY <1>1, <1>2, <2>2 DEF OrderInv, Made
  <2> QED BY <2>1, <2>2
<1>7. Chains'
  <2>1. ASSUME NEW c \in Client, NEW l \in Key PROVE Chain(c, l)'
    BY <1>1, <1>2, <1>3, <1>4, OrderTypes DEF Chain, Piping
  <2> QED BY <1>1, <2>1 DEF OrderInv, Chains
<1>8. Returned'
  BY SMTT(30), <1>1, <1>2, <1>3, <1>4 DEF OrderInv, Returned
<1> QED BY <1>2, <1>5, <1>6, <1>7, <1>8 DEF OrderInv

LEMMA CallPutOrder ==
    ASSUME ~MixKeys, OrderInv, NEW t \in Task, op[t] = None, NEW method, NEW k \in Key,
           NEW async \in BOOLEAN, CallPut(t, method, k, async)
    PROVE  OrderInv'
<1> DEFINE c == Owner(t)
           s == chain[c][k]
<1>1. /\ method \in PutMethods /\ Begin(t, method, k, async)
      /\ rpcs' = IF s = <<>> THEN rpcs \cup {t} ELSE rpcs
      /\ chain' = [chain EXCEPT ![c][k] = Append(s, t)]
      /\ pipe' = [pipe EXCEPT ![c] = Append(@, t)]
      /\ \A l \in Key \ {k} : chain[c][l] = <<>>
  BY DEF CallPut, StartPut, PutMethods
<1>2. /\ op' \in [Task -> Op \cup {None}] /\ op'[t] # None /\ op'[t].key = k
      /\ \A u \in Task \ {t} : op'[u] = op[u]
      /\ t \in Puts' /\ \A u \in Task \ {t} : u \in Puts' <=> u \in Puts
      /\ \A u \in Puts : Owner(u) = c => u[2] < t[2]
      /\ TypeInv' /\ UNCHANGED <<pc, call>> /\ pc[t] = "new" /\ t \notin Puts
      /\ Numbered' /\ OwnItem'
  BY <1>1, CallOrder
<1>3. c \in Client
  BY OwnerType
<1>4. \A u \in Puts : u \in Puts' /\ u \in Task /\ u # t /\ op'[u] = op[u]
  BY <1>2, PutsOp
<1> HIDE DEF c
<1>5. /\ s \in Seq(Task) /\ Chain(c, k) /\ Len(s) \in Nat
      /\ chain \in [Client -> [Key -> Seq(Task)]] /\ pipe \in [Client -> Seq(Task)]
  BY <1>3, OrderTypes DEF OrderInv, PutTypes
<1> HIDE DEF s
<1>6. /\ Append(s, t) \in Seq(Task) /\ Len(Append(s, t)) = Len(s) + 1
      /\ Append(s, t)[Len(s) + 1] = t /\ \A n \in 1 .. Len(s) : Append(s, t)[n] = s[n]
      /\ s = <<>> => Append(s, t) = <<t>>
  BY <1>5, AppendFacts
<1> DEFINE z == Append(s, t)
           row == [chain[c] EXCEPT ![k] = z]
<1>7. row[k] = z /\ (\A l \in Key \ {k} : row[l] = chain[c][l]) /\ row \in [Key -> Seq(Task)]
  BY <1>3, <1>5, <1>6
<1>8. chain' = [chain EXCEPT ![c] = row]
  BY <1>1
<1> HIDE DEF row
<1>9. /\ chain'[c][k] = z /\ \A l \in Key \ {k} : chain'[c][l] = chain[c][l]
      /\ \A o \in Client \ {c} : chain'[o] = chain[o]
      /\ chain' \in [Client -> [Key -> Seq(Task)]]
  BY <1>3, <1>5, <1>7, <1>8
<1>10. /\ pipe'[c] = Append(pipe[c], t) /\ (\A o \in Client \ {c} : pipe'[o] = pipe[o])
       /\ pipe' \in [Client -> Seq(Task)]
  BY <1>1, <1>3, <1>5
<1>11. z # <<>> /\ Head(z) = IF s = <<>> THEN t ELSE Head(s)
  <2>1. z # <<>> /\ Head(z) = z[1]
    <3> HIDE DEF z
    <3>1. z \in Seq(Task) /\ Len(z) = Len(s) + 1
      BY <1>6 DEF z
    <3> QED BY <1>5, <3>1
  <2>2. s # <<>> => Head(s) = s[1] /\ 1 \in 1 .. Len(s)
    BY <1>5
  <2>3. s = <<>> => Len(s) = 0
    OBVIOUS
  <2> QED BY <1>6, <2>1, <2>2, <2>3
<1> HIDE DEF z
<1>12. PutTypes'
  BY <1>1, <1>2, <1>9, <1>10 DEF OrderInv, PutTypes
<1>13. \A u \in Puts : Owner(u) = c /\ op[u].key = k => chain[c][k] = s
  BY DEF s
<1>14. Made'
  <2> SUFFICES ASSUME NEW u \in rpcs'
               PROVE  /\ u \in Task /\ op'[u] # None /\ pc[u] = "new"
                      /\ u \in Puts' => /\ chain'[Owner(u)][op'[u].key] # <<>>
                                        /\ Head(chain'[Owner(u)][op'[u].key]) = u
    BY <1>2 DEF Made
  <2>1. ASSUME u = t, s = <<>>
        PROVE  /\ chain'[Owner(u)][op'[u].key] # <<>>
               /\ Head(chain'[Owner(u)][op'[u].key]) = u
    BY <1>2, <1>9, <1>11, <2>1 DEF c
  <2>2. u = t => s = <<>>
    <3>1. t \notin rpcs
      BY DEF OrderInv, Made
    <3> QED BY <1>1, <3>1
  <2>3. ASSUME u # t
        PROVE  /\ u \in Task /\ op'[u] # None /\ pc[u] = "new"
               /\ u \in Puts' => /\ chain'[Owner(u)][op'[u].key] # <<>>
                                 /\ Head(chain'[Owner(u)][op'[u].key]) = u
    <3>1. u \in rpcs
      BY <1>1, <2>3
    <3>2. /\ u \in Task /\ op[u] # None /\ pc[u] = "new" /\ op'[u] = op[u]
          /\ u \in Puts => /\ chain[Owner(u)][op[u].key] # <<>>
                           /\ Head(chain[Owner(u)][op[u].key]) = u
      BY <1>2, <2>3, <3>1 DEF OrderInv, Made
    <3>3. op[u].key \in Key /\ Owner(u) \in Client
      BY <3>2, OrderKey
    <3>4. CASE Owner(u) = c /\ op[u].key = k
      BY <1>2, <1>9, <1>11, <2>3, <3>2, <3>4 DEF s
    <3>5. CASE ~(Owner(u) = c /\ op[u].key = k)
      BY <1>2, <1>9, <2>3, <3>2, <3>3, <3>5
    <3> QED BY <3>4, <3>5
  <2> QED BY <1>2, <2>1, <2>2, <2>3
<1>15. \A n \in 1 .. Len(s) : s[n] \in Puts /\ Owner(s[n]) = c /\ op[s[n]].key = k /\ s[n] \in Task
  BY <1>5, PutsOp DEF Chain, s
<1>16. s = <<>> => pipe[c] = <<>>
  <2>1. s = <<>> => \A l \in Key : chain[c][l] = <<>>
    BY <1>1 DEF s
  <2> QED BY <1>3, <2>1 DEF OrderInv, Chains
<1>17. Chain(c, k)'
  <2>1. ASSUME NEW n \in 1 .. Len(z) PROVE n \in 1 .. Len(s) \/ n = Len(s) + 1
    BY <1>5, <1>6, <2>1 DEF z
  <2>2. \A n \in 1 .. Len(z) : z[n] \in Puts' /\ Owner(z[n]) = c /\ op'[z[n]].key = k
    BY <1>2, <1>4, <1>6, <1>15, <2>1 DEF z, c
  <2>3. \A n \in 2 .. Len(z) : pc[z[n]] = "new"
    <3>1. \A n \in 2 .. Len(z) : n \in 2 .. Len(s) \/ n = Len(s) + 1
      BY <1>5, <1>6 DEF z
    <3>2. \A n \in 2 .. Len(s) : pc[s[n]] = "new" /\ n \in 1 .. Len(s)
      BY <1>5 DEF Chain, s
    <3> QED BY <1>2, <1>6, <3>1, <3>2 DEF z
  <2>4. ASSUME NEW m \in 1 .. Len(z), NEW n \in 1 .. Len(z), m < n PROVE z[m][2] < z[n][2]
    <3>1. m \in 1 .. Len(s)
      BY <1>5, <1>6, <2>4 DEF z
    <3>2. CASE n \in 1 .. Len(s)
      BY <1>5, <1>6, <2>4, <3>1, <3>2 DEF z, Chain, s
    <3>3. CASE n = Len(s) + 1
      BY <1>2, <1>6, <1>15, <3>1, <3>3 DEF z
    <3> QED BY <2>1, <3>2, <3>3
  <2>5. pipe'[c] = IF pc[Head(z)] = "new" THEN z ELSE Tail(z)
    <3>1. CASE s = <<>>
      BY <1>2, <1>6, <1>10, <1>11, <1>16, <3>1 DEF z
    <3>2. CASE s # <<>>
      <4>1. pipe[c] = IF pc[Head(s)] = "new" THEN s ELSE Tail(s)
        BY <1>5, <3>2 DEF Chain, Piping, s
      <4>2. Tail(z) = Append(Tail(s), t)
        BY <1>5, <3>2 DEF z
      <4> QED BY <1>10, <1>11, <3>2, <4>1, <4>2 DEF z
    <3> QED BY <3>1, <3>2
  <2>6. \A l \in Key \ {k} : chain'[c][l] = <<>>
    BY <1>1, <1>9
  <2> QED BY <1>2, <1>9, <2>2, <2>3, <2>4, <2>5, <2>6 DEF Chain, Piping
<1>18. ASSUME NEW l \in Key, l # k PROVE Chain(c, l)'
  <2>1. chain'[c][l] = <<>>
    BY <1>1, <1>9, <1>18
  <2> QED BY <2>1 DEF Chain, Piping
<1>19. ASSUME NEW o \in Client, o # c, NEW l \in Key PROVE Chain(o, l)'
  <2>1. chain'[o] = chain[o] /\ pipe'[o] = pipe[o]
    BY <1>9, <1>10, <1>19
  <2>2. Chain(o, l) /\ chain[o][l] \in Seq(Task)
    BY OrderTypes
  <2> DEFINE y == chain[o][l]
  <2>3. \A n \in 1 .. Len(y) : y[n] \in Puts' /\ Owner(y[n]) = o /\ op'[y[n]].key = l
    BY <1>4, <2>2 DEF Chain
  <2> QED BY <1>2, <2>1, <2>2, <2>3 DEF Chain, Piping
<1>20. Chains'
  <2>1. ASSUME NEW o \in Client, \A l \in Key : chain'[o][l] = <<>> PROVE pipe'[o] = <<>>
    <3>1. o # c
      BY <1>9, <1>11, <2>1
    <3> QED BY <1>9, <1>10, <2>1, <3>1 DEF OrderInv, Chains
  <2> QED BY <1>17, <1>18, <1>19, <2>1 DEF Chains
<1>21. Returned'
  <2> SUFFICES ASSUME NEW u \in Puts'
               PROVE  LET y == chain'[Owner(u)][op'[u].key]
                      IN  \/ \E n \in 1 .. Len(y) : y[n] = u
                          \/ pc[u] = "stored" /\ \A n \in 1 .. Len(y) : u[2] < y[n][2]
    BY <1>2 DEF Returned
  <2>1. CASE u = t
    <3>1. chain'[Owner(u)][op'[u].key] = z
      BY <1>2, <1>9, <2>1 DEF c
    <3>2. Len(s) + 1 \in 1 .. Len(z) /\ z[Len(s) + 1] = t
      BY <1>5, <1>6 DEF z
    <3> QED BY <2>1, <3>1, <3>2
  <2>2. ASSUME u # t
        PROVE  LET y == chain'[Owner(u)][op'[u].key]
               IN  \/ \E n \in 1 .. Len(y) : y[n] = u
                   \/ pc[u] = "stored" /\ \A n \in 1 .. Len(y) : u[2] < y[n][2]
    <3>1. u \in Puts /\ op'[u] = op[u] /\ op[u].key \in Key /\ Owner(u) \in Client
      <4>1. u \in Puts
        BY <1>2, <2>2 DEF Puts
      <4> QED BY <1>4, <4>1, PutsOp, OrderKey
    <3>2. LET y == chain[Owner(u)][op[u].key]
          IN  \/ \E n \in 1 .. Len(y) : y[n] = u
              \/ pc[u] = "stored" /\ \A n \in 1 .. Len(y) : u[2] < y[n][2]
      BY SMTT(30), <3>1 DEF OrderInv, Returned
    <3>3. CASE ~(Owner(u) = c /\ op[u].key = k)
      BY ZenonT(30), <1>9, <3>1, <3>2, <3>3
    <3>4. CASE Owner(u) = c /\ op[u].key = k
      <4>1. chain'[Owner(u)][op'[u].key] = z /\ chain[Owner(u)][op[u].key] = s
        BY <1>9, <3>1, <3>4 DEF s
      <4>2. \A n \in 1 .. Len(z) : n \in 1 .. Len(s) \/ n = Len(s) + 1
        BY <1>5, <1>6 DEF z
      <4>3. \A n \in 1 .. Len(s) : n \in 1 .. Len(z) /\ z[n] = s[n]
        BY <1>5, <1>6 DEF z
      <4>4. ASSUME NEW n \in 1 .. Len(s), s[n] = u
            PROVE  \E m \in 1 .. Len(z) : z[m] = u
        BY <4>3, <4>4
      <4>5. ASSUME \A n \in 1 .. Len(s) : u[2] < s[n][2]
            PROVE  \A n \in 1 .. Len(z) : u[2] < z[n][2]
        BY <1>2, <1>6, <3>1, <3>4, <4>2, <4>5 DEF z
      <4> QED BY <3>2, <4>1, <4>4, <4>5
    <3> QED BY <3>3, <3>4
  <2> QED BY <2>1, <2>2
<1> QED BY <1>2, <1>12, <1>14, <1>20, <1>21 DEF OrderInv

LEMMA PutReturnsOrder == ASSUME OrderInv, NEW t \in Task, PutReturns(t) PROVE OrderInv'
<1> DEFINE c == Owner(t)
           k == op[t].key
           s == chain[c][k]
           z == Tail(s)
<1>1. /\ t \in Puts /\ pc[t] = "stored" /\ s # <<>> /\ Head(s) = t
      /\ chain' = [chain EXCEPT ![c][k] = z]
      /\ rpcs' = rpcs \cup (IF Len(s) > 1 THEN {s[2]} ELSE {})
      /\ UNCHANGED <<vars, op, pipe>>
  BY DEF PutReturns
<1>2. TypeInv' /\ UNCHANGED <<pc, call>> /\ Puts' = Puts
  BY <1>1, TypeStep DEF OrderInv, vars, Puts
<1>3. c \in Client /\ k \in Key
  BY <1>1, PutsOp, OrderKey
<1> HIDE DEF c, k
<1>4. /\ s \in Seq(Task) /\ Chain(c, k) /\ Len(s) \in Nat
      /\ chain \in [Client -> [Key -> Seq(Task)]] /\ pipe \in [Client -> Seq(Task)]
  BY <1>3, OrderTypes DEF OrderInv, PutTypes
<1>5. \A n \in 1 .. Len(s) : s[n] \in Puts /\ Owner(s[n]) = c /\ op[s[n]].key = k /\ s[n] \in Task
  BY <1>4, PutsOp DEF Chain
<1>6. /\ \A n \in 2 .. Len(s) : pc[s[n]] = "new"
      /\ \A m, n \in 1 .. Len(s) : m < n => s[m][2] < s[n][2]
      /\ \A l \in Key \ {k} : chain[c][l] = <<>>
      /\ pipe[c] = Tail(s)
  BY <1>1, <1>4 DEF Chain, Piping
<1> HIDE DEF s
<1>7. /\ z \in Seq(Task) /\ s[1] = t /\ 1 \in 1 .. Len(s) /\ Len(z) = Len(s) - 1
      /\ \A n \in 1 .. Len(z) : n + 1 \in 2 .. Len(s) /\ n + 1 \in 1 .. Len(s) /\ z[n] = s[n + 1]
  BY <1>1, <1>4
<1> DEFINE row == [chain[c] EXCEPT ![k] = z]
<1>8. row[k] = z /\ (\A l \in Key \ {k} : row[l] = chain[c][l]) /\ row \in [Key -> Seq(Task)]
  BY <1>3, <1>4, <1>7
<1>9. chain' = [chain EXCEPT ![c] = row]
  BY <1>1
<1> HIDE DEF row, z
<1>10. /\ chain'[c][k] = z /\ \A l \in Key \ {k} : chain'[c][l] = chain[c][l]
       /\ \A o \in Client \ {c} : chain'[o] = chain[o]
       /\ chain' \in [Client -> [Key -> Seq(Task)]]
  BY <1>3, <1>4, <1>8, <1>9
<1>11. \A n \in 1 .. Len(s) : n = 1 \/ (n - 1 \in 1 .. Len(z) /\ z[n - 1] = s[n])
  <2>1. \A n \in 1 .. Len(s) : n # 1 => n - 1 \in 1 .. Len(z) /\ (n - 1) + 1 = n
    BY <1>4, <1>7
  <2> QED BY <1>7, <2>1
<1>12. z # <<>> => Len(s) > 1 /\ Head(z) = s[2] /\ pc[Head(z)] = "new" /\ s[2] \in Task
  <2>1. z # <<>> => 1 \in 1 .. Len(z) /\ Head(z) = z[1]
    BY <1>7
  <2>2. 1 \in 1 .. Len(z) => z[1] = s[2] /\ 2 \in 2 .. Len(s) /\ 2 \in 1 .. Len(s) /\ Len(s) > 1
    BY <1>4, <1>7
  <2> QED BY <1>5, <1>6, <2>1, <2>2
<1>13. Len(s) > 1 => z # <<>> /\ 2 \in 1 .. Len(s)
  BY <1>4, <1>7
<1>14. PutTypes'
  <2>1. rpcs' \subseteq Task
    BY <1>1, <1>12, <1>13 DEF OrderInv, PutTypes
  <2> QED BY <1>1, <1>10, <2>1 DEF OrderInv, PutTypes
<1>15. Numbered' /\ OwnItem'
  BY <1>1, <1>2 DEF OrderInv, Numbered, OwnItem
<1>16. Made'
  <2> SUFFICES ASSUME NEW u \in rpcs'
               PROVE  /\ u \in Task /\ op[u] # None /\ pc[u] = "new"
                      /\ u \in Puts => /\ chain'[Owner(u)][op[u].key] # <<>>
                                       /\ Head(chain'[Owner(u)][op[u].key]) = u
    BY <1>1, <1>2 DEF Made
  <2>1. ASSUME u \in rpcs
        PROVE  /\ u \in Task /\ op[u] # None /\ pc[u] = "new"
               /\ u \in Puts => /\ chain'[Owner(u)][op[u].key] # <<>>
                                /\ Head(chain'[Owner(u)][op[u].key]) = u
    <3>1. /\ u \in Task /\ op[u] # None /\ pc[u] = "new"
          /\ u \in Puts => /\ chain[Owner(u)][op[u].key] # <<>>
                           /\ Head(chain[Owner(u)][op[u].key]) = u
      BY <2>1 DEF OrderInv, Made
    <3>2. op[u].key \in Key /\ Owner(u) \in Client
      BY <3>1, OrderKey
    <3>3. u \in Puts => ~(Owner(u) = c /\ op[u].key = k)
      <4>1. u # t
        BY <1>1, <3>1
      <4> QED BY <1>1, <3>1, <4>1 DEF s
    <3> QED BY <1>10, <3>1, <3>2, <3>3
  <2>2. ASSUME u \notin rpcs
        PROVE  /\ u \in Task /\ op[u] # None /\ pc[u] = "new"
               /\ u \in Puts => /\ chain'[Owner(u)][op[u].key] # <<>>
                                /\ Head(chain'[Owner(u)][op[u].key]) = u
    <3>1. u = s[2] /\ Len(s) > 1
      BY <1>1, <2>2
    <3>2. u = Head(z) /\ z # <<>> /\ u \in Puts /\ Owner(u) = c /\ op[u].key = k /\ pc[u] = "new"
      BY <1>5, <1>12, <1>13, <3>1
    <3> QED BY <1>10, <3>2, PutsOp
  <2> QED BY <2>1, <2>2
<1>17. ASSUME NEW l \in Key, l = k PROVE Chain(c, l)'
  <2>1. \A n \in 1 .. Len(z) : z[n] \in Puts /\ Owner(z[n]) = c /\ op[z[n]].key = l
    BY <1>5, <1>7, <1>17
  <2>2. \A n \in 2 .. Len(z) : pc[z[n]] = "new"
    <3>1. \A n \in 2 .. Len(z) : n \in 1 .. Len(z)
      BY <1>7
    <3> QED BY <1>6, <1>7, <3>1
  <2>3. ASSUME NEW m \in 1 .. Len(z), NEW n \in 1 .. Len(z), m < n PROVE z[m][2] < z[n][2]
    <3>1. m + 1 < n + 1
      BY <2>3
    <3> QED BY <1>6, <1>7, <3>1
  <2>4. z # <<>> => pipe[c] = IF pc[Head(z)] = "new" THEN z ELSE Tail(z)
    BY <1>6, <1>12 DEF z
  <2>5. \A other \in Key \ {l} : chain'[c][other] = <<>>
    BY <1>6, <1>10, <1>17
  <2>6. op' = op /\ pipe' = pipe /\ pc' = pc /\ Puts' = Puts /\ chain'[c][l] = z
    BY <1>1, <1>2, <1>10, <1>17
  <2>7. \A m, n \in 1 .. Len(z) : m < n => z[m][2] < z[n][2]
    BY <2>3
  <2> QED BY <2>1, <2>2, <2>4, <2>5, <2>6, <2>7 DEF Chain, Piping
<1>18. ASSUME NEW l \in Key, l # k PROVE Chain(c, l)'
  <2>1. chain'[c][l] = <<>>
    BY <1>6, <1>10, <1>18
  <2> QED BY <2>1 DEF Chain, Piping
<1>19. ASSUME NEW o \in Client, o # c, NEW l \in Key PROVE Chain(o, l)'
  <2>1. chain'[o] = chain[o] /\ pipe'[o] = pipe[o]
    BY <1>1, <1>10, <1>19
  <2> QED BY <1>1, <1>2, <2>1, OrderTypes DEF Chain, Piping
<1>20. Chains'
  <2>1. ASSUME NEW o \in Client, \A l \in Key : chain'[o][l] = <<>> PROVE pipe[o] = <<>>
    <3>1. CASE o = c
      BY <1>3, <1>6, <1>10, <2>1, <3>1 DEF z
    <3>2. CASE o # c
      BY <1>10, <2>1, <3>2 DEF OrderInv, Chains
    <3> QED BY <3>1, <3>2
  <2>2. pipe' = pipe
    BY <1>1
  <2>3. \A o \in Client, l \in Key : Chain(o, l)'
    BY <1>17, <1>18, <1>19
  <2> QED BY <2>1, <2>2, <2>3 DEF Chains
<1>21. Returned'
  <2> SUFFICES ASSUME NEW u \in Puts
               PROVE  LET y == chain'[Owner(u)][op[u].key]
                      IN  \/ \E n \in 1 .. Len(y) : y[n] = u
                          \/ pc[u] = "stored" /\ \A n \in 1 .. Len(y) : u[2] < y[n][2]
    BY <1>1, <1>2 DEF Returned
  <2>1. op[u].key \in Key /\ Owner(u) \in Client
    BY PutsOp, OrderKey
  <2>2. LET y == chain[Owner(u)][op[u].key]
        IN  \/ \E n \in 1 .. Len(y) : y[n] = u
            \/ pc[u] = "stored" /\ \A n \in 1 .. Len(y) : u[2] < y[n][2]
    BY DEF OrderInv, Returned
  <2>3. CASE ~(Owner(u) = c /\ op[u].key = k)
    BY <1>10, <2>1, <2>2, <2>3
  <2>4. CASE Owner(u) = c /\ op[u].key = k
    <3>1. chain'[Owner(u)][op[u].key] = z /\ chain[Owner(u)][op[u].key] = s
      BY <1>10, <2>1, <2>4 DEF s
    <3>2. CASE u = t
      <4>1. \A n \in 1 .. Len(z) : t[2] < z[n][2]
        <5>1. \A n \in 1 .. Len(z) : 1 < n + 1
          BY <1>7
        <5> QED BY <1>6, <1>7, <5>1
      <4> QED BY <1>1, <3>1, <3>2, <4>1
    <3>3. ASSUME u # t, NEW n \in 1 .. Len(s), s[n] = u
          PROVE  \E m \in 1 .. Len(z) : z[m] = u
      BY <1>7, <1>11, <3>3
    <3>4. ASSUME \A n \in 1 .. Len(s) : u[2] < s[n][2]
          PROVE  \A n \in 1 .. Len(z) : u[2] < z[n][2]
      BY <1>7, <3>4
    <3> QED BY <2>2, <3>1, <3>2, <3>3, <3>4
  <2> QED BY <2>3, <2>4
<1> QED BY <1>2, <1>14, <1>15, <1>16, <1>20, <1>21 DEF OrderInv

LEMMA OrderStutter ==
    ASSUME OrderInv, UNCHANGED <<vars, op, pipe, chain, rpcs>>
    PROVE  OrderInv'
<1>1. TypeInv' /\ UNCHANGED <<pc, call>>
  BY TypeStep DEF OrderInv, vars
<1> QED BY <1>1, ChainsKept DEF OrderInv, OwnItem

LEMMA OrderInit == ClientInit => OrderInv
<1> SUFFICES ASSUME ClientInit PROVE OrderInv
  OBVIOUS
<1>1. TypeInv /\ \A t \in Task : pc[t] = "new" /\ op[t] = None
  BY TypeInit DEF ClientInit, Init
<1>2. Puts = {} /\ rpcs = {}
  BY <1>1 DEF Puts, ClientInit
<1>3. PutTypes
  BY DEF PutTypes, ClientInit
<1>4. Numbered /\ OwnItem /\ Made /\ Returned
  BY <1>1, <1>2 DEF Numbered, OwnItem, Made, Returned, PutState, PutPC
<1>5. Chains
  BY DEF Chains, Chain, Piping, ClientInit
<1> QED BY <1>1, <1>3, <1>4, <1>5 DEF OrderInv

LEMMA OrderStep ==
    ASSUME ~MixKeys, OrderInv, [ClientNext]_<<vars, client>>
    PROVE  OrderInv'
<1>1. ASSUME NEW t \in Task, op[t] = None, NEW k \in Key, NEW async \in BOOLEAN, NEW method,
             CallPut(t, method, k, async) \/ CallGet(t, method, k, async)
      PROVE  OrderInv'
  BY <1>1, CallPutOrder, CallGetOrder
<1>2. ASSUME NEW t \in Task, RunPut(t) \/ RunGet(t) \/ RunOn(t) \/ PutReturns(t)
      PROVE  OrderInv'
  BY <1>2, RunPutOrder, RunGetOrder, RunOnOrder, PutReturnsOrder
<1>3. ASSUME NEW c \in Client, Receive(c) PROVE OrderInv'
  BY <1>3, OrderStutter DEF Receive
<1>4. CASE UNCHANGED <<vars, client>>
  BY <1>4, OrderStutter DEF client
<1> QED BY <1>1, <1>2, <1>3, <1>4 DEF ClientNext

LEMMA InOrder == OrderInv => PutOrder
<1> SUFFICES ASSUME OrderInv, NEW i \in Puts, NEW j \in Puts, Owner(i) = Owner(j),
                    op[i].key = op[j].key, i[2] < j[2], Entered(j)
             PROVE  Entered(i)
  BY DEF PutOrder
<1> DEFINE s == chain[Owner(i)][op[i].key]
<1>1. pc[j] = "stored"
  <2>1. PICK t \in Task : pc[t] = "stored" /\ call[t].items = <<j>>
    BY DEF Entered
  <2>2. call[t].items = <<t>>
    BY <2>1 DEF OrderInv, OwnItem, PutState
  <2> QED BY <2>1, <2>2
<1>2. op[i].key \in Key /\ Owner(i) \in Client /\ i \in Task /\ j \in Task
  BY PutsOp, OrderKey
<1>3. s \in Seq(Task) /\ Chain(Owner(i), op[i].key)
  BY <1>2, OrderTypes
<1>4. i[2] \in Nat /\ j[2] \in Nat
  BY <1>2, ClientAssumption
<1>5. \A n \in 1 .. Len(s) : s[n] # i
  <2> SUFFICES ASSUME NEW n \in 1 .. Len(s), s[n] = i PROVE FALSE
    OBVIOUS
  <2>1. ~(j[2] < s[n][2])
    BY <1>4
  <2>2. PICK m \in 1 .. Len(s) : s[m] = j
    BY <2>1 DEF OrderInv, Returned
  <2>3. m \notin 2 .. Len(s)
    BY <1>1, <1>3, <2>2 DEF Chain
  <2>4. m = 1
    BY <1>3, <2>3
  <2>5. n = 1 \/ 1 < n
    BY <1>3
  <2>6. 1 < n => s[1][2] < s[n][2]
    BY <1>3, <2>4 DEF Chain
  <2> QED BY <1>4, <2>2, <2>4, <2>5, <2>6
<1>6. pc[i] = "stored"
  BY <1>5 DEF OrderInv, Returned
<1>7. call[i].items = <<i>>
  BY <1>2, <1>6 DEF OrderInv, OwnItem, PutState
<1> QED BY <1>2, <1>6, <1>7 DEF Entered

\* The puts of a client to a key enter its queue in the order of their calls, for any number of
\* clients, keys and calls, whichever of them block, as long as a client does not put to a key
\* while it has puts to another one outstanding (channel.py, AsyncChannelWork of async_work.py).
THEOREM PutOrderHolds == ASSUME ~MixKeys PROVE ClientSpec => []PutOrder
<1>1. OrderInv /\ [ClientNext]_<<vars, client>> => OrderInv'
  BY OrderStep
<1> QED BY <1>1, OrderInit, InOrder, PTL DEF ClientSpec
=============================================================================
