---------------------------- MODULE ChannelQueue ----------------------------
(***************************************************************************)
(* The channel worker of rlinf/scheduler/channel/channel_worker.py.        *)
(*                                                                         *)
(* A ChannelWorker is one asyncio event loop that holds one PeekQueue per  *)
(* key.  Every remote call (put, get, get_batch) is a coroutine of that    *)
(* loop, a task.  A task runs without interruption until it awaits the     *)
(* future of a full or an empty queue; the wake-up of a future only makes  *)
(* the task runnable, and other tasks may run before it does.  What the    *)
(* model keeps is exactly that: the deques of futures, who was woken, and  *)
(* the order in which tasks happen to run.                                 *)
(*                                                                         *)
(* A queue is created on the first use of its key with the maxsize of the  *)
(* default queue, and the query methods answer for a missing queue what    *)
(* they answer for an empty one, so all queues exist from the start here.  *)
(***************************************************************************)
EXTENDS Naturals, Sequences, FiniteSets, SequencesExt

CONSTANTS
    Key,          \* the keys, one PeekQueue each
    Task,         \* the calls: each member is one put, get or get_batch
    Item,         \* the payloads, each put at most once
    Weight,       \* [Item -> Nat], the weight given to put
    Target,       \* the target weights given to get_batch
    MaxSize,      \* maxsize of every queue, 0 for unbounded
    BatchKey      \* the keys on which get_batch is called

ASSUME ChannelAssumption ==
    /\ Weight \in [Item -> Nat]
    /\ Target \subseteq Nat
    /\ MaxSize \in Nat
    /\ Key # {}
    /\ BatchKey \subseteq Key
    /\ IsFiniteSet(Task)

VARIABLES
    queue,        \* [Key -> Seq(Item)], PeekQueue._queue
    getters,      \* [Key -> Seq(Task)], PeekQueue._getters
    putters,      \* [Key -> Seq(Task)], PeekQueue._putters
    pc,           \* [Task -> state of the coroutine]
    call,         \* [Task -> arguments and locals of the coroutine]
    fresh         \* the payloads no put has carried yet

vars == <<queue, getters, putters, pc, call, fresh>>

\* "new": the call has not been made.  "putting", "getting", "peeking": the
\* coroutine awaits a future; with _woken, the future has its result and the
\* coroutine is runnable.  "stored": put returned; "done", "batched":
\* get, get_batch sent its answer; "full": put(nowait) raised QueueFull;
\* "empty": get(nowait) answered QueueEmpty.
PutPC == {"putting", "put_woken"}
GetPC == {"getting", "get_woken"}
PeekPC == {"peeking", "peek_woken"}
PC == {"new", "stored", "done", "batched", "full", "empty"} \cup PutPC \cup GetPC \cup PeekPC

\* The locals of a coroutine: its key, the payload of a put or what a get or a
\* get_batch has taken so far, and the target weight of a get_batch (its
\* current_weight is the sum over items).
Call == [key : Key, items : Seq(Item), target : Nat]

Locals(k, items, target) == [key |-> k, items |-> items, target |-> target]

NewCall == Locals(CHOOSE k \in Key : TRUE, <<>>, 0)

-----------------------------------------------------------------------------
\* PeekQueue and the parts of asyncio.Queue it inherits.

Full(k) == MaxSize > 0 /\ Len(queue[k]) >= MaxSize

\* asyncio.Queue._wakeup_next, called n times: the first n futures of the
\* deque get their result, the coroutines behind them become runnable.
Woken(waiters, n) == {waiters[j] : j \in 1 .. (IF n < Len(waiters) THEN n ELSE Len(waiters))}

Remaining(waiters, n) ==
    IF n < Len(waiters) THEN SubSeq(waiters, n + 1, Len(waiters)) ELSE <<>>

WokenPC(state) == CASE state = "putting" -> "put_woken"
                    [] state = "getting" -> "get_woken"
                    [] state = "peeking" -> "peek_woken"
                    [] OTHER -> state

\* Task t stops running in state s, and the tasks of W become runnable.
Switch(t, s, W) ==
    pc' = [u \in Task |-> IF u = t THEN s
                          ELSE IF u \in W THEN WokenPC(pc[u]) ELSE pc[u]]

\* put_nowait on a queue that has room: append, wake one getter.
Append1(t, k, i) ==
    /\ queue' = [queue EXCEPT ![k] = Append(@, i)]
    /\ getters' = [getters EXCEPT ![k] = Remaining(@, 1)]
    /\ Switch(t, "stored", Woken(getters[k], 1))
    /\ UNCHANGED putters

\* The first n items are taken with n calls of get_nowait, each of which
\* wakes one putter; t then rests in state s.
TakeN(t, k, n, s) ==
    /\ queue' = [queue EXCEPT ![k] = SubSeq(@, n + 1, Len(@))]
    /\ putters' = [putters EXCEPT ![k] = Remaining(@, n)]
    /\ Switch(t, s, Woken(putters[k], n))

-----------------------------------------------------------------------------
\* ChannelWorker.put, from the point where the item has been received.

\* Mutant: the item goes straight into the deque, and wakes a getter only
\* where the queue was empty.
PutBodyWakesOnceMutant(t, k, i) ==
    LET n == IF queue[k] = <<>> THEN 1 ELSE 0
    IN IF Full(k)
       THEN /\ putters' = [putters EXCEPT ![k] = Append(@, t)]
            /\ Switch(t, "putting", {})
            /\ UNCHANGED <<queue, getters>>
       ELSE /\ queue' = [queue EXCEPT ![k] = Append(@, i)]
            /\ getters' = [getters EXCEPT ![k] = Remaining(@, n)]
            /\ Switch(t, "stored", Woken(getters[k], n))
            /\ UNCHANGED putters

PutBody(t, k, i) ==
    IF Full(k)
    THEN /\ putters' = [putters EXCEPT ![k] = Append(@, t)]
         /\ Switch(t, "putting", {})
         /\ UNCHANGED <<queue, getters>>
    ELSE Append1(t, k, i)

Put(t, k, i) ==
    /\ pc[t] = "new"
    /\ i \in fresh
    /\ fresh' = fresh \ {i}
    /\ call' = [call EXCEPT ![t] = Locals(k, <<i>>, 0)]
    /\ PutBody(t, k, i)

\* put(nowait=True): QueueFull is raised after the item was received, which
\* drops it.
PutNowait(t, k, i) ==
    /\ pc[t] = "new"
    /\ i \in fresh
    /\ fresh' = fresh \ {i}
    /\ call' = [call EXCEPT ![t] = Locals(k, <<i>>, 0)]
    /\ IF Full(k)
       THEN Switch(t, "full", {}) /\ UNCHANGED <<queue, getters, putters>>
       ELSE Append1(t, k, i)

\* Mutant: a resumed put does not look at full() again.
PutResumeNoRecheckMutant(t) ==
    /\ pc[t] = "put_woken"
    /\ Append1(t, call[t].key, call[t].items[1])
    /\ UNCHANGED <<call, fresh>>

\* The loop of asyncio.Queue.put looks at full() again when it is resumed: a
\* put that ran in between may have taken the room.
PutResume(t) ==
    /\ pc[t] = "put_woken"
    /\ PutBody(t, call[t].key, call[t].items[1])
    /\ UNCHANGED <<call, fresh>>

-----------------------------------------------------------------------------
\* ChannelWorker.get

\* Mutant: the item is taken straight from the deque, which wakes no putter.
GetBodySilentMutant(t, k) ==
    IF queue[k] = <<>>
    THEN /\ getters' = [getters EXCEPT ![k] = Append(@, t)]
         /\ Switch(t, "getting", {})
         /\ call' = [call EXCEPT ![t] = Locals(k, <<>>, 0)]
         /\ UNCHANGED <<queue, putters>>
    ELSE /\ call' = [call EXCEPT ![t] = Locals(k, <<Head(queue[k])>>, 0)]
         /\ queue' = [queue EXCEPT ![k] = Tail(@)]
         /\ Switch(t, "done", {})
         /\ UNCHANGED <<getters, putters>>

GetBody(t, k) ==
    IF queue[k] = <<>>
    THEN /\ getters' = [getters EXCEPT ![k] = Append(@, t)]
         /\ Switch(t, "getting", {})
         /\ call' = [call EXCEPT ![t] = Locals(k, <<>>, 0)]
         /\ UNCHANGED <<queue, putters>>
    ELSE /\ call' = [call EXCEPT ![t] = Locals(k, <<Head(queue[k])>>, 0)]
         /\ TakeN(t, k, 1, "done")
         /\ UNCHANGED getters

Get(t, k) ==
    /\ pc[t] = "new"
    /\ GetBody(t, k)
    /\ UNCHANGED fresh

\* get(nowait=True) answers an empty queue with the QueueEmpty marker.
GetNowait(t, k) ==
    /\ pc[t] = "new"
    /\ IF queue[k] = <<>>
       THEN /\ Switch(t, "empty", {})
            /\ call' = [call EXCEPT ![t] = Locals(k, <<>>, 0)]
            /\ UNCHANGED <<queue, getters, putters>>
       ELSE GetBody(t, k)
    /\ UNCHANGED fresh

GetResume(t) ==
    /\ pc[t] = "get_woken"
    /\ GetBody(t, call[t].key)
    /\ UNCHANGED fresh

-----------------------------------------------------------------------------
\* ChannelWorker.get_batch

\* current_weight, to which the loop adds the weights of the items one by one.
SumWeight(s) ==
    LET sum[n \in 0 .. Len(s)] == IF n = 0 THEN 0 ELSE sum[n - 1] + Weight[s[n]]
    IN  sum[Len(s)]

\* The batch after the first n items of q were added to it.
Taking(batch, q, n) == batch \o SubSeq(q, 1, n)

\* The test after an item was added: the batch has its target weight.
Reached(batch, q, target, n) == n > 0 /\ SumWeight(Taking(batch, q, n)) >= target

\* Mutant: an item that would exactly fill the batch is refused.
GoesOnStrictMutant(batch, q, target, n) ==
    /\ n < Len(q)
    /\ ~Reached(batch, q, target, n)
    /\ SumWeight(Taking(batch, q, n + 1)) < target

\* After n items the loop of get_batch goes on to take item n + 1.
GoesOn(batch, q, target, n) ==
    /\ n < Len(q)
    /\ ~Reached(batch, q, target, n)
    /\ SumWeight(Taking(batch, q, n + 1)) <= target

\* The loop of get_batch, run until it breaks or peek() finds the queue empty
\* and awaits a getter future; peek() and get() on a queue that has an item do
\* not yield, so the n items are taken in one step.
BatchBody(t, k, batch, target) ==
    \E n \in 0 .. Len(queue[k]) :
        /\ \A m \in 0 .. n - 1 : GoesOn(batch, queue[k], target, m)
        /\ ~GoesOn(batch, queue[k], target, n)
        /\ LET awaits == n = Len(queue[k]) /\ ~Reached(batch, queue[k], target, n)
           IN /\ call' = [call EXCEPT ![t] = Locals(k, Taking(batch, queue[k], n), target)]
              /\ getters' = [getters EXCEPT ![k] = IF awaits THEN Append(@, t) ELSE @]
              /\ TakeN(t, k, n, IF awaits THEN "peeking" ELSE "batched")

GetBatch(t, k, target) ==
    /\ pc[t] = "new"
    /\ BatchBody(t, k, <<>>, target)
    /\ UNCHANGED fresh

GetBatchResume(t) ==
    /\ pc[t] = "peek_woken"
    /\ BatchBody(t, call[t].key, call[t].items, call[t].target)
    /\ UNCHANGED fresh

-----------------------------------------------------------------------------
Init ==
    /\ queue = [k \in Key |-> <<>>]
    /\ getters = [k \in Key |-> <<>>]
    /\ putters = [k \in Key |-> <<>>]
    /\ pc = [t \in Task |-> "new"]
    /\ call = [t \in Task |-> NewCall]
    /\ fresh = Item

\* A remote call reaches the loop.
Arrive(t) ==
    \E k \in Key :
        \/ \E i \in Item : Put(t, k, i) \/ PutNowait(t, k, i)
        \/ Get(t, k)
        \/ GetNowait(t, k)
        \/ k \in BatchKey /\ \E target \in Target : GetBatch(t, k, target)

\* The loop runs a coroutine whose future has its result.
Resume(t) == PutResume(t) \/ GetResume(t) \/ GetBatchResume(t)

Next == \E t \in Task : Arrive(t) \/ Resume(t)

\* The event loop runs every runnable task.
Fairness == \A t \in Task : WF_vars(Resume(t))

Spec == Init /\ [][Next]_vars

FairSpec == Spec /\ Fairness

-----------------------------------------------------------------------------
\* Properties

\* Type invariant: a deque of futures holds tasks, a task that waits is in a
\* waiting state, a queue holds payloads (PeekQueue, ChannelWorker).
TypeOK ==
    /\ queue \in [Key -> Seq(Item)]
    /\ getters \in [Key -> Seq(Task)]
    /\ putters \in [Key -> Seq(Task)]
    /\ pc \in [Task -> PC]
    /\ call \in [Task -> Call]
    /\ fresh \subseteq Item

\* The tasks that have been woken on key k and have not run since.
RunnableGetters(k) == {t \in Task : pc[t] \in {"get_woken", "peek_woken"} /\ call[t].key = k}
RunnablePutters(k) == {t \in Task : pc[t] = "put_woken" /\ call[t].key = k}

\* No get sleeps beside an item: while a key that only get reads has an item
\* and a sleeping get, some woken get has still to run (put_nowait wakes one
\* getter per item, a get that finds the queue empty again goes back to sleep).
NoIdleGetter ==
    \A k \in Key \ BatchKey :
        queue[k] # <<>> /\ getters[k] # <<>> => RunnableGetters(k) # {}

\* No put sleeps beside room: while a queue has room and a sleeping put, some
\* woken put has still to run (every get_nowait, those of get_batch too, wakes
\* one putter).
NoIdlePutter ==
    \A k \in Key :
        ~Full(k) /\ putters[k] # <<>> => RunnablePutters(k) # {}

\* A get_batch answers only when its batch has the target weight or the next
\* item would exceed it, as Channel.get_batch's docstring says.
BatchMaximal ==
    [][\A t \in Task :
        pc[t] # "batched" /\ pc'[t] = "batched" =>
            LET batch == call'[t].items
                rest == queue'[call'[t].key]
            IN \/ SumWeight(batch) >= call'[t].target
               \/ rest # <<>> /\ SumWeight(batch) + Weight[Head(rest)] > call'[t].target]_vars

\* The waits and wake-ups of the coroutines implement a bounded first-in
\* first-out queue per key: items leave in the order in which they entered,
\* each once, and a batch is filled from the head of the queue.
Fifo == INSTANCE FifoChannel WITH
            Reader <- Task,
            Capacity <- MaxSize,
            chan <- queue,
            got <- [t \in Task |-> IF pc[t] \in GetPC \cup PeekPC \cup {"done", "batched"}
                                   THEN call[t].items ELSE <<>>],
            entered <- {call[t].items[1] : t \in {u \in Task : pc[u] = "stored"}}

ImplementsFifo == Fifo!FifoSpec

\* A get that sleeps on a queue with an item does not sleep there for ever:
\* it is served or others empty the queue first (Channel: "semantics ...
\* identical to those of asyncio.Queue").
Served(k) ==
    \A t \in Task :
        (pc[t] = "getting" /\ call[t].key = k /\ queue[k] # <<>>)
            ~> (pc[t] # "getting" \/ queue[k] = <<>>)

GetterServed == \A k \in Key : Served(k)

\* The same for the keys that only get reads.
PlainGetterServed == \A k \in Key \ BatchKey : Served(k)
=============================================================================
