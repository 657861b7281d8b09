---------------------------- MODULE ChannelClient ----------------------------
(***************************************************************************)
(* The workers' side of a channel: Channel of scheduler/channel/channel.py *)
(* with AsyncChannelWork and AsyncChannelCommWork of                       *)
(* scheduler/collective/async_work.py, over the channel worker of          *)
(* ChannelQueue.                                                           *)
(*                                                                         *)
(* A call of a client is one remote call, the task of ChannelQueue, and    *)
(* one message.  The item of a put goes ahead through the first-in         *)
(* first-out pipe of send and recv; which of the remote calls takes it     *)
(* from there depends on the order in which they run.  The remote calls    *)
(* of the puts of one key are chained, the next one being made when the    *)
(* one before has returned.  The answer of a get comes back through        *)
(* another pipe, with the id of its query.                                 *)
(***************************************************************************)
EXTENDS ChannelQueue

CONSTANTS
    Client,
    Uses,         \* the methods that each client calls
    None,
    MixKeys,      \* a client puts to a key while it has puts to another key outstanding
    MixGets       \* a client calls a get that blocks while it has gets outstanding

\* The calls of a client are numbered; the item of a put is its call.
ASSUME ClientAssumption ==
    /\ \A t \in Task : t \in Client \X (Nat \ {0}) /\ \A n \in 1 .. t[2] : <<t[1], n>> \in Task
    /\ Item = Task
    /\ Uses \in [Client -> SUBSET {"put", "put_nowait", "get", "get_nowait", "get_batch"}]
    /\ {MixKeys, MixGets} \subseteq BOOLEAN

\* None is neither a call nor what is kept of one.
ASSUME NoneAssumption ==
    /\ None \notin Task \cup Seq(Item)
    /\ None \notin [method : {"put", "put_nowait", "get", "get_nowait", "get_batch"},
                   key : Key, async : BOOLEAN]

VARIABLES
    op,           \* the method, the key and async_op of each call, None before it
    waiting,      \* the call that the client waits for, None if it goes on
    pipe,         \* the puts whose items are on their way to the channel worker
    chain,        \* the puts of a client and key that have not returned, in order
    rpcs,         \* the remote calls that were made and have not begun to run
    back,         \* the answers on their way to each client
    recvs,        \* the gets whose recv is not through, in order
    answer        \* what was returned or stored for each get

client == <<op, waiting, pipe, chain, rpcs, back, recvs, answer>>

Owner(t) == t[1]
Puts == {t \in Task : op[t] # None /\ op[t].method \in {"put", "put_nowait"}}
Gets == {t \in Task : op[t] # None} \ Puts

ClientInit ==
    /\ Init
    /\ op = [t \in Task |-> None]
    /\ waiting = [c \in Client |-> None]
    /\ pipe = [c \in Client |-> <<>>]
    /\ chain = [c \in Client |-> [k \in Key |-> <<>>]]
    /\ rpcs = {}
    /\ back = [c \in Client |-> <<>>]
    /\ recvs = [c \in Client |-> <<>>]
    /\ answer = [t \in Task |-> None]

-----------------------------------------------------------------------------
\* The calls

\* The next call of a client that waits for none; a nowait method always blocks.
Begin(t, method, k, async) ==
    /\ waiting[Owner(t)] = None
    /\ t[2] > 1 => op[<<Owner(t), t[2] - 1>>] # None
    /\ async => method \notin {"put_nowait", "get_nowait"}
    /\ op' = [op EXCEPT ![t] = [method |-> method, key |-> k, async |-> async]]
    /\ waiting' = [waiting EXCEPT ![Owner(t)] = IF async THEN None ELSE t]
    /\ UNCHANGED vars

\* Mutant: the remote calls of the puts are not chained.
StartPutUnchainedMutant(t, k) == rpcs' = rpcs \cup {t}

\* AsyncChannelWork.__init__: the remote call is made now if no put of the key is outstanding.
StartPut(t, k) == rpcs' = IF chain[Owner(t)][k] = <<>> THEN rpcs \cup {t} ELSE rpcs

\* Channel.put and put_nowait
CallPut(t, method, k, async) ==
    /\ method \in {"put", "put_nowait"}
    /\ MixKeys \/ \A other \in Key \ {k} : chain[Owner(t)][other] = <<>>
    /\ Begin(t, method, k, async)
    /\ StartPut(t, k)
    /\ chain' = [chain EXCEPT ![Owner(t)][k] = Append(@, t)]
    /\ pipe' = [pipe EXCEPT ![Owner(t)] = Append(@, t)]
    /\ UNCHANGED <<back, recvs, answer>>

\* Channel.get, get_nowait and get_batch
CallGet(t, method, k, async) ==
    /\ method \in {"get", "get_nowait", "get_batch"}
    /\ MixGets \/ async \/ recvs[Owner(t)] = <<>>
    /\ Begin(t, method, k, async)
    /\ rpcs' = rpcs \cup {t}
    /\ recvs' = [recvs EXCEPT ![Owner(t)] = Append(@, t)]
    /\ UNCHANGED <<pipe, chain, back, answer>>

-----------------------------------------------------------------------------
\* The channel worker begins to run a remote call, in any order.

\* put takes the first item of the pipe, whoever's, and its key comes with it.
RunPut(t) ==
    /\ t \in rpcs \cap Puts
    /\ pipe[Owner(t)] # <<>>
    /\ LET i == Head(pipe[Owner(t)])
       IN IF op[t].method = "put" THEN Put(t, op[i].key, i) ELSE PutNowait(t, op[i].key, i)
    /\ rpcs' = rpcs \ {t}
    /\ pipe' = [pipe EXCEPT ![Owner(t)] = Tail(@)]
    /\ UNCHANGED <<op, waiting, chain, back, recvs, answer>>

\* A get that is through sends what it has, with its query id or the QueueEmpty marker.
Reply(t) ==
    back' = IF pc'[t] \in {"done", "batched", "empty"}
            THEN [back EXCEPT ![Owner(t)] =
                     Append(@, [query |-> IF pc'[t] = "empty" THEN None ELSE t,
                                data |-> call'[t].items])]
            ELSE back

RunGet(t) ==
    /\ t \in rpcs \cap Gets
    /\ CASE op[t].method = "get" -> Get(t, op[t].key)
         [] op[t].method = "get_nowait" -> GetNowait(t, op[t].key)
         [] op[t].method = "get_batch" -> \E target \in Target : GetBatch(t, op[t].key, target)
    /\ Reply(t)
    /\ rpcs' = rpcs \ {t}
    /\ UNCHANGED <<op, waiting, pipe, chain, recvs, answer>>

RunOn(t) ==
    /\ Resume(t)
    /\ Reply(t)
    /\ UNCHANGED <<op, waiting, pipe, chain, rpcs, recvs, answer>>

-----------------------------------------------------------------------------
\* The ends of the calls

Release(t) == waiting' = [waiting EXCEPT ![Owner(t)] = IF @ = t THEN None ELSE @]

\* Mutant: the chain ends with the put that has returned.
PutReturnsNoNextMutant(t) ==
    /\ t \in Puts /\ pc[t] = "stored"
    /\ LET k == op[t].key
           outstanding == chain[Owner(t)][k]
       IN /\ outstanding # <<>> /\ Head(outstanding) = t
          /\ chain' = [chain EXCEPT ![Owner(t)][k] = Tail(@)]
          /\ UNCHANGED rpcs
    /\ Release(t)
    /\ UNCHANGED <<vars, op, pipe, back, recvs, answer>>

\* The remote put returned: its future gets the result, and the next of the chain is executed.
\* One that raised QueueFull has no such step, f.result() raising in the callback itself.
PutReturns(t) ==
    /\ t \in Puts /\ pc[t] = "stored"
    /\ LET k == op[t].key
           outstanding == chain[Owner(t)][k]
       IN /\ outstanding # <<>> /\ Head(outstanding) = t
          /\ chain' = [chain EXCEPT ![Owner(t)][k] = Tail(@)]
          /\ rpcs' = rpcs \cup (IF Len(outstanding) > 1 THEN {outstanding[2]} ELSE {})
    /\ Release(t)
    /\ UNCHANGED <<vars, op, pipe, back, recvs, answer>>

\* Mutant: the data is taken for the answer of the get whose recv it is.
ReceiveInOrderMutant(c) ==
    /\ recvs[c] # <<>> /\ back[c] # <<>>
    /\ LET t == Head(recvs[c])
           m == Head(back[c])
       IN /\ answer' = [answer EXCEPT ![t] = m.data]
          /\ Release(t)
    /\ recvs' = [recvs EXCEPT ![c] = Tail(@)]
    /\ back' = [back EXCEPT ![c] = Tail(@)]
    /\ UNCHANGED <<vars, op, pipe, chain, rpcs>>

\* The first recv gets the first answer.  A get that blocks returns it as it is; that of an async
\* get stores it under its query id, where the get of that id finds it.
Receive(c) ==
    /\ recvs[c] # <<>> /\ back[c] # <<>>
    /\ LET t == Head(recvs[c])
           m == Head(back[c])
       IN /\ answer' = [answer EXCEPT ![IF op[t].async THEN m.query ELSE t] = m.data]
          /\ Release(t)
    /\ recvs' = [recvs EXCEPT ![c] = Tail(@)]
    /\ back' = [back EXCEPT ![c] = Tail(@)]
    /\ UNCHANGED <<vars, op, pipe, chain, rpcs>>

-----------------------------------------------------------------------------
ClientNext ==
    \/ \E t \in Task : op[t] = None /\ \E k \in Key, async \in BOOLEAN, method \in Uses[Owner(t)] :
           CallPut(t, method, k, async) \/ CallGet(t, method, k, async)
    \/ \E t \in Task : RunPut(t) \/ RunGet(t) \/ RunOn(t) \/ PutReturns(t)
    \/ \E c \in Client : Receive(c)

\* Remote calls begin to run, woken coroutines go on, and messages arrive.
ClientFairness ==
    /\ \A t \in Task : WF_<<vars, client>>(RunPut(t) \/ RunGet(t) \/ RunOn(t) \/ PutReturns(t))
    /\ \A c \in Client : WF_<<vars, client>>(Receive(c))

ClientSpec == ClientInit /\ [][ClientNext]_<<vars, client>> /\ ClientFairness

-----------------------------------------------------------------------------
\* Properties

\* The item of put i is, or was, in its queue; it was refused by put(nowait).
Entered(i) == \E t \in Task : pc[t] = "stored" /\ call[t].items = <<i>>
Refused(i) == \E t \in Task : pc[t] = "full" /\ call[t].items = <<i>>

\* The puts of a client to a key enter its queue in the order in which they were called, waiting
\* or not, as the chain of AsyncChannelWork is to ensure ("A FIFO queue-like channel").
PutOrder ==
    \A i, j \in Puts :
        /\ Owner(i) = Owner(j) /\ op[i].key = op[j].key /\ i[2] < j[2]
        /\ Entered(j)
        => Entered(i) \/ Refused(i)

\* Every get returns what the channel worker has taken from the queue for it, in whatever order
\* the gets of a client are answered (the query ids of AsyncChannelCommWork).
OwnAnswer ==
    \A t \in Gets : answer[t] # None => pc[t] \in {"done", "batched", "empty"} /\ answer[t] = call[t].items

\* A get that the channel worker has answered and that has not returned, or a put that has not
\* returned although its queue has room.
Due(t) ==
    \/ pc[t] \in {"done", "batched", "empty"} /\ answer[t] = None
    \/ t \in Puts /\ t \in ToSet(chain[Owner(t)][op[t].key]) /\ ~Full(op[t].key)

\* Whatever the channel worker can serve returns: chained puts do not get stuck behind one another
\* and no answer stays in the pipe.  The calls being limited, a time comes when nothing is due.
CallsReturn == []<>(\A t \in Task : ~Due(t))

\* put_nowait returns or raises QueueFull, it does not wait (Channel.put_nowait: "without waiting.
\* Raises asyncio.QueueFull if the queue is full").
PutNowaitReturns ==
    \A c \in Client :
        (waiting[c] # None /\ op[waiting[c]].method = "put_nowait") ~> waiting[c] = None
=============================================================================
