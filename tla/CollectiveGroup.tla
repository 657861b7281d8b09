--------------------------- MODULE CollectiveGroup ---------------------------
(***************************************************************************)
(* A collective group of two workers, CollectiveGroup and                  *)
(* CollectiveWorkQueue of scheduler/collective/collective_group.py over    *)
(* the process groups of multi_channel_pg.py: send, recv, send_tensor and  *)
(* recv_tensor, by the caller or by the thread of a work queue.            *)
(*                                                                         *)
(* A transfer is several messages: its type, metadata, the tensors or the  *)
(* handles of shared memory.  A message is a broadcast of two ranks in the *)
(* process group of its direction and medium.  The n-th broadcast that one *)
(* rank calls there meets the n-th of the other, whoever called it, and    *)
(* neither returns before both were called.                                *)
(***************************************************************************)
EXTENDS Integers, Sequences, SequencesExt

CONSTANTS
    Relations,    \* what _check_same_device_with_peer may say: "none", "same" or "uncertain"
    Duplex,       \* workers with uncertain devices send both ways
    Kinds,        \* what is sent: "object", "tensors", "dict", "dataclass" or "raw" (send_tensor)
    MaxTransfers, \* bound on the transfers
    SyncRanks,    \* the ranks that also call without async_op
    Resting

ASSUME GroupAssumption ==
    /\ Relations \subseteq {"none", "same", "uncertain"} /\ Duplex \in BOOLEAN
    /\ Kinds \subseteq {"object", "tensors", "dict", "dataclass", "raw"}
    /\ MaxTransfers \in Nat /\ SyncRanks \subseteq {0, 1}

Rank == {0, 1}
Peer(r) == 1 - r
Role == {"send", "recv"}

\* Resting is no work.
ASSUME RestingAssumption == Resting \notin [role : Role, id : Nat, at : Nat, ticket : Nat]

Thread == Rank \X (Role \cup {"caller"})    \* the threads of the two queues, and the caller

VARIABLES
    relation,     \* _check_same_device_with_peer
    traffic,      \* the transfers that each rank sends, in order
    joined,       \* _init_process_group: "no", "joining" or "yes"
    issued,       \* the comm ids given out for each role
    workQueue,    \* _work_queue of each role
    workDone,     \* _work_done
    work,         \* what each thread runs, and the broadcast in which it is
    posts,        \* what was broadcast, and how many broadcasts were met, in each process group
    finished,     \* the comm ids of the works that are through, in order
    garbled       \* broadcasts that met one of another message

groupVars == <<relation, traffic, joined, issued, workQueue, workDone, work, posts, finished, garbled>>

-----------------------------------------------------------------------------
\* The messages of a transfer

There(medium, part) == <<[back |-> FALSE, medium |-> medium, part |-> part]>>
Back(medium, part) == <<[back |-> TRUE, medium |-> medium, part |-> part]>>

\* Mutant: the sender does not wait until the handles were opened.
ByHandlesNoAckMutant == There("cpu", "handles")

\* The handles of tensors on a common device, and a last message that the
\* receiver meets when it has copied them.
ByHandles == There("cpu", "handles") \o There("cpu", "copied")

\* If the devices may be the same, both sides name theirs first; via says which ways the tensors
\* go then.
ToUncertainPeer(via) ==
    There("cpu", "devices") \o Back("cpu", "device")
    \o (IF "ipc" \in via THEN ByHandles ELSE <<>>)
    \o (IF "ccl" \in via THEN There("accel", "data") ELSE <<>>)

\* Tensors of an accelerator.
Payload(via) ==
    CASE relation = "none" -> There("accel", "data")
      [] relation = "same" -> ByHandles
      [] relation = "uncertain" -> ToUncertainPeer(via)

\* Size and contents of an object are one message here.
Body == There("cpu", "body")
TensorList(via) == There("cpu", "meta") \o Payload(via)
TensorDict(via) == Body \o TensorList(via)
Dataclass(via) == TensorList(via) \o Body

\* send tells the receiver the type first; send_tensor, of a raw tensor, tells it nothing.
Messages(x) ==
    IF x.kind = "raw" THEN Payload(x.via)
    ELSE There("cpu", "type") \o
         CASE x.kind = "object" -> Body
           [] x.kind = "tensors" -> TensorList(x.via)
           [] x.kind = "dict" -> TensorDict(x.via)
           [] x.kind = "dataclass" -> Dataclass(x.via)

-----------------------------------------------------------------------------
\* Broadcasts.  w: what a thread runs, [role, id, at, ticket].

Source(r, w) == IF w.role = "send" THEN r ELSE Peer(r)
Transfer(r, w) == traffic[Source(r, w)][w.id]
Message(r, w) == Messages(Transfer(r, w))[w.at]
Sends(w, m) == (w.role = "send") # m.back
Wire(r, w, m) == <<IF Sends(w, m) THEN r ELSE Peer(r), m.medium>>
Label(r, w, m) == [source |-> Source(r, w), id |-> w.id, part |-> m.part]

\* Rank r calls the broadcast that w is at.
Broadcast(th, w) ==
    LET r == th[1]
        m == Message(r, w)
        wire == Wire(r, w, m)
        p == posts[wire]
        sent == [p EXCEPT !.out = Append(@, Label(r, w, m))]
        met == [p EXCEPT !.in = @ + 1]
    IN  /\ posts' = [posts EXCEPT ![wire] = IF Sends(w, m) THEN sent ELSE met]
        /\ work' = [work EXCEPT ![th] =
                       [w EXCEPT !.ticket = IF Sends(w, m) THEN Len(p.out) + 1 ELSE p.in + 1]]

\* The other rank has called its broadcast too.
Met(r, w) ==
    LET m == Message(r, w)
        p == posts[Wire(r, w, m)]
    IN  w.ticket <= IF Sends(w, m) THEN p.in ELSE Len(p.out)

\* What a receiver got is the message that it expects.
Expected(r, w) ==
    LET m == Message(r, w)
    IN  Sends(w, m) \/ posts[Wire(r, w, m)].out[w.ticket] = Label(r, w, m)

-----------------------------------------------------------------------------
\* The calls, and the queues

Work(role, id) == [role |-> role, id |-> id, at |-> 0, ticket |-> 0]
Caller(r) == <<r, "caller">>

\* send or recv with async_op: _work_done falls and the work is put, under the lock.
CallAsync(r, role) ==
    /\ work[Caller(r)] = Resting
    /\ issued[r][role] < Len(traffic[IF role = "send" THEN r ELSE Peer(r)])
    /\ issued' = [issued EXCEPT ![r][role] = @ + 1]
    /\ workQueue' = [workQueue EXCEPT ![r][role] = Append(@, issued'[r][role])]
    /\ workDone' = [workDone EXCEPT ![r][role] = FALSE]
    /\ UNCHANGED <<relation, traffic, joined, work, posts, finished, garbled>>

\* Without async_op the caller runs the work itself.
CallSync(r, role) ==
    /\ r \in SyncRanks
    /\ work[Caller(r)] = Resting
    /\ issued[r][role] < Len(traffic[IF role = "send" THEN r ELSE Peer(r)])
    /\ issued' = [issued EXCEPT ![r][role] = @ + 1]
    /\ work' = [work EXCEPT ![Caller(r)] = Work(role, issued'[r][role])]
    /\ UNCHANGED <<relation, traffic, joined, workQueue, workDone, posts, finished, garbled>>

\* The thread of a queue takes the next work.
TakeWork(r, role) ==
    /\ work[<<r, role>>] = Resting /\ workQueue[r][role] # <<>>
    /\ work' = [work EXCEPT ![<<r, role>>] = Work(role, Head(workQueue[r][role]))]
    /\ workQueue' = [workQueue EXCEPT ![r][role] = Tail(@)]
    /\ UNCHANGED <<relation, traffic, joined, issued, workDone, posts, finished, garbled>>

\* It finds none.
NoWork(r, role) ==
    /\ work[<<r, role>>] = Resting /\ workQueue[r][role] = <<>>
    /\ ~workDone[r][role]
    /\ workDone' = [workDone EXCEPT ![r][role] = TRUE]
    /\ UNCHANGED <<relation, traffic, joined, issued, workQueue, work, posts, finished, garbled>>

-----------------------------------------------------------------------------
\* The works

\* Mutant: the caller does not wait for the works in the queue.
MayBeginAtOnceMutant(th) == work[th] # Resting /\ work[th].at = 0

\* The caller spins until the works before its own are through.
MayBegin(th) ==
    /\ work[th] # Resting /\ work[th].at = 0
    /\ th[2] = "caller" => workDone[th[1]][work[th].role]

\* Mutant: each worker puts its peer first.
IsFirstPeerFirstMutant(r) == FALSE

\* _get_collective_group sorts the two workers.
IsFirst(r) == r = 0

\* The first work of a rank joins the process groups: the first rank makes the
\* group known and gives the port, for which the other polls.
Join(th) ==
    LET r == th[1]
    IN  /\ MayBegin(th) /\ joined[r] = "no"
        /\ IsFirst(r) \/ joined[Peer(r)] = "joining"
        /\ joined' = [joined EXCEPT ![r] = "joining"]
        /\ UNCHANGED <<relation, traffic, issued, workQueue, workDone, work, posts, finished, garbled>>

Connected(r) ==
    /\ joined[r] = "joining" /\ joined[Peer(r)] # "no"
    /\ joined' = [joined EXCEPT ![r] = "yes"]
    /\ UNCHANGED <<relation, traffic, issued, workQueue, workDone, work, posts, finished, garbled>>

BeginWork(th) ==
    /\ MayBegin(th) /\ joined[th[1]] = "yes"
    /\ Broadcast(th, [work[th] EXCEPT !.at = 1])
    /\ UNCHANGED <<relation, traffic, joined, issued, workQueue, workDone, finished, garbled>>

\* A broadcast returns; the next one is called, or the work is through.  A receiver that got
\* another message than it expects goes no further here.
GoOn(th) ==
    LET r == th[1]
        w == work[th]
    IN  /\ w # Resting /\ w.at > 0
        /\ Met(r, w)
        /\ <<r, w>> \notin garbled
        /\ CASE ~Expected(r, w) ->
                    garbled' = garbled \cup {<<r, w>>} /\ UNCHANGED <<work, posts, finished>>
             [] Expected(r, w) /\ w.at < Len(Messages(Transfer(r, w))) ->
                    Broadcast(th, [w EXCEPT !.at = @ + 1]) /\ UNCHANGED <<finished, garbled>>
             [] OTHER ->
                    /\ work' = [work EXCEPT ![th] = Resting]
                    /\ finished' = [finished EXCEPT ![r][w.role] = Append(@, w.id)]
                    /\ UNCHANGED <<posts, garbled>>
        /\ UNCHANGED <<relation, traffic, joined, issued, workQueue, workDone>>

-----------------------------------------------------------------------------
\* recv_tensor between uncertain devices raises TypeError if the device is the same (it takes
\* the pair that _recv_object returns for the handle), and is left out.
Sendable ==
    {x \in [kind : Kinds, via : {{"ipc"}, {"ccl"}, {"ipc", "ccl"}}] :
        /\ relation # "uncertain" \/ x.kind = "object" => x.via = {"ipc"}
        /\ relation = "uncertain" /\ x.kind = "raw" => x.via = {"ccl"}}

GroupInit ==
    /\ relation \in Relations
    /\ \E s, t \in SeqOf(Sendable, MaxTransfers) :
          /\ Len(s) + Len(t) <= MaxTransfers
          /\ relation = "uncertain" /\ ~Duplex => t = <<>>
          /\ traffic = [r \in Rank |-> IF r = 0 THEN s ELSE t]
    /\ joined = [r \in Rank |-> "no"]
    /\ issued = [r \in Rank |-> [role \in Role |-> 0]]
    /\ workQueue = [r \in Rank |-> [role \in Role |-> <<>>]]
    /\ workDone = [r \in Rank |-> [role \in Role |-> TRUE]]
    /\ work = [th \in Thread |-> Resting]
    /\ posts = [wire \in Rank \X {"cpu", "accel"} |-> [out |-> <<>>, in |-> 0]]
    /\ finished = [r \in Rank |-> [role \in Role |-> <<>>]]
    /\ garbled = {}

GroupNext ==
    \/ \E r \in Rank, role \in Role :
          CallAsync(r, role) \/ CallSync(r, role) \/ TakeWork(r, role) \/ NoWork(r, role)
    \/ \E th \in Thread : Join(th) \/ BeginWork(th) \/ GoOn(th)
    \/ \E r \in Rank : Connected(r)

\* Threads run on; the workers make the calls for which the other one waits.
GroupFairness ==
    /\ \A r \in Rank, role \in Role :
          WF_groupVars(CallAsync(r, role)) /\ WF_groupVars(TakeWork(r, role)) /\ WF_groupVars(NoWork(r, role))
    /\ \A th \in Thread : WF_groupVars(Join(th) \/ BeginWork(th) \/ GoOn(th))
    /\ \A r \in Rank : WF_groupVars(Connected(r))

GroupSpec == GroupInit /\ [][GroupNext]_groupVars /\ GroupFairness

-----------------------------------------------------------------------------
(* The works of a role end in the order of their calls, whether the caller *)
(* ran them or the queue, and no broadcast meets one of another message    *)
(* ("strictly preserving the order of send/recv operations and preventing  *)
(* message interleaving").                                                 *)
Paired ==
    /\ garbled = {}
    /\ \A r \in Rank, role \in Role :
          finished[r][role] = [n \in DOMAIN finished[r][role] |-> n]

\* The receiver of transfer n of rank r has copied the tensors behind the handles.
Copied(r, n) ==
    LET script == Messages(traffic[r][n])
        past == {k \in DOMAIN script : script[k].part = "handles"}
    IN  \/ Contains(finished[Peer(r)]["recv"], n)
        \/ \E th \in Thread :
              /\ th[1] = Peer(r) /\ work[th] # Resting
              /\ work[th].role = "recv" /\ work[th].id = n
              /\ \A k \in past : work[th].at > k

(* A send that shares memory is through only when the receiver has copied  *)
(* it: the caller may overwrite or free the tensor then.                   *)
SharedUntilCopied ==
    \A r \in Rank : \A n \in ToSet(finished[r]["send"]) : Copied(r, n)

(* Every call comes to its end, if both workers call for every transfer    *)
(* and at most one of them without async_op.                               *)
TransfersEnd ==
    <>(\A r \in Rank : Len(finished[r]["send"]) = Len(traffic[r])
                       /\ Len(finished[Peer(r)]["recv"]) = Len(traffic[r]))
=============================================================================
