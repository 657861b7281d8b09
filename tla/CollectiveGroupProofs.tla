----------------------- MODULE CollectiveGroupProofs -----------------------
(***************************************************************************)
(* Proofs about a collective group: works end in the order of their calls, *)
(* no broadcast meets one of another message (Paired), and a send that     *)
(* shares memory is through only when the receiver has copied it           *)
(* (SharedUntilCopied).                                                    *)
(*                                                                         *)
(* A rank in a role is an end; the two ends of the transfers of one source *)
(* are that rank as a sender and its peer as a receiver.  Queues says that *)
(* an end runs one work at a time, in the order of the calls, whoever runs *)
(* it.  Lockstep says that the two ends have called the same broadcasts,   *)
(* or one of them just one more.  As the ends of a source have their wires *)
(* for themselves, the counts of calls on each wire then agree too, up to  *)
(* that one (Books), and what is met there is what is to be met (Heard).   *)
(*                                                                         *)
(* A wire belongs to one source only if workers with uncertain devices     *)
(* send one way (OneWay): a receiver answers them on the wire of its own   *)
(* sends.  Without OneWay TLC finds Paired violated (Duplex).              *)
(***************************************************************************)
EXTENDS CollectiveGroup, SequenceTheorems, TLAPS

\* Workers with uncertain devices send one way.
OneWay == "uncertain" \notin Relations \/ ~Duplex

Part == {"type", "meta", "body", "data", "handles", "copied", "devices", "device"}
MessageType == [back : BOOLEAN, medium : {"cpu", "accel"}, part : Part]
LabelType == [source : Rank, id : Nat, part : Part]
WorkType == [role : Role, id : Nat, at : Nat, ticket : Nat]
Wires == Rank \X {"cpu", "accel"}

GroupType ==
    /\ relation \in {"none", "same", "uncertain"}
    /\ traffic \in [Rank -> Seq(Sendable)]
    /\ relation = "uncertain" => traffic[1] = <<>>
    /\ issued \in [Rank -> [Role -> Nat]]
    /\ workQueue \in [Rank -> [Role -> Seq(Nat)]]
    /\ workDone \in [Rank -> [Role -> BOOLEAN]]
    /\ work \in [Thread -> WorkType \cup {Resting}]
    /\ posts \in [Wires -> [out : Seq(LabelType), in : Nat]]
    /\ finished \in [Rank -> [Role -> Seq(Nat)]]

\* A rank in a role is an end of the transfers of one source; the other end is the peer in the
\* other role.
From(r, role) == IF role = "send" THEN r ELSE Peer(r)
Counter(role) == IF role = "send" THEN "recv" ELSE "send"

Ended(r, role) == Len(finished[r][role])
Active(th) == work[th] # Resting /\ work[th].at > 0
CallerIn(r, role) == work[Caller(r)] # Resting /\ work[Caller(r)].role = role
Busy(r, role) == IF work[<<r, role>>] # Resting THEN 1 ELSE 0
Waiting(r, role) == Busy(r, role) + Len(workQueue[r][role])

\* The works of an end come to an end in the order of their calls: those that ended, that of its
\* thread, those in the queue, that of the caller.
QueueOf(r, role) ==
    /\ finished[r][role] = [n \in 1 .. Ended(r, role) |-> n]
    /\ \A i \in 1 .. Len(workQueue[r][role]) :
          workQueue[r][role][i] = Ended(r, role) + Busy(r, role) + i
    /\ work[<<r, role>>] # Resting =>
          work[<<r, role>>].role = role /\ work[<<r, role>>].id = Ended(r, role) + 1
    /\ workDone[r][role] => Waiting(r, role) = 0
    /\ CallerIn(r, role) =>
          /\ work[Caller(r)].id = Ended(r, role) + Waiting(r, role) + 1
          /\ work[Caller(r)].id = issued[r][role]
          /\ work[Caller(r)].at > 0 => workDone[r][role]
    /\ ~CallerIn(r, role) => issued[r][role] = Ended(r, role) + Waiting(r, role)
    /\ issued[r][role] <= Len(traffic[From(r, role)])

Queues == \A r \in Rank, role \in Role : QueueOf(r, role)

\* How many broadcasts of its current transfer an end has called, and the ticket of the last.
Runner(r, role) == IF Active(<<r, role>>) THEN <<r, role>> ELSE Caller(r)
Called(r, role) ==
    IF Active(<<r, role>>) THEN work[<<r, role>>].at
    ELSE IF Active(Caller(r)) /\ CallerIn(r, role) THEN work[Caller(r)].at ELSE 0
TicketOf(r, role) == work[Runner(r, role)].ticket

Script(r, role) == Messages(traffic[From(r, role)][Ended(r, role) + 1])
Now(r, role) == Script(r, role)[Called(r, role)]
Calls(role, m) == (role = "send") # m.back
WireOf(r, role, m) == <<IF Calls(role, m) THEN r ELSE Peer(r), m.medium>>
LabelOf(r, role) == [source |-> From(r, role), id |-> Ended(r, role) + 1, part |-> Now(r, role).part]

\* How many broadcasts a rank has called on a wire.
Count(r, wire) == IF wire[1] = r THEN Len(posts[wire].out) ELSE posts[wire].in

\* The wires of the transfers of a source.
WiresOf(source) ==
    {wire \in Wires : IF relation = "uncertain" THEN source = 0 ELSE wire[1] = source}

\* Both ends have called the same broadcasts.
Even(r, role) ==
    LET q == Peer(r)  other == Counter(role)
    IN  \/ Ended(r, role) = Ended(q, other) /\ Called(r, role) = Called(q, other)
        \/ /\ Ended(r, role) = Ended(q, other) + 1
           /\ Called(q, other) = Len(Script(q, other)) /\ Called(r, role) = 0
        \/ /\ Ended(q, other) = Ended(r, role) + 1
           /\ Called(r, role) = Len(Script(r, role)) /\ Called(q, other) = 0

\* The end has called one that the other end has not.
Ahead(r, role) ==
    LET q == Peer(r)  other == Counter(role)
    IN  \/ Ended(r, role) = Ended(q, other) /\ Called(r, role) = Called(q, other) + 1
        \/ /\ Ended(r, role) = Ended(q, other) + 1
           /\ Called(q, other) = Len(Script(q, other)) /\ Called(r, role) = 1

Progress(r, role) ==
    Called(r, role) > 0 => /\ Ended(r, role) + 1 \in 1 .. Len(traffic[From(r, role)])
                           /\ Called(r, role) \in 1 .. Len(Script(r, role))

Lockstep(r, role) ==
    Even(r, role) \/ Ahead(r, role) \/ Ahead(Peer(r), Counter(role))

Books(r, role) ==
    /\ Even(r, role) =>
          \A wire \in WiresOf(From(r, role)) : Count(r, wire) = Count(Peer(r), wire)
    /\ Ahead(r, role) =>
          /\ \A wire \in WiresOf(From(r, role)) :
                Count(r, wire) = Count(Peer(r), wire)
                                 + (IF wire = WireOf(r, role, Now(r, role)) THEN 1 ELSE 0)
          /\ TicketOf(r, role) = Count(r, WireOf(r, role, Now(r, role)))

Heard(r, role) ==
    Called(r, role) > 0 =>
        LET wire == WireOf(r, role, Now(r, role))
        IN  /\ TicketOf(r, role) \in 1 .. Count(r, wire)
            /\ TicketOf(r, role) <= Len(posts[wire].out) =>
                  posts[wire].out[TicketOf(r, role)] = LabelOf(r, role)

Meeting == \A r \in Rank, role \in Role :
    Progress(r, role) /\ Lockstep(r, role) /\ Books(r, role) /\ Heard(r, role)

GroupInv == GroupType /\ Queues /\ Meeting /\ garbled = {}

-----------------------------------------------------------------------------
\* The messages of a transfer: the last one is not that of the handles.

Partial(s) == s \in Seq(MessageType) /\ \A k \in 1 .. Len(s) : s[k].back => relation = "uncertain"
Whole(s) == Partial(s) /\ s # <<>> /\ s[Len(s)].part # "handles"

LEMMA PartialConcat ==
    ASSUME NEW s, NEW t, Partial(s), Partial(t)
    PROVE  Partial(s \o t)
<1>1. s \in Seq(MessageType) /\ t \in Seq(MessageType)
  BY DEF Partial
<1>2. /\ s \o t \in Seq(MessageType) /\ Len(s \o t) = Len(s) + Len(t)
      /\ \A k \in 1 .. Len(s) + Len(t) : (s \o t)[k] = IF k <= Len(s) THEN s[k] ELSE t[k - Len(s)]
  BY <1>1, ConcatProperties
<1>3. ASSUME NEW k \in 1 .. Len(s \o t), (s \o t)[k].back PROVE relation = "uncertain"
  <2>1. CASE k <= Len(s)
    BY <1>1, <1>2, <1>3, <2>1 DEF Partial
  <2>2. CASE ~(k <= Len(s))
    <3>1. k - Len(s) \in 1 .. Len(t) /\ (s \o t)[k] = t[k - Len(s)]
      BY <1>1, <1>2, <2>2
    <3> QED BY <1>3, <3>1 DEF Partial
  <2> QED BY <2>1, <2>2
<1> QED BY <1>2, <1>3 DEF Partial

LEMMA WholeConcat ==
    ASSUME NEW s, NEW t, Partial(s), Whole(t)
    PROVE  Whole(s \o t)
<1>1. s \in Seq(MessageType) /\ t \in Seq(MessageType) /\ t # <<>> /\ Partial(t)
  BY DEF Partial, Whole
<1>2. /\ Len(s \o t) = Len(s) + Len(t)
      /\ \A k \in 1 .. Len(s) + Len(t) : (s \o t)[k] = IF k <= Len(s) THEN s[k] ELSE t[k - Len(s)]
  BY <1>1, ConcatProperties
<1>3. Len(t) \in Nat /\ Len(t) > 0 /\ Len(s) \in Nat
  BY <1>1
<1>4. (s \o t)[Len(s \o t)] = t[Len(t)] /\ s \o t # <<>>
  BY <1>1, <1>2, <1>3
<1> QED BY <1>1, <1>4, PartialConcat DEF Whole

LEMMA ThereWhole ==
    ASSUME NEW medium \in {"cpu", "accel"}, NEW part \in Part
    PROVE  Partial(There(medium, part)) /\ (part # "handles" => Whole(There(medium, part)))
BY DEF There, Partial, Whole, MessageType

LEMMA PartialEmpty == Partial(<<>>)
BY DEF Partial

LEMMA PayloadWhole ==
    ASSUME relation \in {"none", "same", "uncertain"}, NEW via
    PROVE  Whole(Payload(via)) /\ Partial(Payload(via))
<1>1. {"handles", "copied", "devices", "device", "data"} \subseteq Part
  BY DEF Part
<1>2. Whole(ByHandles) /\ Partial(ByHandles)
  <2>1. Partial(There("cpu", "handles")) /\ Whole(There("cpu", "copied"))
    BY <1>1, ThereWhole
  <2> QED BY <2>1, WholeConcat DEF ByHandles, Whole
<1>3. Whole(There("accel", "data")) /\ Partial(There("accel", "data"))
  BY <1>1, ThereWhole
<1>4. CASE relation = "uncertain"
  <2> DEFINE head == There("cpu", "devices") \o Back("cpu", "device")
             ipc == IF "ipc" \in via THEN ByHandles ELSE <<>>
             ccl == IF "ccl" \in via THEN There("accel", "data") ELSE <<>>
  <2>1. Partial(There("cpu", "devices"))
    BY <1>1, ThereWhole
  <2>2. Whole(Back("cpu", "device"))
    BY <1>1, <1>4 DEF Back, Partial, Whole, MessageType
  <2>3. Whole(head) /\ Partial(head) /\ head \in Seq(MessageType)
    BY <2>1, <2>2, WholeConcat DEF Whole, Partial
  <2>4. Partial(ipc) /\ Partial(ccl) /\ (ipc = <<>> \/ Whole(ipc)) /\ (ccl = <<>> \/ Whole(ccl))
    BY <1>2, <1>3, PartialEmpty
  <2> HIDE DEF head, ipc, ccl
  <2>5. Whole(head \o ipc) /\ Partial(head \o ipc) /\ head \o ipc \in Seq(MessageType)
    <3>1. CASE ipc = <<>>
      <4>1. head \o ipc = head
        BY <2>3, <3>1, ConcatEmptySeq
      <4> QED BY <2>3, <4>1
    <3>2. CASE Whole(ipc)
      BY <2>3, <3>2, WholeConcat DEF Whole, Partial
    <3> QED BY <2>4, <3>1, <3>2
  <2>6. Whole((head \o ipc) \o ccl)
    <3>1. CASE ccl = <<>>
      <4>1. (head \o ipc) \o ccl = head \o ipc
        BY <2>5, <3>1, ConcatEmptySeq
      <4> QED BY <2>5, <4>1
    <3>2. CASE Whole(ccl)
      BY <2>5, <3>2, WholeConcat
    <3> QED BY <2>4, <3>1, <3>2
  <2>7. Payload(via) = (head \o ipc) \o ccl
    BY <1>4 DEF Payload, ToUncertainPeer, head, ipc, ccl
  <2> QED BY <2>6, <2>7 DEF Whole
<1> QED BY <1>2, <1>3, <1>4 DEF Payload

LEMMA ScriptWhole ==
    ASSUME relation \in {"none", "same", "uncertain"}, NEW x \in Sendable
    PROVE  Whole(Messages(x))
<1>1. {"type", "body", "meta"} \subseteq Part
  BY DEF Part
<1>2. Whole(Body) /\ Partial(Body)
  BY <1>1, ThereWhole DEF Body
<1>3. Whole(Payload(x.via)) /\ Partial(Payload(x.via))
  BY PayloadWhole
<1>4. Partial(There("cpu", "meta")) /\ Partial(There("cpu", "type"))
  BY <1>1, ThereWhole
<1>5. Whole(TensorList(x.via)) /\ Partial(TensorList(x.via))
  BY <1>3, <1>4, WholeConcat DEF TensorList, Whole
<1>6. Whole(TensorDict(x.via)) /\ Whole(Dataclass(x.via))
  BY <1>2, <1>5, WholeConcat DEF TensorDict, Dataclass
<1>7. x.kind \in {"object", "tensors", "dict", "dataclass", "raw"}
  BY GroupAssumption DEF Sendable
<1>8. CASE x.kind = "raw"
  BY <1>3, <1>8 DEF Messages
<1>9. CASE x.kind # "raw"
  <2>1. ASSUME NEW t, Whole(t) PROVE Whole(There("cpu", "type") \o t)
    BY <1>4, <2>1, WholeConcat
  <2>2. CASE x.kind = "object"
    BY <1>2, <2>1, <2>2 DEF Messages
  <2>3. CASE x.kind = "tensors"
    BY <1>5, <2>1, <2>3 DEF Messages
  <2>4. CASE x.kind = "dict"
    BY <1>6, <2>1, <2>4 DEF Messages
  <2>5. CASE x.kind = "dataclass"
    BY <1>6, <2>1, <2>5 DEF Messages
  <2> QED BY <1>7, <1>9, <2>2, <2>3, <2>4, <2>5
<1> QED BY <1>8, <1>9

-----------------------------------------------------------------------------
\* Ends and the threads that run for them.

LEMMA EndFacts ==
    ASSUME NEW r \in Rank, NEW role \in Role
    PROVE  /\ Peer(r) \in Rank /\ Peer(r) # r /\ Peer(Peer(r)) = r
           /\ Counter(role) \in Role /\ Counter(role) # role /\ Counter(Counter(role)) = role
           /\ From(r, role) \in Rank /\ From(Peer(r), Counter(role)) = From(r, role)
           /\ <<r, role>> \in Thread /\ Caller(r) \in Thread /\ <<r, role>> # Caller(r)
BY DEF Rank, Role, Peer, Counter, From, Thread, Caller

LEMMA ThreadFacts ==
    ASSUME NEW th \in Thread
    PROVE  /\ th[1] \in Rank
           /\ th = Caller(th[1]) \/ (th[2] \in Role /\ th = <<th[1], th[2]>>)
BY DEF Thread, Caller

\* What an end sees of its state.
LEMMA EndTypes ==
    ASSUME GroupType, NEW r \in Rank, NEW role \in Role
    PROVE  /\ Ended(r, role) \in Nat /\ finished[r][role] \in Seq(Nat)
           /\ workQueue[r][role] \in Seq(Nat) /\ Len(workQueue[r][role]) \in Nat
           /\ Busy(r, role) \in {0, 1} /\ Waiting(r, role) \in Nat
           /\ issued[r][role] \in Nat /\ workDone[r][role] \in BOOLEAN
           /\ traffic[From(r, role)] \in Seq(Sendable) /\ Len(traffic[From(r, role)]) \in Nat
           /\ work[Caller(r)] \in WorkType \cup {Resting} /\ work[<<r, role>>] \in WorkType \cup {Resting}
<1>1. /\ From(r, role) \in Rank /\ <<r, role>> \in Thread /\ Caller(r) \in Thread
  BY EndFacts
<1>2. Ended(r, role) \in Nat /\ finished[r][role] \in Seq(Nat)
  BY DEF GroupType, Ended
<1>3. workQueue[r][role] \in Seq(Nat) /\ Len(workQueue[r][role]) \in Nat
  BY DEF GroupType
<1>4. Busy(r, role) \in {0, 1}
  BY DEF Busy
<1>5. traffic[From(r, role)] \in Seq(Sendable) /\ Len(traffic[From(r, role)]) \in Nat
  BY <1>1 DEF GroupType
<1> QED BY <1>1, <1>2, <1>3, <1>4, <1>5 DEF GroupType, Waiting

\* The thread that runs a work of an end, or is about to: it is the one that Runner says.
LEMMA RunnerFacts ==
    ASSUME GroupType, Queues, NEW th \in Thread, work[th] # Resting,
           work[th].at > 0 \/ MayBegin(th)
    PROVE  LET r == th[1]  role == work[th].role
           IN  /\ r \in Rank /\ role \in Role /\ work[th] \in WorkType
               /\ work[th].id = Ended(r, role) + 1
               /\ Ended(r, role) + 1 \in 1 .. Len(traffic[From(r, role)])
               /\ Called(r, role) = work[th].at
               /\ work[th].at > 0 => th = Runner(r, role) /\ TicketOf(r, role) = work[th].ticket
               /\ th = <<r, role>> \/ (th = Caller(r) /\ work[<<r, role>>] = Resting
                                       /\ Len(workQueue[r][role]) = 0)
<1> DEFINE r == th[1]
           role == work[th].role
<1>1. r \in Rank /\ work[th] \in WorkType /\ role \in Role /\ work[th].at \in Nat
  BY ThreadFacts DEF GroupType, WorkType
<1>2. QueueOf(r, role)
  BY <1>1 DEF Queues
<1>3. /\ Ended(r, role) \in Nat /\ Busy(r, role) \in {0, 1} /\ Waiting(r, role) \in Nat
      /\ issued[r][role] \in Nat /\ Len(workQueue[r][role]) \in Nat
      /\ Len(traffic[From(r, role)]) \in Nat
      /\ work[Caller(r)] \in WorkType \cup {Resting}
  BY <1>1, EndTypes
<1>4. <<r, role>> # Caller(r)
  BY <1>1, EndFacts
<1> HIDE DEF r, role
<1>5. CASE th = Caller(r)
  <2>1. CallerIn(r, role)
    BY <1>5 DEF CallerIn, role
  <2>2. workDone[r][role]
    <3>1. CASE work[th].at > 0
      BY <1>2, <1>5, <2>1, <3>1 DEF QueueOf
    <3>2. CASE MayBegin(th)
      BY <1>5, <3>2 DEF MayBegin, Caller, r, role
    <3> QED BY <3>1, <3>2
  <2>3. Waiting(r, role) = 0 /\ work[th].id = Ended(r, role) + 1 /\ work[th].id = issued[r][role]
        /\ issued[r][role] <= Len(traffic[From(r, role)])
    BY <1>2, <1>3, <1>5, <2>1, <2>2 DEF QueueOf
  <2>4. Busy(r, role) = 0 /\ Len(workQueue[r][role]) = 0
    BY <1>3, <2>3 DEF Waiting
  <2>5. work[<<r, role>>] = Resting
    BY <2>4 DEF Busy
  <2>6. Called(r, role) = work[th].at
    BY <1>1, <1>5, <2>1, <2>5 DEF Called, Active
  <2>7. work[th].at > 0 => th = Runner(r, role) /\ TicketOf(r, role) = work[th].ticket
    BY <1>5, <2>5 DEF Runner, Active, TicketOf
  <2> QED BY <1>1, <1>3, <1>5, <2>3, <2>4, <2>5, <2>6, <2>7 DEF r, role
<1>6. CASE th # Caller(r)
  <2>1. th[2] \in Role /\ th = <<r, th[2]>>
    BY <1>6, ThreadFacts DEF r
  <2>2. QueueOf(r, th[2])
    BY <1>1, <2>1 DEF Queues
  <2>3. th[2] = role
    BY <2>1, <2>2 DEF QueueOf, role
  <2>4. th = <<r, role>> /\ work[th].id = Ended(r, role) + 1
    BY <2>1, <2>2, <2>3 DEF QueueOf
  <2>5. Busy(r, role) = 1
    BY <2>4 DEF Busy
  <2>6. Waiting(r, role) >= 1
    BY <1>3, <2>5 DEF Waiting
  <2>7. issued[r][role] >= Ended(r, role) + 1 /\ issued[r][role] <= Len(traffic[From(r, role)])
    <3>1. CASE CallerIn(r, role)
      BY <1>2, <1>3, <2>6, <3>1 DEF QueueOf
    <3>2. CASE ~CallerIn(r, role)
      BY <1>2, <1>3, <2>6, <3>2 DEF QueueOf
    <3> QED BY <3>1, <3>2
  <2>8. ~workDone[r][role]
    BY <1>2, <2>6 DEF QueueOf
  <2>9. ~(Active(Caller(r)) /\ CallerIn(r, role))
    BY <1>2, <2>8 DEF QueueOf, Active
  <2>10. Called(r, role) = work[th].at
    BY <1>1, <2>4, <2>9 DEF Called, Active
  <2>11. work[th].at > 0 => th = Runner(r, role) /\ TicketOf(r, role) = work[th].ticket
    BY <2>4 DEF Runner, Active, TicketOf
  <2> QED BY <1>1, <1>3, <2>4, <2>7, <2>10, <2>11 DEF r, role
<1> QED BY <1>5, <1>6

-----------------------------------------------------------------------------
\* The calls, and the queues.

\* What the other end, and the wires, depend on.
SameView(r, role) ==
    /\ Ended(r, role)' = Ended(r, role) /\ Called(r, role)' = Called(r, role)
    /\ Called(r, role) > 0 => TicketOf(r, role)' = TicketOf(r, role)

LEMMA Unmoved ==
    ASSUME NEW r \in Rank, NEW role \in Role, finished'[r][role] = finished[r][role],
           \A th \in {<<r, role>>, Caller(r)} :
              (Active(th)' <=> Active(th)) /\ (Active(th) => work'[th] = work[th])
    PROVE  SameView(r, role)
<1>1. Ended(r, role)' = Ended(r, role)
  BY DEF Ended
<1>2. CASE Active(<<r, role>>)
  BY <1>1, <1>2 DEF SameView, Called, TicketOf, Runner
<1>3. CASE ~Active(<<r, role>>) /\ Active(Caller(r))
  <2>1. Active(Caller(r))' /\ ~Active(<<r, role>>)' /\ work'[Caller(r)] = work[Caller(r)]
    BY <1>3
  <2> QED BY <1>1, <1>3, <2>1 DEF SameView, Called, TicketOf, Runner, CallerIn
<1>4. CASE ~Active(<<r, role>>) /\ ~Active(Caller(r))
  <2>1. Called(r, role) = 0 /\ Called(r, role)' = 0
    BY <1>4 DEF Called
  <2> QED BY <1>1, <2>1 DEF SameView
<1> QED BY <1>2, <1>3, <1>4

LEMMA QueueSame ==
    ASSUME NEW r \in Rank, NEW role \in Role, QueueOf(r, role),
           finished'[r][role] = finished[r][role], workQueue'[r][role] = workQueue[r][role],
           workDone'[r][role] = workDone[r][role], issued'[r][role] = issued[r][role],
           traffic' = traffic,
           work'[<<r, role>>] # Resting <=> work[<<r, role>>] # Resting,
           work[<<r, role>>] # Resting =>
              /\ work'[<<r, role>>].role = work[<<r, role>>].role
              /\ work'[<<r, role>>].id = work[<<r, role>>].id,
           CallerIn(r, role)' <=> CallerIn(r, role),
           CallerIn(r, role) =>
              /\ work'[Caller(r)].id = work[Caller(r)].id
              /\ work'[Caller(r)].at > 0 => work[Caller(r)].at > 0 \/ workDone[r][role]
    PROVE  QueueOf(r, role)'
<1>1. Ended(r, role)' = Ended(r, role) /\ Busy(r, role)' = Busy(r, role)
  BY DEF Ended, Busy
<1>2. Waiting(r, role)' = Waiting(r, role)
  BY <1>1 DEF Waiting
<1> QED BY <1>1, <1>2 DEF QueueOf

LEMMA CallAsyncKeeps ==
    ASSUME GroupType, Queues, NEW r \in Rank, NEW role \in Role, CallAsync(r, role)
    PROVE  GroupType' /\ Queues' /\ \A q \in Rank, o \in Role : SameView(q, o)
<1>1. /\ work[Caller(r)] = Resting
      /\ issued[r][role] < Len(traffic[From(r, role)])
      /\ issued' = [issued EXCEPT ![r][role] = @ + 1]
      /\ workDone' = [workDone EXCEPT ![r][role] = FALSE]
      /\ UNCHANGED <<relation, traffic, joined, work, posts, finished, garbled>>
  BY DEF CallAsync, From
<1> DEFINE n == issued[r][role] + 1
<1>2. issued \in [Rank -> [Role -> Nat]] /\ workQueue \in [Rank -> [Role -> Seq(Nat)]]
      /\ workDone \in [Rank -> [Role -> BOOLEAN]]
  BY DEF GroupType
<1>3. issued'[r][role] = n /\ n \in Nat
  BY <1>1, <1>2
<1>4. workQueue' = [workQueue EXCEPT ![r][role] = Append(@, n)]
  BY <1>3 DEF CallAsync
<1>5. /\ workQueue'[r][role] = Append(workQueue[r][role], n) /\ ~workDone'[r][role]
      /\ \A q \in Rank, o \in Role : <<q, o>> # <<r, role>> =>
            /\ issued'[q][o] = issued[q][o] /\ workQueue'[q][o] = workQueue[q][o]
            /\ workDone'[q][o] = workDone[q][o]
  BY <1>1, <1>2, <1>4
<1>6. GroupType'
  <2>1. Append(workQueue[r][role], n) \in Seq(Nat)
    BY <1>2, <1>3
  <2>2. workQueue' \in [Rank -> [Role -> Seq(Nat)]]
    BY <1>2, <1>4, <2>1
  <2>3. issued' \in [Rank -> [Role -> Nat]] /\ workDone' \in [Rank -> [Role -> BOOLEAN]]
    BY <1>1, <1>2
  <2> QED BY <1>1, <2>2, <2>3 DEF GroupType, Sendable
<1> HIDE DEF n
<1>7. QueueOf(r, role)'
  <2>1. /\ Ended(r, role) \in Nat /\ Busy(r, role) \in {0, 1} /\ Waiting(r, role) \in Nat
        /\ workQueue[r][role] \in Seq(Nat) /\ Len(workQueue[r][role]) \in Nat /\ issued[r][role] \in Nat
        /\ Len(traffic[From(r, role)]) \in Nat
    BY EndTypes
  <2>2. QueueOf(r, role) /\ ~CallerIn(r, role)
    BY <1>1 DEF Queues, CallerIn
  <2>3. n = Ended(r, role) + Waiting(r, role) + 1
    BY <2>2 DEF QueueOf, n
  <2>4. /\ Len(workQueue'[r][role]) = Len(workQueue[r][role]) + 1
        /\ \A i \in 1 .. Len(workQueue[r][role]) + 1 :
              workQueue'[r][role][i] = IF i <= Len(workQueue[r][role]) THEN workQueue[r][role][i] ELSE n
    BY <1>3, <1>5, <2>1
  <2>5. Ended(r, role)' = Ended(r, role) /\ Busy(r, role)' = Busy(r, role)
    BY <1>1 DEF Ended, Busy
  <2>6. Waiting(r, role)' = Waiting(r, role) + 1
    BY <2>1, <2>4, <2>5 DEF Waiting
  <2>7. ASSUME NEW i \in 1 .. Len(workQueue'[r][role])
        PROVE  workQueue'[r][role][i] = Ended(r, role) + Busy(r, role) + i
    <3>1. CASE i <= Len(workQueue[r][role])
      BY <2>1, <2>2, <2>4, <3>1 DEF QueueOf
    <3>2. CASE ~(i <= Len(workQueue[r][role]))
      <4>1. i = Len(workQueue[r][role]) + 1 /\ workQueue'[r][role][i] = n
        BY <2>1, <2>4, <3>2
      <4>2. Waiting(r, role) = Busy(r, role) + Len(workQueue[r][role])
        BY DEF Waiting
      <4>3. \A e, b, l \in Nat : e + (b + l) + 1 = e + b + (l + 1)
        OBVIOUS
      <4>4. Busy(r, role) \in Nat
        BY <2>1
      <4>5. Ended(r, role) + Waiting(r, role) + 1
            = Ended(r, role) + Busy(r, role) + (Len(workQueue[r][role]) + 1)
        BY <2>1, <4>2, <4>3, <4>4
      <4> QED BY <2>3, <4>1, <4>5
    <3> QED BY <3>1, <3>2
  <2>8. ~CallerIn(r, role)'
    BY <1>1 DEF CallerIn
  <2>9. issued'[r][role] = Ended(r, role)' + Waiting(r, role)'
    BY <1>3, <2>1, <2>3, <2>5, <2>6
  <2>10. issued'[r][role] <= Len(traffic'[From(r, role)])
    BY <1>1, <1>3, <2>1 DEF n
  <2> QED BY <1>1, <1>5, <2>2, <2>5, <2>7, <2>8, <2>9, <2>10 DEF QueueOf
<1>8. ASSUME NEW q \in Rank, NEW o \in Role, <<q, o>> # <<r, role>> PROVE QueueOf(q, o)'
  <2>1. QueueOf(q, o) /\ (CallerIn(q, o)' <=> CallerIn(q, o))
    BY <1>1 DEF Queues, CallerIn
  <2> QED BY <1>1, <1>5, <1>8, <2>1, QueueSame
<1>9. \A q \in Rank, o \in Role : SameView(q, o)
  BY <1>1, Unmoved DEF Active
<1> QED BY <1>6, <1>7, <1>8, <1>9 DEF Queues

LEMMA CallSyncKeeps ==
    ASSUME GroupType, Queues, NEW r \in Rank, NEW role \in Role, CallSync(r, role)
    PROVE  GroupType' /\ Queues' /\ \A q \in Rank, o \in Role : SameView(q, o)
<1> DEFINE n == issued[r][role] + 1
           w == Work(role, n)
<1>1. /\ work[Caller(r)] = Resting
      /\ issued[r][role] < Len(traffic[From(r, role)])
      /\ issued' = [issued EXCEPT ![r][role] = @ + 1]
      /\ UNCHANGED <<relation, traffic, joined, workQueue, workDone, posts, finished, garbled>>
  BY DEF CallSync, From
<1>2. issued \in [Rank -> [Role -> Nat]] /\ work \in [Thread -> WorkType \cup {Resting}]
  BY DEF GroupType
<1>3. issued'[r][role] = n /\ n \in Nat
  BY <1>1, <1>2
<1>4. work' = [work EXCEPT ![Caller(r)] = w]
  BY <1>3 DEF CallSync
<1>5. w \in WorkType /\ w.at = 0 /\ w.id = n /\ w.role = role
  BY <1>3 DEF Work, WorkType
<1>6. w # Resting
  BY <1>5, RestingAssumption DEF WorkType
<1>7. /\ Caller(r) \in Thread /\ work'[Caller(r)] = w
      /\ \A th \in Thread : th # Caller(r) => work'[th] = work[th]
      /\ \A q \in Rank, o \in Role : <<q, o>> # <<r, role>> => issued'[q][o] = issued[q][o]
  BY <1>1, <1>2, <1>4, EndFacts
<1> HIDE DEF w, n
<1>8. GroupType'
  <2>1. issued' \in [Rank -> [Role -> Nat]]
    BY <1>1, <1>2
  <2>2. work' \in [Thread -> WorkType \cup {Resting}]
    BY <1>2, <1>4, <1>5
  <2> QED BY <1>1, <2>1, <2>2 DEF GroupType, Sendable
<1>9. \A q \in Rank, o \in Role :
         /\ <<q, o>> \in Thread /\ <<q, o>> # Caller(r) /\ Caller(q) \in Thread
         /\ Caller(q) = Caller(r) <=> q = r
  BY DEF Thread, Caller, Role, Rank
<1>10. QueueOf(r, role)'
  <2>1. /\ Ended(r, role) \in Nat /\ Waiting(r, role) \in Nat /\ issued[r][role] \in Nat
        /\ Len(traffic[From(r, role)]) \in Nat
    BY EndTypes
  <2>2. QueueOf(r, role) /\ ~CallerIn(r, role)
    BY <1>1 DEF Queues, CallerIn
  <2>3. n = Ended(r, role) + Waiting(r, role) + 1
    BY <2>2 DEF QueueOf, n
  <2>4. Ended(r, role)' = Ended(r, role) /\ Busy(r, role)' = Busy(r, role)
    BY <1>1, <1>7, <1>9 DEF Ended, Busy
  <2>5. Waiting(r, role)' = Waiting(r, role)
    BY <1>1, <2>4 DEF Waiting
  <2>6. CallerIn(r, role)' /\ work'[<<r, role>>] = work[<<r, role>>]
    BY <1>5, <1>6, <1>7, <1>9 DEF CallerIn
  <2>7. n <= Len(traffic'[From(r, role)])
    BY <1>1, <2>1 DEF n
  <2> QED BY <1>1, <1>3, <1>5, <1>7, <2>2, <2>3, <2>4, <2>5, <2>6, <2>7 DEF QueueOf
<1>11. ASSUME NEW q \in Rank, NEW o \in Role, <<q, o>> # <<r, role>> PROVE QueueOf(q, o)'
  <2>1. QueueOf(q, o) /\ work'[<<q, o>>] = work[<<q, o>>]
    BY <1>7, <1>9 DEF Queues
  <2>2. CASE q = r
    <3>1. ~CallerIn(q, o) /\ ~CallerIn(q, o)'
      BY <1>1, <1>5, <1>7, <1>11, <2>2 DEF CallerIn
    <3> QED BY <1>1, <1>7, <1>11, <2>1, <3>1, QueueSame
  <2>3. CASE q # r
    <3>1. work'[Caller(q)] = work[Caller(q)]
      BY <1>7, <1>9, <2>3
    <3>2. CallerIn(q, o)' <=> CallerIn(q, o)
      BY <3>1 DEF CallerIn
    <3> QED BY <1>1, <1>7, <1>11, <2>1, <3>1, <3>2, QueueSame
  <2> QED BY <2>2, <2>3
<1>12. \A th \in Thread : (Active(th)' <=> Active(th)) /\ (Active(th) => work'[th] = work[th])
  BY <1>1, <1>5, <1>7 DEF Active
<1>13. \A q \in Rank, o \in Role : SameView(q, o)
  BY <1>1, <1>9, <1>12, Unmoved
<1> QED BY <1>8, <1>10, <1>11, <1>13 DEF Queues

LEMMA TakeWorkKeeps ==
    ASSUME GroupType, Queues, NEW r \in Rank, NEW role \in Role, TakeWork(r, role)
    PROVE  GroupType' /\ Queues' /\ \A q \in Rank, o \in Role : SameView(q, o)
<1> DEFINE th0 == <<r, role>>
           queue == workQueue[r][role]
           w == Work(role, Head(queue))
<1>1. /\ work[th0] = Resting /\ queue # <<>>
      /\ work' = [work EXCEPT ![th0] = w]
      /\ workQueue' = [workQueue EXCEPT ![r][role] = Tail(@)]
      /\ UNCHANGED <<relation, traffic, joined, issued, workDone, posts, finished, garbled>>
  BY DEF TakeWork
<1>2. /\ workQueue \in [Rank -> [Role -> Seq(Nat)]] /\ work \in [Thread -> WorkType \cup {Resting}]
      /\ queue \in Seq(Nat)
  BY DEF GroupType
<1>3. /\ Head(queue) \in Nat /\ Head(queue) = queue[1] /\ Tail(queue) \in Seq(Nat)
      /\ Len(queue) \in Nat /\ Len(queue) >= 1 /\ Len(Tail(queue)) = Len(queue) - 1
      /\ \A i \in 1 .. Len(queue) - 1 : i + 1 \in 1 .. Len(queue) /\ Tail(queue)[i] = queue[i + 1]
  BY <1>1, <1>2
<1>4. w \in WorkType /\ w.at = 0 /\ w.id = queue[1] /\ w.role = role
  BY <1>3 DEF Work, WorkType
<1>5. w # Resting
  BY <1>4, RestingAssumption DEF WorkType
<1>6. /\ th0 \in Thread /\ work'[th0] = w
      /\ \A th \in Thread : th # th0 => work'[th] = work[th]
      /\ workQueue'[r][role] = Tail(queue)
      /\ \A q \in Rank, o \in Role : <<q, o>> # <<r, role>> => workQueue'[q][o] = workQueue[q][o]
  BY <1>1, <1>2, EndFacts
<1>7. GroupType'
  <2>1. work' \in [Thread -> WorkType \cup {Resting}]
    BY <1>1, <1>2, <1>4
  <2>2. workQueue' \in [Rank -> [Role -> Seq(Nat)]]
    BY <1>1, <1>2, <1>3
  <2> QED BY <1>1, <2>1, <2>2 DEF GroupType, Sendable
<1>8. \A q \in Rank, o \in Role :
         /\ <<q, o>> \in Thread /\ Caller(q) \in Thread /\ Caller(q) # th0
  BY DEF Thread, Caller, Role, Rank
<1>9. QueueOf(r, role)'
  <2>1. /\ Ended(r, role) \in Nat /\ Waiting(r, role) \in Nat /\ issued[r][role] \in Nat
        /\ workDone[r][role] \in BOOLEAN
    BY EndTypes
  <2>2. QueueOf(r, role)
    BY DEF Queues
  <2>3. Busy(r, role) = 0 /\ Busy(r, role)' = 1 /\ Ended(r, role)' = Ended(r, role)
    BY <1>1, <1>5, <1>6 DEF Busy, Ended
  <2>4. Waiting(r, role) = Len(queue) /\ Waiting(r, role)' = Waiting(r, role)
    BY <1>3, <1>6, <2>3 DEF Waiting
  <2>5. \A i \in 1 .. Len(queue) : queue[i] = Ended(r, role) + Busy(r, role) + i
    BY <2>2 DEF QueueOf
  <2>6. queue[1] = Ended(r, role) + 1
    BY <1>3, <2>1, <2>3, <2>5
  <2>7. ASSUME NEW i \in 1 .. Len(Tail(queue))
        PROVE  Tail(queue)[i] = Ended(r, role) + 1 + i
    <3>1. i \in 1 .. Len(queue) - 1
      BY <1>3
    <3>2. i + 1 \in 1 .. Len(queue) /\ Tail(queue)[i] = queue[i + 1]
      BY <1>3, <3>1
    <3>3. queue[i + 1] = Ended(r, role) + Busy(r, role) + (i + 1)
      BY <2>5, <3>2
    <3> QED BY <2>1, <2>3, <3>2, <3>3
  <2>8. work'[Caller(r)] = work[Caller(r)] /\ (CallerIn(r, role)' <=> CallerIn(r, role))
    BY <1>6, <1>8 DEF CallerIn
  <2>9. \A i \in 1 .. Len(workQueue'[r][role]) :
           workQueue'[r][role][i] = Ended(r, role)' + Busy(r, role)' + i
    BY <1>6, <2>3, <2>7
  <2>10. finished'[r][role] = [n \in 1 .. Ended(r, role)' |-> n]
    BY <1>1, <2>2, <2>3 DEF QueueOf
  <2>11. work'[<<r, role>>].role = role /\ work'[<<r, role>>].id = Ended(r, role)' + 1
    BY <1>4, <1>6, <2>3, <2>6
  <2>12. /\ workDone'[r][role] => Waiting(r, role)' = 0
         /\ CallerIn(r, role)' =>
               /\ work'[Caller(r)].id = Ended(r, role)' + Waiting(r, role)' + 1
               /\ work'[Caller(r)].id = issued'[r][role]
               /\ work'[Caller(r)].at > 0 => workDone'[r][role]
         /\ ~CallerIn(r, role)' => issued'[r][role] = Ended(r, role)' + Waiting(r, role)'
         /\ issued'[r][role] <= Len(traffic'[From(r, role)])
    BY <1>1, <2>2, <2>3, <2>4, <2>8 DEF QueueOf
  <2> QED BY <2>9, <2>10, <2>11, <2>12 DEF QueueOf
<1> HIDE DEF w, queue
<1>10. ASSUME NEW q \in Rank, NEW o \in Role, <<q, o>> # <<r, role>> PROVE QueueOf(q, o)'
  <2>1. /\ QueueOf(q, o) /\ work'[<<q, o>>] = work[<<q, o>>] /\ work'[Caller(q)] = work[Caller(q)]
        /\ workQueue'[q][o] = workQueue[q][o]
    BY <1>6, <1>8, <1>10 DEF Queues
  <2>2. CallerIn(q, o)' <=> CallerIn(q, o)
    BY <2>1 DEF CallerIn
  <2> QED BY <1>1, <2>1, <2>2, QueueSame
<1>11. \A th \in Thread : (Active(th)' <=> Active(th)) /\ (Active(th) => work'[th] = work[th])
  BY <1>1, <1>4, <1>6 DEF Active
<1>12. \A q \in Rank, o \in Role : SameView(q, o)
  BY <1>1, <1>8, <1>11, Unmoved
<1> QED BY <1>7, <1>9, <1>10, <1>12 DEF Queues

LEMMA NoWorkKeeps ==
    ASSUME GroupType, Queues, NEW r \in Rank, NEW role \in Role, NoWork(r, role)
    PROVE  GroupType' /\ Queues' /\ \A q \in Rank, o \in Role : SameView(q, o)
<1>1. /\ work[<<r, role>>] = Resting /\ workQueue[r][role] = <<>> /\ ~workDone[r][role]
      /\ workDone' = [workDone EXCEPT ![r][role] = TRUE]
      /\ UNCHANGED <<relation, traffic, joined, issued, workQueue, work, posts, finished, garbled>>
  BY DEF NoWork
<1>2. GroupType'
  BY <1>1 DEF GroupType, Sendable
<1>3. /\ workDone'[r][role]
      /\ \A q \in Rank, o \in Role : <<q, o>> # <<r, role>> => workDone'[q][o] = workDone[q][o]
  BY <1>1 DEF GroupType
<1>4. Waiting(r, role) = 0
  BY <1>1 DEF Waiting, Busy
<1>5. \A q \in Rank, o \in Role :
         /\ Ended(q, o)' = Ended(q, o) /\ Busy(q, o)' = Busy(q, o) /\ Waiting(q, o)' = Waiting(q, o)
         /\ CallerIn(q, o)' <=> CallerIn(q, o)
  BY <1>1 DEF Ended, Busy, Waiting, CallerIn
<1>6. ASSUME NEW q \in Rank, NEW o \in Role PROVE QueueOf(q, o)'
  <2>1. QueueOf(q, o)
    BY DEF Queues
  <2>2. CASE <<q, o>> = <<r, role>>
    BY <1>1, <1>3, <1>4, <1>5, <2>1, <2>2 DEF QueueOf
  <2>3. CASE <<q, o>> # <<r, role>>
    BY <1>1, <1>3, <1>5, <2>1, <2>3 DEF QueueOf
  <2> QED BY <2>2, <2>3
<1>7. \A q \in Rank, o \in Role : SameView(q, o)
  BY <1>1, Unmoved DEF Active
<1> QED BY <1>2, <1>6, <1>7 DEF Queues

-----------------------------------------------------------------------------
\* A thread calls a broadcast, and ends its work.

LEMMA OtherThreads ==
    ASSUME NEW th \in Thread, NEW q \in Rank, NEW o \in Role
    PROVE  /\ th = <<q, o>> => th[1] = q /\ th[2] = o
           /\ th = Caller(q) <=> (th[1] = q /\ th[2] = "caller")
           /\ <<q, o>> \in Thread /\ Caller(q) \in Thread
BY DEF Thread, Caller, Role, Rank

\* An end that th does not run for sees nothing of what th does.
LEMMA OthersSame ==
    ASSUME GroupType, Queues, NEW th \in Thread, work[th] # Resting,
           work[th].at > 0 \/ MayBegin(th),
           \A t \in Thread : t # th => work'[t] = work[t],
           work'[th] # Resting => work'[th].role = work[th].role,
           NEW q \in Rank, NEW o \in Role, <<q, o>> # <<th[1], work[th].role>>,
           finished'[q][o] = finished[q][o]
    PROVE  /\ SameView(q, o)
           /\ work'[<<q, o>>] = work[<<q, o>>]
           /\ CallerIn(q, o)' <=> CallerIn(q, o)
           /\ CallerIn(q, o) => work'[Caller(q)] = work[Caller(q)]
<1> DEFINE r == th[1]
           role == work[th].role
<1>1. r \in Rank /\ role \in Role /\ (th = <<r, role>> \/ (th = Caller(r) /\ work[<<r, role>>] = Resting))
  BY RunnerFacts
<1>2. th # <<q, o>>
  BY <1>1 DEF Caller, Role
<1>3. work'[<<q, o>>] = work[<<q, o>>]
  BY <1>2, OtherThreads
<1> HIDE DEF r, role
<1>4. CASE th # Caller(q)
  <2>1. work'[Caller(q)] = work[Caller(q)]
    BY <1>4, OtherThreads
  <2>2. SameView(q, o)
    BY <1>3, <2>1, Unmoved DEF Active
  <2> QED BY <1>3, <2>1, <2>2 DEF CallerIn
<1>5. CASE th = Caller(q)
  <2>1. r = q /\ o # role
    BY <1>5, OtherThreads DEF r, role
  <2>2. ~CallerIn(q, o) /\ ~CallerIn(q, o)'
    BY <1>5, <2>1 DEF CallerIn, role
  <2>3. SameView(q, o)
    <3>1. Ended(q, o)' = Ended(q, o)
      BY DEF Ended
    <3>2. CASE Active(<<q, o>>)
      BY <1>3, <3>1, <3>2 DEF SameView, Called, TicketOf, Runner, Active
    <3>3. CASE ~Active(<<q, o>>)
      <4>1. ~Active(<<q, o>>)'
        BY <1>3, <3>3 DEF Active
      <4>2. Called(q, o) = 0 /\ Called(q, o)' = 0
        BY <2>2, <3>3, <4>1 DEF Called
      <4> QED BY <3>1, <4>2 DEF SameView
    <3> QED BY <3>2, <3>3
  <2> QED BY <1>3, <2>2, <2>3
<1> QED BY <1>4, <1>5

LEMMA OthersQueues ==
    ASSUME GroupType, Queues, NEW th \in Thread, work[th] # Resting,
           work[th].at > 0 \/ MayBegin(th),
           \A t \in Thread : t # th => work'[t] = work[t],
           work'[th] # Resting => work'[th].role = work[th].role,
           UNCHANGED <<traffic, issued, workQueue, workDone>>,
           NEW q \in Rank, NEW o \in Role, <<q, o>> # <<th[1], work[th].role>>,
           finished'[q][o] = finished[q][o]
    PROVE  QueueOf(q, o)'
<1>1. QueueOf(q, o)
  BY DEF Queues
<1>2. /\ work'[<<q, o>>] = work[<<q, o>>] /\ (CallerIn(q, o)' <=> CallerIn(q, o))
      /\ CallerIn(q, o) => work'[Caller(q)] = work[Caller(q)]
  BY OthersSame
<1> QED BY <1>1, <1>2, QueueSame

LEMMA ThreadCalls ==
    ASSUME GroupType, Queues, NEW th \in Thread, work[th] # Resting,
           work[th].at > 0 \/ MayBegin(th),
           NEW w \in WorkType, w.role = work[th].role, w.id = work[th].id, w.at = work[th].at + 1,
           work' = [work EXCEPT ![th] = w], posts' \in [Wires -> [out : Seq(LabelType), in : Nat]],
           UNCHANGED <<relation, traffic, issued, workQueue, workDone, finished>>
    PROVE  /\ GroupType' /\ Queues'
           /\ \A q \in Rank, o \in Role : <<q, o>> # <<th[1], w.role>> => SameView(q, o)
           /\ Ended(th[1], w.role)' = Ended(th[1], w.role)
           /\ Called(th[1], w.role)' = Called(th[1], w.role) + 1
           /\ TicketOf(th[1], w.role)' = w.ticket
<1> DEFINE r == th[1]
           role == w.role
<1>1. /\ r \in Rank /\ role \in Role /\ work[th] \in WorkType
      /\ work[th].id = Ended(r, role) + 1 /\ Called(r, role) = work[th].at
      /\ th = <<r, role>> \/ (th = Caller(r) /\ work[<<r, role>>] = Resting)
  BY RunnerFacts
<1>2. /\ work \in [Thread -> WorkType \cup {Resting}] /\ work'[th] = w
      /\ \A t \in Thread : t # th => work'[t] = work[t]
  BY DEF GroupType
<1>3. work' \in [Thread -> WorkType \cup {Resting}]
  BY <1>2
<1>4. GroupType'
  BY <1>3 DEF GroupType, Sendable
<1>5. w # Resting /\ w.at > 0
  BY <1>1, RestingAssumption DEF WorkType
<1> HIDE DEF r, role
<1>6. Ended(r, role)' = Ended(r, role)
  BY DEF Ended
<1>7. ASSUME NEW q \in Rank, NEW o \in Role, <<q, o>> # <<r, role>>
      PROVE  SameView(q, o) /\ QueueOf(q, o)'
  <2>1. <<q, o>> # <<th[1], work[th].role>> /\ finished'[q][o] = finished[q][o]
    BY <1>7 DEF r, role
  <2> QED BY <1>2, <2>1, OthersSame, OthersQueues
<1>8. CASE th = <<r, role>>
  <2>1. Active(<<r, role>>)'
    BY <1>2, <1>5, <1>8 DEF Active
  <2>2. Called(r, role)' = w.at /\ TicketOf(r, role)' = w.ticket
    BY <1>2, <1>8, <2>1 DEF Called, TicketOf, Runner
  <2>3. Caller(r) # th /\ work'[Caller(r)] = work[Caller(r)]
    BY <1>1, <1>2, <1>8, EndFacts
  <2>4. QueueOf(r, role) /\ (CallerIn(r, role)' <=> CallerIn(r, role))
    BY <1>1, <2>3 DEF Queues, CallerIn
  <2>5. QueueOf(r, role)'
    BY <1>1, <1>2, <1>5, <1>8, <2>3, <2>4, QueueSame
  <2> QED BY <1>1, <1>4, <1>6, <1>7, <2>2, <2>5 DEF Queues, r, role
<1>9. CASE th = Caller(r) /\ work[<<r, role>>] = Resting
  <2>1. work'[<<r, role>>] = Resting
    BY <1>1, <1>2, <1>9, EndFacts
  <2>2. CallerIn(r, role)' /\ Active(Caller(r))' /\ ~Active(<<r, role>>)' /\ CallerIn(r, role)
    BY <1>2, <1>5, <1>9, <2>1 DEF Active, CallerIn, role
  <2>3. Called(r, role)' = w.at /\ TicketOf(r, role)' = w.ticket
    BY <1>2, <1>9, <2>2 DEF Called, TicketOf, Runner
  <2>4. QueueOf(r, role)
    BY <1>1 DEF Queues
  <2>5. work[th].at > 0 \/ workDone[r][role]
    BY <1>9 DEF MayBegin, Caller, r, role
  <2>6. QueueOf(r, role)'
    BY <1>1, <1>2, <1>9, <2>1, <2>2, <2>4, <2>5, QueueSame
  <2> QED BY <1>1, <1>4, <1>6, <1>7, <2>3, <2>6 DEF Queues, r, role
<1> QED BY <1>1, <1>8, <1>9

\* The thread th is through with the work of an end.
Through(th, r, role) ==
    /\ work[th] # Resting /\ work[th].at > 0 /\ r = th[1] /\ role = work[th].role
    /\ work'[th] = Resting /\ \A t \in Thread : t # th => work'[t] = work[t]
    /\ work' \in [Thread -> WorkType \cup {Resting}]
    /\ finished'[r][role] = Append(finished[r][role], work[th].id)
    /\ \A q \in Rank, o \in Role : <<q, o>> # <<r, role>> => finished'[q][o] = finished[q][o]
    /\ finished' \in [Rank -> [Role -> Seq(Nat)]]
    /\ UNCHANGED <<relation, traffic, issued, workQueue, workDone, posts>>

LEMMA ThreadEnds ==
    ASSUME GroupType, Queues, NEW th \in Thread, NEW r, NEW role, Through(th, r, role)
    PROVE  /\ GroupType' /\ Queues'
           /\ \A q \in Rank, o \in Role : <<q, o>> # <<r, role>> => SameView(q, o)
           /\ Ended(r, role)' = Ended(r, role) + 1 /\ Called(r, role)' = 0
<1> DEFINE old == finished[r][role]
           e == Ended(r, role)
<1>1. /\ r \in Rank /\ role \in Role /\ work[th] \in WorkType
      /\ work[th].id = e + 1 /\ Called(r, role) = work[th].at
      /\ th = <<r, role>> \/ (th = Caller(r) /\ work[<<r, role>>] = Resting)
  BY ZenonT(30), RunnerFacts DEF Through
<1>2. /\ work \in [Thread -> WorkType \cup {Resting}] /\ work'[th] = Resting
      /\ \A t \in Thread : t # th => work'[t] = work[t]
      /\ finished \in [Rank -> [Role -> Seq(Nat)]]
      /\ UNCHANGED <<relation, traffic, issued, workQueue, workDone, posts>>
  BY DEF GroupType, Through
<1>3. work' \in [Thread -> WorkType \cup {Resting}]
  BY DEF Through
<1>4. old \in Seq(Nat) /\ e \in Nat /\ e = Len(old)
  BY <1>1, <1>2 DEF Ended
<1> HIDE DEF old, e
<1>5. /\ Append(old, e + 1) \in Seq(Nat) /\ Len(Append(old, e + 1)) = e + 1
      /\ \A n \in 1 .. e + 1 : Append(old, e + 1)[n] = IF n <= e THEN old[n] ELSE e + 1
  BY <1>4
<1>7. /\ finished'[r][role] = Append(old, e + 1)
      /\ \A q \in Rank, o \in Role : <<q, o>> # <<r, role>> => finished'[q][o] = finished[q][o]
      /\ finished' \in [Rank -> [Role -> Seq(Nat)]]
  BY <1>1 DEF old, Through
<1>8. GroupType'
  BY <1>2, <1>3, <1>7 DEF GroupType, Sendable
<1>9. ASSUME NEW q \in Rank, NEW o \in Role, <<q, o>> # <<r, role>>
      PROVE  SameView(q, o) /\ QueueOf(q, o)'
  <2>1. <<q, o>> # <<th[1], work[th].role>> /\ finished'[q][o] = finished[q][o]
    BY <1>7, <1>9 DEF Through
  <2>2. work[th] # Resting /\ work[th].at > 0
    BY DEF Through
  <2> QED BY <1>2, <2>1, <2>2, OthersSame, OthersQueues
<1>10. Ended(r, role)' = e + 1
  BY <1>5, <1>7 DEF Ended
<1>11. work'[<<r, role>>] = Resting /\ Busy(r, role)' = 0
  BY <1>1, <1>2, OtherThreads DEF Busy
<1>12. /\ QueueOf(r, role) /\ issued[r][role] \in Nat /\ Len(workQueue[r][role]) \in Nat
       /\ Waiting(r, role) \in Nat
  BY <1>1, EndTypes DEF Queues
<1>13. finished'[r][role] = [n \in 1 .. e + 1 |-> n]
  <2>1. old = [n \in 1 .. e |-> n]
    BY <1>12 DEF QueueOf, old, e
  <2>2. \A n \in 1 .. e + 1 : Append(old, e + 1)[n] = n
    <3>1. ASSUME NEW n \in 1 .. e + 1 PROVE Append(old, e + 1)[n] = n
      <4>1. CASE n <= e
        <5>1. n \in 1 .. e
          BY <1>4, <4>1
        <5> QED BY <1>5, <2>1, <4>1, <5>1
      <4>2. CASE ~(n <= e)
        <5>1. n = e + 1
          BY <1>4, <4>2
        <5> QED BY <1>5, <4>2, <5>1
      <4> QED BY <4>1, <4>2
    <3> QED BY <3>1
  <2>3. Append(old, e + 1) = [n \in 1 .. e + 1 |-> Append(old, e + 1)[n]]
    BY <1>4, <1>5
  <2> QED BY <1>7, <2>2, <2>3
<1>14. /\ work[th] # Resting /\ work[th].at > 0 /\ role = work[th].role
       /\ UNCHANGED <<traffic, issued, workQueue, workDone>>
  BY DEF Through
<1>15. CASE th = <<r, role>>
  <2>1. Busy(r, role) = 1
    BY <1>14, <1>15 DEF Busy
  <2>2. Waiting(r, role) = Len(workQueue[r][role]) + 1 /\ Waiting(r, role)' = Len(workQueue[r][role])
    BY <1>14, <1>11, <1>12, <2>1 DEF Waiting
  <2>3. /\ ~workDone[r][role]
        /\ \A i \in 1 .. Len(workQueue[r][role]) : workQueue[r][role][i] = e + 1 + i
    BY <1>12, <2>1, <2>2 DEF QueueOf, e
  <2>4. Caller(r) # th /\ work'[Caller(r)] = work[Caller(r)] /\ (CallerIn(r, role)' <=> CallerIn(r, role))
    BY <1>1, <1>2, <1>15, EndFacts DEF CallerIn
  <2>5. e + 1 + Waiting(r, role)' = e + Waiting(r, role)
    <3>1. \A l \in Nat : e + 1 + l = e + (l + 1)
      BY <1>4
    <3> QED BY <1>12, <2>2, <3>1
  <2>6. /\ CallerIn(r, role) =>
              /\ work[Caller(r)].id = e + Waiting(r, role) + 1
              /\ work[Caller(r)].id = issued[r][role]
              /\ work[Caller(r)].at > 0 => workDone[r][role]
        /\ ~CallerIn(r, role) => issued[r][role] = e + Waiting(r, role)
        /\ issued[r][role] <= Len(traffic[From(r, role)])
    BY <1>12 DEF QueueOf, e
  <2>7. QueueOf(r, role)'
    <3>1. /\ CallerIn(r, role)' =>
                /\ work'[Caller(r)].id = e + 1 + Waiting(r, role)' + 1
                /\ work'[Caller(r)].id = issued'[r][role]
                /\ work'[Caller(r)].at > 0 => workDone'[r][role]
          /\ ~CallerIn(r, role)' => issued'[r][role] = e + 1 + Waiting(r, role)'
      BY <1>14, <2>4, <2>5, <2>6
    <3>2. \A i \in 1 .. Len(workQueue'[r][role]) : workQueue'[r][role][i] = e + 1 + Busy(r, role)' + i
      BY <1>14, <1>4, <1>11, <2>3
    <3> QED BY <1>14, <1>10, <1>11, <1>13, <2>3, <2>6, <3>1, <3>2 DEF QueueOf
  <2>8. ~(Active(Caller(r)) /\ CallerIn(r, role))'
    BY <2>3, <2>4, <2>6 DEF Active
  <2>9. Called(r, role)' = 0
    BY <1>11, <2>8 DEF Called, Active
  <2> QED BY <1>8, <1>9, <1>10, <2>7, <2>9 DEF Queues, e
<1>16. CASE th = Caller(r) /\ work[<<r, role>>] = Resting
  <2>1. Busy(r, role) = 0 /\ Waiting(r, role)' = Waiting(r, role)
    BY <1>14, <1>11, <1>16 DEF Busy, Waiting
  <2>2. CallerIn(r, role) /\ ~CallerIn(r, role)'
    BY <1>14, <1>2, <1>16 DEF CallerIn
  <2>3. workDone[r][role] /\ Waiting(r, role) = 0 /\ issued[r][role] = e + 1
        /\ issued[r][role] <= Len(traffic[From(r, role)])
    <3>1. /\ work[th].id = e + Waiting(r, role) + 1 /\ work[th].id = issued[r][role]
          /\ workDone[r][role] => Waiting(r, role) = 0
          /\ workDone[r][role] /\ issued[r][role] <= Len(traffic[From(r, role)])
      BY <1>14, <1>12, <1>16, <2>2 DEF QueueOf, e
    <3> QED BY <1>1, <3>1
  <2>4. Len(workQueue[r][role]) = 0
    BY <1>12, <2>1, <2>3 DEF Waiting
  <2>5. QueueOf(r, role)'
    BY <1>14, <1>4, <1>10, <1>11, <1>13, <2>1, <2>2, <2>3, <2>4 DEF QueueOf
  <2>6. Called(r, role)' = 0
    BY <1>11, <2>2 DEF Called, Active
  <2> QED BY <1>8, <1>9, <1>10, <2>5, <2>6 DEF Queues, e
<1> QED BY <1>1, <1>15, <1>16

-----------------------------------------------------------------------------
\* Wires.

\* A message of a transfer, as both ends see it.
LEMMA MessageFacts ==
    ASSUME GroupType, NEW r \in Rank, NEW role \in Role,
           NEW n \in 1 .. Len(traffic[From(r, role)]),
           NEW k \in 1 .. Len(Messages(traffic[From(r, role)][n])),
           NEW m, m = Messages(traffic[From(r, role)][n])[k]
    PROVE  /\ m \in MessageType /\ WireOf(r, role, m) \in WiresOf(From(r, role))
           /\ WireOf(Peer(r), Counter(role), m) = WireOf(r, role, m)
           /\ Calls(role, m) <=> WireOf(r, role, m)[1] = r
           /\ ~Calls(role, m) <=> WireOf(r, role, m)[1] = Peer(r)
<1>1. traffic[From(r, role)] \in Seq(Sendable) /\ From(r, role) \in Rank
  BY EndFacts DEF GroupType
<1>2. traffic[From(r, role)][n] \in Sendable
  BY <1>1, ElementOfSeq
<1> DEFINE script == Messages(traffic[From(r, role)][n])
<1>3. Whole(script)
  BY <1>2, ScriptWhole DEF GroupType
<1>4. m \in MessageType /\ (m.back => relation = "uncertain")
  BY <1>3, ElementOfSeq DEF Whole, Partial
<1>5. relation = "uncertain" => From(r, role) = 0
  <2>1. traffic[From(r, role)] # <<>>
    BY <1>1
  <2> QED BY <1>1, <2>1 DEF GroupType, Rank
<1>6. m.back \in BOOLEAN /\ m.medium \in {"cpu", "accel"}
  BY <1>4 DEF MessageType
<1>7. Peer(r) \in Rank /\ Peer(r) # r /\ Peer(Peer(r)) = r
  BY EndFacts
<1>8. WireOf(r, role, m) \in Wires
  BY <1>6, <1>7 DEF WireOf, Wires
<1>9. relation # "uncertain" => WireOf(r, role, m)[1] = From(r, role)
  BY <1>4, <1>6, <1>7 DEF WireOf, Calls, From, Role
<1>10. WireOf(r, role, m) \in WiresOf(From(r, role))
  BY <1>5, <1>8, <1>9 DEF WiresOf
<1>11. WireOf(Peer(r), Counter(role), m) = WireOf(r, role, m)
  BY <1>6, <1>7 DEF WireOf, Calls, Counter, Role
<1> QED BY <1>4, <1>7, <1>10, <1>11 DEF WireOf

LEMMA WiresApart ==
    ASSUME NEW s \in Rank, NEW wire \in WiresOf(s)
    PROVE  wire \in Wires /\ \A t \in Rank : t # s => wire \notin WiresOf(t)
BY DEF WiresOf, Rank

LEMMA ViewTypes ==
    ASSUME GroupType, NEW r \in Rank, NEW role \in Role
    PROVE  Ended(r, role) \in Nat /\ Called(r, role) \in Nat
<1>1. <<r, role>> \in Thread /\ Caller(r) \in Thread
  BY EndFacts
<1> QED BY <1>1, EndTypes DEF Called, Active, CallerIn, GroupType, WorkType

LEMMA CountType ==
    ASSUME GroupType, NEW r \in Rank, NEW wire \in Wires
    PROVE  Count(r, wire) \in Nat /\ posts[wire].out \in Seq(LabelType) /\ posts[wire].in \in Nat
<1>1. posts[wire] \in [out : Seq(LabelType), in : Nat]
  BY DEF GroupType
<1> QED BY <1>1 DEF Count

LEMMA OneIsAhead ==
    ASSUME NEW r, NEW role, Ended(r, role) \in Nat, Called(r, role) \in Nat,
           Peer(Peer(r)) = r, Counter(Counter(role)) = role,
           Ended(Peer(r), Counter(role)) \in Nat, Called(Peer(r), Counter(role)) \in Nat
    PROVE  /\ Ahead(r, role) => ~Even(r, role) /\ ~Ahead(Peer(r), Counter(role))
           /\ Even(r, role) => ~Ahead(Peer(r), Counter(role))
           /\ Even(r, role) <=> Even(Peer(r), Counter(role))
           /\ Ahead(r, role) => Called(r, role) > 0
BY DEF Ahead, Even

LEMMA ScriptSame ==
    ASSUME NEW r, NEW role, Ended(r, role)' = Ended(r, role), UNCHANGED <<relation, traffic>>
    PROVE  Script(r, role)' = Script(r, role)
BY DEF Script, Messages, Payload, ByHandles, ToUncertainPeer, TensorList, TensorDict, Dataclass, Body,
       There, Back, From, Peer

-----------------------------------------------------------------------------
\* The counts of the wires.

LEMMA MeetingEnds ==
    ASSUME Meeting, NEW r \in Rank, NEW role \in Role
    PROVE  Progress(r, role) /\ Lockstep(r, role) /\ Books(r, role) /\ Heard(r, role)
BY DEF Meeting

\* The message at which an end is.
LEMMA NowFacts ==
    ASSUME GroupType, Meeting, NEW r \in Rank, NEW role \in Role, Called(r, role) > 0
    PROVE  /\ Now(r, role) \in MessageType
           /\ WireOf(r, role, Now(r, role)) \in WiresOf(From(r, role))
           /\ WireOf(Peer(r), Counter(role), Now(r, role)) = WireOf(r, role, Now(r, role))
           /\ Calls(role, Now(r, role)) <=> WireOf(r, role, Now(r, role))[1] = r
           /\ ~Calls(role, Now(r, role)) <=> WireOf(r, role, Now(r, role))[1] = Peer(r)
<1>1. /\ Ended(r, role) + 1 \in 1 .. Len(traffic[From(r, role)])
      /\ Called(r, role) \in 1 .. Len(Script(r, role))
  BY MeetingEnds DEF Progress
<1> QED BY <1>1, MessageFacts DEF Script, Now

\* Ends of equally many transfers are in the same script.
LEMMA SameScript ==
    ASSUME NEW r \in Rank, NEW role \in Role, Ended(Peer(r), Counter(role)) = Ended(r, role)
    PROVE  Script(Peer(r), Counter(role)) = Script(r, role)
<1>1. From(Peer(r), Counter(role)) = From(r, role)
  BY EndFacts
<1> QED BY <1>1 DEF Script

\* Rank r has called a broadcast of label on the wire.
Posted(r, wire, label) ==
    /\ posts' \in [Wires -> [out : Seq(LabelType), in : Nat]]
    /\ posts'[wire].out = IF wire[1] = r THEN Append(posts[wire].out, label) ELSE posts[wire].out
    /\ posts'[wire].in = IF wire[1] = r THEN posts[wire].in ELSE posts[wire].in + 1
    /\ \A w \in Wires : w # wire => posts'[w] = posts[w]

LEMMA CountsAfter ==
    ASSUME GroupType, NEW r \in Rank, NEW wire \in Wires, NEW label \in LabelType,
           Posted(r, wire, label)
    PROVE  /\ Count(r, wire)' = Count(r, wire) + 1
           /\ \A x \in Rank, w \in Wires : <<x, w>> # <<r, wire>> => Count(x, w)' = Count(x, w)
           /\ \A w \in Wires : ~(w = wire /\ wire[1] = r) => posts'[w].out = posts[w].out
           /\ wire[1] = r => /\ Len(posts'[wire].out) = Len(posts[wire].out) + 1
                             /\ posts'[wire].out[Len(posts[wire].out) + 1] = label
                             /\ \A n \in 1 .. Len(posts[wire].out) : posts'[wire].out[n] = posts[wire].out[n]
<1>1. posts[wire].out \in Seq(LabelType) /\ posts[wire].in \in Nat
  BY CountType
<1>2. /\ Append(posts[wire].out, label) \in Seq(LabelType)
      /\ Len(Append(posts[wire].out, label)) = Len(posts[wire].out) + 1
      /\ Append(posts[wire].out, label)[Len(posts[wire].out) + 1] = label
      /\ \A n \in 1 .. Len(posts[wire].out) : Append(posts[wire].out, label)[n] = posts[wire].out[n]
  BY <1>1
<1>3. /\ posts'[wire].out = IF wire[1] = r THEN Append(posts[wire].out, label) ELSE posts[wire].out
      /\ posts'[wire].in = IF wire[1] = r THEN posts[wire].in ELSE posts[wire].in + 1
  BY DEF Posted
<1>4. \A w \in Wires : w # wire => posts'[w] = posts[w]
  BY DEF Posted
<1>5. Count(r, wire)' = Count(r, wire) + 1
  BY <1>2, <1>3, <1>4 DEF Count
<1>6. ASSUME NEW x \in Rank, NEW w \in Wires, <<x, w>> # <<r, wire>> PROVE Count(x, w)' = Count(x, w)
  <2>1. CASE w # wire
    BY <1>4, <2>1 DEF Count
  <2>2. CASE w = wire
    <3>1. x # r /\ wire[1] \in Rank
      BY <1>6, <2>2 DEF Wires
    <3>2. wire[1] = x <=> wire[1] # r
      BY <3>1 DEF Rank
    <3> QED BY <1>3, <1>4, <2>2, <3>2 DEF Count
  <2> QED BY <2>1, <2>2
<1> QED BY <1>2, <1>3, <1>4, <1>5, <1>6

\* An end that has ended and called what it had, and its wires, is as it was.
LEMMA EndSame ==
    ASSUME GroupType, Meeting, NEW r \in Rank, NEW role \in Role, SameView(r, role),
           UNCHANGED <<relation, traffic>>
    PROVE  /\ Script(r, role)' = Script(r, role) /\ Now(r, role)' = Now(r, role)
           /\ WireOf(r, role, Now(r, role))' = WireOf(r, role, Now(r, role))
           /\ Calls(role, Now(r, role))' <=> Calls(role, Now(r, role))
           /\ LabelOf(r, role)' = LabelOf(r, role) /\ From(r, role)' = From(r, role)
           /\ WiresOf(From(r, role))' = WiresOf(From(r, role))
           /\ Progress(r, role)'
<1>1. Ended(r, role)' = Ended(r, role) /\ Called(r, role)' = Called(r, role)
  BY DEF SameView
<1>2. Script(r, role)' = Script(r, role)
  BY <1>1, ScriptSame
<1>3. Now(r, role)' = Now(r, role) /\ From(r, role)' = From(r, role)
  BY <1>1, <1>2 DEF Now, From, Peer
<1>4. /\ WireOf(r, role, Now(r, role))' = WireOf(r, role, Now(r, role))
      /\ Calls(role, Now(r, role))' <=> Calls(role, Now(r, role))
      /\ WiresOf(From(r, role))' = WiresOf(From(r, role))
      /\ LabelOf(r, role)' = LabelOf(r, role)
  BY <1>1, <1>3 DEF WireOf, Calls, LabelOf, WiresOf, Peer, From
<1>5. Progress(r, role)'
  BY <1>1, <1>2, <1>3, MeetingEnds DEF Progress
<1> QED BY <1>2, <1>3, <1>4, <1>5

\* If both ends of a source, and its wires, are as they were, so is what is said of them.
LEMMA PairSame ==
    ASSUME GroupType, Meeting, NEW r \in Rank, NEW role \in Role,
           SameView(r, role), SameView(Peer(r), Counter(role)), UNCHANGED <<relation, traffic>>,
           \A wire \in WiresOf(From(r, role)) : posts'[wire] = posts[wire]
    PROVE  Progress(r, role)' /\ Lockstep(r, role)' /\ Books(r, role)' /\ Heard(r, role)'
<1> DEFINE q == Peer(r)
           o == Counter(role)
<1>1. q \in Rank /\ o \in Role /\ Peer(q) = r /\ Counter(o) = role /\ From(q, o) = From(r, role)
  BY EndFacts
<1>2. /\ Ended(r, role)' = Ended(r, role) /\ Called(r, role)' = Called(r, role)
      /\ Called(r, role) > 0 => TicketOf(r, role)' = TicketOf(r, role)
      /\ Ended(q, o)' = Ended(q, o) /\ Called(q, o)' = Called(q, o)
  BY DEF SameView
<1>3. Script(r, role)' = Script(r, role) /\ Script(q, o)' = Script(q, o)
  BY <1>1, <1>2, ScriptSame
<1>4. /\ Now(r, role)' = Now(r, role)
      /\ WireOf(r, role, Now(r, role))' = WireOf(r, role, Now(r, role))
      /\ LabelOf(r, role)' = LabelOf(r, role) /\ From(r, role)' = From(r, role)
      /\ WiresOf(From(r, role))' = WiresOf(From(r, role))
      /\ Progress(r, role)'
  BY EndSame
<1>5. /\ Even(r, role)' <=> Even(r, role)
      /\ Ahead(r, role)' <=> Ahead(r, role)
      /\ Ahead(q, o)' <=> Ahead(q, o)
  BY <1>1, <1>2, <1>3 DEF Even, Ahead
<1>6. \A x \in Rank, wire \in WiresOf(From(r, role)) : Count(x, wire)' = Count(x, wire)
  BY DEF Count
<1>7. /\ Progress(r, role) /\ Lockstep(r, role) /\ Books(r, role) /\ Heard(r, role)
  BY MeetingEnds
<1> HIDE DEF q, o
<1>8. Lockstep(r, role)'
  BY <1>5, <1>7 DEF Lockstep, q, o
<1>9. Ended(r, role) \in Nat /\ Called(r, role) \in Nat /\ Ended(q, o) \in Nat /\ Called(q, o) \in Nat
  BY <1>1, ViewTypes
<1>10. Ahead(r, role) => Called(r, role) > 0
  BY <1>1, <1>9, OneIsAhead DEF q, o
<1>11. Called(r, role) > 0 => WireOf(r, role, Now(r, role)) \in WiresOf(From(r, role))
  BY NowFacts
<1>12. Books(r, role)'
  <2>1. ASSUME Even(r, role)', NEW wire \in WiresOf(From(r, role))
        PROVE  Count(r, wire)' = Count(Peer(r), wire)'
    BY <1>1, <1>5, <1>6, <1>7, <2>1 DEF Books, q
  <2>2. ASSUME Ahead(r, role)'
        PROVE  /\ \A wire \in WiresOf(From(r, role)) :
                     Count(r, wire)' = Count(Peer(r), wire)'
                          + (IF wire = WireOf(r, role, Now(r, role)) THEN 1 ELSE 0)
               /\ TicketOf(r, role)' = Count(r, WireOf(r, role, Now(r, role)))'
    <3>1. Ahead(r, role) /\ Called(r, role) > 0
      BY <1>5, <1>10, <2>2
    <3>2. Count(r, WireOf(r, role, Now(r, role)))' = Count(r, WireOf(r, role, Now(r, role)))
      BY <1>4, <1>6, <1>11, <3>1 DEF Count
    <3>3. TicketOf(r, role)' = Count(r, WireOf(r, role, Now(r, role)))'
      BY <1>2, <1>7, <3>1, <3>2 DEF Books
    <3> QED BY <1>1, <1>6, <1>7, <3>1, <3>3 DEF Books, q
  <2> QED BY <1>4, <2>1, <2>2 DEF Books
<1>13. Heard(r, role)'
  <2> SUFFICES ASSUME Called(r, role)' > 0
               PROVE  LET wire == WireOf(r, role, Now(r, role))'
                      IN  /\ TicketOf(r, role)' \in 1 .. Count(r, WireOf(r, role, Now(r, role)))'
                          /\ TicketOf(r, role)' <= Len(posts'[wire].out) =>
                                posts'[wire].out[TicketOf(r, role)'] = LabelOf(r, role)'
    BY DEF Heard
  <2>1. /\ Called(r, role) > 0 /\ TicketOf(r, role)' = TicketOf(r, role)
        /\ WireOf(r, role, Now(r, role)) \in WiresOf(From(r, role))
    BY <1>2, <1>11
  <2>2. Count(r, WireOf(r, role, Now(r, role)))' = Count(r, WireOf(r, role, Now(r, role)))
    BY <1>4, <1>6, <2>1 DEF Count
  <2> QED BY <1>4, <1>7, <2>1, <2>2 DEF Heard
<1> QED BY <1>4, <1>8, <1>12, <1>13

-----------------------------------------------------------------------------
\* A broadcast is called.

\* An end that is not ahead calls its next broadcast.
LEMMA EndCalls ==
    ASSUME GroupType, Meeting, NEW r \in Rank, NEW role \in Role, ~Ahead(r, role),
           Ended(r, role) + 1 \in 1 .. Len(traffic[From(r, role)]),
           NEW k, k = Called(r, role) + 1, k \in 1 .. Len(Script(r, role)),
           NEW m, m = Script(r, role)[k], NEW wire, wire = WireOf(r, role, m),
           NEW label, label = [source |-> From(r, role), id |-> Ended(r, role) + 1, part |-> m.part],
           Posted(r, wire, label),
           Ended(r, role)' = Ended(r, role), Called(r, role)' = k,
           TicketOf(r, role)' = Count(r, wire) + 1,
           \A x \in Rank, y \in Role : <<x, y>> # <<r, role>> => SameView(x, y),
           UNCHANGED <<relation, traffic>>
    PROVE  Meeting'
<1> DEFINE q == Peer(r)
           o == Counter(role)
           s == From(r, role)
<1>1. /\ q \in Rank /\ q # r /\ o \in Role /\ o # role /\ Peer(q) = r /\ Counter(o) = role
      /\ From(q, o) = s /\ s \in Rank
  BY EndFacts
<1>2. /\ m \in MessageType /\ wire \in WiresOf(s) /\ WireOf(q, o, m) = wire
      /\ Calls(role, m) <=> wire[1] = r
      /\ ~Calls(role, m) <=> wire[1] = q
  BY MessageFacts DEF Script
<1>3. wire \in Wires /\ \A t \in Rank : t # s => wire \notin WiresOf(t)
  BY <1>1, <1>2, WiresApart
<1>4. Ended(r, role) \in Nat /\ Called(r, role) \in Nat /\ Ended(q, o) \in Nat /\ Called(q, o) \in Nat
  BY <1>1, ViewTypes
<1>5. label \in LabelType
  BY <1>1, <1>2, <1>4 DEF LabelType, MessageType
<1>6. /\ Count(r, wire)' = Count(r, wire) + 1
      /\ \A x \in Rank, w \in Wires : <<x, w>> # <<r, wire>> => Count(x, w)' = Count(x, w)
      /\ \A w \in Wires : ~(w = wire /\ Calls(role, m)) => posts'[w].out = posts[w].out
      /\ Calls(role, m) =>
            /\ Len(posts'[wire].out) = Len(posts[wire].out) + 1
            /\ posts'[wire].out[Len(posts[wire].out) + 1] = label
            /\ \A n \in 1 .. Len(posts[wire].out) : posts'[wire].out[n] = posts[wire].out[n]
  <2>2. /\ Count(r, wire)' = Count(r, wire) + 1
        /\ \A x \in Rank, w \in Wires : <<x, w>> # <<r, wire>> => Count(x, w)' = Count(x, w)
        /\ \A w \in Wires : ~(w = wire /\ wire[1] = r) => posts'[w].out = posts[w].out
        /\ wire[1] = r =>
              /\ Len(posts'[wire].out) = Len(posts[wire].out) + 1
              /\ posts'[wire].out[Len(posts[wire].out) + 1] = label
              /\ \A n \in 1 .. Len(posts[wire].out) : posts'[wire].out[n] = posts[wire].out[n]
    BY SMTT(30), <1>3, <1>5, CountsAfter
  <2> QED BY <1>2, <2>2
<1>7. SameView(q, o)
  BY <1>1
<1>8. /\ Progress(q, o) /\ Lockstep(r, role) /\ Books(r, role) /\ Books(q, o) /\ Heard(r, role) /\ Heard(q, o)
  BY <1>1, MeetingEnds
<1>9. /\ Count(r, wire) \in Nat /\ Count(q, wire) \in Nat
      /\ posts[wire].out \in Seq(LabelType) /\ posts[wire].in \in Nat
  BY <1>1, <1>3, CountType
<1>10. /\ Script(q, o)' = Script(q, o) /\ Now(q, o)' = Now(q, o)
       /\ WireOf(q, o, Now(q, o))' = WireOf(q, o, Now(q, o))
       /\ LabelOf(q, o)' = LabelOf(q, o) /\ WiresOf(From(q, o))' = WiresOf(From(q, o))
       /\ Progress(q, o)' /\ From(q, o)' = From(q, o)
       /\ Ended(q, o)' = Ended(q, o) /\ Called(q, o)' = Called(q, o)
       /\ Called(q, o) > 0 => TicketOf(q, o)' = TicketOf(q, o)
  BY <1>1, <1>7, EndSame DEF SameView
<1>11. /\ Script(r, role)' = Script(r, role) /\ Now(r, role)' = m
       /\ WireOf(r, role, Now(r, role))' = wire /\ LabelOf(r, role)' = label
       /\ WiresOf(From(r, role))' = WiresOf(s) /\ From(r, role)' = s
  <2>1. Script(r, role)' = Script(r, role)
    BY ScriptSame
  <2>2. Now(r, role)' = m
    BY <2>1 DEF Now
  <2>3. WireOf(r, role, Now(r, role))' = wire /\ LabelOf(r, role)' = label
    BY <2>2 DEF WireOf, Calls, Peer, LabelOf, From
  <2> QED BY <2>1, <2>2, <2>3 DEF WiresOf, From, Peer
<1>12. Progress(r, role)'
  BY <1>11 DEF Progress
<1>13. /\ Ended(r, role)' \in Nat /\ Called(r, role)' \in Nat
       /\ Ended(q, o)' \in Nat /\ Called(q, o)' \in Nat
  BY <1>4, <1>10
<1> HIDE DEF q, o, s
<1>14. /\ Ahead(r, role)' => ~Even(r, role)' /\ ~Ahead(q, o)'
       /\ Ahead(q, o)' => ~Even(q, o)' /\ ~Ahead(r, role)'
       /\ Even(r, role)' => ~Ahead(q, o)' /\ ~Ahead(r, role)'
       /\ Even(r, role)' <=> Even(q, o)'
  BY <1>1, <1>13 DEF Ahead, Even, q, o
<1>15. /\ Ahead(q, o) => Called(q, o) > 0
       /\ Even(r, role) => Even(q, o)
  BY <1>1, <1>4 DEF Ahead, Even, q, o
<1>16. ASSUME Even(r, role)
       PROVE  /\ Lockstep(r, role)' /\ Books(r, role)' /\ Heard(r, role)'
              /\ Lockstep(q, o)' /\ Books(q, o)' /\ Heard(q, o)'
  <2>1. \A w \in WiresOf(s) : Count(r, w) = Count(q, w)
    BY <1>8, <1>16 DEF Books, q, s
  <2>2. Ahead(r, role)'
    <3>1. CASE Ended(r, role) = Ended(q, o) /\ Called(r, role) = Called(q, o)
      BY <1>1, <1>10, <3>1 DEF Ahead, q, o
    <3>2. CASE Ended(r, role) = Ended(q, o) + 1 /\ Called(q, o) = Len(Script(q, o)) /\ Called(r, role) = 0
      BY <1>1, <1>10, <3>2 DEF Ahead, q, o
    <3>3. CASE Ended(q, o) = Ended(r, role) + 1 /\ Called(r, role) = Len(Script(r, role))
      <4>1. FALSE
        BY <1>4, <3>3
      <4> QED BY <4>1
    <3> QED BY <1>16, <3>1, <3>2, <3>3 DEF Even, q, o
  <2>3. ~Even(r, role)' /\ ~Even(q, o)' /\ ~Ahead(q, o)'
    BY <1>14, <2>2
  <2>4. Lockstep(r, role)' /\ Lockstep(q, o)'
    BY <1>1, <2>2 DEF Lockstep, q, o
  <2>5. Books(q, o)'
    BY <2>3 DEF Books
  <2>6. Books(r, role)'
    <3>1. ASSUME NEW w \in WiresOf(s)
          PROVE  Count(r, w)' = Count(Peer(r), w)' + (IF w = wire THEN 1 ELSE 0)
      <4>1. w \in Wires /\ Count(r, w) = Count(q, w) /\ Count(q, w) \in Nat
        BY <1>1, <2>1, <3>1, WiresApart, CountType
      <4>2. Count(q, w)' = Count(q, w)
        BY <1>1, <1>6, <4>1
      <4>3. CASE w = wire
        BY <1>6, <4>1, <4>2, <4>3 DEF q
      <4>4. CASE w # wire
        BY <1>1, <1>6, <4>1, <4>2, <4>4 DEF q
      <4> QED BY <4>3, <4>4
    <3>2. Count(r, WireOf(r, role, Now(r, role)))' = Count(r, wire) + 1
      BY <1>6, <1>11 DEF Count
    <3> QED BY <1>11, <2>3, <3>1, <3>2 DEF Books, s
  <2>7. Heard(r, role)'
    <3>1. TicketOf(r, role)' \in 1 .. Count(r, WireOf(r, role, Now(r, role)))'
      <4>1. Count(r, WireOf(r, role, Now(r, role)))' = Count(r, wire) + 1
        BY <1>6, <1>11 DEF Count
      <4> QED BY <1>9, <4>1
    <3>2. ASSUME TicketOf(r, role)' <= Len(posts'[wire].out)
          PROVE  posts'[wire].out[TicketOf(r, role)'] = label
      <4>1. CASE Calls(role, m)
        <5>1. Count(r, wire) = Len(posts[wire].out)
          BY <1>2, <4>1 DEF Count
        <5> QED BY <1>6, <4>1, <5>1
      <4>2. CASE ~Calls(role, m)
        <5>1. Count(q, wire) = Len(posts[wire].out) /\ posts'[wire].out = posts[wire].out
          BY <1>2, <1>3, <1>6, <4>2 DEF Count
        <5>2. Count(r, wire) = Count(q, wire)
          BY <1>2, <2>1
        <5>3. FALSE
          <6>1. Count(r, wire) + 1 <= Count(r, wire)
            BY <3>2, <5>1, <5>2
          <6> QED BY <1>9, <6>1
        <5> QED BY <5>3
      <4> QED BY <4>1, <4>2
    <3> QED BY <1>11, <3>1, <3>2 DEF Heard
  <2>8. Heard(q, o)'
    <3> DEFINE w == WireOf(q, o, Now(q, o))
               t == TicketOf(q, o)
    <3> SUFFICES ASSUME Called(q, o) > 0
                 PROVE  /\ t \in 1 .. Count(q, WireOf(q, o, Now(q, o)))'
                        /\ t <= Len(posts'[w].out) => posts'[w].out[t] = LabelOf(q, o)
      BY <1>10 DEF Heard
    <3>1. w \in WiresOf(s) /\ w \in Wires
      BY <1>1, NowFacts, WiresApart DEF s
    <3>2. t \in 1 .. Count(q, w) /\ (t <= Len(posts[w].out) => posts[w].out[t] = LabelOf(q, o))
      BY <1>8 DEF Heard
    <3>3. Count(q, WireOf(q, o, Now(q, o)))' = Count(q, w)
      BY <1>1, <1>6, <1>10, <3>1 DEF Count
    <3> HIDE DEF w, t
    <3>4. CASE w = wire /\ Calls(role, m)
      <4>1. Count(r, wire) = Len(posts[wire].out) /\ Count(q, wire) = Count(r, wire)
        BY <1>2, <2>1, <3>4 DEF Count
      <4>2. t \in 1 .. Len(posts[wire].out)
        BY <3>2, <3>4, <4>1
      <4> QED BY SMTT(30), <1>6, <3>2, <3>3, <3>4, <4>2 DEF w
    <3>5. CASE ~(w = wire /\ Calls(role, m))
      <4>1. posts'[w].out = posts[w].out
        BY <1>6, <3>1, <3>5
      <4> QED BY <3>2, <3>3, <4>1 DEF w
    <3> QED BY <3>4, <3>5
  <2> QED BY <2>4, <2>5, <2>6, <2>7, <2>8
<1>17. ASSUME Ahead(q, o)
       PROVE  /\ Lockstep(r, role)' /\ Books(r, role)' /\ Heard(r, role)'
              /\ Lockstep(q, o)' /\ Books(q, o)' /\ Heard(q, o)'
  <2>1. Ended(q, o) = Ended(r, role) /\ Called(q, o) = k
    <3>1. CASE Ended(q, o) = Ended(r, role) /\ Called(q, o) = Called(r, role) + 1
      BY <3>1
    <3>2. CASE Ended(q, o) = Ended(r, role) + 1 /\ Called(r, role) = Len(Script(r, role))
      <4>1. FALSE
        BY <1>4, <3>2
      <4> QED BY <4>1
    <3> QED BY <1>1, <1>17, <3>1, <3>2 DEF Ahead, q, o
  <2>2. Script(q, o) = Script(r, role) /\ Now(q, o) = m /\ WireOf(q, o, Now(q, o)) = wire
    <3>1. Script(q, o) = Script(r, role)
      BY <2>1, SameScript DEF q, o
    <3> QED BY <1>2, <2>1, <3>1 DEF Now
  <2>3. LabelOf(q, o) = label
    BY <1>1, <2>1, <2>2 DEF LabelOf, s
  <2>4. /\ \A w \in WiresOf(s) : Count(q, w) = Count(r, w) + (IF w = wire THEN 1 ELSE 0)
        /\ TicketOf(q, o) = Count(q, wire)
    BY <1>1, <1>8, <1>17, <2>2 DEF Books
  <2>5. Even(r, role)' /\ Even(q, o)'
    <3>1. Even(r, role)'
      BY <1>1, <1>10, <2>1 DEF Even, q, o
    <3> QED BY <1>14, <3>1
  <2>6. ~Ahead(r, role)' /\ ~Ahead(q, o)'
    BY <1>14, <2>5
  <2>7. Lockstep(r, role)' /\ Lockstep(q, o)'
    BY <2>5 DEF Lockstep
  <2>8. ASSUME NEW w \in WiresOf(s) PROVE Count(r, w)' = Count(q, w)'
    <3>1. w \in Wires /\ Count(r, w) \in Nat /\ Count(q, w)' = Count(q, w)
      <4>1. w \in Wires
        BY <1>1, <2>8, WiresApart
      <4> QED BY <1>1, <1>6, <4>1, CountType
    <3>2. CASE w = wire
      BY <1>6, <2>4, <3>1, <3>2
    <3>3. CASE w # wire
      BY <1>6, <2>4, <3>1, <3>3
    <3> QED BY <3>2, <3>3
  <2>9. Books(r, role)' /\ Books(q, o)'
    <3>1. Books(r, role)'
      BY <1>11, <2>6, <2>8 DEF Books, q, s
    <3>2. Books(q, o)'
      BY <1>1, <1>10, <2>6, <2>8 DEF Books
    <3> QED BY <3>1, <3>2
  <2>10. Count(q, wire) = Count(r, wire) + 1 /\ Count(q, wire)' = Count(q, wire)
    BY <1>1, <1>2, <1>3, <1>6, <2>4 DEF s
  <2>11. Called(q, o) > 0
    BY <1>15, <1>17
  <2>12. TicketOf(q, o) \in 1 .. Count(q, wire)
         /\ (TicketOf(q, o) <= Len(posts[wire].out) => posts[wire].out[TicketOf(q, o)] = label)
    BY <1>8, <2>2, <2>3, <2>11 DEF Heard
  <2>13. TicketOf(q, o) <= Len(posts'[wire].out) => posts'[wire].out[TicketOf(q, o)] = label
    <3>1. CASE Calls(role, m)
      <4>1. Count(r, wire) = Len(posts[wire].out)
        BY <1>2, <3>1 DEF Count
      <4>2. TicketOf(q, o) = Len(posts[wire].out) + 1
        BY <2>4, <2>10, <4>1
      <4> QED BY <1>6, <3>1, <4>2
    <3>2. CASE ~Calls(role, m)
      <4>1. posts'[wire].out = posts[wire].out /\ Count(q, wire) = Len(posts[wire].out)
        BY <1>2, <1>3, <1>6, <3>2 DEF Count
      <4> QED BY <2>4, <2>12, <4>1
    <3> QED BY <3>1, <3>2
  <2>14. TicketOf(r, role)' = TicketOf(q, o) /\ TicketOf(q, o)' = TicketOf(q, o)
    BY <1>10, <2>4, <2>10, <2>11
  <2>15. Heard(r, role)'
    <3>1. Count(r, WireOf(r, role, Now(r, role)))' = Count(q, wire)
      BY <1>6, <1>11, <2>10 DEF Count
    <3> QED BY <1>11, <2>12, <2>13, <2>14, <3>1 DEF Heard
  <2>16. Heard(q, o)'
    <3>1. Count(q, WireOf(q, o, Now(q, o)))' = Count(q, wire)
      BY <1>10, <2>2, <2>10 DEF Count
    <3> QED BY <1>10, <2>2, <2>3, <2>12, <2>13, <2>14, <3>1 DEF Heard
  <2> QED BY <2>7, <2>9, <2>15, <2>16
<1>18. /\ Progress(r, role)' /\ Lockstep(r, role)' /\ Books(r, role)' /\ Heard(r, role)'
       /\ Progress(q, o)' /\ Lockstep(q, o)' /\ Books(q, o)' /\ Heard(q, o)'
  <2>1. Even(r, role) \/ Ahead(q, o)
    BY <1>8 DEF Lockstep, q, o
  <2> QED BY <1>10, <1>12, <1>16, <1>17, <2>1
<1>19. ASSUME NEW x \in Rank, NEW y \in Role, <<x, y>> # <<r, role>>, <<x, y>> # <<q, o>>
       PROVE  Progress(x, y)' /\ Lockstep(x, y)' /\ Books(x, y)' /\ Heard(x, y)'
  <2>1. /\ <<Peer(x), Counter(y)>> # <<r, role>> /\ Peer(x) \in Rank /\ Counter(y) \in Role
        /\ From(x, y) # s /\ From(x, y) \in Rank
    BY <1>19 DEF q, o, s, Rank, Role, Peer, Counter, From
  <2>2. SameView(x, y) /\ SameView(Peer(x), Counter(y))
    BY <1>19, <2>1
  <2>3. \A w \in WiresOf(From(x, y)) : posts'[w] = posts[w]
    <3>1. wire \notin WiresOf(From(x, y)) /\ WiresOf(From(x, y)) \subseteq Wires
      BY <1>3, <2>1 DEF WiresOf
    <3> QED BY <3>1 DEF Posted
  <2> QED BY <2>2, <2>3, PairSame
<1> QED BY <1>18, <1>19 DEF Meeting

-----------------------------------------------------------------------------
\* A work ends; a step that no end sees.

\* An end that has called all broadcasts of its transfer and is not ahead is through with it.
LEMMA EndEnds ==
    ASSUME GroupType, Meeting, NEW r \in Rank, NEW role \in Role, ~Ahead(r, role),
           Called(r, role) > 0, Called(r, role) = Len(Script(r, role)),
           Ended(r, role)' = Ended(r, role) + 1, Called(r, role)' = 0,
           \A x \in Rank, y \in Role : <<x, y>> # <<r, role>> => SameView(x, y),
           UNCHANGED <<relation, traffic, posts>>
    PROVE  Meeting'
<1> DEFINE q == Peer(r)
           o == Counter(role)
<1>1. /\ q \in Rank /\ q # r /\ o \in Role /\ o # role /\ Peer(q) = r /\ Counter(o) = role
      /\ From(q, o) = From(r, role)
  BY EndFacts
<1>2. Ended(r, role) \in Nat /\ Called(r, role) \in Nat /\ Ended(q, o) \in Nat /\ Called(q, o) \in Nat
  BY <1>1, ViewTypes
<1>3. SameView(q, o)
  BY <1>1
<1>4. /\ Script(q, o)' = Script(q, o) /\ Now(q, o)' = Now(q, o)
      /\ WireOf(q, o, Now(q, o))' = WireOf(q, o, Now(q, o))
      /\ LabelOf(q, o)' = LabelOf(q, o) /\ WiresOf(From(q, o))' = WiresOf(From(q, o))
      /\ Progress(q, o)' /\ From(q, o)' = From(q, o)
      /\ Ended(q, o)' = Ended(q, o) /\ Called(q, o)' = Called(q, o)
      /\ Called(q, o) > 0 => TicketOf(q, o)' = TicketOf(q, o)
  BY <1>1, <1>3, EndSame DEF SameView
<1>5. /\ Lockstep(r, role) /\ Progress(q, o) /\ Books(q, o) /\ Heard(q, o) /\ Books(r, role)
  BY <1>1, MeetingEnds
<1>6. \A x \in Rank, w \in Wires : Count(x, w)' = Count(x, w)
  BY DEF Count
<1>7. Ended(r, role)' \in Nat /\ Called(r, role)' \in Nat /\ Ended(q, o)' \in Nat /\ Called(q, o)' \in Nat
  BY <1>2, <1>4
<1>8. /\ From(r, role)' = From(r, role) /\ WiresOf(From(r, role))' = WiresOf(From(r, role))
      /\ \A w \in WiresOf(From(r, role)) : w \in Wires
  BY DEF From, Peer, WiresOf
<1> HIDE DEF q, o
<1>9. /\ Ahead(r, role)' => ~Even(r, role)' /\ ~Ahead(q, o)'
      /\ Ahead(q, o)' => ~Even(q, o)' /\ ~Ahead(r, role)'
      /\ Even(r, role)' => ~Ahead(q, o)' /\ ~Ahead(r, role)'
      /\ Even(r, role)' <=> Even(q, o)'
  BY <1>1, <1>7 DEF Ahead, Even, q, o
<1>10. Heard(r, role)' /\ Progress(r, role)'
  BY DEF Heard, Progress
<1>11. Heard(q, o)'
  <2> SUFFICES ASSUME Called(q, o) > 0
               PROVE  /\ TicketOf(q, o) \in 1 .. Count(q, WireOf(q, o, Now(q, o)))'
                      /\ LET wire == WireOf(q, o, Now(q, o))
                         IN  TicketOf(q, o) <= Len(posts[wire].out) =>
                                posts[wire].out[TicketOf(q, o)] = LabelOf(q, o)
    BY <1>4 DEF Heard
  <2>1. Count(q, WireOf(q, o, Now(q, o)))' = Count(q, WireOf(q, o, Now(q, o)))
    BY <1>4 DEF Count
  <2> QED BY <1>5, <2>1 DEF Heard
<1>12. ASSUME Even(r, role)
       PROVE  /\ Lockstep(r, role)' /\ Books(r, role)'
              /\ Lockstep(q, o)' /\ Books(q, o)'
  <2>1. \A w \in WiresOf(From(r, role)) : Count(r, w) = Count(q, w)
    BY <1>5, <1>12 DEF Books, q
  <2>2. Even(r, role)'
    <3>1. CASE Ended(r, role) = Ended(q, o) /\ Called(r, role) = Called(q, o)
      <4>1. Script(q, o) = Script(r, role)
        BY <3>1, SameScript DEF q, o
      <4> QED BY <1>1, <1>4, <3>1, <4>1 DEF Even, q, o
    <3>2. CASE Ended(r, role) = Ended(q, o) + 1 /\ Called(q, o) = Len(Script(q, o)) /\ Called(r, role) = 0
      BY <3>2
    <3>3. CASE Ended(q, o) = Ended(r, role) + 1 /\ Called(q, o) = 0
      BY <1>1, <1>4, <3>3 DEF Even, q, o
    <3> QED BY <1>12, <3>1, <3>2, <3>3 DEF Even, q, o
  <2>3. ~Ahead(r, role)' /\ ~Ahead(q, o)' /\ Even(q, o)'
    BY <1>9, <2>2
  <2>4. \A w \in WiresOf(From(r, role)) : Count(r, w)' = Count(q, w)'
    BY <1>1, <1>6, <1>8, <2>1
  <2>5. Books(r, role)'
    BY <1>8, <2>3, <2>4 DEF Books, q
  <2>6. Books(q, o)'
    BY <1>1, <1>4, <2>3, <2>4 DEF Books
  <2>7. Lockstep(r, role)' /\ Lockstep(q, o)'
    BY <2>2, <2>3 DEF Lockstep
  <2> QED BY <2>5, <2>6, <2>7
<1>13. ASSUME Ahead(q, o)
       PROVE  /\ Lockstep(r, role)' /\ Books(r, role)'
              /\ Lockstep(q, o)' /\ Books(q, o)'
  <2>1. Ended(q, o) = Ended(r, role) + 1 /\ Called(q, o) = 1
    <3>1. CASE Ended(q, o) = Ended(r, role) /\ Called(q, o) = Called(r, role) + 1
      <4>1. Script(q, o) = Script(r, role)
        BY <3>1, SameScript DEF q, o
      <4>2. Called(q, o) \in 1 .. Len(Script(q, o))
        BY <1>2, <1>5, <3>1 DEF Progress
      <4>3. FALSE
        BY <1>2, <3>1, <4>1, <4>2
      <4> QED BY <4>3
    <3> QED BY <1>1, <1>13, <3>1 DEF Ahead, q, o
  <2>2. Ahead(q, o)'
    BY <1>1, <1>4, <2>1 DEF Ahead, q, o
  <2>3. ~Even(r, role)' /\ ~Even(q, o)' /\ ~Ahead(r, role)'
    BY <1>9, <2>2
  <2>4. /\ \A w \in WiresOf(From(r, role)) :
              Count(q, w) = Count(r, w) + (IF w = WireOf(q, o, Now(q, o)) THEN 1 ELSE 0)
        /\ TicketOf(q, o) = Count(q, WireOf(q, o, Now(q, o)))
    BY <1>1, <1>5, <1>13 DEF Books
  <2>5. Books(r, role)'
    BY <2>3 DEF Books
  <2>6. Books(q, o)'
    <3>1. ASSUME NEW w \in WiresOf(From(q, o))
          PROVE  Count(q, w)' = Count(Peer(q), w)' + (IF w = WireOf(q, o, Now(q, o)) THEN 1 ELSE 0)
      <4>1. w \in Wires /\ w \in WiresOf(From(r, role))
        BY <1>1, <1>8, <3>1
      <4>2. Count(q, w)' = Count(q, w) /\ Count(r, w)' = Count(r, w)
        BY <1>1, <1>6, <4>1
      <4> QED BY <1>1, <2>4, <4>1, <4>2
    <3>2. Count(q, WireOf(q, o, Now(q, o)))' = Count(q, WireOf(q, o, Now(q, o)))
      BY <1>4 DEF Count
    <3>3. TicketOf(q, o)' = Count(q, WireOf(q, o, Now(q, o)))'
      BY <1>4, <2>1, <2>4, <3>2
    <3> QED BY <1>4, <2>3, <3>1, <3>3 DEF Books
  <2>7. Lockstep(r, role)' /\ Lockstep(q, o)'
    BY <2>2 DEF Lockstep, q, o
  <2> QED BY <2>5, <2>6, <2>7
<1>14. /\ Progress(r, role)' /\ Lockstep(r, role)' /\ Books(r, role)' /\ Heard(r, role)'
       /\ Progress(q, o)' /\ Lockstep(q, o)' /\ Books(q, o)' /\ Heard(q, o)'
  BY <1>4, <1>5, <1>10, <1>11, <1>12, <1>13 DEF Lockstep, q, o
<1>15. ASSUME NEW x \in Rank, NEW y \in Role, <<x, y>> # <<r, role>>, <<x, y>> # <<q, o>>
       PROVE  Progress(x, y)' /\ Lockstep(x, y)' /\ Books(x, y)' /\ Heard(x, y)'
  <2>1. /\ <<Peer(x), Counter(y)>> # <<r, role>> /\ Peer(x) \in Rank /\ Counter(y) \in Role
    BY <1>15 DEF q, o, Rank, Role, Peer, Counter
  <2>2. SameView(x, y) /\ SameView(Peer(x), Counter(y))
    BY <1>15, <2>1
  <2> QED BY <2>2, PairSame
<1> QED BY <1>14, <1>15 DEF Meeting

-----------------------------------------------------------------------------
\* What the steps that broadcast nothing have to show.
LEMMA QuietKeeps ==
    ASSUME GroupInv, GroupType', Queues', \A q \in Rank, o \in Role : SameView(q, o),
           UNCHANGED <<relation, traffic, posts, garbled>>
    PROVE  GroupInv'
<1>1. ASSUME NEW r \in Rank, NEW role \in Role
      PROVE  Progress(r, role)' /\ Lockstep(r, role)' /\ Books(r, role)' /\ Heard(r, role)'
  <2>1. Peer(r) \in Rank /\ Counter(role) \in Role
    BY EndFacts
  <2> QED BY <2>1, PairSame DEF GroupInv
<1> QED BY <1>1 DEF GroupInv, Meeting

LEMMA WorkSet ==
    ASSUME NEW w \in WorkType, NEW n \in Nat
    PROVE  /\ [w EXCEPT !.at = n] \in WorkType /\ [w EXCEPT !.ticket = n] \in WorkType
           /\ [w EXCEPT !.ticket = n].role = w.role /\ [w EXCEPT !.ticket = n].id = w.id
           /\ [w EXCEPT !.ticket = n].at = w.at /\ [w EXCEPT !.ticket = n].ticket = n
BY DEF WorkType

\* A thread calls the next broadcast of its work.
LEMMA BroadcastKeeps ==
    ASSUME GroupInv, NEW th \in Thread, work[th] # Resting, work[th].at > 0 \/ MayBegin(th),
           NEW r, r = th[1], NEW role, role = work[th].role, ~Ahead(r, role),
           NEW k, k = work[th].at + 1, k <= Len(Script(r, role)),
           NEW w, w = [work[th] EXCEPT !.at = k], Broadcast(th, w),
           UNCHANGED <<relation, traffic, joined, issued, workQueue, workDone, finished, garbled>>
    PROVE  GroupInv'
<1>1. GroupType /\ Queues /\ Meeting
  BY DEF GroupInv
<1>2. /\ r \in Rank /\ role \in Role /\ work[th] \in WorkType /\ work[th].id = Ended(r, role) + 1
      /\ Ended(r, role) + 1 \in 1 .. Len(traffic[From(r, role)])
      /\ Called(r, role) = work[th].at
  BY <1>1, RunnerFacts
<1>3. /\ w.role = role /\ w.id = Ended(r, role) + 1 /\ w.at = k /\ k \in 1 .. Len(Script(r, role))
      /\ k = Called(r, role) + 1
  <2>1. work[th].at \in Nat /\ Len(Script(r, role)) \in Nat
    <3>1. traffic[From(r, role)] \in Seq(Sendable)
      BY <1>1, <1>2, EndTypes
    <3>2. Whole(Script(r, role))
      BY <1>1, <1>2, <3>1, ScriptWhole, ElementOfSeq DEF Script, GroupType
    <3> QED BY <1>2, <3>2 DEF Whole, Partial, WorkType
  <2> QED BY <1>2, <2>1 DEF WorkType
<1> DEFINE m == Script(r, role)[k]
           wire == WireOf(r, role, m)
           label == [source |-> From(r, role), id |-> Ended(r, role) + 1, part |-> m.part]
<1>4. Source(r, w) = From(r, role)
  BY <1>3 DEF Source, From
<1>5. Message(r, w) = m
  BY <1>3, <1>4 DEF Message, Transfer, Script
<1>6. Sends(w, m) <=> Calls(role, m)
  BY <1>3 DEF Sends, Calls
<1>7. Wire(r, w, m) = wire
  BY <1>6 DEF Wire, WireOf
<1>8. Label(r, w, m) = label
  BY <1>3, <1>4 DEF Label
<1>9. /\ m \in MessageType /\ wire \in WiresOf(From(r, role))
      /\ Calls(role, m) <=> wire[1] = r
  BY <1>1, <1>2, <1>3, MessageFacts DEF Script
<1>10. wire \in Wires
  BY <1>9 DEF WiresOf
<1>11. /\ posts[wire].out \in Seq(LabelType) /\ posts[wire].in \in Nat
       /\ Count(r, wire) = IF wire[1] = r THEN Len(posts[wire].out) ELSE posts[wire].in
  BY <1>1, <1>2, <1>10, CountType DEF Count
<1>12. label \in LabelType
  <2>1. From(r, role) \in Rank
    BY <1>2, EndFacts
  <2> QED BY <1>2, <1>9, <2>1 DEF LabelType, MessageType
<1> HIDE DEF m, wire, label
<1>13. /\ posts' = [posts EXCEPT ![wire] =
                       IF wire[1] = r THEN [posts[wire] EXCEPT !.out = Append(@, label)]
                       ELSE [posts[wire] EXCEPT !.in = @ + 1]]
       /\ work' = [work EXCEPT ![th] =
                      [w EXCEPT !.ticket = IF wire[1] = r THEN Len(posts[wire].out) + 1
                                           ELSE posts[wire].in + 1]]
  BY <1>5, <1>6, <1>7, <1>8, <1>9 DEF Broadcast
<1> DEFINE n == Count(r, wire) + 1
           new == [w EXCEPT !.ticket = n]
<1>14. work' = [work EXCEPT ![th] = new]
  BY <1>11, <1>13
<1>15. new \in WorkType /\ new.role = role /\ new.id = Ended(r, role) + 1 /\ new.at = k /\ new.ticket = n
  <2>1. n \in Nat
    BY <1>11
  <2>2. work[th].id \in Nat /\ k \in Nat
    BY <1>2, <1>3 DEF WorkType
  <2>3. w \in WorkType
    BY <1>2, <2>2, WorkSet
  <2> HIDE DEF n
  <2> QED BY <1>3, <2>1, <2>3, WorkSet
<1> HIDE DEF n, new
<1>16. \E lab \in LabelType, wi \in Wires :
          lab = label /\ wi = wire /\ Posted(r, wi, lab)
  <2>1. posts[wire] \in [out : Seq(LabelType), in : Nat]
    BY <1>1, <1>10 DEF GroupType
  <2> DEFINE p == IF wire[1] = r THEN [posts[wire] EXCEPT !.out = Append(@, label)]
                  ELSE [posts[wire] EXCEPT !.in = @ + 1]
  <2>2. /\ p \in [out : Seq(LabelType), in : Nat]
        /\ p.out = IF wire[1] = r THEN Append(posts[wire].out, label) ELSE posts[wire].out
        /\ p.in = IF wire[1] = r THEN posts[wire].in ELSE posts[wire].in + 1
    <3>1. CASE wire[1] = r
      <4>1. p = [out |-> Append(posts[wire].out, label), in |-> posts[wire].in]
        BY <2>1, <3>1
      <4>2. Append(posts[wire].out, label) \in Seq(LabelType)
        BY <1>11, <1>12
      <4> QED BY <1>11, <3>1, <4>1, <4>2
    <3>2. CASE wire[1] # r
      <4>1. p = [out |-> posts[wire].out, in |-> posts[wire].in + 1]
        BY <2>1, <3>2
      <4> QED BY <1>11, <3>2, <4>1
    <3> QED BY <3>1, <3>2
  <2>3. posts' = [posts EXCEPT ![wire] = p]
    BY <1>13
  <2> HIDE DEF p
  <2>4. /\ posts' \in [Wires -> [out : Seq(LabelType), in : Nat]] /\ posts'[wire] = p
        /\ \A x \in Wires : x # wire => posts'[x] = posts[x]
    BY <1>1, <1>10, <2>2, <2>3 DEF GroupType
  <2>5. Posted(r, wire, label)
    BY <2>2, <2>4 DEF Posted
  <2> QED BY <1>10, <1>12, <2>5
<1>17. posts' \in [Wires -> [out : Seq(LabelType), in : Nat]]
  BY <1>16 DEF Posted
<1>18. PICK nw \in WorkType : nw = new
  BY <1>15
<1>19. /\ GroupType' /\ Queues'
       /\ \A q \in Rank, o \in Role : <<q, o>> # <<r, role>> => SameView(q, o)
       /\ Ended(r, role)' = Ended(r, role) /\ Called(r, role)' = Called(r, role) + 1
       /\ TicketOf(r, role)' = nw.ticket
  <2>1. /\ nw.role = work[th].role /\ nw.id = work[th].id /\ nw.at = work[th].at + 1
        /\ work' = [work EXCEPT ![th] = nw] /\ nw.role = role /\ th[1] = r
    BY <1>2, <1>14, <1>15, <1>18
  <2>2. /\ GroupType' /\ Queues'
        /\ \A q \in Rank, o \in Role : <<q, o>> # <<th[1], nw.role>> => SameView(q, o)
        /\ Ended(th[1], nw.role)' = Ended(th[1], nw.role)
        /\ Called(th[1], nw.role)' = Called(th[1], nw.role) + 1
        /\ TicketOf(th[1], nw.role)' = nw.ticket
    BY <1>1, <1>17, <2>1, ThreadCalls
  <2> QED BY <2>1, <2>2
<1>20. PICK lab \in LabelType, wi \in Wires : lab = label /\ wi = wire /\ Posted(r, wi, lab)
  BY <1>16
<1>21. Meeting'
  <2>1. PICK me : me = m
    OBVIOUS
  <2>2. /\ me = Script(r, role)[k] /\ wi = WireOf(r, role, me)
        /\ lab = [source |-> From(r, role), id |-> Ended(r, role) + 1, part |-> me.part]
    BY <1>20, <2>1 DEF m, wire, label
  <2>3. TicketOf(r, role)' = Count(r, wi) + 1 /\ Called(r, role)' = k
    BY <1>3, <1>15, <1>18, <1>19, <1>20 DEF n
  <2> QED BY <1>1, <1>2, <1>3, <1>19, <1>20, <2>2, <2>3, EndCalls
<1> QED BY <1>19, <1>21 DEF GroupInv

-----------------------------------------------------------------------------
\* The steps.

LEMMA CallsKeep ==
    ASSUME GroupInv, NEW r \in Rank, NEW role \in Role,
           CallAsync(r, role) \/ CallSync(r, role) \/ TakeWork(r, role) \/ NoWork(r, role)
    PROVE  GroupInv'
<1>1. GroupType' /\ Queues' /\ \A q \in Rank, o \in Role : SameView(q, o)
  BY CallAsyncKeeps, CallSyncKeeps, TakeWorkKeeps, NoWorkKeeps DEF GroupInv
<1>2. UNCHANGED <<relation, traffic, posts, garbled>>
  BY DEF CallAsync, CallSync, TakeWork, NoWork
<1> QED BY <1>1, <1>2, QuietKeeps

LEMMA JoinsKeep ==
    ASSUME GroupInv,
           UNCHANGED <<relation, traffic, issued, workQueue, workDone, work, posts, finished, garbled>>
    PROVE  GroupInv'
<1>1. GroupType'
  BY DEF GroupInv, GroupType, Sendable
<1>2. \A q \in Rank, o \in Role : SameView(q, o)
  BY Unmoved DEF Active
<1>3. ASSUME NEW q \in Rank, NEW o \in Role PROVE QueueOf(q, o)'
  <2>1. QueueOf(q, o) /\ (CallerIn(q, o)' <=> CallerIn(q, o))
    BY DEF GroupInv, Queues, CallerIn
  <2> QED BY <2>1, QueueSame
<1> QED BY <1>1, <1>2, <1>3, QuietKeeps DEF Queues

LEMMA BeginWorkKeeps == ASSUME GroupInv, NEW th \in Thread, BeginWork(th) PROVE GroupInv'
<1>1. /\ MayBegin(th) /\ work[th] # Resting /\ work[th].at = 0
      /\ Broadcast(th, [work[th] EXCEPT !.at = 1])
      /\ UNCHANGED <<relation, traffic, joined, issued, workQueue, workDone, finished, garbled>>
  BY DEF BeginWork, MayBegin
<1>2. GroupType /\ Queues /\ Meeting
  BY DEF GroupInv
<1> DEFINE r == th[1]
           role == work[th].role
<1>3. /\ r \in Rank /\ role \in Role /\ Called(r, role) = 0
      /\ Ended(r, role) + 1 \in 1 .. Len(traffic[From(r, role)])
  BY <1>1, <1>2, RunnerFacts
<1>4. ~Ahead(r, role)
  <2>1. Peer(r) \in Rank /\ Counter(role) \in Role
    BY <1>3, EndFacts
  <2>2. Called(Peer(r), Counter(role)) \in Nat
    BY <1>2, <2>1, ViewTypes
  <2> QED BY <1>3, <2>2 DEF Ahead
<1>5. 1 <= Len(Script(r, role))
  <2>1. traffic[From(r, role)] \in Seq(Sendable)
    BY <1>2, <1>3, EndTypes
  <2>2. Whole(Script(r, role))
    BY <1>2, <1>3, <2>1, ScriptWhole, ElementOfSeq DEF Script, GroupType
  <2> QED BY <2>2 DEF Whole, Partial
<1>6. 1 = work[th].at + 1
  BY <1>1
<1> QED BY <1>1, <1>4, <1>5, <1>6, BroadcastKeeps

\* A broadcast that was met, was met by the other end, and is the message that it is to be.
LEMMA MetFacts ==
    ASSUME GroupInv, NEW th \in Thread, work[th] # Resting, work[th].at > 0, Met(th[1], work[th]),
           NEW r, r = th[1], NEW role, role = work[th].role
    PROVE  ~Ahead(r, role) /\ Expected(r, work[th])
<1>1. GroupType /\ Queues /\ Meeting
  BY DEF GroupInv
<1> DEFINE w == work[th]
           m == Now(r, role)
           wire == WireOf(r, role, m)
<1>2. /\ r \in Rank /\ role \in Role /\ w \in WorkType /\ w.id = Ended(r, role) + 1
      /\ Called(r, role) = w.at /\ TicketOf(r, role) = w.ticket
  BY <1>1, RunnerFacts
<1>3. Peer(r) \in Rank /\ Peer(r) # r
  BY <1>2, EndFacts
<1>4. Source(r, w) = From(r, role)
  BY DEF Source, From
<1>5. Message(r, w) = m
  BY <1>2, <1>4 DEF Message, Transfer, Script, Now
<1>6. Sends(w, m) <=> Calls(role, m)
  BY DEF Sends, Calls
<1>7. Wire(r, w, m) = wire /\ Label(r, w, m) = LabelOf(r, role)
  BY <1>2, <1>4, <1>6 DEF Wire, WireOf, Label, LabelOf
<1>8. /\ wire \in WiresOf(From(r, role)) /\ (Calls(role, m) <=> wire[1] = r)
      /\ ~Calls(role, m) <=> wire[1] = Peer(r)
  BY <1>1, <1>2, NowFacts
<1>9. wire \in Wires
  BY <1>8 DEF WiresOf
<1>10. Books(r, role) /\ Heard(r, role)
  BY <1>1, <1>2, MeetingEnds
<1>11. TicketOf(r, role) <= IF Calls(role, m) THEN posts[wire].in ELSE Len(posts[wire].out)
  BY <1>2, <1>5, <1>6, <1>7 DEF Met
<1> HIDE DEF m, wire, w
<1>12. TicketOf(r, role) <= Count(Peer(r), wire)
  BY <1>3, <1>8, <1>11 DEF Count
<1>13. ~Ahead(r, role)
  <2> SUFFICES ASSUME Ahead(r, role) PROVE FALSE
    OBVIOUS
  <2>1. Count(r, wire) = Count(Peer(r), wire) + 1 /\ TicketOf(r, role) = Count(r, wire)
    BY <1>8, <1>10 DEF Books, m, wire
  <2>2. Count(Peer(r), wire) \in Nat
    BY <1>1, <1>3, <1>9, CountType
  <2> QED BY <1>12, <2>1, <2>2
<1>14. Expected(r, w)
  <2>1. CASE Calls(role, m)
    BY <1>5, <1>6, <2>1 DEF Expected
  <2>2. CASE ~Calls(role, m)
    <3>1. posts[wire].out[TicketOf(r, role)] = LabelOf(r, role)
      BY <1>2, <1>10, <1>11, <2>2 DEF Heard, m, wire, w
    <3> QED BY <1>2, <1>5, <1>7, <3>1 DEF Expected
  <2> QED BY <2>1, <2>2
<1> QED BY <1>13, <1>14 DEF w

LEMMA GoOnKeeps == ASSUME GroupInv, NEW th \in Thread, GoOn(th) PROVE GroupInv'
<1>1. GroupType /\ Queues /\ Meeting /\ garbled = {}
  BY DEF GroupInv
<1> DEFINE w == work[th]
<1>2. /\ w # Resting /\ w.at > 0 /\ Met(th[1], w)
      /\ UNCHANGED <<relation, traffic, joined, issued, workQueue, workDone>>
  BY DEF GoOn
<1>3. PICK r, role : r = th[1] /\ role = w.role
  OBVIOUS
<1>4. ~Ahead(r, role) /\ Expected(r, w)
  BY <1>2, <1>3, MetFacts
<1>5. /\ r \in Rank /\ role \in Role /\ w \in WorkType /\ w.id = Ended(r, role) + 1
      /\ Called(r, role) = w.at
  BY <1>1, <1>2, <1>3, RunnerFacts
<1>6. Messages(Transfer(r, w)) = Script(r, role)
  BY <1>3, <1>5 DEF Transfer, Source, Script, From
<1>7. CASE w.at < Len(Messages(Transfer(r, w)))
  <2>1. Broadcast(th, [w EXCEPT !.at = @ + 1]) /\ UNCHANGED <<finished, garbled>>
    BY <1>3, <1>4, <1>7 DEF GoOn
  <2>2. Broadcast(th, [w EXCEPT !.at = w.at + 1])
    BY <2>1
  <2>3. w.at + 1 <= Len(Script(r, role))
    <3>1. Len(Script(r, role)) \in Nat
      BY <1>1, <1>2, <1>5, MeetingEnds DEF Progress, WorkType
    <3> QED BY <1>5, <1>6, <1>7, <3>1 DEF WorkType
  <2> QED BY <1>2, <1>3, <1>4, <2>1, <2>2, <2>3, BroadcastKeeps
<1>8. CASE ~(w.at < Len(Messages(Transfer(r, w))))
  <2>1. /\ work' = [work EXCEPT ![th] = Resting]
        /\ finished' = [finished EXCEPT ![r][role] = Append(@, w.id)]
        /\ UNCHANGED <<posts, garbled>>
    BY <1>3, <1>4, <1>8 DEF GoOn
  <2>2. /\ GroupType' /\ Queues'
        /\ \A q \in Rank, o \in Role : <<q, o>> # <<r, role>> => SameView(q, o)
        /\ Ended(r, role)' = Ended(r, role) + 1 /\ Called(r, role)' = 0
    <3> DEFINE row == [finished[r] EXCEPT ![role] = Append(finished[r][role], w.id)]
    <3>1. finished[r] \in [Role -> Seq(Nat)] /\ work \in [Thread -> WorkType \cup {Resting}]
          /\ finished \in [Rank -> [Role -> Seq(Nat)]]
      BY <1>1, <1>5 DEF GroupType
    <3>2. Append(finished[r][role], w.id) \in Seq(Nat)
      BY <1>5, <3>1 DEF WorkType
    <3>3. finished' = [finished EXCEPT ![r] = row]
      BY <2>1
    <3>4. /\ row \in [Role -> Seq(Nat)] /\ row[role] = Append(finished[r][role], w.id)
          /\ \A o \in Role : o # role => row[o] = finished[r][o]
      BY <1>5, <3>1, <3>2
    <3> HIDE DEF row
    <3>5. /\ finished'[r] = row /\ \A q \in Rank : q # r => finished'[q] = finished[q]
          /\ finished' \in [Rank -> [Role -> Seq(Nat)]]
      BY <1>5, <3>1, <3>3, <3>4
    <3>6. /\ finished'[r][role] = Append(finished[r][role], work[th].id)
          /\ \A q \in Rank, o \in Role : <<q, o>> # <<r, role>> => finished'[q][o] = finished[q][o]
      BY <3>4, <3>5
    <3>7. /\ work'[th] = Resting /\ \A t \in Thread : t # th => work'[t] = work[t]
          /\ work' \in [Thread -> WorkType \cup {Resting}]
      BY <2>1, <3>1
    <3>8. work[th] # Resting /\ work[th].at > 0 /\ r = th[1] /\ role = work[th].role
      BY <1>2, <1>3
    <3>9. UNCHANGED <<relation, traffic, issued, workQueue, workDone, posts>>
      BY <1>2, <2>1
    <3> HIDE DEF w
    <3>10. Through(th, r, role)
      BY <3>5, <3>6, <3>7, <3>8, <3>9 DEF Through
    <3> QED BY <1>1, <3>10, ThreadEnds
  <2>3. Called(r, role) > 0 /\ Called(r, role) \in 1 .. Len(Script(r, role))
    BY <1>1, <1>2, <1>5, MeetingEnds DEF Progress
  <2>4. Called(r, role) = Len(Script(r, role))
    BY <1>5, <1>6, <1>8, <2>3
  <2>5. Meeting'
    BY <1>1, <1>2, <1>4, <1>5, <2>1, <2>2, <2>3, <2>4, EndEnds
  <2> QED BY <1>1, <2>1, <2>2, <2>5 DEF GroupInv
<1> QED BY <1>7, <1>8

-----------------------------------------------------------------------------
\* The theorems.

LEMMA GroupInitInv == ASSUME OneWay, GroupInit PROVE GroupInv
<1>1. PICK s \in SeqOf(Sendable, MaxTransfers), t \in SeqOf(Sendable, MaxTransfers) :
          /\ relation = "uncertain" /\ ~Duplex => t = <<>>
          /\ traffic = [r \in Rank |-> IF r = 0 THEN s ELSE t]
  BY DEF GroupInit
<1>2. s \in Seq(Sendable) /\ t \in Seq(Sendable)
  BY GroupAssumption DEF SeqOf
<1>3. relation \in {"none", "same", "uncertain"} /\ (relation = "uncertain" => t = <<>>)
  BY <1>1, GroupAssumption DEF GroupInit, OneWay
<1>4. traffic \in [Rank -> Seq(Sendable)] /\ (relation = "uncertain" => traffic[1] = <<>>)
  BY <1>1, <1>2, <1>3 DEF Rank
<1>5. /\ issued = [r \in Rank |-> [role \in Role |-> 0]]
      /\ workQueue = [r \in Rank |-> [role \in Role |-> <<>>]]
      /\ workDone = [r \in Rank |-> [role \in Role |-> TRUE]]
      /\ work = [th \in Thread |-> Resting]
      /\ posts = [wire \in Wires |-> [out |-> <<>>, in |-> 0]]
      /\ finished = [r \in Rank |-> [role \in Role |-> <<>>]]
      /\ garbled = {}
  BY DEF GroupInit, Wires
<1> DEFINE empty == [out |-> <<>>, in |-> 0]
<1>6. /\ empty \in [out : Seq(LabelType), in : Nat] /\ empty.out = <<>> /\ empty.in = 0
  OBVIOUS
<1> HIDE DEF empty
<1>7. posts = [wire \in Wires |-> empty]
  BY <1>5 DEF empty
<1>8. GroupType
  <2>1. issued \in [Rank -> [Role -> Nat]] /\ workDone \in [Rank -> [Role -> BOOLEAN]]
    BY <1>5
  <2>2. workQueue \in [Rank -> [Role -> Seq(Nat)]] /\ finished \in [Rank -> [Role -> Seq(Nat)]]
    BY <1>5
  <2>3. work \in [Thread -> WorkType \cup {Resting}]
    BY <1>5
  <2>4. posts \in [Wires -> [out : Seq(LabelType), in : Nat]]
    BY <1>6, <1>7
  <2> QED BY <1>3, <1>4, <2>1, <2>2, <2>3, <2>4 DEF GroupType
<1>9. ASSUME NEW r \in Rank, NEW role \in Role
      PROVE  QueueOf(r, role) /\ Ended(r, role) = 0 /\ Called(r, role) = 0
  <2>1. work[<<r, role>>] = Resting /\ work[Caller(r)] = Resting
    BY <1>5, EndFacts
  <2>2. /\ finished[r][role] = <<>> /\ workQueue[r][role] = <<>> /\ issued[r][role] = 0
    BY <1>5
  <2>3. Ended(r, role) = 0 /\ Busy(r, role) = 0 /\ Waiting(r, role) = 0 /\ ~CallerIn(r, role)
    BY <2>1, <2>2 DEF Ended, Busy, Waiting, CallerIn
  <2>4. Called(r, role) = 0
    BY <2>1 DEF Called, Active
  <2>5. Len(traffic[From(r, role)]) \in Nat
    BY <1>8, EndTypes
  <2>6. finished[r][role] = [n \in 1 .. Ended(r, role) |-> n]
    BY <2>2, <2>3
  <2>7. QueueOf(r, role)
    BY <2>1, <2>2, <2>3, <2>5, <2>6 DEF QueueOf
  <2> QED BY <2>3, <2>4, <2>7
<1>10. ASSUME NEW r \in Rank, NEW role \in Role
       PROVE  Progress(r, role) /\ Lockstep(r, role) /\ Books(r, role) /\ Heard(r, role)
  <2>1. Peer(r) \in Rank /\ Counter(role) \in Role /\ Peer(Peer(r)) = r
        /\ Counter(Counter(role)) = role
    BY EndFacts
  <2>2. /\ Ended(r, role) = 0 /\ Called(r, role) = 0
        /\ Ended(Peer(r), Counter(role)) = 0 /\ Called(Peer(r), Counter(role)) = 0
    BY <1>9, <2>1
  <2>3. Even(r, role) /\ ~Ahead(r, role)
    BY <2>2 DEF Even, Ahead
  <2>4. \A wire \in WiresOf(From(r, role)) : Count(r, wire) = 0 /\ Count(Peer(r), wire) = 0
    BY <1>6, <1>7 DEF WiresOf, Count
  <2> QED BY <2>2, <2>3, <2>4 DEF Progress, Lockstep, Books, Heard
<1> QED BY <1>5, <1>8, <1>9, <1>10 DEF GroupInv, Queues, Meeting

LEMMA GroupStep == ASSUME GroupInv, [GroupNext]_groupVars PROVE GroupInv'
<1>1. CASE \E r \in Rank, role \in Role :
              CallAsync(r, role) \/ CallSync(r, role) \/ TakeWork(r, role) \/ NoWork(r, role)
  BY <1>1, CallsKeep
<1>2. ASSUME NEW th \in Thread, Join(th) PROVE GroupInv'
  BY <1>2, JoinsKeep DEF Join
<1>3. ASSUME NEW th \in Thread, BeginWork(th) PROVE GroupInv'
  BY <1>3, BeginWorkKeeps
<1>4. ASSUME NEW th \in Thread, GoOn(th) PROVE GroupInv'
  BY <1>4, GoOnKeeps
<1>5. ASSUME NEW r \in Rank, Connected(r) PROVE GroupInv'
  BY <1>5, JoinsKeep DEF Connected
<1>6. CASE UNCHANGED groupVars
  BY <1>6, JoinsKeep DEF groupVars
<1> QED BY <1>1, <1>2, <1>3, <1>4, <1>5, <1>6 DEF GroupNext

(* The two ends of the transfers of a source stay in lockstep, with        *)
(* queues, callers without async_op and any number of transfers.           *)
THEOREM GroupInvariant == ASSUME OneWay PROVE GroupSpec => []GroupInv
<1>1. GroupInit => GroupInv
  BY GroupInitInv
<1>2. GroupInv /\ [GroupNext]_groupVars => GroupInv'
  BY GroupStep
<1> QED BY <1>1, <1>2, PTL DEF GroupSpec

(* The works of a role end in the order of their calls, whether the caller *)
(* ran them or the queue, and no broadcast meets one of another message.   *)
THEOREM PairedHolds == ASSUME OneWay PROVE GroupSpec => []Paired
<1>1. GroupInv => Paired
  <2> SUFFICES ASSUME GroupInv PROVE Paired
    OBVIOUS
  <2>1. ASSUME NEW r \in Rank, NEW role \in Role
        PROVE  finished[r][role] = [n \in DOMAIN finished[r][role] |-> n]
    <3>1. finished[r][role] = [n \in 1 .. Ended(r, role) |-> n]
      BY DEF GroupInv, Queues, QueueOf
    <3>2. DOMAIN finished[r][role] = 1 .. Ended(r, role)
      BY <3>1
    <3> QED BY <3>1, <3>2
  <2> QED BY <2>1 DEF Paired, GroupInv
<1> QED BY <1>1, GroupInvariant, PTL

\* A send that is through has been copied, or its receiver is at its last message.
LEMMA CopiedThen ==
    ASSUME GroupInv, NEW r \in Rank, NEW n \in ToSet(finished[r]["send"]) PROVE Copied(r, n)
<1> DEFINE q == Peer(r)
           e == Ended(r, "send")
           f == Ended(q, "recv")
<1>1. GroupType /\ Queues /\ Meeting /\ "send" \in Role /\ "recv" \in Role
  BY DEF GroupInv, Role
<1>2. /\ q \in Rank /\ Peer(q) = r /\ Counter("send") = "recv" /\ Counter("recv") = "send"
      /\ From(q, "recv") = r /\ From(r, "send") = r
  BY <1>1, EndFacts DEF Counter, From
<1>3. /\ e \in Nat /\ f \in Nat /\ Len(traffic[r]) \in Nat /\ issued[r]["send"] \in Nat
      /\ traffic[r] \in Seq(Sendable) /\ Waiting(r, "send") \in Nat
  BY <1>1, <1>2, EndTypes
<1>4. n \in 1 .. e
  <2>1. finished[r]["send"] = [k \in 1 .. e |-> k]
    BY <1>1 DEF Queues, QueueOf
  <2>2. DOMAIN finished[r]["send"] = 1 .. e /\ \A k \in 1 .. e : finished[r]["send"][k] = k
    BY <2>1
  <2> HIDE DEF e
  <2> QED BY <2>2 DEF ToSet
<1>5. e <= Len(traffic[r])
  <2>1. /\ issued[r]["send"] <= Len(traffic[r])
        /\ CallerIn(r, "send") => issued[r]["send"] = e + Waiting(r, "send") + 1
        /\ ~CallerIn(r, "send") => issued[r]["send"] = e + Waiting(r, "send")
    <3>1. QueueOf(r, "send")
      BY <1>1 DEF Queues
    <3>2. /\ CallerIn(r, "send") => work[Caller(r)].id = e + Waiting(r, "send") + 1
                                     /\ work[Caller(r)].id = issued[r]["send"]
          /\ ~CallerIn(r, "send") => issued[r]["send"] = e + Waiting(r, "send")
      BY <3>1, ZenonT(30) DEF QueueOf
    <3>3. issued[r]["send"] <= Len(traffic[From(r, "send")])
      BY <3>1 DEF QueueOf
    <3> QED BY <1>2, <3>2, <3>3
  <2> HIDE DEF e
  <2> QED BY <1>3, <2>1
<1>6. CASE n <= f
  <2>1. finished[q]["recv"] = [k \in 1 .. f |-> k] /\ Len(finished[q]["recv"]) = f
    BY ZenonT(30), <1>1, <1>2 DEF Queues, QueueOf, Ended
  <2>2. n \in 1 .. f
    BY <1>3, <1>4, <1>6
  <2>3. finished[q]["recv"][n] = n
    BY <2>1, <2>2
  <2>4. Contains(finished[q]["recv"], n)
    BY <2>1, <2>2, <2>3 DEF Contains
  <2> QED BY <2>4 DEF Copied
<1>7. CASE ~(n <= f)
  <2>1. e = f + 1 /\ n = f + 1 /\ Called(q, "recv") = Len(Script(q, "recv"))
    <3>1. Lockstep(r, "send")
      BY <1>1 DEF Meeting
    <3>2. e = f \/ f = e + 1 \/ (e = f + 1 /\ Called(q, "recv") = Len(Script(q, "recv")))
      BY <1>2, <3>1 DEF Lockstep, Even, Ahead
    <3> HIDE DEF e, f
    <3> QED BY <1>3, <1>4, <1>7, <3>2
  <2>2. n \in 1 .. Len(traffic[r])
    BY <1>3, <1>4, <1>5
  <2> DEFINE script == Messages(traffic[r][n])
  <2>3. script = Script(q, "recv")
    BY <1>2, <2>1 DEF Script
  <2>4. Whole(script)
    <3>1. traffic[r][n] \in Sendable
      BY <1>3, <2>2
    <3> QED BY <1>1, <3>1, ScriptWhole DEF GroupType
  <2> HIDE DEF script
  <2>5. /\ Len(script) \in Nat /\ Len(script) > 0 /\ DOMAIN script = 1 .. Len(script)
        /\ script[Len(script)].part # "handles"
    BY <2>4 DEF Whole, Partial
  <2>6. Called(q, "recv") = Len(script) /\ Called(q, "recv") > 0
    BY <2>1, <2>3, <2>5
  <2>7. PICK th \in Thread : th[1] = q /\ Active(th) /\ work[th].role = "recv"
    <3>1. CASE Active(<<q, "recv">>)
      <4>1. <<q, "recv">> \in Thread /\ work[<<q, "recv">>].role = "recv"
        BY ZenonT(30), <1>1, <1>2, <3>1, EndFacts DEF Queues, QueueOf, Active
      <4> QED BY <3>1, <4>1
    <3>2. CASE ~Active(<<q, "recv">>)
      <4>1. Active(Caller(q)) /\ CallerIn(q, "recv")
        BY <2>6, <3>2 DEF Called
      <4>2. Caller(q) \in Thread /\ Caller(q)[1] = q
        BY <1>1, <1>2, EndFacts DEF Caller
      <4> QED BY <4>1, <4>2 DEF CallerIn
    <3> QED BY <3>1, <3>2
  <2>8. work[th].id = n /\ work[th].at = Len(script)
    <3>1. work[th].id = Ended(q, "recv") + 1 /\ Called(q, "recv") = work[th].at
      BY <1>1, <2>7, RunnerFacts DEF Active
    <3> QED BY <2>1, <2>6, <3>1
  <2>9. \A k \in {k \in DOMAIN script : script[k].part = "handles"} : work[th].at > k
    <3> SUFFICES ASSUME NEW k \in DOMAIN script, script[k].part = "handles" PROVE work[th].at > k
      OBVIOUS
    <3>1. k \in 1 .. Len(script) /\ k # Len(script)
      BY <2>5
    <3> QED BY <2>5, <2>8, <3>1
  <2> QED BY <2>7, <2>8, <2>9 DEF Copied, Active, script
<1> QED BY <1>6, <1>7

(* A send that shares memory is through only when the receiver has copied  *)
(* it: the caller may overwrite or free the tensor then.                   *)
THEOREM SharedUntilCopiedHolds == ASSUME OneWay PROVE GroupSpec => []SharedUntilCopied
<1>1. GroupInv => SharedUntilCopied
  BY CopiedThen DEF SharedUntilCopied
<1> QED BY <1>1, GroupInvariant, PTL
=============================================================================
