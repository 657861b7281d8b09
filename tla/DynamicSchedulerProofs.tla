----------------------- MODULE DynamicSchedulerProofs -----------------------
(***************************************************************************)
(* Proofs about DynamicScheduler: its invariants hold for every number of  *)
(* groups, GPUs and training steps.                                        *)
(*                                                                         *)
(* The inductive invariant is built in three layers.  Base types the       *)
(* state; Requested says what is under way between the scheduler and each  *)
(* instance; GroupsKept says where each group is, and needs Requested,     *)
(* which in turn needs of GroupsKept that a group is only given up while   *)
(* it is migrated out.  Sized, over these, counts the GPUs; Started, last, *)
(* is about the start under the pre-process policy.                        *)
(***************************************************************************)
EXTENDS DynamicScheduler, FiniteSetTheorems, WellFoundedInduction, SequenceTheorems, TLAPS

Wait == {"Finish", "Wait_For_Finish"}
Requests == {"Report", "Migrate_In", "Migrate_Out"} \cup Wait
Responses == {"Report", "Migrate_Out", "Offloaded"}
Message(actions) == [action : actions, data : SUBSET Group, total : Nat, running : Nat]

SchedState ==
    {"begin", "reports", "migrated", "offloaded", "inference", "actor", "wait_actor", "stopped"}
RolloutState == {"idle", "waiting", "handling", "parked", "offloading", "finished", "failed"}
Past == {"offloading", "finished"}

TypeOK ==
    /\ policy \in Policies
    /\ stage \in {"pre", "main"} /\ spc \in SchedState
    /\ iter \in 0 .. LastIter /\ offset \in 0 .. NumInstances /\ leaving \in SUBSET Instance
    /\ avail \in Nat /\ actorDp \in ValidDp
    /\ req \in [Instance -> Seq(Message(Requests))]
    /\ resp \in [Instance -> Seq(Message(Responses))]
    /\ rpc \in [Instance -> RolloutState]
    /\ lpc \in [Instance -> {"idle", "migrate_out", "finish"}]
    /\ running \in [Instance -> SUBSET Group] /\ aborted \in [Instance -> SUBSET Group]
    /\ done \in [Instance -> SUBSET Group] /\ watched \in [Instance -> SUBSET Group]
    /\ returned \in [Instance -> SUBSET Group]
    /\ event \in [Instance -> BOOLEAN]
    /\ task \in [Group -> {"generating", "completed", "aborted", "sending"}]
    /\ sent \in [Group -> Nat]

-----------------------------------------------------------------------------
(* What is under way between the scheduler and an instance.                *)

\* The instances from which the scheduler waits for a response, and the requests it has made.
WaitedFor == IF spc = "reports" THEN Alive ELSE leaving
Ask ==
    CASE spc = "reports" -> {"Report"}
      [] spc = "migrated" -> {"Migrate_Out"}
      [] spc = "offloaded" -> Wait
      [] OTHER -> {}

\* The instances that leave are the next ones in turn.
Leaving ==
    /\ stage = "pre" => offset = 0 /\ (spc # "begin" => policy.pre)
    /\ spc \notin {"migrated", "offloaded"} => leaving = {}
    /\ \E n \in 0 .. NumInstances - offset :
          /\ leaving = offset .. offset + n - 1
          /\ spc = "migrated" => n \in 1 .. NumInstances - offset - 1

\* Groups that migrate in come before anything else.
QueueOf(i) ==
    /\ \A k \in 1 .. Len(req[i]) :
          IF req[i][k].action = "Migrate_In"
          THEN k = 1 /\ req[i][k].data # {}
          ELSE k = Len(req[i]) /\ req[i][k].data = {}
    /\ Len(resp[i]) <= 1
    /\ \A k \in 1 .. Len(resp[i]) : resp[i][k].action # "Migrate_Out" => resp[i][k].data = {}
OnlyGroups(i) == \A k \in 1 .. Len(req[i]) : req[i][k].action = "Migrate_In"
Asked(i) ==
    /\ req[i] # <<>> /\ req[i][Len(req[i])].action \in Ask
    /\ spc = "migrated" => Len(req[i]) = 1

\* rollout() and the groups it works on
RolloutOf(i) ==
    /\ rpc[i] = "waiting" => watched[i] # {} /\ watched[i] \subseteq running[i]
    /\ rpc[i] = "handling" <=> returned[i] # {}
    /\ returned[i] \subseteq running[i]
    /\ rpc[i] \in Past => running[i] = {}
    /\ rpc[i] \in Past \cup {"idle", "failed"} => done[i] = {} /\ aborted[i] = {}

\* Groups may still come: if rollout() is notified, that is because they have come.
Open(i) ==
    /\ rpc[i] \notin Past
    /\ event[i] => running[i] # {} /\ rpc[i] \in {"idle", "parked", "failed"}

\* rollout() was told that the step is over.
Told(i) ==
    IF rpc[i] = "offloading" THEN ~event[i]
    ELSE /\ event[i] /\ rpc[i] # "finished"
         /\ rpc[i] \in {"idle", "parked"} => running[i] = {}

\* The instance is left alone, or has not taken the request, or works on it, or has responded.
Unasked(i) ==
    /\ OnlyGroups(i) /\ resp[i] = <<>> /\ lpc[i] = "idle" /\ Open(i) /\ aborted[i] = {}
    /\ spc = "migrated" => req[i] = <<>>
ToTake(i) ==
    /\ Asked(i) /\ resp[i] = <<>> /\ lpc[i] = "idle" /\ Open(i)
    /\ spc # "offloaded" => aborted[i] = {}
AtWork(i) ==
    /\ req[i] = <<>> /\ resp[i] = <<>>
    /\ \/ spc = "migrated" /\ lpc[i] = "migrate_out" /\ Open(i)
       \/ spc = "offloaded" /\ lpc[i] = "finish" /\ Open(i)
       \/ spc = "offloaded" /\ lpc[i] = "idle" /\ Told(i)
Responded(i) ==
    /\ req[i] = <<>> /\ lpc[i] = "idle" /\ resp[i] # <<>>
    /\ \/ spc = "reports" /\ resp[i][1].action = "Report" /\ Open(i) /\ aborted[i] = {}
       \/ spc = "migrated" /\ resp[i][1].action = "Migrate_Out" /\ Open(i)
       \/ /\ spc = "offloaded" /\ resp[i][1].action = "Offloaded"
          /\ rpc[i] = "finished" /\ ~event[i]
Gone(i) ==
    req[i] = <<>> /\ resp[i] = <<>> /\ lpc[i] = "idle" /\ rpc[i] = "finished" /\ ~event[i]

PhaseOf(i) ==
    IF i < offset THEN Gone(i)
    ELSE IF i \in WaitedFor THEN ToTake(i) \/ AtWork(i) \/ Responded(i)
    ELSE Unasked(i)

Requested == Leaving /\ \A i \in Instance : QueueOf(i) /\ RolloutOf(i) /\ PhaseOf(i)

-----------------------------------------------------------------------------
(* Where the groups are.                                                   *)

Place == {"running", "aborted", "response", "request"}
Has(g, p, i) ==
    CASE p = "running" -> g \in running[i]
      [] p = "aborted" -> g \in aborted[i] /\ lpc[i] = "migrate_out"
      [] p = "response" -> g \in Carried(resp[i])
      [] p = "request" -> g \in Carried(req[i])
Unstarted(g) == \E i \in Instance : g \in Batch(i) /\ rpc[i] \in {"idle", "failed"}

GroupAt(g) ==
    /\ \A p, q \in Place, i, j \in Instance : Has(g, p, i) /\ Has(g, q, j) => p = q /\ i = j
    /\ IF task[g] = "sending"
       THEN /\ sent[g] = 1
            /\ \A p \in Place, i \in Instance : Has(g, p, i) => g \in returned[i]
       ELSE /\ sent[g] = 0
            /\ (\E p \in Place, i \in Instance : Has(g, p, i)) <=> ~Unstarted(g)
    /\ \A i \in Instance : g \in running[i] /\ task[g] = "aborted" => lpc[i] = "migrate_out"
    /\ Unstarted(g) => task[g] = "generating"
GroupsKept == \A g \in Group : GroupAt(g)

-----------------------------------------------------------------------------
(* The actor, and the GPUs.                                                *)

ActorSize == actorDp * ActorMP
Released == offset * RolloutMP - (IF policy.pre THEN ActorGpus ELSE 0)
Freed == ActorGpus + Released + (IF inferenceUp THEN 0 ELSE InferenceGpus)

ActorInv ==
    /\ apc \in {"pre", "training", "ready", "scaling", "done"}
    /\ aiter \in 0 .. LastIter /\ world \in Nat /\ areq \in Seq(Nat)
    /\ apc = "pre" =>
          /\ policy.pre /\ iter = 0 /\ aiter = 0 /\ world = ActorSize
          /\ IF stage = "pre" THEN areq = <<>> ELSE spc = "wait_actor" /\ areq = <<0>>
    /\ stage = "pre" => IF policy.pre THEN apc = "pre" ELSE spc = "begin" /\ apc \in {"training", "ready"}
    /\ apc \in {"training", "ready"} =>
          areq = <<>> /\ aiter = iter /\ world = ActorSize /\ spc \in {"begin", "wait_actor"}
    /\ apc = "scaling" =>
          IF spc \in {"wait_actor", "stopped"}
          THEN /\ Len(areq) = 1
               /\ ActorSize = (IF areq[1] = 0 THEN world ELSE areq[1])
               /\ IF spc = "stopped" THEN aiter = LastIter ELSE iter = aiter + 1
          ELSE areq = <<>> /\ aiter = iter /\ world = ActorSize /\ spc # "begin"
    /\ apc = "done" => spc = "stopped" /\ areq = <<>> /\ world = ActorSize
    /\ spc = "stopped" => ActorSize = ActorGpus /\ apc \in {"scaling", "done"}

\* When the step, or waiting for rollout, is at its end all instances leave.
LastLeave ==
    LET last == iter = LastIter \/ (policy.wait /\ iter = NumIters - 2)
    IN  stage = "main" /\ last =>
           /\ spc # "migrated" /\ (iter = LastIter => spc # "reports")
           /\ spc = "offloaded" => leaving = Alive
           /\ spc \in {"inference", "actor"} => Alive = {}
AllGone == spc = "stopped" => Alive = {} /\ iter = LastIter

GpuInv ==
    /\ inferenceUp \in BOOLEAN
    /\ inference \in {"running", "offloaded"}
    /\ stage = "pre" =>
          /\ spc \in {"begin", "reports", "migrated", "offloaded"}
          /\ avail = 0 /\ inferenceUp /\ iter = 0 /\ offset = 0 /\ ActorSize = ActorGpus
          /\ spc \in {"migrated", "offloaded"} => Cardinality(leaving) * RolloutMP = ActorGpus
    /\ stage = "main" => /\ spc # "begin" /\ Released >= 0
                         /\ spc # "stopped" => avail + ActorSize <= Freed
                         /\ ActorSize <= Freed /\ world <= Freed
    /\ ~inferenceUp => inference = "offloaded" /\ (policy.wait => Alive = {})

-----------------------------------------------------------------------------
(* Under the pre-process policy every instance starts before any migrates. *)
AtStart == stage = "pre" /\ spc \in {"begin", "reports"}
Fresh(i) ==
    /\ \A k \in 1 .. Len(req[i]) : req[i][k].action # "Migrate_In"
    /\ rpc[i] = "idle" => running[i] = {}
    /\ running[i] \cup done[i] \subseteq Batch(i)
    /\ \A k \in 1 .. Len(resp[i]) :
          /\ resp[i][k].total <= Cardinality(Batch(i))
          /\ rpc[i] = "idle" => resp[i][k].total = 0
Started ==
    policy.pre => \A i \in Instance :
        rpc[i] # "failed" /\ IF AtStart THEN Fresh(i) ELSE rpc[i] # "idle"

-----------------------------------------------------------------------------
(* Arithmetic, and the least and greatest of a set of numbers.             *)

LEMMA NatMin ==
    ASSUME NEW T \in SUBSET Nat, T # {}
    PROVE  \E x \in T : \A y \in T : x <= y
<1>1. IsWellFoundedOn(OpToRel(<, Nat), Nat)
  BY NatLessThanWellFounded
<1>2. PICK x \in T : \A y \in T : ~(<<y, x>> \in OpToRel(<, Nat))
  BY <1>1, WFMin
<1>3. \A y \in T : ~(y < x)
  BY <1>2 DEF OpToRel
<1> QED BY <1>3

LEMMA MaxIs ==
    ASSUME NEW S \in SUBSET Nat, S # {}, NEW b \in Nat, \A x \in S : x <= b
    PROVE  Max(S) \in S /\ \A y \in S : y <= Max(S)
<1> DEFINE T == {t \in Nat : \E x \in S : t = b - x}
<1>1. \A y \in S : y \in Nat /\ b - y \in T
  OBVIOUS
<1>2. T \in SUBSET Nat /\ T # {}
  BY <1>1
<1>3. PICK t \in T : \A y \in T : t <= y
  BY <1>2, NatMin
<1>4. PICK x \in S : t = b - x
  BY <1>2
<1>5. \A y \in S : t <= b - y
  BY <1>1, <1>3
<1> HIDE DEF T
<1>6. \A y \in S : x >= y
  BY <1>1, <1>4, <1>5
<1> QED BY <1>1, <1>4, <1>6 DEF Max

LEMMA ModSmall == ASSUME NEW n \in Nat \ {0}, NEW i \in 0 .. n - 1 PROVE i % n = i
OBVIOUS

LEMMA DivideExact ==
    ASSUME NEW a \in Nat, NEW b \in Nat \ {0}, a % b = 0
    PROVE  a \div b \in Nat /\ a = (a \div b) * b /\ (a # 0 => a \div b # 0)
OBVIOUS

LEMMA DivideSum ==
    ASSUME NEW a \in Nat, NEW b \in Nat, NEW m \in Nat \ {0}, a % m = 0, b % m = 0
    PROVE  (a + b) \div m = a \div m + b \div m
OBVIOUS

LEMMA DivideProduct ==
    ASSUME NEW a \in Nat, NEW b \in Nat \ {0}
    PROVE  (a * b) \div b = a
OBVIOUS

LEMMA CeilLe ==
    ASSUME NEW a \in Nat, NEW b \in Nat \ {0}, NEW m \in Nat, a <= m * b
    PROVE  CeilDiv(a, b) \in Nat /\ CeilDiv(a, b) <= m
BY DEF CeilDiv

LEMMA CeilPos ==
    ASSUME NEW a \in Nat \ {0}, NEW b \in Nat \ {0}
    PROVE  CeilDiv(a, b) \in Nat \ {0}
BY DEF CeilDiv

-----------------------------------------------------------------------------
(* Sums over finite sets.                                                  *)

\* What one step of the fold adds to what was computed for the smaller set.
SumStep(f, h, s) == IF s = {} THEN 0 ELSE f[CHOOSE x \in s : TRUE] + h[s \ {CHOOSE x \in s : TRUE}]
UpTo(S, n) == {s \in SUBSET S : Cardinality(s) <= n}
IsSum(f, h, D) == h = [s \in D |-> SumStep(f, h, s)]

LEMMA SumExists ==
    ASSUME NEW S, IsFiniteSet(S), NEW f
    PROVE  \E h : IsSum(f, h, SUBSET S)
<1> DEFINE T == {n \in Nat : ~\E h : IsSum(f, h, UpTo(S, n))}
<1>1. \A s \in SUBSET S : IsFiniteSet(s) /\ Cardinality(s) \in Nat /\ Cardinality(s) <= Cardinality(S)
  BY FS_Subset, FS_CardinalityType
<1>2. SUBSET S = UpTo(S, Cardinality(S))
  BY <1>1 DEF UpTo
<1>3. T = {}
  <2> SUFFICES ASSUME T # {} PROVE FALSE
    OBVIOUS
  <2>1. PICK n \in T : \A y \in T : n <= y
    BY NatMin
  <2>2. CASE n = 0
    <3> DEFINE h == [s \in UpTo(S, 0) |-> 0]
    <3>1. \A s \in UpTo(S, 0) : s = {}
      BY <1>1, FS_EmptySet DEF UpTo
    <3>2. IsSum(f, h, UpTo(S, 0))
      BY <3>1 DEF IsSum, SumStep
    <3> QED BY <2>1, <2>2, <3>2
  <2>3. CASE n # 0
    <3>1. n - 1 \in Nat /\ n - 1 \notin T
      BY <2>1, <2>3
    <3>2. PICK g : IsSum(f, g, UpTo(S, n - 1))
      BY <3>1
    <3> DEFINE h == [s \in UpTo(S, n) |-> SumStep(f, g, s)]
    <3>3. ASSUME NEW s \in UpTo(S, n), s # {} PROVE s \ {CHOOSE x \in s : TRUE} \in UpTo(S, n - 1)
      <4> DEFINE x == CHOOSE x \in s : TRUE
      <4>1. x \in s /\ s \in SUBSET S /\ IsFiniteSet(s) /\ Cardinality(s) <= n
        BY <1>1, <3>3 DEF UpTo
      <4>2. Cardinality(s \ {x}) = Cardinality(s) - 1
        BY <4>1, FS_RemoveElement
      <4>3. Cardinality(s \ {x}) <= n - 1 /\ s \ {x} \in SUBSET S
        BY <1>1, <2>1, <4>1, <4>2
      <4> HIDE DEF x
      <4>4. s \ {x} \in UpTo(S, n - 1)
        BY <4>3 DEF UpTo
      <4> QED BY <4>4 DEF x
    <3>4. UpTo(S, n - 1) \subseteq UpTo(S, n)
      BY <1>1, <2>1 DEF UpTo
    <3>5. \A s \in UpTo(S, n - 1) : h[s] = g[s]
      BY <3>2, <3>4 DEF IsSum
    <3>6. ASSUME NEW s \in UpTo(S, n) PROVE SumStep(f, g, s) = SumStep(f, h, s)
      <4>1. CASE s = {}
        BY <4>1 DEF SumStep
      <4>2. CASE s # {}
        <5>1. h[s \ {CHOOSE x \in s : TRUE}] = g[s \ {CHOOSE x \in s : TRUE}]
          BY <3>3, <3>5, <4>2
        <5> HIDE DEF h
        <5> QED BY <4>2, <5>1 DEF SumStep
      <4> QED BY <4>1, <4>2
    <3>7. IsSum(f, h, UpTo(S, n))
      BY <3>6 DEF IsSum
    <3> QED BY <2>1, <3>7
  <2> QED BY <2>2, <2>3
<1>4. Cardinality(S) \in Nat
  BY <1>1
<1>5. Cardinality(S) \notin T
  BY <1>3
<1>6. \E h : IsSum(f, h, UpTo(S, Cardinality(S)))
  BY <1>4, <1>5
<1> QED BY <1>2, <1>6

LEMMA SumIs ==
    ASSUME NEW S, IsFiniteSet(S), NEW f
    PROVE  \E h : IsSum(f, h, SUBSET S) /\ SumFunctionOnSet(f, S) = h[S]
<1> DEFINE h == CHOOSE i : IsSum(f, i, SUBSET S)
<1>1. IsSum(f, h, SUBSET S)
  BY SumExists
<1>2. SumFunctionOnSet(f, S) = h[S]
  BY DEF SumFunctionOnSet, FoldFunctionOnSet, MapThenFoldSet, IsSum, SumStep
<1> QED BY <1>1, <1>2

LEMMA SumNat ==
    ASSUME NEW S, IsFiniteSet(S), NEW f, \A x \in S : f[x] \in Nat
    PROVE  SumOver(S, f) \in Nat
<1>1. PICK h : IsSum(f, h, SUBSET S) /\ SumFunctionOnSet(f, S) = h[S]
  BY SumIs
<1> DEFINE T == {n \in Nat : \E s \in SUBSET S : Cardinality(s) = n /\ h[s] \notin Nat}
<1>2. \A s \in SUBSET S : IsFiniteSet(s) /\ Cardinality(s) \in Nat
  BY FS_Subset, FS_CardinalityType
<1>3. T = {}
  <2> SUFFICES ASSUME T # {} PROVE FALSE
    OBVIOUS
  <2>1. PICK n \in T : \A y \in T : n <= y
    BY NatMin
  <2>2. PICK s \in SUBSET S : Cardinality(s) = n /\ h[s] \notin Nat
    BY <2>1
  <2> DEFINE x == CHOOSE x \in s : TRUE
  <2>3. s # {}
    BY <1>1, <2>2 DEF IsSum, SumStep
  <2>4. x \in s /\ Cardinality(s \ {x}) = n - 1 /\ s \ {x} \in SUBSET S
    BY <1>2, <2>2, <2>3, FS_RemoveElement
  <2>5. n - 1 \in Nat
    BY <1>2, <2>4
  <2>6. h[s \ {x}] \in Nat
    BY <2>1, <2>4, <2>5
  <2>7. h[s] = f[x] + h[s \ {x}]
    BY <1>1, <2>2, <2>3 DEF IsSum, SumStep
  <2> QED BY <2>2, <2>4, <2>6, <2>7
<1> QED BY <1>1, <1>2, <1>3 DEF SumOver

-----------------------------------------------------------------------------
(* The constants, and what they make of the operators.                     *)

LEMMA Config ==
    ASSUME policy \in Policies
    PROVE  /\ NumInstances \in Nat \ {0} /\ NumInstances <= NumGroups
           /\ NumInstances * RolloutMP = RolloutGpus + (IF policy.pre THEN ActorGpus ELSE 0)
           /\ policy.pre \in BOOLEAN /\ policy.wait \in BOOLEAN
           /\ policy.pre => /\ ActorGpus \div RolloutMP \in 1 .. NumInstances - 1
                            /\ (ActorGpus \div RolloutMP) * RolloutMP = ActorGpus
           /\ LastIter \in Nat \ {0} /\ NumGroups \in Nat \ {0}
<1> DEFINE a == ActorGpus \div RolloutMP
           r == RolloutGpus \div RolloutMP
<1>1. /\ ActorGpus \in Nat \ {0} /\ RolloutGpus \in Nat \ {0} /\ RolloutMP \in Nat \ {0}
      /\ ActorGpus % RolloutMP = 0 /\ RolloutGpus % RolloutMP = 0
      /\ NumGroups >= (ActorGpus + RolloutGpus) \div RolloutMP
      /\ policy.pre \in BOOLEAN /\ policy.wait \in BOOLEAN
      /\ NumGroups \in Nat /\ NumIters \in Nat \ {0, 1} /\ Threshold \in 1 .. NumGroups - 1
  BY SchedulerAssumption
<1>2. a \in Nat \ {0} /\ ActorGpus = a * RolloutMP
  BY <1>1, DivideExact
<1>3. r \in Nat \ {0} /\ RolloutGpus = r * RolloutMP
  BY <1>1, DivideExact
<1>4. (ActorGpus + RolloutGpus) \div RolloutMP = a + r
  BY <1>1, DivideSum
<1> HIDE DEF a, r
<1>5. NumInstances = IF policy.pre THEN a + r ELSE r
  BY <1>1, <1>3, <1>4 DEF NumInstances, r
<1>6. NumInstances * RolloutMP = RolloutGpus + (IF policy.pre THEN ActorGpus ELSE 0)
  <2>1. (a + r) * RolloutMP = a * RolloutMP + r * RolloutMP
    BY <1>1, <1>2, <1>3
  <2> QED BY <1>1, <1>2, <1>3, <1>5, <2>1
<1>7. NumInstances \in Nat \ {0} /\ NumInstances <= NumGroups
  BY <1>1, <1>2, <1>3, <1>4, <1>5
<1>8. policy.pre => a \in 1 .. NumInstances - 1
  BY <1>1, <1>2, <1>3, <1>5
<1>9. LastIter \in Nat \ {0} /\ NumGroups \in Nat \ {0}
  BY <1>1 DEF LastIter
<1> QED BY <1>1, <1>2, <1>6, <1>7, <1>8, <1>9 DEF a
\* The policies of a run stay as they are, and with them what they decide.
LEMMA Steady ==
    ASSUME policy' = policy
    PROVE  /\ NumInstances' = NumInstances /\ Instance' = Instance
           /\ \A i : Batch(i)' = Batch(i)
BY DEF NumInstances, Instance, Batch

LEMMA InstanceFacts ==
    ASSUME policy \in Policies
    PROVE  /\ Instance \subseteq Nat /\ IsFiniteSet(Instance) /\ IsFiniteSet(Group)
           /\ \A S \in SUBSET Instance : IsFiniteSet(S) /\ Cardinality(S) \in Nat
           /\ \A S \in SUBSET Group : IsFiniteSet(S) /\ Cardinality(S) \in Nat
<1>1. NumInstances - 1 \in Int /\ NumGroups \in Int
  BY Config
<1>2. IsFiniteSet(Instance) /\ IsFiniteSet(Group)
  BY <1>1, FS_Interval DEF Instance, Group
<1>3. Instance \subseteq Nat
  BY <1>1 DEF Instance
<1> QED BY <1>2, <1>3, FS_Subset, FS_CardinalityType

\* Every instance is given a part of the batch.
LEMMA BatchNotEmpty ==
    ASSUME policy \in Policies, NEW i \in Instance
    PROVE  Batch(i) # {} /\ Batch(i) \subseteq Group
<1>1. i \in Nat /\ i < NumInstances /\ i + 1 \in Group /\ NumInstances \in Nat \ {0}
  BY Config DEF Instance, Group
<1>2. (i + 1 - 1) % NumInstances = i
  BY <1>1, ModSmall
<1> QED BY <1>1, <1>2 DEF Batch

\* and every group belongs to one.
LEMMA BatchOfGroup ==
    ASSUME policy \in Policies, NEW g \in Group
    PROVE  /\ (g - 1) % NumInstances \in Instance
           /\ \A i \in Instance : g \in Batch(i) <=> i = (g - 1) % NumInstances
<1>1. g - 1 \in Nat /\ NumInstances \in Nat \ {0}
  BY Config DEF Group
<1>2. (g - 1) % NumInstances \in 0 .. NumInstances - 1
  BY <1>1
<1> QED BY <1>2 DEF Instance, Batch

LEMMA AliveFacts ==
    ASSUME policy \in Policies, offset \in 0 .. NumInstances
    PROVE  /\ Alive \subseteq Instance /\ Cardinality(Alive) = NumInstances - offset
           /\ Alive = {} <=> offset = NumInstances
           /\ \A i \in Instance : i \in Alive <=> i >= offset
<1>1. NumInstances \in Nat \ {0} /\ offset \in Nat
  BY Config
<1>2. Cardinality(Alive) = NumInstances - offset
  BY <1>1, FS_Interval DEF Alive
<1> QED BY <1>1, <1>2 DEF Alive, Instance

\* try_allocate finds a valid size of the actor.
LEMMA GrowthFacts ==
    ASSUME actorDp \in ValidDp, NEW gpus \in Nat
    PROVE  /\ Growth(gpus) \in 0 .. gpus
           /\ \E d \in ValidDp : d >= actorDp /\ Growth(gpus) = (d - actorDp) * ActorMP
<1> DEFINE S == {0} \cup {n \in {(d - actorDp) * ActorMP : d \in {e \in ValidDp : e > actorDp}} : n <= gpus}
<1>1. ActorMP \in Nat \ {0} /\ ValidDp \subseteq Nat
  BY SchedulerAssumption DEF ValidDp, TotalGpus
<1>2. \A d \in ValidDp : d > actorDp => (d - actorDp) * ActorMP \in Nat
  BY <1>1
<1>3. S \in SUBSET Nat /\ S # {} /\ \A x \in S : x <= gpus
  BY <1>2
<1>4. \A x \in S : \E d \in ValidDp : d >= actorDp /\ x = (d - actorDp) * ActorMP
  <2>1. actorDp >= actorDp /\ 0 = (actorDp - actorDp) * ActorMP
    BY <1>1
  <2> QED BY <1>1, <2>1
<1>5. Growth(gpus) = Max(S)
  BY DEF Growth
<1> HIDE DEF S
<1>6. Growth(gpus) \in S
  BY <1>3, <1>5, MaxIs
<1>7. Growth(gpus) \in Nat /\ Growth(gpus) <= gpus
  BY <1>3, <1>6
<1> QED BY <1>4, <1>6, <1>7

\* find_release_instance_num_needed leaves the instances that the running tasks need.
LEMMA ReleaseFacts ==
    ASSUME policy \in Policies, offset \in 0 .. NumInstances, actorDp \in ValidDp,
           NEW tasks \in Nat \ {0}, ReleaseNeeded(tasks) # 0
    PROVE  ReleaseNeeded(tasks) \in 1 .. NumInstances - offset - 1
<1> DEFINE most == Cardinality(Alive) - CeilDiv(tasks, MaxRunning)
<1>1. NumInstances \in Nat /\ offset \in Nat /\ RolloutMP \in Nat \ {0} /\ MaxRunning \in Nat \ {0}
  BY Config, SchedulerAssumption
<1>2. CeilDiv(tasks, MaxRunning) \in Nat \ {0}
  BY <1>1, CeilPos
<1>3. most \in Int /\ most <= NumInstances - offset - 1
  BY <1>1, <1>2, AliveFacts
<1>4. /\ ~(Cardinality(Alive) <= 1 \/ most <= 0)
      /\ ReleaseNeeded(tasks) = CeilDiv(Growth(most * RolloutMP), RolloutMP)
  BY DEF ReleaseNeeded
<1> HIDE DEF most
<1>5. most \in Nat /\ most * RolloutMP \in Nat
  BY <1>1, <1>3, <1>4
<1>6. Growth(most * RolloutMP) \in 0 .. most * RolloutMP
  BY <1>5, GrowthFacts
<1>7. CeilDiv(Growth(most * RolloutMP), RolloutMP) \in Nat
      /\ CeilDiv(Growth(most * RolloutMP), RolloutMP) <= most
  <2> DEFINE a == Growth(most * RolloutMP)
  <2>1. a \in Nat /\ a <= most * RolloutMP
    BY <1>5, <1>6
  <2> HIDE DEF a
  <2>2. CeilDiv(a, RolloutMP) \in Nat /\ CeilDiv(a, RolloutMP) <= most
    BY <1>1, <1>5, <2>1, CeilLe
  <2> QED BY <2>2 DEF a
<1> QED BY <1>1, <1>3, <1>4, <1>7

-----------------------------------------------------------------------------
(* Queues of messages.                                                     *)

LEMMA InfoType ==
    ASSUME NEW Kinds, NEW kind \in Kinds, NEW groups \in SUBSET Group, NEW m \in Nat, NEW n \in Nat
    PROVE  /\ Info(kind, groups, m, n) \in Message(Kinds)
           /\ Info(kind, groups, m, n).action = kind /\ Info(kind, groups, m, n).data = groups
           /\ Info(kind, groups, m, n).total = m /\ Info(kind, groups, m, n).running = n
BY DEF Info, Message

LEMMA AppendOne ==
    ASSUME NEW S, NEW s \in Seq(S), NEW e \in S
    PROVE  /\ Append(s, e) \in Seq(S) /\ Len(Append(s, e)) = Len(s) + 1 /\ Append(s, e) # <<>>
           /\ DOMAIN Append(s, e) = 1 .. Len(s) + 1 /\ DOMAIN s = 1 .. Len(s) /\ Len(s) \in Nat
           /\ \A n \in 1 .. Len(s) + 1 : Append(s, e)[n] = IF n <= Len(s) THEN s[n] ELSE e
OBVIOUS

LEMMA TailOne ==
    ASSUME NEW S, NEW s \in Seq(S), s # <<>>
    PROVE  /\ Head(s) \in S /\ Head(s) = s[1] /\ 1 \in 1 .. Len(s) /\ Len(s) \in Nat
           /\ Tail(s) \in Seq(S) /\ Len(Tail(s)) = Len(s) - 1
           /\ DOMAIN Tail(s) = 1 .. Len(s) - 1 /\ DOMAIN s = 1 .. Len(s)
           /\ \A n \in 1 .. Len(s) - 1 : n + 1 \in 1 .. Len(s) /\ Tail(s)[n] = s[n + 1]
           /\ Len(s) = 1 => Tail(s) = <<>>
<1>1. /\ Head(s) \in S /\ Head(s) = s[1] /\ 1 \in 1 .. Len(s) /\ Len(s) \in Nat
      /\ Tail(s) \in Seq(S) /\ Len(Tail(s)) = Len(s) - 1
      /\ \A n \in 1 .. Len(s) - 1 : n + 1 \in 1 .. Len(s) /\ Tail(s)[n] = s[n + 1]
  OBVIOUS
<1>2. DOMAIN Tail(s) = 1 .. Len(s) - 1 /\ DOMAIN s = 1 .. Len(s)
  BY <1>1
<1>3. Len(s) = 1 => Tail(s) = <<>>
  <2>1. Len(s) = 1 => Len(Tail(s)) = 0 /\ Tail(s) \in Seq(S)
    BY <1>1
  <2> QED BY <2>1, EmptySeq
<1> QED BY <1>1, <1>2, <1>3

LEMMA CarriedAppend ==
    ASSUME NEW S, NEW s \in Seq(S), NEW e \in S
    PROVE  Carried(Append(s, e)) = Carried(s) \cup e.data
<1>1. /\ DOMAIN Append(s, e) = 1 .. Len(s) + 1 /\ DOMAIN s = 1 .. Len(s) /\ Len(s) \in Nat
      /\ \A n \in 1 .. Len(s) : Append(s, e)[n] = s[n]
      /\ Append(s, e)[Len(s) + 1] = e
  BY AppendOne
<1>2. 1 .. Len(s) + 1 = (1 .. Len(s)) \cup {Len(s) + 1}
  BY <1>1
<1> QED BY <1>1, <1>2 DEF Carried

LEMMA CarriedTail ==
    ASSUME NEW S, NEW s \in Seq(S), s # <<>>
    PROVE  Carried(s) = Head(s).data \cup Carried(Tail(s))
<1>1. /\ Head(s) = s[1] /\ Len(s) \in Nat \ {0} /\ DOMAIN Tail(s) = 1 .. Len(s) - 1 /\ DOMAIN s = 1 .. Len(s)
      /\ \A n \in 1 .. Len(s) - 1 : n + 1 \in 1 .. Len(s) /\ Tail(s)[n] = s[n + 1]
  BY TailOne
<1>2. \A n \in 1 .. Len(s) : n = 1 \/ (n - 1 \in 1 .. Len(s) - 1 /\ Tail(s)[n - 1] = s[n])
  BY <1>1
<1>3. ASSUME NEW g, g \in Carried(s) PROVE g \in Head(s).data \cup Carried(Tail(s))
  <2>1. PICK n \in 1 .. Len(s) : g \in s[n].data
    BY <1>1, <1>3 DEF Carried
  <2> QED BY <1>1, <1>2, <2>1 DEF Carried
<1>4. ASSUME NEW g, g \in Head(s).data \cup Carried(Tail(s)) PROVE g \in Carried(s)
  <2>1. CASE g \in Head(s).data
    BY <1>1, <2>1 DEF Carried
  <2>2. CASE g \in Carried(Tail(s))
    <3>1. PICK n \in 1 .. Len(s) - 1 : g \in Tail(s)[n].data
      BY <1>1, <2>2 DEF Carried
    <3> QED BY <1>1, <3>1 DEF Carried
  <2> QED BY <1>4, <2>1, <2>2
<1> QED BY <1>3, <1>4

LEMMA CarriedNothing == Carried(<<>>) = {}
BY DEF Carried

-----------------------------------------------------------------------------
(* Types, and which instances leave.                                       *)

Base == TypeOK /\ Leaving

LEMMA ScatterNoData ==
    ASSUME TypeOK, NEW action \in Requests, NEW ids \in SUBSET Instance, Scatter(action, ids, NoData)
    PROVE  /\ req' \in [Instance -> Seq(Message(Requests))]
           /\ \A i \in Instance : req'[i] = IF i \in ids THEN Append(req[i], Info(action, {}, 0, 0))
                ELSE req[i]
<1>1. \A i \in Instance : NoData[i] = {}
  BY DEF NoData
<1>2. \A i \in Instance : req[i] \in Seq(Message(Requests))
  BY DEF TypeOK
<1>3. Info(action, {}, 0, 0) \in Message(Requests)
  BY InfoType
<1>4. \A i \in ids : Append(req[i], Info(action, {}, 0, 0)) \in Seq(Message(Requests))
  BY <1>2, <1>3, AppendOne
<1> QED BY <1>1, <1>2, <1>4 DEF Scatter

LEMMA GatherType ==
    ASSUME TypeOK, NEW ids \in SUBSET Instance, Gathered(ids), Gather(ids)
    PROVE  /\ resp' \in [Instance -> Seq(Message(Responses))]
           /\ \A i \in Instance : resp'[i] = IF i \in ids THEN Tail(resp[i]) ELSE resp[i]
           /\ \A i \in ids : Head(resp[i]) \in Message(Responses)
<1>1. \A i \in Instance : resp[i] \in Seq(Message(Responses))
  BY DEF TypeOK
<1>2. \A i \in ids : Head(resp[i]) \in Message(Responses) /\ Tail(resp[i]) \in Seq(Message(Responses))
  BY <1>1, TailOne DEF Gathered
<1> QED BY <1>1, <1>2 DEF Gather

LEMMA TakeType ==
    ASSUME TypeOK, NEW i \in Instance, NEW action, Take(i, action)
    PROVE  /\ req' \in [Instance -> Seq(Message(Requests))] /\ req'[i] = Tail(req[i])
           /\ \A j \in Instance \ {i} : req'[j] = req[j]
           /\ Head(req[i]) \in Message(Requests)
<1>1. req \in [Instance -> Seq(Message(Requests))] /\ req[i] # <<>>
      /\ req' = [req EXCEPT ![i] = Tail(req[i])]
  BY DEF TypeOK, Take
<1>2. Tail(req[i]) \in Seq(Message(Requests)) /\ Head(req[i]) \in Message(Requests)
  BY <1>1, TailOne
<1> QED BY <1>1, <1>2

LEMMA RespondType ==
    ASSUME TypeOK, NEW i \in Instance, NEW info \in Message(Responses), Respond(i, info)
    PROVE  /\ resp' \in [Instance -> Seq(Message(Responses))] /\ resp'[i] = Append(resp[i], info)
           /\ \A j \in Instance \ {i} : resp'[j] = resp[j]
<1>1. resp \in [Instance -> Seq(Message(Responses))] /\ resp' = [resp EXCEPT ![i] = Append(resp[i], info)]
  BY DEF TypeOK, Respond
<1>2. Append(resp[i], info) \in Seq(Message(Responses))
  BY <1>1, AppendOne
<1> QED BY <1>1, <1>2

\* What the instances report as running adds up.
LEMMA RunningTasksNat ==
    ASSUME TypeOK, Gathered(Alive)
    PROVE  RunningTasks \in Nat
<1>1. Alive \in SUBSET Instance /\ IsFiniteSet(Alive)
  BY AliveFacts, InstanceFacts DEF TypeOK
<1>2. \A i \in Alive : resp[i] \in Seq(Message(Responses)) /\ resp[i] # <<>>
  BY <1>1 DEF TypeOK, Gathered
<1>3. \A i \in Alive : Head(resp[i]) \in Message(Responses)
  BY <1>2, TailOne
<1>4. \A i \in Alive : [j \in Alive |-> Head(resp[j]).running][i] \in Nat
  BY <1>3 DEF Message
<1> QED BY <1>1, <1>4, SumNat DEF RunningTasks

\* The instances that are asked to hand over their groups, or to finish.
LEMMA MigrateOutFacts ==
    ASSUME Base, NEW n \in 1 .. NumInstances - offset - 1, MigrateOut(n)
    PROVE  /\ leaving' = offset .. offset + n - 1 /\ leaving' \subseteq Alive /\ leaving' # Alive
           /\ req' \in [Instance -> Seq(Message(Requests))]
           /\ \A i \in Instance : req'[i] =
                IF i \in leaving' THEN Append(req[i], Info("Migrate_Out", {}, 0, 0))
                                                               ELSE req[i]
           /\ spc' = "migrated"
<1>1. NumInstances \in Nat /\ offset \in Nat /\ Alive \subseteq Instance
  BY Config, AliveFacts DEF Base, TypeOK
<1>2. offset .. offset + n - 1 \subseteq Alive /\ NumInstances - 1 \in Alive
      /\ NumInstances - 1 \notin offset .. offset + n - 1
  BY <1>1 DEF Alive
<1>3. "Migrate_Out" \in Requests
  BY DEF Requests
<1> QED BY <1>1, <1>2, <1>3, ScatterNoData DEF MigrateOut, Base

LEMMA FinishAllFacts ==
    ASSUME Base, NEW action \in Wait, FinishAll(action)
    PROVE  /\ leaving' = Alive /\ leaving' \subseteq Instance /\ leaving' = offset .. NumInstances - 1
           /\ req' \in [Instance -> Seq(Message(Requests))]
           /\ \A i \in Instance : req'[i] = IF i \in Alive THEN Append(req[i], Info(action, {}, 0, 0))
                ELSE req[i]
           /\ spc' = "offloaded"
<1>1. Alive \subseteq Instance
  BY AliveFacts DEF Base, TypeOK
<1>2. action \in Requests
  BY DEF Requests
<1>3. leaving' = Alive /\ Scatter(action, Alive, NoData) /\ spc' = "offloaded"
  BY DEF FinishAll
<1> QED BY <1>1, <1>2, <1>3, ScatterNoData DEF Base, Alive

LEMMA ReportFacts ==
    ASSUME Base, Scatter("Report", Alive, NoData)
    PROVE  /\ req' \in [Instance -> Seq(Message(Requests))]
           /\ \A i \in Instance : req'[i] =
                IF i \in Alive THEN Append(req[i], Info("Report", {}, 0, 0)) ELSE req[i]
<1>1. Alive \subseteq Instance
  BY AliveFacts DEF Base, TypeOK
<1>2. "Report" \in Requests
  BY DEF Requests
<1> QED BY <1>1, <1>2, ScatterNoData DEF Base

-----------------------------------------------------------------------------
\* The steps of the scheduler keep the types.

LEMMA NoneLeaves ==
    ASSUME NEW total \in Nat, NEW first \in Nat, first <= total
    PROVE  \E n \in 0 .. total - first : {} = first .. first + n - 1
<1>1. first .. first + 0 - 1 = {}
  OBVIOUS
<1>2. 0 \in 0 .. total - first
  OBVIOUS
<1> QED BY <1>1, <1>2

LEMMA SomeLeave ==
    ASSUME NumInstances \in Nat, offset \in 0 .. NumInstances, NEW S,
           \/ S = {}
           \/ S = offset .. NumInstances - 1
           \/ \E n \in 1 .. NumInstances - offset - 1 : S = offset .. offset + n - 1
    PROVE  \E n \in 0 .. NumInstances - offset : S = offset .. offset + n - 1
<1>1. CASE S = {}
  <2>1. offset .. offset + 0 - 1 = {} /\ 0 \in 0 .. NumInstances - offset
    OBVIOUS
  <2> QED BY <1>1, <2>1
<1>2. CASE S = offset .. NumInstances - 1
  <2>1. NumInstances - offset \in 0 .. NumInstances - offset
          /\ offset + (NumInstances - offset) - 1 = NumInstances - 1
    OBVIOUS
  <2> QED BY <1>2, <2>1
<1>3. CASE \E n \in 1 .. NumInstances - offset - 1 : S = offset .. offset + n - 1
  <2>1. PICK n \in 1 .. NumInstances - offset - 1 : S = offset .. offset + n - 1
    BY <1>3
  <2>2. n \in 0 .. NumInstances - offset
    BY <2>1
  <2> QED BY <2>1, <2>2
<1> QED BY <1>1, <1>2, <1>3

\* What is to be shown when the scheduler names the instances that leave.
LEMMA LeavingHolds ==
    ASSUME NumInstances \in Nat, offset \in 0 .. NumInstances, NumInstances' = NumInstances,
           offset' = offset,
           \/ leaving' = {} /\ spc' # "migrated"
           \/ leaving' = offset .. NumInstances - 1 /\ spc' = "offloaded"
           \/ /\ \E n \in 1 .. NumInstances - offset - 1 : leaving' = offset .. offset + n - 1
              /\ spc' = "migrated",
           (stage = "pre" => offset = 0 /\ (spc # "begin" => policy.pre))'
    PROVE  Leaving'
<1>1. \E n \in 0 .. NumInstances - offset : leaving' = offset .. offset + n - 1
  BY SomeLeave
<1>2. spc' = "migrated" => \E n \in 1 .. NumInstances - offset - 1 : leaving' = offset .. offset + n - 1
  OBVIOUS
<1>3. spc' \notin {"migrated", "offloaded"} => leaving' = {}
  OBVIOUS
<1>4. \E n \in 0 .. NumInstances - offset :
         leaving' = offset .. offset + n - 1 /\ (spc' = "migrated" => n \in 1 .. NumInstances - offset - 1)
  <2>1. CASE spc' = "migrated"
    <3>1. PICK n \in 1 .. NumInstances - offset - 1 : leaving' = offset .. offset + n - 1
      BY <1>2, <2>1
    <3>2. n \in 0 .. NumInstances - offset
      BY <3>1
    <3> QED BY <3>1, <3>2
  <2>2. CASE spc' # "migrated"
    BY <1>1, <2>2
  <2> QED BY <2>1, <2>2
<1> QED BY <1>3, <1>4 DEF Leaving

LEMMA InitBase == Init => Base
<1> SUFFICES ASSUME Init PROVE Base
  OBVIOUS
<1>1. NumInstances \in Nat \ {0} /\ LastIter \in Nat /\ policy \in Policies
  BY Config DEF Init
<1>2. <<>> \in Seq(Message(Requests)) /\ <<>> \in Seq(Message(Responses))
  OBVIOUS
<1>3. TypeOK
  BY <1>1, <1>2, SchedulerAssumption DEF Init, TypeOK, SchedState, RolloutState
<1>4. Leaving
  <2>1. offset \in 0 .. NumInstances /\ leaving = {}
    BY <1>1 DEF Init
  <2>2. \E n \in 0 .. NumInstances - offset : leaving = offset .. offset + n - 1
    BY <1>1, <2>1, SomeLeave
  <2> QED BY <2>2 DEF Init, Leaving
<1> QED BY <1>3, <1>4 DEF Base

LEMMA BeginBase == Base /\ Begin => Base'
<1> SUFFICES ASSUME Base, Begin PROVE Base'
  OBVIOUS
<1>1. policy' = policy /\ Instance' = Instance /\ NumInstances' = NumInstances
  BY Steady DEF Begin
<1>2. req' \in [Instance -> Seq(Message(Requests))]
  BY ReportFacts DEF Base, TypeOK, Begin
<1>3. TypeOK'
  BY <1>1, <1>2 DEF Base, TypeOK, Begin, SchedState, status, actor
<1>4. Leaving'
  BY <1>1 DEF Base, Leaving, Begin
<1> QED BY <1>3, <1>4 DEF Base

LEMMA TakeReportsFacts ==
    ASSUME Base, TakeReports
    PROVE  /\ policy' = policy /\ Instance' = Instance /\ NumInstances' = NumInstances
           /\ resp' \in [Instance -> Seq(Message(Responses))]
           /\ \A i \in Instance : resp'[i] = IF i \in Alive THEN Tail(resp[i]) ELSE resp[i]
           /\ \A i \in Alive : resp[i] # <<>>
           /\ Alive \subseteq Instance
<1>1. policy' = policy /\ Gathered(Alive) /\ Gather(Alive)
  BY DEF TakeReports
<1>2. Alive \in SUBSET Instance
  BY AliveFacts DEF Base, TypeOK
<1> QED BY <1>1, <1>2, Steady, GatherType DEF Base, Gathered

LEMMA PreReportsBase == Base /\ PreReports => Base'
<1> SUFFICES ASSUME Base, PreReports PROVE Base'
  OBVIOUS
<1>1. /\ policy' = policy /\ Instance' = Instance /\ NumInstances' = NumInstances
      /\ resp' \in [Instance -> Seq(Message(Responses))]
  BY TakeReportsFacts DEF PreReports
<1>2. /\ policy.pre /\ offset = 0 /\ NumInstances \in Nat /\ leaving = {}
      /\ ActorGpus \div RolloutMP \in 1 .. NumInstances - offset - 1
  <2>1. policy.pre /\ offset = 0 /\ leaving = {} /\ policy \in Policies
    BY DEF Base, TypeOK, Leaving, PreReports, TakeReports
  <2> QED BY <2>1, Config
<1>3. /\ req' \in [Instance -> Seq(Message(Requests))] /\ spc' \in {"reports", "migrated"}
      /\ spc' = "reports" => leaving' = {}
      /\ spc' = "migrated" => \E n \in 1 .. NumInstances - offset - 1 : leaving' = offset .. offset + n - 1
      /\ leaving' \in SUBSET Instance
  <2>1. CASE MigrateOut(ActorGpus \div RolloutMP)
    BY <1>2, <2>1, MigrateOutFacts, AliveFacts DEF Base, TypeOK
  <2>2. CASE Scatter("Report", Alive, NoData) /\ UNCHANGED <<leaving, spc>>
    BY <1>2, <2>2, ReportFacts DEF PreReports, TakeReports
  <2> QED BY <2>1, <2>2 DEF PreReports
<1>4. TypeOK'
  BY <1>1, <1>3 DEF Base, TypeOK, PreReports, TakeReports, SchedState, status
<1>5. Leaving'
  <2>1. offset' = offset /\ offset \in 0 .. NumInstances
    BY <1>2 DEF PreReports, TakeReports
  <2> QED BY <1>1, <1>2, <1>3, <2>1, LeavingHolds
<1> QED BY <1>4, <1>5 DEF Base

LEMMA MainReportsBase == Base /\ MainReports => Base'
<1> SUFFICES ASSUME Base, MainReports PROVE Base'
  OBVIOUS
<1>1. /\ policy' = policy /\ Instance' = Instance /\ NumInstances' = NumInstances
      /\ resp' \in [Instance -> Seq(Message(Responses))]
  BY TakeReportsFacts DEF MainReports
<1>2. /\ NumInstances \in Nat /\ offset \in 0 .. NumInstances /\ leaving = {}
      /\ RunningTasks \in Nat
  BY Config, RunningTasksNat DEF Base, TypeOK, Leaving, MainReports, TakeReports
<1>3. /\ req' \in [Instance -> Seq(Message(Requests))] /\ spc' \in {"offloaded", "migrated", "inference"}
      /\ spc' = "inference" => leaving' = {}
      /\ spc' = "offloaded" => leaving' = offset .. NumInstances - 1
      /\ spc' = "migrated" => \E n \in 1 .. NumInstances - offset - 1 : leaving' = offset .. offset + n - 1
      /\ leaving' \in SUBSET Instance
  <2>1. CASE FinishAll("Finish") \/ FinishAll("Wait_For_Finish")
    BY <2>1, FinishAllFacts DEF Wait
  <2>2. CASE spc' = "inference" /\ UNCHANGED <<req, leaving>>
    BY <1>2, <2>2 DEF Base, TypeOK
  <2>3. CASE RunningTasks # 0 /\ ReleaseNeeded(RunningTasks) # 0 /\ MigrateOut(ReleaseNeeded(RunningTasks))
    <3>1. ReleaseNeeded(RunningTasks) \in 1 .. NumInstances - offset - 1
      BY <1>2, <2>3, ReleaseFacts DEF Base, TypeOK
    <3> QED BY <2>3, <3>1, MigrateOutFacts, AliveFacts DEF Base, TypeOK
  <2> QED BY <2>1, <2>2, <2>3 DEF MainReports
<1>4. TypeOK'
  BY <1>1, <1>3 DEF Base, TypeOK, MainReports, TakeReports, SchedState, status
<1>5. stage' = "main" /\ offset' = offset
  BY DEF MainReports, TakeReports
<1>6. Leaving'
  BY <1>1, <1>2, <1>3, <1>5, LeavingHolds
<1> QED BY <1>4, <1>6 DEF Base

LEMMA ActorReadyBase == Base /\ ActorReady => Base'
<1> SUFFICES ASSUME Base, ActorReady PROVE Base'
  OBVIOUS
<1>1. policy' = policy /\ Instance' = Instance /\ NumInstances' = NumInstances
  BY Steady DEF ActorReady
<1>2. NumInstances \in Nat /\ offset \in 0 .. NumInstances /\ leaving = {} /\ offset' = offset
  BY Config DEF Base, TypeOK, Leaving, ActorReady
<1>3. /\ req' \in [Instance -> Seq(Message(Requests))] /\ spc' \in {"offloaded", "reports", "inference"}
      /\ spc' # "offloaded" => leaving' = {}
      /\ spc' = "offloaded" => leaving' = offset .. NumInstances - 1
      /\ leaving' \in SUBSET Instance
  <2>1. CASE spc' = "inference" /\ UNCHANGED <<req, leaving>>
    BY <1>2, <2>1 DEF Base, TypeOK
  <2>2. CASE FinishAll("Finish")
    BY <2>2, FinishAllFacts DEF Wait
  <2>3. CASE spc' = "reports" /\ Scatter("Report", Alive, NoData) /\ UNCHANGED leaving
    BY <1>2, <2>3, ReportFacts
  <2> QED BY <2>1, <2>2, <2>3 DEF ActorReady
<1>4. TypeOK'
  BY <1>1, <1>3 DEF Base, TypeOK, ActorReady, SchedState, status
<1>5. Leaving'
  <2>1. stage' = stage /\ spc = "wait_actor" /\ (stage = "pre" => offset = 0 /\ policy.pre)
    BY DEF Base, Leaving, ActorReady
  <2> QED BY <1>1, <1>2, <1>3, <2>1, LeavingHolds
<1> QED BY <1>4, <1>5 DEF Base

\* Groups in the responses are handed to instances that stay.
Batches == UNION {Head(resp[i]).data : i \in leaving}

LEMMA MigratedFacts ==
    ASSUME Base, Migrated
    PROVE  /\ resp' \in [Instance -> Seq(Message(Responses))]
           /\ \A i \in Instance : resp'[i] = IF i \in leaving THEN Tail(resp[i]) ELSE resp[i]
           /\ \A i \in leaving : resp[i] # <<>>
           /\ Batches \in SUBSET Group
           /\ \E to \in [Batches -> Alive \ leaving] :
                /\ \A i \in Instance :
                      req'[i] = IF i \in leaving THEN Append(req[i], Info("Finish", {}, 0, 0))
                                ELSE IF {g \in Batches : to[g] = i} # {}
                                THEN Append(req[i], Info("Migrate_In", {g \in Batches : to[g] = i}, 0, 0))
                                ELSE req[i]
                /\ \A g \in Batches : to[g] \in Instance /\ to[g] \notin leaving /\ to[g] >= offset
           /\ req' \in [Instance -> Seq(Message(Requests))]
<1>1. Gathered(leaving) /\ Gather(leaving) /\ leaving \in SUBSET Instance /\ offset \in Nat
  BY Config DEF Migrated, Base, TypeOK
<1>2. /\ resp' \in [Instance -> Seq(Message(Responses))]
      /\ \A i \in Instance : resp'[i] = IF i \in leaving THEN Tail(resp[i]) ELSE resp[i]
      /\ \A i \in leaving : Head(resp[i]) \in Message(Responses)
  BY <1>1, GatherType DEF Base
<1>3. Batches \in SUBSET Group
  BY <1>2 DEF Batches, Message
<1>4. PICK to \in [Batches -> Alive \ leaving] :
        req' = [i \in Instance |->
                  IF i \in leaving THEN Append(req[i], Info("Finish", {}, 0, 0))
                  ELSE IF {g \in Batches : to[g] = i} # {}
                       THEN Append(req[i], Info("Migrate_In", {g \in Batches : to[g] = i}, 0, 0))
                  ELSE req[i]]
  <2> DEFINE given(to) == [i \in Instance |-> {g \in Batches : to[g] = i}]
  <2>1. PICK to \in [Batches -> Alive \ leaving] :
          req' = [i \in Instance |->
                    IF i \in leaving THEN Append(req[i], Info("Finish", {}, 0, 0))
                    ELSE IF given(to)[i] # {} THEN Append(req[i], Info("Migrate_In", given(to)[i], 0, 0))
                    ELSE req[i]]
    BY Zenon DEF Migrated, Batches
  <2>2. \A i \in Instance : given(to)[i] = {g \in Batches : to[g] = i}
    OBVIOUS
  <2> HIDE DEF given
  <2> QED BY <2>1, <2>2
<1>5. \A i \in Instance : {g \in Batches : to[g] = i} \in SUBSET Group
  BY <1>3
<1>6. /\ Info("Finish", {}, 0, 0) \in Message(Requests)
      /\ \A i \in Instance : Info("Migrate_In", {g \in Batches : to[g] = i}, 0, 0) \in Message(Requests)
  BY <1>5, InfoType DEF Requests, Wait
<1>7. \A i \in Instance : req[i] \in Seq(Message(Requests))
  BY DEF Base, TypeOK
<1>8. \A i \in Instance :
        /\ Append(req[i], Info("Finish", {}, 0, 0)) \in Seq(Message(Requests))
        /\ Append(req[i], Info("Migrate_In", {g \in Batches : to[g] = i}, 0, 0)) \in Seq(Message(Requests))
  BY <1>6, <1>7, AppendOne
<1>9. req' \in [Instance -> Seq(Message(Requests))]
  BY <1>4, <1>7, <1>8
<1>10. \A g \in Batches : to[g] \in Instance /\ to[g] \notin leaving /\ to[g] >= offset
  BY AliveFacts DEF Base, TypeOK
<1> QED BY <1>1, <1>2, <1>3, <1>4, <1>9, <1>10 DEF Gathered

LEMMA MigratedBase == Base /\ Migrated => Base'
<1> SUFFICES ASSUME Base, Migrated PROVE Base'
  OBVIOUS
<1>1. policy' = policy /\ Instance' = Instance /\ NumInstances' = NumInstances
  BY Steady DEF Migrated
<1>2. /\ resp' \in [Instance -> Seq(Message(Responses))]
      /\ req' \in [Instance -> Seq(Message(Requests))]
  BY MigratedFacts
<1>3. TypeOK'
  BY <1>1, <1>2 DEF Base, TypeOK, Migrated, SchedState, status
<1>4. Leaving'
  BY <1>1 DEF Base, Leaving, Migrated
<1> QED BY <1>3, <1>4 DEF Base

\* The instances that left are the next ones.
LEMMA OffloadedFacts ==
    ASSUME Base, Offloaded
    PROVE  /\ resp' \in [Instance -> Seq(Message(Responses))]
           /\ \A i \in Instance : resp'[i] = IF i \in leaving THEN Tail(resp[i]) ELSE resp[i]
           /\ \A i \in leaving : resp[i] # <<>>
           /\ offset' \in offset .. NumInstances /\ offset \in Nat /\ NumInstances \in Nat
           /\ Cardinality(leaving) = offset' - offset
           /\ leaving = offset .. offset' - 1
           /\ \A i \in Instance : i < offset' <=> i < offset \/ i \in leaving
           /\ leaving = Alive => offset' = NumInstances
<1>1. Gathered(leaving) /\ Gather(leaving) /\ leaving \in SUBSET Instance
        /\ offset' = offset + Cardinality(leaving)
  BY DEF Offloaded, Base, TypeOK
<1>2. offset \in 0 .. NumInstances /\ NumInstances \in Nat /\ policy \in Policies
  BY Config DEF Base, TypeOK
<1>3. PICK n \in 0 .. NumInstances - offset : leaving = offset .. offset + n - 1
  BY DEF Base, Leaving
<1>4. Cardinality(leaving) = n
  BY <1>2, <1>3, FS_Interval
<1>5. offset' = offset + n
  BY <1>1, <1>4
<1>6. \A i \in Instance : i < offset' <=> i < offset \/ i \in leaving
  BY <1>2, <1>3, <1>5, InstanceFacts
<1>7. leaving = Alive => offset' = NumInstances
  <2>1. Cardinality(Alive) = NumInstances - offset
    BY <1>2, AliveFacts
  <2> QED BY <1>2, <1>4, <1>5, <2>1
<1>8. leaving = offset .. offset' - 1 /\ Cardinality(leaving) = offset' - offset
  BY <1>2, <1>3, <1>4, <1>5
<1> QED BY <1>1, <1>2, <1>3, <1>5, <1>6, <1>7, <1>8, GatherType DEF Base, Gathered

LEMMA OffloadedBase == Base /\ Offloaded => Base'
<1> SUFFICES ASSUME Base, Offloaded PROVE Base'
  OBVIOUS
<1>1. policy' = policy /\ Instance' = Instance /\ NumInstances' = NumInstances
  BY Steady DEF Offloaded
<1>2. /\ resp' \in [Instance -> Seq(Message(Responses))]
      /\ offset' \in 0 .. NumInstances /\ NumInstances \in Nat /\ Cardinality(leaving) \in Nat
  BY OffloadedFacts
<1>3. avail' \in Nat
  <2>1. avail \in Nat /\ RolloutMP \in Nat
    BY SchedulerAssumption DEF Base, TypeOK
  <2>2. Cardinality(leaving) * RolloutMP \in Nat
    BY <1>2, <2>1
  <2> QED BY <2>1, <2>2 DEF Offloaded
<1>4. leaving' = {} /\ spc' \in {"wait_actor", "inference"} /\ stage' = "main"
  BY DEF Offloaded
<1>5. TypeOK'
  BY <1>1, <1>2, <1>3, <1>4 DEF Base, TypeOK, Offloaded, SchedState, status
<1>6. \E n \in 0 .. NumInstances' - offset' : leaving' = offset' .. offset' + n - 1
  <2>1. offset' \in Nat /\ offset' <= NumInstances /\ NumInstances \in Nat
    BY <1>2
  <2>2. \E n \in 0 .. NumInstances - offset' : {} = offset' .. offset' + n - 1
    BY <2>1, NoneLeaves
  <2> QED BY <1>1, <1>4, <2>2
<1>7. Leaving'
  BY <1>4, <1>6 DEF Leaving
<1> QED BY <1>5, <1>7 DEF Base

LEMMA InferenceTurnBase == Base /\ InferenceTurn => Base'
<1> SUFFICES ASSUME Base, InferenceTurn PROVE Base'
  OBVIOUS
<1>1. policy' = policy /\ Instance' = Instance /\ NumInstances' = NumInstances
  BY Steady DEF InferenceTurn
<1>2. avail' \in Nat
  BY SchedulerAssumption DEF Base, TypeOK, InferenceTurn
<1>3. TypeOK'
  BY <1>1, <1>2 DEF Base, TypeOK, InferenceTurn, SchedState, status
<1>4. Leaving'
  BY <1>1 DEF Base, Leaving, InferenceTurn
<1> QED BY <1>3, <1>4 DEF Base

\* The actor is given a valid size, and no more GPUs than there are.
LEMMA ActorTurnFacts ==
    ASSUME Base, ActorTurn
    PROVE  /\ actorDp' \in ValidDp /\ actorDp' * ActorMP \in Nat \ {0} /\ actorDp * ActorMP \in Nat \ {0}
           /\ areq' = Append(areq, IF actorDp' * ActorMP = actorDp * ActorMP THEN 0 ELSE actorDp' * ActorMP)
           /\ iter = LastIter => actorDp' * ActorMP = ActorGpus /\ avail' = avail
           /\ iter # LastIter => /\ actorDp' * ActorMP = actorDp * ActorMP + Growth(avail)
                                 /\ avail' = avail - Growth(avail)
                                 /\ Growth(avail) \in 0 .. avail
<1>1. /\ actorDp \in ValidDp /\ avail \in Nat /\ ActorMP \in Nat \ {0} /\ ActorGpus \in Nat \ {0}
      /\ ActorGpus % ActorMP = 0 /\ ActorGpus \div ActorMP \in ValidDp
      /\ ValidDp \subseteq Nat \ {0}
  BY SchedulerAssumption DEF Base, TypeOK, ValidDp
<1>2. \A d \in Nat \ {0} : d * ActorMP \in Nat \ {0}
  BY <1>1
<1>3. CASE iter = LastIter
  <2>1. (ActorGpus \div ActorMP) * ActorMP = ActorGpus
    BY <1>1, DivideExact
  <2> QED BY <1>1, <1>2, <1>3, <2>1 DEF ActorTurn
<1>4. CASE iter # LastIter
  <2>1. PICK d \in ValidDp : d >= actorDp /\ Growth(avail) = (d - actorDp) * ActorMP
    BY <1>1, GrowthFacts
  <2>2. Growth(avail) \in 0 .. avail
    BY <1>1, GrowthFacts
  <2>3. actorDp * ActorMP + Growth(avail) = d * ActorMP
    BY <1>1, <2>1
  <2>4. (d * ActorMP) \div ActorMP = d
    BY <1>1, DivideProduct
  <2>5. actorDp' = d
    BY <1>4, <2>3, <2>4 DEF ActorTurn
  <2> QED BY <1>1, <1>2, <1>4, <2>2, <2>3, <2>5 DEF ActorTurn
<1> QED BY <1>3, <1>4

LEMMA ActorTurnBase == Base /\ ActorTurn => Base'
<1> SUFFICES ASSUME Base, ActorTurn PROVE Base'
  OBVIOUS
<1>1. policy' = policy /\ Instance' = Instance /\ NumInstances' = NumInstances
  BY Steady DEF ActorTurn
<1>2. actorDp' \in ValidDp /\ avail' \in Nat
  BY ActorTurnFacts DEF Base, TypeOK
<1>3. iter' \in 0 .. LastIter
  BY Config DEF Base, TypeOK, ActorTurn
<1>4. TypeOK'
  BY <1>1, <1>2, <1>3 DEF Base, TypeOK, ActorTurn, SchedState, status
<1>5. Leaving'
  BY <1>1 DEF Base, Leaving, ActorTurn
<1> QED BY <1>4, <1>5 DEF Base

LEMMA SchedulerBase == Base /\ Scheduler => Base'
BY BeginBase, PreReportsBase, MainReportsBase, ActorReadyBase, MigratedBase, OffloadedBase,
   InferenceTurnBase, ActorTurnBase DEF Scheduler

\* The steps of the instances, of inference and of the actor keep the types.

LEMMA LeavingKept ==
    ASSUME Base, policy' = policy, UNCHANGED sched
    PROVE  /\ Leaving' /\ Instance' = Instance
           /\ policy' \in Policies /\ (stage \in {"pre", "main"})' /\ (spc \in SchedState)'
           /\ (iter \in 0 .. LastIter /\ offset \in 0 .. NumInstances /\ leaving \in SUBSET Instance)'
           /\ (avail \in Nat /\ actorDp \in ValidDp)'
<1>1. Instance' = Instance /\ NumInstances' = NumInstances
  BY Steady
<1> QED BY <1>1 DEF Base, TypeOK, Leaving, sched

LEMMA UpdateType ==
    ASSUME NEW S, NEW f \in [Instance -> S], NEW i \in Instance, NEW e \in S
    PROVE  [f EXCEPT ![i] = e] \in [Instance -> S]
OBVIOUS

\* rollout() after a group: it goes on with the rest, or waits for more.
LEMMA AfterGroupType ==
    ASSUME TypeOK, NEW i \in Instance, NEW g, AfterGroup(i, g)
    PROVE  /\ running' \in [Instance -> SUBSET Group] /\ returned' \in [Instance -> SUBSET Group]
           /\ watched' \in [Instance -> SUBSET Group] /\ rpc' \in [Instance -> RolloutState]
<1>1. running[i] \ {g} \in SUBSET Group /\ returned[i] \ {g} \in SUBSET Group
  BY DEF TypeOK
<1>2. running' \in [Instance -> SUBSET Group] /\ returned' \in [Instance -> SUBSET Group]
  BY <1>1, UpdateType DEF AfterGroup, TypeOK
<1>3. CASE returned[i] # {g}
  BY <1>2, <1>3 DEF AfterGroup, TypeOK
<1>4. CASE returned[i] = {g}
  <2>1. (IF running[i] \ {g} = {} THEN "parked" ELSE "waiting") \in RolloutState
    BY DEF RolloutState
  <2>2. rpc' = [rpc EXCEPT ![i] = IF running[i] \ {g} = {} THEN "parked" ELSE "waiting"]
        /\ watched' = [watched EXCEPT ![i] = running[i] \ {g}]
    BY <1>4 DEF AfterGroup
  <2>3. rpc' \in [Instance -> RolloutState]
    BY <2>1, <2>2 DEF TypeOK
  <2>4. watched' \in [Instance -> SUBSET Group]
    BY <1>1, <2>2 DEF TypeOK
  <2> QED BY <1>2, <2>3, <2>4
<1> QED BY <1>3, <1>4

LEMMA RolloutBase == ASSUME NEW i \in Instance PROVE Base /\ Rollout(i) => Base'
<1> SUFFICES ASSUME Base, Rollout(i) PROVE Base'
  OBVIOUS
<1>0. TypeOK
  BY DEF Base
<1>1. CASE StartRollout(i)
  <2>1. Batch(i) \in SUBSET Group
    BY DEF Batch
  <2>2. /\ running' \in [Instance -> SUBSET Group] /\ watched' \in [Instance -> SUBSET Group]
        /\ rpc' \in [Instance -> RolloutState]
    <3>1. "waiting" \in RolloutState /\ "failed" \in RolloutState
      BY DEF RolloutState
    <3>2. CASE running[i] \cup done[i] \cup aborted[i] = {}
      <4>1. rpc' = [rpc EXCEPT ![i] = "waiting"] /\ running' = [running EXCEPT ![i] = Batch(i)]
              /\ watched' = [watched EXCEPT ![i] = Batch(i)]
        BY <1>1, <3>2 DEF StartRollout
      <4>2. rpc' \in [Instance -> RolloutState]
        BY <1>0, <3>1, <4>1 DEF TypeOK
      <4> QED BY <1>0, <1>1, <2>1, <3>2, <4>1, <4>2 DEF TypeOK, StartRollout
    <3>3. CASE running[i] \cup done[i] \cup aborted[i] # {}
      <4>1. rpc' = [rpc EXCEPT ![i] = "failed"]
        BY <1>1, <3>3 DEF StartRollout
      <4>2. rpc' \in [Instance -> RolloutState]
        BY <1>0, <3>1, <4>1 DEF TypeOK
      <4> QED BY <1>0, <1>1, <3>3, <4>1, <4>2 DEF TypeOK, StartRollout
    <3> QED BY <3>2, <3>3
  <2> QED BY <1>0, <1>1, <2>2, LeavingKept DEF Base, TypeOK, StartRollout
<1>2. CASE Collect(i)
  BY <1>0, <1>2, LeavingKept DEF Base, TypeOK, Collect, RolloutState
<1>3. CASE Wake(i)
  <2>1. /\ watched' \in [Instance -> SUBSET Group] /\ rpc' \in [Instance -> RolloutState]
        /\ event' \in [Instance -> BOOLEAN]
    <3>1. "waiting" \in RolloutState /\ "offloading" \in RolloutState
      BY DEF RolloutState
    <3>2. CASE running[i] # {}
      <4>1. rpc' = [rpc EXCEPT ![i] = "waiting"]
        BY <1>3, <3>2 DEF Wake
      <4>2. rpc' \in [Instance -> RolloutState]
        BY <1>0, <3>1, <4>1 DEF TypeOK
      <4> QED BY <1>0, <1>3, <3>2, <4>1, <4>2 DEF TypeOK, Wake
    <3>3. CASE running[i] = {}
      <4>1. rpc' = [rpc EXCEPT ![i] = "offloading"]
        BY <1>3, <3>3 DEF Wake
      <4>2. rpc' \in [Instance -> RolloutState]
        BY <1>0, <3>1, <4>1 DEF TypeOK
      <4> QED BY <1>0, <1>3, <3>3, <4>1, <4>2 DEF TypeOK, Wake
    <3> QED BY <3>2, <3>3
  <2>2. aborted' \in [Instance -> SUBSET Group] /\ done' \in [Instance -> SUBSET Group]
    BY <1>0, <1>3 DEF TypeOK, Wake
  <2> QED BY <1>0, <1>3, <2>1, <2>2, LeavingKept DEF Base, TypeOK, Wake
<1>4. CASE Offload(i)
  <2>1. Info("Offloaded", {}, 0, 0) \in Message(Responses)
    BY InfoType DEF Responses
  <2>2. resp' \in [Instance -> Seq(Message(Responses))]
    BY <1>0, <1>4, <2>1, RespondType DEF Offload
  <2> QED BY <1>0, <1>4, <2>2, LeavingKept DEF Base, TypeOK, Offload, RolloutState, status
<1>5. ASSUME NEW g \in Group, SendResult(i, g) PROVE Base'
  BY <1>0, <1>5, LeavingKept DEF Base, TypeOK, SendResult, status
<1>6. ASSUME NEW g \in Group, MarkDone(i, g) PROVE Base'
  <2>1. AfterGroup(i, g)
    BY <1>6 DEF MarkDone
  <2>2. /\ running' \in [Instance -> SUBSET Group] /\ returned' \in [Instance -> SUBSET Group]
        /\ watched' \in [Instance -> SUBSET Group] /\ rpc' \in [Instance -> RolloutState]
    BY <1>0, <2>1, AfterGroupType
  <2>3. done' \in [Instance -> SUBSET Group]
    BY <1>0, <1>6 DEF TypeOK, MarkDone
  <2> QED BY <1>0, <1>6, <2>2, <2>3, LeavingKept DEF Base, TypeOK, MarkDone
<1>7. ASSUME NEW g \in Group, MarkAborted(i, g) PROVE Base'
  <2>1. AfterGroup(i, g)
    BY <1>7 DEF MarkAborted
  <2>2. /\ running' \in [Instance -> SUBSET Group] /\ returned' \in [Instance -> SUBSET Group]
        /\ watched' \in [Instance -> SUBSET Group] /\ rpc' \in [Instance -> RolloutState]
    BY <1>0, <2>1, AfterGroupType
  <2>3. aborted' \in [Instance -> SUBSET Group]
    BY <1>0, <1>7 DEF TypeOK, MarkAborted
  <2> QED BY <1>0, <1>7, <2>2, <2>3, LeavingKept DEF Base, TypeOK, MarkAborted
<1> QED BY <1>1, <1>2, <1>3, <1>4, <1>5, <1>6, <1>7 DEF Rollout

LEMMA MainLoopBase == ASSUME NEW i \in Instance PROVE Base /\ MainLoop(i) => Base'
<1> SUFFICES ASSUME Base, MainLoop(i) PROVE Base'
  OBVIOUS
<1>0. TypeOK
  BY DEF Base
<1>1. CASE HandleReport(i)
  <2>1. /\ Cardinality(running[i] \cup done[i]) \in Nat
        /\ Cardinality({g \in running[i] : task[g] = "generating"}) \in Nat
    BY <1>0, InstanceFacts DEF TypeOK
  <2>2. Info("Report", {}, Cardinality(running[i] \cup done[i]),
             Cardinality({g \in running[i] : task[g] = "generating"})) \in Message(Responses)
    BY <2>1, InfoType DEF Responses
  <2>3. /\ resp' \in [Instance -> Seq(Message(Responses))]
        /\ req' \in [Instance -> Seq(Message(Requests))]
    BY <1>0, <1>1, <2>2, RespondType, TakeType DEF HandleReport
  <2> QED BY <1>0, <1>1, <2>3, LeavingKept DEF Base, TypeOK, HandleReport, status
<1>2. CASE HandleMigrateIn(i)
  <2>1. req' \in [Instance -> Seq(Message(Requests))] /\ Head(req[i]).data \in SUBSET Group
    BY <1>0, <1>2, TakeType DEF HandleMigrateIn, Message
  <2> QED BY <1>0, <1>2, <2>1, LeavingKept DEF Base, TypeOK, HandleMigrateIn
<1>3. CASE HandleDrain(i)
  <2>1. req' \in [Instance -> Seq(Message(Requests))]
    BY <1>0, <1>3, TakeType DEF HandleDrain
  <2> QED BY <1>0, <1>3, <2>1, LeavingKept DEF Base, TypeOK, HandleDrain, status
<1>4. CASE Drained(i)
  <2>1. Info("Migrate_Out", aborted[i], 0, 0) \in Message(Responses)
    <3>1. aborted[i] \in SUBSET Group
      BY <1>0 DEF TypeOK
    <3> QED BY <3>1, InfoType DEF Responses
  <2>2. resp' \in [Instance -> Seq(Message(Responses))]
    BY <1>0, <1>4, <2>1, RespondType DEF Drained, TypeOK
  <2> QED BY <1>0, <1>4, <2>2, LeavingKept DEF Base, TypeOK, Drained
<1> QED BY <1>1, <1>2, <1>3, <1>4 DEF MainLoop

LEMMA BaseStep == Base /\ [Next]_vars => Base'
<1> SUFFICES ASSUME Base, [Next]_vars PROVE Base'
  OBVIOUS
<1>0. TypeOK
  BY DEF Base
<1>1. CASE UNCHANGED vars
  BY <1>0, <1>1, LeavingKept DEF Base, TypeOK, vars, status
<1>2. ASSUME NEW g \in Group, Generate(g) PROVE Base'
  BY <1>0, <1>2, LeavingKept DEF Base, TypeOK, Generate, status
<1>3. CASE FinishInference
  BY <1>0, <1>3, LeavingKept DEF Base, TypeOK, FinishInference, status
<1>4. CASE BeginTraining
  BY <1>0, <1>4, LeavingKept DEF Base, TypeOK, BeginTraining, status
<1>5. CASE Train
  BY <1>0, <1>5, LeavingKept DEF Base, TypeOK, Train, status
<1>6. CASE Scale
  BY <1>0, <1>6, LeavingKept DEF Base, TypeOK, Scale, status
<1> QED BY <1>1, <1>2, <1>3, <1>4, <1>5, <1>6, SchedulerBase, RolloutBase, MainLoopBase DEF Next, Idle

-----------------------------------------------------------------------------
(* What is under way between the scheduler and an instance.                *)

Engaged(i) == QueueOf(i) /\ RolloutOf(i) /\ PhaseOf(i)

\* All that rollout() and main_loop() of an instance read and write but the queues.
Local(i) ==
    <<rpc[i], lpc[i], running[i], aborted[i], done[i], watched[i], returned[i], event[i]>>

LEMMA LocalKept ==
    ASSUME NEW i, UNCHANGED Local(i)
    PROVE  /\ RolloutOf(i)' <=> RolloutOf(i)
           /\ Open(i)' <=> Open(i)
           /\ Told(i)' <=> Told(i)
           /\ lpc'[i] = lpc[i] /\ aborted'[i] = aborted[i] /\ rpc'[i] = rpc[i] /\ event'[i] = event[i]
BY DEF Local, RolloutOf, Open, Told

\* What the scheduler waits for does not change when others move.
LEMMA WaitKept ==
    ASSUME policy' = policy, UNCHANGED sched
    PROVE  WaitedFor' = WaitedFor /\ Ask' = Ask /\ Leaving' = Leaving /\ spc' = spc /\ offset' = offset
<1>1. NumInstances' = NumInstances
  BY Steady
<1>2. WaitedFor' = WaitedFor /\ Ask' = Ask
  BY <1>1 DEF sched, WaitedFor, Ask, Alive
<1> QED BY <1>1, <1>2 DEF sched, Leaving

LEMMA OtherKept ==
    ASSUME policy' = policy, UNCHANGED sched, NEW j, Engaged(j), UNCHANGED Local(j),
           req'[j] = req[j], resp'[j] = resp[j]
    PROVE  Engaged(j)'
<1>1. WaitedFor' = WaitedFor /\ Ask' = Ask /\ spc' = spc /\ offset' = offset
  BY WaitKept
<1>2. /\ RolloutOf(j)' /\ (Open(j)' <=> Open(j)) /\ (Told(j)' <=> Told(j))
      /\ lpc'[j] = lpc[j] /\ aborted'[j] = aborted[j] /\ rpc'[j] = rpc[j] /\ event'[j] = event[j]
  BY LocalKept DEF Engaged
<1>3. QueueOf(j)'
  BY DEF Engaged, QueueOf
<1>4. PhaseOf(j)'
  BY <1>1, <1>2 DEF Engaged, PhaseOf, Unasked, ToTake, AtWork, Responded, Gone, Asked, OnlyGroups
<1> QED BY <1>2, <1>3, <1>4 DEF Engaged

\* A request is appended for an instance that has nothing else to answer.
LEMMA AskFacts ==
    ASSUME Base, NEW i \in Instance, QueueOf(i), OnlyGroups(i), NEW kind \in Requests, kind # "Migrate_In",
           req'[i] = Append(req[i], Info(kind, {}, 0, 0)), resp'[i] = <<>>
    PROVE  /\ QueueOf(i)' /\ req'[i] # <<>> /\ req'[i][Len(req'[i])].action = kind
           /\ req[i] = <<>> => Len(req'[i]) = 1
<1>1. /\ Info(kind, {}, 0, 0) \in Message(Requests) /\ Info(kind, {}, 0, 0).action = kind
      /\ Info(kind, {}, 0, 0).data = {}
  BY InfoType
<1>2. req[i] \in Seq(Message(Requests))
  BY DEF Base, TypeOK
<1>3. /\ Len(req'[i]) = Len(req[i]) + 1 /\ Len(req[i]) \in Nat /\ req'[i] # <<>>
      /\ \A k \in 1 .. Len(req[i]) + 1 : req'[i][k] =
           IF k <= Len(req[i]) THEN req[i][k] ELSE Info(kind, {}, 0, 0)
  BY <1>1, <1>2, AppendOne
<1>4. \A k \in 1 .. Len(req[i]) : req'[i][k] = req[i][k] /\ req[i][k].action = "Migrate_In" /\ k = 1
        /\ req[i][k].data # {}
  BY <1>3 DEF QueueOf, OnlyGroups
<1>5. req'[i][Len(req[i]) + 1] = Info(kind, {}, 0, 0)
  BY <1>3
<1>6. ASSUME NEW k \in 1 .. Len(req'[i])
      PROVE  IF req'[i][k].action = "Migrate_In" THEN k = 1 /\ req'[i][k].data # {}
                                                 ELSE k = Len(req'[i]) /\ req'[i][k].data = {}
  <2>1. CASE k = Len(req[i]) + 1
    BY <1>1, <1>3, <1>5, <2>1
  <2>2. CASE k \in 1 .. Len(req[i])
    BY <1>4, <2>2
  <2> QED BY <1>3, <2>1, <2>2
<1>7. Len(resp'[i]) = 0
  OBVIOUS
<1> QED BY <1>1, <1>3, <1>5, <1>6, <1>7 DEF QueueOf

\* The queue of requests stays as it is, and no response is left.
LEMMA QueueKept ==
    ASSUME NEW i, QueueOf(i), req'[i] = req[i], resp'[i] = resp[i] \/ resp'[i] = <<>>
    PROVE  QueueOf(i)' /\ (OnlyGroups(i) => OnlyGroups(i)')
BY DEF QueueOf, OnlyGroups

\* A response that was gathered was the only one.
LEMMA GatheredFacts ==
    ASSUME Base, NEW i \in Instance, Engaged(i), resp[i] # <<>>, resp'[i] = Tail(resp[i])
    PROVE  /\ resp'[i] = <<>> /\ i \in WaitedFor /\ Responded(i) /\ ~(i < offset)
           /\ req[i] = <<>> /\ OnlyGroups(i) /\ Head(resp[i]) = resp[i][1] /\ Len(resp[i]) = 1
<1>1. resp[i] \in Seq(Message(Responses))
  BY DEF Base, TypeOK
<1>2. Len(resp[i]) <= 1 /\ Len(resp[i]) \in Nat
  BY <1>1, TailOne DEF Engaged, QueueOf
<1>3. Len(resp[i]) = 1
  <2>1. Len(resp[i]) \in Nat \ {0}
    BY <1>1, EmptySeq
  <2>2. \A n \in Nat \ {0} : n <= 1 => n = 1
    OBVIOUS
  <2> QED BY <1>2, <2>1, <2>2
<1>4. resp'[i] = <<>> /\ Head(resp[i]) = resp[i][1]
  BY <1>1, <1>3, TailOne
<1>5. i \in WaitedFor /\ Responded(i) /\ ~(i < offset)
  BY DEF Engaged, PhaseOf, Gone, Unasked, ToTake, AtWork
<1>6. req[i] = <<>>
  BY <1>5 DEF Responded
<1>7. OnlyGroups(i)
  BY <1>6 DEF OnlyGroups
<1> QED BY <1>3, <1>4, <1>5, <1>6, <1>7

-----------------------------------------------------------------------------
\* The steps of the scheduler.

\* An instance that has not been asked anything, or has just answered.
Quiet(i) ==
    QueueOf(i) /\ OnlyGroups(i) /\ RolloutOf(i) /\ lpc[i] = "idle" /\ Open(i) /\ aborted[i] = {}
      /\ ~(i < offset)

LEMMA AskedNow ==
    ASSUME Base, NEW i \in Instance, Quiet(i), UNCHANGED Local(i), UNCHANGED offset, resp'[i] = <<>>,
           NEW kind \in Requests, kind # "Migrate_In", req'[i] = Append(req[i], Info(kind, {}, 0, 0)),
           i \in WaitedFor', kind \in Ask', spc' = "migrated" => req[i] = <<>>
    PROVE  Engaged(i)'
<1>1. RolloutOf(i)' /\ Open(i)' /\ lpc'[i] = "idle" /\ aborted'[i] = {}
  BY LocalKept DEF Quiet
<1>2. /\ QueueOf(i)' /\ req'[i] # <<>> /\ req'[i][Len(req'[i])].action = kind
      /\ req[i] = <<>> => Len(req'[i]) = 1
  BY AskFacts DEF Quiet
<1>3. ToTake(i)'
  BY <1>1, <1>2 DEF ToTake, Asked
<1>4. PhaseOf(i)'
  BY <1>3 DEF PhaseOf, Quiet
<1> QED BY <1>1, <1>2, <1>4 DEF Engaged

LEMMA LeftAlone ==
    ASSUME NEW i, Quiet(i), UNCHANGED Local(i), UNCHANGED offset, resp'[i] = <<>>, req'[i] = req[i],
           i \notin WaitedFor', spc' = "migrated" => req[i] = <<>>
    PROVE  Engaged(i)'
<1>1. RolloutOf(i)' /\ Open(i)' /\ lpc'[i] = "idle" /\ aborted'[i] = {}
  BY LocalKept DEF Quiet
<1>2. QueueOf(i)' /\ OnlyGroups(i)'
  BY QueueKept DEF Quiet
<1>3. Unasked(i)'
  BY <1>1, <1>2 DEF Unasked
<1>4. PhaseOf(i)'
  BY <1>3 DEF PhaseOf, Quiet
<1> QED BY <1>1, <1>2, <1>4 DEF Engaged

LEMMA StillGone ==
    ASSUME NEW i, Engaged(i), i < offset, (i < offset)', UNCHANGED Local(i), req'[i] = req[i],
           resp'[i] = resp[i]
    PROVE  Engaged(i)'
<1>1. RolloutOf(i)' /\ Gone(i)'
  BY LocalKept DEF Engaged, PhaseOf, Gone
<1>2. QueueOf(i)'
  BY QueueKept DEF Engaged
<1> QED BY <1>1, <1>2 DEF Engaged, PhaseOf

LEMMA NotAsked ==
    ASSUME NEW i, Engaged(i), i \notin WaitedFor, ~(i < offset)
    PROVE  Quiet(i) /\ resp[i] = <<>> /\ (spc = "migrated" => req[i] = <<>>)
BY DEF Engaged, PhaseOf, Unasked, Quiet

LEMMA ReportIn ==
    ASSUME Base, NEW i \in Instance, Engaged(i), spc = "reports", resp[i] # <<>>, resp'[i] = Tail(resp[i])
    PROVE  Quiet(i) /\ resp'[i] = <<>> /\ req[i] = <<>>
<1>1. /\ resp'[i] = <<>> /\ Responded(i) /\ ~(i < offset) /\ req[i] = <<>> /\ OnlyGroups(i)
  BY GatheredFacts
<1> QED BY <1>1 DEF Engaged, Responded, Quiet

LEMMA BeginEngaged == Base /\ Requested /\ Begin => Requested'
<1> SUFFICES ASSUME Base, Requested, Begin PROVE Requested'
  OBVIOUS
<1>1. /\ policy' = policy /\ Instance' = Instance /\ NumInstances' = NumInstances /\ offset' = offset
      /\ leaving = {} /\ leaving' = {} /\ resp' = resp /\ spc = "begin"
      /\ \A i \in Instance : UNCHANGED Local(i)
  BY Steady DEF Begin, Base, Leaving, status, Local
<1>2. Leaving'
  BY BeginBase DEF Base
<1>3. WaitedFor = {} /\ Alive' = Alive /\ \A i \in Instance : i \in Alive <=> ~(i < offset)
  BY <1>1, AliveFacts, InstanceFacts DEF WaitedFor, Alive, Base, TypeOK
<1>4. ASSUME NEW i \in Instance PROVE Engaged(i)'
  <2>1. Engaged(i) /\ UNCHANGED Local(i) /\ UNCHANGED offset
    BY <1>1 DEF Requested, Engaged
  <2>2. CASE i < offset
    <3>1. req'[i] = req[i]
      BY <1>1, <1>3, <2>2, ReportFacts DEF Begin
    <3> QED BY <1>1, <2>1, <2>2, <3>1, StillGone
  <2>3. CASE ~(i < offset)
    <3>1. Quiet(i) /\ resp'[i] = <<>>
      BY <1>1, <1>3, <2>1, <2>3, NotAsked
    <3>2. CASE policy.pre
      <4>1. req'[i] = Append(req[i], Info("Report", {}, 0, 0)) /\ spc' = "reports"
        BY <1>3, <2>3, <3>2, ReportFacts DEF Begin
      <4>2. i \in WaitedFor' /\ "Report" \in Ask' /\ "Report" \in Requests
        BY <1>3, <2>3, <4>1 DEF WaitedFor, Ask, Requests
      <4> QED BY <2>1, <3>1, <4>1, <4>2, AskedNow
    <3>3. CASE ~policy.pre
      <4>1. req'[i] = req[i] /\ spc' = "wait_actor" /\ i \notin WaitedFor'
        BY <1>1, <3>3 DEF Begin, WaitedFor
      <4> QED BY <2>1, <3>1, <4>1, LeftAlone
    <3> QED BY <3>2, <3>3
  <2> QED BY <2>2, <2>3
<1> QED BY <1>1, <1>2, <1>4 DEF Requested, Engaged

\* After a report: the next is asked for, some or all leave, or nothing is asked.
AsksNext ==
    /\ spc' = "reports"
    /\ \A i \in Instance : req'[i] = IF i \in Alive THEN Append(req[i], Info("Report", {}, 0, 0)) ELSE req[i]
AsksSome ==
    /\ spc' = "migrated" /\ leaving' \subseteq Alive
    /\ \A i \in Instance :
          req'[i] = IF i \in leaving' THEN Append(req[i], Info("Migrate_Out", {}, 0, 0)) ELSE req[i]
AsksAll ==
    /\ spc' = "offloaded" /\ leaving' = Alive
    /\ \E kind \in Wait : \A i \in Instance :
          req'[i] = IF i \in leaving' THEN Append(req[i], Info(kind, {}, 0, 0)) ELSE req[i]
AsksNone == spc' = "inference" /\ leaving' = {} /\ req' = req

LEMMA ReportsAsk ==
    ASSUME Base, PreReports \/ MainReports
    PROVE  AsksNext \/ AsksSome \/ AsksAll \/ AsksNone
<1>1. leaving = {} /\ spc = "reports"
  BY DEF PreReports, MainReports, TakeReports, Base, Leaving
<1>2. ASSUME Scatter("Report", Alive, NoData), UNCHANGED <<leaving, spc>> PROVE AsksNext
  BY <1>1, <1>2, ReportFacts DEF AsksNext
<1>3. ASSUME NEW n \in 1 .. NumInstances - offset - 1, MigrateOut(n) PROVE AsksSome
  BY <1>3, MigrateOutFacts DEF AsksSome
<1>4. ASSUME NEW kind \in Wait, FinishAll(kind) PROVE AsksAll
  BY <1>4, FinishAllFacts DEF AsksAll
<1>5. ASSUME spc' = "inference", UNCHANGED <<req, leaving>> PROVE AsksNone
  BY <1>1, <1>5 DEF AsksNone
<1>6. CASE PreReports
  <2>1. ActorGpus \div RolloutMP \in 1 .. NumInstances - offset - 1
    <3>1. policy.pre /\ offset = 0 /\ policy \in Policies
      BY <1>1, <1>6 DEF PreReports, Base, TypeOK, Leaving
    <3> QED BY <3>1, Config
  <2> QED BY <1>2, <1>3, <1>6, <2>1 DEF PreReports
<1>7. CASE MainReports
  <2>1. RunningTasks # 0 /\ ReleaseNeeded(RunningTasks) # 0
          => ReleaseNeeded(RunningTasks) \in 1 .. NumInstances - offset - 1
    <3>1. RunningTasks \in Nat
      BY <1>7, RunningTasksNat DEF MainReports, TakeReports, Base
    <3> QED BY <3>1, ReleaseFacts DEF Base, TypeOK
  <2> QED BY <1>3, <1>4, <1>5, <1>7, <2>1 DEF MainReports, Wait
<1> QED BY <1>6, <1>7

LEMMA ReportsEngaged == Base /\ Requested /\ (PreReports \/ MainReports) => Requested'
<1> SUFFICES ASSUME Base, Requested, PreReports \/ MainReports PROVE Requested'
  OBVIOUS
<1>1. /\ policy' = policy /\ Instance' = Instance /\ NumInstances' = NumInstances /\ offset' = offset
      /\ leaving = {} /\ spc = "reports" /\ TakeReports
      /\ \A i \in Instance : UNCHANGED Local(i)
      /\ \A i \in Instance : resp'[i] = IF i \in Alive THEN Tail(resp[i]) ELSE resp[i]
      /\ \A i \in Alive : resp[i] # <<>>
  BY Steady, TakeReportsFacts DEF PreReports, MainReports, TakeReports, Base, Leaving, status, Local
<1>2. Leaving' /\ Base'
  BY PreReportsBase, MainReportsBase DEF Base
<1>3. WaitedFor = Alive /\ Alive' = Alive /\ \A i \in Instance : i \in Alive <=> ~(i < offset)
  BY <1>1, AliveFacts, InstanceFacts DEF WaitedFor, Alive, Base, TypeOK
<1>4. AsksNext \/ AsksSome \/ AsksAll \/ AsksNone
  BY ReportsAsk
<1>5. ASSUME NEW i \in Instance PROVE Engaged(i)'
  <2>1. Engaged(i) /\ UNCHANGED Local(i) /\ UNCHANGED offset
    BY <1>1 DEF Requested, Engaged
  <2>2. CASE i < offset
    <3>1. req'[i] = req[i] /\ resp'[i] = resp[i]
      BY <1>1, <1>3, <1>4, <2>2 DEF AsksNext, AsksSome, AsksAll, AsksNone
    <3> QED BY <1>1, <2>1, <2>2, <3>1, StillGone
  <2>3. CASE ~(i < offset)
    <3>1. Quiet(i) /\ resp'[i] = <<>> /\ req[i] = <<>>
      BY <1>1, <1>3, <2>1, <2>3, ReportIn
    <3>2. ASSUME NEW kind \in Requests, kind # "Migrate_In", i \in WaitedFor', kind \in Ask',
                 req'[i] = Append(req[i], Info(kind, {}, 0, 0))
          PROVE  Engaged(i)'
      BY <2>1, <3>1, <3>2, AskedNow
    <3>3. ASSUME i \notin WaitedFor', req'[i] = req[i] PROVE Engaged(i)'
      BY <2>1, <3>1, <3>3, LeftAlone
    <3>4. CASE spc' = "reports"
      <4>1. i \in WaitedFor' /\ "Report" \in Ask' /\ "Report" \in Requests
        BY <1>3, <2>3, <3>4 DEF WaitedFor, Ask, Requests
      <4> QED BY <1>3, <1>4, <2>3, <3>2, <3>4, <4>1 DEF AsksNext, AsksSome, AsksAll, AsksNone
    <3>5. CASE spc' = "migrated"
      <4>1. WaitedFor' = leaving' /\ "Migrate_Out" \in Ask' /\ "Migrate_Out" \in Requests
        BY <3>5 DEF WaitedFor, Ask, Requests
      <4> QED BY <1>4, <3>2, <3>3, <3>5, <4>1 DEF AsksNext, AsksSome, AsksAll, AsksNone
    <3>6. CASE spc' = "offloaded"
      <4>1. WaitedFor' = leaving' /\ \A kind \in Wait : kind \in Ask' /\ kind \in Requests
              /\ kind # "Migrate_In"
        BY <3>6 DEF WaitedFor, Ask, Requests, Wait
      <4> QED BY <1>3, <1>4, <2>3, <3>2, <3>6, <4>1 DEF AsksNext, AsksSome, AsksAll, AsksNone
    <3>7. CASE spc' = "inference"
      <4>1. i \notin WaitedFor' /\ req'[i] = req[i]
        BY <1>4, <3>7 DEF WaitedFor, AsksNext, AsksSome, AsksAll, AsksNone
      <4> QED BY <3>3, <4>1
    <3> QED BY <1>4, <3>4, <3>5, <3>6, <3>7 DEF AsksNext, AsksSome, AsksAll, AsksNone
  <2> QED BY <2>2, <2>3
<1> QED BY <1>1, <1>2, <1>5 DEF Requested, Engaged

LEMMA ActorReadyEngaged == Base /\ Requested /\ ActorReady => Requested'
<1> SUFFICES ASSUME Base, Requested, ActorReady PROVE Requested'
  OBVIOUS
<1>1. /\ policy' = policy /\ Instance' = Instance /\ NumInstances' = NumInstances /\ offset' = offset
      /\ leaving = {} /\ spc = "wait_actor" /\ resp' = resp
      /\ \A i \in Instance : UNCHANGED Local(i)
  BY Steady DEF ActorReady, Base, Leaving, status, Local
<1>2. Leaving' /\ Base'
  BY ActorReadyBase DEF Base
<1>3. WaitedFor = {} /\ Alive' = Alive /\ \A i \in Instance : i \in Alive <=> ~(i < offset)
  BY <1>1, AliveFacts, InstanceFacts DEF WaitedFor, Alive, Base, TypeOK
<1>4. \/ /\ spc' = "reports"
         /\ \A i \in Instance :
              req'[i] = IF i \in Alive THEN Append(req[i], Info("Report", {}, 0, 0)) ELSE req[i]
      \/ /\ spc' = "offloaded" /\ leaving' = Alive
         /\ \A i \in Instance :
              req'[i] = IF i \in Alive THEN Append(req[i], Info("Finish", {}, 0, 0)) ELSE req[i]
      \/ spc' = "inference" /\ leaving' = {} /\ req' = req
  <2>1. CASE spc' = "inference" /\ UNCHANGED <<req, leaving>>
    BY <1>1, <2>1
  <2>2. CASE FinishAll("Finish")
    BY <2>2, FinishAllFacts DEF Wait
  <2>3. CASE spc' = "reports" /\ Scatter("Report", Alive, NoData)
    BY <2>3, ReportFacts
  <2> QED BY <2>1, <2>2, <2>3 DEF ActorReady
<1>5. ASSUME NEW i \in Instance PROVE Engaged(i)'
  <2>1. Engaged(i) /\ UNCHANGED Local(i) /\ UNCHANGED offset
    BY <1>1 DEF Requested, Engaged
  <2>2. CASE i < offset
    <3>1. req'[i] = req[i] /\ resp'[i] = resp[i]
      BY <1>1, <1>3, <1>4, <2>2
    <3> QED BY <1>1, <2>1, <2>2, <3>1, StillGone
  <2>3. CASE ~(i < offset)
    <3>1. Quiet(i) /\ resp'[i] = <<>>
      BY <1>1, <1>3, <2>1, <2>3, NotAsked
    <3>2. CASE spc' = "reports"
      <4>1. i \in WaitedFor' /\ "Report" \in Ask' /\ "Report" \in Requests
        BY <1>3, <2>3, <3>2 DEF WaitedFor, Ask, Requests
      <4> QED BY <1>3, <1>4, <2>1, <2>3, <3>1, <3>2, <4>1, AskedNow
    <3>3. CASE spc' = "offloaded"
      <4>1. i \in WaitedFor' /\ "Finish" \in Ask' /\ "Finish" \in Requests
        BY <1>3, <1>4, <2>3, <3>3 DEF WaitedFor, Ask, Requests, Wait
      <4> QED BY <1>3, <1>4, <2>1, <2>3, <3>1, <3>3, <4>1, AskedNow
    <3>4. CASE spc' = "inference"
      <4>1. i \notin WaitedFor' /\ req'[i] = req[i]
        BY <1>4, <3>4 DEF WaitedFor
      <4> QED BY <2>1, <3>1, <3>4, <4>1, LeftAlone
    <3> QED BY <1>4, <3>2, <3>3, <3>4
  <2> QED BY <2>2, <2>3
<1> QED BY <1>1, <1>2, <1>5 DEF Requested, Engaged

\* The first that an instance is asked after others were migrated to it is none of the scheduler's
\* earlier requests.
LEMMA MigratedEngaged == Base /\ Requested /\ Migrated => Requested'
<1> SUFFICES ASSUME Base, Requested, Migrated PROVE Requested'
  OBVIOUS
<1>1. /\ policy' = policy /\ Instance' = Instance /\ offset' = offset
      /\ leaving' = leaving /\ spc = "migrated" /\ spc' = "offloaded"
      /\ \A i \in Instance : UNCHANGED Local(i)
  BY Steady DEF Migrated, Base, status, Local
<1>2. Leaving' /\ Base'
  BY MigratedBase DEF Base
<1>3. WaitedFor = leaving /\ WaitedFor' = leaving /\ "Finish" \in Ask' /\ "Finish" \in Requests
  BY <1>1 DEF WaitedFor, Ask, Wait, Requests
<1>4. /\ \A i \in Instance : resp'[i] = IF i \in leaving THEN Tail(resp[i]) ELSE resp[i]
      /\ \A i \in leaving : resp[i] # <<>>
      /\ leaving \subseteq Instance
  BY MigratedFacts DEF Base, TypeOK
<1>5. PICK to \in [Batches -> Alive \ leaving] :
        /\ \A i \in Instance :
              req'[i] = IF i \in leaving THEN Append(req[i], Info("Finish", {}, 0, 0))
                        ELSE IF {g \in Batches : to[g] = i} # {}
                        THEN Append(req[i], Info("Migrate_In", {g \in Batches : to[g] = i}, 0, 0))
                        ELSE req[i]
        /\ \A g \in Batches : to[g] \in Instance /\ to[g] \notin leaving /\ to[g] >= offset
  BY MigratedFacts
<1>6. ASSUME NEW i \in Instance PROVE Engaged(i)'
  <2>1. Engaged(i) /\ UNCHANGED Local(i) /\ UNCHANGED offset
    BY <1>1 DEF Requested, Engaged
  <2>2. CASE i \in leaving
    <3>1. /\ resp'[i] = <<>> /\ Responded(i) /\ ~(i < offset) /\ req[i] = <<>> /\ OnlyGroups(i)
      BY <1>4, <2>1, <2>2, GatheredFacts
    <3>2. RolloutOf(i)' /\ Open(i)' /\ lpc'[i] = "idle"
      BY <1>1, <2>1, <3>1, LocalKept DEF Engaged, Responded
    <3>3. QueueOf(i)' /\ req'[i] # <<>> /\ req'[i][Len(req'[i])].action = "Finish"
      BY <1>3, <1>5, <2>1, <2>2, <3>1, AskFacts DEF Engaged
    <3>4. ToTake(i)'
      BY <1>1, <1>3, <3>1, <3>2, <3>3 DEF ToTake, Asked
    <3> QED BY <1>1, <1>3, <2>2, <3>1, <3>2, <3>3, <3>4 DEF Engaged, PhaseOf
  <2>3. CASE i \notin leaving /\ i < offset
    <3>1. {g \in Batches : to[g] = i} = {}
      <4>1. offset \in Nat /\ i \in Nat
        BY InstanceFacts, Config DEF Base, TypeOK
      <4> QED BY <1>5, <2>3, <4>1
    <3>2. req'[i] = req[i] /\ resp'[i] = resp[i]
      BY <1>4, <1>5, <2>3, <3>1
    <3> QED BY <1>1, <2>1, <2>3, <3>2, StillGone
  <2>4. CASE i \notin leaving /\ ~(i < offset)
    <3>1. Quiet(i) /\ resp'[i] = <<>> /\ req[i] = <<>> /\ i \notin WaitedFor'
      BY <1>1, <1>3, <1>4, <2>1, <2>4, NotAsked
    <3>2. CASE req'[i] = req[i]
      BY <1>1, <2>1, <3>1, <3>2, LeftAlone
    <3>3. CASE req'[i] # req[i]
      <4> DEFINE given == {g \in Batches : to[g] = i}
      <4>1. req'[i] = Append(<<>>, Info("Migrate_In", given, 0, 0)) /\ given # {}
        BY <1>5, <2>4, <3>1, <3>3
      <4>2. given \in SUBSET Group
        BY MigratedFacts
      <4> HIDE DEF given
      <4>3. /\ Info("Migrate_In", given, 0, 0) \in Message(Requests)
            /\ Info("Migrate_In", given, 0, 0).action = "Migrate_In"
            /\ Info("Migrate_In", given, 0, 0).data = given
        BY <4>2, InfoType DEF Requests
      <4>4. Len(req'[i]) = 1 /\ req'[i][1] = Info("Migrate_In", given, 0, 0)
        BY <4>1, <4>3
      <4>5. \A k \in 1 .. Len(req'[i]) : k = 1 /\ req'[i][k] = Info("Migrate_In", given, 0, 0)
        BY <4>4
      <4>6. QueueOf(i)' /\ OnlyGroups(i)'
        BY <3>1, <4>1, <4>3, <4>5 DEF QueueOf, OnlyGroups
      <4>7. RolloutOf(i)' /\ Open(i)' /\ lpc'[i] = "idle" /\ aborted'[i] = {}
        BY <2>1, <3>1, LocalKept DEF Quiet
      <4>8. Unasked(i)'
        BY <1>1, <3>1, <4>6, <4>7 DEF Unasked
      <4> QED BY <1>1, <2>4, <3>1, <4>6, <4>7, <4>8 DEF Engaged, PhaseOf
    <3> QED BY <3>2, <3>3
  <2> QED BY <2>2, <2>3, <2>4
<1> QED BY <1>1, <1>2, <1>6 DEF Requested, Engaged

LEMMA OffloadedEngaged == Base /\ Requested /\ Offloaded => Requested'
<1> SUFFICES ASSUME Base, Requested, Offloaded PROVE Requested'
  OBVIOUS
<1>1. /\ policy' = policy /\ Instance' = Instance /\ leaving' = {} /\ req' = req
      /\ spc = "offloaded" /\ spc' \in {"wait_actor", "inference"}
      /\ \A i \in Instance : UNCHANGED Local(i)
  BY Steady DEF Offloaded, Base, status, Local
<1>2. Leaving' /\ Base'
  BY OffloadedBase DEF Base
<1>3. WaitedFor = leaving /\ WaitedFor' = {}
  BY <1>1 DEF WaitedFor
<1>4. /\ \A i \in Instance : resp'[i] = IF i \in leaving THEN Tail(resp[i]) ELSE resp[i]
      /\ \A i \in leaving : resp[i] # <<>>
      /\ \A i \in Instance : i < offset' <=> i < offset \/ i \in leaving
  BY OffloadedFacts
<1>5. ASSUME NEW i \in Instance PROVE Engaged(i)'
  <2>1. Engaged(i) /\ UNCHANGED Local(i) /\ req'[i] = req[i]
    BY <1>1 DEF Requested, Engaged
  <2>2. CASE i \in leaving
    <3>1. resp'[i] = <<>> /\ Responded(i) /\ req[i] = <<>>
      BY <1>4, <2>1, <2>2, GatheredFacts
    <3>2. RolloutOf(i)' /\ Gone(i)'
      BY <1>1, <2>1, <3>1, LocalKept DEF Engaged, Responded, Gone
    <3>3. QueueOf(i)'
      BY <2>1, <3>1, QueueKept DEF Engaged
    <3> QED BY <1>4, <2>2, <3>2, <3>3 DEF Engaged, PhaseOf
  <2>3. CASE i \notin leaving /\ i < offset
    <3>1. resp'[i] = resp[i] /\ i < offset'
      BY <1>4, <2>3
    <3> QED BY <2>1, <2>3, <3>1, StillGone
  <2>4. CASE i \notin leaving /\ ~(i < offset)
    <3>1. Unasked(i) /\ resp'[i] = <<>> /\ ~(i < offset')
      BY <1>3, <1>4, <2>1, <2>4 DEF Engaged, PhaseOf, Unasked
    <3>2. RolloutOf(i)' /\ Open(i)' /\ lpc'[i] = "idle" /\ aborted'[i] = {}
      BY <2>1, <3>1, LocalKept DEF Engaged, Unasked
    <3>3. QueueOf(i)' /\ OnlyGroups(i)'
      BY <2>1, <3>1, QueueKept DEF Engaged, Unasked
    <3>4. Unasked(i)'
      BY <1>1, <3>1, <3>2, <3>3 DEF Unasked
    <3> QED BY <1>3, <3>1, <3>2, <3>3, <3>4 DEF Engaged, PhaseOf
  <2> QED BY <2>2, <2>3, <2>4
<1> QED BY <1>1, <1>2, <1>5 DEF Requested, Engaged

LEMMA TurnEngaged == Base /\ Requested /\ (InferenceTurn \/ ActorTurn) => Requested'
<1> SUFFICES ASSUME Base, Requested, InferenceTurn \/ ActorTurn PROVE Requested'
  OBVIOUS
<1>1. /\ policy' = policy /\ Instance' = Instance /\ leaving = {} /\ leaving' = {} /\ req' = req
      /\ resp' = resp
      /\ spc \in {"inference", "actor"} /\ spc' \in {"actor", "wait_actor", "stopped"} /\ offset' = offset
      /\ \A i \in Instance : UNCHANGED Local(i)
  BY Steady DEF InferenceTurn, ActorTurn, Base, Leaving, status, Local
<1>2. Leaving' /\ Base'
  BY InferenceTurnBase, ActorTurnBase DEF Base
<1>3. WaitedFor = {} /\ WaitedFor' = {}
  BY <1>1 DEF WaitedFor
<1>4. ASSUME NEW i \in Instance PROVE Engaged(i)'
  <2>1. Engaged(i) /\ UNCHANGED Local(i) /\ req'[i] = req[i] /\ resp'[i] = resp[i] /\ UNCHANGED offset
    BY <1>1 DEF Requested, Engaged
  <2>2. CASE i < offset
    BY <1>1, <2>1, <2>2, StillGone
  <2>3. CASE ~(i < offset)
    <3>1. Quiet(i) /\ resp'[i] = <<>> /\ i \notin WaitedFor'
      BY <1>3, <2>1, <2>3, NotAsked
    <3> QED BY <1>1, <2>1, <3>1, LeftAlone
  <2> QED BY <2>2, <2>3
<1> QED BY <1>1, <1>2, <1>4 DEF Requested, Engaged

LEMMA SchedulerEngaged == Base /\ Requested /\ Scheduler => Requested'
BY BeginEngaged, ReportsEngaged, ActorReadyEngaged, MigratedEngaged, OffloadedEngaged, TurnEngaged
   DEF Scheduler

-----------------------------------------------------------------------------
\* The steps of the instances.

\* Only what the other instances show is left to do when one of them has moved.
LEMMA OneMoves ==
    ASSUME Base, Base', Requested, policy' = policy, UNCHANGED sched, NEW i \in Instance, Engaged(i)',
           \A j \in Instance \ {i} : UNCHANGED Local(j) /\ req'[j] = req[j] /\ resp'[j] = resp[j]
    PROVE  Requested'
<1>1. Instance' = Instance /\ Leaving'
  BY Steady DEF Base
<1>2. \A j \in Instance \ {i} : Engaged(j)'
  BY OtherKept DEF Requested, Engaged
<1> QED BY <1>1, <1>2 DEF Requested, Engaged

\* A step of rollout() that leaves the queues alone: in the phase that the instance is in, the
\* scheduler may still hand it groups (Open), or rollout() was told that the step is over (Told).
LEMMA PhaseKept ==
    ASSUME policy' = policy, UNCHANGED sched, NEW i, Engaged(i), rpc[i] \notin {"finished", "failed"},
           req'[i] = req[i], resp'[i] = resp[i], lpc'[i] = lpc[i],
           Open(i) => Open(i)',
           ~Open(i) /\ Told(i) => Told(i)',
           aborted[i] = {} => aborted'[i] = {} \/ lpc[i] = "migrate_out"
    PROVE  QueueOf(i)' /\ PhaseOf(i)'
<1>1. WaitedFor' = WaitedFor /\ Ask' = Ask /\ spc' = spc /\ offset' = offset
  BY WaitKept
<1>2. QueueOf(i)'
  BY DEF Engaged, QueueOf
<1>3. ~(Open(i) /\ Told(i))
  BY DEF Open, Told, Past
<1>4. PhaseOf(i)'
  <2>1. CASE i < offset
    BY <2>1 DEF Engaged, PhaseOf, Gone
  <2>2. CASE ~(i < offset) /\ i \notin WaitedFor
    BY <1>1, <2>2 DEF Engaged, PhaseOf, Unasked, OnlyGroups
  <2>3. CASE ~(i < offset) /\ i \in WaitedFor /\ ToTake(i)
    BY <1>1, <2>3 DEF Engaged, PhaseOf, ToTake, Asked
  <2>4. CASE ~(i < offset) /\ i \in WaitedFor /\ AtWork(i)
    BY <1>1, <1>3, <2>4 DEF Engaged, PhaseOf, AtWork
  <2>5. CASE ~(i < offset) /\ i \in WaitedFor /\ Responded(i)
    BY <1>1, <2>5 DEF Engaged, PhaseOf, Responded
  <2> QED BY <2>1, <2>2, <2>3, <2>4, <2>5 DEF Engaged, PhaseOf
<1> QED BY <1>2, <1>4

\* What the one step does to the variables of its instance.
LEMMA StartFacts ==
    ASSUME Base, NEW i \in Instance, StartRollout(i)
    PROVE  /\ rpc[i] = "idle"
           /\ IF running[i] \cup done[i] \cup aborted[i] = {}
              THEN running'[i] = Batch(i) /\ watched'[i] = Batch(i) /\ rpc'[i] = "waiting"
              ELSE running'[i] = running[i] /\ watched'[i] = watched[i] /\ rpc'[i] = "failed"
           /\ lpc'[i] = lpc[i] /\ aborted'[i] = aborted[i] /\ done'[i] = done[i]
           /\ returned'[i] = returned[i] /\ event'[i] = event[i]
           /\ \A j \in Instance \ {i} : UNCHANGED Local(j)
BY DEF StartRollout, Base, TypeOK, Local

LEMMA StartEngaged == ASSUME NEW i \in Instance PROVE Base /\ Requested /\ StartRollout(i) => Requested'
<1> SUFFICES ASSUME Base, Requested, StartRollout(i) PROVE Requested'
  OBVIOUS
<1>1. Base' /\ policy' = policy /\ UNCHANGED sched /\ req' = req /\ resp' = resp /\ Engaged(i)
  BY RolloutBase DEF Rollout, StartRollout, Requested, Engaged
<1>2. Batch(i) # {} /\ done[i] = {} /\ aborted[i] = {}
  BY <1>1, BatchNotEmpty, StartFacts DEF Base, TypeOK, Engaged, RolloutOf
<1>3. RolloutOf(i)'
  BY <1>1, <1>2, StartFacts DEF Engaged, RolloutOf, Past
<1>4. Open(i) => Open(i)'
  BY <1>2, StartFacts DEF Open, Past
<1>5. Told(i) => Told(i)'
  BY <1>2, StartFacts DEF Told
<1>6. Engaged(i)'
  BY <1>1, <1>3, <1>4, <1>5, StartFacts, PhaseKept DEF Engaged
<1> QED BY <1>1, <1>6, StartFacts, OneMoves

LEMMA CollectEngaged == ASSUME NEW i \in Instance PROVE Base /\ Requested /\ Collect(i) => Requested'
<1> SUFFICES ASSUME Base, Requested, Collect(i) PROVE Requested'
  OBVIOUS
<1>1. Base' /\ policy' = policy /\ UNCHANGED sched /\ req' = req /\ resp' = resp /\ Engaged(i)
  BY RolloutBase DEF Rollout, Collect, Requested, Engaged
<1>2. /\ rpc[i] = "waiting" /\ rpc'[i] = "handling" /\ returned'[i] # {} /\ returned'[i] \subseteq watched[i]
      /\ running'[i] = running[i] /\ watched'[i] = watched[i] /\ event'[i] = event[i] /\ lpc'[i] = lpc[i]
      /\ aborted'[i] = aborted[i] /\ done'[i] = done[i]
      /\ \A j \in Instance \ {i} : UNCHANGED Local(j)
  BY DEF Collect, Base, TypeOK, Local
<1>3. RolloutOf(i)'
  BY <1>1, <1>2 DEF Engaged, RolloutOf, Past
<1>4. Open(i) => Open(i)'
  BY <1>2 DEF Open, Past
<1>5. Told(i) => Told(i)'
  BY <1>2 DEF Told
<1>6. Engaged(i)'
  BY <1>1, <1>2, <1>3, <1>4, <1>5, PhaseKept DEF Engaged
<1> QED BY <1>1, <1>2, <1>6, OneMoves

LEMMA WakeEngaged == ASSUME NEW i \in Instance PROVE Base /\ Requested /\ Wake(i) => Requested'
<1> SUFFICES ASSUME Base, Requested, Wake(i) PROVE Requested'
  OBVIOUS
<1>1. Base' /\ policy' = policy /\ UNCHANGED sched /\ req' = req /\ resp' = resp /\ Engaged(i)
  BY RolloutBase DEF Rollout, Wake, Requested, Engaged
<1>2. /\ rpc[i] = "parked" /\ event[i] /\ ~event'[i]
      /\ running'[i] = running[i] /\ returned'[i] = returned[i] /\ lpc'[i] = lpc[i]
      /\ IF running[i] # {}
         THEN /\ rpc'[i] = "waiting" /\ watched'[i] = running[i]
              /\ aborted'[i] = aborted[i] /\ done'[i] = done[i]
         ELSE /\ rpc'[i] = "offloading" /\ aborted'[i] = {} /\ done'[i] = {}
              /\ watched'[i] = watched[i]
      /\ \A j \in Instance \ {i} : UNCHANGED Local(j)
  BY DEF Wake, Base, TypeOK, Local
<1>3. RolloutOf(i)'
  BY <1>1, <1>2 DEF Engaged, RolloutOf, Past
<1>4. Open(i) => Open(i)'
  BY <1>2 DEF Open, Past
<1>5. Told(i) => Told(i)'
  BY <1>2 DEF Told
<1>6. Engaged(i)'
  BY <1>1, <1>2, <1>3, <1>4, <1>5, PhaseKept DEF Engaged
<1> QED BY <1>1, <1>2, <1>6, OneMoves

\* rollout() has told the scheduler that it is through.
LEMMA OffloadEngaged == ASSUME NEW i \in Instance PROVE Base /\ Requested /\ Offload(i) => Requested'
<1> SUFFICES ASSUME Base, Requested, Offload(i) PROVE Requested'
  OBVIOUS
<1>1. Base' /\ policy' = policy /\ UNCHANGED sched /\ req' = req /\ Engaged(i)
  BY RolloutBase DEF Rollout, Offload, Requested, Engaged
<1>2. /\ rpc[i] = "offloading" /\ rpc'[i] = "finished"
      /\ running'[i] = running[i] /\ watched'[i] = watched[i] /\ event'[i] = event[i] /\ lpc'[i] = lpc[i]
      /\ aborted'[i] = aborted[i] /\ done'[i] = done[i] /\ returned'[i] = returned[i]
      /\ \A j \in Instance \ {i} : UNCHANGED Local(j)
  BY DEF Offload, Base, TypeOK, Local, status
<1>3. RolloutOf(i)'
  BY <1>1, <1>2 DEF Engaged, RolloutOf, Past
<1>4. /\ ~(i < offset) /\ i \in WaitedFor /\ AtWork(i) /\ spc = "offloaded" /\ lpc[i] = "idle" /\ Told(i)
  BY <1>1, <1>2 DEF Engaged, PhaseOf, Gone, Unasked, ToTake, AtWork, Responded, Open, Past
<1>5. /\ Info("Offloaded", {}, 0, 0) \in Message(Responses)
      /\ Info("Offloaded", {}, 0, 0).action = "Offloaded"
      /\ Info("Offloaded", {}, 0, 0).data = {}
  BY InfoType DEF Responses
<1>6. /\ resp'[i] = Append(resp[i], Info("Offloaded", {}, 0, 0)) /\ resp[i] = <<>>
      /\ \A j \in Instance \ {i} : resp'[j] = resp[j]
  BY <1>4, <1>5, RespondType DEF Offload, Base, AtWork
<1>7. Len(resp'[i]) = 1 /\ resp'[i] # <<>> /\ resp'[i][1] = Info("Offloaded", {}, 0, 0)
  BY <1>5, <1>6
<1>8. \A k \in 1 .. Len(resp'[i]) : resp'[i][k].data = {}
  BY <1>5, <1>7
<1>9. QueueOf(i)'
  BY <1>1, <1>7, <1>8 DEF Engaged, QueueOf
<1>10. Responded(i)'
  BY <1>1, <1>2, <1>4, <1>5, <1>7, WaitKept DEF AtWork, Told, Responded
<1>11. Engaged(i)'
  BY <1>1, <1>3, <1>4, <1>9, <1>10, WaitKept DEF Engaged, PhaseOf
<1> QED BY <1>1, <1>2, <1>6, <1>11, OneMoves

LEMMA AfterGroupFacts ==
    ASSUME Base, NEW i \in Instance, NEW g \in returned[i], AfterGroup(i, g)
    PROVE  /\ running'[i] = running[i] \ {g} /\ returned'[i] = returned[i] \ {g}
           /\ returned'[i] # {} => rpc'[i] = rpc[i] /\ watched'[i] = watched[i]
           /\ returned'[i] = {} => /\ watched'[i] = running'[i]
                                   /\ rpc'[i] = IF running'[i] = {} THEN "parked" ELSE "waiting"
           /\ \A j \in Instance \ {i} : /\ running'[j] = running[j] /\ returned'[j] = returned[j]
                                        /\ rpc'[j] = rpc[j] /\ watched'[j] = watched[j]
<1>1. running'[i] = running[i] \ {g} /\ returned'[i] = returned[i] \ {g}
  BY DEF Base, TypeOK, AfterGroup
<1>2. returned'[i] = {} <=> returned[i] = {g}
  BY <1>1
<1>3. CASE returned[i] # {g}
  BY <1>1, <1>2, <1>3 DEF Base, TypeOK, AfterGroup
<1>4. CASE returned[i] = {g}
  BY <1>1, <1>2, <1>4 DEF Base, TypeOK, AfterGroup
<1> QED BY <1>3, <1>4

\* rollout() is through with one of the groups that were returned to it.
LEMMA AfterGroupEngaged ==
    ASSUME Base, Base', Requested, NEW i \in Instance, NEW g \in returned[i], AfterGroup(i, g),
           rpc[i] = "handling", policy' = policy, UNCHANGED sched,
           req' = req, resp' = resp, lpc' = lpc, event' = event,
           \A j \in Instance \ {i} : aborted'[j] = aborted[j] /\ done'[j] = done[j],
           aborted[i] = {} => aborted'[i] = {} \/ lpc[i] = "migrate_out"
    PROVE  Requested'
<1>1. Engaged(i)
  BY DEF Requested, Engaged
<1>2. /\ running'[i] = running[i] \ {g} /\ returned'[i] = returned[i] \ {g}
      /\ returned'[i] # {} => rpc'[i] = rpc[i] /\ watched'[i] = watched[i]
      /\ returned'[i] = {} => /\ watched'[i] = running'[i]
                              /\ rpc'[i] = IF running'[i] = {} THEN "parked" ELSE "waiting"
      /\ \A j \in Instance \ {i} : /\ running'[j] = running[j] /\ returned'[j] = returned[j]
                                   /\ rpc'[j] = rpc[j] /\ watched'[j] = watched[j]
  BY AfterGroupFacts
<1>3. returned[i] \subseteq running[i] /\ ~(rpc[i] \in Past)
  BY <1>1 DEF Engaged, RolloutOf, Past
<1>4. rpc'[i] \in {"handling", "waiting", "parked"}
  BY <1>2
<1>5. RolloutOf(i)'
  BY <1>2, <1>3, <1>4 DEF RolloutOf, Past
<1>6. Open(i) => Open(i)'
  BY <1>4 DEF Open, Past
<1>7. Told(i) => Told(i)'
  BY <1>2, <1>4 DEF Told
<1>8. Engaged(i)'
  BY <1>1, <1>5, <1>6, <1>7, PhaseKept DEF Engaged
<1>9. \A j \in Instance \ {i} : UNCHANGED Local(j)
  BY <1>2 DEF Local
<1> QED BY <1>8, <1>9, OneMoves

LEMMA MarkEngaged ==
    ASSUME NEW i \in Instance, NEW g \in Group
    PROVE  Base /\ Requested /\ GroupsKept /\ (MarkDone(i, g) \/ MarkAborted(i, g)) => Requested'
<1> SUFFICES ASSUME Base, Requested, GroupsKept, MarkDone(i, g) \/ MarkAborted(i, g) PROVE Requested'
  OBVIOUS
<1>1. /\ Base' /\ policy' = policy /\ UNCHANGED sched /\ req' = req /\ resp' = resp
      /\ lpc' = lpc /\ event' = event /\ rpc[i] = "handling" /\ g \in returned[i] /\ AfterGroup(i, g)
  BY RolloutBase DEF Rollout, MarkDone, MarkAborted
<1>2. g \in running[i]
  BY <1>1 DEF Requested, RolloutOf
<1>3. /\ \A j \in Instance \ {i} : aborted'[j] = aborted[j] /\ done'[j] = done[j]
      /\ aborted[i] = {} => aborted'[i] = {} \/ lpc[i] = "migrate_out"
  <2>1. CASE MarkDone(i, g)
    BY <2>1 DEF MarkDone, Base, TypeOK
  <2>2. CASE MarkAborted(i, g)
    <3>1. lpc[i] = "migrate_out"
      BY <1>2, <2>2 DEF MarkAborted, GroupsKept, GroupAt
    <3> QED BY <2>2, <3>1 DEF MarkAborted, Base, TypeOK
  <2> QED BY <2>1, <2>2
<1> QED BY <1>1, <1>3, AfterGroupEngaged

\* Nothing that the instances show changes.
LEMMA NothingMoves ==
    ASSUME Base, Base', Requested, policy' = policy, UNCHANGED <<sched, req, resp, rpc, lpc, status>>
    PROVE  Requested'
<1>1. Instance' = Instance /\ Leaving'
  BY Steady DEF Base
<1>2. \A j \in Instance : UNCHANGED Local(j)
  BY DEF Local, status
<1>3. \A j \in Instance : Engaged(j)'
  BY <1>2, OtherKept DEF Requested, Engaged
<1> QED BY <1>1, <1>3 DEF Requested, Engaged

LEMMA RolloutEngaged ==
    ASSUME NEW i \in Instance PROVE Base /\ Requested /\ GroupsKept /\ Rollout(i) => Requested'
<1> SUFFICES ASSUME Base, Requested, GroupsKept, Rollout(i) PROVE Requested'
  OBVIOUS
<1>1. ASSUME NEW g \in Group, SendResult(i, g) PROVE Requested'
  <2>1. Base' /\ policy' = policy /\ UNCHANGED <<sched, req, resp, rpc, lpc, status>>
    BY <1>1, RolloutBase DEF Rollout, SendResult
  <2> QED BY <2>1, NothingMoves
<1> QED BY <1>1, StartEngaged, CollectEngaged, WakeEngaged, OffloadEngaged, MarkEngaged DEF Rollout

-----------------------------------------------------------------------------
\* main_loop() of an instance takes a request only from one that has been asked, or sent groups.

LEMMA TakeFacts ==
    ASSUME Base, NEW i \in Instance, Engaged(i), NEW kind, Take(i, kind)
    PROVE  /\ req[i] # <<>> /\ req[i][1].action = kind /\ resp[i] = <<>> /\ lpc[i] = "idle"
           /\ ~(i < offset) /\ Open(i)
           /\ kind # "Migrate_In" => /\ ToTake(i) /\ i \in WaitedFor /\ kind \in Ask /\ req'[i] = <<>>
           /\ kind = "Migrate_In" => /\ Unasked(i) \/ (i \in WaitedFor /\ ToTake(i) /\ Len(req[i]) > 1)
                                     /\ req[i][1].data # {} /\ req[i][1].data \subseteq Group
                                     /\ Head(req[i]) = req[i][1]
           /\ req'[i] = Tail(req[i]) /\ req[i] \in Seq(Message(Requests)) /\ Len(req[i]) \in Nat \ {0}
           /\ \A j \in Instance \ {i} : req'[j] = req[j]
<1>1. req[i] \in Seq(Message(Requests)) /\ req[i] # <<>> /\ Head(req[i]).action = kind
  BY DEF Base, TypeOK, Take
<1>2. /\ req'[i] = Tail(req[i]) /\ \A j \in Instance \ {i} : req'[j] = req[j]
      /\ Head(req[i]) \in Message(Requests)
  BY TakeType DEF Base
<1>3. Len(req[i]) \in Nat \ {0}
  BY <1>1, EmptySeq
<1>4. Head(req[i]) = req[i][1] /\ req[i][1].action = kind /\ req[i][1].data \subseteq Group
  BY <1>1, <1>2, TailOne DEF Message
<1>5. /\ resp[i] = <<>> /\ lpc[i] = "idle" /\ ~(i < offset) /\ Open(i)
      /\ Unasked(i) \/ (i \in WaitedFor /\ ToTake(i))
  BY <1>1 DEF Engaged, PhaseOf, Gone, Unasked, ToTake, AtWork, Responded
<1>6. CASE kind # "Migrate_In"
  <2>1. Len(req[i]) = 1
    <3>1. 1 \in 1 .. Len(req[i])
      BY <1>3
    <3> QED BY <1>4, <1>6, <3>1 DEF Engaged, QueueOf
  <2>2. ~Unasked(i)
    BY <1>3, <1>4, <1>6 DEF Unasked, OnlyGroups
  <2>3. i \in WaitedFor /\ ToTake(i) /\ kind \in Ask
    BY <1>4, <1>5, <2>1, <2>2 DEF ToTake, Asked
  <2>4. req'[i] = <<>>
    BY <1>1, <1>2, <2>1, TailOne
  <2> QED BY <1>1, <1>2, <1>3, <1>4, <1>5, <1>6, <2>3, <2>4
<1>7. CASE kind = "Migrate_In"
  <2>1. req[i][1].data # {}
    BY <1>3, <1>4, <1>7 DEF Engaged, QueueOf
  <2>2. ToTake(i) => Len(req[i]) > 1
    <3>1. "Migrate_In" \notin Ask
      BY DEF Ask, Wait
    <3>2. ToTake(i) => Len(req[i]) # 1
      BY <1>4, <1>7, <3>1 DEF ToTake, Asked
    <3>3. \A n \in Nat \ {0} : n # 1 => n > 1
      OBVIOUS
    <3> QED BY <1>3, <3>2, <3>3
  <2> QED BY <1>1, <1>2, <1>3, <1>4, <1>5, <1>7, <2>1, <2>2
<1> QED BY <1>6, <1>7

LEMMA HandleReportEngaged ==
    ASSUME NEW i \in Instance PROVE Base /\ Requested /\ HandleReport(i) => Requested'
<1> SUFFICES ASSUME Base, Requested, HandleReport(i) PROVE Requested'
  OBVIOUS
<1>1. /\ Base' /\ policy' = policy /\ UNCHANGED sched /\ Engaged(i) /\ Take(i, "Report")
      /\ \A j \in Instance : UNCHANGED Local(j)
  BY MainLoopBase DEF MainLoop, HandleReport, Requested, Engaged, Local, status
<1>2. /\ resp[i] = <<>> /\ ~(i < offset) /\ Open(i) /\ lpc[i] = "idle"
      /\ ToTake(i) /\ i \in WaitedFor /\ "Report" \in Ask /\ req'[i] = <<>>
      /\ \A j \in Instance \ {i} : req'[j] = req[j]
  BY <1>1, TakeFacts
<1>3. spc = "reports" /\ aborted[i] = {}
  BY <1>2 DEF Ask, Wait, ToTake
<1> DEFINE m == Cardinality(running[i] \cup done[i])
           n == Cardinality({g \in running[i] : task[g] = "generating"})
<1>4. m \in Nat /\ n \in Nat
  BY InstanceFacts DEF Base, TypeOK
<1>5. Respond(i, Info("Report", {}, m, n))
  BY DEF HandleReport
<1> HIDE DEF m, n
<1>6. /\ Info("Report", {}, m, n) \in Message(Responses) /\ Info("Report", {}, m, n).action = "Report"
      /\ Info("Report", {}, m, n).data = {}
  BY <1>4, InfoType DEF Responses
<1>7. resp'[i] = Append(<<>>, Info("Report", {}, m, n)) /\ \A j \in Instance \ {i} : resp'[j] = resp[j]
  BY <1>2, <1>5, <1>6, RespondType DEF Base
<1>8. Len(resp'[i]) = 1 /\ resp'[i] # <<>> /\ resp'[i][1] = Info("Report", {}, m, n)
  BY <1>6, <1>7
<1>9. QueueOf(i)'
  BY <1>2, <1>6, <1>8 DEF QueueOf
<1>10. RolloutOf(i)' /\ Open(i)' /\ lpc'[i] = "idle" /\ aborted'[i] = {}
  BY <1>1, <1>2, <1>3, LocalKept DEF Engaged
<1>11. Responded(i)'
  BY <1>1, <1>2, <1>3, <1>6, <1>8, <1>10, WaitKept DEF Responded
<1>12. Engaged(i)'
  BY <1>1, <1>2, <1>9, <1>10, <1>11, WaitKept DEF Engaged, PhaseOf
<1> QED BY <1>1, <1>2, <1>7, <1>12, OneMoves

LEMMA HandleMigrateInEngaged ==
    ASSUME NEW i \in Instance PROVE Base /\ Requested /\ HandleMigrateIn(i) => Requested'
<1> SUFFICES ASSUME Base, Requested, HandleMigrateIn(i) PROVE Requested'
  OBVIOUS
<1>1. /\ Base' /\ policy' = policy /\ UNCHANGED sched /\ Engaged(i) /\ Take(i, "Migrate_In") /\ resp' = resp
  BY MainLoopBase DEF MainLoop, HandleMigrateIn, Requested, Engaged
<1>2. /\ resp[i] = <<>> /\ ~(i < offset) /\ Open(i) /\ lpc[i] = "idle"
      /\ Unasked(i) \/ (i \in WaitedFor /\ ToTake(i) /\ Len(req[i]) > 1)
      /\ req[i][1].data # {} /\ Head(req[i]) = req[i][1]
      /\ req'[i] = Tail(req[i]) /\ req[i] \in Seq(Message(Requests)) /\ Len(req[i]) \in Nat \ {0}
      /\ req[i] # <<>>
      /\ \A j \in Instance \ {i} : req'[j] = req[j]
  BY <1>1, TakeFacts
<1>3. /\ running'[i] = running[i] \cup req[i][1].data /\ event'[i] = (event[i] \/ running[i] = {})
      /\ rpc'[i] = rpc[i] /\ lpc'[i] = lpc[i] /\ aborted'[i] = aborted[i] /\ done'[i] = done[i]
      /\ watched'[i] = watched[i] /\ returned'[i] = returned[i]
      /\ \A j \in Instance \ {i} : UNCHANGED Local(j)
  BY <1>2 DEF HandleMigrateIn, Base, TypeOK, Local
<1>4. /\ Len(req'[i]) = Len(req[i]) - 1
      /\ \A n \in 1 .. Len(req[i]) - 1 : n + 1 \in 1 .. Len(req[i]) /\ req'[i][n] = req[i][n + 1]
  BY <1>2, TailOne
<1>5. \A k \in 1 .. Len(req[i]) - 1 :
        /\ req'[i][k].action # "Migrate_In" /\ k = Len(req[i]) - 1 /\ req'[i][k].data = {}
        /\ req'[i][k] = req[i][Len(req[i])]
  <2> TAKE k \in 1 .. Len(req[i]) - 1
  <2>1. k + 1 \in 1 .. Len(req[i]) /\ req'[i][k] = req[i][k + 1] /\ k + 1 # 1
    BY <1>2, <1>4
  <2>2. req[i][k + 1].action # "Migrate_In" /\ k + 1 = Len(req[i]) /\ req[i][k + 1].data = {}
    BY <1>1, <2>1 DEF Engaged, QueueOf
  <2>3. k = Len(req[i]) - 1
    BY <1>2, <2>2
  <2> QED BY <2>1, <2>2, <2>3
<1>6. QueueOf(i)'
  BY <1>1, <1>2, <1>4, <1>5 DEF Engaged, QueueOf
<1>7. RolloutOf(i)'
  BY <1>1, <1>2, <1>3 DEF Engaged, RolloutOf, Open, Past
<1>8. running[i] = {} => rpc[i] \in {"idle", "parked", "failed"}
  BY <1>1, <1>2 DEF Engaged, RolloutOf, Open, Past, Base, TypeOK, RolloutState
<1>9. Open(i)'
  BY <1>2, <1>3, <1>8 DEF Open, Past
<1>10. ASSUME Unasked(i) PROVE Engaged(i)'
  <2>1. OnlyGroups(i) /\ aborted[i] = {} /\ (spc = "migrated" => req[i] = <<>>)
    BY <1>10 DEF Unasked
  <2>2. OnlyGroups(i)'
    BY <1>4, <1>5, <2>1, <1>2 DEF OnlyGroups
  <2>3. Unasked(i)'
    BY <1>1, <1>2, <1>3, <1>9, <2>1, <2>2, WaitKept DEF Unasked
  <2>4. i \notin WaitedFor
    <3>1. ~ToTake(i)
      <4>1. Len(req[i]) \in 1 .. Len(req[i]) /\ "Migrate_In" \notin Ask
        BY <1>2 DEF Ask, Wait
      <4> QED BY <2>1, <4>1 DEF ToTake, Asked, OnlyGroups
    <3>2. ~AtWork(i) /\ ~Responded(i)
      BY <1>2 DEF AtWork, Responded
    <3> QED BY <1>1, <1>2, <3>1, <3>2 DEF Engaged, PhaseOf
  <2> QED BY <1>1, <1>2, <1>6, <1>7, <2>3, <2>4, WaitKept DEF Engaged, PhaseOf
<1>11. ASSUME i \in WaitedFor, ToTake(i), Len(req[i]) > 1 PROVE Engaged(i)'
  <2>1. Asked(i) /\ (spc # "offloaded" => aborted[i] = {}) /\ spc # "migrated"
    BY <1>11 DEF ToTake, Asked
  <2>2. Len(req'[i]) \in 1 .. Len(req[i]) - 1 /\ req'[i][Len(req'[i])] = req[i][Len(req[i])]
    BY <1>2, <1>4, <1>5, <1>11
  <2>3. req'[i] # <<>>
    BY <2>2
  <2>4. ToTake(i)'
    BY <1>1, <1>2, <1>3, <1>9, <2>1, <2>2, <2>3, WaitKept DEF ToTake, Asked
  <2> QED BY <1>1, <1>2, <1>6, <1>7, <1>11, <2>4, WaitKept DEF Engaged, PhaseOf
<1>12. Engaged(i)'
  BY <1>2, <1>10, <1>11
<1> QED BY <1>1, <1>2, <1>3, <1>12, OneMoves

LEMMA HandleDrainEngaged ==
    ASSUME NEW i \in Instance PROVE Base /\ Requested /\ HandleDrain(i) => Requested'
<1> SUFFICES ASSUME Base, Requested, HandleDrain(i) PROVE Requested'
  OBVIOUS
<1>1. /\ Base' /\ policy' = policy /\ UNCHANGED sched /\ Engaged(i) /\ resp' = resp
      /\ rpc' = rpc /\ UNCHANGED status
  BY MainLoopBase DEF MainLoop, HandleDrain, Requested, Engaged
<1>2. PICK kind \in {"Migrate_Out"} \cup Wait :
        /\ Take(i, kind)
        /\ lpc' = [lpc EXCEPT ![i] = IF kind = "Migrate_Out" THEN "migrate_out" ELSE "finish"]
  BY DEF HandleDrain, Wait
<1>3. /\ resp[i] = <<>> /\ ~(i < offset) /\ Open(i) /\ i \in WaitedFor /\ kind \in Ask /\ req'[i] = <<>>
      /\ \A j \in Instance \ {i} : req'[j] = req[j]
  BY <1>1, <1>2, TakeFacts DEF Wait
<1>4. spc = (IF kind = "Migrate_Out" THEN "migrated" ELSE "offloaded")
  BY <1>3, <1>2 DEF Ask, Wait
<1>5. /\ lpc'[i] = (IF kind = "Migrate_Out" THEN "migrate_out" ELSE "finish")
      /\ \A j \in Instance \ {i} : UNCHANGED Local(j)
  BY <1>1, <1>2 DEF Base, TypeOK, Local, status
<1>6. QueueOf(i)'
  BY <1>1, <1>3 DEF Engaged, QueueOf
<1>7. RolloutOf(i)' /\ Open(i)'
  BY <1>1, <1>3 DEF Engaged, RolloutOf, Open, status
<1>8. AtWork(i)'
  BY <1>1, <1>3, <1>4, <1>5, <1>7, WaitKept DEF AtWork
<1>9. Engaged(i)'
  BY <1>1, <1>3, <1>6, <1>7, <1>8, WaitKept DEF Engaged, PhaseOf
<1> QED BY <1>1, <1>3, <1>5, <1>9, OneMoves

LEMMA DrainedEngaged ==
    ASSUME NEW i \in Instance PROVE Base /\ Requested /\ Drained(i) => Requested'
<1> SUFFICES ASSUME Base, Requested, Drained(i) PROVE Requested'
  OBVIOUS
<1>1. /\ Base' /\ policy' = policy /\ UNCHANGED sched /\ Engaged(i) /\ req' = req
      /\ lpc[i] # "idle" /\ running[i] = {}
  BY MainLoopBase DEF MainLoop, Drained, Requested, Engaged
<1>2. /\ AtWork(i) /\ ~(i < offset) /\ i \in WaitedFor /\ req[i] = <<>> /\ resp[i] = <<>> /\ Open(i)
      /\ IF lpc[i] = "migrate_out" THEN spc = "migrated" ELSE spc = "offloaded"
  BY <1>1 DEF Engaged, PhaseOf, Gone, Unasked, ToTake, AtWork, Responded
<1>3. /\ lpc'[i] = "idle" /\ running'[i] = running[i] /\ aborted'[i] = aborted[i] /\ done'[i] = done[i]
      /\ watched'[i] = watched[i] /\ returned'[i] = returned[i] /\ rpc'[i] = rpc[i]
      /\ event'[i] = (event[i] \/ lpc[i] # "migrate_out")
      /\ \A j \in Instance \ {i} : UNCHANGED Local(j)
  <2>1. CASE lpc[i] = "migrate_out"
    BY <2>1 DEF Drained, Base, TypeOK, Local
  <2>2. CASE lpc[i] # "migrate_out"
    BY <2>2 DEF Drained, Base, TypeOK, Local
  <2> QED BY <2>1, <2>2
<1>4. RolloutOf(i)'
  BY <1>1, <1>3 DEF Engaged, RolloutOf
<1>5. CASE lpc[i] = "migrate_out"
  <2> DEFINE info == Info("Migrate_Out", aborted[i], 0, 0)
  <2>1. info \in Message(Responses) /\ info.action = "Migrate_Out"
    <3>1. aborted[i] \in SUBSET Group
      BY DEF Base, TypeOK
    <3> QED BY <3>1, InfoType DEF Responses
  <2>2. Respond(i, info)
    BY <1>5 DEF Drained
  <2> HIDE DEF info
  <2>3. resp'[i] = Append(<<>>, info) /\ \A j \in Instance \ {i} : resp'[j] = resp[j]
    BY <1>2, <2>1, <2>2, RespondType DEF Base
  <2>4. Len(resp'[i]) = 1 /\ resp'[i] # <<>> /\ resp'[i][1] = info
    BY <2>1, <2>3
  <2>5. \A k \in 1 .. Len(resp'[i]) : resp'[i][k] = info
    BY <2>4
  <2>6. QueueOf(i)'
    BY <1>1, <1>2, <2>1, <2>4, <2>5 DEF QueueOf
  <2>7. Open(i)'
    BY <1>2, <1>3, <1>5 DEF Open
  <2>8. Responded(i)'
    BY <1>1, <1>2, <1>3, <1>5, <2>1, <2>4, <2>7, WaitKept DEF Responded
  <2>9. Engaged(i)'
    BY <1>1, <1>2, <1>4, <2>6, <2>8, WaitKept DEF Engaged, PhaseOf
  <2> QED BY <1>1, <1>3, <2>3, <2>9, OneMoves
<1>6. CASE lpc[i] # "migrate_out"
  <2>1. resp' = resp
    BY <1>6 DEF Drained
  <2>2. QueueOf(i)'
    BY <1>1, <2>1 DEF Engaged, QueueOf
  <2>3. Told(i)'
    BY <1>1, <1>2, <1>3, <1>6 DEF Open, Told, Past
  <2>4. AtWork(i)'
    BY <1>1, <1>2, <1>3, <1>6, <2>1, <2>3, WaitKept DEF AtWork
  <2>5. Engaged(i)'
    BY <1>1, <1>2, <1>4, <2>2, <2>4, WaitKept DEF Engaged, PhaseOf
  <2> QED BY <1>1, <1>3, <2>1, <2>5, OneMoves
<1> QED BY <1>5, <1>6

LEMMA MainLoopEngaged ==
    ASSUME NEW i \in Instance PROVE Base /\ Requested /\ MainLoop(i) => Requested'
BY HandleReportEngaged, HandleMigrateInEngaged, HandleDrainEngaged, DrainedEngaged DEF MainLoop

LEMMA InitRequested == Init => Requested
<1> SUFFICES ASSUME Init PROVE Requested
  OBVIOUS
<1>1. Leaving /\ offset = 0 /\ Instance \subseteq Nat /\ WaitedFor = {}
  BY InitBase, InstanceFacts DEF Base, TypeOK, Init, WaitedFor
<1>2. ASSUME NEW i \in Instance PROVE Engaged(i)
  <2>1. /\ req[i] = <<>> /\ resp[i] = <<>> /\ rpc[i] = "idle" /\ lpc[i] = "idle" /\ running[i] = {}
        /\ aborted[i] = {} /\ done[i] = {} /\ returned[i] = {} /\ ~event[i] /\ spc = "begin"
    BY DEF Init
  <2>2. Len(req[i]) = 0 /\ Len(resp[i]) = 0
    BY <2>1
  <2>3. QueueOf(i) /\ OnlyGroups(i)
    BY <2>2 DEF QueueOf, OnlyGroups
  <2>4. RolloutOf(i) /\ Unasked(i)
    BY <2>1, <2>3 DEF RolloutOf, Unasked, Open, Past
  <2>5. ~(i < offset)
    BY <1>1
  <2> QED BY <1>1, <2>3, <2>4, <2>5 DEF Engaged, PhaseOf
<1> QED BY <1>1, <1>2 DEF Requested, Engaged

LEMMA RequestedStep == Base /\ Requested /\ GroupsKept /\ [Next]_vars => Requested'
<1> SUFFICES ASSUME Base, Requested, GroupsKept, [Next]_vars PROVE Requested'
  OBVIOUS
<1>1. Base'
  BY BaseStep
<1>2. CASE UNCHANGED vars
  BY <1>1, <1>2, NothingMoves DEF vars
<1>3. ASSUME NEW g \in Group, Generate(g) PROVE Requested'
  BY <1>1, <1>3, NothingMoves DEF Generate
<1>4. CASE FinishInference
  BY <1>1, <1>4, NothingMoves DEF FinishInference
<1>5. CASE BeginTraining
  BY <1>1, <1>5, NothingMoves DEF BeginTraining
<1>6. CASE Train
  BY <1>1, <1>6, NothingMoves DEF Train
<1>7. CASE Scale
  BY <1>1, <1>7, NothingMoves DEF Scale
<1> QED BY <1>2, <1>3, <1>4, <1>5, <1>6, <1>7, SchedulerEngaged, RolloutEngaged, MainLoopEngaged
      DEF Next, Idle

-----------------------------------------------------------------------------
(* Where the groups are.                                                   *)

LEMMA HasAre ==
    ASSUME NEW g, NEW i
    PROVE  /\ Has(g, "running", i) <=> g \in running[i]
           /\ Has(g, "aborted", i) <=> g \in aborted[i] /\ lpc[i] = "migrate_out"
           /\ Has(g, "response", i) <=> g \in Carried(resp[i])
           /\ Has(g, "request", i) <=> g \in Carried(req[i])
           /\ Has(g, "running", i)' <=> g \in running'[i]
           /\ Has(g, "aborted", i)' <=> g \in aborted'[i] /\ lpc'[i] = "migrate_out"
           /\ Has(g, "response", i)' <=> g \in Carried(resp'[i])
           /\ Has(g, "request", i)' <=> g \in Carried(req'[i])
BY DEF Has

\* What the place of a group in an instance depends on stays as it is.
Placed(g, i) ==
    /\ g \in running'[i] <=> g \in running[i]
    /\ g \in aborted'[i] /\ lpc'[i] = "migrate_out" <=> g \in aborted[i] /\ lpc[i] = "migrate_out"
    /\ g \in Carried(resp'[i]) <=> g \in Carried(resp[i])
    /\ g \in Carried(req'[i]) <=> g \in Carried(req[i])

LEMMA PlacedHas ==
    ASSUME NEW g, NEW i, Placed(g, i)
    PROVE  \A p \in Place : Has(g, p, i)' <=> Has(g, p, i)
BY HasAre DEF Placed, Place

\* A group that no step is about.
LEMMA GroupSame ==
    ASSUME Base, policy' = policy, NEW g \in Group, GroupAt(g), task'[g] = task[g], sent'[g] = sent[g],
           \A i \in Instance :
              /\ Placed(g, i)
              /\ g \in returned[i] => g \in returned'[i]
              /\ rpc'[i] \in {"idle", "failed"} <=> rpc[i] \in {"idle", "failed"}
              /\ g \in running[i] /\ lpc[i] = "migrate_out" => lpc'[i] = "migrate_out"
    PROVE  GroupAt(g)'
<1>1. Instance' = Instance /\ \A i \in Instance : Batch(i)' = Batch(i)
  BY Steady
<1>2. \A i \in Instance, p \in Place : Has(g, p, i)' <=> Has(g, p, i)
  BY PlacedHas
<1>3. Unstarted(g)' <=> Unstarted(g)
  BY <1>1 DEF Unstarted
<1>4. (\E p \in Place, i \in Instance : Has(g, p, i))' <=> (\E p \in Place, i \in Instance : Has(g, p, i))
  BY <1>1, <1>2
<1>5. (\A p, q \in Place, i, j \in Instance : Has(g, p, i) /\ Has(g, q, j) => p = q /\ i = j)'
  BY <1>1, <1>2 DEF GroupAt
<1>6. (\A i \in Instance : g \in running[i] /\ task[g] = "aborted" => lpc[i] = "migrate_out")'
  BY <1>1 DEF GroupAt, Placed
<1>7. (\A p \in Place, i \in Instance : Has(g, p, i) => g \in returned[i])
        => (\A p \in Place, i \in Instance : Has(g, p, i) => g \in returned[i])'
  BY <1>1, <1>2
<1> QED BY <1>1, <1>3, <1>4, <1>5, <1>6, <1>7 DEF GroupAt

\* A group that moves from one place to another, and is still to be sent.
LEMMA GroupMoves ==
    ASSUME Base, policy' = policy, NEW g \in Group, GroupAt(g),
           NEW p \in Place, NEW i \in Instance, Has(g, p, i), task[g] # "sending",
           NEW q \in Place, NEW j \in Instance,
           \A r \in Place, k \in Instance : Has(g, r, k)' <=> r = q /\ k = j,
           sent'[g] = sent[g], task'[g] # "sending", q = "running" => task'[g] # "aborted",
           \A k \in Instance : rpc'[k] \in {"idle", "failed"} <=> rpc[k] \in {"idle", "failed"}
    PROVE  GroupAt(g)'
<1>1. Instance' = Instance /\ \A k \in Instance : Batch(k)' = Batch(k)
  BY Steady
<1>2. sent[g] = 0 /\ ~Unstarted(g)
  BY DEF GroupAt
<1>3. ~Unstarted(g)'
  BY <1>1, <1>2 DEF Unstarted
<1>4. (\E r \in Place, k \in Instance : Has(g, r, k))'
  BY <1>1
<1>5. (\A r, s \in Place, k, l \in Instance : Has(g, r, k) /\ Has(g, s, l) => r = s /\ k = l)'
  BY <1>1
<1>6. (\A k \in Instance : g \in running[k] /\ task[g] = "aborted" => lpc[k] = "migrate_out")'
  <2>1. "running" \in Place
    BY DEF Place
  <2>2. \A k \in Instance : g \in running'[k] => q = "running"
    BY <2>1, HasAre
  <2> QED BY <1>1, <2>2
<1> QED BY <1>2, <1>3, <1>4, <1>5, <1>6 DEF GroupAt

\* No group changes its place.
LEMMA NoGroupMoves ==
    ASSUME Base, policy' = policy, GroupsKept, task' = task, sent' = sent,
           \A g \in Group, i \in Instance :
              /\ Placed(g, i)
              /\ g \in returned[i] => g \in returned'[i]
              /\ rpc'[i] \in {"idle", "failed"} <=> rpc[i] \in {"idle", "failed"}
              /\ g \in running[i] /\ lpc[i] = "migrate_out" => lpc'[i] = "migrate_out"
    PROVE  GroupsKept'
<1>1. \A g \in Group : GroupAt(g)'
  BY GroupSame DEF GroupsKept
<1> QED BY <1>1 DEF GroupsKept

\* A request or a response without groups changes nothing.
LEMMA CarriedAsk ==
    ASSUME NEW Kinds, NEW s \in Seq(Message(Kinds)), NEW kind \in Kinds, NEW m \in Nat, NEW n \in Nat
    PROVE  Carried(Append(s, Info(kind, {}, m, n))) = Carried(s)
<1>1. {} \in SUBSET Group
  OBVIOUS
<1>2. Info(kind, {}, m, n) \in Message(Kinds) /\ Info(kind, {}, m, n).data = {}
  BY <1>1, InfoType
<1>3. Carried(Append(s, Info(kind, {}, m, n))) = Carried(s) \cup {}
  BY ZenonT(30), <1>2, CarriedAppend
<1> QED BY <1>3

LEMMA CarriedOne ==
    ASSUME NEW S, NEW s \in Seq(S), Len(s) = 1
    PROVE  Carried(s) = s[1].data
<1>1. DOMAIN s = {1}
  OBVIOUS
<1> QED BY <1>1 DEF Carried

-----------------------------------------------------------------------------
\* The steps of the scheduler.

\* But for Migrated, the scheduler sends no groups,
LEMMA SchedulerAsks ==
    ASSUME Base, Scheduler, ~Migrated, NEW i \in Instance
    PROVE  req'[i] = req[i] \/ \E kind \in Requests : req'[i] = Append(req[i], Info(kind, {}, 0, 0))
<1>1. /\ "Report" \in Requests /\ "Migrate_Out" \in Requests
      /\ \A kind \in Wait : kind \in Requests
  BY DEF Requests
<1>2. CASE Begin
  BY <1>1, <1>2, ReportFacts DEF Begin
<1>3. CASE PreReports \/ MainReports
  BY <1>1, <1>3, ReportsAsk DEF AsksNext, AsksSome, AsksAll, AsksNone
<1>4. CASE ActorReady
  BY <1>1, <1>4, ReportFacts, FinishAllFacts DEF ActorReady, Wait
<1>5. CASE Offloaded \/ InferenceTurn \/ ActorTurn
  BY <1>5 DEF Offloaded, InferenceTurn, ActorTurn
<1> QED BY <1>2, <1>3, <1>4, <1>5 DEF Scheduler

\* and finds none in a response.
LEMMA SchedulerGathers ==
    ASSUME Base, Requested, Scheduler, ~Migrated, NEW i \in Instance
    PROVE  resp'[i] = resp[i] \/ (resp'[i] = <<>> /\ Carried(resp[i]) = {})
<1>1. Engaged(i)
  BY DEF Requested, Engaged
<1>2. ASSUME resp[i] # <<>>, resp'[i] = Tail(resp[i]), spc # "migrated"
      PROVE  resp'[i] = <<>> /\ Carried(resp[i]) = {}
  <2>1. resp'[i] = <<>> /\ Responded(i) /\ Len(resp[i]) = 1
    BY <1>1, <1>2, GatheredFacts
  <2>2. resp[i] \in Seq(Message(Responses))
    BY DEF Base, TypeOK
  <2>3. resp[i][1].action # "Migrate_Out" /\ 1 \in 1 .. Len(resp[i])
    BY <1>2, <2>1 DEF Responded
  <2>4. resp[i][1].data = {}
    BY <1>1, <2>3 DEF Engaged, QueueOf
  <2> QED BY <2>1, <2>2, <2>4, CarriedOne
<1>3. CASE PreReports \/ MainReports
  <2>1. TakeReports /\ spc = "reports"
    BY <1>3 DEF PreReports, MainReports, TakeReports
  <2>2. resp'[i] = resp[i] \/ (resp[i] # <<>> /\ resp'[i] = Tail(resp[i]))
    BY <2>1, TakeReportsFacts
  <2> QED BY <1>2, <2>1, <2>2
<1>4. CASE Offloaded
  <2>1. resp'[i] = resp[i] \/ (resp[i] # <<>> /\ resp'[i] = Tail(resp[i]))
    BY <1>4, OffloadedFacts
  <2>2. spc # "migrated"
    BY <1>4 DEF Offloaded
  <2> QED BY <1>2, <2>1, <2>2
<1>5. CASE Begin \/ ActorReady \/ InferenceTurn \/ ActorTurn
  BY <1>5 DEF Begin, ActorReady, InferenceTurn, ActorTurn
<1> QED BY <1>3, <1>4, <1>5 DEF Scheduler

LEMMA SchedulerFrame ==
    ASSUME Scheduler
    PROVE  policy' = policy /\ UNCHANGED <<rpc, lpc, status, task, sent, inference, world, aiter>>
BY DEF Scheduler, Begin, PreReports, MainReports, TakeReports, ActorReady, Migrated, Offloaded,
       InferenceTurn, ActorTurn, actor

LEMMA SchedulerGroups == Base /\ Requested /\ GroupsKept /\ Scheduler /\ ~Migrated => GroupsKept'
<1> SUFFICES ASSUME Base, Requested, GroupsKept, Scheduler, ~Migrated PROVE GroupsKept'
  OBVIOUS
<1>1. policy' = policy /\ UNCHANGED <<rpc, lpc, status, task, sent>>
  BY SchedulerFrame
<1>2. ASSUME NEW i \in Instance
      PROVE Carried(req'[i]) = Carried(req[i]) /\ Carried(resp'[i]) = Carried(resp[i])
  <2>1. req[i] \in Seq(Message(Requests))
    BY DEF Base, TypeOK
  <2>2. Carried(req'[i]) = Carried(req[i])
    <3>2. req'[i] = req[i] \/ \E kind \in Requests : req'[i] = Append(req[i], Info(kind, {}, 0, 0))
      BY SchedulerAsks
    <3>3. CASE req'[i] = req[i]
      BY <3>3, Zenon
    <3>4. ASSUME NEW kind \in Requests, req'[i] = Append(req[i], Info(kind, {}, 0, 0))
          PROVE  Carried(req'[i]) = Carried(req[i])
      <4>1. Carried(Append(req[i], Info(kind, {}, 0, 0))) = Carried(req[i])
        BY <2>1, CarriedAsk
      <4> QED BY <3>4, <4>1
    <3> QED BY <3>2, <3>3, <3>4
  <2>3. Carried(resp'[i]) = Carried(resp[i])
    BY SchedulerGathers, CarriedNothing
  <2> QED BY <2>2, <2>3
<1>3. \A g \in Group, i \in Instance : Placed(g, i)
  BY <1>1, <1>2 DEF Placed, status
<1> QED BY <1>1, <1>3, NoGroupMoves DEF status

\* The groups of the responses go, each to one instance, into requests.
LEMMA MigratedGroups == Base /\ Requested /\ GroupsKept /\ Migrated => GroupsKept'
<1> SUFFICES ASSUME Base, Requested, GroupsKept, Migrated PROVE GroupsKept'
  OBVIOUS
<1>1. policy' = policy /\ UNCHANGED <<rpc, lpc, status, task, sent>> /\ spc = "migrated"
        /\ WaitedFor = leaving
  BY DEF Migrated, WaitedFor
<1>2. /\ \A i \in Instance : resp'[i] = IF i \in leaving THEN Tail(resp[i]) ELSE resp[i]
      /\ \A i \in leaving : resp[i] # <<>>
      /\ leaving \subseteq Instance /\ Batches \in SUBSET Group
  BY MigratedFacts DEF Base, TypeOK
<1>3. PICK to \in [Batches -> Alive \ leaving] :
        /\ \A i \in Instance :
              req'[i] = IF i \in leaving THEN Append(req[i], Info("Finish", {}, 0, 0))
                        ELSE IF {g \in Batches : to[g] = i} # {}
                        THEN Append(req[i], Info("Migrate_In", {g \in Batches : to[g] = i}, 0, 0))
                        ELSE req[i]
        /\ \A g \in Batches : to[g] \in Instance /\ to[g] \notin leaving /\ to[g] >= offset
  BY MigratedFacts
<1>4. \A i \in Instance : req[i] \in Seq(Message(Requests)) /\ resp[i] \in Seq(Message(Responses))
  BY DEF Base, TypeOK
<1>5. \A i \in Instance : Engaged(i)
  BY DEF Requested, Engaged
<1>6. ASSUME NEW i \in leaving PROVE Carried(resp'[i]) = {} /\ Carried(resp[i]) = Head(resp[i]).data
  <2>1. resp'[i] = <<>> /\ Len(resp[i]) = 1 /\ Head(resp[i]) = resp[i][1]
    BY <1>2, <1>5, GatheredFacts
  <2> QED BY <1>2, <1>4, <2>1, CarriedOne, CarriedNothing
<1>7. ASSUME NEW i \in Instance \ leaving PROVE resp[i] = <<>> /\ resp'[i] = <<>>
  BY <1>1, <1>2, <1>5, <1>7 DEF Engaged, PhaseOf, Gone, Unasked
<1>8. \A g \in Group : g \in Batches <=> \E i \in Instance : g \in Carried(resp[i])
  BY <1>2, <1>6, <1>7, CarriedNothing DEF Batches
<1>9. \A i \in Instance : Carried(resp'[i]) = {}
  BY <1>6, <1>7, CarriedNothing
<1>10. ASSUME NEW i \in Instance PROVE Carried(req'[i]) = Carried(req[i]) \cup {g \in Batches : to[g] = i}
  <2>1. CASE i \in leaving
    <3>1. {g \in Batches : to[g] = i} = {}
      BY <1>3, <2>1
    <3>2. Carried(req'[i]) = Carried(req[i])
      <4>1. "Finish" \in Requests /\ req'[i] = Append(req[i], Info("Finish", {}, 0, 0))
        BY <1>3, <2>1 DEF Requests, Wait
      <4> QED BY <1>4, <4>1, CarriedAsk
    <3> QED BY <3>1, <3>2
  <2>2. CASE i \notin leaving
    <3> DEFINE given == {g \in Batches : to[g] = i}
    <3>1. given \in SUBSET Group /\ req'[i] =
            IF given # {} THEN Append(req[i], Info("Migrate_In", given, 0, 0)) ELSE req[i]
      BY <1>2, <1>3, <2>2
    <3> HIDE DEF given
    <3>2. Info("Migrate_In", given, 0, 0) \in Message(Requests)
            /\ Info("Migrate_In", given, 0, 0).data = given
      <4>1. "Migrate_In" \in Requests
        BY DEF Requests
      <4> QED BY <3>1, <4>1, InfoType
    <3>3. Carried(req'[i]) = Carried(req[i]) \cup given
      BY <1>4, <3>1, <3>2, CarriedAppend
    <3> QED BY <3>3 DEF given
  <2> QED BY <2>1, <2>2
<1>11. ASSUME NEW g \in Group PROVE GroupAt(g)'
  <2>0. GroupAt(g)
    BY DEF GroupsKept
  <2>1. CASE g \notin Batches
    <3>1. \A i \in Instance : Placed(g, i)
      BY <1>1, <1>8, <1>9, <1>10, <2>1 DEF Placed, status
    <3> QED BY <1>1, <2>0, <3>1, GroupSame DEF status
  <2>2. CASE g \in Batches
    <3>1. PICK i \in Instance : g \in Carried(resp[i])
      BY <1>8, <2>2
    <3>2. Has(g, "response", i) /\ "response" \in Place /\ "request" \in Place /\ "running" \in Place
      BY <3>1, HasAre DEF Place
    <3>3. \A r \in Place, k \in Instance : Has(g, r, k) => r = "response"
      BY <2>0, <3>2 DEF GroupAt
    <3>4. task[g] # "sending"
      <4>1. g \notin running[i]
        BY <3>2, <3>3, HasAre
      <4> QED BY <1>5, <2>0, <3>2, <4>1 DEF GroupAt, Engaged, RolloutOf
    <3>5. \A k \in Instance : /\ ~Has(g, "running", k)' /\ ~Has(g, "aborted", k)' /\ ~Has(g, "response", k)'
                              /\ Has(g, "request", k)' <=> k = to[g]
      BY <1>1, <1>9, <1>10, <2>2, <3>3, HasAre DEF Place, status
    <3>6. \A r \in Place, k \in Instance : Has(g, r, k)' <=> r = "request" /\ k = to[g]
      BY <3>5 DEF Place
    <3> QED BY <1>1, <1>3, <2>0, <2>2, <3>2, <3>4, <3>6, GroupMoves
  <2> QED BY <2>1, <2>2
<1>12. Group' = Group
  OBVIOUS
<1> QED BY <1>11 DEF GroupsKept

-----------------------------------------------------------------------------
\* The steps of the instances.

\* Groups that run on an instance are nowhere else.
LEMMA RunningHas ==
    ASSUME NEW g \in Group, GroupAt(g), NEW i \in Instance, g \in running[i]
    PROVE  /\ \A p \in Place, j \in Instance : Has(g, p, j) <=> p = "running" /\ j = i
           /\ ~Unstarted(g) /\ (task[g] = "sending" \/ sent[g] = 0)
           /\ "running" \in Place
<1>1. "running" \in Place /\ Has(g, "running", i)
  BY HasAre DEF Place
<1>2. ~Unstarted(g)
  BY <1>1 DEF GroupAt
<1> QED BY <1>1, <1>2 DEF GroupAt

LEMMA StartGroups == ASSUME NEW i \in Instance
                     PROVE Base /\ Requested /\ GroupsKept /\ StartRollout(i) => GroupsKept'
<1> SUFFICES ASSUME Base, Requested, GroupsKept, StartRollout(i) PROVE GroupsKept'
  OBVIOUS
<1>1. /\ policy' = policy /\ task' = task /\ sent' = sent /\ req' = req /\ resp' = resp /\ lpc' = lpc
      /\ aborted' = aborted /\ returned' = returned /\ rpc[i] = "idle"
      /\ \A j \in Instance \ {i} : running'[j] = running[j] /\ rpc'[j] = rpc[j]
  BY DEF StartRollout, Base, TypeOK
<1>2. CASE running[i] \cup done[i] \cup aborted[i] # {}
  <2>1. running'[i] = running[i] /\ rpc'[i] = "failed"
    BY <1>2, StartFacts
  <2>2. \A g \in Group, j \in Instance : Placed(g, j)
    BY <1>1, <2>1 DEF Placed
  <2>3. \A j \in Instance : rpc'[j] \in {"idle", "failed"} <=> rpc[j] \in {"idle", "failed"}
    BY <1>1, <2>1
  <2> QED BY <1>1, <2>2, <2>3, NoGroupMoves
<1>3. CASE running[i] \cup done[i] \cup aborted[i] = {}
  <2>1. running[i] = {} /\ running'[i] = Batch(i) /\ rpc'[i] = "waiting"
    BY <1>3, StartFacts
  <2>2. ASSUME NEW g \in Group, g \notin Batch(i) PROVE GroupAt(g)'
    <3>1. \A j \in Instance : Placed(g, j)
      BY <1>1, <2>1, <2>2 DEF Placed
    <3>2. Unstarted(g)' <=> Unstarted(g)
      BY <1>1, <2>2, Steady DEF Unstarted
    <3>3. \A j \in Instance, p \in Place : Has(g, p, j)' <=> Has(g, p, j)
      BY <3>1, PlacedHas
    <3>4. Instance' = Instance /\ GroupAt(g)
      BY <1>1, Steady DEF GroupsKept
    <3>5. \A j \in Instance : g \in running'[j] <=> g \in running[j]
      BY <3>1 DEF Placed
    <3> QED BY <1>1, <3>2, <3>3, <3>4, <3>5 DEF GroupAt
  <2>3. ASSUME NEW g \in Group, g \in Batch(i) PROVE GroupAt(g)'
    <3>1. Unstarted(g) /\ GroupAt(g)
      BY <1>1, <2>3 DEF Unstarted, GroupsKept
    <3>2. task[g] = "generating" /\ sent[g] = 0 /\ \A p \in Place, j \in Instance : ~Has(g, p, j)
      BY <3>1 DEF GroupAt
    <3>3. \A j \in Instance : /\ Has(g, "running", j)' <=> j = i
                              /\ ~Has(g, "aborted", j)' /\ ~Has(g, "response", j)' /\ ~Has(g, "request", j)'
      BY <1>1, <2>1, <2>3, <3>2, HasAre DEF Place
    <3>4. \A p \in Place, j \in Instance : Has(g, p, j)' <=> p = "running" /\ j = i
      BY <3>3 DEF Place
    <3>5. ~Unstarted(g)'
      <4>1. \A j \in Instance : g \in Batch(j) => j = i
        BY <2>3, BatchOfGroup DEF Base, TypeOK
      <4> QED BY <1>1, <2>1, <4>1, Steady DEF Unstarted
    <3>6. Instance' = Instance /\ "running" \in Place
      BY <1>1, Steady DEF Place
    <3> QED BY <1>1, <3>2, <3>4, <3>5, <3>6 DEF GroupAt
  <2> QED BY <2>2, <2>3 DEF GroupsKept
<1> QED BY <1>2, <1>3

LEMMA CollectGroups == ASSUME NEW i \in Instance
                       PROVE Base /\ Requested /\ GroupsKept /\ Collect(i) => GroupsKept'
<1> SUFFICES ASSUME Base, Requested, GroupsKept, Collect(i) PROVE GroupsKept'
  OBVIOUS
<1>1. /\ policy' = policy /\ task' = task /\ sent' = sent /\ req' = req /\ resp' = resp /\ lpc' = lpc
      /\ aborted' = aborted /\ running' = running
      /\ \A j \in Instance \ {i} : returned'[j] = returned[j]
      /\ \A j \in Instance : rpc'[j] \in {"idle", "failed"} <=> rpc[j] \in {"idle", "failed"}
  BY DEF Collect, Base, TypeOK
<1>2. returned[i] = {}
  BY DEF Collect, Requested, RolloutOf
<1>3. \A g \in Group, j \in Instance : Placed(g, j) /\ (g \in returned[j] => g \in returned'[j])
  BY <1>1, <1>2 DEF Placed
<1> QED BY <1>1, <1>3, NoGroupMoves

\* The status manager is cleared only when the groups it aborted were handed over.
LEMMA WakeGroups == ASSUME NEW i \in Instance PROVE Base /\ Requested /\ GroupsKept /\ Wake(i) => GroupsKept'
<1> SUFFICES ASSUME Base, Requested, GroupsKept, Wake(i) PROVE GroupsKept'
  OBVIOUS
<1>1. /\ policy' = policy /\ task' = task /\ sent' = sent /\ req' = req /\ resp' = resp /\ lpc' = lpc
      /\ returned' = returned /\ running' = running /\ rpc[i] = "parked" /\ event[i]
      /\ \A j \in Instance \ {i} : aborted'[j] = aborted[j]
      /\ \A j \in Instance : rpc'[j] \in {"idle", "failed"} <=> rpc[j] \in {"idle", "failed"}
      /\ aborted'[i] = aborted[i] \/ running[i] = {}
  BY DEF Wake, Base, TypeOK
<1>2. running[i] = {} => lpc[i] = "idle"
  BY <1>1 DEF Requested, PhaseOf, Gone, Unasked, ToTake, AtWork, Responded, Open
<1>3. \A g \in Group, j \in Instance : Placed(g, j)
  BY <1>1, <1>2 DEF Placed
<1> QED BY <1>1, <1>3, NoGroupMoves

LEMMA OffloadGroups == ASSUME NEW i \in Instance
                       PROVE Base /\ Requested /\ GroupsKept /\ Offload(i) => GroupsKept'
<1> SUFFICES ASSUME Base, Requested, GroupsKept, Offload(i) PROVE GroupsKept'
  OBVIOUS
<1>1. /\ policy' = policy /\ task' = task /\ sent' = sent /\ req' = req /\ lpc' = lpc /\ UNCHANGED status
      /\ Respond(i, Info("Offloaded", {}, 0, 0)) /\ rpc[i] = "offloading" /\ rpc'[i] = "finished"
      /\ \A j \in Instance \ {i} : rpc'[j] = rpc[j]
  BY DEF Offload, Base, TypeOK
<1>2. "Offloaded" \in Responses /\ Info("Offloaded", {}, 0, 0) \in Message(Responses)
        /\ resp[i] \in Seq(Message(Responses))
  BY InfoType DEF Responses, Base, TypeOK
<1>3. resp'[i] = Append(resp[i], Info("Offloaded", {}, 0, 0)) /\ \A j \in Instance \ {i} : resp'[j] = resp[j]
  BY <1>1, <1>2, RespondType DEF Base
<1>4. Carried(Append(resp[i], Info("Offloaded", {}, 0, 0))) = Carried(resp[i])
  BY <1>2, CarriedAsk
<1>5. \A j \in Instance : Carried(resp'[j]) = Carried(resp[j])
  BY <1>3, <1>4
<1>6. \A g \in Group, j \in Instance : Placed(g, j)
  BY <1>1, <1>5 DEF Placed, status
<1>7. \A j \in Instance : rpc'[j] \in {"idle", "failed"} <=> rpc[j] \in {"idle", "failed"}
  BY <1>1
<1> QED BY <1>1, <1>6, <1>7, NoGroupMoves DEF status

\* A result is sent for a group that runs and has not been sent.
LEMMA SendGroups ==
    ASSUME NEW i \in Instance, NEW g \in Group
    PROVE  Base /\ Requested /\ GroupsKept /\ SendResult(i, g) => GroupsKept'
<1> SUFFICES ASSUME Base, Requested, GroupsKept, SendResult(i, g) PROVE GroupsKept'
  OBVIOUS
<1>1. /\ policy' = policy /\ req' = req /\ resp' = resp /\ lpc' = lpc /\ rpc' = rpc /\ UNCHANGED status
      /\ g \in returned[i] /\ task[g] = "completed"
      /\ task'[g] = "sending" /\ sent'[g] = sent[g] + 1
      /\ \A h \in Group \ {g} : task'[h] = task[h] /\ sent'[h] = sent[h]
  BY DEF SendResult, Base, TypeOK
<1>2. g \in running[i]
  BY <1>1 DEF Requested, RolloutOf
<1>3. \A h \in Group, j \in Instance : Placed(h, j)
  BY <1>1 DEF Placed, status
<1>4. ASSUME NEW h \in Group \ {g} PROVE GroupAt(h)'
  BY <1>1, <1>3, GroupSame DEF GroupsKept, status
<1>5. GroupAt(g)'
  <2>1. GroupAt(g) /\ Instance' = Instance
    BY <1>1, Steady DEF GroupsKept
  <2>2. /\ \A p \in Place, j \in Instance : Has(g, p, j) <=> p = "running" /\ j = i
        /\ ~Unstarted(g) /\ sent[g] = 0
    BY <1>1, <1>2, <2>1, RunningHas
  <2>3. \A p \in Place, j \in Instance : Has(g, p, j)' <=> p = "running" /\ j = i
    BY <1>3, <2>2, PlacedHas
  <2>4. ~Unstarted(g)'
    BY <1>1, <2>2, Steady DEF Unstarted
  <2>5. sent'[g] = 1 /\ returned'[i] = returned[i]
    BY <1>1, <2>2 DEF status
  <2> QED BY <1>1, <2>1, <2>3, <2>4, <2>5 DEF GroupAt
<1> QED BY <1>4, <1>5 DEF GroupsKept

LEMMA GenerateGroups ==
    ASSUME NEW g \in Group PROVE Base /\ Requested /\ GroupsKept /\ Generate(g) => GroupsKept'
<1> SUFFICES ASSUME Base, Requested, GroupsKept, Generate(g) PROVE GroupsKept'
  OBVIOUS
<1>1. /\ policy' = policy /\ req' = req /\ resp' = resp /\ lpc' = lpc /\ rpc' = rpc
      /\ UNCHANGED status /\ sent' = sent
  BY DEF Generate
<1>2. PICK i \in Instance, outcome \in {"completed", "aborted"} :
         /\ g \in running[i] /\ task[g] = "generating" /\ task' = [task EXCEPT ![g] = outcome]
         /\ outcome = "aborted" => lpc[i] = "migrate_out"
  BY DEF Generate
<1>3. task'[g] = outcome /\ \A h \in Group \ {g} : task'[h] = task[h]
  BY <1>2 DEF Base, TypeOK
<1>4. \A h \in Group, j \in Instance : Placed(h, j)
  BY <1>1 DEF Placed, status
<1>5. ASSUME NEW h \in Group \ {g} PROVE GroupAt(h)'
  BY <1>1, <1>3, <1>4, GroupSame DEF GroupsKept, status
<1>6. GroupAt(g)'
  <2>1. GroupAt(g) /\ Instance' = Instance
    BY <1>1, Steady DEF GroupsKept
  <2>2. /\ \A p \in Place, j \in Instance : Has(g, p, j) <=> p = "running" /\ j = i
        /\ ~Unstarted(g) /\ sent[g] = 0 /\ "running" \in Place
    BY <1>2, <2>1, RunningHas
  <2>3. \A p \in Place, j \in Instance : Has(g, p, j)' <=> p = "running" /\ j = i
    BY <1>4, <2>2, PlacedHas
  <2>4. ~Unstarted(g)'
    BY <1>1, <2>2, Steady DEF Unstarted
  <2>5. \A j \in Instance : g \in running'[j] => j = i
    BY <2>2, <2>3, HasAre
  <2> QED BY <1>1, <1>2, <1>3, <2>1, <2>2, <2>3, <2>4, <2>5 DEF GroupAt
<1> QED BY <1>5, <1>6 DEF GroupsKept

\* A group that is done, or given up, is not running any more.
LEMMA MarkFrame ==
    ASSUME NEW i \in Instance, NEW g \in Group, Base, Requested, MarkDone(i, g) \/ MarkAborted(i, g)
    PROVE  /\ policy' = policy /\ task' = task /\ sent' = sent /\ req' = req /\ resp' = resp /\ lpc' = lpc
           /\ g \in returned[i] /\ g \in running[i]
           /\ \A j \in Instance : /\ running'[j] = IF j = i THEN running[i] \ {g} ELSE running[j]
                                  /\ returned'[j] = IF j = i THEN returned[i] \ {g} ELSE returned[j]
                                  /\ rpc'[j] \in {"idle", "failed"} <=> rpc[j] \in {"idle", "failed"}
<1>1. /\ policy' = policy /\ task' = task /\ sent' = sent /\ req' = req /\ resp' = resp /\ lpc' = lpc
      /\ g \in returned[i] /\ AfterGroup(i, g) /\ rpc[i] = "handling"
  BY DEF MarkDone, MarkAborted
<1>2. g \in running[i]
  BY <1>1 DEF Requested, RolloutOf
<1>3. /\ running'[i] = running[i] \ {g} /\ returned'[i] = returned[i] \ {g}
      /\ rpc'[i] \in {rpc[i], "parked", "waiting"}
      /\ \A j \in Instance \ {i} : running'[j] = running[j] /\ returned'[j] = returned[j] /\ rpc'[j] = rpc[j]
  BY <1>1, AfterGroupFacts
<1> QED BY <1>1, <1>2, <1>3

LEMMA MarkDoneGroups ==
    ASSUME NEW i \in Instance, NEW g \in Group
    PROVE  Base /\ Requested /\ GroupsKept /\ MarkDone(i, g) => GroupsKept'
<1> SUFFICES ASSUME Base, Requested, GroupsKept, MarkDone(i, g) PROVE GroupsKept'
  OBVIOUS
<1>1. /\ policy' = policy /\ task' = task /\ sent' = sent /\ req' = req /\ resp' = resp /\ lpc' = lpc
      /\ g \in returned[i] /\ g \in running[i]
      /\ \A j \in Instance : /\ running'[j] = IF j = i THEN running[i] \ {g} ELSE running[j]
                             /\ returned'[j] = IF j = i THEN returned[i] \ {g} ELSE returned[j]
                             /\ rpc'[j] \in {"idle", "failed"} <=> rpc[j] \in {"idle", "failed"}
  BY MarkFrame
<1>2. aborted' = aborted /\ task[g] = "sending"
  BY DEF MarkDone
<1>3. ASSUME NEW h \in Group \ {g} PROVE GroupAt(h)'
  <2>1. \A j \in Instance : Placed(h, j) /\ (h \in returned[j] => h \in returned'[j])
    BY <1>1, <1>2, <1>3 DEF Placed
  <2> QED BY <1>1, <2>1, GroupSame DEF GroupsKept
<1>4. GroupAt(g)'
  <2>1. GroupAt(g) /\ Instance' = Instance
    BY <1>1, Steady DEF GroupsKept
  <2>2. \A p \in Place, j \in Instance : Has(g, p, j) <=> p = "running" /\ j = i
    BY <1>1, <2>1, RunningHas
  <2>3. \A j \in Instance : /\ ~Has(g, "running", j)' /\ ~Has(g, "aborted", j)'
                            /\ ~Has(g, "response", j)' /\ ~Has(g, "request", j)'
    BY <1>1, <1>2, <2>2, HasAre DEF Place
  <2>4. \A p \in Place, j \in Instance : ~Has(g, p, j)'
    BY <2>3 DEF Place
  <2>5. ~Unstarted(g)'
    <3>1. ~Unstarted(g)
      BY <1>1, <2>1, RunningHas
    <3> QED BY <1>1, <3>1, Steady DEF Unstarted
  <2>6. \A j \in Instance : g \notin running'[j]
    BY <2>3, HasAre
  <2> QED BY <1>1, <1>2, <2>1, <2>4, <2>5, <2>6 DEF GroupAt
<1> QED BY <1>3, <1>4 DEF GroupsKept

LEMMA MarkAbortedGroups ==
    ASSUME NEW i \in Instance, NEW g \in Group
    PROVE  Base /\ Requested /\ GroupsKept /\ MarkAborted(i, g) => GroupsKept'
<1> SUFFICES ASSUME Base, Requested, GroupsKept, MarkAborted(i, g) PROVE GroupsKept'
  OBVIOUS
<1>1. /\ policy' = policy /\ task' = task /\ sent' = sent /\ req' = req /\ resp' = resp /\ lpc' = lpc
      /\ g \in returned[i] /\ g \in running[i]
      /\ \A j \in Instance : /\ running'[j] = IF j = i THEN running[i] \ {g} ELSE running[j]
                             /\ returned'[j] = IF j = i THEN returned[i] \ {g} ELSE returned[j]
                             /\ rpc'[j] \in {"idle", "failed"} <=> rpc[j] \in {"idle", "failed"}
  BY MarkFrame
<1>2. /\ task[g] = "aborted"
      /\ \A j \in Instance : aborted'[j] = IF j = i THEN aborted[i] \cup {g} ELSE aborted[j]
  BY DEF MarkAborted, Base, TypeOK
<1>3. ASSUME NEW h \in Group \ {g} PROVE GroupAt(h)'
  <2>1. \A j \in Instance : Placed(h, j) /\ (h \in returned[j] => h \in returned'[j])
    BY <1>1, <1>2, <1>3 DEF Placed
  <2> QED BY <1>1, <2>1, GroupSame DEF GroupsKept
<1>4. GroupAt(g)'
  <2>1. GroupAt(g)
    BY DEF GroupsKept
  <2>2. \A p \in Place, j \in Instance : Has(g, p, j) <=> p = "running" /\ j = i
    BY <1>1, <2>1, RunningHas
  <2>3. "running" \in Place /\ "aborted" \in Place /\ Has(g, "running", i)
    BY <2>2 DEF Place
  <2>4. lpc[i] = "migrate_out"
    BY <1>1, <1>2, <2>1 DEF GroupAt
  <2>5. \A j \in Instance : /\ ~Has(g, "running", j)' /\ (Has(g, "aborted", j)' <=> j = i)
                            /\ ~Has(g, "response", j)' /\ ~Has(g, "request", j)'
    BY <1>1, <1>2, <2>2, <2>4, HasAre DEF Place
  <2>6. \A p \in Place, j \in Instance : Has(g, p, j)' <=> p = "aborted" /\ j = i
    BY <2>5 DEF Place
  <2> QED BY <1>1, <1>2, <2>1, <2>3, <2>6, GroupMoves
<1> QED BY <1>3, <1>4 DEF GroupsKept

\* A report tells of the groups and moves none.
LEMMA HandleReportGroups ==
    ASSUME NEW i \in Instance PROVE Base /\ Requested /\ GroupsKept /\ HandleReport(i) => GroupsKept'
<1> SUFFICES ASSUME Base, Requested, GroupsKept, HandleReport(i) PROVE GroupsKept'
  OBVIOUS
<1>1. /\ policy' = policy /\ task' = task /\ sent' = sent /\ rpc' = rpc /\ lpc' = lpc /\ UNCHANGED status
      /\ Take(i, "Report")
  BY DEF HandleReport
<1>2. Engaged(i)
  BY DEF Requested, Engaged
<1>3. /\ req'[i] = <<>> /\ req[i] # <<>> /\ req[i] \in Seq(Message(Requests)) /\ resp[i] = <<>>
      /\ ToTake(i) /\ "Report" \in Ask /\ req[i][1].action = "Report"
      /\ \A j \in Instance \ {i} : req'[j] = req[j]
  BY <1>1, <1>2, TakeFacts
<1>4. PICK m \in Nat, n \in Nat : Respond(i, Info("Report", {}, m, n))
  <2>1. /\ Cardinality(running[i] \cup done[i]) \in Nat
        /\ Cardinality({g \in running[i] : task[g] = "generating"}) \in Nat
    <3>1. running[i] \cup done[i] \in SUBSET Group
            /\ {g \in running[i] : task[g] = "generating"} \in SUBSET Group
      BY DEF Base, TypeOK
    <3> QED BY <3>1, InstanceFacts DEF Base, TypeOK
  <2> QED BY <2>1 DEF HandleReport
<1>5. /\ "Report" \in Responses /\ Info("Report", {}, m, n) \in Message(Responses)
      /\ resp[i] \in Seq(Message(Responses))
  BY InfoType DEF Responses, Base, TypeOK
<1>6. resp'[i] = Append(resp[i], Info("Report", {}, m, n)) /\ \A j \in Instance \ {i} : resp'[j] = resp[j]
  BY <1>4, <1>5, RespondType DEF Base
<1>7. Carried(resp'[i]) = Carried(resp[i])
  BY <1>5, <1>6, CarriedAsk
<1>8. Carried(req'[i]) = Carried(req[i])
  <2>1. Carried(req[i]) = Head(req[i]).data \cup Carried(Tail(req[i]))
    BY <1>3, CarriedTail
  <2>2. Head(req[i]) = req[i][1] /\ 1 \in 1 .. Len(req[i]) /\ Tail(req[i]) = req'[i]
    BY ZenonT(30), <1>1, <1>2, <1>3, TailOne, TakeFacts
  <2>3. req[i][1].data = {}
    BY <1>2, <1>3, <2>2 DEF Engaged, QueueOf
  <2> QED BY <1>3, <2>1, <2>2, <2>3
<1>9. \A g \in Group, j \in Instance : Placed(g, j)
  BY <1>1, <1>3, <1>6, <1>7, <1>8 DEF Placed, status
<1> QED BY <1>1, <1>9, NoGroupMoves DEF status

\* A request other than Migrate_In carries no groups.
LEMMA TakenAsk ==
    ASSUME Base, NEW i \in Instance, Engaged(i), NEW kind, kind # "Migrate_In", Take(i, kind)
    PROVE  \A j \in Instance : Carried(req'[j]) = Carried(req[j])
<1>1. /\ req'[i] = <<>> /\ req[i] # <<>> /\ req[i] \in Seq(Message(Requests)) /\ req[i][1].action = kind
      /\ req'[i] = Tail(req[i]) /\ \A j \in Instance \ {i} : req'[j] = req[j]
  BY TakeFacts
<1>2. Carried(req[i]) = Head(req[i]).data \cup Carried(Tail(req[i]))
  BY <1>1, CarriedTail
<1>3. Head(req[i]) = req[i][1] /\ 1 \in 1 .. Len(req[i])
  BY <1>1, TailOne
<1>4. req[i][1].data = {}
  BY <1>1, <1>3 DEF Engaged, QueueOf
<1> QED BY <1>1, <1>2, <1>3, <1>4

LEMMA HandleDrainGroups ==
    ASSUME NEW i \in Instance PROVE Base /\ Requested /\ GroupsKept /\ HandleDrain(i) => GroupsKept'
<1> SUFFICES ASSUME Base, Requested, GroupsKept, HandleDrain(i) PROVE GroupsKept'
  OBVIOUS
<1>1. /\ policy' = policy /\ task' = task /\ sent' = sent /\ rpc' = rpc /\ resp' = resp /\ UNCHANGED status
  BY DEF HandleDrain
<1>2. PICK kind \in {"Migrate_Out", "Finish", "Wait_For_Finish"} :
         Take(i, kind) /\ lpc' = [lpc EXCEPT ![i] = IF kind = "Migrate_Out" THEN "migrate_out" ELSE "finish"]
  BY DEF HandleDrain
<1>3. Engaged(i)
  BY DEF Requested, Engaged
<1>4. lpc[i] = "idle" /\ kind \in Ask /\ ToTake(i)
  BY <1>2, <1>3, TakeFacts
<1>5. kind = "Migrate_Out" => aborted[i] = {}
  BY <1>4 DEF Ask, Wait, ToTake
<1>6. \A j \in Instance : Carried(req'[j]) = Carried(req[j])
  BY <1>2, <1>3, TakenAsk
<1>7. /\ lpc'[i] = IF kind = "Migrate_Out" THEN "migrate_out" ELSE "finish"
      /\ \A j \in Instance \ {i} : lpc'[j] = lpc[j]
  BY <1>2 DEF Base, TypeOK
<1>8. \A g \in Group, j \in Instance : Placed(g, j)
  BY <1>1, <1>4, <1>5, <1>6, <1>7 DEF Placed, status
<1>9. \A j \in Instance : lpc[j] = "migrate_out" => lpc'[j] = "migrate_out"
  BY <1>4, <1>7
<1> QED BY <1>1, <1>8, <1>9, NoGroupMoves DEF status

\* The groups that were given up go into the response.
LEMMA DrainedGroups ==
    ASSUME NEW i \in Instance PROVE Base /\ Requested /\ GroupsKept /\ Drained(i) => GroupsKept'
<1> SUFFICES ASSUME Base, Requested, GroupsKept, Drained(i) PROVE GroupsKept'
  OBVIOUS
<1>1. /\ policy' = policy /\ task' = task /\ sent' = sent /\ rpc' = rpc /\ req' = req
      /\ running' = running /\ aborted' = aborted /\ returned' = returned
      /\ running[i] = {} /\ lpc[i] # "idle" /\ lpc'[i] = "idle"
      /\ \A j \in Instance \ {i} : lpc'[j] = lpc[j]
  BY DEF Drained, Base, TypeOK
<1>2. CASE lpc[i] # "migrate_out"
  <2>1. resp' = resp
    BY <1>2 DEF Drained
  <2>2. \A g \in Group, j \in Instance : Placed(g, j)
    BY <1>1, <1>2, <2>1 DEF Placed
  <2>3. \A j \in Instance : lpc[j] = "migrate_out" => lpc'[j] = "migrate_out"
    BY <1>1, <1>2
  <2> QED BY <1>1, <2>2, <2>3, NoGroupMoves
<1>3. CASE lpc[i] = "migrate_out"
  <2>1. Respond(i, Info("Migrate_Out", aborted[i], 0, 0)) /\ aborted[i] \in SUBSET Group
    BY <1>3 DEF Drained, Base, TypeOK
  <2>2. /\ Info("Migrate_Out", aborted[i], 0, 0) \in Message(Responses)
        /\ Info("Migrate_Out", aborted[i], 0, 0).data = aborted[i]
    <3>1. "Migrate_Out" \in Responses
      BY DEF Responses
    <3> QED BY <2>1, <3>1, InfoType
  <2>3. /\ resp'[i] = Append(resp[i], Info("Migrate_Out", aborted[i], 0, 0))
        /\ \A j \in Instance \ {i} : resp'[j] = resp[j]
    BY <2>1, <2>2, RespondType DEF Base
  <2>4. Carried(resp'[i]) = Carried(resp[i]) \cup aborted[i]
    <3>1. resp[i] \in Seq(Message(Responses))
      BY DEF Base, TypeOK
    <3> QED BY <2>2, <2>3, <3>1, CarriedAppend
  <2>5. ASSUME NEW g \in Group, g \notin aborted[i] PROVE GroupAt(g)'
    <3>1. \A j \in Instance : Placed(g, j)
            /\ (g \in running[j] /\ lpc[j] = "migrate_out" => lpc'[j] = "migrate_out")
      BY <1>1, <2>3, <2>4, <2>5 DEF Placed
    <3> QED BY <1>1, <3>1, GroupSame DEF GroupsKept
  <2>6. ASSUME NEW g \in Group, g \in aborted[i] PROVE GroupAt(g)'
    <3>1. GroupAt(g)
      BY DEF GroupsKept
    <3>2. Has(g, "aborted", i) /\ "aborted" \in Place /\ "response" \in Place
      BY <1>3, <2>6, HasAre DEF Place
    <3>3. \A p \in Place, j \in Instance : Has(g, p, j) <=> p = "aborted" /\ j = i
      BY <3>1, <3>2 DEF GroupAt
    <3>4. task[g] # "sending"
      <4>1. g \notin returned[i]
        BY <1>1 DEF Requested, RolloutOf
      <4> QED BY <3>1, <3>2, <4>1 DEF GroupAt
    <3>5. \A j \in Instance : /\ ~Has(g, "running", j)' /\ ~Has(g, "aborted", j)'
                              /\ (Has(g, "response", j)' <=> j = i) /\ ~Has(g, "request", j)'
      BY <1>1, <2>3, <2>4, <2>6, <3>3, HasAre DEF Place
    <3>6. \A p \in Place, j \in Instance : Has(g, p, j)' <=> p = "response" /\ j = i
      BY <3>5 DEF Place
    <3> QED BY <1>1, <3>1, <3>2, <3>4, <3>6, GroupMoves
  <2> QED BY <2>5, <2>6 DEF GroupsKept
<1> QED BY <1>2, <1>3

\* The groups of a request run on the instance that takes it.
LEMMA HandleMigrateInGroups ==
    ASSUME NEW i \in Instance PROVE Base /\ Requested /\ GroupsKept /\ HandleMigrateIn(i) => GroupsKept'
<1> SUFFICES ASSUME Base, Requested, GroupsKept, HandleMigrateIn(i) PROVE GroupsKept'
  OBVIOUS
<1> DEFINE given == Head(req[i]).data
<1>1. /\ policy' = policy /\ sent' = sent /\ rpc' = rpc /\ resp' = resp /\ lpc' = lpc
      /\ aborted' = aborted /\ returned' = returned /\ Take(i, "Migrate_In")
      /\ \A j \in Instance : running'[j] = IF j = i THEN running[i] \cup given ELSE running[j]
      /\ \A g \in Group : task'[g] = IF g \in given THEN "generating" ELSE task[g]
  BY DEF HandleMigrateIn, Base, TypeOK
<1>2. Engaged(i)
  BY DEF Requested, Engaged
<1>3. /\ req[i] # <<>> /\ req[i] \in Seq(Message(Requests)) /\ given \subseteq Group
      /\ req'[i] = Tail(req[i]) /\ \A j \in Instance \ {i} : req'[j] = req[j]
  BY <1>1, <1>2, TakeFacts
<1>4. Carried(req[i]) = given \cup Carried(req'[i])
  BY <1>3, CarriedTail
<1>5. Carried(req'[i]) = {}
  <2>1. /\ Len(req[i]) \in Nat /\ DOMAIN Tail(req[i]) = 1 .. Len(req[i]) - 1
        /\ \A n \in 1 .. Len(req[i]) - 1 : n + 1 \in 1 .. Len(req[i]) /\ Tail(req[i])[n] = req[i][n + 1]
    BY <1>3, TailOne
  <2>2. ASSUME NEW n \in 1 .. Len(req[i]) - 1 PROVE req'[i][n].data = {}
    <3>1. n + 1 \in 1 .. Len(req[i]) /\ n + 1 # 1 /\ req'[i][n] = req[i][n + 1]
      BY <1>3, <2>1
    <3> QED BY <1>2, <3>1 DEF Engaged, QueueOf
  <2>3. DOMAIN req'[i] = 1 .. Len(req[i]) - 1
    BY <1>3, <2>1
  <2> QED BY <2>2, <2>3 DEF Carried
<1>6. ASSUME NEW g \in Group, g \notin given PROVE GroupAt(g)'
  <2>1. \A j \in Instance : Placed(g, j)
    BY <1>1, <1>3, <1>4, <1>6 DEF Placed
  <2> QED BY <1>1, <1>6, <2>1, GroupSame DEF GroupsKept
<1>7. ASSUME NEW g \in Group, g \in given PROVE GroupAt(g)'
  <2>1. GroupAt(g)
    BY DEF GroupsKept
  <2>2. Has(g, "request", i) /\ "request" \in Place /\ "running" \in Place
    BY <1>4, <1>7, HasAre DEF Place
  <2>3. \A p \in Place, j \in Instance : Has(g, p, j) <=> p = "request" /\ j = i
    BY <2>1, <2>2 DEF GroupAt
  <2>4. task[g] # "sending"
    <3>1. g \notin running[i]
      BY <2>2, <2>3, HasAre
    <3> QED BY <1>2, <2>1, <2>2, <3>1 DEF GroupAt, Engaged, RolloutOf
  <2>5. \A j \in Instance : /\ (Has(g, "running", j)' <=> j = i) /\ ~Has(g, "aborted", j)'
                            /\ ~Has(g, "response", j)' /\ ~Has(g, "request", j)'
    <3>1. \A j \in Instance : ~Has(g, "running", j) /\ ~Has(g, "aborted", j) /\ ~Has(g, "response", j)
                              /\ (Has(g, "request", j) <=> j = i)
      BY <2>3 DEF Place
    <3> HIDE DEF given
    <3> QED BY <1>1, <1>3, <1>4, <1>5, <1>7, <3>1, HasAre
  <2>6. \A p \in Place, j \in Instance : Has(g, p, j)' <=> p = "running" /\ j = i
    BY <2>5 DEF Place
  <2>7. task'[g] = "generating"
    BY <1>1, <1>7
  <2>8. /\ sent'[g] = sent[g] /\ task'[g] # "sending" /\ task'[g] # "aborted" /\ policy' = policy
        /\ \A k \in Instance : rpc'[k] = rpc[k]
    BY <1>1, <2>7
  <2> HIDE DEF given
  <2> QED BY <2>1, <2>2, <2>4, <2>6, <2>8, GroupMoves
<1> QED BY <1>6, <1>7 DEF GroupsKept

LEMMA InitGroups == Init => GroupsKept
<1> SUFFICES ASSUME Init, NEW g \in Group PROVE GroupAt(g)
  BY DEF GroupsKept
<1>1. policy \in Policies
  BY DEF Init
<1>2. task[g] = "generating" /\ sent[g] = 0
  BY DEF Init
<1>3. ASSUME NEW i \in Instance
      PROVE  running[i] = {} /\ aborted[i] = {} /\ resp[i] = <<>> /\ req[i] = <<>> /\ rpc[i] = "idle"
  BY DEF Init
<1>4. \A p \in Place, i \in Instance : ~Has(g, p, i)
  BY <1>3, HasAre, CarriedNothing DEF Place
<1>5. Unstarted(g)
  BY <1>1, <1>3, BatchOfGroup DEF Unstarted
<1> QED BY <1>2, <1>3, <1>4, <1>5 DEF GroupAt

LEMMA GroupsStep == Base /\ Requested /\ GroupsKept /\ [Next]_vars => GroupsKept'
<1> SUFFICES ASSUME Base, Requested, GroupsKept, [Next]_vars PROVE GroupsKept'
  OBVIOUS
<1>1. CASE Scheduler
  BY <1>1, SchedulerGroups, MigratedGroups
<1>2. ASSUME NEW i \in Instance, Rollout(i) PROVE GroupsKept'
  BY <1>2, StartGroups, CollectGroups, WakeGroups, OffloadGroups, SendGroups, MarkDoneGroups,
     MarkAbortedGroups
     DEF Rollout
<1>3. ASSUME NEW i \in Instance, MainLoop(i) PROVE GroupsKept'
  BY <1>3, HandleReportGroups, HandleMigrateInGroups, HandleDrainGroups, DrainedGroups DEF MainLoop
<1>4. ASSUME NEW g \in Group, Generate(g) PROVE GroupsKept'
  BY <1>4, GenerateGroups
<1>5. CASE FinishInference \/ BeginTraining \/ Train \/ Scale \/ UNCHANGED vars
  <2>1. policy' = policy /\ UNCHANGED <<req, resp, rpc, lpc, status, task, sent>>
    BY <1>5 DEF FinishInference, BeginTraining, Train, Scale, vars
  <2>2. \A g \in Group, i \in Instance : Placed(g, i)
    BY <2>1 DEF Placed, status
  <2> QED BY <2>1, <2>2, NoGroupMoves DEF status
<1> QED BY <1>1, <1>2, <1>3, <1>4, <1>5 DEF Next, Idle

-----------------------------------------------------------------------------
\* Every state that can be reached has these invariants.
Kept == Base /\ Requested /\ GroupsKept

LEMMA KeptAlways == Spec => []Kept
<1>1. Init => Kept
  BY InitBase, InitRequested, InitGroups DEF Kept
<1>2. Kept /\ [Next]_vars => Kept'
  BY BaseStep, RequestedStep, GroupsStep DEF Kept
<1> QED BY <1>1, <1>2, PTL DEF Spec

\* No group is given to an instance whose rollout() has left its loop, however the policies, the
\* sizes and the number of instances are: when rollout() is told that the step is over
\* (wait_notification after main_loop's finish), no Migrate_In can be in its channel any more.
THEOREM NoGroupForTheDeadHolds == Spec => []NoGroupForTheDead
<1>1. Kept => NoGroupForTheDead
  <2> SUFFICES ASSUME Kept, NEW i \in Instance, rpc[i] \in {"offloading", "finished"}
               PROVE  running[i] = {} /\ Carried(req[i]) = {}
    BY DEF NoGroupForTheDead
  <2>1. RolloutOf(i) /\ PhaseOf(i) /\ ~Open(i)
    BY DEF Kept, Requested, Open, Past
  <2>2. running[i] = {}
    BY <2>1 DEF RolloutOf, Past
  <2>3. req[i] = <<>>
    BY <2>1 DEF PhaseOf, Gone, Unasked, ToTake, AtWork, Responded
  <2> QED BY <2>2, <2>3, CarriedNothing
<1> QED BY <1>1, KeptAlways, PTL

\* _gather_responses never takes the response to one request for that to another: what is in a
\* response channel is what the scheduler waits for there.
THEOREM ResponsesMatchHolds == Spec => []ResponsesMatch
<1>1. Kept => ResponsesMatch
  <2> SUFFICES ASSUME Kept, NEW i \in Instance, resp[i] # <<>>
               PROVE  \/ spc = "reports" /\ i \in Alive /\ Head(resp[i]).action = "Report"
                      \/ spc = "migrated" /\ i \in leaving /\ Head(resp[i]).action = "Migrate_Out"
                      \/ spc = "offloaded" /\ i \in leaving /\ Head(resp[i]).action = "Offloaded"
    BY DEF ResponsesMatch
  <2>1. Responded(i) /\ i \in WaitedFor
    BY DEF Kept, Requested, PhaseOf, Gone, Unasked, ToTake, AtWork
  <2>2. Head(resp[i]) = resp[i][1]
    BY TailOne DEF Kept, Base, TypeOK
  <2> QED BY <2>1, <2>2 DEF Responded, WaitedFor
<1> QED BY <1>1, KeptAlways, PTL

\* A place holds a group once or not at all.
LEMMA AtMostOne ==
    ASSUME NEW S, \A i, j \in S : i = j
    PROVE  Cardinality(S) = IF S # {} THEN 1 ELSE 0
<1>1. CASE S # {}
  <2>1. PICK i \in S : S = {i}
    BY <1>1
  <2> QED BY <1>1, <2>1, FS_Singleton
<1>2. CASE S = {}
  BY <1>2, FS_EmptySet
<1> QED BY <1>1, <1>2

\* migrate_out, migrate and migrate_in neither lose nor duplicate a sequence group: until its one
\* result is sent it is in one place, with any number of groups, instances and migrations.
THEOREM ExactlyOnceHolds == Spec => []ExactlyOnce
<1>1. Kept => ExactlyOnce
  <2> SUFFICES ASSUME Kept, NEW g \in Group
               PROVE  /\ sent[g] <= 1
                      /\ Places(g) = IF sent[g] = 1
                                     THEN IF \E i \in Instance : g \in returned[i] THEN 1 ELSE 0
                                     ELSE IF Unstarted(g) THEN 0 ELSE 1
    BY DEF ExactlyOnce, Unstarted
  <2> DEFINE R == {i \in Instance : g \in running[i]}
             A == {i \in Instance : g \in aborted[i] /\ lpc[i] = "migrate_out"}
             B == {i \in Instance : g \in Carried(resp[i])}
             Q == {i \in Instance : g \in Carried(req[i])}
  <2>1. GroupAt(g) /\ \A i \in Instance : RolloutOf(i)
    BY DEF Kept, GroupsKept, Requested
  <2>2. \A i \in Instance : /\ i \in R <=> Has(g, "running", i)
                            /\ i \in A <=> Has(g, "aborted", i)
                            /\ i \in B <=> Has(g, "response", i)
                            /\ i \in Q <=> Has(g, "request", i)
    BY HasAre
  <2>3. /\ "running" \in Place /\ "aborted" \in Place /\ "response" \in Place /\ "request" \in Place
        /\ \A p \in Place : p \in {"running", "aborted", "response", "request"}
        /\ R \subseteq Instance /\ A \subseteq Instance /\ B \subseteq Instance /\ Q \subseteq Instance
    BY DEF Place
  <2>4. Places(g) = Cardinality(R) + Cardinality(A) + Cardinality(B) + Cardinality(Q)
    BY DEF Places
  <2> HIDE DEF R, A, B, Q
  <2>5. /\ \A i, j \in R : i = j
        /\ \A i, j \in A : i = j
        /\ \A i, j \in B : i = j
        /\ \A i, j \in Q : i = j
    BY <2>1, <2>2, <2>3 DEF GroupAt
  <2>6. /\ R # {} => A = {} /\ B = {} /\ Q = {}
        /\ A # {} => B = {} /\ Q = {}
        /\ B # {} => Q = {}
    BY <2>1, <2>2, <2>3 DEF GroupAt
  <2>7. Places(g) = IF R \cup A \cup B \cup Q # {} THEN 1 ELSE 0
    <3>1. /\ Cardinality(R) = IF R # {} THEN 1 ELSE 0
          /\ Cardinality(A) = IF A # {} THEN 1 ELSE 0
          /\ Cardinality(B) = IF B # {} THEN 1 ELSE 0
          /\ Cardinality(Q) = IF Q # {} THEN 1 ELSE 0
      BY <2>5, AtMostOne
    <3> QED BY <2>4, <2>6, <3>1
  <2>8. (R \cup A \cup B \cup Q # {}) <=> \E p \in Place, i \in Instance : Has(g, p, i)
    BY <2>2, <2>3
  <2>9. CASE task[g] # "sending"
    BY <2>1, <2>7, <2>8, <2>9 DEF GroupAt
  <2>10. CASE task[g] = "sending"
    <3>1. sent[g] = 1
      BY <2>1, <2>10 DEF GroupAt
    <3>2. (\E p \in Place, i \in Instance : Has(g, p, i)) <=> \E i \in Instance : g \in returned[i]
      <4>1. \A i \in Instance : g \in returned[i] => Has(g, "running", i)
        BY <2>1, HasAre DEF RolloutOf
      <4> QED BY <2>1, <2>3, <2>10, <4>1 DEF GroupAt
    <3> QED BY <2>7, <2>8, <3>1, <3>2
  <2> QED BY <2>9, <2>10
<1> QED BY <1>1, KeptAlways, PTL

-----------------------------------------------------------------------------
(* The actor and the GPUs.                                                 *)

Sized == ActorInv /\ LastLeave /\ AllGone /\ GpuInv

LEMMA SizeFacts ==
    ASSUME Base
    PROVE  /\ ActorSize \in Nat \ {0} /\ Released \in Int /\ ActorGpus \in Nat /\ InferenceGpus \in Nat
           /\ policy.pre \in BOOLEAN /\ policy.wait \in BOOLEAN
           /\ LastIter \in Nat \ {0} /\ LastIter = NumIters - 1 /\ NumIters \in Nat
           /\ iter \in 0 .. LastIter /\ avail \in Nat
           /\ inferenceUp \in BOOLEAN => Freed \in Int /\ Freed >= ActorGpus + Released
<1>1. /\ actorDp \in Nat \ {0} /\ ActorMP \in Nat \ {0} /\ offset \in Nat /\ RolloutMP \in Nat
      /\ ActorGpus \in Nat /\ InferenceGpus \in Nat /\ NumIters \in Nat \ {0, 1}
  BY Config, SchedulerAssumption DEF Base, TypeOK, ValidDp
<1>2. \A a, b \in Nat \ {0} : a * b \in Nat \ {0}
  OBVIOUS
<1>3. ActorSize \in Nat \ {0}
  BY <1>1, <1>2 DEF ActorSize
<1>4. offset * RolloutMP \in Int
  BY <1>1
<1>5. Released \in Int
  BY <1>1, <1>4 DEF Released
<1>6. inferenceUp \in BOOLEAN => Freed \in Int /\ Freed >= ActorGpus + Released
  BY <1>1, <1>5 DEF Freed
<1> QED BY <1>1, <1>3, <1>5, <1>6, Config DEF Base, TypeOK, LastIter

\* What the scheduler keeps is kept while it waits.
LEMMA SizedKept ==
    ASSUME policy' = policy, UNCHANGED <<sched, inference, actor>>, Sized
    PROVE  Sized'
<1>1. /\ UNCHANGED <<stage, spc, iter, offset, leaving, avail, actorDp, inferenceUp, inference>>
      /\ UNCHANGED <<apc, aiter, world, areq>>
  BY DEF sched, actor
<1>2. ActorSize' = ActorSize /\ Released' = Released /\ Freed' = Freed /\ Alive' = Alive
  BY <1>1 DEF ActorSize, Released, Freed, Alive, NumInstances
<1>3. ActorInv'
  BY <1>1, <1>2 DEF Sized, ActorInv
<1>4. LastLeave' /\ AllGone'
  BY <1>1, <1>2 DEF Sized, LastLeave, AllGone
<1>5. GpuInv'
  BY <1>1, <1>2 DEF Sized, GpuInv
<1> QED BY <1>3, <1>4, <1>5 DEF Sized

LEMMA InitSized == Init => Sized
<1> SUFFICES ASSUME Init PROVE Sized
  OBVIOUS
<1>1. Base /\ ActorSize = ActorGpus
  <2>1. (ActorGpus \div ActorMP) * ActorMP = ActorGpus
    BY SchedulerAssumption, DivideExact
  <2> QED BY <2>1, InitBase DEF Init, ActorSize
<1>2. LastIter \in Nat \ {0} /\ ActorGpus \in Nat /\ policy.pre \in BOOLEAN
  BY <1>1, SizeFacts
<1>3. /\ stage = "pre" /\ spc = "begin" /\ iter = 0 /\ offset = 0 /\ leaving = {} /\ avail = 0
      /\ inferenceUp = TRUE
      /\ inference = "running" /\ apc = (IF policy.pre THEN "pre" ELSE "training") /\ aiter = 0
      /\ world = ActorGpus /\ areq = <<>>
  BY DEF Init
<1>4. areq \in Seq(Nat)
  BY <1>3
<1>5. ActorInv
  BY <1>1, <1>2, <1>3, <1>4 DEF ActorInv
<1>6. LastLeave /\ AllGone /\ GpuInv
  BY <1>1, <1>3 DEF LastLeave, AllGone, GpuInv
<1> QED BY <1>5, <1>6 DEF Sized

\* The sizes stay as they are in a step that neither takes nor gives.
LEMMA SameSizes ==
    ASSUME policy' = policy, actorDp' = actorDp, offset' = offset, inferenceUp' = inferenceUp
    PROVE  ActorSize' = ActorSize /\ Released' = Released /\ Freed' = Freed /\ Alive' = Alive
BY DEF ActorSize, Released, Freed, Alive, NumInstances

LEMMA BeginSized == Base /\ Sized /\ Begin => Sized'
<1> SUFFICES ASSUME Base, Sized, Begin PROVE Sized'
  OBVIOUS
<1>1. /\ policy' = policy /\ UNCHANGED <<iter, offset, leaving, avail, actorDp, inferenceUp, inference>>
      /\ UNCHANGED <<apc, aiter, world, areq>> /\ spc = "begin"
      /\ IF policy.pre THEN spc' = "reports" /\ stage' = stage ELSE spc' = "wait_actor" /\ stage' = "main"
  BY DEF Begin, actor
<1>2. ActorSize' = ActorSize /\ Released' = Released /\ Freed' = Freed /\ Alive' = Alive
  BY <1>1, SameSizes
<1>3. stage = "pre" /\ iter = 0 /\ offset = 0 /\ avail = 0 /\ inferenceUp /\ ActorSize = ActorGpus
  BY <1>1 DEF Sized, GpuInv, Base, TypeOK
<1>4. ActorInv'
  BY <1>1, <1>2, <1>3 DEF Sized, ActorInv
<1>5. LastLeave' /\ AllGone'
  BY <1>1, <1>3, SizeFacts DEF LastLeave, AllGone
<1>6. GpuInv'
  <2>1. CASE policy.pre
    BY <1>1, <1>2, <1>3, <2>1 DEF Sized, GpuInv
  <2>2. CASE ~policy.pre
    <3>1. 0 * RolloutMP = 0
      BY SchedulerAssumption
    <3>2. Released = 0 /\ Freed = ActorGpus
      BY <1>3, <2>2, <3>1, SizeFacts DEF Released, Freed
    <3>3. world = ActorSize
      BY <1>3, <2>2 DEF Sized, ActorInv
    <3> QED BY <1>1, <1>2, <1>3, <2>2, <3>2, <3>3, SizeFacts DEF Sized, GpuInv
  <2> QED BY <2>1, <2>2
<1> QED BY <1>4, <1>5, <1>6 DEF Sized

\* Under the pre-process policy as many instances leave as hold the actor's GPUs.
LEMMA PreReportsSized == Base /\ Sized /\ PreReports => Sized'
<1> SUFFICES ASSUME Base, Sized, PreReports PROVE Sized'
  OBVIOUS
<1>1. /\ policy' = policy /\ UNCHANGED <<stage, iter, offset, avail, actorDp, inferenceUp, inference>>
      /\ UNCHANGED <<apc, aiter, world, areq>> /\ spc = "reports" /\ stage = "pre"
      /\ \/ spc' = "reports" /\ leaving' = leaving
         \/ MigrateOut(ActorGpus \div RolloutMP)
  BY DEF PreReports, TakeReports, actor
<1>2. ActorSize' = ActorSize /\ Released' = Released /\ Freed' = Freed /\ Alive' = Alive
  BY <1>1, SameSizes
<1>3. spc' \in {"reports", "migrated"}
  BY <1>1 DEF MigrateOut
<1>4. ActorInv' /\ LastLeave' /\ AllGone'
  BY <1>1, <1>2, <1>3 DEF Sized, ActorInv, LastLeave, AllGone
<1>5. spc' = "migrated" => Cardinality(leaving') * RolloutMP = ActorGpus
  <2> SUFFICES ASSUME spc' = "migrated" PROVE Cardinality(leaving') * RolloutMP = ActorGpus
    OBVIOUS
  <2>1. policy.pre /\ offset = 0
    BY <1>1 DEF Base, Leaving
  <2>2. /\ ActorGpus \div RolloutMP \in Nat \ {0} /\ (ActorGpus \div RolloutMP) * RolloutMP = ActorGpus
    BY <2>1, Config DEF Base, TypeOK
  <2>3. leaving' = 0 .. (ActorGpus \div RolloutMP) - 1
    BY <1>1, <1>3, <2>1, <2>2 DEF MigrateOut
  <2>4. \A n \in Nat \ {0} : 0 \in Int /\ n - 1 \in Int /\ (IF 0 > n - 1 THEN 0 ELSE n - 1 - 0 + 1) = n
    OBVIOUS
  <2>5. Cardinality(0 .. (ActorGpus \div RolloutMP) - 1) = ActorGpus \div RolloutMP
    BY <2>2, <2>4, FS_Interval
  <2> QED BY <2>2, <2>3, <2>5
<1>6. GpuInv'
  BY <1>1, <1>2, <1>3, <1>5 DEF Sized, GpuInv
<1> QED BY <1>4, <1>6 DEF Sized

\* The actor is in this place while the scheduler goes round.
LEMMA ActorScales ==
    ASSUME Base, Sized, spc \notin {"begin", "wait_actor", "stopped"}, stage = "main"
    PROVE  apc = "scaling" /\ areq = <<>> /\ aiter = iter /\ world = ActorSize
BY DEF Sized, ActorInv

LEMMA MainReportsSized == Base /\ Sized /\ MainReports => Sized'
<1> SUFFICES ASSUME Base, Sized, MainReports PROVE Sized'
  OBVIOUS
<1> DEFINE last == iter = LastIter \/ (policy.wait /\ iter = NumIters - 2)
<1>1. /\ policy' = policy /\ UNCHANGED <<stage, iter, offset, avail, actorDp, inferenceUp, inference>>
      /\ UNCHANGED <<apc, aiter, world, areq>> /\ spc = "reports" /\ stage = "main"
  BY DEF MainReports, TakeReports, actor
<1>2. ActorSize' = ActorSize /\ Released' = Released /\ Freed' = Freed /\ Alive' = Alive
  BY <1>1, SameSizes
<1>3. /\ spc' \in {"inference", "offloaded", "migrated"}
      /\ last => spc' = "offloaded" /\ leaving' = Alive
  <2>1. iter # LastIter
    BY <1>1 DEF Sized, LastLeave
  <2> QED BY <2>1 DEF MainReports, FinishAll, MigrateOut
<1>4. ActorInv'
  <2>1. apc = "scaling" /\ areq = <<>> /\ aiter = iter /\ world = ActorSize
    BY <1>1, ActorScales
  <2> QED BY <1>1, <1>2, <1>3, <2>1 DEF Sized, ActorInv
<1>5. LastLeave' /\ AllGone'
  BY <1>1, <1>2, <1>3 DEF LastLeave, AllGone
<1>6. GpuInv'
  BY <1>1, <1>2, <1>3 DEF Sized, GpuInv
<1> QED BY <1>4, <1>5, <1>6 DEF Sized

LEMMA ActorReadySized == Base /\ Sized /\ ActorReady => Sized'
<1> SUFFICES ASSUME Base, Sized, ActorReady PROVE Sized'
  OBVIOUS
<1>1. /\ policy' = policy /\ UNCHANGED <<stage, iter, offset, avail, actorDp, inferenceUp, inference>>
      /\ UNCHANGED <<aiter, world, areq>> /\ spc = "wait_actor" /\ apc = "ready" /\ apc' = "scaling"
      /\ \/ Alive = {} /\ spc' = "inference"
         \/ iter = LastIter /\ spc' = "offloaded" /\ leaving' = Alive
         \/ iter # LastIter /\ spc' = "reports"
  BY DEF ActorReady, FinishAll
<1>2. ActorSize' = ActorSize /\ Released' = Released /\ Freed' = Freed /\ Alive' = Alive
  BY <1>1, SameSizes
<1>3. stage = "main"
  BY <1>1 DEF Sized, ActorInv, Base, TypeOK
<1>4. ActorInv'
  BY <1>1, <1>2, <1>3 DEF Sized, ActorInv
<1>5. LastLeave' /\ AllGone'
  BY <1>1, <1>2 DEF LastLeave, AllGone
<1>6. GpuInv'
  BY <1>1, <1>2, <1>3 DEF Sized, GpuInv
<1> QED BY <1>4, <1>5, <1>6 DEF Sized

LEMMA MigratedSized == Base /\ Sized /\ Migrated => Sized'
<1> SUFFICES ASSUME Base, Sized, Migrated PROVE Sized'
  OBVIOUS
<1>1. /\ policy' = policy
      /\ UNCHANGED <<stage, iter, offset, leaving, avail, actorDp, inferenceUp, inference>>
      /\ UNCHANGED <<apc, aiter, world, areq>> /\ spc = "migrated" /\ spc' = "offloaded"
  BY DEF Migrated, actor
<1>2. ActorSize' = ActorSize /\ Released' = Released /\ Freed' = Freed /\ Alive' = Alive
  BY <1>1, SameSizes
<1>3. ActorInv' /\ LastLeave' /\ AllGone' /\ GpuInv'
  BY <1>1, <1>2 DEF Sized, ActorInv, LastLeave, AllGone, GpuInv
<1> QED BY <1>3 DEF Sized

\* The GPUs of the instances that left are the scheduler's to give.
LEMMA ReleaseMore ==
    ASSUME Base, Offloaded
    PROVE  /\ Cardinality(leaving) * RolloutMP \in Nat
           /\ Released' = Released + Cardinality(leaving) * RolloutMP
           /\ Alive' \subseteq Alive
           /\ leaving = Alive => Alive' = {}
<1>1. /\ offset' \in offset .. NumInstances /\ offset \in Nat /\ NumInstances \in Nat
      /\ Cardinality(leaving) = offset' - offset
      /\ leaving = Alive => offset' = NumInstances
  BY OffloadedFacts
<1>2. policy' = policy /\ NumInstances' = NumInstances
  BY Steady DEF Offloaded
<1>3. ActorGpus \in Nat /\ RolloutMP \in Nat /\ offset' \in Nat
  BY <1>1, SchedulerAssumption
<1>4. /\ (offset' - offset) * RolloutMP \in Nat
      /\ offset' * RolloutMP = offset * RolloutMP + (offset' - offset) * RolloutMP
      /\ offset * RolloutMP \in Nat
  <2>1. \A a, d, m \in Nat : (a + d) * m = a * m + d * m /\ d * m \in Nat /\ a * m \in Nat
    OBVIOUS
  <2>2. \A a, n \in Nat : \A b \in a .. n : b - a \in Nat /\ b = a + (b - a)
    OBVIOUS
  <2>3. offset' - offset \in Nat /\ offset' = offset + (offset' - offset)
    BY <1>1, <2>2
  <2>4. PICK d \in Nat : d = offset' - offset
    BY <2>3
  <2>5. offset' = offset + d
    BY <2>3, <2>4
  <2>6. (offset + d) * RolloutMP = offset * RolloutMP + d * RolloutMP /\ d * RolloutMP \in Nat
        /\ offset * RolloutMP \in Nat
    BY <1>1, <1>3, <2>1
  <2> QED BY <2>4, <2>5, <2>6
<1>5. Released' = Released + (offset' - offset) * RolloutMP
  <2>1. Released' = offset' * RolloutMP - (IF policy.pre THEN ActorGpus ELSE 0)
    BY <1>2 DEF Released
  <2> QED BY <1>3, <1>4, <2>1 DEF Released
<1>6. Alive' = offset' .. NumInstances - 1
  BY <1>2 DEF Alive
<1>7. Alive' \subseteq Alive
  <2>1. \A a, b, n \in Nat : a <= b => b .. n - 1 \subseteq a .. n - 1
    OBVIOUS
  <2>2. offset <= offset' /\ offset' \in Nat
    BY <1>1, <1>3
  <2> QED BY <1>1, <1>6, <2>1, <2>2 DEF Alive
<1>8. leaving = Alive => Alive' = {}
  <2>1. \A n \in Nat : n .. n - 1 = {}
    OBVIOUS
  <2> QED BY <1>1, <1>6, <2>1
<1> QED BY <1>1, <1>4, <1>5, <1>7, <1>8

LEMMA OffloadedSized == Base /\ Sized /\ Offloaded => Sized'
<1> SUFFICES ASSUME Base, Sized, Offloaded PROVE Sized'
  OBVIOUS
<1> DEFINE more == Cardinality(leaving) * RolloutMP
<1>1. /\ policy' = policy /\ UNCHANGED <<iter, actorDp, inferenceUp, inference, apc, aiter, world>>
      /\ spc = "offloaded" /\ stage' = "main"
      /\ IF stage = "pre" THEN spc' = "wait_actor" /\ areq' = Append(areq, 0) /\ avail' = avail
         ELSE /\ spc' = "inference" /\ areq' = areq
              /\ avail' = IF iter = LastIter THEN avail ELSE avail + more
  BY DEF Offloaded
<1>2. /\ more \in Nat /\ Released' = Released + more
      /\ Alive' \subseteq Alive
      /\ leaving = Alive => Alive' = {}
  BY ReleaseMore
<1> HIDE DEF more
<1>3. ActorSize' = ActorSize /\ inferenceUp \in BOOLEAN
  BY <1>1 DEF ActorSize, Sized, GpuInv
<1>4. Freed' = Freed + more /\ Freed \in Int
  <2>1. Freed' = ActorGpus + Released' + (IF inferenceUp THEN 0 ELSE InferenceGpus)
    BY <1>1 DEF Freed
  <2> QED BY <1>2, <1>3, <2>1, SizeFacts DEF Freed
<1>5. CASE stage = "pre"
  <2>1. policy.pre /\ apc = "pre" /\ areq = <<>> /\ iter = 0 /\ aiter = 0 /\ world = ActorSize
    BY <1>1, <1>5 DEF Base, Leaving, Sized, ActorInv
  <2>2. areq' = <<0>> /\ areq' \in Seq(Nat)
    <3>1. Append(<<>>, 0) = <<0>> /\ <<0>> \in Seq(Nat)
      OBVIOUS
    <3> QED BY <1>1, <1>5, <2>1, <3>1
  <2>3. ActorInv'
    BY <1>1, <1>3, <1>5, <2>1, <2>2 DEF Sized, ActorInv
  <2>4. LastLeave' /\ AllGone'
    BY <1>1, <1>5 DEF LastLeave, AllGone
  <2>5. more = ActorGpus /\ avail = 0 /\ inferenceUp /\ offset = 0 /\ ActorSize = ActorGpus
    BY <1>1, <1>5 DEF Sized, GpuInv, more
  <2>6. Released = -ActorGpus /\ Freed = 0
    <3>1. 0 * RolloutMP = 0
      BY SchedulerAssumption
    <3> QED BY <2>1, <2>5, <3>1, SizeFacts, <1>3 DEF Released, Freed
  <2>7. Released' = 0 /\ Freed' = ActorGpus /\ avail' = 0 /\ world' = ActorGpus
    BY <1>1, <1>2, <1>4, <1>5, <2>1, <2>5, <2>6, SizeFacts
  <2>8. ActorSize' = ActorGpus /\ ActorGpus \in Nat
    BY <1>3, <2>5, SizeFacts
  <2>9. GpuInv'
    BY <1>1, <1>3, <1>5, <2>5, <2>7, <2>8 DEF Sized, GpuInv
  <2> QED BY <2>3, <2>4, <2>9 DEF Sized
<1>6. CASE stage = "main"
  <2>1. apc = "scaling" /\ areq = <<>> /\ aiter = iter /\ world = ActorSize
    BY <1>1, <1>6, ActorScales
  <2>2. ActorInv'
    BY <1>1, <1>3, <1>6, <2>1 DEF Sized, ActorInv
  <2>3. LastLeave' /\ AllGone'
    BY <1>1, <1>2, <1>6 DEF Sized, LastLeave, AllGone
  <2>4. avail + ActorSize <= Freed /\ ActorSize <= Freed /\ world <= Freed /\ Released >= 0
    BY <1>1, <1>6 DEF Sized, GpuInv
  <2>5. ActorSize <= Freed + more
    BY <1>2, <1>4, <2>4, SizeFacts
  <2>6. Released + more >= 0 /\ avail' + ActorSize <= Freed + more
    BY <1>1, <1>2, <1>4, <1>6, <2>4, SizeFacts
  <2>7. GpuInv'
    BY <1>1, <1>2, <1>3, <1>4, <1>6, <2>1, <2>5, <2>6 DEF Sized, GpuInv
  <2> QED BY <2>2, <2>3, <2>7 DEF Sized
<1> QED BY <1>5, <1>6 DEF Base, TypeOK

LEMMA InferenceTurnSized == Base /\ Sized /\ InferenceTurn => Sized'
<1> SUFFICES ASSUME Base, Sized, InferenceTurn PROVE Sized'
  OBVIOUS
<1> DEFINE release == /\ iter # LastIter /\ inferenceUp
                      /\ IF policy.wait THEN MustWait ELSE inference = "offloaded"
           last == iter = LastIter \/ (policy.wait /\ iter = NumIters - 2)
<1>1. /\ policy' = policy /\ UNCHANGED <<stage, iter, offset, leaving, actorDp, inference>>
      /\ UNCHANGED <<apc, aiter, world, areq>> /\ spc = "inference" /\ spc' = "actor"
      /\ MustWait => inference = "offloaded"
      /\ inferenceUp' = (inferenceUp /\ ~release)
      /\ avail' = avail + (IF release THEN InferenceGpus ELSE 0)
  BY DEF InferenceTurn, actor
<1>2. ActorSize' = ActorSize /\ Released' = Released /\ Alive' = Alive /\ inferenceUp \in BOOLEAN
  BY <1>1 DEF ActorSize, Released, Alive, NumInstances, Sized, GpuInv
<1>3. stage = "main"
  BY <1>1 DEF Sized, GpuInv, Base, TypeOK
<1>4. apc = "scaling" /\ areq = <<>> /\ aiter = iter /\ world = ActorSize
  BY <1>1, <1>3, ActorScales
<1>5. ActorInv'
  BY <1>1, <1>2, <1>3, <1>4 DEF Sized, ActorInv
<1>6. LastLeave' /\ AllGone'
  BY <1>1, <1>2, <1>3 DEF Sized, LastLeave, AllGone
<1>7. Freed' = Freed + (IF release THEN InferenceGpus ELSE 0) /\ Freed \in Int
  <2>1. Freed' = ActorGpus + Released + (IF inferenceUp' THEN 0 ELSE InferenceGpus)
    BY <1>2 DEF Freed
  <2>2. release => inferenceUp /\ ~inferenceUp'
    BY <1>1, <1>2
  <2>3. ~release => inferenceUp' = inferenceUp
    BY <1>1, <1>2
  <2> HIDE DEF release
  <2>4. CASE release
    <3>1. Freed' = ActorGpus + Released + InferenceGpus /\ Freed = ActorGpus + Released
      BY <2>1, <2>2, <2>4, SizeFacts DEF Freed
    <3> QED BY <2>4, <3>1, SizeFacts
  <2>5. CASE ~release
    <3>1. Freed' = Freed
      BY <2>1, <2>3, <2>5 DEF Freed
    <3> QED BY <1>2, <2>5, <3>1, SizeFacts
  <2> QED BY <2>4, <2>5
<1>8. release => inference = "offloaded" /\ (policy.wait => Alive = {})
  <2>1. last => Alive = {}
    BY <1>1, <1>3 DEF Sized, LastLeave
  <2> QED BY <1>1, <2>1 DEF MustWait
<1>9. GpuInv'
  <2>1. avail + ActorSize <= Freed /\ ActorSize <= Freed /\ world <= Freed /\ Released >= 0
    BY <1>1, <1>3 DEF Sized, GpuInv
  <2> HIDE DEF release
  <2>2. avail' + ActorSize <= Freed' /\ ActorSize <= Freed'
    BY <1>1, <1>7, <2>1, SizeFacts
  <2>3. (~inferenceUp => inference = "offloaded" /\ (policy.wait => Alive = {}))'
    BY <1>1, <1>2, <1>8 DEF Sized, GpuInv
  <2> QED BY <1>1, <1>2, <1>3, <1>4, <2>1, <2>2, <2>3 DEF Sized, GpuInv
<1> QED BY <1>5, <1>6, <1>9 DEF Sized

LEMMA ActorTurnSized == Base /\ Sized /\ ActorTurn => Sized'
<1> SUFFICES ASSUME Base, Sized, ActorTurn PROVE Sized'
  OBVIOUS
<1>1. /\ policy' = policy /\ UNCHANGED <<stage, offset, leaving, inferenceUp, inference, apc, aiter, world>>
      /\ spc = "actor"
      /\ IF iter = LastIter THEN spc' = "stopped" /\ iter' = iter ELSE spc' = "wait_actor" /\ iter' = iter + 1
  BY DEF ActorTurn
<1>2. Released' = Released /\ Freed' = Freed /\ Alive' = Alive /\ inferenceUp \in BOOLEAN
  BY <1>1 DEF Freed, Released, Alive, NumInstances, Sized, GpuInv
<1>3. stage = "main"
  BY <1>1 DEF Sized, GpuInv, Base, TypeOK
<1>4. apc = "scaling" /\ areq = <<>> /\ aiter = iter /\ world = ActorSize
  BY <1>1, <1>3, ActorScales
<1>5. /\ ActorSize' \in Nat \ {0} /\ ActorSize \in Nat
      /\ areq' = Append(areq, IF ActorSize' = ActorSize THEN 0 ELSE ActorSize')
      /\ iter = LastIter => ActorSize' = ActorGpus /\ avail' = avail
      /\ iter # LastIter => avail' + ActorSize' = avail + ActorSize /\ avail' \in Nat
  <2>1. ActorSize' = actorDp' * ActorMP
    BY DEF ActorSize
  <2>2. Growth(avail) \in 0 .. avail => avail - Growth(avail) \in Nat
    BY SizeFacts
  <2> QED BY <2>1, <2>2, ActorTurnFacts, SizeFacts DEF ActorSize
<1> DEFINE x == IF ActorSize' = ActorSize THEN 0 ELSE ActorSize'
<1>6. areq' \in Seq(Nat) /\ Len(areq') = 1 /\ areq'[1] = x
  BY <1>4, <1>5
<1>7. ActorSize' = (IF x = 0 THEN world ELSE x)
  BY <1>4, <1>5
<1> HIDE DEF x
<1>8. ActorInv'
  <2>1. iter \in 0 .. LastIter /\ LastIter \in Nat
    BY SizeFacts
  <2>2. iter' \in 0 .. LastIter /\ (iter # LastIter => iter' = aiter + 1)
    BY <1>1, <1>4, <2>1
  <2> QED BY <1>1, <1>3, <1>4, <1>5, <1>6, <1>7, <2>1, <2>2 DEF Sized, ActorInv
<1>9. LastLeave' /\ AllGone'
  BY <1>1, <1>2, <1>3 DEF Sized, LastLeave, AllGone
<1>10. GpuInv'
  <2>1. avail + ActorSize <= Freed /\ ActorSize <= Freed /\ world <= Freed /\ Released >= 0
    BY <1>1, <1>3 DEF Sized, GpuInv
  <2>2. ActorSize' <= Freed
    BY SMTT(30), <1>2, <1>5, <2>1, SizeFacts
  <2>3. (spc # "stopped" => avail + ActorSize <= Freed)'
    BY <1>1, <1>2, <1>5, <2>1
  <2> QED BY <1>1, <1>2, <1>3, <2>1, <2>2, <2>3 DEF Sized, GpuInv
<1> QED BY <1>8, <1>9, <1>10 DEF Sized

\* The steps of inference and of the actor.
LEMMA FinishInferenceSized == Base /\ Sized /\ FinishInference => Sized'
<1> SUFFICES ASSUME Base, Sized, FinishInference PROVE Sized'
  OBVIOUS
<1>1. /\ policy' = policy /\ UNCHANGED <<stage, spc, iter, offset, leaving, avail, actorDp, inferenceUp>>
      /\ UNCHANGED <<apc, aiter, world, areq>> /\ inference' = "offloaded"
  BY DEF FinishInference, sched, actor
<1>2. ActorSize' = ActorSize /\ Released' = Released /\ Freed' = Freed /\ Alive' = Alive
  BY <1>1, SameSizes
<1>3. ActorInv' /\ LastLeave' /\ AllGone' /\ GpuInv'
  BY <1>1, <1>2 DEF Sized, ActorInv, LastLeave, AllGone, GpuInv
<1> QED BY <1>3 DEF Sized

LEMMA TrainSized == Base /\ Sized /\ (BeginTraining \/ Train) => Sized'
<1> SUFFICES ASSUME Base, Sized, BeginTraining \/ Train PROVE Sized'
  OBVIOUS
<1>1. /\ policy' = policy
      /\ UNCHANGED <<stage, spc, iter, offset, leaving, avail, actorDp, inferenceUp, inference>>
      /\ UNCHANGED <<aiter, world>>
      /\ \/ apc = "pre" /\ areq # <<>> /\ areq' = Tail(areq) /\ apc' = "training"
         \/ apc = "training" /\ areq' = areq /\ apc' = "ready"
  BY DEF BeginTraining, Train, sched
<1>2. ActorSize' = ActorSize /\ Released' = Released /\ Freed' = Freed /\ Alive' = Alive
  BY <1>1, SameSizes
<1>3. Tail(<<0>>) = <<>> /\ <<>> \in Seq(Nat)
  OBVIOUS
<1>4. ActorInv'
  BY ZenonT(30), <1>1, <1>2, <1>3 DEF Sized, ActorInv, Base, TypeOK
<1>5. LastLeave' /\ AllGone' /\ GpuInv'
  BY <1>1, <1>2 DEF Sized, LastLeave, AllGone, GpuInv
<1> QED BY <1>4, <1>5 DEF Sized

LEMMA ScaleSized == Base /\ Sized /\ Scale => Sized'
<1> SUFFICES ASSUME Base, Sized, Scale PROVE Sized'
  OBVIOUS
<1>1. /\ policy' = policy
      /\ UNCHANGED <<stage, spc, iter, offset, leaving, avail, actorDp, inferenceUp, inference>>
      /\ apc = "scaling" /\ areq # <<>> /\ areq' = Tail(areq)
      /\ world' = IF Head(areq) = 0 THEN world ELSE Head(areq)
      /\ IF aiter = LastIter THEN apc' = "done" /\ aiter' = aiter ELSE apc' = "training" /\ aiter' = aiter + 1
  BY DEF Scale, sched
<1>2. ActorSize' = ActorSize /\ Released' = Released /\ Freed' = Freed /\ Alive' = Alive
  BY <1>1, SameSizes
<1>3. /\ spc \in {"wait_actor", "stopped"} /\ Len(areq) = 1 /\ areq \in Seq(Nat)
      /\ ActorSize = (IF areq[1] = 0 THEN world ELSE areq[1])
      /\ IF spc = "stopped" THEN aiter = LastIter ELSE iter = aiter + 1
  BY <1>1 DEF Sized, ActorInv
<1>4. areq' = <<>> /\ Head(areq) = areq[1]
  BY <1>1, <1>3, TailOne
<1>5. world' = ActorSize /\ ActorSize \in Nat
  BY <1>1, <1>3, <1>4, SizeFacts
<1>6. stage = "main"
  BY <1>1, <1>3 DEF Sized, ActorInv, Base, TypeOK
<1>7. ActorInv'
  <2>1. iter \in 0 .. LastIter /\ LastIter \in Nat /\ aiter \in 0 .. LastIter
    BY SizeFacts DEF Sized, ActorInv
  <2>2. IF spc = "stopped" THEN apc' = "done" ELSE apc' = "training" /\ aiter' = iter
    BY <1>1, <1>3, <2>1
  <2>3. aiter' \in 0 .. LastIter /\ <<>> \in Seq(Nat)
    BY <1>1, <1>3, <2>1
  <2> QED BY <1>1, <1>2, <1>3, <1>4, <1>5, <1>6, <2>2, <2>3 DEF Sized, ActorInv
<1>8. LastLeave' /\ AllGone'
  BY <1>1, <1>2 DEF Sized, LastLeave, AllGone
<1>9. GpuInv'
  BY <1>1, <1>2, <1>5, <1>6 DEF Sized, GpuInv
<1> QED BY <1>7, <1>8, <1>9 DEF Sized

LEMMA SizedStep == Base /\ Sized /\ [Next]_vars => Sized'
<1> SUFFICES ASSUME Base, Sized, [Next]_vars PROVE Sized'
  OBVIOUS
<1>1. CASE Scheduler
  BY <1>1, BeginSized, PreReportsSized, MainReportsSized, ActorReadySized, MigratedSized, OffloadedSized,
     InferenceTurnSized, ActorTurnSized DEF Scheduler
<1>2. CASE FinishInference \/ BeginTraining \/ Train \/ Scale
  BY <1>2, FinishInferenceSized, TrainSized, ScaleSized
<1>3. ASSUME NEW i \in Instance, Rollout(i) \/ MainLoop(i) PROVE Sized'
  <2>1. policy' = policy /\ UNCHANGED <<sched, inference, actor>>
    BY <1>3 DEF Rollout, StartRollout, Collect, Wake, Offload, SendResult, MarkDone, MarkAborted,
                MainLoop, HandleReport, HandleMigrateIn, HandleDrain, Drained
  <2> QED BY <2>1, SizedKept
<1>4. CASE (\E g \in Group : Generate(g)) \/ UNCHANGED vars
  <2>1. policy' = policy /\ UNCHANGED <<sched, inference, actor>>
    BY <1>4 DEF Generate, vars
  <2> QED BY <2>1, SizedKept
<1> QED BY <1>1, <1>2, <1>3, <1>4 DEF Next, Idle

LEMMA SizedAlways == Spec => [](Kept /\ Sized)
<1>1. Init => Sized
  BY InitSized
<1>2. Kept /\ Sized /\ [Next]_vars => Sized'
  BY SizedStep DEF Kept
<1> QED BY <1>1, <1>2, KeptAlways, PTL DEF Spec

\* An instance that has left is finished, and has nothing.
LEMMA GoneFacts ==
    ASSUME Kept, NEW i \in Instance, i < offset
    PROVE  /\ req[i] = <<>> /\ resp[i] = <<>> /\ lpc[i] = "idle" /\ rpc[i] = "finished" /\ ~event[i]
           /\ running[i] = {} /\ aborted[i] = {} /\ done[i] = {}
<1>1. Gone(i) /\ RolloutOf(i)
  BY DEF Kept, Requested, PhaseOf
<1> QED BY <1>1 DEF Gone, RolloutOf, Past

\* The GPUs of the instances that have not left are behind those that the scheduler has counted.
LEMMA BehindReleased ==
    ASSUME Base, NEW i \in Instance, ~(i < offset)
    PROVE  FirstGpu(i) \in Int /\ FirstGpu(i) >= ActorGpus + Released
<1>1. /\ offset \in Nat /\ RolloutMP \in Nat /\ ActorGpus \in Nat /\ i \in Nat /\ offset <= i
      /\ policy.pre \in BOOLEAN
  BY Config, InstanceFacts, SchedulerAssumption DEF Base, TypeOK
<1>2. \A a, d, m \in Nat : (a + d) * m = a * m + d * m /\ d * m \in Nat /\ a * m \in Nat
  OBVIOUS
<1>3. \A a, b \in Nat : a <= b => b - a \in Nat /\ b = a + (b - a)
  OBVIOUS
<1>4. PICK d \in Nat : i = offset + d
  BY <1>1, <1>3
<1>5. i * RolloutMP = offset * RolloutMP + d * RolloutMP /\ d * RolloutMP \in Nat
        /\ offset * RolloutMP \in Nat
  BY <1>1, <1>2, <1>4
<1> QED BY <1>1, <1>5 DEF FirstGpu, Released

\* All that rollout can give is what it has.
LEMMA ReleasedBound == Base => Released <= RolloutGpus /\ RolloutGpus \in Nat
<1> SUFFICES ASSUME Base PROVE Released <= RolloutGpus /\ RolloutGpus \in Nat
  OBVIOUS
<1>1. /\ offset \in Nat /\ NumInstances \in Nat /\ offset <= NumInstances /\ RolloutMP \in Nat
      /\ ActorGpus \in Nat /\ RolloutGpus \in Nat /\ policy.pre \in BOOLEAN
      /\ NumInstances * RolloutMP = RolloutGpus + (IF policy.pre THEN ActorGpus ELSE 0)
  BY Config, SchedulerAssumption DEF Base, TypeOK
<1>2. \A a, d, m \in Nat : (a + d) * m = a * m + d * m /\ d * m \in Nat /\ a * m \in Nat
  OBVIOUS
<1>3. \A a, b \in Nat : a <= b => b - a \in Nat /\ b = a + (b - a)
  OBVIOUS
<1>4. PICK d \in Nat : NumInstances = offset + d
  BY <1>1, <1>3
<1>5. NumInstances * RolloutMP = offset * RolloutMP + d * RolloutMP /\ d * RolloutMP \in Nat
      /\ offset * RolloutMP \in Nat
  BY <1>1, <1>2, <1>4
<1> QED BY <1>1, <1>5 DEF Released

\* With the last step waiting for rollout and inference (wait policy), what release_resource
\* counts as released lies next to the actor's GPUs: whatever size try_allocate gives the actor,
\* it runs on no GPU of an instance that has not offloaded.
THEOREM ActorAloneWhenWaitingHolds == Spec => []ActorAloneWhenWaiting
<1>1. Kept /\ Sized => ActorAloneWhenWaiting
  <2> SUFFICES ASSUME Kept, Sized, policy.wait, apc # "pre"
               PROVE  /\ \A i \in Instance : FirstGpu(i) < world => rpc[i] = "finished"
                      /\ world > ActorGpus + RolloutGpus => inference = "offloaded"
    BY DEF ActorAloneWhenWaiting, ActorAlone
  <2>0. Base
    BY DEF Kept
  <2>1. /\ world \in Nat /\ ActorGpus \in Nat /\ Released \in Int /\ InferenceGpus \in Nat
        /\ Released <= RolloutGpus /\ RolloutGpus \in Nat
    BY <2>0, SizeFacts, ReleasedBound DEF Sized, ActorInv
  <2>2. CASE stage = "pre" \/ inferenceUp
    <3>1. world <= ActorGpus + Released
      <4>1. CASE stage = "pre"
        <5>1. ~policy.pre /\ world = ActorGpus /\ offset = 0
          BY <4>1 DEF Sized, ActorInv, GpuInv
        <5>2. 0 * RolloutMP = 0
          BY SchedulerAssumption
        <5> QED BY <2>1, <5>1, <5>2 DEF Released
      <4>2. CASE stage = "main"
        BY <2>0, <2>1, <2>2, <4>2 DEF Sized, GpuInv, Freed
      <4> QED BY <4>1, <4>2 DEF Kept, Base, TypeOK
    <3>2. ASSUME NEW i \in Instance, FirstGpu(i) < world PROVE rpc[i] = "finished"
      <4>1. i < offset
        <5>1. ~(i < offset) => FirstGpu(i) \in Int /\ FirstGpu(i) >= ActorGpus + Released
          BY <2>0, BehindReleased
        <5> QED BY <2>1, <3>1, <3>2, <5>1
      <4> QED BY <4>1, GoneFacts
    <3>3. ~(world > ActorGpus + RolloutGpus)
      BY <2>1, <3>1
    <3> QED BY <3>2, <3>3
  <2>3. CASE stage = "main" /\ ~inferenceUp
    <3>1. inference = "offloaded" /\ Alive = {}
      BY <2>3 DEF Sized, GpuInv
    <3>2. \A i \in Instance : i < offset
      BY <2>0, <3>1, AliveFacts, InstanceFacts DEF Base, TypeOK
    <3> QED BY <3>1, <3>2, GoneFacts
  <2> QED BY <2>0, <2>2, <2>3 DEF Base, TypeOK
<1> QED BY <1>1, SizedAlways, PTL

\* A global step that ends leaves every channel and status manager empty, has sent every result
\* once, and has given the actor its first size back (main_loop_finalize of the managers).
THEOREM CleanStepHolds == Spec => []CleanStep
<1>1. Kept /\ Sized => CleanStep
  <2> SUFFICES ASSUME Kept, Sized, Finished
               PROVE  /\ \A i \in Instance : /\ req[i] = <<>> /\ resp[i] = <<>> /\ lpc[i] = "idle"
                                             /\ running[i] \cup done[i] \cup aborted[i] = {}
                                             /\ ~event[i]
                      /\ areq = <<>> /\ world = ActorGpus /\ actorDp = ActorGpus \div ActorMP
                      /\ \A g \in Group : sent[g] = 1
    BY DEF CleanStep
  <2>1. Base /\ spc = "stopped" /\ apc = "done"
    BY DEF Kept, Finished
  <2>2. \A i \in Instance : i < offset
    <3>1. Alive = {}
      BY <2>1 DEF Sized, AllGone
    <3> QED BY <2>1, <3>1, AliveFacts, InstanceFacts DEF Base, TypeOK
  <2>3. \A i \in Instance :
           /\ req[i] = <<>> /\ resp[i] = <<>> /\ lpc[i] = "idle" /\ rpc[i] = "finished" /\ ~event[i]
           /\ running[i] = {} /\ aborted[i] = {} /\ done[i] = {}
    BY <2>2, GoneFacts
  <2>4. areq = <<>> /\ world = ActorGpus /\ ActorSize = ActorGpus
    BY <2>1 DEF Sized, ActorInv
  <2>5. actorDp = ActorGpus \div ActorMP
    <3>1. actorDp \in Nat /\ ActorMP \in Nat \ {0}
      BY <2>1, SchedulerAssumption DEF Base, TypeOK, ValidDp
    <3>2. (actorDp * ActorMP) \div ActorMP = actorDp
      BY <3>1, DivideProduct
    <3> QED BY <2>4, <3>2 DEF ActorSize
  <2>6. ASSUME NEW g \in Group PROVE sent[g] = 1
    <3>1. GroupAt(g)
      BY DEF Kept, GroupsKept
    <3>2. ~Unstarted(g)
      BY <2>3 DEF Unstarted
    <3>3. \A p \in Place, i \in Instance : ~Has(g, p, i)
      BY <2>3, HasAre, CarriedNothing DEF Place
    <3> QED BY <3>1, <3>2, <3>3 DEF GroupAt
  <2> QED BY <2>3, <2>4, <2>5, <2>6
<1> QED BY <1>1, SizedAlways, PTL

-----------------------------------------------------------------------------
(* The pre-process policy migrates when the totals of the reports make up  *)
(* the batch: then every instance has taken its part of it.                *)

TakenBatches(S, f) == {g \in Group : \E i \in S : g \in Batch(i) /\ f[i] # 0}

\* Instances that have no more than their parts have no more than what those make up.
LEMMA SumOfBatches ==
    ASSUME policy \in Policies, NEW S \in SUBSET Instance, NEW f,
           \A i \in S : f[i] \in Nat /\ f[i] <= Cardinality(Batch(i))
    PROVE  SumOver(S, f) \in Nat /\ SumOver(S, f) <= Cardinality(TakenBatches(S, f))
<1>0. IsFiniteSet(S)
  BY InstanceFacts
<1>1. PICK h : IsSum(f, h, SUBSET S) /\ SumFunctionOnSet(f, S) = h[S]
  BY <1>0, SumIs
<1> DEFINE Bound(s) == h[s] \in Nat /\ h[s] <= Cardinality(TakenBatches(s, f))
           T == {n \in Nat : \E s \in SUBSET S : Cardinality(s) = n /\ ~Bound(s)}
<1>2. \A s \in SUBSET S : IsFiniteSet(s) /\ Cardinality(s) \in Nat
  BY <1>0, FS_Subset, FS_CardinalityType
<1>3. ASSUME NEW s \in SUBSET S
      PROVE  TakenBatches(s, f) \in SUBSET Group /\ IsFiniteSet(TakenBatches(s, f))
             /\ Cardinality(TakenBatches(s, f)) \in Nat
  <2>1. TakenBatches(s, f) \in SUBSET Group
    BY DEF TakenBatches
  <2> QED BY <2>1, InstanceFacts
<1>4. T = {}
  <2> SUFFICES ASSUME T # {} PROVE FALSE
    OBVIOUS
  <2>1. PICK n \in T : \A y \in T : n <= y
    BY NatMin
  <2>2. PICK s \in SUBSET S : Cardinality(s) = n /\ ~Bound(s)
    BY <2>1
  <2>3. CASE s = {}
    <3>1. h[s] = 0
      BY <1>1, <2>3 DEF IsSum, SumStep
    <3> QED BY <1>3, <2>2, <3>1
  <2>4. CASE s # {}
    <3> DEFINE x == CHOOSE x \in s : TRUE
               r == s \ {x}
    <3>1. x \in s /\ Cardinality(r) = n - 1 /\ r \in SUBSET S
      BY <1>2, <2>2, <2>4, FS_RemoveElement
    <3>2. n - 1 \in Nat
      BY <1>2, <3>1
    <3>3. h[s] = f[x] + h[r]
      BY <1>1, <2>2, <2>4 DEF IsSum, SumStep
    <3> HIDE DEF x
    <3>4. Bound(r)
      BY <2>1, <3>1, <3>2
    <3>5. f[x] \in Nat /\ f[x] <= Cardinality(Batch(x)) /\ x \in Instance
      BY <2>2, <3>1
    <3>6. Cardinality(TakenBatches(r, f)) \in Nat /\ Cardinality(TakenBatches(s, f)) \in Nat
      BY <1>3, <3>1
    <3>7. CASE f[x] = 0
      <4>1. TakenBatches(s, f) = TakenBatches(r, f)
        BY <3>1, <3>7 DEF TakenBatches
      <4> QED BY <2>2, <3>3, <3>4, <3>6, <3>7, <4>1
    <3>8. CASE f[x] # 0
      <4>1. TakenBatches(s, f) = TakenBatches(r, f) \cup Batch(x)
        BY <3>1, <3>8 DEF TakenBatches, Batch
      <4>2. TakenBatches(r, f) \cap Batch(x) = {}
        <5> SUFFICES ASSUME NEW g \in Group, NEW i \in r, g \in Batch(i), g \in Batch(x) PROVE FALSE
          BY DEF TakenBatches, Batch
        <5>1. i # x /\ i \in Instance
          BY <3>1
        <5> QED BY <3>5, <5>1, BatchOfGroup
      <4>3. IsFiniteSet(Batch(x)) /\ Cardinality(Batch(x)) \in Nat
        BY InstanceFacts DEF Batch
      <4>4. Cardinality(TakenBatches(s, f)) = Cardinality(TakenBatches(r, f)) + Cardinality(Batch(x)) - 0
        <5>1. IsFiniteSet(TakenBatches(r, f)) /\ Cardinality({}) = 0
          BY <1>3, <3>1, FS_EmptySet
        <5>2. Cardinality(TakenBatches(r, f) \cup Batch(x))
                = Cardinality(TakenBatches(r, f)) + Cardinality(Batch(x))
                    - Cardinality(TakenBatches(r, f) \cap Batch(x))
          BY <4>3, <5>1, FS_Union
        <5>3. Cardinality(TakenBatches(r, f) \cap Batch(x)) = 0
          BY <4>2, <5>1
        <5> HIDE DEF r
        <5> QED BY <4>1, <5>2, <5>3
      <4> QED BY <2>2, <3>3, <3>4, <3>5, <3>6, <4>3, <4>4
    <3> QED BY <3>7, <3>8
  <2> QED BY <2>3, <2>4
<1>5. Bound(S)
  BY <1>2, <1>4
<1> QED BY <1>1, <1>5 DEF SumOver

LEMMA AllStarted ==
    ASSUME Base, stage = "pre", spc = "reports", Gathered(Alive), TotalTasks = NumGroups,
           \A i \in Instance : Fresh(i), NEW j \in Instance
    PROVE  rpc[j] # "idle"
<1> DEFINE f == [i \in Alive |-> Head(resp[i]).total]
<1>1. policy \in Policies /\ offset = 0 /\ NumInstances \in Nat
  BY Config DEF Base, TypeOK, Leaving
<1>2. Alive = Instance
  BY <1>1 DEF Alive, Instance
<1>3. \A i \in Instance : resp[i] # <<>> /\ resp[i] \in Seq(Message(Responses))
  BY <1>2 DEF Gathered, Base, TypeOK
<1>4. ASSUME NEW i \in Instance
      PROVE  f[i] \in Nat /\ f[i] <= Cardinality(Batch(i)) /\ (rpc[i] = "idle" => f[i] = 0)
  <2>1. Head(resp[i]) = resp[i][1] /\ 1 \in 1 .. Len(resp[i]) /\ Head(resp[i]) \in Message(Responses)
    BY <1>3, TailOne
  <2>2. Head(resp[i]).total \in Nat
    BY <2>1 DEF Message
  <2> QED BY <1>2, <2>1, <2>2 DEF Fresh
<1> SUFFICES ASSUME rpc[j] = "idle" PROVE FALSE
  OBVIOUS
<1>5. SumOver(Alive, f) = NumGroups
  BY DEF TotalTasks
<1> HIDE DEF f
<1>6. NumGroups <= Cardinality(TakenBatches(Alive, f))
  BY <1>1, <1>2, <1>4, <1>5, SumOfBatches
<1>7. TakenBatches(Alive, f) \subseteq Group /\ \A g \in Batch(j) : g \notin TakenBatches(Alive, f)
  <2>1. f[j] = 0
    BY <1>4
  <2>2. ASSUME NEW g \in Group, NEW i \in Instance, g \in Batch(i), g \in Batch(j) PROVE i = j
    BY <1>1, <2>2, BatchOfGroup
  <2> QED BY <1>2, <2>1, <2>2 DEF TakenBatches, Batch
<1>8. Cardinality(Group) = NumGroups /\ IsFiniteSet(Group) /\ NumGroups \in Nat
  <2>1. NumGroups \in Nat
    BY SchedulerAssumption
  <2>2. \A n \in Nat : 1 \in Int /\ n \in Int /\ (IF 1 > n THEN 0 ELSE n - 1 + 1) = n
    OBVIOUS
  <2> QED BY <2>1, <2>2, FS_Interval, FS_Interval DEF Group
<1>9. /\ Cardinality(TakenBatches(Alive, f)) <= Cardinality(Group)
      /\ Cardinality(Group) = Cardinality(TakenBatches(Alive, f)) => Group = TakenBatches(Alive, f)
      /\ Cardinality(TakenBatches(Alive, f)) \in Nat
  BY <1>7, <1>8, FS_Subset, FS_CardinalityType
<1>10. Group = TakenBatches(Alive, f)
  BY <1>6, <1>8, <1>9
<1> QED BY <1>1, <1>7, <1>10, BatchNotEmpty

\* Nothing happens to an instance.
LEMMA FreshKept ==
    ASSUME policy' = policy, NEW i \in Instance, Fresh(i), UNCHANGED Local(i), resp'[i] = resp[i],
           req'[i] = req[i]
    PROVE  Fresh(i)'
BY Steady DEF Fresh, Local

\* The scheduler takes responses and sends requests that carry no groups.
LEMMA FreshAsked ==
    ASSUME Base, NEW i \in Instance, Fresh(i), policy' = policy, UNCHANGED Local(i),
           req'[i] = req[i] \/ req'[i] = Append(req[i], Info("Report", {}, 0, 0)),
           resp'[i] = resp[i] \/ resp'[i] = <<>>
    PROVE  Fresh(i)'
<1>1. \A k \in 1 .. Len(req'[i]) : req'[i][k].action # "Migrate_In"
  <2>1. CASE req'[i] = req[i]
    BY <2>1 DEF Fresh
  <2>2. CASE req'[i] = Append(req[i], Info("Report", {}, 0, 0))
    <3>1. req[i] \in Seq(Message(Requests)) /\ "Report" \in Requests /\ {} \in SUBSET Group
      BY DEF Base, TypeOK, Requests
    <3>2. Info("Report", {}, 0, 0) \in Message(Requests) /\ Info("Report", {}, 0, 0).action = "Report"
      BY <3>1, InfoType
    <3>3. /\ Len(req'[i]) = Len(req[i]) + 1 /\ Len(req[i]) \in Nat
          /\ \A n \in 1 .. Len(req[i]) + 1 : req'[i][n] =
               IF n <= Len(req[i]) THEN req[i][n] ELSE Info("Report", {}, 0, 0)
      BY <2>2, <3>1, <3>2, AppendOne
    <3>4. ASSUME NEW k \in 1 .. Len(req[i]) + 1 PROVE req'[i][k].action # "Migrate_In"
      BY <3>2, <3>3, <3>4 DEF Fresh
    <3> QED BY <3>3, <3>4
  <2> QED BY <2>1, <2>2
<1>2. \A k \in 1 .. Len(resp'[i]) : resp'[i] = resp[i]
  OBVIOUS
<1>3. rpc'[i] = rpc[i] /\ running'[i] = running[i] /\ done'[i] = done[i] /\ Batch(i)' = Batch(i)
  BY Steady DEF Local
<1> QED BY <1>1, <1>2, <1>3 DEF Fresh

LEMMA InitStarted == Init => Started
<1> SUFFICES ASSUME Init, NEW i \in Instance PROVE rpc[i] # "failed" /\ Fresh(i) /\ AtStart
  BY DEF Started
<1>1. req[i] = <<>> /\ resp[i] = <<>> /\ running[i] = {} /\ done[i] = {} /\ rpc[i] = "idle"
  BY DEF Init
<1> QED BY <1>1 DEF Init, Fresh, AtStart

LEMMA SchedulerStarted == Kept /\ Sized /\ Started /\ Scheduler => Started'
<1> SUFFICES ASSUME Kept, Sized, Started, Scheduler PROVE Started'
  OBVIOUS
<1>1. Base /\ policy' = policy /\ Instance' = Instance /\ UNCHANGED <<rpc, lpc, status>>
      /\ \A i \in Instance : UNCHANGED Local(i)
  BY SchedulerFrame, Steady DEF Kept, status, Local
<1>2. SUFFICES ASSUME policy.pre, NEW i \in Instance
      PROVE  (IF AtStart THEN Fresh(i) ELSE rpc[i] # "idle")'
  BY <1>1 DEF Started
<1>3. /\ IF AtStart THEN \A j \in Instance : Fresh(j) ELSE rpc[i] # "idle"
      /\ Engaged(i)
  BY <1>2 DEF Started, Kept, Requested, Engaged
<1>4. CASE Begin
  <2>1. AtStart /\ AtStart' /\ resp' = resp
    BY <1>2, <1>4 DEF Begin, AtStart, Sized, GpuInv, Base, TypeOK, Kept
  <2>2. req'[i] = req[i] \/ req'[i] = Append(req[i], Info("Report", {}, 0, 0))
    BY <1>1, <1>2, <1>4, ReportFacts DEF Begin
  <2> QED BY <1>1, <1>2, <1>3, <2>1, <2>2, FreshAsked
<1>5. CASE PreReports
  <2>1. AtStart /\ TakeReports /\ Gathered(Alive) /\ stage' = stage /\ stage = "pre" /\ spc = "reports"
    BY <1>5 DEF PreReports, TakeReports, AtStart
  <2>2. CASE TotalTasks = NumGroups
    <3>1. rpc[i] # "idle"
      BY <1>1, <1>3, <2>1, <2>2, AllStarted
    <3>2. CASE spc' = "migrated"
      BY <1>1, <3>1, <3>2 DEF AtStart
    <3>3. CASE spc' # "migrated"
      <4>1. Scatter("Report", Alive, NoData) /\ spc' = spc
        BY <1>5, <3>3 DEF PreReports, MigrateOut
      <4>2. req'[i] = req[i] \/ req'[i] = Append(req[i], Info("Report", {}, 0, 0))
        BY <1>1, <4>1, ReportFacts
      <4>3. resp'[i] = resp[i] \/ resp'[i] = <<>>
        BY <1>1, <1>3, <2>1, TakeReportsFacts, GatheredFacts
      <4> QED BY <1>1, <1>2, <1>3, <2>1, <4>1, <4>2, <4>3, FreshAsked DEF AtStart
    <3> QED BY <3>2, <3>3
  <2>3. CASE TotalTasks # NumGroups
    <3>1. Scatter("Report", Alive, NoData) /\ spc' = spc
      BY <1>5, <2>3 DEF PreReports
    <3>2. req'[i] = req[i] \/ req'[i] = Append(req[i], Info("Report", {}, 0, 0))
      BY <1>1, <3>1, ReportFacts
    <3>3. resp'[i] = resp[i] \/ resp'[i] = <<>>
      BY <1>1, <1>3, <2>1, TakeReportsFacts, GatheredFacts
    <3> QED BY <1>1, <1>2, <1>3, <2>1, <3>1, <3>2, <3>3, FreshAsked DEF AtStart
  <2> QED BY <2>2, <2>3
<1>6. CASE MainReports \/ ActorReady \/ Migrated \/ Offloaded \/ InferenceTurn \/ ActorTurn
  <2>1. ~AtStart
    BY <1>1, <1>6 DEF MainReports, ActorReady, Migrated, Offloaded, InferenceTurn, ActorTurn, AtStart,
       Base, TypeOK
  <2>2. ~AtStart'
    <3>1. CASE ActorReady
      <4>1. stage = "main"
        BY <1>1, <3>1 DEF ActorReady, Sized, GpuInv, Base, TypeOK
      <4> QED BY <3>1, <4>1 DEF ActorReady, AtStart
    <3>2. CASE MainReports
      BY <3>2 DEF MainReports, TakeReports, AtStart
    <3>3. CASE Migrated \/ Offloaded \/ InferenceTurn \/ ActorTurn
      BY <3>3 DEF Migrated, Offloaded, InferenceTurn, ActorTurn, AtStart
    <3> QED BY <1>6, <3>1, <3>2, <3>3
  <2> QED BY <1>1, <1>3, <2>1, <2>2
<1> QED BY <1>4, <1>5, <1>6 DEF Scheduler

\* A step of one instance, of which nothing was heard of migration yet.
LEMMA StartedOne ==
    ASSUME policy' = policy, UNCHANGED sched, Started, NEW i \in Instance,
           \A j \in Instance \ {i} : UNCHANGED Local(j) /\ req'[j] = req[j] /\ resp'[j] = resp[j],
           policy.pre => rpc'[i] # "failed" /\ (rpc'[i] = "idle" => rpc[i] = "idle"),
           policy.pre /\ AtStart /\ Fresh(i) => Fresh(i)'
    PROVE  Started'
<1>1. Instance' = Instance /\ (AtStart' <=> AtStart)
  BY Steady DEF sched, AtStart
<1>2. SUFFICES ASSUME policy.pre, NEW j \in Instance
      PROVE  rpc'[j] # "failed" /\ (IF AtStart THEN Fresh(j)' ELSE rpc'[j] # "idle")
  BY <1>1 DEF Started
<1>3. rpc[j] # "failed" /\ (IF AtStart THEN Fresh(j) ELSE rpc[j] # "idle")
  BY <1>2 DEF Started
<1>4. CASE j = i
  BY <1>2, <1>3, <1>4
<1>5. CASE j # i
  <2>1. UNCHANGED Local(j) /\ req'[j] = req[j] /\ resp'[j] = resp[j]
    BY <1>5
  <2>2. rpc'[j] = rpc[j]
    BY <2>1 DEF Local
  <2> QED BY <1>3, <2>1, <2>2, FreshKept
<1> QED BY <1>4, <1>5

\* The rollout() that starts finds no groups.
LEMMA StartStarted == ASSUME NEW i \in Instance PROVE Kept /\ Started /\ StartRollout(i) => Started'
<1> SUFFICES ASSUME Kept, Started, StartRollout(i) PROVE Started'
  OBVIOUS
<1>1. /\ Base /\ policy' = policy /\ UNCHANGED sched /\ req' = req /\ resp' = resp /\ rpc[i] = "idle"
      /\ Engaged(i)
  BY DEF StartRollout, Kept, Requested, Engaged
<1>2. /\ IF running[i] \cup done[i] \cup aborted[i] = {}
         THEN running'[i] = Batch(i) /\ rpc'[i] = "waiting"
         ELSE running'[i] = running[i] /\ rpc'[i] = "failed"
      /\ done'[i] = done[i]
      /\ \A j \in Instance \ {i} : UNCHANGED Local(j)
  BY <1>1, StartFacts
<1>3. done[i] = {} /\ aborted[i] = {}
  BY <1>1 DEF Engaged, RolloutOf
<1>4. policy.pre => AtStart /\ Fresh(i) /\ running[i] = {}
  BY <1>1 DEF Started, Fresh
<1>5. policy.pre => rpc'[i] = "waiting" /\ running'[i] = Batch(i)
  BY <1>2, <1>3, <1>4
<1>6. policy.pre => Fresh(i)'
  <2> SUFFICES ASSUME policy.pre PROVE Fresh(i)'
    OBVIOUS
  <2>1. Batch(i)' = Batch(i)
    BY <1>1, Steady
  <2> QED BY <1>1, <1>2, <1>3, <1>4, <1>5, <2>1 DEF Fresh
<1> QED BY <1>1, <1>2, <1>5, <1>6, StartedOne

\* A step that changes neither requests nor responses, and adds no group.
LEMMA StartedLocal ==
    ASSUME policy' = policy, UNCHANGED sched, Started, NEW i \in Instance, req' = req, resp' = resp,
           \A j \in Instance \ {i} : UNCHANGED Local(j),
           running'[i] \cup done'[i] \subseteq running[i] \cup done[i],
           rpc'[i] \notin {"idle", "failed"}
    PROVE  Started'
<1>1. Fresh(i) => Fresh(i)'
  BY Steady DEF Fresh
<1> QED BY <1>1, StartedOne

LEMMA RolloutStarted == ASSUME NEW i \in Instance PROVE Kept /\ Started /\ Rollout(i) => Started'
<1> SUFFICES ASSUME Kept, Started, Rollout(i) PROVE Started'
  OBVIOUS
<1>1. Base /\ Requested /\ policy' = policy /\ UNCHANGED sched
  BY DEF Kept, Rollout, StartRollout, Collect, Wake, Offload, SendResult, MarkDone, MarkAborted
<1>2. CASE StartRollout(i)
  BY <1>2, StartStarted
<1>3. CASE Collect(i)
  <2>1. /\ req' = req /\ resp' = resp /\ \A j \in Instance \ {i} : UNCHANGED Local(j)
        /\ running' = running /\ done' = done /\ rpc'[i] = "handling"
    BY <1>1, <1>3 DEF Collect, Base, TypeOK, Local
  <2> QED BY <1>1, <2>1, StartedLocal
<1>4. CASE Wake(i)
  <2>1. /\ req' = req /\ resp' = resp /\ \A j \in Instance \ {i} : UNCHANGED Local(j)
        /\ running' = running /\ done'[i] \subseteq done[i] /\ rpc'[i] \in {"waiting", "offloading"}
    BY <1>1, <1>4 DEF Wake, Base, TypeOK, Local
  <2> QED BY <1>1, <2>1, StartedLocal
<1>5. CASE Offload(i)
  <2>1. /\ req' = req /\ Respond(i, Info("Offloaded", {}, 0, 0)) /\ rpc'[i] = "finished"
        /\ running' = running /\ done' = done
        /\ \A j \in Instance \ {i} : UNCHANGED Local(j)
    BY <1>1, <1>5 DEF Offload, Base, TypeOK, Local, status
  <2>2. Engaged(i) /\ rpc[i] = "offloading"
    BY <1>1, <1>5 DEF Requested, Engaged, Offload
  <2>3. ~AtStart
    <3>1. spc = "offloaded"
      BY <2>2 DEF Engaged, PhaseOf, Gone, Unasked, ToTake, AtWork, Responded, Open, Past
    <3> QED BY <3>1 DEF AtStart
  <2>4. \A j \in Instance \ {i} : resp'[j] = resp[j]
    <3>1. "Offloaded" \in Responses /\ {} \in SUBSET Group
      BY DEF Responses
    <3>2. Info("Offloaded", {}, 0, 0) \in Message(Responses)
      BY <3>1, InfoType
    <3> QED BY <1>1, <2>1, <3>2, RespondType DEF Base
  <2> QED BY <1>1, <2>1, <2>3, <2>4, StartedOne
<1>6. ASSUME NEW g \in Group, SendResult(i, g) PROVE Started'
  <2>1. /\ req' = req /\ resp' = resp /\ \A j \in Instance \ {i} : UNCHANGED Local(j)
        /\ running' = running /\ done' = done /\ rpc'[i] = "handling"
    BY <1>6 DEF SendResult, Local, status
  <2> QED BY <1>1, <2>1, StartedLocal
<1>7. ASSUME NEW g \in Group, MarkDone(i, g) \/ MarkAborted(i, g) PROVE Started'
  <2>1. /\ req' = req /\ resp' = resp /\ lpc' = lpc /\ event' = event
        /\ g \in returned[i] /\ AfterGroup(i, g) /\ rpc[i] = "handling" /\ g \in running[i]
    BY <1>1, <1>7 DEF MarkDone, MarkAborted, Requested, RolloutOf
  <2>2. /\ done'[i] \subseteq done[i] \cup {g}
        /\ \A j \in Instance \ {i} : aborted'[j] = aborted[j] /\ done'[j] = done[j]
    BY <1>1, <1>7 DEF MarkDone, MarkAborted, Base, TypeOK
  <2>3. /\ running'[i] = running[i] \ {g} /\ rpc'[i] \in {"handling", "parked", "waiting"}
        /\ \A j \in Instance \ {i} : /\ running'[j] = running[j] /\ returned'[j] = returned[j]
                                     /\ rpc'[j] = rpc[j] /\ watched'[j] = watched[j]
    BY <1>1, <2>1, AfterGroupFacts
  <2>4. \A j \in Instance \ {i} : UNCHANGED Local(j)
    BY <2>1, <2>2, <2>3 DEF Local
  <2> QED BY <1>1, <2>1, <2>2, <2>3, <2>4, StartedLocal
<1> QED BY <1>2, <1>3, <1>4, <1>5, <1>6, <1>7 DEF Rollout

\* A report counts the groups of the instance, which are of its part of the batch.
LEMMA ReportStarted == ASSUME NEW i \in Instance PROVE Kept /\ Started /\ HandleReport(i) => Started'
<1> SUFFICES ASSUME Kept, Started, HandleReport(i) PROVE Started'
  OBVIOUS
<1>1. /\ Base /\ Engaged(i) /\ Take(i, "Report") /\ policy' = policy /\ UNCHANGED sched
      /\ UNCHANGED <<rpc, lpc, status>>
      /\ \A j \in Instance : UNCHANGED Local(j)
  BY DEF Kept, Requested, Engaged, HandleReport, Local, status
<1> DEFINE total == Cardinality(running[i] \cup done[i])
           active == Cardinality({g \in running[i] : task[g] = "generating"})
<1>2. total \in Nat /\ active \in Nat /\ running[i] \cup done[i] \in SUBSET Group
  <2>1. running[i] \cup done[i] \in SUBSET Group
          /\ {g \in running[i] : task[g] = "generating"} \in SUBSET Group
    BY <1>1 DEF Base, TypeOK
  <2> QED BY <1>1, <2>1, InstanceFacts DEF Base, TypeOK
<1>3. Respond(i, Info("Report", {}, total, active))
  BY DEF HandleReport
<1> HIDE DEF total, active
<1>4. /\ "Report" \in Responses /\ Info("Report", {}, total, active) \in Message(Responses)
      /\ Info("Report", {}, total, active).total = total /\ resp[i] \in Seq(Message(Responses))
  <2>1. "Report" \in Responses /\ {} \in SUBSET Group /\ resp[i] \in Seq(Message(Responses))
    BY <1>1 DEF Responses, Base, TypeOK
  <2> QED BY <1>2, <2>1, InfoType
<1>5. /\ resp'[i] = Append(resp[i], Info("Report", {}, total, active))
      /\ \A j \in Instance \ {i} : resp'[j] = resp[j]
  BY <1>1, <1>3, <1>4, RespondType DEF Base
<1>6. /\ req'[i] = <<>> /\ resp[i] = <<>> /\ \A j \in Instance \ {i} : req'[j] = req[j]
  BY <1>1, TakeFacts
<1>7. ASSUME policy.pre, Fresh(i) PROVE Fresh(i)'
  <2>1. running[i] \cup done[i] \subseteq Batch(i) /\ (rpc[i] = "idle" => running[i] \cup done[i] = {})
    BY <1>1, <1>7 DEF Fresh, Engaged, RolloutOf
  <2>2. total <= Cardinality(Batch(i)) /\ (rpc[i] = "idle" => total = 0)
    <3>1. IsFiniteSet(Batch(i))
      BY <1>1, InstanceFacts DEF Base, TypeOK, Batch
    <3> QED BY <2>1, <3>1, FS_Subset, FS_EmptySet DEF total
  <2>3. Len(resp'[i]) = 1 /\ resp'[i][1] = Info("Report", {}, total, active)
    BY <1>4, <1>5, <1>6, AppendOne
  <2>4. rpc'[i] = rpc[i] /\ running'[i] = running[i] /\ done'[i] = done[i] /\ Batch(i)' = Batch(i)
    BY <1>1, Steady DEF Local
  <2>5. \A k \in 1 .. Len(resp'[i]) : resp'[i][k].total = total
    BY <1>4, <2>3
  <2>6. \A k \in 1 .. Len(req'[i]) : req'[i][k].action # "Migrate_In"
    BY <1>6
  <2> QED BY <1>7, <2>1, <2>2, <2>4, <2>5, <2>6 DEF Fresh
<1>8. policy.pre => rpc'[i] # "failed" /\ rpc'[i] = rpc[i]
  BY <1>1 DEF Started
<1> QED BY <1>1, <1>5, <1>6, <1>7, <1>8, StartedOne

LEMMA MainLoopStarted == ASSUME NEW i \in Instance PROVE Kept /\ Started /\ MainLoop(i) => Started'
<1> SUFFICES ASSUME Kept, Started, MainLoop(i) PROVE Started'
  OBVIOUS
<1>1. Base /\ Engaged(i) /\ policy' = policy /\ UNCHANGED sched /\ rpc' = rpc
  BY DEF Kept, Requested, Engaged, MainLoop, HandleReport, HandleMigrateIn, HandleDrain, Drained
<1>2. policy.pre => rpc'[i] # "failed" /\ (rpc'[i] = "idle" => rpc[i] = "idle")
  BY <1>1 DEF Started
<1>3. CASE HandleReport(i)
  BY <1>3, ReportStarted
<1>4. CASE HandleMigrateIn(i)
  <2>1. Take(i, "Migrate_In") /\ resp' = resp /\ \A j \in Instance \ {i} : UNCHANGED Local(j)
    BY <1>1, <1>4 DEF HandleMigrateIn, Base, TypeOK, Local
  <2>2. /\ req[i] \in Seq(Message(Requests)) /\ req[i] # <<>> /\ req[i][1].action = "Migrate_In"
        /\ \A j \in Instance \ {i} : req'[j] = req[j]
    BY <1>1, <2>1, TakeFacts
  <2>3. 1 \in 1 .. Len(req[i])
    BY <2>2, TailOne
  <2>4. ~Fresh(i)
    BY <2>2, <2>3 DEF Fresh
  <2> QED BY <1>1, <1>2, <2>1, <2>2, <2>4, StartedOne
<1>5. CASE HandleDrain(i)
  <2>1. PICK kind \in {"Migrate_Out", "Finish", "Wait_For_Finish"} : Take(i, kind)
    BY <1>5 DEF HandleDrain
  <2>2. /\ resp' = resp /\ UNCHANGED status
        /\ \A j \in Instance \ {i} : UNCHANGED Local(j)
    BY <1>1, <1>5 DEF HandleDrain, Base, TypeOK, Local, status
  <2>3. req'[i] = <<>> /\ \A j \in Instance \ {i} : req'[j] = req[j]
    BY <1>1, <2>1, TakeFacts
  <2>4. Fresh(i) => Fresh(i)'
    BY <1>1, <2>2, <2>3, Steady DEF Fresh, status
  <2> QED BY <1>1, <1>2, <2>2, <2>3, <2>4, StartedOne
<1>6. CASE Drained(i)
  <2>1. /\ req' = req /\ lpc[i] # "idle" /\ \A j \in Instance \ {i} : UNCHANGED Local(j)
    BY <1>1, <1>6 DEF Drained, Base, TypeOK, Local
  <2>2. ~AtStart
    <3>1. spc \in {"migrated", "offloaded"}
      BY <1>1, <2>1 DEF Engaged, PhaseOf, Gone, Unasked, ToTake, AtWork, Responded
    <3> QED BY <3>1 DEF AtStart
  <2>3. \A j \in Instance \ {i} : resp'[j] = resp[j]
    BY <1>1, <1>6 DEF Drained, Respond, Base, TypeOK
  <2> QED BY <1>1, <1>2, <2>1, <2>2, <2>3, StartedOne
<1> QED BY <1>3, <1>4, <1>5, <1>6 DEF MainLoop

LEMMA StartedStep == Kept /\ Sized /\ Started /\ [Next]_vars => Started'
<1> SUFFICES ASSUME Kept, Sized, Started, [Next]_vars PROVE Started'
  OBVIOUS
<1>1. CASE Scheduler
  BY <1>1, SchedulerStarted
<1>2. ASSUME NEW i \in Instance, Rollout(i) \/ MainLoop(i) PROVE Started'
  BY <1>2, RolloutStarted, MainLoopStarted
<1>3. CASE (\E g \in Group : Generate(g)) \/ FinishInference \/ BeginTraining \/ Train \/ Scale
             \/ UNCHANGED vars
  <2>1. policy' = policy /\ UNCHANGED <<sched, req, resp, rpc, lpc, status>>
    BY <1>3 DEF Generate, FinishInference, BeginTraining, Train, Scale, vars
  <2>2. \A i \in Instance : UNCHANGED Local(i) /\ req'[i] = req[i] /\ resp'[i] = resp[i] /\ rpc'[i] = rpc[i]
    BY <2>1 DEF Local, status
  <2>3. Instance' = Instance /\ (AtStart' <=> AtStart)
    BY <2>1, Steady DEF sched, AtStart
  <2>4. \A i \in Instance : Fresh(i) => Fresh(i)'
    BY <2>1, <2>2, FreshKept
  <2> QED BY <2>1, <2>2, <2>3, <2>4 DEF Started
<1> QED BY <1>1, <1>2, <1>3 DEF Next, Idle

\* The actor that has all GPUs leaves none to give.
LEMMA NotAtMost ==
    ASSUME Kept, Sized, spc = "actor", avail >= ActorMP
    PROVE  actorDp # Max(ValidDp)
<1>1. /\ Base /\ avail \in Nat /\ ActorMP \in Nat \ {0} /\ ActorGpus \in Nat /\ RolloutGpus \in Nat
      /\ InferenceGpus \in Nat /\ inferenceUp \in BOOLEAN /\ stage = "main" /\ Released \in Int
  BY SchedulerAssumption, SizeFacts DEF Kept, Base, TypeOK, Sized, GpuInv
<1>2. avail + ActorSize <= Freed /\ Freed <= TotalGpus
  <2>1. avail + ActorSize <= Freed
    BY <1>1 DEF Sized, GpuInv
  <2>2. Released <= RolloutGpus
    BY <1>1, ReleasedBound
  <2> QED BY <1>1, <2>1, <2>2 DEF Freed, TotalGpus
<1>3. TotalGpus \div ActorMP \in ValidDp /\ (TotalGpus \div ActorMP) * ActorMP = TotalGpus
        /\ TotalGpus \in Nat
  <2>1. TotalGpus \in Nat
    BY <1>1 DEF TotalGpus
  <2> QED BY <1>1, <2>1, SchedulerAssumption, DivideExact
<1>4. Max(ValidDp) = TotalGpus \div ActorMP
  <2>1. TotalGpus \div ActorMP \in Nat
    BY <1>1, <1>3, SchedulerAssumption, DivideExact
  <2>2. ValidDp \in SUBSET Nat /\ ValidDp # {} /\ \A d \in ValidDp : d <= TotalGpus \div ActorMP
    BY <1>3, <2>1 DEF ValidDp
  <2>3. Max(ValidDp) \in ValidDp /\ \A d \in ValidDp : d <= Max(ValidDp)
    BY <2>1, <2>2, MaxIs
  <2>4. Max(ValidDp) \in Nat /\ Max(ValidDp) <= TotalGpus \div ActorMP
          /\ TotalGpus \div ActorMP <= Max(ValidDp)
    BY <1>3, <2>2, <2>3
  <2> QED BY <2>1, <2>4
<1>5. actorDp = Max(ValidDp) => ActorSize = TotalGpus
  BY <1>3, <1>4 DEF ActorSize
<1>6. ActorSize \in Nat /\ Freed \in Int
  BY <1>1, SizeFacts
<1> QED BY <1>1, <1>2, <1>3, <1>5, <1>6

\* The assertions of migrate and try_allocate hold, and under the pre-process policy that of
\* rollout(): the totals of the reports make up the batch only when every instance has started.
THEOREM AssertionsAlwaysHold == Spec => []AssertionsHold
<1>1. Init => Started
  BY InitStarted
<1>2. Kept /\ Sized /\ Started /\ [Next]_vars => Started'
  BY StartedStep
<1>3. Kept /\ Sized /\ Started => AssertionsHold
  <2> SUFFICES ASSUME Kept, Sized, Started PROVE AssertionsHold
    OBVIOUS
  <2>1. spc = "migrated" => leaving # {} /\ leaving # Alive
    <3> SUFFICES ASSUME spc = "migrated" PROVE leaving # {} /\ leaving # Alive
      OBVIOUS
    <3>1. offset \in Nat /\ NumInstances \in Nat
      BY Config DEF Kept, Base, TypeOK
    <3>2. PICK n \in 1 .. NumInstances - offset - 1 : leaving = offset .. offset + n - 1
      BY <3>1 DEF Kept, Base, Leaving
    <3>3. offset \in leaving /\ NumInstances - 1 \in Alive /\ NumInstances - 1 \notin leaving
      BY <3>1, <3>2 DEF Alive
    <3> QED BY <3>3
  <2>2. spc = "actor" /\ avail >= ActorMP => actorDp # Max(ValidDp)
    BY NotAtMost
  <2>3. policy.pre => \A i \in Instance : rpc[i] # "failed"
    BY DEF Started
  <2> QED BY <2>1, <2>2, <2>3 DEF AssertionsHold
<1> QED BY <1>1, <1>2, <1>3, SizedAlways, PTL DEF Spec
=============================================================================
