--------------------------- MODULE DiscoveryProofs ---------------------------
(***************************************************************************)
(* The walk trains every edge that it adds, on the checkpoint of all edges *)
(* before it, and never the same subtask twice: for any proposals, seeds   *)
(* and limits, over any number of crashes and restarts.                    *)
(*                                                                         *)
(* The checkpoint in memory is what this rests on (Carried): while the     *)
(* walk is at work it was trained on the edges of the manifest in their    *)
(* order, and on the candidate too once that was trained.  A start makes   *)
(* it so from the manifest alone.  A candidate on its way into the         *)
(* manifest is not there yet (Fresh), because nothing else adds edges      *)
(* meanwhile.                                                              *)
(*                                                                         *)
(* What it adds is a tree.  Ids stay new (IdInv): the candidates of the    *)
(* level and of the seeded nodes still to come have ids that differ from   *)
(* each other's and from every edge's, and all are in seen_ids, which the  *)
(* VLM's candidates are kept apart from.  Then an edge produces a node     *)
(* that nothing had (GrowInv), and a path that is recorded is that of the  *)
(* one edge that produces the node; a start has one path to lose.          *)
(*                                                                         *)
(* Under the driver the status names no edge with a checkpoint that the    *)
(* walk still has to train (StatusInv).                                    *)
(*                                                                         *)
(* The stages that it runs are calls of launch_and_wait: a call returns    *)
(* its own job's exit code, for any number of calls on the log path and    *)
(* any exit codes, as long as no call ends before its job.  Under that     *)
(* condition (Orderly) a job is on its way only while its call is waiting, *)
(* so that the file is that of the one call that is active.                *)
(***************************************************************************)
EXTENDS DiscoveryDriver, LaunchAndWait, SequenceTheorems, FiniteSetTheorems, NaturalsInduction,
        WellFoundedInduction, TLAPS

\* The ids of the first n edges.
Lineage(n) == [j \in 1 .. n |-> edges[j].id]

EdgeSequence == edges \in Seq({edges[i] : i \in DOMAIN edges})

Lineages == \A i \in DOMAIN edges : edges[i].ckpt = Lineage(i)

Carried ==
    /\ pc \in {"discover", "train", "training", "link"} => checkpoint = Lineage(Len(edges))
    /\ pc = "collect" => checkpoint = Append(Lineage(Len(edges)), Candidate.id)

Fresh == pc \in {"training", "collect"} => Existing(Candidate) = {}

WalkPC == pc \in {"down", "discover", "train", "training", "collect", "link", "done"}

TreeInv == WalkPC /\ EdgeSequence /\ Lineages /\ Carried /\ Fresh /\ NoSubtaskTwice

-----------------------------------------------------------------------------
LEMMA TreeInit == Init => TreeInv
BY DEF Init, EmptyManifest, TreeInv, WalkPC, EdgeSequence, Lineages, Carried, Fresh, NoSubtaskTwice

\* What the steps that leave the edges alone have to show.
LEMMA EdgesKept ==
    ASSUME TreeInv, UNCHANGED edges, WalkPC', Carried', Fresh'
    PROVE  TreeInv'
BY DEF TreeInv, EdgeSequence, Lineages, Lineage, NoSubtaskTwice

\* A start takes up the checkpoint of the last edge.
LEMMA StartKeeps == ASSUME TreeInv, Start PROVE TreeInv'
<1>1. PICK seeds \in Seeds : StartWith(seeds)
  BY DEF Start
<1>2. /\ UNCHANGED edges /\ checkpoint' = LastCheckpoint
      /\ pc' \in {"discover", "done"}
  BY <1>1 DEF StartWith, EnterWalk, LevelPC, manifest
<1>3. LastCheckpoint = Lineage(Len(edges))
  <2>1. edges \in Seq({edges[i] : i \in DOMAIN edges})
    BY DEF TreeInv, EdgeSequence
  <2>2. CASE edges = <<>>
    BY <2>2 DEF LastCheckpoint, Lineage
  <2>3. CASE edges # <<>>
    BY <2>1, <2>3 DEF LastCheckpoint, TreeInv, Lineages
  <2> QED BY <2>2, <2>3
<1>4. WalkPC' /\ Carried' /\ Fresh'
  BY <1>2, <1>3 DEF WalkPC, Carried, Fresh, Lineage
<1> QED BY <1>2, <1>4, EdgesKept

LEMMA AppendLineage ==
    ASSUME EdgeSequence, NEW x
    PROVE  Append(Lineage(Len(edges)), x) =
               [j \in 1 .. Len(edges) + 1 |-> IF j <= Len(edges) THEN edges[j].id ELSE x]
<1> DEFINE n == Len(edges)
           S == {edges[i].id : i \in 1 .. n} \cup {x}
<1>1. n \in Nat
  BY DEF EdgeSequence
<1> HIDE DEF n
<1>2. \A j \in 1 .. n : edges[j].id \in S
  OBVIOUS
<1> HIDE DEF S
<1>3. Lineage(n) \in Seq(S) /\ Len(Lineage(n)) = n
  BY <1>1, <1>2 DEF Lineage
<1>4. \A j \in 1 .. n : Lineage(n)[j] = edges[j].id
  BY DEF Lineage
<1>5. x \in S
  BY DEF S
<1>6. Append(Lineage(n), x) = [j \in 1 .. n + 1 |-> IF j <= n THEN edges[j].id ELSE x]
  <2> DEFINE a == Append(Lineage(n), x)
             f == [j \in 1 .. n + 1 |-> IF j <= n THEN edges[j].id ELSE x]
  <2>1. /\ a \in Seq(S) /\ Len(a) = n + 1
        /\ \A j \in 1 .. n + 1 : a[j] = IF j <= n THEN Lineage(n)[j] ELSE x
    BY <1>1, <1>3, <1>5
  <2>2. f \in Seq(S) /\ Len(f) = n + 1
    BY <1>1, <1>2, <1>5
  <2>3. \A j \in 1 .. n + 1 : a[j] = f[j]
    BY <1>1, <1>4, <2>1
  <2> HIDE DEF a, f
  <2>4. a = f
    BY <2>1, <2>2, <2>3, SeqEqual
  <2> QED BY <2>4 DEF a, f
<1> QED BY <1>6 DEF n

\* The edge that is added was trained on the lineage and matches no other.
LEMMA PersistKeeps == ASSUME TreeInv, Persist PROVE TreeInv'
<1> DEFINE e == TrainedEdge(Candidate, checkpoint)
           S == {edges[i] : i \in DOMAIN edges}
<1>1. /\ pc = "collect" /\ pc' = "link"
      /\ edges' = Append(edges, e) /\ checkpoint' = checkpoint
  BY DEF Persist, AddEdge
<1>2. edges \in Seq(S)
  BY DEF TreeInv, EdgeSequence
<1>3. /\ edges' \in Seq(S \cup {e}) /\ Len(edges') = Len(edges) + 1
      /\ DOMAIN edges = 1 .. Len(edges) /\ DOMAIN edges' = 1 .. Len(edges) + 1
      /\ \A i \in DOMAIN edges : i \in DOMAIN edges' /\ edges'[i] = edges[i]
      /\ edges'[Len(edges) + 1] = e
  <2>1. edges \in Seq(S \cup {e}) /\ e \in S \cup {e}
    BY <1>2
  <2> HIDE DEF e, S
  <2> QED BY <1>1, <2>1
<1>4. /\ e.id = Candidate.id /\ e.pre = Candidate.pre /\ e.goal = Candidate.goal
      /\ e.ckpt = checkpoint
  BY DEF TrainedEdge
<1> HIDE DEF e, S
<1>5. EdgeSequence'
  BY <1>3 DEF EdgeSequence
<1>6. checkpoint = [j \in 1 .. Len(edges) + 1 |-> edges'[j].id]
  <2>1. checkpoint = Append(Lineage(Len(edges)), e.id)
    BY <1>1, <1>4 DEF TreeInv, Carried
  <2>2. checkpoint =
            [j \in 1 .. Len(edges) + 1 |-> IF j <= Len(edges) THEN edges[j].id ELSE e.id]
    BY <2>1, AppendLineage DEF TreeInv
  <2>3. \A j \in 1 .. Len(edges) + 1 :
            edges'[j].id = IF j <= Len(edges) THEN edges[j].id ELSE e.id
    BY <1>2, <1>3
  <2> QED BY <2>2, <2>3
<1>7. Lineages'
  <2>1. ASSUME NEW i \in DOMAIN edges
        PROVE  edges'[i].ckpt = [j \in 1 .. i |-> edges'[j].id]
    <3>1. edges[i].ckpt = [j \in 1 .. i |-> edges[j].id]
      BY DEF TreeInv, Lineages, Lineage
    <3>2. \A j \in 1 .. i : j \in DOMAIN edges
      BY <1>2, <1>3
    <3> QED BY <1>3, <3>1, <3>2
  <2>2. edges'[Len(edges) + 1].ckpt = [j \in 1 .. Len(edges) + 1 |-> edges'[j].id]
    BY <1>3, <1>4, <1>6
  <2>3. \A i \in DOMAIN edges' : i \in DOMAIN edges \/ i = Len(edges) + 1
    BY <1>2, <1>3
  <2> QED BY <2>1, <2>2, <2>3 DEF Lineages, Lineage
<1>8. Carried'
  BY <1>1, <1>3, <1>6 DEF Carried, Lineage
<1>9. NoSubtaskTwice'
  <2>1. \A i \in DOMAIN edges : ~(edges[i].pre = e.pre /\ edges[i].goal = e.goal)
    BY <1>1, <1>4 DEF TreeInv, Fresh, Existing, Matches
  <2> QED BY <1>3, <2>1 DEF TreeInv, NoSubtaskTwice
<1> QED BY <1>1, <1>5, <1>7, <1>8, <1>9 DEF TreeInv, WalkPC, Fresh

\* The other steps of the walk.
LEMMA WalkKeeps ==
    ASSUME TreeInv,
           \/ \E node \in frontier : Discover(node)
           \/ LevelDiscovered \/ Skip \/ Launch \/ Trained \/ Link \/ NextLevel
    PROVE  TreeInv'
<1>1. CASE \E node \in frontier : Discover(node)
  BY <1>1, EdgesKept
     DEF Discover, NoteDiscovered, MarkTerminal, manifest, TreeInv, WalkPC, Carried, Fresh, Lineage
<1>2. CASE LevelDiscovered
  BY <1>2, EdgesKept DEF LevelDiscovered, manifest, TreeInv, WalkPC, Carried, Fresh, Lineage
<1>3. CASE Skip
  BY <1>3, EdgesKept DEF Skip, manifest, TreeInv, WalkPC, Carried, Fresh, Lineage
<1>4. CASE Launch
  BY <1>4, EdgesKept
     DEF Launch, manifest, TreeInv, WalkPC, Carried, Fresh, Lineage, Existing, Candidate, Matches
<1>5. CASE Trained
  BY <1>5, EdgesKept
     DEF Trained, manifest, TreeInv, WalkPC, Carried, Fresh, Lineage, Existing, Candidate, Matches
<1>6. CASE Link
  BY <1>6, EdgesKept DEF Link, SetResetPath, TreeInv, WalkPC, Carried, Fresh, Lineage
<1>7. CASE NextLevel
  BY <1>7, EdgesKept DEF NextLevel, LevelPC, manifest, TreeInv, WalkPC, Carried, Fresh, Lineage
<1> QED BY <1>1, <1>2, <1>3, <1>4, <1>5, <1>6, <1>7

LEMMA CrashKeeps == ASSUME TreeInv, Crash PROVE TreeInv'
BY EdgesKept DEF Crash, Forget, manifest, WalkPC, Carried, Fresh

LEMMA StutterKeeps == ASSUME TreeInv, UNCHANGED vars PROVE TreeInv'
BY EdgesKept DEF vars, walk, manifest, TreeInv, WalkPC, Carried, Fresh, Lineage, Existing, Candidate, Matches

LEMMA TreeStep == ASSUME TreeInv, [Next]_vars PROVE TreeInv'
BY StartKeeps, PersistKeeps, WalkKeeps, CrashKeeps, StutterKeeps DEF Next, Step

LEMMA TreeAlways == Spec => []TreeInv
<1>1. TreeInv /\ [Next]_vars => TreeInv'
  BY TreeStep
<1> QED BY <1>1, TreeInit, PTL DEF Spec

-----------------------------------------------------------------------------
\* The checkpoint of an edge was trained on that edge and on those before it, however often the
\* walk dies and is started again (orchestrator.py:649-797).
THEOREM SingleCheckpointHolds == Spec => []SingleCheckpoint
<1>1. TreeInv => SingleCheckpoint
  BY DEF TreeInv, Lineages, Lineage, SingleCheckpoint
<1> QED BY <1>1, TreeAlways, PTL

\* The walk by itself adds no edge that was not trained, which its driver does not keep
\* (orchestrator.py:782-787).
THEOREM AddsWhatItTrained == Spec => [](\A i \in DOMAIN edges : WasTrained(edges[i]))
<1>1. TreeInv => \A i \in DOMAIN edges : WasTrained(edges[i])
  <2> SUFFICES ASSUME TreeInv, NEW i \in DOMAIN edges PROVE WasTrained(edges[i])
    OBVIOUS
  <2>1. edges \in Seq({edges[j] : j \in DOMAIN edges})
    BY DEF TreeInv, EdgeSequence
  <2>2. i \in Nat /\ i >= 1 /\ i \in 1 .. i
    BY <2>1
  <2>3. edges[i].ckpt = [j \in 1 .. i |-> edges[j].id]
    BY DEF TreeInv, Lineages, Lineage
  <2>4. Len(edges[i].ckpt) = i /\ edges[i].ckpt[i] = edges[i].id /\ edges[i].ckpt # <<>>
    BY <2>2, <2>3
  <2> QED BY <2>4 DEF WasTrained
<1> QED BY <1>1, TreeAlways, PTL

\* No two edges of the tree are one subtask, whatever ids the VLM gives it after a restart
\* (_find_matching_existing_edge, orchestrator.py:105-120, 766-773).
THEOREM NoSubtaskTwiceHolds == Spec => []NoSubtaskTwice
<1>1. TreeInv => NoSubtaskTwice
  BY DEF TreeInv
<1> QED BY <1>1, TreeAlways, PTL

-----------------------------------------------------------------------------
(* How the tree grows.                                                     *)

NoRepeat(list) == \A k, l \in DOMAIN list : list[k].id = list[l].id => k = l
Ids(list) == {list[k].id : k \in DOMAIN list}

AtWork == pc \in {"discover", "train", "training", "collect", "link"}

\* No candidate of the level has the id of an edge, but the one just persisted.
LevelIds ==
    /\ IsList(levelEdges)
    /\ NoRepeat(levelEdges)
    /\ Ids(levelEdges) \subseteq seen
    /\ \A k \in DOMAIN levelEdges : levelEdges[k].id \in EdgeIds <=> pc = "link" /\ k = 1
    /\ pc \in {"training", "collect", "link"} => levelEdges # <<>>

Waiting(i) == seeded[i].node \notin visited

SeededNode(node) == \E seeds \in Seeds : \E i \in DOMAIN seeds : seeds[i].node = node

\* The candidates of the seeded nodes that the walk has not come to have ids
\* that nothing else has.
SeededInv ==
    \A i \in DOMAIN seeded :
        /\ SeededNode(seeded[i].node)
        /\ SeedList(seeded[i].candidates, seeded[i].node)
        /\ Waiting(i) =>
              /\ NoRepeat(seeded[i].candidates)
              /\ Ids(seeded[i].candidates) \subseteq seen
              /\ Ids(seeded[i].candidates) \cap (EdgeIds \cup Ids(levelEdges)) = {}
              /\ \A j \in DOMAIN seeded \ {i} :
                    Ids(seeded[i].candidates) \cap Ids(seeded[j].candidates) = {}

IdInv ==
    AtWork => /\ IsFiniteSet(seen)
              /\ EdgeIds \subseteq seen
              /\ LevelIds
              /\ SeededInv

\* An edge produces the node of its precondition and its id; the ids of its
\* precondition are those of earlier edges.
EdgeTree ==
    /\ NoRepeat(edges)
    /\ \A i \in DOMAIN edges :
          /\ edges[i].produces = edges[i].pre \cup {edges[i].id}
          /\ edges[i].pre \subseteq {edges[j].id : j \in 1 .. i - 1}
          /\ edges[i].pre = Root \/ \E j \in 1 .. i - 1 : edges[j].produces = edges[i].pre

Reached(node) == node = Root \/ \E i \in DOMAIN edges : edges[i].produces = node

\* What the first part of Grounded says of an edge.
GroundedIn(reset, node) ==
    \/ \E i \in DOMAIN edges : edges[i].id = reset /\ edges[i].produces = node
    \/ /\ reset = None
       /\ node = Root \/ node \notin DOMAIN resetPaths \/ SeededNode(node)

\* A recorded path is that of the edge that produces the node.
PathsInv ==
    /\ \A n \in DOMAIN resetPaths :
          \E i \in DOMAIN edges : edges[i].id = resetPaths[n] /\ edges[i].produces = n
    /\ \A i \in DOMAIN edges : GroundedIn(edges[i].reset, edges[i].pre)

Lost == {e \in Edges : e.produces \notin DOMAIN resetPaths}

\* A start has its path still to lose until it persists an edge.
LossInv ==
    /\ starts \in Nat
    /\ Cardinality(Lost) <= starts
    /\ pc \in {"discover", "train", "training", "collect"} => Cardinality(Lost) + 1 <= starts

\* A candidate of the level can become an edge.
CandidateOK(c) ==
    /\ c.produces = c.pre \cup {c.id}
    /\ Reached(c.pre)
    /\ GroundedIn(c.reset, c.pre)
    /\ pc = "link" => Candidate.id \notin c.pre

LevelTree ==
    /\ \A c \in ToSet(levelEdges) : CandidateOK(c)
    /\ pc = "link" => /\ edges # <<>>
                      /\ edges[Len(edges)].id = Candidate.id
                      /\ edges[Len(edges)].produces = Candidate.produces
                      /\ Candidate.produces \notin DOMAIN resetPaths

GrowInv ==
    /\ EdgeTree /\ PathsInv /\ LossInv
    /\ AtWork => LevelTree /\ \A n \in frontier \cup nextFrontier : Reached(n)

-----------------------------------------------------------------------------
(* Ids that are new.                                                       *)

LEMMA NatMin == ASSUME NEW T \in SUBSET Nat, T # {} PROVE \E x \in T : \A y \in T : x <= y
<1>1. IsWellFoundedOn(OpToRel(<, Nat), Nat)
  BY NatLessThanWellFounded
<1>2. PICK x \in T : \A y \in T : ~(<<y, x>> \in OpToRel(<, Nat))
  BY <1>1, WFMin
<1>3. \A y \in T : ~(y < x)
  BY <1>2 DEF OpToRel
<1> QED BY <1>3

LEMMA ImageFinite ==
    ASSUME NEW S, IsFiniteSet(S), NEW f
    PROVE  IsFiniteSet({f[x] : x \in S})
<1> DEFINE T == {f[x] : x \in S}
           g == [x \in S |-> f[x]]
<1>1. g \in Surjection(S, T)
  BY DEF Surjection
<1> HIDE DEF g
<1> QED BY <1>1, FS_Surjection

\* More names than used ids: one of them is free.
LEMMA FreeNumber ==
    ASSUME NEW used, IsFiniteSet(used), NEW n \in Nat, n = Cardinality(used),
           NEW f, \A i, j \in 1 .. n + 1 : f[i] = f[j] => i = j
    PROVE  \E i \in 1 .. n + 1 : f[i] \notin used
<1> SUFFICES ASSUME \A i \in 1 .. n + 1 : f[i] \in used PROVE FALSE
  OBVIOUS
<1> DEFINE g == [i \in 1 .. n + 1 |-> f[i]]
<1>1. g \in [1 .. n + 1 -> used]
  OBVIOUS
<1>2. IsFiniteSet(1 .. n + 1) /\ Cardinality(1 .. n + 1) = n + 1
  <2>1. \A a, b \in Int : IsFiniteSet(a..b) /\ Cardinality(a..b) = IF a > b THEN 0 ELSE b - a + 1
    BY FS_Interval
  <2>2. 1 \in Int /\ n + 1 \in Int /\ 1 <= n + 1 /\ n + 1 - 1 + 1 = n + 1
    OBVIOUS
  <2> QED BY <2>1, <2>2
<1>3. Cardinality(1 .. n + 1) > Cardinality(used)
  BY <1>2
<1>4. \E x, y \in 1 .. n + 1 : x # y /\ g[x] = g[y]
  <2> HIDE DEF g
  <2> QED BY <1>1, <1>2, <1>3, FS_PigeonHole
<1> QED BY <1>4

LEMMA DedupeNew ==
    ASSUME NEW id, NEW used, IsFiniteSet(used), NEW node
    PROVE  DedupeId(id, used, node) \notin used
<1>1. CASE id \notin used
  BY <1>1 DEF DedupeId
<1>2. CASE id \in used
  <2> DEFINE n == Cardinality(used)
             f == [i \in 1 .. n + 1 |-> [base |-> id, under |-> node, nth |-> i]]
             T == {i \in 1 .. n + 1 : f[i] \notin used}
             Free(i) == f[i] \notin used /\ \A m \in 1 .. i - 1 : f[m] \in used
  <2>1. n \in Nat
    BY FS_CardinalityType
  <2>2. \A i, j \in 1 .. n + 1 : f[i] = f[j] => i = j
    <3> SUFFICES ASSUME NEW i \in 1 .. n + 1, NEW j \in 1 .. n + 1, f[i] = f[j] PROVE i = j
      OBVIOUS
    <3>1. f[i].nth = f[j].nth
      OBVIOUS
    <3> QED BY <3>1
  <2>3. T # {}
    <3> HIDE DEF f
    <3> QED BY <2>1, <2>2, FreeNumber
  <2>4. T \in SUBSET Nat
    BY <2>1
  <2>5. PICK x \in T : \A y \in T : x <= y
    <3> HIDE DEF T
    <3> QED BY <2>3, <2>4, NatMin
  <2>6. x \in 1 .. n + 1 /\ Free(x)
    <3> HIDE DEF f
    <3>1. x \in 1 .. n + 1 /\ f[x] \notin used
      OBVIOUS
    <3>2. ASSUME NEW m \in 1 .. x - 1 PROVE f[m] \in used
      BY <2>1, <2>5, <3>1
    <3> QED BY <3>1, <3>2
  <2> DEFINE q == CHOOSE i \in 1 .. n + 1 : Free(i)
  <2>7. q \in 1 .. n + 1 /\ Free(q)
    <3> HIDE DEF Free
    <3> QED BY <2>6
  <2>8. \A i \in 1 .. n + 1 : \A m \in 1 .. i - 1 : m \in 1 .. n + 1
    BY <2>1
  <2>9. \A i \in 1 .. n + 1 : f[i] = [base |-> id, under |-> node, nth |-> i]
    OBVIOUS
  <2>10. \A i \in 1 .. n + 1 :
            Free(i) <=> /\ [base |-> id, under |-> node, nth |-> i] \notin used
                        /\ \A m \in 1 .. i - 1 : [base |-> id, under |-> node, nth |-> m] \in used
    <3> HIDE DEF f
    <3> QED BY <2>8, <2>9
  <2>11. DedupeId(id, used, node) = [base |-> id, under |-> node, nth |-> q]
    <3> HIDE DEF Free
    <3> QED BY <1>2, <2>10 DEF DedupeId
  <2> QED BY <2>7, <2>9, <2>11
<1> QED BY <1>1, <1>2

\* The loop of FinalIds, up to the n-th candidate.
AreIds(f, list, used, node, n) ==
    f = [i \in 1 .. n |-> DedupeId(list[i].id, used \cup {f[j] : j \in 1 .. i - 1}, node)]

LEMMA IdsExist ==
    ASSUME NEW list, NEW used, NEW node, NEW n \in Nat
    PROVE  \E f : AreIds(f, list, used, node, n)
<1> DEFINE T == {m \in Nat : ~\E f : AreIds(f, list, used, node, m)}
<1> SUFFICES T = {}
  OBVIOUS
<1> SUFFICES ASSUME T # {} PROVE FALSE
  OBVIOUS
<1>1. PICK m \in T : \A y \in T : m <= y
  BY NatMin
<1>2. CASE m = 0
  <2>1. AreIds([i \in 1 .. 0 |-> 0], list, used, node, 0)
    BY DEF AreIds
  <2> QED BY <1>1, <1>2, <2>1
<1>3. CASE m # 0
  <2>1. m - 1 \in Nat /\ m - 1 \notin T
    BY <1>1, <1>3
  <2>2. PICK f : AreIds(f, list, used, node, m - 1)
    BY <2>1
  <2> DEFINE G(e, i) == DedupeId(list[i].id, used \cup {e[j] : j \in 1 .. i - 1}, node)
             e == [i \in 1 .. m |-> G(f, i)]
  <2>3. \A i \in 1 .. m - 1 : f[i] = G(f, i)
    BY <2>2 DEF AreIds
  <2>4. \A i \in 1 .. m - 1 : e[i] = f[i]
    <3> HIDE DEF G
    <3> QED BY <2>3
  <2> HIDE DEF e
  <2>5. ASSUME NEW i \in 1 .. m PROVE G(e, i) = G(f, i)
    <3>1. \A j \in 1 .. i - 1 : e[j] = f[j]
      BY <2>4
    <3>2. {e[j] : j \in 1 .. i - 1} = {f[j] : j \in 1 .. i - 1}
      BY <3>1
    <3> QED BY <3>2
  <2>6. e = [i \in 1 .. m |-> G(e, i)]
    <3> HIDE DEF G
    <3> QED BY <2>5 DEF e
  <2>7. AreIds(e, list, used, node, m)
    BY <2>6 DEF AreIds
  <2> QED BY <1>1, <2>7
<1> QED BY <1>2, <1>3

LEMMA FinalIdsAre ==
    ASSUME NEW list, NEW used, NEW node, NEW n \in Nat, DOMAIN list = 1 .. n
    PROVE  AreIds(FinalIds(list, used, node), list, used, node, n)
<1> DEFINE f == CHOOSE f : AreIds(f, list, used, node, n)
<1>1. AreIds(f, list, used, node, n)
  BY IdsExist
<1>2. FinalIds(list, used, node) = f
  BY DEF FinalIds, AreIds
<1> QED BY <1>1, <1>2

\* What FinalIds gives: as many ids as candidates, new ones, all different.
LEMMA FinalIdsShape ==
    ASSUME NEW list, NEW used, NEW node, NEW n \in Nat, DOMAIN list = 1 .. n
    PROVE  /\ DOMAIN FinalIds(list, used, node) = 1 .. n
           /\ IsFiniteSet(ToSet(FinalIds(list, used, node)))
<1> DEFINE f == FinalIds(list, used, node)
<1>1. DOMAIN f = 1 .. n
  <2>1. AreIds(f, list, used, node, n)
    BY FinalIdsAre
  <2> HIDE DEF f
  <2> QED BY <2>1 DEF AreIds
<1> HIDE DEF f
<1>2. IsFiniteSet(1 .. n)
  BY FS_Interval
<1>3. IsFiniteSet({f[i] : i \in 1 .. n})
  BY <1>2, ImageFinite
<1>4. DOMAIN f = 1 .. n /\ IsFiniteSet(ToSet(f))
  BY <1>1, <1>3 DEF ToSet
<1> QED BY <1>4 DEF f

LEMMA FinalIdsNew ==
    ASSUME NEW list, NEW used, NEW node, NEW n \in Nat, DOMAIN list = 1 .. n, IsFiniteSet(used)
    PROVE  /\ \A i \in 1 .. n : FinalIds(list, used, node)[i] \notin used
           /\ \A i, j \in 1 .. n :
                 FinalIds(list, used, node)[i] = FinalIds(list, used, node)[j] => i = j
<1> DEFINE f == FinalIds(list, used, node)
           Before(i) == used \cup {f[j] : j \in 1 .. i - 1}
<1>1. AreIds(f, list, used, node, n)
  BY FinalIdsAre
<1> HIDE DEF f
<1>2. ASSUME NEW i \in 1 .. n PROVE f[i] \notin Before(i)
  <2>1. IsFiniteSet(1 .. i - 1)
    BY FS_Interval
  <2>2. IsFiniteSet({f[j] : j \in 1 .. i - 1})
    BY <2>1, ImageFinite
  <2>3. IsFiniteSet(Before(i))
    BY <2>2, FS_Union
  <2>4. f[i] = DedupeId(list[i].id, Before(i), node)
    BY <1>1 DEF AreIds
  <2> QED BY <2>3, <2>4, DedupeNew
<1>3. \A i \in 1 .. n : f[i] \notin used
  BY <1>2
<1>4. \A i \in 1 .. n : \A j \in 1 .. i - 1 : f[i] # f[j]
  BY <1>2
<1>5. \A i, j \in 1 .. n : i = j \/ j \in 1 .. i - 1 \/ i \in 1 .. j - 1
  OBVIOUS
<1>6. \A i, j \in 1 .. n : f[i] = f[j] => i = j
  BY <1>4, <1>5
<1> QED BY <1>3, <1>6 DEF f

LEMMA ListDomain == ASSUME NEW list, IsList(list) PROVE Len(list) \in Nat /\ DOMAIN list = 1 .. Len(list)
BY DEF IsList

\* The loop of SeedIds, up to the n-th node.
AreSeedIds(f, seeds, used, n) ==
    f = [i \in 1 .. n |-> FinalIds(seeds[i].candidates, used \cup UNION {ToSet(f[j]) : j \in 1 .. i - 1},
                                   seeds[i].node)]

LEMMA SeedIdsExist ==
    ASSUME NEW seeds, NEW used, NEW n \in Nat
    PROVE  \E f : AreSeedIds(f, seeds, used, n)
<1> DEFINE T == {m \in Nat : ~\E f : AreSeedIds(f, seeds, used, m)}
<1> SUFFICES T = {}
  OBVIOUS
<1> SUFFICES ASSUME T # {} PROVE FALSE
  OBVIOUS
<1>1. PICK m \in T : \A y \in T : m <= y
  BY NatMin
<1>2. CASE m = 0
  <2>1. AreSeedIds([i \in 1 .. 0 |-> 0], seeds, used, 0)
    BY DEF AreSeedIds
  <2> QED BY <1>1, <1>2, <2>1
<1>3. CASE m # 0
  <2>1. m - 1 \in Nat /\ m - 1 \notin T
    BY <1>1, <1>3
  <2>2. PICK f : AreSeedIds(f, seeds, used, m - 1)
    BY <2>1
  <2> DEFINE G(e, i) == FinalIds(seeds[i].candidates,
                                 used \cup UNION {ToSet(e[j]) : j \in 1 .. i - 1}, seeds[i].node)
             e == [i \in 1 .. m |-> G(f, i)]
  <2>3. \A i \in 1 .. m - 1 : f[i] = G(f, i)
    BY <2>2 DEF AreSeedIds
  <2>4. \A i \in 1 .. m - 1 : e[i] = f[i]
    <3> HIDE DEF G
    <3> QED BY <2>3
  <2> HIDE DEF e
  <2>5. ASSUME NEW i \in 1 .. m PROVE G(e, i) = G(f, i)
    <3>1. \A j \in 1 .. i - 1 : ToSet(e[j]) = ToSet(f[j])
      BY <2>4
    <3>2. {ToSet(e[j]) : j \in 1 .. i - 1} = {ToSet(f[j]) : j \in 1 .. i - 1}
      BY <3>1
    <3> QED BY <3>2
  <2>6. e = [i \in 1 .. m |-> G(e, i)]
    <3> HIDE DEF G
    <3> QED BY <2>5 DEF e
  <2>7. AreSeedIds(e, seeds, used, m)
    BY <2>6 DEF AreSeedIds
  <2> QED BY <1>1, <2>7
<1> QED BY <1>2, <1>3

LEMMA SeedIdsAre ==
    ASSUME NEW seeds, NEW used, NEW n \in Nat, DOMAIN seeds = 1 .. n
    PROVE  AreSeedIds(SeedIds(used, seeds), seeds, used, n)
<1> DEFINE f == CHOOSE f : AreSeedIds(f, seeds, used, n)
<1>1. AreSeedIds(f, seeds, used, n)
  BY SeedIdsExist
<1>2. SeedIds(used, seeds) = f
  BY DEF SeedIds, AreSeedIds
<1> QED BY <1>1, <1>2

SeedLists(seeds) == IsList(seeds) /\ \A i \in DOMAIN seeds : IsList(seeds[i].candidates)

NewIds(ids, seeds, used) ==
    /\ IsFiniteSet(used \cup UNION {ToSet(ids[i]) : i \in DOMAIN seeds})
    /\ \A i \in DOMAIN seeds :
          /\ DOMAIN ids[i] = DOMAIN seeds[i].candidates
          /\ \A k \in DOMAIN ids[i] : ids[i][k] \notin used
          /\ \A k, l \in DOMAIN ids[i] : ids[i][k] = ids[i][l] => k = l
    /\ \A i, j \in DOMAIN seeds : i # j => ToSet(ids[i]) \cap ToSet(ids[j]) = {}

\* The ids of the seeds are new ones, all different.
LEMMA SeedIdsNew ==
    ASSUME NEW seeds, SeedLists(seeds), NEW used, IsFiniteSet(used),
           NEW ids, ids = SeedIds(used, seeds)
    PROVE  NewIds(ids, seeds, used)
<1> DEFINE n == Len(seeds)
           Sets(m) == {ToSet(ids[j]) : j \in 1 .. m}
           Before(i) == used \cup UNION Sets(i - 1)
<1>1. n \in Nat /\ DOMAIN seeds = 1 .. n
  BY ListDomain DEF SeedLists
<1>2. AreSeedIds(ids, seeds, used, n)
  BY <1>1, SeedIdsAre
<1>3. \A i \in 1 .. n : ids[i] = FinalIds(seeds[i].candidates, Before(i), seeds[i].node)
  BY <1>2 DEF AreSeedIds
<1> HIDE DEF n
<1>4. ASSUME NEW i \in 1 .. n
      PROVE  DOMAIN ids[i] = DOMAIN seeds[i].candidates /\ IsFiniteSet(ToSet(ids[i]))
  <2>1. /\ Len(seeds[i].candidates) \in Nat
        /\ DOMAIN seeds[i].candidates = 1 .. Len(seeds[i].candidates)
    BY <1>1, ListDomain DEF SeedLists
  <2> HIDE DEF Before
  <2>2. /\ DOMAIN FinalIds(seeds[i].candidates, Before(i), seeds[i].node)
             = 1 .. Len(seeds[i].candidates)
        /\ IsFiniteSet(ToSet(FinalIds(seeds[i].candidates, Before(i), seeds[i].node)))
    BY <2>1, FinalIdsShape
  <2>3. ids[i] = FinalIds(seeds[i].candidates, Before(i), seeds[i].node)
    BY <1>3
  <2> QED BY <2>1, <2>2, <2>3
<1>5. ASSUME NEW m \in 0 .. n PROVE IsFiniteSet(used \cup UNION Sets(m))
  <2> DEFINE g == [j \in 1 .. m |-> ToSet(ids[j])]
  <2>1. IsFiniteSet(1 .. m) /\ m <= n
    <3>1. m \in Int /\ 1 \in Int
      OBVIOUS
    <3> QED BY <3>1, FS_Interval
  <2>2. Sets(m) = {g[j] : j \in 1 .. m}
    OBVIOUS
  <2>3. IsFiniteSet(Sets(m))
    <3> HIDE DEF g, Sets
    <3> QED BY <2>1, <2>2, ImageFinite
  <2>4. \A S \in Sets(m) : IsFiniteSet(S)
    <3>1. \A j \in 1 .. m : j \in 1 .. n
      BY <1>1, <2>1
    <3> QED BY <1>4, <3>1
  <2>5. IsFiniteSet(UNION Sets(m))
    <3> HIDE DEF Sets
    <3> QED BY <2>3, <2>4, FS_UNION
  <2> QED BY <2>5, FS_Union
<1>6. ASSUME NEW i \in 1 .. n
      PROVE  /\ \A k \in DOMAIN ids[i] : ids[i][k] \notin Before(i)
             /\ \A k, l \in DOMAIN ids[i] : ids[i][k] = ids[i][l] => k = l
  <2>1. i - 1 \in 0 .. n
    BY <1>1
  <2>2. IsFiniteSet(Before(i))
    BY <1>5, <2>1
  <2>3. /\ Len(seeds[i].candidates) \in Nat
        /\ DOMAIN seeds[i].candidates = 1 .. Len(seeds[i].candidates)
    BY <1>1, ListDomain DEF SeedLists
  <2> HIDE DEF Before
  <2> QED BY <1>3, <1>4, <2>2, <2>3, FinalIdsNew
<1>7. \A i \in 1 .. n : \A j \in 1 .. i - 1 : ToSet(ids[i]) \cap ToSet(ids[j]) = {}
  BY <1>6 DEF ToSet
<1>8. \A i, j \in 1 .. n : i = j \/ j \in 1 .. i - 1 \/ i \in 1 .. j - 1
  BY <1>1
<1>9. \A i, j \in 1 .. n : i # j => ToSet(ids[i]) \cap ToSet(ids[j]) = {}
  BY <1>7, <1>8
<1>10. IsFiniteSet(used \cup UNION Sets(n))
  <2>1. n \in 0 .. n
    BY <1>1
  <2> HIDE DEF Sets
  <2> QED BY <1>5, <2>1
<1>11. \A i \in 1 .. n : \A k \in DOMAIN ids[i] : ids[i][k] \notin used
  BY <1>6
<1> QED BY <1>1, <1>4, <1>6, <1>9, <1>10, <1>11 DEF NewIds

-----------------------------------------------------------------------------
(* Lists of candidates.                                                    *)

LEMMA Joined ==
    ASSUME NEW s, NEW t, IsList(s), IsList(t)
    PROVE  /\ IsList(s \o t)
           /\ Ids(s \o t) = Ids(s) \cup Ids(t)
           /\ ToSet(s \o t) = ToSet(s) \cup ToSet(t)
           /\ NoRepeat(s) /\ NoRepeat(t) /\ Ids(s) \cap Ids(t) = {} => NoRepeat(s \o t)
<1>1. /\ Len(s) \in Nat /\ DOMAIN s = 1 .. Len(s)
      /\ Len(t) \in Nat /\ DOMAIN t = 1 .. Len(t)
  BY ListDomain
<1> DEFINE A == ToSet(s) \cup ToSet(t)
<1>2. s \in Seq(A) /\ t \in Seq(A)
  BY DEF IsList
<1>3. /\ s \o t \in Seq(A) /\ Len(s \o t) = Len(s) + Len(t)
      /\ DOMAIN (s \o t) = 1 .. Len(s) + Len(t)
      /\ \A k \in 1 .. Len(s) : (s \o t)[k] = s[k]
      /\ \A m \in 1 .. Len(t) : (s \o t)[Len(s) + m] = t[m]
  <2> HIDE DEF A
  <2>1. s \o t \in Seq(A) /\ Len(s \o t) = Len(s) + Len(t)
    BY <1>2
  <2>2. \A k \in 1 .. Len(s) + Len(t) :
           (s \o t)[k] = IF k <= Len(s) THEN s[k] ELSE t[k - Len(s)]
    BY <1>2
  <2>3. DOMAIN (s \o t) = 1 .. Len(s) + Len(t)
    BY <1>2
  <2>4. ASSUME NEW m \in 1 .. Len(t)
        PROVE  Len(s) + m \in 1 .. Len(s) + Len(t) /\ ~(Len(s) + m <= Len(s)) /\ Len(s) + m - Len(s) = m
    BY <1>1
  <2>5. \A m \in 1 .. Len(t) : (s \o t)[Len(s) + m] = t[m]
    BY <2>2, <2>4
  <2>6. \A k \in 1 .. Len(s) : k \in 1 .. Len(s) + Len(t) /\ k <= Len(s)
    BY <1>1
  <2> QED BY <2>1, <2>2, <2>3, <2>5, <2>6
<1> DEFINE u == s \o t
<1> HIDE DEF u
<1>4. \A k \in DOMAIN u : k \in 1 .. Len(s) \/ \E m \in 1 .. Len(t) : k = Len(s) + m
  <2>1. ASSUME NEW k \in 1 .. Len(s) + Len(t), k \notin 1 .. Len(s)
        PROVE  k - Len(s) \in 1 .. Len(t) /\ k = Len(s) + (k - Len(s))
    BY <1>1, <2>1
  <2> QED BY <1>3, <2>1 DEF u
<1>5. \A k \in 1 .. Len(s) : k \in DOMAIN u
  BY <1>1, <1>3 DEF u
<1>6. \A m \in 1 .. Len(t) : Len(s) + m \in DOMAIN u
  BY <1>1, <1>3 DEF u
<1>7. (\A k \in 1 .. Len(s) : u[k] = s[k]) /\ (\A m \in 1 .. Len(t) : u[Len(s) + m] = t[m])
  BY <1>3 DEF u
<1>8. ToSet(u) = ToSet(s) \cup ToSet(t)
  BY <1>1, <1>4, <1>5, <1>6, <1>7 DEF ToSet
<1>9. IsList(u)
  BY <1>3, <1>8 DEF IsList, u
<1>10. Ids(u) = Ids(s) \cup Ids(t)
  BY <1>1, <1>4, <1>5, <1>6, <1>7 DEF Ids
<1>11. \A k \in DOMAIN u :
                 \/ k \in DOMAIN s /\ u[k] = s[k]
                 \/ \E m \in DOMAIN t : k = Len(s) + m /\ u[k] = t[m]
  BY <1>1, <1>4, <1>7
<1>12. ASSUME NoRepeat(s), NoRepeat(t), Ids(s) \cap Ids(t) = {} PROVE NoRepeat(u)
  <2> SUFFICES ASSUME NEW k \in DOMAIN u, NEW l \in DOMAIN u, u[k].id = u[l].id PROVE k = l
    BY DEF NoRepeat
  <2>1. \A x \in DOMAIN s : s[x].id \in Ids(s)
    BY DEF Ids
  <2>2. \A x \in DOMAIN t : t[x].id \in Ids(t)
    BY DEF Ids
  <2>3. \A x \in DOMAIN s : \A y \in DOMAIN t : s[x].id # t[y].id
    BY <1>12, <2>1, <2>2
  <2> QED BY <1>11, <1>12, <2>3 DEF NoRepeat
<1> QED BY <1>8, <1>9, <1>10, <1>12 DEF u

LEMMA TailOf ==
    ASSUME NEW s, IsList(s), s # <<>>
    PROVE  /\ IsList(Tail(s))
           /\ 1 \in DOMAIN s
           /\ \A k \in DOMAIN Tail(s) : k + 1 \in DOMAIN s /\ k + 1 # 1 /\ Tail(s)[k] = s[k + 1]
           /\ Ids(Tail(s)) \subseteq Ids(s) /\ ToSet(Tail(s)) \subseteq ToSet(s)
           /\ NoRepeat(s) => NoRepeat(Tail(s)) /\ s[1].id \notin Ids(Tail(s))
<1> DEFINE A == ToSet(s)
           t == Tail(s)
<1>1. s \in Seq(A)
  BY DEF IsList
<1>2. Len(s) \in Nat /\ Len(s) > 0 /\ DOMAIN s = 1 .. Len(s)
  <2> HIDE DEF A
  <2> QED BY <1>1
<1>3. t \in Seq(A) /\ Len(t) = Len(s) - 1 /\ \A k \in 1 .. Len(s) - 1 : t[k] = s[k + 1]
  <2> HIDE DEF A
  <2> QED BY <1>1, <1>2
<1> HIDE DEF t
<1>4. DOMAIN t = 1 .. Len(s) - 1
  <2> HIDE DEF A
  <2> QED BY <1>3
<1>5. \A k \in 1 .. Len(s) - 1 : k + 1 \in 1 .. Len(s) /\ k + 1 # 1
  BY <1>2
<1>6. \A k \in DOMAIN t : k + 1 \in DOMAIN s /\ k + 1 # 1 /\ t[k] = s[k + 1]
  BY <1>2, <1>3, <1>4, <1>5
<1>7. IsList(t)
  <2>1. \A k \in 1 .. Len(t) : t[k] \in ToSet(t)
    BY <1>3, <1>4 DEF ToSet
  <2>2. Len(t) \in Nat /\ DOMAIN t = 1 .. Len(t)
    BY <1>2, <1>3, <1>4
  <2>3. t = [k \in 1 .. Len(t) |-> t[k]]
    <3> HIDE DEF A
    <3> QED BY <1>3
  <2> QED BY <2>1, <2>2, <2>3 DEF IsList
<1>8. Ids(t) \subseteq Ids(s) /\ ToSet(t) \subseteq ToSet(s)
  BY <1>6 DEF Ids, ToSet
<1>9. ASSUME NoRepeat(s) PROVE NoRepeat(t) /\ s[1].id \notin Ids(t)
  <2>1. 1 \in DOMAIN s
    BY <1>2
  <2>2. s[1].id \notin Ids(t)
    BY <1>6, <1>9, <2>1 DEF Ids, NoRepeat
  <2>3. \A k, l \in 1 .. Len(s) - 1 : k + 1 = l + 1 => k = l
    BY <1>2
  <2>4. NoRepeat(t)
    BY <1>4, <1>6, <1>9, <2>3 DEF NoRepeat
  <2> QED BY <2>2, <2>4
<1>10. 1 \in DOMAIN s
  BY <1>2
<1> QED BY <1>6, <1>7, <1>8, <1>9, <1>10 DEF t

-----------------------------------------------------------------------------
(* Ids: no candidate on its way has the id of an edge.                     *)

LEMMA EdgesFinite == ASSUME EdgeSequence PROVE IsFiniteSet(Edges) /\ IsFiniteSet(EdgeIds) /\ IsFiniteSet(Lost)
<1>1. Len(edges) \in Nat /\ DOMAIN edges = 1 .. Len(edges)
  BY DEF EdgeSequence
<1>2. IsFiniteSet(DOMAIN edges)
  BY <1>1, FS_Interval
<1>3. IsFiniteSet(Edges)
  BY <1>2, ImageFinite DEF Edges, ToSet
<1> DEFINE g == [i \in DOMAIN edges |-> edges[i].id]
<1>4. IsFiniteSet({g[i] : i \in DOMAIN edges})
  <2> HIDE DEF g
  <2> QED BY <1>2, ImageFinite
<1>5. EdgeIds = {g[i] : i \in DOMAIN edges}
  BY DEF EdgeIds, Edges, ToSet
<1>6. Lost \subseteq Edges
  BY DEF Lost
<1> QED BY <1>3, <1>4, <1>5, <1>6, FS_Subset

\* A seeded candidate under its final id.
LEMMA RenamedSeed ==
    ASSUME NEW list, NEW node, SeedList(list, node),
           NEW ids, DOMAIN ids = DOMAIN list,
           NEW new, new = Renamed(list, ids, node)
    PROVE  /\ SeedList(new, node) /\ DOMAIN new = DOMAIN list
           /\ \A k \in DOMAIN new : new[k].id = ids[k]
           /\ Ids(new) = ToSet(ids)
<1>1. DOMAIN new = DOMAIN list
  BY DEF Renamed
<1>2. ASSUME NEW k \in DOMAIN list PROVE SeedOf(new[k], node) /\ new[k].id = ids[k]
  <2> DEFINE c == list[k]
  <2>1. /\ c = [id |-> c.id, pre |-> node, goal |-> c.goal, produces |-> node \cup {c.id},
                reset |-> c.reset]
        /\ c.reset = None \/ node = {c.reset}
    BY DEF SeedOf, SeedList, ToSet
  <2>2. CASE ids[k] = c.id
    <3>1. new[k] = c
      BY <2>2 DEF Renamed
    <3> QED BY <2>1, <2>2, <3>1 DEF SeedOf
  <2>3. CASE ids[k] # c.id
    <3>1. new[k] = [c EXCEPT !.id = ids[k], !.produces = node \cup {ids[k]}]
      BY <2>3 DEF Renamed
    <3>2. new[k] = [id |-> ids[k], pre |-> node, goal |-> c.goal, produces |-> node \cup {ids[k]},
                    reset |-> c.reset]
      <4> DEFINE G == c.goal
                 R == c.reset
                 I == c.id
      <4>1. c = [id |-> I, pre |-> node, goal |-> G, produces |-> node \cup {I}, reset |-> R]
        BY <2>1
      <4> HIDE DEF c, G, R, I
      <4>2. new[k] = [id |-> ids[k], pre |-> node, goal |-> G, produces |-> node \cup {ids[k]},
                      reset |-> R]
        BY <3>1, <4>1
      <4> QED BY <4>2 DEF G, R
    <3> QED BY <2>1, <3>2 DEF SeedOf
  <2> QED BY <2>2, <2>3
<1>3. Len(list) \in Nat /\ DOMAIN list = 1 .. Len(list)
  BY ListDomain DEF SeedList
<1>4. IsList(new)
  <2>1. new = [k \in 1 .. Len(list) |-> new[k]]
    BY <1>3 DEF Renamed
  <2>2. \A k \in 1 .. Len(list) : new[k] \in ToSet(new)
    BY <1>1, <1>3 DEF ToSet
  <2> QED BY <1>3, <2>1, <2>2 DEF IsList
<1>5. Ids(new) = ToSet(ids)
  BY <1>1, <1>2 DEF Ids, ToSet
<1>6. \A c \in ToSet(new) : SeedOf(c, node)
  BY <1>1, <1>2 DEF ToSet
<1> QED BY <1>1, <1>2, <1>4, <1>5, <1>6 DEF SeedList

\* Candidates whose ids are new to the seeded ones, or one of their lists.
LEMMA SeededKept ==
    ASSUME SeededInv, UNCHANGED seeded, visited \subseteq visited', seen \subseteq seen',
           EdgeIds' \subseteq EdgeIds \cup Ids(levelEdges),
           NEW new, Ids(levelEdges)' \subseteq Ids(levelEdges) \cup new,
           \A i \in DOMAIN seeded :
              Waiting(i) /\ Waiting(i)' => Ids(seeded[i].candidates) \cap new = {}
    PROVE  SeededInv'
<1>1. \A i \in DOMAIN seeded : Waiting(i)' => Waiting(i)
  BY DEF Waiting
<1> SUFFICES ASSUME NEW i \in DOMAIN seeded
             PROVE  /\ SeededNode(seeded[i].node)'
                    /\ SeedList(seeded[i].candidates, seeded[i].node)'
                    /\ Waiting(i)' =>
                          /\ NoRepeat(seeded[i].candidates)'
                          /\ Ids(seeded[i].candidates)' \subseteq seen'
                          /\ Ids(seeded[i].candidates)' \cap (EdgeIds' \cup Ids(levelEdges)') = {}
                          /\ \A j \in DOMAIN seeded \ {i} :
                                Ids(seeded[i].candidates)' \cap Ids(seeded[j].candidates)' = {}
  BY DEF SeededInv
<1>3. /\ SeededNode(seeded[i].node)
      /\ SeedList(seeded[i].candidates, seeded[i].node)
  BY DEF SeededInv
<1>4. /\ SeededNode(seeded[i].node)'
      /\ SeedList(seeded[i].candidates, seeded[i].node)'
  BY <1>3 DEF SeededNode, SeedList, IsList, ToSet, SeedOf
<1>5. ASSUME Waiting(i)'
      PROVE  /\ NoRepeat(seeded[i].candidates)'
             /\ Ids(seeded[i].candidates)' \subseteq seen'
             /\ Ids(seeded[i].candidates)' \cap (EdgeIds' \cup Ids(levelEdges)') = {}
             /\ \A j \in DOMAIN seeded \ {i} :
                   Ids(seeded[i].candidates)' \cap Ids(seeded[j].candidates)' = {}
  <2>1. /\ NoRepeat(seeded[i].candidates)
        /\ Ids(seeded[i].candidates) \subseteq seen
        /\ Ids(seeded[i].candidates) \cap (EdgeIds \cup Ids(levelEdges)) = {}
        /\ \A j \in DOMAIN seeded \ {i} :
              Ids(seeded[i].candidates) \cap Ids(seeded[j].candidates) = {}
    BY <1>1, <1>5 DEF SeededInv
  <2>2. Ids(seeded[i].candidates) \cap new = {}
    BY <1>1, <1>5
  <2>3. \A j \in DOMAIN seeded : Ids(seeded[j].candidates)' = Ids(seeded[j].candidates)
    BY DEF Ids
  <2>4. NoRepeat(seeded[i].candidates)'
    BY <2>1 DEF NoRepeat
  <2> QED BY <2>1, <2>2, <2>3, <2>4
<1> QED BY <1>4, <1>5

\* What the walk starts with: the ids of the seeds are new ones, all different.
LEMMA EnterIds ==
    ASSUME EdgeSequence, NEW seeds \in Seeds, EnterWalk(seeds), UNCHANGED edges
    PROVE  IdInv'
<1>1. PICK ids : ids = SeedIds(EdgeIds, seeds)
  OBVIOUS
<1>2. /\ seen' = EdgeIds \cup UNION {ToSet(ids[i]) : i \in DOMAIN seeds}
      /\ seeded' = SeedBatches(seeds, ids)
      /\ levelEdges' = <<>> /\ pc' \in {"discover", "done"}
  BY <1>1 DEF EnterWalk, LevelPC
<1>3. EdgeIds' = EdgeIds
  BY DEF EdgeIds, Edges
<1>4. /\ IsList(seeds)
      /\ \A i \in DOMAIN seeds : SeedList(seeds[i].candidates, seeds[i].node)
  BY SeedAssumption
<1>5. /\ IsFiniteSet(seen')
      /\ \A i \in DOMAIN seeds :
            /\ DOMAIN ids[i] = DOMAIN seeds[i].candidates
            /\ \A k \in DOMAIN ids[i] : ids[i][k] \notin EdgeIds
            /\ \A k, l \in DOMAIN ids[i] : ids[i][k] = ids[i][l] => k = l
      /\ \A i, j \in DOMAIN seeds : i # j => ToSet(ids[i]) \cap ToSet(ids[j]) = {}
  <2>1. SeedLists(seeds)
    BY <1>4 DEF SeedLists, SeedList
  <2>2. IsFiniteSet(EdgeIds)
    BY EdgesFinite
  <2>3. NewIds(ids, seeds, EdgeIds)
    BY <1>1, <2>1, <2>2, SeedIdsNew
  <2> QED BY <1>2, <2>3 DEF NewIds
<1>6. /\ DOMAIN seeded' = DOMAIN seeds
      /\ \A i \in DOMAIN seeds :
            /\ seeded'[i].node = seeds[i].node
            /\ seeded'[i].candidates = Renamed(seeds[i].candidates, ids[i], seeds[i].node)
  BY <1>2 DEF SeedBatches
<1> DEFINE L(i) == seeded'[i].candidates
<1>7. ASSUME NEW i \in DOMAIN seeds
      PROVE  /\ SeedList(L(i), seeds[i].node) /\ DOMAIN L(i) = DOMAIN ids[i]
             /\ \A k \in DOMAIN L(i) : L(i)[k].id = ids[i][k]
             /\ Ids(L(i)) = ToSet(ids[i])
  <2> HIDE DEF L
  <2>1. L(i) = Renamed(seeds[i].candidates, ids[i], seeds[i].node)
    BY <1>6 DEF L
  <2>2. PICK list, node : list = seeds[i].candidates /\ node = seeds[i].node
    OBVIOUS
  <2>3. /\ SeedList(list, node) /\ DOMAIN ids[i] = DOMAIN list
        /\ L(i) = Renamed(list, ids[i], node)
    BY <1>4, <1>5, <2>1, <2>2
  <2>4. /\ SeedList(L(i), node) /\ DOMAIN L(i) = DOMAIN list
        /\ \A k \in DOMAIN L(i) : L(i)[k].id = ids[i][k]
        /\ Ids(L(i)) = ToSet(ids[i])
    BY <2>3, RenamedSeed
  <2> QED BY <2>2, <2>3, <2>4
<1>8. ASSUME NEW i \in DOMAIN seeds
      PROVE  /\ SeededNode(seeds[i].node)
             /\ NoRepeat(L(i))
             /\ Ids(L(i)) \subseteq seen'
             /\ Ids(L(i)) \cap EdgeIds = {}
             /\ \A j \in DOMAIN seeds \ {i} : Ids(L(i)) \cap Ids(L(j)) = {}
  <2> HIDE DEF L
  <2>1. SeededNode(seeds[i].node)
    BY DEF SeededNode
  <2>2. NoRepeat(L(i))
    BY <1>5, <1>7 DEF NoRepeat
  <2>3. Ids(L(i)) \subseteq seen' /\ Ids(L(i)) \cap EdgeIds = {}
    BY <1>2, <1>5, <1>7 DEF ToSet
  <2>4. ASSUME NEW j \in DOMAIN seeds \ {i} PROVE Ids(L(i)) \cap Ids(L(j)) = {}
    <3>1. Ids(L(i)) = ToSet(ids[i]) /\ Ids(L(j)) = ToSet(ids[j])
      BY <1>7
    <3>2. ToSet(ids[i]) \cap ToSet(ids[j]) = {}
      BY <1>5
    <3> QED BY <3>1, <3>2
  <2> QED BY <2>1, <2>2, <2>3, <2>4
<1>9. Ids(levelEdges)' = {}
  BY <1>2 DEF Ids
<1>10. SeededInv'
  <2> SUFFICES ASSUME NEW i \in DOMAIN seeded'
               PROVE  /\ SeededNode(seeded[i].node)'
                      /\ SeedList(seeded[i].candidates, seeded[i].node)'
                      /\ NoRepeat(seeded[i].candidates)'
                      /\ Ids(seeded[i].candidates)' \subseteq seen'
                      /\ Ids(seeded[i].candidates)' \cap (EdgeIds' \cup Ids(levelEdges)') = {}
                      /\ \A j \in DOMAIN seeded' \ {i} :
                            Ids(seeded[i].candidates)' \cap Ids(seeded[j].candidates)' = {}
    BY DEF SeededInv
  <2>1. i \in DOMAIN seeds
    BY <1>6
  <2>2. SeededNode(seeded[i].node)'
    BY <1>6, <1>8, <2>1 DEF SeededNode
  <2>3. NoRepeat(seeded[i].candidates)'
    BY <1>8, <2>1 DEF NoRepeat
  <2>4. SeedList(seeded[i].candidates, seeded[i].node)'
    BY <1>6, <1>7, <2>1 DEF SeedList, IsList, ToSet, SeedOf
  <2>5. \A j \in DOMAIN seeds : Ids(seeded[j].candidates)' = Ids(L(j))
    BY DEF Ids
  <2> HIDE DEF L
  <2> QED BY <1>3, <1>6, <1>8, <1>9, <2>1, <2>2, <2>3, <2>4, <2>5
<1>11. LevelIds' \/ pc' = "done"
  BY <1>2 DEF LevelIds, IsList, NoRepeat, Ids, ToSet
<1> QED BY <1>2, <1>3, <1>5, <1>10, <1>11 DEF IdInv, AtWork

\* Candidates under ids that are new.
NewList(list) ==
    IsList(list) /\ NoRepeat(list) /\ Ids(list) \cap (EdgeIds \cup Ids(levelEdges)) = {}

LEMMA AddIds ==
    ASSUME IdInv, pc = "discover", pc' = "discover", UNCHANGED <<edges, seeded>>,
           visited \subseteq visited', seen \subseteq seen', IsFiniteSet(seen'),
           NEW list, NewList(list), Ids(list) \subseteq seen', levelEdges' = levelEdges \o list,
           \A i \in DOMAIN seeded :
              Waiting(i) /\ Waiting(i)' => Ids(seeded[i].candidates) \cap Ids(list) = {}
    PROVE  IdInv'
<1> DEFINE u == levelEdges \o list
<1>1. LevelIds /\ SeededInv /\ EdgeIds \subseteq seen
  BY DEF IdInv, AtWork
<1>2. IsList(u) /\ Ids(u) = Ids(levelEdges) \cup Ids(list) /\ NoRepeat(u)
  BY <1>1, Joined DEF LevelIds, NewList
<1>3. levelEdges' = u
  OBVIOUS
<1> HIDE DEF u
<1>4. EdgeIds' = EdgeIds
  BY DEF EdgeIds, Edges
<1>5. Ids(levelEdges)' = Ids(levelEdges) \cup Ids(list)
  BY <1>2, <1>3 DEF Ids
<1>6. \A k \in DOMAIN u : u[k].id \notin EdgeIds
  <2>1. Ids(levelEdges) \cap EdgeIds = {}
    BY <1>1 DEF LevelIds, Ids
  <2>2. Ids(u) \cap EdgeIds = {}
    BY <1>2, <2>1 DEF NewList
  <2> QED BY <2>2 DEF Ids
<1>7. IsList(levelEdges)' /\ NoRepeat(levelEdges)'
  <2>1. PICK l : l = levelEdges'
    OBVIOUS
  <2>2. IsList(l) /\ NoRepeat(l)
    BY <1>2, <1>3, <2>1
  <2>3. IsList(levelEdges)'
    BY <2>1, <2>2 DEF IsList, ToSet
  <2>4. NoRepeat(levelEdges)'
    BY <2>1, <2>2 DEF NoRepeat
  <2> QED BY <2>3, <2>4
<1>8. Ids(levelEdges)' \subseteq seen'
  BY <1>1, <1>5 DEF LevelIds
<1>9. LevelIds'
  BY <1>3, <1>4, <1>6, <1>7, <1>8 DEF LevelIds
<1>10. SeededInv'
  BY <1>1, <1>4, <1>5, SeededKept
<1> QED BY <1>1, <1>4, <1>9, <1>10 DEF IdInv

\* The ids of a proposal's candidates are new.
LEMMA ProposalNew ==
    ASSUME IdInv, pc = "discover", NEW node, NEW proposal \in Proposal,
           NEW ids, ids = FinalIds(proposal, seen, node)
    PROVE  /\ NewList(Candidates(proposal, ids, node))
           /\ Ids(Candidates(proposal, ids, node)) = ToSet(ids)
           /\ ToSet(ids) \cap seen = {} /\ IsFiniteSet(ToSet(ids))
<1>1. IsFiniteSet(seen) /\ EdgeIds \subseteq seen /\ Ids(levelEdges) \subseteq seen
  BY DEF IdInv, AtWork, LevelIds
<1> DEFINE n == Len(proposal)
<1>2. n \in Nat /\ DOMAIN proposal = 1 .. n
  BY ProposalAssumption, ListDomain
<1> HIDE DEF n
<1>3. DOMAIN ids = 1 .. n /\ IsFiniteSet(ToSet(ids))
  BY <1>2, FinalIdsShape
<1>4. \A i \in 1 .. n : ids[i] \notin seen
  BY <1>1, <1>2, FinalIdsNew
<1>5. \A i, j \in 1 .. n : ids[i] = ids[j] => i = j
  BY <1>1, <1>2, FinalIdsNew
<1> DEFINE list == Candidates(proposal, ids, node)
<1>6. /\ list = [i \in 1 .. n |-> list[i]]
      /\ DOMAIN list = 1 .. n
      /\ \A i \in 1 .. n : list[i].id = ids[i]
  BY <1>2 DEF Candidates
<1> HIDE DEF list
<1>7. IsList(list)
  <2>1. \A i \in 1 .. n : list[i] \in ToSet(list)
    BY <1>6 DEF ToSet
  <2> QED BY <1>2, <1>6, <2>1 DEF IsList
<1>8. NoRepeat(list)
  BY <1>5, <1>6 DEF NoRepeat
<1>9. Ids(list) = ToSet(ids)
  BY <1>3, <1>6 DEF Ids, ToSet
<1>10. ToSet(ids) \cap seen = {}
  BY <1>3, <1>4 DEF ToSet
<1>11. NewList(list)
  BY <1>1, <1>7, <1>8, <1>9, <1>10 DEF NewList
<1> QED BY <1>3, <1>9, <1>10, <1>11 DEF list

LEMMA DiscoverIds == ASSUME IdInv, NEW node, Discover(node) PROVE IdInv'
<1>1. /\ pc = "discover" /\ pc' = pc /\ node \notin visited /\ visited' = visited \cup {node}
      /\ UNCHANGED <<edges, seeded>>
  BY DEF Discover, NoteDiscovered, MarkTerminal, manifest
<1>2. SeededInv /\ IsFiniteSet(seen)
  BY <1>1 DEF IdInv, AtWork
<1>3. ASSUME NEW i \in DOMAIN seeded, seeded[i].node = node,
             levelEdges' = levelEdges \o seeded[i].candidates, UNCHANGED <<manifest, seen>>
      PROVE  IdInv'
  <2>1. Waiting(i)
    BY <1>1, <1>3 DEF Waiting
  <2>2. PICK list : list = seeded[i].candidates
    OBVIOUS
  <2>3. NewList(list) /\ Ids(list) \subseteq seen
    BY <1>2, <2>1, <2>2 DEF SeededInv, NewList, SeedList
  <2>4. ASSUME NEW j \in DOMAIN seeded, Waiting(j), Waiting(j)'
        PROVE  Ids(seeded[j].candidates) \cap Ids(list) = {}
    <3>1. j # i
      BY <1>1, <1>3, <2>4 DEF Waiting
    <3> QED BY <1>2, <2>2, <2>4, <3>1 DEF SeededInv
  <2>5. /\ levelEdges' = levelEdges \o list /\ Ids(list) \subseteq seen' /\ seen \subseteq seen'
        /\ visited \subseteq visited' /\ IsFiniteSet(seen') /\ pc' = "discover"
    BY <1>1, <1>2, <1>3, <2>2, <2>3
  <2> QED BY <1>1, <2>3, <2>4, <2>5, AddIds
<1>4. ASSUME NEW proposal \in Proposal, NEW ids, ids = FinalIds(proposal, seen, node),
             seen' = seen \cup ToSet(ids),
             levelEdges' = levelEdges \o Candidates(proposal, ids, node)
      PROVE  IdInv'
  <2>1. PICK list : list = Candidates(proposal, ids, node)
    OBVIOUS
  <2>2. /\ NewList(list) /\ Ids(list) = ToSet(ids) /\ ToSet(ids) \cap seen = {}
        /\ IsFiniteSet(ToSet(ids))
    BY <1>1, <1>4, <2>1, ProposalNew
  <2>3. \A j \in DOMAIN seeded : Waiting(j) => Ids(seeded[j].candidates) \cap Ids(list) = {}
    BY <1>2, <2>2 DEF SeededInv
  <2>4. IsFiniteSet(seen')
    BY <1>2, <1>4, <2>2, FS_Union
  <2>5. /\ levelEdges' = levelEdges \o list /\ Ids(list) \subseteq seen' /\ seen \subseteq seen'
        /\ visited \subseteq visited' /\ pc' = "discover"
    BY <1>1, <1>4, <2>1, <2>2
  <2> QED BY <1>1, <2>2, <2>3, <2>4, <2>5, AddIds
<1> QED BY <1>3, <1>4 DEF Discover

\* The list and the ids stay, and the walk is not about to link.
LEMMA PlaceIds ==
    ASSUME IdInv, AtWork, pc # "link", pc' # "link",
           pc' \in {"training", "collect"} => levelEdges # <<>>,
           UNCHANGED <<edges, visited, seen, seeded, levelEdges>>
    PROVE  IdInv'
<1>1. LevelIds /\ SeededInv /\ IsFiniteSet(seen) /\ EdgeIds \subseteq seen
  BY DEF IdInv
<1>2. EdgeIds' = EdgeIds /\ Ids(levelEdges)' = Ids(levelEdges)
  BY DEF EdgeIds, Edges, Ids
<1>3. LevelIds'
  BY <1>1, <1>2 DEF LevelIds, IsList, NoRepeat, ToSet
<1>4. SeededInv'
  <2>1. /\ EdgeIds' \subseteq EdgeIds \cup Ids(levelEdges)
        /\ Ids(levelEdges)' \subseteq Ids(levelEdges) \cup {}
        /\ visited \subseteq visited' /\ seen \subseteq seen'
        /\ \A i \in DOMAIN seeded :
              Waiting(i) /\ Waiting(i)' => Ids(seeded[i].candidates) \cap {} = {}
    BY <1>2
  <2> QED BY <1>1, <2>1, SeededKept
<1> QED BY <1>1, <1>2, <1>3, <1>4 DEF IdInv

\* The head of the level's list is dealt with, or the rest of the list is dropped.
LEMMA ShrinkIds ==
    ASSUME IdInv, AtWork, pc' \in {"train", "discover", "done"},
           UNCHANGED <<edges, visited, seen, seeded>>,
           \/ levelEdges # <<>> /\ levelEdges' = Tail(levelEdges)
           \/ pc = "train" /\ levelEdges' = <<>>
    PROVE  IdInv'
<1>1. LevelIds /\ SeededInv /\ IsFiniteSet(seen) /\ EdgeIds \subseteq seen
  BY DEF IdInv
<1>2. EdgeIds' = EdgeIds
  BY DEF EdgeIds, Edges
<1>3. PICK l : l = levelEdges'
  OBVIOUS
<1>4. /\ IsList(l) /\ NoRepeat(l) /\ Ids(l) \subseteq Ids(levelEdges)
      /\ \A k \in DOMAIN l : l[k].id \notin EdgeIds
  <2>1. CASE levelEdges # <<>> /\ l = Tail(levelEdges)
    <3>1. IsList(levelEdges) /\ NoRepeat(levelEdges)
      BY <1>1 DEF LevelIds
    <3>2. /\ IsList(l) /\ NoRepeat(l) /\ Ids(l) \subseteq Ids(levelEdges)
          /\ \A k \in DOMAIN l : k + 1 \in DOMAIN levelEdges /\ k + 1 # 1 /\ l[k] = levelEdges[k + 1]
      BY <2>1, <3>1, TailOf
    <3> QED BY <1>1, <3>2 DEF LevelIds
  <2>2. CASE l = <<>>
    BY <2>2 DEF IsList, NoRepeat, Ids, ToSet
  <2> QED BY <1>3, <2>1, <2>2
<1>5. Ids(levelEdges)' = Ids(l)
  BY <1>3 DEF Ids
<1>6. LevelIds'
  <2>1. IsList(levelEdges)' /\ NoRepeat(levelEdges)'
    BY <1>3, <1>4 DEF IsList, NoRepeat, ToSet
  <2>2. Ids(levelEdges)' \subseteq seen'
    BY <1>1, <1>4, <1>5 DEF LevelIds
  <2>3. \A k \in DOMAIN levelEdges' : levelEdges'[k].id \notin EdgeIds'
    BY <1>2, <1>3, <1>4
  <2> QED BY <2>1, <2>2, <2>3 DEF LevelIds
<1>7. SeededInv'
  <2>1. /\ EdgeIds' \subseteq EdgeIds \cup Ids(levelEdges)
        /\ Ids(levelEdges)' \subseteq Ids(levelEdges) \cup {}
        /\ visited \subseteq visited' /\ seen \subseteq seen'
        /\ \A i \in DOMAIN seeded :
              Waiting(i) /\ Waiting(i)' => Ids(seeded[i].candidates) \cap {} = {}
    BY <1>2, <1>4, <1>5
  <2> QED BY <1>1, <2>1, SeededKept
<1> QED BY <1>1, <1>2, <1>6, <1>7 DEF IdInv

\* A sequence of edges gets one edge more.
LEMMA AddedEdge ==
    ASSUME EdgeSequence, NEW e, edges' = Append(edges, e), NEW n, n = Len(edges)
    PROVE  /\ EdgeSequence'
           /\ n \in Nat /\ DOMAIN edges = 1 .. n
           /\ DOMAIN edges' = 1 .. n + 1 /\ Len(edges') = n + 1 /\ edges'[n + 1] = e
           /\ \A i \in 1 .. n : i \in 1 .. n + 1 /\ edges'[i] = edges[i]
           /\ \A i \in 1 .. n + 1 : i \in 1 .. n \/ i = n + 1
           /\ Edges' = Edges \cup {e} /\ EdgeIds' = EdgeIds \cup {e.id}
<1>1. n \in Nat /\ DOMAIN edges = 1 .. n
  BY DEF EdgeSequence
<1>2. /\ DOMAIN edges' = 1 .. n + 1 /\ Len(edges') = n + 1 /\ edges'[n + 1] = e
      /\ \A i \in 1 .. n : edges'[i] = edges[i]
  <2> DEFINE S == {edges[i] : i \in DOMAIN edges} \cup {e}
  <2>1. edges \in Seq(S) /\ e \in S
    BY DEF EdgeSequence
  <2> HIDE DEF S
  <2> QED BY <2>1
<1>3. (\A i \in 1 .. n : i \in 1 .. n + 1) /\ n + 1 \in 1 .. n + 1
      /\ \A i \in 1 .. n + 1 : i \in 1 .. n \/ i = n + 1
  BY <1>1
<1>4. Edges' = Edges \cup {e}
  BY <1>1, <1>2, <1>3 DEF Edges, ToSet
<1>5. EdgeIds' = EdgeIds \cup {e.id}
  BY <1>4 DEF EdgeIds
<1>6. EdgeSequence'
  <2> DEFINE S == {edges[i] : i \in DOMAIN edges} \cup {e}
             T == {edges'[i] : i \in DOMAIN edges'}
  <2>1. edges \in Seq(S) /\ e \in S
    BY DEF EdgeSequence
  <2>2. T = S
    BY <1>1, <1>2, <1>3
  <2>3. edges' \in Seq(S)
    <3> HIDE DEF S
    <3> QED BY <2>1
  <2>4. edges' \in Seq(T)
    <3> HIDE DEF S, T
    <3> QED BY <2>2, <2>3
  <2> QED BY <2>4 DEF EdgeSequence
<1> QED BY <1>1, <1>2, <1>3, <1>4, <1>5, <1>6

LEMMA HeadOf == ASSUME LevelIds, levelEdges # <<>> PROVE 1 \in DOMAIN levelEdges /\ Candidate = levelEdges[1]
BY TailOf DEF LevelIds, Candidate

LEMMA PersistIds == ASSUME IdInv, EdgeSequence, Persist PROVE IdInv'
<1>1. PICK e : e = TrainedEdge(Candidate, checkpoint)
  OBVIOUS
<1>2. /\ pc = "collect" /\ pc' = "link" /\ edges' = Append(edges, e)
      /\ UNCHANGED <<visited, seen, seeded, levelEdges>>
      /\ e.id = Candidate.id
  BY <1>1 DEF Persist, AddEdge, TrainedEdge
<1>3. LevelIds /\ SeededInv /\ IsFiniteSet(seen) /\ EdgeIds \subseteq seen
  BY <1>2 DEF IdInv, AtWork
<1>4. EdgeIds' = EdgeIds \cup {e.id}
  BY <1>2, AddedEdge
<1>5. levelEdges # <<>> /\ 1 \in DOMAIN levelEdges /\ e.id = levelEdges[1].id
  BY <1>2, <1>3, HeadOf DEF LevelIds
<1>6. e.id \in Ids(levelEdges) /\ Ids(levelEdges) \subseteq seen
  BY <1>3, <1>5 DEF Ids, LevelIds
<1>7. \A k \in DOMAIN levelEdges : levelEdges[k].id \in EdgeIds' <=> k = 1
  BY <1>2, <1>3, <1>4, <1>5 DEF LevelIds, NoRepeat
<1>8. LevelIds'
  BY <1>2, <1>3, <1>5, <1>7 DEF LevelIds, IsList, NoRepeat, Ids, ToSet
<1>9. SeededInv'
  <2>1. /\ EdgeIds' \subseteq EdgeIds \cup Ids(levelEdges)
        /\ Ids(levelEdges)' \subseteq Ids(levelEdges) \cup {}
        /\ visited \subseteq visited' /\ seen \subseteq seen'
        /\ \A i \in DOMAIN seeded :
              Waiting(i) /\ Waiting(i)' => Ids(seeded[i].candidates) \cap {} = {}
    BY <1>2, <1>4, <1>6 DEF Ids
  <2> QED BY <1>2, <1>3, <2>1, SeededKept
<1>10. (EdgeIds \subseteq seen)' /\ IsFiniteSet(seen')
  BY <1>2, <1>3, <1>4, <1>6
<1> QED BY <1>8, <1>9, <1>10 DEF IdInv

LEMMA IdStutter ==
    ASSUME IdInv, UNCHANGED <<pc, edges, visited, seen, seeded, levelEdges>>
    PROVE  IdInv'
<1> SUFFICES ASSUME AtWork PROVE IdInv'
  BY DEF IdInv, AtWork
<1>1. LevelIds /\ SeededInv /\ IsFiniteSet(seen) /\ EdgeIds \subseteq seen
  BY DEF IdInv
<1>2. EdgeIds' = EdgeIds /\ Ids(levelEdges)' = Ids(levelEdges)
  BY DEF EdgeIds, Edges, Ids
<1>3. LevelIds'
  BY <1>1, <1>2 DEF LevelIds, IsList, NoRepeat, ToSet
<1>4. SeededInv'
  <2>1. /\ EdgeIds' \subseteq EdgeIds \cup Ids(levelEdges)
        /\ Ids(levelEdges)' \subseteq Ids(levelEdges) \cup {}
        /\ visited \subseteq visited' /\ seen \subseteq seen'
        /\ \A i \in DOMAIN seeded :
              Waiting(i) /\ Waiting(i)' => Ids(seeded[i].candidates) \cap {} = {}
    BY <1>2
  <2> QED BY <1>1, <2>1, SeededKept
<1> QED BY <1>1, <1>2, <1>3, <1>4 DEF IdInv

\* The steps of the walk, by itself or under its driver.
LEMMA StepIds == ASSUME IdInv, EdgeSequence, Step PROVE IdInv' /\ EdgeSequence'
<1>1. ASSUME NEW node \in frontier, Discover(node) PROVE IdInv' /\ EdgeSequence'
  <2>1. UNCHANGED edges
    BY <1>1 DEF Discover, NoteDiscovered, MarkTerminal, manifest
  <2> QED BY <1>1, <2>1, DiscoverIds DEF EdgeSequence
<1>2. ASSUME LevelDiscovered PROVE IdInv' /\ EdgeSequence'
  BY <1>2, PlaceIds DEF LevelDiscovered, AtWork, manifest, EdgeSequence
<1>3. ASSUME Skip PROVE IdInv' /\ EdgeSequence'
  BY <1>3, ShrinkIds DEF Skip, AtWork, manifest, EdgeSequence
<1>4. ASSUME Launch PROVE IdInv' /\ EdgeSequence'
  BY <1>4, PlaceIds DEF Launch, AtWork, manifest, EdgeSequence
<1>5. ASSUME Trained PROVE IdInv' /\ EdgeSequence'
  <2>1. levelEdges # <<>>
    BY <1>5 DEF Trained, IdInv, AtWork, LevelIds
  <2> QED BY <1>5, <2>1, PlaceIds DEF Trained, AtWork, manifest, EdgeSequence
<1>6. ASSUME Persist PROVE IdInv' /\ EdgeSequence'
  BY <1>6, PersistIds, AddedEdge DEF Persist, AddEdge
<1>7. ASSUME Link PROVE IdInv' /\ EdgeSequence'
  <2>1. levelEdges # <<>>
    BY <1>7 DEF Link, IdInv, AtWork, LevelIds
  <2> QED BY <1>7, <2>1, ShrinkIds DEF Link, SetResetPath, AtWork, EdgeSequence
<1>8. ASSUME NextLevel PROVE IdInv' /\ EdgeSequence'
  BY <1>8, ShrinkIds DEF NextLevel, LevelPC, AtWork, manifest, EdgeSequence
<1> QED BY <1>1, <1>2, <1>3, <1>4, <1>5, <1>6, <1>7, <1>8 DEF Step

LEMMA CrashIds == ASSUME EdgeSequence, Crash PROVE IdInv' /\ EdgeSequence'
BY DEF Crash, Forget, manifest, IdInv, AtWork, EdgeSequence

LEMMA StartIds == ASSUME EdgeSequence, Start PROVE IdInv' /\ EdgeSequence'
<1>1. PICK seeds \in Seeds : StartWith(seeds)
  BY DEF Start
<1>2. EnterWalk(seeds) /\ UNCHANGED edges
  BY <1>1 DEF StartWith, manifest
<1> QED BY <1>2, EnterIds DEF EdgeSequence

LEMMA IdsStayNew == IdInv => NoDuplicateId
<1> SUFFICES ASSUME IdInv, pc \in {"training", "collect"} PROVE Candidate.id \notin EdgeIds
  BY DEF NoDuplicateId
<1>1. LevelIds /\ levelEdges # <<>>
  BY DEF IdInv, AtWork, LevelIds
<1>2. 1 \in DOMAIN levelEdges /\ Candidate = levelEdges[1]
  BY <1>1, HeadOf
<1> QED BY <1>1, <1>2 DEF LevelIds

LEMMA IdStep == ASSUME IdInv, EdgeSequence, [Next]_vars PROVE IdInv'
<1>1. ASSUME UNCHANGED vars PROVE IdInv'
  BY <1>1, IdStutter DEF vars, walk, manifest
<1> QED BY <1>1, StartIds, StepIds, CrashIds DEF Next

-----------------------------------------------------------------------------
(* The tree and the paths.                                                 *)

LEMMA SameTree ==
    ASSUME UNCHANGED <<edges, resetPaths>>
    PROVE  /\ EdgeTree => EdgeTree'
           /\ PathsInv => PathsInv'
           /\ Lost' = Lost /\ EdgeIds' = EdgeIds
           /\ \A n : Reached(n)' = Reached(n)
           /\ \A r, n : GroundedIn(r, n)' = GroundedIn(r, n)
<1>1. \A n : Reached(n)' = Reached(n)
  BY DEF Reached
<1>2. \A r, n : GroundedIn(r, n)' = GroundedIn(r, n)
  BY DEF GroundedIn
<1>3. PathsInv => PathsInv'
  BY <1>2 DEF PathsInv
<1>4. EdgeTree => EdgeTree'
  BY DEF EdgeTree
<1>5. Lost' = Lost /\ EdgeIds' = EdgeIds
  BY DEF Lost, EdgeIds, Edges
<1> QED BY <1>1, <1>2, <1>3, <1>4, <1>5

\* The edges and the paths stay.
LEMMA TreeKept ==
    ASSUME GrowInv, UNCHANGED <<edges, resetPaths, starts>>, AtWork' => AtWork,
           pc = "link" => pc' \in {"link", "down"},
           AtWork' => LevelTree' /\ \A n \in frontier' \cup nextFrontier' : Reached(n)
    PROVE  GrowInv'
<1>1. EdgeTree' /\ PathsInv' /\ Lost' = Lost /\ \A n : Reached(n)' = Reached(n)
  BY SameTree DEF GrowInv
<1>2. LossInv'
  BY <1>1 DEF GrowInv, LossInv, AtWork
<1> QED BY <1>1, <1>2 DEF GrowInv

\* Nothing new but candidates that can become edges.
LEMMA LevelKept ==
    ASSUME GrowInv, AtWork, pc # "link", pc' # "link", UNCHANGED <<edges, resetPaths>>,
           NEW S, ToSet(levelEdges)' \subseteq ToSet(levelEdges) \cup S, \A c \in S : CandidateOK(c)
    PROVE  LevelTree'
<1>1. ASSUME NEW c \in ToSet(levelEdges)' PROVE CandidateOK(c)'
  <2>1. CandidateOK(c)
    BY <1>1 DEF GrowInv, LevelTree
  <2> QED BY <2>1, SameTree DEF CandidateOK
<1> QED BY <1>1 DEF LevelTree

LEMMA InitGrow == Init => GrowInv
<1> SUFFICES ASSUME Init PROVE GrowInv
  OBVIOUS
<1>1. edges = <<>> /\ resetPaths = [n \in {} |-> None] /\ pc = "down" /\ starts = 0
  BY DEF Init, EmptyManifest
<1>2. Lost = {}
  BY <1>1 DEF Lost, Edges, ToSet
<1>3. LossInv
  BY <1>1, <1>2, FS_EmptySet DEF LossInv
<1>4. EdgeTree /\ PathsInv /\ ~AtWork
  BY <1>1 DEF EdgeTree, NoRepeat, PathsInv, AtWork
<1> QED BY <1>3, <1>4 DEF GrowInv

LEMMA StartGrows == ASSUME GrowInv, EdgeSequence, Start PROVE GrowInv'
<1>1. PICK seeds \in Seeds : StartWith(seeds)
  BY DEF Start
<1>2. /\ pc \in {"down", "done"} /\ starts' = starts + 1
      /\ UNCHANGED <<edges, resetPaths>>
      /\ frontier' = {Root} /\ levelEdges' = <<>> /\ nextFrontier' = {}
      /\ pc' \in {"discover", "done"}
  BY <1>1 DEF StartWith, EnterWalk, LevelPC, FirstFrontier, manifest
<1>3. EdgeTree' /\ PathsInv' /\ Lost' = Lost
  BY <1>2, SameTree DEF GrowInv
<1>4. LossInv'
  <2>1. IsFiniteSet(Lost)
    BY EdgesFinite
  <2>2. Cardinality(Lost) \in Nat
    BY <2>1, FS_CardinalityType
  <2> QED BY <1>2, <1>3, <2>2 DEF GrowInv, LossInv
<1>5. LevelTree' /\ (\A n \in frontier \cup nextFrontier : Reached(n))'
  BY <1>2 DEF LevelTree, ToSet, Reached
<1> QED BY <1>3, <1>4, <1>5 DEF GrowInv

\* What a seed resets from is what produces its node.
LEMMA SeedGrows ==
    ASSUME EdgeTree, pc = "discover", NEW node, Reached(node), SeededNode(node),
           NEW c, SeedOf(c, node)
    PROVE  CandidateOK(c)
<1>1. c.pre = node /\ c.produces = node \cup {c.id} /\ (c.reset = None \/ node = {c.reset})
  <2> DEFINE G == c.goal
             R == c.reset
             I == c.id
  <2>1. c = [id |-> I, pre |-> node, goal |-> G, produces |-> node \cup {I}, reset |-> R]
    BY DEF SeedOf
  <2>2. c.reset = None \/ node = {c.reset}
    BY DEF SeedOf
  <2> HIDE DEF G, R, I
  <2>3. c.pre = node /\ c.produces = node \cup {I}
    BY <2>1
  <2> QED BY <2>2, <2>3 DEF I
<1>2. GroundedIn(c.reset, node)
  <2>1. CASE c.reset = None
    BY <2>1 DEF GroundedIn
  <2>2. CASE node = {c.reset}
    <3>1. PICK p \in DOMAIN edges : edges[p].produces = node
      BY <2>2 DEF Reached, Root
    <3>2. edges[p].produces = edges[p].pre \cup {edges[p].id}
      BY DEF EdgeTree
    <3>3. edges[p].id = c.reset
      BY <2>2, <3>1, <3>2
    <3> QED BY <3>1, <3>3 DEF GroundedIn
  <2> QED BY <1>1, <2>1, <2>2
<1> QED BY <1>1, <1>2 DEF CandidateOK

LEMMA DiscoverGrows ==
    ASSUME GrowInv, IdInv, NEW node \in frontier, Discover(node)
    PROVE  GrowInv'
<1>1. pc = "discover" /\ pc' = pc /\ UNCHANGED <<edges, resetPaths, starts, frontier, nextFrontier>>
  BY DEF Discover, NoteDiscovered, MarkTerminal, manifest
<1>2. AtWork /\ AtWork' /\ SeededInv /\ LevelIds
  BY <1>1 DEF AtWork, IdInv
<1>3. /\ EdgeTree /\ PathsInv /\ Reached(node)
      /\ \A n \in frontier \cup nextFrontier : Reached(n)
  BY <1>2 DEF GrowInv
<1>4. LevelTree'
  <2>1. ASSUME NEW i \in DOMAIN seeded, seeded[i].node = node,
               levelEdges' = levelEdges \o seeded[i].candidates
        PROVE  LevelTree'
    <3>1. PICK list : list = seeded[i].candidates
      OBVIOUS
    <3>2. SeedList(list, node) /\ SeededNode(node)
      BY <1>2, <2>1, <3>1 DEF SeededInv
    <3>3. \A c \in ToSet(list) : CandidateOK(c)
      BY <1>1, <1>3, <3>2, SeedGrows DEF SeedList
    <3>4. ToSet(levelEdges \o list) = ToSet(levelEdges) \cup ToSet(list)
      BY <1>2, <3>2, Joined DEF SeedList, LevelIds
    <3>5. ToSet(levelEdges)' \subseteq ToSet(levelEdges) \cup ToSet(list)
      BY <2>1, <3>1, <3>4 DEF ToSet
    <3> QED BY <1>1, <1>2, <3>3, <3>5, LevelKept
  <2>2. ASSUME NEW proposal \in Proposal, NEW ids, ids = FinalIds(proposal, seen, node),
               levelEdges' = levelEdges \o Candidates(proposal, ids, node)
        PROVE  LevelTree'
    <3>1. PICK list : list = Candidates(proposal, ids, node)
      OBVIOUS
    <3>2. IsList(list)
      BY <1>1, <2>2, <3>1, ProposalNew DEF NewList
    <3>3. GroundedIn(ResetPath(node), node)
      BY <1>3 DEF GroundedIn, ResetPath, PathsInv
    <3>4. ASSUME NEW c \in ToSet(list) PROVE CandidateOK(c)
      <4>1. PICK i \in DOMAIN proposal : c = list[i]
        BY <3>1 DEF ToSet, Candidates
      <4>2. /\ c.id = ids[i] /\ c.pre = node /\ c.produces = node \cup {ids[i]}
            /\ c.reset = ResetPath(node)
        BY <3>1, <4>1 DEF Candidates
      <4> QED BY <1>1, <1>3, <3>3, <4>2 DEF CandidateOK
    <3>5. ToSet(levelEdges \o list) = ToSet(levelEdges) \cup ToSet(list)
      BY <1>2, <3>2, Joined DEF LevelIds
    <3>6. ToSet(levelEdges)' \subseteq ToSet(levelEdges) \cup ToSet(list)
      BY <2>2, <3>1, <3>5 DEF ToSet
    <3> QED BY <1>1, <1>2, <3>4, <3>6, LevelKept
  <2> QED BY <2>1, <2>2 DEF Discover
<1> QED BY <1>1, <1>2, <1>3, <1>4, TreeKept

\* The walk goes on in its lists.
LEMMA PlaceGrows ==
    ASSUME GrowInv, AtWork, pc # "link", pc' # "link",
           UNCHANGED <<edges, resetPaths, starts>>,
           ToSet(levelEdges)' \subseteq ToSet(levelEdges),
           \A n \in frontier' \cup nextFrontier' : Reached(n)
    PROVE  GrowInv'
<1>1. PICK S : S = {}
  OBVIOUS
<1>2. ToSet(levelEdges)' \subseteq ToSet(levelEdges) \cup S /\ \A c \in S : CandidateOK(c)
  BY <1>1
<1>3. LevelTree'
  BY <1>2, LevelKept
<1> QED BY <1>3, TreeKept

LEMMA ChooseMin == ASSUME NEW T \in SUBSET Nat, T # {} PROVE Min(T) \in T
<1>1. PICK x \in T : \A y \in T : x <= y
  BY NatMin
<1> QED BY <1>1 DEF Min

LEMMA SkipGrows == ASSUME GrowInv, IdInv, EdgeSequence, Skip PROVE GrowInv'
<1>1. /\ pc = "train" /\ pc' = pc /\ levelEdges # <<>> /\ levelEdges' = Tail(levelEdges)
      /\ UNCHANGED <<edges, resetPaths, starts, frontier>>
      /\ Existing(Candidate) # {}
      /\ nextFrontier' = nextFrontier \cup {edges[Min(Existing(Candidate))].produces}
  BY DEF Skip, manifest
<1>2. AtWork
  BY <1>1 DEF AtWork
<1>3. Min(Existing(Candidate)) \in DOMAIN edges
  <2>1. Existing(Candidate) \subseteq DOMAIN edges /\ DOMAIN edges \subseteq Nat
    BY DEF Existing, EdgeSequence
  <2> QED BY <1>1, <2>1, ChooseMin
<1>4. \A n \in frontier' \cup nextFrontier' : Reached(n)
  BY <1>1, <1>2, <1>3 DEF GrowInv, Reached
<1>5. ToSet(levelEdges)' \subseteq ToSet(levelEdges)
  <2>1. ToSet(Tail(levelEdges)) \subseteq ToSet(levelEdges)
    BY <1>1, <1>2, TailOf DEF IdInv, LevelIds
  <2> QED BY <1>1, <2>1 DEF ToSet
<1> QED BY <1>1, <1>2, <1>4, <1>5, PlaceGrows

LEMMA WalkGrows ==
    ASSUME GrowInv, LevelDiscovered \/ Launch \/ Trained \/ NextLevel
    PROVE  GrowInv'
<1>1. /\ pc \in {"discover", "train", "training"} /\ pc' # "link"
      /\ UNCHANGED <<edges, resetPaths, starts>>
      /\ UNCHANGED levelEdges \/ levelEdges' = <<>>
      /\ frontier' \cup nextFrontier' \subseteq frontier \cup nextFrontier
  BY DEF LevelDiscovered, Launch, Trained, NextLevel, LevelPC, manifest
<1>2. AtWork
  BY <1>1 DEF AtWork
<1>3. ToSet(levelEdges)' \subseteq ToSet(levelEdges)
  BY <1>1 DEF ToSet
<1>4. \A n \in frontier' \cup nextFrontier' : Reached(n)
  BY <1>1, <1>2 DEF GrowInv
<1> QED BY <1>1, <1>2, <1>3, <1>4, PlaceGrows

LEMMA CrashGrows == ASSUME GrowInv, Crash PROVE GrowInv'
<1>1. UNCHANGED <<edges, resetPaths, starts>> /\ pc' = "down"
  BY DEF Crash, Forget, manifest
<1>2. ~AtWork'
  BY <1>1 DEF AtWork
<1> QED BY <1>1, <1>2, TreeKept

-----------------------------------------------------------------------------
(* The steps that add an edge and record its path.                         *)

LEMMA ProducedIds ==
    ASSUME EdgeTree, EdgeSequence, NEW n, Reached(n)
    PROVE  n \subseteq EdgeIds
<1>1. CASE n = Root
  BY <1>1 DEF Root
<1>2. CASE n # Root
  <2>1. PICK i \in DOMAIN edges : edges[i].produces = n
    BY <1>2 DEF Reached
  <2>2. \A j \in DOMAIN edges : edges[j].id \in EdgeIds
    BY DEF EdgeIds, Edges, ToSet
  <2>3. DOMAIN edges = 1 .. Len(edges) /\ Len(edges) \in Nat
    BY DEF EdgeSequence
  <2>4. \A j \in 1 .. i - 1 : j \in DOMAIN edges
    BY <2>1, <2>3
  <2>5. n = edges[i].pre \cup {edges[i].id} /\ edges[i].pre \subseteq {edges[j].id : j \in 1 .. i - 1}
    BY <2>1 DEF EdgeTree
  <2> QED BY <2>1, <2>2, <2>4, <2>5
<1> QED BY <1>1, <1>2

\* What an edge must be to extend the tree.
Extends(e) ==
    /\ e.id \notin EdgeIds
    /\ e.produces = e.pre \cup {e.id}
    /\ Reached(e.pre)
    /\ GroundedIn(e.reset, e.pre)

LEMMA TreeExtended ==
    ASSUME EdgeTree, EdgeSequence, NEW e, Extends(e), edges' = Append(edges, e)
    PROVE  EdgeTree'
<1>1. PICK n : n = Len(edges)
  OBVIOUS
<1>2. /\ n \in Nat /\ DOMAIN edges = 1 .. n
      /\ DOMAIN edges' = 1 .. n + 1 /\ edges'[n + 1] = e
      /\ \A i \in 1 .. n : i \in 1 .. n + 1 /\ edges'[i] = edges[i]
      /\ \A i \in 1 .. n + 1 : i \in 1 .. n \/ i = n + 1
  BY <1>1, AddedEdge
<1>3. NoRepeat(edges)'
  <2>1. \A i \in 1 .. n : edges[i].id # e.id
    BY <1>2 DEF EdgeIds, Edges, ToSet, Extends
  <2>2. \A i, j \in 1 .. n : edges[i].id = edges[j].id => i = j
    BY <1>2 DEF EdgeTree, NoRepeat
  <2>3. \A i, j \in 1 .. n + 1 : edges'[i].id = edges'[j].id => i = j
    BY <1>2, <2>1, <2>2
  <2> QED BY <1>2, <2>3 DEF NoRepeat
<1>4. ASSUME NEW i \in 1 .. n
      PROVE  /\ edges'[i].produces = edges'[i].pre \cup {edges'[i].id}
             /\ edges'[i].pre \subseteq {edges'[j].id : j \in 1 .. i - 1}
             /\ edges'[i].pre = Root \/ \E j \in 1 .. i - 1 : edges'[j].produces = edges'[i].pre
  <2>1. /\ edges[i].produces = edges[i].pre \cup {edges[i].id}
        /\ edges[i].pre \subseteq {edges[j].id : j \in 1 .. i - 1}
        /\ edges[i].pre = Root \/ \E j \in 1 .. i - 1 : edges[j].produces = edges[i].pre
    BY <1>2 DEF EdgeTree
  <2>2. \A j \in 1 .. i - 1 : edges'[j] = edges[j]
    BY <1>2
  <2>3. {edges'[j].id : j \in 1 .. i - 1} = {edges[j].id : j \in 1 .. i - 1}
    BY <2>2
  <2> QED BY <1>2, <2>1, <2>2, <2>3
<1>5. /\ e.pre \subseteq {edges'[j].id : j \in 1 .. n}
      /\ e.pre = Root \/ \E j \in 1 .. n : edges'[j].produces = e.pre
  <2>1. e.pre \subseteq EdgeIds
    BY ProducedIds DEF Extends
  <2>2. EdgeIds = {edges'[j].id : j \in 1 .. n}
    BY <1>2 DEF EdgeIds, Edges, ToSet
  <2> QED BY <1>2, <2>1, <2>2 DEF Reached, Extends
<1>6. ASSUME NEW i \in 1 .. n + 1
      PROVE  /\ edges'[i].produces = edges'[i].pre \cup {edges'[i].id}
             /\ edges'[i].pre \subseteq {edges'[j].id : j \in 1 .. i - 1}
             /\ edges'[i].pre = Root \/ \E j \in 1 .. i - 1 : edges'[j].produces = edges'[i].pre
  <2>1. CASE i \in 1 .. n
    BY <1>4, <2>1
  <2>2. CASE i = n + 1
    <3>1. i - 1 = n
      BY <1>2, <2>2
    <3>2. edges'[i] = e
      BY <1>2, <2>2
    <3>3. {edges'[j].id : j \in 1 .. i - 1} = {edges'[j].id : j \in 1 .. n}
      BY <3>1
    <3>4. e.pre = Root \/ \E j \in 1 .. i - 1 : edges'[j].produces = e.pre
      BY <1>5, <3>1
    <3> QED BY <1>5, <3>2, <3>3, <3>4 DEF Extends
  <2> QED BY <1>2, <2>1, <2>2
<1> QED BY <1>2, <1>3, <1>6 DEF EdgeTree, Root

\* What the tree had reached and what was grounded in it stays so.
LEMMA ExtendedKeeps ==
    ASSUME EdgeSequence, NEW e, edges' = Append(edges, e), UNCHANGED resetPaths
    PROVE  /\ \A m : Reached(m) => Reached(m)'
           /\ \A r, m : GroundedIn(r, m) => GroundedIn(r, m)'
<1>1. \A i \in DOMAIN edges : i \in DOMAIN edges' /\ edges'[i] = edges[i]
  <2>1. PICK n : n = Len(edges)
    OBVIOUS
  <2> QED BY <2>1, AddedEdge
<1>2. \A m : Reached(m) => Reached(m)'
  BY <1>1 DEF Reached
<1>3. ASSUME NEW r, NEW m, GroundedIn(r, m) PROVE GroundedIn(r, m)'
  BY <1>1, <1>3 DEF GroundedIn
<1> QED BY <1>2, <1>3

LEMMA PathsExtended ==
    ASSUME PathsInv, EdgeSequence, NEW e, Extends(e), edges' = Append(edges, e), UNCHANGED resetPaths
    PROVE  PathsInv'
<1>1. PICK n : n = Len(edges)
  OBVIOUS
<1>2. /\ DOMAIN edges = 1 .. n
      /\ DOMAIN edges' = 1 .. n + 1 /\ edges'[n + 1] = e
      /\ \A i \in 1 .. n : i \in 1 .. n + 1 /\ edges'[i] = edges[i]
      /\ \A i \in 1 .. n + 1 : i \in 1 .. n \/ i = n + 1
  BY <1>1, AddedEdge
<1>3. ASSUME NEW m \in DOMAIN resetPaths
      PROVE  \E i \in DOMAIN edges' : edges'[i].id = resetPaths[m] /\ edges'[i].produces = m
  BY <1>2 DEF PathsInv
<1>4. ASSUME NEW i \in DOMAIN edges' PROVE GroundedIn(edges[i].reset, edges[i].pre)'
  <2>1. PICK r, m : r = edges'[i].reset /\ m = edges'[i].pre
    OBVIOUS
  <2>2. GroundedIn(r, m)
    <3>1. CASE i = n + 1
      BY <1>2, <2>1, <3>1 DEF Extends
    <3>2. ASSUME i \in 1 .. n PROVE GroundedIn(edges[i].reset, edges[i].pre)
      BY <1>2, <3>2 DEF PathsInv
    <3> QED BY <1>2, <2>1, <3>1, <3>2
  <2>3. GroundedIn(r, m)'
    BY <2>2, ExtendedKeeps
  <2> QED BY <2>1, <2>3 DEF GroundedIn
<1> QED BY <1>3, <1>4 DEF PathsInv

\* A new edge has its path still to be recorded.
LEMMA LossExtended ==
    ASSUME EdgeSequence, NEW e, edges' = Append(edges, e), UNCHANGED resetPaths
    PROVE  Cardinality(Lost) \in Nat /\ Cardinality(Lost') \in Nat
             /\ Cardinality(Lost') <= Cardinality(Lost) + 1
<1>1. IsFiniteSet(Lost) /\ Cardinality(Lost) \in Nat
  BY EdgesFinite, FS_CardinalityType
<1>2. Lost' \subseteq Lost \cup {e}
  <2>1. Edges' = Edges \cup {e}
    BY AddedEdge
  <2> QED BY <2>1 DEF Lost
<1>3. PICK S : S = Lost \cup {e}
  OBVIOUS
<1>4. IsFiniteSet(S) /\ (Cardinality(S) = Cardinality(Lost) \/ Cardinality(S) = Cardinality(Lost) + 1)
  BY <1>1, <1>3, FS_AddElement
<1>5. Cardinality(Lost') <= Cardinality(S) /\ Cardinality(Lost') \in Nat
  BY <1>2, <1>3, <1>4, FS_Subset, FS_CardinalityType
<1> HIDE DEF Lost
<1> QED BY <1>1, <1>4, <1>5

\* Nothing has a node yet that an edge about to be added produces.
LEMMA NodeIsNew ==
    ASSUME EdgeTree, EdgeSequence, NEW e, Extends(e)
    PROVE  ~Reached(e.produces) /\ (PathsInv => e.produces \notin DOMAIN resetPaths)
<1>1. ~Reached(e.produces)
  BY ProducedIds DEF Extends
<1>2. PathsInv => \A m \in DOMAIN resetPaths : Reached(m)
  BY DEF PathsInv, Reached
<1> QED BY <1>1, <1>2

LEMMA PersistGrows == ASSUME GrowInv, IdInv, EdgeSequence, Persist PROVE GrowInv'
<1>1. PICK e : e = TrainedEdge(Candidate, checkpoint)
  OBVIOUS
<1>2. /\ pc = "collect" /\ pc' = "link" /\ edges' = Append(edges, e) /\ e.id \notin EdgeIds
      /\ UNCHANGED <<resetPaths, starts, frontier, nextFrontier, levelEdges>>
  BY <1>1 DEF Persist, AddEdge
<1>3. /\ e.id = Candidate.id /\ e.pre = Candidate.pre /\ e.produces = Candidate.produces
      /\ e.reset = Candidate.reset
  BY <1>1 DEF TrainedEdge
<1>4. /\ EdgeTree /\ PathsInv /\ LossInv /\ LevelTree /\ LevelIds /\ levelEdges # <<>>
      /\ \A n \in frontier \cup nextFrontier : Reached(n)
  BY <1>2 DEF GrowInv, AtWork, IdInv, LevelIds
<1>5. Candidate \in ToSet(levelEdges)
  BY <1>4, HeadOf DEF ToSet
<1>6. Extends(e)
  BY <1>2, <1>3, <1>4, <1>5 DEF LevelTree, CandidateOK, Extends
<1>7. EdgeTree' /\ PathsInv'
  BY <1>2, <1>4, <1>6, TreeExtended, PathsExtended
<1>8. LossInv'
  <2>1. /\ starts \in Nat /\ Cardinality(Lost) + 1 <= starts
    BY <1>2, <1>4 DEF LossInv
  <2>2. /\ Cardinality(Lost) \in Nat /\ Cardinality(Lost') \in Nat
        /\ Cardinality(Lost') <= Cardinality(Lost) + 1
    BY <1>2, LossExtended
  <2>3. Cardinality(Lost') <= starts
    <3> HIDE DEF Lost
    <3> QED BY <2>1, <2>2
  <2> QED BY <1>2, <2>1, <2>3 DEF LossInv
<1>9. Candidate' = Candidate
  BY <1>2 DEF Candidate
<1>10. ASSUME NEW c \in ToSet(levelEdges)' PROVE CandidateOK(c)'
  <2>1. c \in ToSet(levelEdges)
    BY <1>2, <1>10 DEF ToSet
  <2>2. CandidateOK(c)
    BY <1>4, <2>1 DEF LevelTree
  <2>3. Reached(c.pre)' /\ GroundedIn(c.reset, c.pre)'
    BY <1>2, <2>2, ExtendedKeeps DEF CandidateOK
  <2>4. Candidate'.id \notin c.pre
    <3>1. c.pre \subseteq EdgeIds
      BY <1>4, <2>2, ProducedIds DEF CandidateOK
    <3> QED BY <1>2, <1>3, <1>9, <3>1
  <2> QED BY <2>2, <2>3, <2>4 DEF CandidateOK
<1>11. LevelTree'
  <2>1. edges' # <<>> /\ edges'[Len(edges')] = e
    <3>1. PICK n : n = Len(edges)
      OBVIOUS
    <3>2. n \in Nat /\ DOMAIN edges' = 1 .. n + 1 /\ Len(edges') = n + 1 /\ edges'[n + 1] = e
      BY <1>2, <3>1, AddedEdge
    <3>3. 1 \in DOMAIN edges'
      BY <3>2
    <3> QED BY <3>2, <3>3
  <2>2. e.produces \notin DOMAIN resetPaths
    BY <1>4, <1>6, NodeIsNew
  <2> QED BY <1>2, <1>3, <1>9, <1>10, <2>1, <2>2 DEF LevelTree
<1>12. (\A m \in frontier \cup nextFrontier : Reached(m))'
  <2>1. \A m \in frontier \cup nextFrontier : Reached(m)'
    BY <1>2, <1>4, ExtendedKeeps
  <2> QED BY <1>2, <2>1 DEF Reached
<1> QED BY <1>7, <1>8, <1>11, <1>12 DEF GrowInv

\* The last edge is that of the candidate whose path is recorded: no edge starts
\* from the node it produces.
LEMMA LastEdge ==
    ASSUME EdgeTree, EdgeSequence, LevelTree, pc = "link", NEW l, l = Len(edges)
    PROVE  /\ l \in DOMAIN edges
           /\ edges[l].id = Candidate.id /\ edges[l].produces = Candidate.produces
           /\ \A i \in DOMAIN edges : edges[i].pre # Candidate.produces
<1>1. edges # <<>> /\ edges[l].id = Candidate.id /\ edges[l].produces = Candidate.produces
  BY DEF LevelTree
<1>2. l \in Nat /\ DOMAIN edges = 1 .. l /\ l # 0
  BY <1>1 DEF EdgeSequence
<1>3. \A i \in 1 .. l : \A j \in 1 .. i - 1 : j \in 1 .. l /\ j # l
  BY <1>2
<1>4. l \in DOMAIN edges
  BY <1>2
<1>5. ASSUME NEW i \in DOMAIN edges, edges[i].pre = Candidate.produces PROVE FALSE
  <2>1. edges[i].pre \subseteq {edges[j].id : j \in 1 .. i - 1}
    BY DEF EdgeTree
  <2>2. \A j \in 1 .. i - 1 : edges[j].id # edges[l].id
    BY <1>2, <1>3, <1>4 DEF EdgeTree, NoRepeat
  <2>3. edges[l].id \in edges[l].produces
    BY <1>4 DEF EdgeTree
  <2> QED BY <1>1, <1>5, <2>1, <2>2, <2>3
<1> QED BY <1>1, <1>4, <1>5

LEMMA LinkGrows == ASSUME GrowInv, IdInv, EdgeSequence, Link PROVE GrowInv'
<1>1. /\ pc = "link" /\ pc' = "train" /\ levelEdges' = Tail(levelEdges)
      /\ resetPaths' = [m \in DOMAIN resetPaths \cup {Candidate.produces} |->
                           IF m = Candidate.produces THEN Candidate.id ELSE resetPaths[m]]
      /\ nextFrontier' = nextFrontier \cup {Candidate.produces}
      /\ UNCHANGED <<edges, frontier, starts>>
  BY DEF Link, SetResetPath
<1>2. /\ EdgeTree /\ PathsInv /\ LossInv /\ LevelTree /\ LevelIds /\ levelEdges # <<>>
      /\ \A n \in frontier \cup nextFrontier : Reached(n)
  BY <1>1 DEF GrowInv, AtWork, IdInv, LevelIds
<1>3. PICK p, l : l = Len(edges) /\ p = edges[l]
  OBVIOUS
<1>4. /\ l \in DOMAIN edges /\ p.id = Candidate.id /\ p.produces = Candidate.produces
      /\ \A i \in DOMAIN edges : edges[i].pre # Candidate.produces
  BY <1>1, <1>2, <1>3, LastEdge
<1>5. Candidate.produces \notin DOMAIN resetPaths
  BY <1>1, <1>2 DEF LevelTree
<1>6. EdgeTree'
  BY <1>1, <1>2 DEF EdgeTree
<1>7. ASSUME NEW r, NEW n, GroundedIn(r, n), n # Candidate.produces PROVE GroundedIn(r, n)'
  BY <1>1, <1>7 DEF GroundedIn
<1>8. PathsInv'
  <2>1. ASSUME NEW m \in DOMAIN resetPaths'
        PROVE  \E i \in DOMAIN edges : edges[i].id = resetPaths'[m] /\ edges[i].produces = m
    <3>1. CASE m = Candidate.produces
      BY <1>1, <1>3, <1>4, <3>1
    <3>2. CASE m # Candidate.produces
      BY <1>1, <1>2, <3>2 DEF PathsInv
    <3> QED BY <3>1, <3>2
  <2>2. ASSUME NEW i \in DOMAIN edges PROVE GroundedIn(edges[i].reset, edges[i].pre)'
    <3>1. PICK r, m : r = edges[i].reset /\ m = edges[i].pre
      OBVIOUS
    <3>2. GroundedIn(r, m)'
      BY <1>2, <1>4, <1>7, <3>1 DEF PathsInv
    <3> QED BY <1>1, <3>1, <3>2 DEF GroundedIn
  <2> QED BY <1>1, <2>1, <2>2 DEF PathsInv
<1>9. LossInv'
  <2>1. IsFiniteSet(Lost) /\ Cardinality(Lost) \in Nat
    BY EdgesFinite, FS_CardinalityType
  <2>2. p \in Lost
    BY <1>3, <1>4, <1>5 DEF Lost, Edges, ToSet
  <2>3. Lost' \subseteq Lost \ {p}
    BY <1>1, <1>4 DEF Lost, Edges, ToSet
  <2>4. IsFiniteSet(Lost \ {p}) /\ Cardinality(Lost \ {p}) = Cardinality(Lost) - 1
    BY <2>1, <2>2, FS_RemoveElement
  <2>5. Cardinality(Lost') <= Cardinality(Lost \ {p}) /\ Cardinality(Lost') \in Nat
    BY <2>3, <2>4, FS_Subset, FS_CardinalityType
  <2>6. Cardinality(Lost') + 1 <= starts /\ Cardinality(Lost') <= starts
    <3>1. starts \in Nat /\ Cardinality(Lost) <= starts
      BY <1>2 DEF LossInv
    <3> HIDE DEF Lost
    <3> QED BY <2>1, <2>4, <2>5, <3>1
  <2> QED BY <1>1, <1>2, <2>6 DEF LossInv
<1>10. LevelTree'
  <2>1. Candidate \in ToSet(levelEdges) /\ ToSet(Tail(levelEdges)) \subseteq ToSet(levelEdges)
    BY <1>2, HeadOf, TailOf DEF ToSet, LevelIds
  <2>2. Candidate.id \in Candidate.produces
    BY <1>2, <2>1 DEF LevelTree, CandidateOK
  <2>3. ASSUME NEW c \in ToSet(levelEdges)' PROVE CandidateOK(c)'
    <3>1. c \in ToSet(levelEdges)
      BY <1>1, <2>1, <2>3 DEF ToSet
    <3>2. CandidateOK(c) /\ c.pre # Candidate.produces
      BY <1>1, <1>2, <2>2, <3>1 DEF LevelTree, CandidateOK
    <3>3. Reached(c.pre)'
      BY <1>1, <3>2 DEF CandidateOK, Reached
    <3>4. GroundedIn(c.reset, c.pre)'
      BY <1>7, <3>2 DEF CandidateOK
    <3> QED BY <1>1, <3>2, <3>3, <3>4 DEF CandidateOK
  <2> QED BY <1>1, <2>3 DEF LevelTree
<1>11. (\A m \in frontier \cup nextFrontier : Reached(m))'
  <2>1. Reached(Candidate.produces)
    BY <1>3, <1>4 DEF Reached
  <2>2. \A m \in frontier' \cup nextFrontier' : Reached(m)
    BY <1>1, <1>2, <2>1
  <2> QED BY <1>1, <2>2 DEF Reached
<1> QED BY <1>6, <1>8, <1>9, <1>10, <1>11 DEF GrowInv

LEMMA GrowStep == ASSUME GrowInv, IdInv, EdgeSequence, [Next]_vars PROVE GrowInv'
<1>1. ASSUME NEW node \in frontier, Discover(node) PROVE GrowInv'
  BY <1>1, DiscoverGrows
<1>2. ASSUME UNCHANGED vars PROVE GrowInv'
  <2>1. UNCHANGED <<pc, edges, resetPaths, starts, frontier, nextFrontier, levelEdges>>
    BY <1>2 DEF vars, walk, manifest
  <2>2. ASSUME AtWork PROVE LevelTree' /\ \A n \in frontier' \cup nextFrontier' : Reached(n)
    <3>1. LevelTree /\ \A n \in frontier \cup nextFrontier : Reached(n)
      BY <2>2 DEF GrowInv
    <3>2. Candidate' = Candidate
      BY <2>1 DEF Candidate
    <3>3. ASSUME NEW c \in ToSet(levelEdges)' PROVE CandidateOK(c)'
      <4>1. CandidateOK(c)
        BY <2>1, <3>1, <3>3 DEF LevelTree, ToSet
      <4> QED BY <2>1, <3>2, <4>1, SameTree DEF CandidateOK
    <3> QED BY <2>1, <3>1, <3>2, <3>3 DEF LevelTree
  <2> QED BY <2>1, <2>2, TreeKept DEF AtWork
<1> QED BY <1>1, <1>2, StartGrows, SkipGrows, WalkGrows, PersistGrows, LinkGrows, CrashGrows DEF Next, Step

LEMMA OneProducer == ASSUME GrowInv, EdgeSequence PROVE Rooted
<1> SUFFICES ASSUME NEW i \in DOMAIN edges, edges[i].pre # Root
             PROVE  Cardinality({j \in 1 .. i - 1 : edges[j].produces = edges[i].pre}) = 1
  BY DEF Rooted
<1>1. EdgeTree
  BY DEF GrowInv
<1>2. Len(edges) \in Nat /\ DOMAIN edges = 1 .. Len(edges)
  BY DEF EdgeSequence
<1> DEFINE S == {j \in 1 .. i - 1 : edges[j].produces = edges[i].pre}
<1>3. PICK j \in 1 .. i - 1 : edges[j].produces = edges[i].pre
  BY <1>1 DEF EdgeTree
<1>4. \A m \in 1 .. i - 1 : m \in DOMAIN edges /\ m \in Nat
  BY <1>2
<1>5. ASSUME NEW k \in DOMAIN edges, NEW m \in DOMAIN edges, edges[k].produces = edges[m].produces,
             k < m
      PROVE  FALSE
  <2>1. edges[m].id \in edges[k].pre \cup {edges[k].id}
    BY <1>1, <1>5 DEF EdgeTree
  <2>2. edges[k].pre \subseteq {edges[x].id : x \in 1 .. k - 1}
    BY <1>1 DEF EdgeTree
  <2>3. \A x \in 1 .. k - 1 : x \in DOMAIN edges /\ x # m
    BY <1>2, <1>5
  <2>4. k # m
    BY <1>2, <1>5
  <2> QED BY <1>1, <2>1, <2>2, <2>3, <2>4 DEF EdgeTree, NoRepeat
<1>6. \A k, m \in DOMAIN edges : k = m \/ k < m \/ m < k
  BY <1>2
<1>7. \A k \in S : k = j
  BY <1>3, <1>4, <1>5, <1>6
<1>8. S = {j}
  BY <1>3, <1>7
<1> QED BY <1>8, FS_Singleton

LEMMA PathsGrounded == ASSUME GrowInv PROVE Grounded
<1>1. PathsInv /\ LossInv
  BY DEF GrowInv
<1>2. ASSUME NEW e \in Edges
      PROVE  \/ \E p \in Edges : p.id = e.reset /\ p.produces = e.pre
             \/ /\ e.reset = None
                /\ \/ e.pre = Root
                   \/ e.pre \notin DOMAIN resetPaths
                   \/ \E seeds \in Seeds : \E i \in DOMAIN seeds : seeds[i].node = e.pre
  <2>1. PICK i \in DOMAIN edges : e = edges[i]
    BY DEF Edges, ToSet
  <2>2. GroundedIn(e.reset, e.pre)
    BY <1>1, <2>1 DEF PathsInv
  <2>3. \A k \in DOMAIN edges : edges[k] \in Edges
    BY DEF Edges, ToSet
  <2> QED BY <2>2, <2>3 DEF GroundedIn, SeededNode
<1>3. Cardinality({e \in Edges : e.produces \notin DOMAIN resetPaths}) <= starts
  BY <1>1 DEF LossInv, Lost
<1> QED BY <1>2, <1>3 DEF Grounded

-----------------------------------------------------------------------------
LEMMA InitEntered == Init => IdInv /\ EdgeSequence
BY DEF Init, EmptyManifest, IdInv, AtWork, EdgeSequence

LEMMA GrowAlways == Spec => [](EdgeSequence /\ IdInv /\ GrowInv)
<1>1. Init => EdgeSequence /\ IdInv /\ GrowInv
  BY InitGrow, InitEntered
<1>2. EdgeSequence /\ IdInv /\ GrowInv /\ [Next]_vars => (EdgeSequence /\ IdInv /\ GrowInv)'
  <2> SUFFICES ASSUME EdgeSequence, IdInv, GrowInv, [Next]_vars
               PROVE  EdgeSequence' /\ IdInv' /\ GrowInv'
    OBVIOUS
  <2>1. EdgeSequence'
    <3>1. ASSUME UNCHANGED vars PROVE EdgeSequence'
      BY <3>1 DEF EdgeSequence, vars, manifest
    <3> QED BY <3>1, StartIds, StepIds, CrashIds DEF Next
  <2> QED BY <2>1, IdStep, GrowStep
<1> QED BY <1>1, <1>2, PTL DEF Spec

\* add_edge never raises: a candidate about to be added has an id that no edge has, over
\* restarts, repeated proposals and seeds with any ids (_dedupe_id and seen_ids,
\* orchestrator.py:80-102, 698-717).
THEOREM NoDuplicateIdHolds == Spec => []NoDuplicateId
BY GrowAlways, IdsStayNew, PTL

\* The edges can be walked from the root: the precondition of each is the root or the node of
\* exactly one edge before it (orchestrator.py:722-796).
THEOREM RootedHolds == Spec => []Rooted
<1>1. EdgeSequence /\ GrowInv => Rooted
  BY OneProducer
<1> QED BY <1>1, GrowAlways, PTL

\* An edge resets from the end states of the edge that produces its precondition, but below a
\* node whose path was lost in a crash or whose candidates were seeded, and a start loses one
\* path at most (get_ and set_reset_states_path_for_children, orchestrator.py:782-796).
THEOREM GroundedHolds == Spec => []Grounded
<1>1. GrowInv => Grounded
  BY PathsGrounded
<1> QED BY <1>1, GrowAlways, PTL

-----------------------------------------------------------------------------
(* The driver.                                                             *)

\* While the walk is at work, the status names an edge in training, or with a
\* checkpoint only an edge that is in the tree or no seed's.
StatusInv ==
    /\ pc \in {"discover", "train", "link"} /\ status.ckpt # None /\ IsSeed(status.edge) =>
          status.edge \in EdgeIds
    /\ pc \in {"training", "collect"} => status.edge = Candidate.id
    /\ pc = "resume" => Candidate.id = status.edge
    /\ pc = "resume_link" => status.edge \in EdgeIds

DriverInv == EdgeSequence /\ IdInv /\ StatusInv

LEMMA FoundHasId == ASSUME NEW id, IsSeed(id) PROVE FoundCandidate(id).id = id
<1> DEFINE P == {i \in DOMAIN SeedFiles : InFile(i, id)}
<1>1. IsList(SeedFiles) /\ \A i \in DOMAIN SeedFiles : IsList(SeedFiles[i].candidates)
  BY SeedAssumption, SeedFileAssumption DEF SeedList
<1>2. DOMAIN SeedFiles \subseteq Nat
  BY <1>1, ListDomain
<1>3. Min(P) \in P
  <2>1. P \in SUBSET Nat /\ P # {}
    BY <1>2 DEF IsSeed
  <2> HIDE DEF P
  <2> QED BY <2>1, ChooseMin
<1>4. PICK list : list = SeedFiles[Min(P)].candidates
  OBVIOUS
<1> DEFINE Q == {k \in DOMAIN list : list[k].id = id}
<1>5. IsList(list) /\ \E c \in ToSet(list) : c.id = id
  BY <1>1, <1>3, <1>4 DEF InFile
<1>6. DOMAIN list \subseteq Nat
  BY <1>5, ListDomain
<1>7. Min(Q) \in Q
  <2>1. Q \in SUBSET Nat /\ Q # {}
    BY <1>5, <1>6 DEF ToSet
  <2> HIDE DEF Q
  <2> QED BY <2>1, ChooseMin
<1>8. FoundCandidate(id) = list[Min(Q)]
  BY <1>4 DEF FoundCandidate
<1> QED BY <1>7, <1>8

LEMMA DriverInitInv == DriverInit => DriverInv
BY InitEntered DEF DriverInit, Init, EmptyManifest, DriverInv, StatusInv

\* The steps that start the driver.
LEMMA DriverStarts == ASSUME DriverInv, DriverStart \/ ResumeStart PROVE DriverInv'
<1>1. ASSUME DriverStart PROVE DriverInv'
  <2>1. StartWith(SeedFiles) /\ Start /\ ~Dangling /\ status' = status
    BY <1>1, SeedFileAssumption DEF DriverStart, Start
  <2>2. IdInv' /\ EdgeSequence'
    BY <2>1, StartIds DEF DriverInv
  <2>3. pc' \in {"discover", "done"} /\ edges' = edges
    BY <2>1 DEF StartWith, EnterWalk, LevelPC, manifest
  <2>4. status.ckpt # None /\ IsSeed(status.edge) => status.edge \in EdgeIds
    BY <2>1, SeedFileAssumption DEF Dangling
  <2>5. StatusInv'
    BY <2>1, <2>3, <2>4 DEF StatusInv, EdgeIds, Edges
  <2> QED BY <2>2, <2>5 DEF DriverInv
<1>2. ASSUME ResumeStart PROVE DriverInv'
  <2>1. PICK c : c = FoundCandidate(status.edge)
    OBVIOUS
  <2>2. pc' = "resume" /\ levelEdges' = <<c>> /\ UNCHANGED <<edges, status>> /\ IsSeed(status.edge)
    BY <1>2, <2>1 DEF ResumeStart, Dangling, manifest
  <2>3. Candidate' = c
    BY <2>2 DEF Candidate
  <2>4. c.id = status.edge
    BY <2>1, <2>2, FoundHasId
  <2> QED BY <2>2, <2>3, <2>4 DEF DriverInv, StatusInv, IdInv, AtWork, EdgeSequence
<1> QED BY <1>1, <1>2

\* The steps that resume an edge.
LEMMA DriverResumes == ASSUME DriverInv, ResumePersist \/ ResumeLink PROVE DriverInv'
<1>1. ASSUME ResumePersist PROVE DriverInv'
  <2>1. PICK e : e = TrainedEdge(Candidate, status.ckpt)
    OBVIOUS
  <2>2. /\ pc = "resume" /\ pc' = "resume_link" /\ edges' = Append(edges, e) /\ status' = status
        /\ e.id = Candidate.id
    BY <1>1, <2>1 DEF ResumePersist, AddEdge, TrainedEdge
  <2>3. EdgeSequence' /\ EdgeIds' = EdgeIds \cup {e.id}
    BY <2>2, AddedEdge DEF DriverInv
  <2> QED BY <2>2, <2>3 DEF DriverInv, StatusInv, IdInv, AtWork
<1>2. ASSUME ResumeLink PROVE DriverInv'
  <2>1. /\ EnterWalk(SeedFiles) /\ edges' = edges /\ status' = status
        /\ status.edge \in EdgeIds
    BY <1>2 DEF ResumeLink, SetResetPath, DriverInv, StatusInv
  <2>2. pc' \in {"discover", "done"}
    BY <2>1 DEF EnterWalk, LevelPC
  <2>3. IdInv'
    BY <2>1, SeedFileAssumption, EnterIds DEF DriverInv
  <2> QED BY <2>1, <2>2, <2>3 DEF DriverInv, StatusInv, EdgeSequence, EdgeIds, Edges
<1> QED BY <1>1, <1>2

\* The steps of the walk.
LEMMA DriverTrains == ASSUME DriverInv, DriverLaunch \/ DriverTrained PROVE DriverInv'
<1>1. IdInv' /\ EdgeSequence'
  BY StepIds DEF DriverInv, DriverLaunch, DriverTrained, Step
<1>2. pc' \in {"training", "collect"} /\ levelEdges' = levelEdges
  BY DEF DriverLaunch, DriverTrained, Launch, Trained
<1>3. ASSUME DriverLaunch PROVE status'.edge = Candidate.id
  BY <1>3 DEF DriverLaunch
<1>4. ASSUME DriverTrained PROVE status'.edge = Candidate.id
  BY <1>4 DEF DriverTrained
<1>5. StatusInv'
  BY <1>2, <1>3, <1>4 DEF StatusInv, Candidate
<1> QED BY <1>1, <1>5 DEF DriverInv

LEMMA DriverWalks == ASSUME DriverInv, DriverWalk PROVE DriverInv'
<1>1. IdInv' /\ EdgeSequence'
  BY StepIds DEF DriverInv, DriverWalk, Step
<1>2. ASSUME Persist PROVE StatusInv'
  <2>1. PICK e : e = TrainedEdge(Candidate, checkpoint)
    OBVIOUS
  <2>2. /\ pc = "collect" /\ pc' = "link" /\ edges' = Append(edges, e) /\ status' = status
        /\ e.id = Candidate.id
    BY <1>2, <2>1 DEF Persist, AddEdge, TrainedEdge, DriverWalk
  <2>3. EdgeIds' = EdgeIds \cup {e.id}
    BY <2>2, AddedEdge DEF DriverInv
  <2> QED BY <2>2, <2>3 DEF DriverInv, StatusInv
<1>3. ASSUME ~Persist PROVE StatusInv'
  <2>1. /\ edges' = edges /\ status' = status /\ pc \in {"discover", "train", "link"}
        /\ pc' \in {"discover", "train", "link", "done"}
    BY <1>3 DEF DriverWalk, Discover, NoteDiscovered, MarkTerminal, LevelDiscovered, Skip, Link, SetResetPath,
                NextLevel, LevelPC, manifest
  <2> QED BY <2>1 DEF DriverInv, StatusInv, EdgeIds, Edges
<1> QED BY <1>1, <1>2, <1>3 DEF DriverInv

LEMMA DriverCrashes == ASSUME DriverInv, DriverCrash PROVE DriverInv'
<1>1. IdInv' /\ EdgeSequence' /\ pc' = "down"
  BY CrashIds DEF DriverInv, DriverCrash, Crash, Forget
<1> QED BY <1>1 DEF DriverInv, StatusInv

LEMMA DriverStep == ASSUME DriverInv, [DriverNext]_dvars PROVE DriverInv'
<1>1. ASSUME UNCHANGED dvars PROVE DriverInv'
  BY <1>1, IdStutter
     DEF dvars, vars, walk, manifest, DriverInv, StatusInv, EdgeSequence, EdgeIds, Edges, Candidate
<1> QED BY <1>1, DriverStarts, DriverResumes, DriverTrains, DriverWalks, DriverCrashes DEF DriverNext

\* Under the driver too no candidate about to be added has the id of an edge, whichever edge was
\* resumed before the walk (driver.py:330-367).
THEOREM DriverNoDuplicateId == DriverSpec => []NoDuplicateId
<1>1. DriverInv /\ [DriverNext]_dvars => DriverInv'
  BY DriverStep
<1>2. DriverInv => NoDuplicateId
  BY IdsStayNew DEF DriverInv
<1> QED BY <1>1, <1>2, DriverInitInv, PTL DEF DriverSpec

LEMMA NotRetrained ==
    ASSUME DriverInv, pc = "train", pc' = "training", [DriverNext]_dvars
    PROVE  ~ /\ status.ckpt # None
             /\ status.edge = Candidate.id
             /\ status.ckpt[Len(status.ckpt)] = Candidate.id
             /\ IsSeed(Candidate.id)
<1> SUFFICES ASSUME status.ckpt # None, status.edge = Candidate.id, IsSeed(Candidate.id) PROVE FALSE
  OBVIOUS
<1>1. Launch
  BY DEF DriverNext, DriverStart, StartWith, ResumeStart, ResumePersist, ResumeLink, DriverLaunch,
     DriverTrained,
         Trained, DriverWalk, Discover, LevelDiscovered, Skip, Persist, Link, NextLevel, LevelPC, DriverCrash,
         Crash, Forget, dvars, vars, walk
<1>2. LevelIds /\ levelEdges # <<>>
  BY <1>1 DEF Launch, DriverInv, IdInv, AtWork
<1>3. Candidate.id \notin EdgeIds
  BY <1>2, HeadOf DEF LevelIds
<1> QED BY <1>3 DEF DriverInv, StatusInv

\* The driver trains no seeded edge whose finished checkpoint the status names: the edge was resumed
\* before the walk, or is in the tree (_resume_dangling_trained_edge, driver.py:330-367).
THEOREM FinishedNotRetrainedHolds == DriverSpec => FinishedNotRetrained
<1>1. DriverInv /\ [DriverNext]_dvars => DriverInv'
  BY DriverStep
<1> DEFINE Allowed == pc = "train" /\ pc' = "training" =>
                          ~ /\ status.ckpt # None
                            /\ status.edge = Candidate.id
                            /\ status.ckpt[Len(status.ckpt)] = Candidate.id
                            /\ IsSeed(Candidate.id)
<1>2. DriverInv /\ [DriverNext]_dvars => [Allowed]_dvars
  BY NotRetrained
<1> HIDE DEF Allowed
<1>3. DriverSpec => [][Allowed]_dvars
  BY <1>1, <1>2, DriverInitInv, PTL DEF DriverSpec
<1> QED BY <1>3 DEF FinishedNotRetrained, Allowed

\* As long as every edge was trained, the checkpoints are the lineage of the edges, and
\* that of the status at most one edge ahead of it.
AllTrained == \A i \in DOMAIN edges : WasTrained(edges[i])

StatusChain ==
    /\ status.ckpt # None =>
          status.ckpt = Lineage(Len(edges)) \/ \E x : status.ckpt = Append(Lineage(Len(edges)), x)
    /\ pc = "collect" => status.ckpt = checkpoint

ChainInv ==
    /\ EdgeSequence
    /\ SingleCheckpoint
    /\ AllTrained => Carried /\ StatusChain
    /\ pc = "resume" => status.ckpt # None

LEMMA EdgesBefore == ASSUME EdgeSequence PROVE \A i \in DOMAIN edges : \A j \in 1 .. i : j \in DOMAIN edges
<1>1. Len(edges) \in Nat /\ DOMAIN edges = 1 .. Len(edges)
  BY DEF EdgeSequence
<1> QED BY <1>1

LEMMA ChainExtended ==
    ASSUME EdgeSequence, SingleCheckpoint, NEW e, edges' = Append(edges, e),
           AllTrained' => e.ckpt = Append(Lineage(Len(edges)), e.id)
    PROVE  SingleCheckpoint' /\ (AllTrained' => e.ckpt = Lineage(Len(edges))')
<1>1. PICK n : n = Len(edges)
  OBVIOUS
<1>2. /\ n \in Nat /\ DOMAIN edges = 1 .. n
      /\ DOMAIN edges' = 1 .. n + 1 /\ Len(edges') = n + 1 /\ edges'[n + 1] = e
      /\ \A i \in 1 .. n : i \in 1 .. n + 1 /\ edges'[i] = edges[i]
      /\ \A i \in 1 .. n + 1 : i \in 1 .. n \/ i = n + 1
  BY <1>1, AddedEdge
<1>3. ASSUME AllTrained' PROVE e.ckpt = [j \in 1 .. n + 1 |-> edges'[j].id]
  <2>1. e.ckpt = [j \in 1 .. n + 1 |-> IF j <= n THEN edges[j].id ELSE e.id]
    <3>1. PICK x : x = e.id
      OBVIOUS
    <3>2. e.ckpt = Append(Lineage(n), x)
      BY <1>1, <1>3, <3>1
    <3>3. Append(Lineage(n), x) = [j \in 1 .. n + 1 |-> IF j <= n THEN edges[j].id ELSE x]
      BY <1>1, AppendLineage
    <3> QED BY <3>1, <3>2, <3>3
  <2>2. \A j \in 1 .. n + 1 : edges'[j].id = IF j <= n THEN edges[j].id ELSE e.id
    <3>1. \A j \in 1 .. n + 1 : (j <= n => j \in 1 .. n) /\ (~(j <= n) => j = n + 1)
      BY <1>2
    <3> QED BY <1>2, <3>1
  <2> QED BY <2>1, <2>2
<1>4. ASSUME NEW i \in 1 .. n, \A j \in 1 .. i : WasTrained(edges'[j])
      PROVE  edges'[i].ckpt = [j \in 1 .. i |-> edges'[j].id]
  <2>1. \A j \in 1 .. i : edges'[j] = edges[j]
    BY <1>2
  <2>2. \A j \in 1 .. i : WasTrained(edges[j])
    BY <1>4, <2>1
  <2>3. edges[i].ckpt = [j \in 1 .. i |-> edges[j].id]
    BY <1>2, <2>2 DEF SingleCheckpoint
  <2>4. edges'[i] = edges[i]
    BY <1>2
  <2> QED BY <2>1, <2>3, <2>4
<1>5. ASSUME NEW i \in 1 .. n + 1, \A j \in 1 .. i : WasTrained(edges'[j])
      PROVE  edges'[i].ckpt = [j \in 1 .. i |-> edges'[j].id]
  <2>1. CASE i \in 1 .. n
    BY <1>4, <1>5, <2>1
  <2>2. CASE i = n + 1
    <3>1. AllTrained'
      BY <1>2, <1>5, <2>2 DEF AllTrained, WasTrained
    <3> QED BY <1>2, <1>3, <2>2, <3>1
  <2> QED BY <1>2, <2>1, <2>2
<1>6. SingleCheckpoint'
  BY <1>2, <1>5 DEF SingleCheckpoint, WasTrained
<1> QED BY <1>2, <1>3, <1>6 DEF Lineage

LEMMA TrainedBefore ==
    ASSUME EdgeSequence, NEW e, edges' = Append(edges, e), AllTrained'
    PROVE  AllTrained /\ WasTrained(e)
<1>1. PICK n : n = Len(edges)
  OBVIOUS
<1>2. /\ n \in Nat /\ DOMAIN edges = 1 .. n
      /\ DOMAIN edges' = 1 .. n + 1 /\ edges'[n + 1] = e
      /\ \A i \in 1 .. n : i \in 1 .. n + 1 /\ edges'[i] = edges[i]
  BY <1>1, AddedEdge
<1>3. n + 1 \in 1 .. n + 1
  BY <1>2
<1> QED BY <1>2, <1>3 DEF AllTrained, WasTrained

\* The walk takes up the checkpoint of the last edge.
LEMMA LastLineage ==
    ASSUME EdgeSequence, SingleCheckpoint, AllTrained
    PROVE  LastCheckpoint = Lineage(Len(edges))
<1>1. edges \in Seq({edges[i] : i \in DOMAIN edges})
  BY DEF EdgeSequence
<1>2. CASE edges = <<>>
  BY <1>2 DEF LastCheckpoint, Lineage
<1>3. CASE edges # <<>>
  <2>1. Len(edges) \in DOMAIN edges
    BY <1>1, <1>3
  <2>2. \A j \in 1 .. Len(edges) : WasTrained(edges[j])
    BY <2>1, EdgesBefore DEF AllTrained
  <2> QED BY <1>3, <2>1, <2>2 DEF LastCheckpoint, Lineage, SingleCheckpoint
<1> QED BY <1>2, <1>3

\* The edges stay.
LEMMA ChainKept ==
    ASSUME ChainInv, UNCHANGED edges, AllTrained => Carried' /\ StatusChain',
           pc' = "resume" => status'.ckpt # None
    PROVE  ChainInv'
<1>1. EdgeSequence' /\ SingleCheckpoint'
  <2>1. EdgeSequence'
    BY DEF ChainInv, EdgeSequence
  <2>2. SingleCheckpoint'
    <3>1. SingleCheckpoint /\ edges' = edges
      BY DEF ChainInv
    <3> QED BY <3>1 DEF SingleCheckpoint, WasTrained
  <2> QED BY <2>1, <2>2
<1>2. AllTrained' => AllTrained
  BY DEF AllTrained, WasTrained
<1> QED BY <1>1, <1>2 DEF ChainInv

LEMMA ChainStep == ASSUME ChainInv, [DriverNext]_dvars PROVE ChainInv'
<1>1. ASSUME DriverStart \/ ResumeLink PROVE ChainInv'
  <2>1. /\ checkpoint' = LastCheckpoint /\ pc' \in {"discover", "done"}
        /\ UNCHANGED <<edges, status>>
    BY <1>1 DEF DriverStart, StartWith, ResumeLink, SetResetPath, EnterWalk, LevelPC, manifest
  <2>2. ASSUME AllTrained PROVE Carried' /\ StatusChain'
    <3>1. checkpoint' = Lineage(Len(edges))
      BY <2>1, <2>2, LastLineage DEF ChainInv
    <3> QED BY <2>1, <2>2, <3>1 DEF ChainInv, Carried, StatusChain, Lineage
  <2> QED BY <2>1, <2>2, ChainKept
<1>2. ASSUME ResumeStart PROVE ChainInv'
  <2>1. pc' = "resume" /\ UNCHANGED <<edges, status>> /\ status.ckpt # None
    BY <1>2 DEF ResumeStart, Dangling, manifest
  <2> QED BY <2>1, ChainKept DEF ChainInv, Carried, StatusChain, Lineage
<1>3. ASSUME ResumePersist PROVE ChainInv'
  <2>1. PICK e : e = TrainedEdge(Candidate, status.ckpt)
    OBVIOUS
  <2>2. /\ pc = "resume" /\ pc' = "resume_link" /\ edges' = Append(edges, e) /\ status' = status
        /\ e.ckpt = status.ckpt /\ e.id \notin EdgeIds
    BY <1>3, <2>1 DEF ResumePersist, AddEdge, TrainedEdge
  <2>3. PICK n : n = Len(edges)
    OBVIOUS
  <2>4. n \in Nat /\ DOMAIN edges = 1 .. n /\ EdgeSequence /\ SingleCheckpoint /\ EdgeSequence'
    BY <2>2, <2>3, AddedEdge DEF ChainInv
  <2>5. ASSUME AllTrained' PROVE e.ckpt = Append(Lineage(n), e.id)
    <3>1. AllTrained /\ WasTrained(e)
      BY <2>2, <2>4, <2>5, TrainedBefore
    <3>2. e.ckpt = Lineage(n) \/ \E x : e.ckpt = Append(Lineage(n), x)
      BY <2>2, <2>3, <3>1 DEF ChainInv, StatusChain
    <3>3. ASSUME e.ckpt = Lineage(n) PROVE FALSE
      <4>1. n # 0
        BY <2>4, <3>1, <3>3 DEF WasTrained, Lineage
      <4>2. n \in DOMAIN edges /\ Len(Lineage(n)) = n /\ Lineage(n)[n] = edges[n].id
        BY <2>4, <4>1 DEF Lineage
      <4>3. edges[n].id \in EdgeIds
        BY <4>2 DEF EdgeIds, Edges, ToSet
      <4> QED BY <2>2, <3>1, <3>3, <4>2, <4>3 DEF WasTrained
    <3>4. ASSUME NEW x, e.ckpt = Append(Lineage(n), x) PROVE x = e.id
      <4>1. e.ckpt = [j \in 1 .. n + 1 |-> IF j <= n THEN edges[j].id ELSE x]
        BY <2>3, <2>4, <3>4, AppendLineage
      <4>2. n + 1 \in 1 .. n + 1 /\ ~(n + 1 <= n)
        BY <2>4
      <4>3. Len(e.ckpt) = n + 1
        BY <2>4, <4>1
      <4>4. e.ckpt[n + 1] = x
        BY <4>1, <4>2
      <4> QED BY <3>1, <4>3, <4>4 DEF WasTrained
    <3> QED BY <3>2, <3>3, <3>4
  <2>6. SingleCheckpoint' /\ (AllTrained' => e.ckpt = Lineage(Len(edges))')
    BY <2>2, <2>3, <2>4, <2>5, ChainExtended
  <2>7. AllTrained' => Carried' /\ StatusChain'
    BY <2>2, <2>6 DEF Carried, StatusChain
  <2> QED BY <2>2, <2>4, <2>6, <2>7 DEF ChainInv
<1>4. ASSUME DriverLaunch PROVE ChainInv'
  <2>1. /\ pc = "train" /\ pc' = "training" /\ UNCHANGED <<edges, checkpoint>>
        /\ status'.ckpt = status.ckpt
    BY <1>4 DEF DriverLaunch, Launch, manifest
  <2> QED BY <2>1, ChainKept DEF ChainInv, Carried, StatusChain, Lineage
<1>5. ASSUME DriverTrained PROVE ChainInv'
  <2>1. /\ pc = "training" /\ pc' = "collect" /\ UNCHANGED <<edges, levelEdges>>
        /\ checkpoint' = Append(checkpoint, Candidate.id) /\ status'.ckpt = checkpoint'
    BY <1>5 DEF DriverTrained, Trained, manifest
  <2>2. Candidate' = Candidate /\ Lineage(Len(edges))' = Lineage(Len(edges))
    BY <2>1 DEF Candidate, Lineage
  <2> QED BY <2>1, <2>2, ChainKept DEF ChainInv, Carried, StatusChain
<1>6. ASSUME DriverWalk PROVE ChainInv'
  <2>1. ASSUME Persist PROVE ChainInv'
    <3>1. PICK e : e = TrainedEdge(Candidate, checkpoint)
      OBVIOUS
    <3>2. /\ pc = "collect" /\ pc' = "link" /\ edges' = Append(edges, e)
          /\ UNCHANGED <<status, checkpoint>>
          /\ e.ckpt = checkpoint /\ e.id = Candidate.id
      BY <1>6, <2>1, <3>1 DEF DriverWalk, Persist, AddEdge, TrainedEdge
    <3>3. EdgeSequence /\ SingleCheckpoint /\ EdgeSequence'
      BY <3>2, AddedEdge DEF ChainInv
    <3>4. ASSUME AllTrained' PROVE e.ckpt = Append(Lineage(Len(edges)), e.id) /\ status.ckpt = checkpoint
      <4>1. AllTrained
        BY <3>2, <3>3, <3>4, TrainedBefore
      <4> QED BY <3>2, <4>1 DEF ChainInv, Carried, StatusChain
    <3>5. SingleCheckpoint' /\ (AllTrained' => e.ckpt = Lineage(Len(edges))')
      BY <3>2, <3>3, <3>4, ChainExtended
    <3>6. AllTrained' => Carried' /\ StatusChain'
      BY <3>2, <3>4, <3>5 DEF Carried, StatusChain
    <3> QED BY <3>2, <3>3, <3>5, <3>6 DEF ChainInv
  <2>2. ASSUME ~Persist PROVE ChainInv'
    <3>1. /\ UNCHANGED <<edges, status, checkpoint>> /\ pc \in {"discover", "train", "link"}
          /\ pc' \in {"discover", "train", "link", "done"}
      BY <1>6, <2>2 DEF DriverWalk, Discover, NoteDiscovered, MarkTerminal, LevelDiscovered, Skip, Link,
                        SetResetPath, NextLevel, LevelPC, manifest
    <3> QED BY <3>1, ChainKept DEF ChainInv, Carried, StatusChain, Lineage
  <2> QED BY <2>1, <2>2
<1>7. ASSUME DriverCrash PROVE ChainInv'
  <2>1. UNCHANGED edges /\ pc' = "down" /\ (status' = status \/ status'.ckpt = None)
    BY <1>7 DEF DriverCrash, Crash, Forget, NoStatus, manifest
  <2> QED BY <2>1, ChainKept DEF ChainInv, Carried, StatusChain, Lineage
<1>8. ASSUME UNCHANGED dvars PROVE ChainInv'
  <2>1. UNCHANGED <<edges, pc, checkpoint, levelEdges, status>>
    BY <1>8 DEF dvars, vars, walk, manifest
  <2> QED BY <2>1, ChainKept DEF ChainInv, Carried, StatusChain, Lineage, Candidate
<1> QED BY <1>1, <1>2, <1>3, <1>4, <1>5, <1>6, <1>7, <1>8 DEF DriverNext

\* Under the driver too, up to the first edge that was not trained: an edge that is resumed with
\* a checkpoint of its own was trained on all edges of the tree (driver.py:330-383).
THEOREM DriverSingleCheckpoint == DriverSpec => []SingleCheckpoint
<1>1. DriverInit => ChainInv
  BY DEF DriverInit, NoStatus, Init, EmptyManifest, ChainInv, EdgeSequence, SingleCheckpoint, Carried,
     StatusChain
<1>2. ChainInv /\ [DriverNext]_dvars => ChainInv'
  BY ChainStep
<1>3. ChainInv => SingleCheckpoint
  BY DEF ChainInv
<1> QED BY <1>1, <1>2, <1>3, PTL DEF DriverSpec

-----------------------------------------------------------------------------
(* launch_and_wait                                                         *)

CallerPC == {"idle", "launching", "waiting", "reading", "returned", "raised", "timed_out", "died"}
JobPC == {"none", "running", "exited", "created", "finished"}

LaunchTypeOK ==
    /\ caller \in [Call -> CallerPC]
    /\ job \in [Call -> JobPC]
    /\ code \in [Call -> Code \cup {NoCode}]
    /\ got \in [Call -> Code \cup {NoCode}]

\* No call has ended before its job.
Orderly == \A c \in Call : caller[c] \notin {"raised", "timed_out", "died"}

Alone == \A c, d \in Active : c = d

\* What the file says of the job of an active call.
Own(c) ==
    /\ caller[c] \in {"idle", "launching"} => job[c] = "none"
    /\ caller[c] = "launching" => file = "absent"
    /\ caller[c] \in {"waiting", "reading"} =>
          /\ job[c] \in {"running", "exited"} => file = "absent"
          /\ job[c] = "created" => file = "empty"
          /\ job[c] = "finished" => file = code[c]
          /\ job[c] # "none"
    /\ caller[c] = "reading" => file # "absent"
    /\ caller[c] = "returned" => job[c] = "finished" /\ got[c] = code[c]

LaunchInv ==
    /\ LaunchTypeOK /\ Alone
    /\ \A c \in Call : job[c] \in {"exited", "created", "finished"} => code[c] \in Code
    /\ Orderly => \A c \in Call : Own(c)

-----------------------------------------------------------------------------
LEMMA LaunchInitInv == LaunchInit => LaunchInv
BY DEF LaunchInit, LaunchInv, LaunchTypeOK, CallerPC, JobPC, Alone, Active, Orderly, Own

\* Types, and at most one active call, are kept; a call that ended before its job stays ended.
LEMMA LaunchTyped ==
    ASSUME LaunchInv, NEW c \in Call, CallerStep(c) \/ JobStep(c)
    PROVE  /\ LaunchTypeOK' /\ Alone' /\ (Orderly' => Orderly)
           /\ \A d \in Call : job'[d] \in {"exited", "created", "finished"} => code'[d] \in Code
<1> USE DEF LaunchInv, LaunchTypeOK, CallerPC, JobPC, Alone, Active, Orderly
<1>1. CASE CallerStep(c)
  <2>1. CASE Begin(c)
    BY <2>1 DEF Begin
  <2>2. CASE Spawn(c)
    BY <2>2 DEF Spawn
  <2>3. CASE Poll(c)
    BY <2>3 DEF Poll
  <2>4. CASE Read(c)
    BY <2>4 DEF Read
  <2>5. CASE TimeOut(c)
    BY <2>5 DEF TimeOut
  <2>6. CASE Die(c)
    BY <2>6 DEF Die
  <2> QED BY <1>1, <2>1, <2>2, <2>3, <2>4, <2>5, <2>6 DEF CallerStep
<1>2. CASE JobStep(c)
  <2>1. CASE Exit(c)
    BY <2>1 DEF Exit
  <2>2. CASE Create(c)
    BY <2>2 DEF Create
  <2>3. CASE Write(c)
    BY <2>3 DEF Write
  <2> QED BY <1>2, <2>1, <2>2, <2>3 DEF JobStep
<1> QED BY <1>1, <1>2

\* A step of the caller keeps what is known of every call, if no call has ended before its job.
LEMMA CallerKeepsOwn ==
    ASSUME LaunchInv, NEW c \in Call, CallerStep(c), Orderly', NEW d \in Call
    PROVE  Own(d)'
<1>1. Orderly /\ Own(d) /\ Own(c)
  BY LaunchTyped DEF LaunchInv
<1>2. CASE Begin(c)
  <2>1. d = c \/ caller[d] \notin {"launching", "waiting", "reading"}
    BY <1>2 DEF Begin, Active
  <2> QED BY <1>1, <1>2, <2>1 DEF Begin, Own, LaunchInv, LaunchTypeOK, CallerPC
<1>3. CASE Spawn(c)
  BY <1>1, <1>3 DEF Spawn, Own, LaunchInv, LaunchTypeOK, JobPC
<1>4. CASE Poll(c)
  BY <1>1, <1>4 DEF Poll, Own, LaunchInv, LaunchTypeOK
<1>5. CASE Read(c)
  <2>1. file \in Code /\ caller' = [caller EXCEPT ![c] = "returned"] /\ got' = [got EXCEPT ![c] = file]
        /\ caller[c] = "reading" /\ UNCHANGED <<job, code, file>>
    BY <1>5 DEF Read, Orderly, LaunchInv, LaunchTypeOK
  <2>2. file # "absent" /\ file # "empty"
    BY <2>1, LaunchAssumption
  <2>3. job[c] = "finished" /\ file = code[c]
    BY <1>1, <2>1, <2>2 DEF Own, LaunchInv, LaunchTypeOK, JobPC
  <2> QED BY <1>1, <2>1, <2>3 DEF Own, LaunchInv, LaunchTypeOK
<1>6. CASE TimeOut(c) \/ Die(c)
  BY <1>6 DEF TimeOut, Die, Orderly, LaunchInv, LaunchTypeOK
<1> QED BY <1>2, <1>3, <1>4, <1>5, <1>6 DEF CallerStep

\* A step of a job does, too: its call is waiting for it, so that no other call is active.
LEMMA JobKeepsOwn ==
    ASSUME LaunchInv, NEW c \in Call, JobStep(c), Orderly', NEW d \in Call
    PROVE  Own(d)'
<1>1. Orderly /\ Own(d) /\ Own(c)
  BY LaunchTyped DEF LaunchInv
<1>2. caller[c] \in {"waiting", "reading"}
  BY <1>1 DEF JobStep, Exit, Create, Write, Own, Orderly, LaunchInv, LaunchTypeOK, CallerPC
<1>3. d = c \/ caller[d] \notin {"launching", "waiting", "reading"}
  BY <1>2 DEF LaunchInv, Alone, Active
<1>4. CASE Exit(c)
  BY <1>1, <1>2, <1>3, <1>4 DEF Exit, Own, LaunchInv, LaunchTypeOK, JobPC
<1>5. CASE Create(c)
  BY <1>1, <1>2, <1>3, <1>5 DEF Create, Own, LaunchInv, LaunchTypeOK, JobPC
<1>6. CASE Write(c)
  <2>1. code[c] \in Code /\ code[c] # "absent"
    BY <1>6, LaunchAssumption DEF Write, LaunchInv
  <2> QED BY <1>1, <1>2, <1>3, <1>6, <2>1 DEF Write, Own, LaunchInv, LaunchTypeOK, JobPC
<1> QED BY <1>4, <1>5, <1>6 DEF JobStep

LEMMA LaunchStep == LaunchInv /\ [LaunchNext]_launchVars => LaunchInv'
<1> SUFFICES ASSUME LaunchInv, [LaunchNext]_launchVars PROVE LaunchInv'
  OBVIOUS
<1>1. ASSUME NEW c \in Call, CallerStep(c) \/ JobStep(c) PROVE LaunchInv'
  <2>1. ASSUME Orderly', NEW d \in Call PROVE Own(d)'
    BY <1>1, <2>1, CallerKeepsOwn, JobKeepsOwn
  <2> QED BY <1>1, <2>1, LaunchTyped DEF LaunchInv
<1>2. CASE UNCHANGED launchVars
  BY <1>2 DEF launchVars, LaunchInv, LaunchTypeOK, Alone, Active, Orderly, Own
<1> QED BY <1>1, <1>2 DEF LaunchNext

\* A call that returns has the exit code of the job it launched, which has ended, if no other call
\* ended before its job: the file was removed before the job was launched, and only that job can
\* have written it since (orchestrator.py:386-420).
THEOREM ReturnsOwnCodeHolds == LaunchSpec => []ReturnsOwnCode
<1>1. LaunchInv => ReturnsOwnCode
  <2> SUFFICES ASSUME LaunchInv, NEW c \in Call, caller[c] = "returned",
                      \A d \in Call \ {c} : caller[d] \notin {"raised", "timed_out", "died"}
               PROVE  job[c] = "finished" /\ got[c] = code[c]
    BY DEF ReturnsOwnCode
  <2>1. Orderly
    BY DEF Orderly
  <2> QED BY <2>1 DEF LaunchInv, Own
<1> QED BY <1>1, LaunchInitInv, LaunchStep, PTL DEF LaunchSpec
=============================================================================
