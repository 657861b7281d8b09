----------------------------- MODULE Discovery -----------------------------
(***************************************************************************)
(* discover_and_train_by_level of tasks/discovery/orchestrator.py.         *)
(*                                                                         *)
(* The walk grows the manifest breadth first: it asks the VLM (Phase A)    *)
(* for candidates at every node of a level, then trains the candidates one *)
(* by one, each starting from the checkpoint of the one before, collects   *)
(* the end states of each, and persists the edge.  The process may die at  *)
(* any step, or a stage may fail, which raises and ends it too; a caller   *)
(* starts it again on the manifest that is on disk.                        *)
(*                                                                         *)
(* A checkpoint is modelled by its lineage: the ids of the edges trained   *)
(* into it, in order.  Collected end states are modelled by the id of the  *)
(* edge they were collected for, which is also their file name.            *)
(***************************************************************************)
EXTENDS Manifest

CONSTANTS
    Proposal,        \* what Phase A may return, validated: lists of [id, goal]
    Seeds,           \* what a start may pass as initial_edges_by_node: lists of [node, candidates]
    MaxDepth,        \* max_depth
    MaxTotalEdges,   \* max_total_edges
    MaxStarts        \* bound on the number of times the process is started

ASSUME DiscoveryAssumption ==
    /\ MaxDepth \in Nat
    /\ MaxTotalEdges \in Nat
    /\ MaxStarts \in Nat

IsList(s) == s \in Seq(ToSet(s))

\* Phase A returns a list.
ASSUME ProposalAssumption == \A proposal \in Proposal : IsList(proposal)

\* "Values are trusted as already-validated": a seed file holds what an earlier
\* _discover_node_edges returned for its node, as the renaming of seeds relies
\* on.  Those of the root reset from nowhere, those of a node below it from the
\* end states of that node's edge; deeper nodes have no seed file.
SeedOf(c, node) ==
    /\ c = [id |-> c.id, pre |-> node, goal |-> c.goal, produces |-> node \cup {c.id},
            reset |-> c.reset]
    /\ c.reset = None \/ node = {c.reset}

SeedList(list, node) == IsList(list) /\ \A c \in ToSet(list) : SeedOf(c, node)

ASSUME SeedAssumption ==
    \A seeds \in Seeds :
        /\ IsList(seeds)
        /\ \A i \in DOMAIN seeds : SeedList(seeds[i].candidates, seeds[i].node)

VARIABLES
    pc,              \* where the walk is
    depth,
    frontier,        \* the nodes of this level
    visited,         \* visited_nodes
    seen,            \* seen_ids
    seeded,          \* initial_edges_by_node after its ids were deduplicated
    levelEdges,      \* the candidates of this level that are still to do
    nextFrontier,
    checkpoint,      \* the checkpoint carried from edge to edge
    starts

walk == <<pc, depth, frontier, visited, seen, seeded, levelEdges, nextFrontier, checkpoint>>
vars == <<manifest, walk, starts>>

-----------------------------------------------------------------------------
\* Ids

\* Mutant: a colliding id is qualified with its node, and that is it.
DedupeIdOnceMutant(id, used, node) ==
    IF id \notin used THEN id ELSE [base |-> id, under |-> node, nth |-> 1]

\* _dedupe_id: a colliding id is qualified with its node (nth = 1), and
\* numbered from 2 on when that collides too.
DedupeId(id, used, node) ==
    LET qualified(n) == [base |-> id, under |-> node, nth |-> n]
    IN IF id \notin used
       THEN id
       ELSE qualified(CHOOSE n \in 1 .. Cardinality(used) + 1 :
                          /\ qualified(n) \notin used
                          /\ \A m \in 1 .. n - 1 : qualified(m) \in used)

\* The final ids of a list of candidates, each added to seen_ids in turn.
FinalIds(candidates, used, node) ==
    LET ids[i \in DOMAIN candidates] ==
            DedupeId(candidates[i].id, used \cup {ids[j] : j \in 1 .. i - 1}, node)
    IN ids

\* The candidates of _discover_node_edges with the given ids.
Candidates(proposal, ids, node) ==
    [i \in DOMAIN proposal |->
        [id |-> ids[i], pre |-> node, goal |-> proposal[i].goal,
         produces |-> node \cup {ids[i]}, reset |-> ResetPath(node)]]

\* Seeded candidates keep what they carry; a renamed one produces another node.
Renamed(candidates, ids, node) ==
    [i \in DOMAIN candidates |->
        IF ids[i] = candidates[i].id THEN candidates[i]
        ELSE [candidates[i] EXCEPT !.id = ids[i], !.produces = node \cup {ids[i]}]]

\* The loop over the sorted seeded nodes: the final ids of each one's list,
SeedIds(used, seeds) ==
    LET ids[i \in DOMAIN seeds] ==
            FinalIds(seeds[i].candidates, used \cup UNION {ToSet(ids[j]) : j \in 1 .. i - 1},
                     seeds[i].node)
    IN ids

\* and the lists under these ids.
SeedBatches(seeds, ids) ==
    [i \in DOMAIN seeds |->
        [node |-> seeds[i].node,
         candidates |-> Renamed(seeds[i].candidates, ids[i], seeds[i].node)]]

\* Mutant: an edge is recognized by its id.
MatchesIdMutant(e, candidate) == e.id = candidate.id

\* _find_matching_existing_edge: same precondition, predicate and arguments.
Matches(e, candidate) == e.pre = candidate.pre /\ e.goal = candidate.goal

\* Where the edges are that the candidate is recognized as.
Existing(candidate) == {i \in DOMAIN edges : Matches(edges[i], candidate)}

-----------------------------------------------------------------------------
\* The walk

Full == Len(edges) >= MaxTotalEdges

\* The head of the while loop.
LevelPC(front, d) == IF front # {} /\ d < MaxDepth /\ ~Full THEN "discover" ELSE "done"

\* Mutant: a resumed walk warm-starts from the base checkpoint.
LastCheckpointBaseMutant == <<>>

\* The checkpoint of the last edge added, the base checkpoint (an empty
\* lineage) on a fresh manifest.
LastCheckpoint == IF edges = <<>> THEN <<>> ELSE edges[Len(edges)].ckpt

FirstFrontier == {Root}

\* The statements before the loop.
EnterWalk(seeds) ==
    /\ LET ids == SeedIds(EdgeIds, seeds)
       IN /\ seen' = EdgeIds \cup UNION {ToSet(ids[i]) : i \in DOMAIN seeds}
          /\ seeded' = SeedBatches(seeds, ids)
    /\ checkpoint' = LastCheckpoint
    /\ visited' = {}
    /\ frontier' = FirstFrontier
    /\ depth' = 0
    /\ levelEdges' = <<>>
    /\ nextFrontier' = {}
    /\ pc' = LevelPC(FirstFrontier, 0)

StartWith(seeds) ==
    /\ pc \in {"down", "done"}
    /\ starts < MaxStarts
    /\ starts' = starts + 1
    /\ EnterWalk(seeds)
    /\ UNCHANGED manifest

Start == \E seeds \in Seeds : StartWith(seeds)

\* The node is marked terminal when nothing valid was proposed.
NoteDiscovered(node, proposal) ==
    IF proposal = <<>> THEN MarkTerminal(node) ELSE UNCHANGED manifest

\* One node of the level is discovered.  The nodes come in sorted order in the
\* code, in any order here.
Discover(node) ==
    /\ pc = "discover"
    /\ node \in frontier \ visited
    /\ visited' = visited \cup {node}
    /\ \/ \E i \in DOMAIN seeded :
             /\ seeded[i].node = node
             /\ levelEdges' = levelEdges \o seeded[i].candidates
             /\ UNCHANGED <<manifest, seen>>
       \/ /\ \A i \in DOMAIN seeded : seeded[i].node # node
          /\ \E proposal \in Proposal :
                LET ids == FinalIds(proposal, seen, node)
                IN /\ NoteDiscovered(node, proposal)
                   /\ seen' = seen \cup ToSet(ids)
                   /\ levelEdges' = levelEdges \o Candidates(proposal, ids, node)
    /\ UNCHANGED <<pc, depth, frontier, seeded, nextFrontier, checkpoint, starts>>

\* Every node of the level was discovered: training starts.
LevelDiscovered ==
    /\ pc = "discover"
    /\ frontier \subseteq visited
    /\ pc' = "train"
    /\ UNCHANGED <<manifest, depth, frontier, visited, seen, seeded, levelEdges, nextFrontier,
                   checkpoint, starts>>

Candidate == levelEdges[1]

\* Mutant: a recognized candidate's own node goes into the next level.
SkipPhantomMutant ==
    /\ pc = "train" /\ levelEdges # <<>> /\ ~Full
    /\ Existing(Candidate) # {}
    /\ nextFrontier' = nextFrontier \cup {Candidate.produces}
    /\ levelEdges' = Tail(levelEdges)
    /\ UNCHANGED <<manifest, pc, depth, frontier, visited, seen, seeded, checkpoint, starts>>

\* A candidate that is trained already: the walk advances over the existing
\* edge and keeps its checkpoint.
Skip ==
    /\ pc = "train" /\ levelEdges # <<>> /\ ~Full
    /\ Existing(Candidate) # {}
    /\ nextFrontier' = nextFrontier \cup {edges[Min(Existing(Candidate))].produces}
    /\ levelEdges' = Tail(levelEdges)
    /\ UNCHANGED <<manifest, pc, depth, frontier, visited, seen, seeded, checkpoint, starts>>

\* run_training is called.
Launch ==
    /\ pc = "train" /\ levelEdges # <<>> /\ ~Full
    /\ Existing(Candidate) = {}
    /\ pc' = "training"
    /\ UNCHANGED <<manifest, depth, frontier, visited, seen, seeded, levelEdges, nextFrontier,
                   checkpoint, starts>>

\* run_training returns the new checkpoint.
Trained ==
    /\ pc = "training"
    /\ checkpoint' = Append(checkpoint, Candidate.id)
    /\ pc' = "collect"
    /\ UNCHANGED <<manifest, depth, frontier, visited, seen, seeded, levelEdges, nextFrontier,
                   starts>>

TrainedEdge(c, ckpt) ==
    [id |-> c.id, pre |-> c.pre, goal |-> c.goal, produces |-> c.produces, reset |-> c.reset,
     ckpt |-> ckpt]

\* collect_end_states returns and the edge is added.  A crash while the end
\* states are collected leaves nothing but a file that the next run rewrites.
Persist ==
    /\ pc = "collect"
    /\ AddEdge(TrainedEdge(Candidate, checkpoint))
    /\ pc' = "link"
    /\ UNCHANGED <<depth, frontier, visited, seen, seeded, levelEdges, nextFrontier, checkpoint,
                   starts>>

\* The path of the end states is recorded, the new node joins the next level.
Link ==
    /\ pc = "link"
    /\ SetResetPath(Candidate)
    /\ nextFrontier' = nextFrontier \cup {Candidate.produces}
    /\ levelEdges' = Tail(levelEdges)
    /\ pc' = "train"
    /\ UNCHANGED <<depth, frontier, visited, seen, seeded, checkpoint, starts>>

\* The level is done, or the cap on edges is reached.
NextLevel ==
    /\ pc = "train"
    /\ levelEdges = <<>> \/ Full
    /\ frontier' = nextFrontier
    /\ nextFrontier' = {}
    /\ depth' = depth + 1
    /\ levelEdges' = <<>>
    /\ pc' = LevelPC(nextFrontier, depth + 1)
    /\ UNCHANGED <<manifest, visited, seen, seeded, checkpoint, starts>>

\* The process dies, or a stage raises: only the manifest is left.
Forget ==
    /\ pc' = "down"
    /\ depth' = 0
    /\ frontier' = {}
    /\ visited' = {}
    /\ seen' = {}
    /\ seeded' = <<>>
    /\ levelEdges' = <<>>
    /\ nextFrontier' = {}
    /\ checkpoint' = <<>>

Crash ==
    /\ pc \notin {"down", "done"}
    /\ Forget
    /\ UNCHANGED <<manifest, starts>>

-----------------------------------------------------------------------------
Init ==
    /\ EmptyManifest
    /\ pc = "down"
    /\ depth = 0
    /\ frontier = {}
    /\ visited = {}
    /\ seen = {}
    /\ seeded = <<>>
    /\ levelEdges = <<>>
    /\ nextFrontier = {}
    /\ checkpoint = <<>>
    /\ starts = 0

Step ==
    \/ \E node \in frontier : Discover(node)
    \/ LevelDiscovered
    \/ Skip
    \/ Launch
    \/ Trained
    \/ Persist
    \/ Link
    \/ NextLevel

Next == Start \/ Step \/ Crash

Spec == Init /\ [][Next]_vars

-----------------------------------------------------------------------------
\* Properties

\* The checkpoint of the edge is one that its own training produced.
WasTrained(e) == e.ckpt # <<>> /\ e.ckpt[Len(e.ckpt)] = e.id

\* One checkpoint goes through the edges in the order of training, over any
\* number of restarts ("the single-checkpoint invariant"): the checkpoint of an
\* edge was trained on it and on exactly the edges before it, in their order.
\* The walk by itself only adds edges that were trained; under the driver, which
\* may add another, this is said of the edges before the first such.
SingleCheckpoint ==
    \A i \in DOMAIN edges :
        (\A j \in 1 .. i : WasTrained(edges[j])) =>
            edges[i].ckpt = [j \in 1 .. i |-> edges[j].id]

\* No subtask is trained twice into the tree: no two edges have the same
\* precondition and goal, although a restarted walk asks the VLM anew and gives
\* what it proposes other ids (_find_matching_existing_edge).
NoSubtaskTwice ==
    \A i, j \in DOMAIN edges :
        edges[i].pre = edges[j].pre /\ edges[i].goal = edges[j].goal => i = j

\* Manifest.add_edge never raises ManifestError: the id of a candidate about to
\* be added is new, over restarts, repeated proposals and seeded candidates.
NoDuplicateId == pc \in {"training", "collect"} => Candidate.id \notin EdgeIds

\* The edges form a tree that can be walked from the root: the precondition of
\* an edge is the root or was produced by exactly one earlier edge.
Rooted ==
    \A i \in DOMAIN edges :
        \/ edges[i].pre = Root
        \/ Cardinality({j \in 1 .. i - 1 : edges[j].produces = edges[i].pre}) = 1

\* An edge resets from end states that were collected for the edge that produces
\* its precondition, and an edge below the root always does, however often the
\* walk is restarted ("every node being grounded in what the trained policy
\* actually produces"), but for the children of a node whose path a crash kept
\* from being recorded; and a start loses at most one path.  Seeded candidates
\* bring what they reset from with them.
Grounded ==
    /\ \A e \in Edges :
          \/ \E p \in Edges : p.id = e.reset /\ p.produces = e.pre
          \/ /\ e.reset = None
             /\ \/ e.pre = Root
                \/ e.pre \notin DOMAIN resetPaths
                \/ \E seeds \in Seeds : \E i \in DOMAIN seeds : seeds[i].node = e.pre
    /\ Cardinality({e \in Edges : e.produces \notin DOMAIN resetPaths}) <= starts
=============================================================================
