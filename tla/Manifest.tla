------------------------------ MODULE Manifest ------------------------------
(***************************************************************************)
(* The manifest of tasks/discovery/manifest.py: the tree of subtasks that  *)
(* a scene's discovery has trained, kept in one JSON file.                 *)
(*                                                                         *)
(* A node is the set of the ids of the subtasks satisfied there, the root  *)
(* is the empty set.  An edge is a trained subtask: from its exact         *)
(* precondition it produces one node more.  Every write replaces the file  *)
(* atomically, so a write is one step and what is written survives a       *)
(* crash; the in-memory copy is the file's content.                        *)
(***************************************************************************)
EXTENDS Naturals, Sequences, FiniteSets, SequencesExt

CONSTANT None      \* Python's None

VARIABLES
    edges,         \* the edges in the order in which they were added
    terminal,      \* the nodes marked terminal
    resetPaths     \* node -> the edge whose end states its children reset from

manifest == <<edges, terminal, resetPaths>>

Root == {}

EmptyManifest ==
    /\ edges = <<>>
    /\ terminal = {}
    /\ resetPaths = [n \in {} |-> None]

\* Manifest.all_edges, as a set.
Edges == ToSet(edges)

EdgeIds == {e.id : e \in Edges}

\* Manifest.get_reset_states_path_for_children.
ResetPath(node) == IF node \in DOMAIN resetPaths THEN resetPaths[node] ELSE None

\* Manifest.add_edge raises ManifestError on a duplicate id.
AddEdge(e) ==
    /\ e.id \notin EdgeIds
    /\ edges' = Append(edges, e)
    /\ UNCHANGED <<terminal, resetPaths>>

\* Manifest.mark_terminal
MarkTerminal(node) ==
    /\ terminal' = terminal \cup {node}
    /\ UNCHANGED <<edges, resetPaths>>

\* Mutant: the path is recorded for the node the edge starts from.
SetResetPathParentMutant(e) ==
    /\ resetPaths' = [n \in DOMAIN resetPaths \cup {e.pre} |->
                         IF n = e.pre THEN e.id ELSE resetPaths[n]]
    /\ UNCHANGED <<edges, terminal>>

\* Manifest.set_reset_states_path_for_children: the end states of edge e are
\* what the children of the node it produces reset from.
SetResetPath(e) ==
    /\ resetPaths' = [n \in DOMAIN resetPaths \cup {e.produces} |->
                         IF n = e.produces THEN e.id ELSE resetPaths[n]]
    /\ UNCHANGED <<edges, terminal>>
=============================================================================
