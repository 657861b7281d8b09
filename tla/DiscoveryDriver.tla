-------------------------- MODULE DiscoveryDriver --------------------------
(***************************************************************************)
(* logs/tree_manifest/driver.py, the driver that is launched to walk one   *)
(* scene's tree unattended.                                                *)
(*                                                                         *)
(* It runs discover_and_train_by_level (module Discovery) with stages that *)
(* note their progress in driver_status.json, and when it is started again *)
(* it first looks there for an edge whose training finished but which did  *)
(* not reach the manifest: that edge is collected and added, not trained   *)
(* again.  write_status merges its fields into the file, so a field keeps  *)
(* its value until some stage writes it; the file is written in place, so  *)
(* a crash while it is written leaves an unreadable file, which counts as  *)
(* an empty one.                                                           *)
(***************************************************************************)
EXTENDS Discovery

CONSTANT SeedFiles     \* the seed files in the driver's directory

VARIABLE status    \* current_edge and checkpoint of driver_status.json

dvars == <<vars, status>>

NoStatus == [edge |-> None, ckpt |-> None]

\* Is there a candidate of that id in the seed files as they are?
InFile(i, id) == \E c \in ToSet(SeedFiles[i].candidates) : c.id = id
IsSeed(id) == \E i \in DOMAIN SeedFiles : InFile(i, id)

\* _find_candidate_by_id: the first candidate of that id in the first file with one.
FoundCandidate(id) ==
    LET list == SeedFiles[Min({i \in DOMAIN SeedFiles : InFile(i, id)})].candidates
    IN list[Min({k \in DOMAIN list : list[k].id = id})]

\* The driver passes its seed files to the walk; an id is a string that is not empty.
ASSUME SeedFileAssumption == SeedFiles \in Seeds /\ ~IsSeed(None)

\* Mutant: a status that names an edge is taken for a dangling edge even if it
\* reached the manifest.
DanglingPersistedMutant ==
    /\ status.edge # None /\ status.ckpt # None
    /\ IsSeed(status.edge)

\* The early returns of _resume_dangling_trained_edge.  A checkpoint that the
\* status names exists: run_training wrote it there after it checked.
Dangling ==
    /\ status.edge # None /\ status.ckpt # None
    /\ status.edge \notin EdgeIds
    /\ IsSeed(status.edge)

\* Mutant: the driver enters the walk at once.
DriverStartPlainMutant == StartWith(SeedFiles) /\ UNCHANGED status

\* main: the walk is entered at once, or a dangling edge is resumed first.
DriverStart ==
    /\ ~Dangling
    /\ StartWith(SeedFiles)
    /\ UNCHANGED status

ResumeStart ==
    /\ pc \in {"down", "done"} /\ starts < MaxStarts
    /\ Dangling
    /\ levelEdges' = <<FoundCandidate(status.edge)>>
    /\ pc' = "resume"
    /\ starts' = starts + 1
    /\ UNCHANGED <<manifest, depth, frontier, visited, seen, seeded, nextFrontier, checkpoint,
                   status>>

\* The end states of the dangling edge are collected with the checkpoint of the
\* status, and the edge is added with it.
ResumePersist ==
    /\ pc = "resume"
    /\ AddEdge(TrainedEdge(Candidate, status.ckpt))
    /\ pc' = "resume_link"
    /\ UNCHANGED <<depth, frontier, visited, seen, seeded, levelEdges, nextFrontier, checkpoint,
                   starts, status>>

\* Its end states are recorded; then the walk starts.
ResumeLink ==
    /\ pc = "resume_link"
    /\ SetResetPath(Candidate)
    /\ EnterWalk(SeedFiles)
    /\ UNCHANGED <<starts, status>>

\* write_status(phase="training", current_edge=...)
DriverLaunch ==
    /\ Launch
    /\ status' = [status EXCEPT !.edge = Candidate.id]

\* write_status(phase="training_done", current_edge=..., checkpoint=...)
DriverTrained ==
    /\ Trained
    /\ status' = [edge |-> Candidate.id, ckpt |-> checkpoint']

\* The steps of the walk that write nothing new to the status.
DriverWalk ==
    /\ \/ \E node \in frontier : Discover(node)
       \/ LevelDiscovered
       \/ Skip
       \/ Persist
       \/ Link
       \/ NextLevel
    /\ UNCHANGED status

\* The driver dies, possibly while it writes the status.
DriverCrash ==
    /\ Crash
    /\ status' \in {status, NoStatus}

DriverInit == Init /\ status = NoStatus

DriverNext ==
    \/ DriverStart
    \/ ResumeStart
    \/ ResumePersist
    \/ ResumeLink
    \/ DriverLaunch
    \/ DriverTrained
    \/ DriverWalk
    \/ DriverCrash

DriverSpec == DriverInit /\ [][DriverNext]_dvars

-----------------------------------------------------------------------------
\* Properties

\* An edge in the manifest was trained: its checkpoint is one that its own
\* training produced ("an edge that finished training (has a real checkpoint)
\* but was never persisted").
PersistedWasTrained == \A e \in Edges : WasTrained(e)

\* No training is repeated that the status can account for: the driver never
\* trains a seeded edge whose finished checkpoint the status names
\* (_resume_dangling_trained_edge).
FinishedNotRetrained ==
    [][pc = "train" /\ pc' = "training" =>
          ~ /\ status.ckpt # None
            /\ status.edge = Candidate.id
            /\ status.ckpt[Len(status.ckpt)] = Candidate.id
            /\ IsSeed(Candidate.id)]_dvars
=============================================================================
