---------------------------- MODULE ReplayBuffer ----------------------------
(***************************************************************************)
(* TrajectoryReplayBuffer of data/replay_buffer.py as one actor rank of    *)
(* SAC uses it, without the prefetching thread: trajectories are added,    *)
(* chunks are sampled, checkpoints are saved, and a process that was       *)
(* started again resumes from the latest of them.                          *)
(*                                                                         *)
(* Trajectories are kept flat in the slots of one buffer, whose slots grow *)
(* when a longer trajectory comes; which slot holds which trajectory is    *)
(* kept in two maps.  With auto_save every trajectory is also written to a *)
(* file, by a pool of threads; without it only a checkpoint writes files,  *)
(* from the cache.  The ids start again with the counter that a resumed    *)
(* process loads, so an id may have stood for another trajectory before:   *)
(* the model gives every trajectory a serial number.  Its samples are      *)
(* <<serial, 1>>, <<serial, 2>>, ...                                       *)
(***************************************************************************)
EXTENDS Integers, Sequences, SequencesExt, FiniteSets

CONSTANTS
    Window,       \* sample_window_size
    CacheSizes,   \* the cache sizes with auto_save to consider, 0 for enable_cache = False
    Lengths,      \* how many samples a trajectory may have
    MinSize,      \* min_buffer_size
    None,
    MaxMade,      \* bound on the trajectories
    MaxStarts,    \* bound on the starts of the process
    MaxSaves      \* bound on the checkpoints

ASSUME ReplayAssumption ==
    /\ Window \in Nat \ {0} /\ CacheSizes \subseteq Nat /\ MinSize \in Nat \ {0}
    /\ Lengths \subseteq Nat \ {0}
    /\ MaxMade \in Nat /\ MaxStarts \in Nat /\ MaxSaves \in Nat

VARIABLES
    autoSave,     \* auto_save
    cacheSize,    \* max_size of the cache
    up,           \* the process runs
    index,        \* _trajectory_id_list with _trajectory_index and _trajectory_file_path
    counter,      \* _trajectory_counter
    cache,        \* the TrajectoryCache
    window,       \* the entries of _window_cache_ids
    windowValid,  \* _window_cache_version is _index_version
    saving,       \* files that the save executor is to write
    disk,         \* files of trajectories
    saved,        \* the latest checkpoint: its directory, index and counter
    made, starts, saves

replayConfig == <<autoSave, cacheSize>>
memory == <<up, index, counter, cache, window, windowValid, saving>>
replayVars == <<replayConfig, memory, disk, saved, made, starts, saves>>

-----------------------------------------------------------------------------
\* TrajectoryCache

Blank == <<0, 0>>
EmptyCache ==
    [slot |-> [id \in {} |-> 0], owner |-> [s \in {} |-> 0], last |-> 0, len |-> 0, cells |-> <<>>]

\* Mutant: the slots are copied as they lie, not to where they begin now.
EnsuredUnmovedMutant(c, n) ==
    IF n <= c.len THEN c
    ELSE [c EXCEPT !.len = n,
             !.cells = [i \in 1 .. cacheSize * n |->
                           IF i <= Len(c.cells) THEN c.cells[i] ELSE Blank]]

\* _ensure_capacity: the buffer is allocated, or its slots grow.
Ensured(c, n) ==
    IF n <= c.len THEN c
    ELSE [c EXCEPT !.len = n,
             !.cells = [i \in 1 .. cacheSize * n |->
                 LET slot == (i - 1) \div n
                     at == (i - 1) % n
                 IN  IF slot \in Range(c.slot) /\ at < c.len
                     THEN c.cells[slot * c.len + at + 1] ELSE Blank]]

Written(c, slot, data) ==
    [i \in DOMAIN c.cells |->
        IF i - slot * c.len \in DOMAIN data THEN data[i - slot * c.len] ELSE c.cells[i]]

Without(f, id) == [x \in DOMAIN f \ {id} |-> f[x]]

\* put: a new trajectory takes the next slot in turn.
Put(c, id, data) ==
    LET e == Ensured(c, Len(data))
        known == id \in DOMAIN e.slot
        slot == IF known THEN e.slot[id] ELSE e.last
        rest == IF slot \in DOMAIN e.owner THEN Without(e.slot, e.owner[slot]) ELSE e.slot
    IN  [slot |-> [x \in DOMAIN rest \cup {id} |-> IF x = id THEN slot ELSE rest[x]],
         owner |-> [s \in DOMAIN e.owner \cup {slot} |-> IF s = slot THEN id ELSE e.owner[s]],
         last |-> IF known THEN e.last ELSE (e.last + 1) % cacheSize,
         len |-> e.len,
         cells |-> Written(e, slot, data)]

Cached(id) == id \in DOMAIN cache.slot
Cell(id, k) == cache.cells[cache.slot[id] * cache.len + k]

-----------------------------------------------------------------------------
\* Files

AutoDir == <<"auto", starts>>    \* auto_save_path, in the log directory of the process
Files(dir, id) == {f \in disk : f.dir = dir /\ f.id = id}
Loadable(entry) == Files(entry.dir, entry.id) # {}
FileOf(entry) == CHOOSE f \in Files(entry.dir, entry.id) : TRUE

\* What a sample of entry e at position k reads: a cell of the cache, or the
\* file of a trajectory that is not cached.
Read(e, k) == IF Cached(e.id) THEN Cell(e.id, k) ELSE FileOf(e).data[k]
Readable(e) == Cached(e.id) \/ Loadable(e)

-----------------------------------------------------------------------------
\* Operations

Data(serial, n) == [k \in 1 .. n |-> <<serial, k>>]
Newest(s, n) == SubSeq(s, (IF Len(s) > n THEN Len(s) - n ELSE 0) + 1, Len(s))

\* One turn of the loop of add_trajectories, up to the end of its with block.
Indexed(n) ==
    /\ up /\ made < MaxMade
    /\ LET entry == [id |-> counter, serial |-> made + 1, n |-> n,
                     dir |-> IF autoSave THEN AutoDir ELSE None]
       IN  /\ index' = Append(index, entry)
           /\ saving' = IF autoSave
                        THEN saving \cup {[dir |-> AutoDir, id |-> counter, data |-> Data(made + 1, n)]}
                        ELSE saving
    /\ counter' = counter + 1 /\ made' = made + 1
    /\ windowValid' = FALSE
    /\ UNCHANGED <<replayConfig, up, window, disk, saved, starts, saves>>

\* The rest of the turn.
PutInCache(entry) ==
    cache' = IF cacheSize > 0 THEN Put(cache, entry.id, Data(entry.serial, entry.n)) ELSE cache

AddTrajectory(n) ==
    /\ Indexed(n)
    /\ PutInCache(Last(index'))

\* A thread of the save executor has written its file.
FinishSave ==
    /\ \E f \in saving :
          /\ disk' = disk \cup {f}
          /\ saving' = saving \ {f}
    /\ UNCHANGED <<replayConfig, up, index, counter, cache, window, windowValid, saved, made, starts, saves>>

WindowNow == IF windowValid THEN window ELSE Newest(index, Window)

\* The process ends: by itself, killed, or because a sample raised.
Lose ==
    /\ up' = FALSE /\ index' = <<>> /\ counter' = 0 /\ cache' = EmptyCache
    /\ window' = <<>> /\ windowValid' = FALSE /\ saving' = {}

\* sample_chunks draws from any entry of the window; a trajectory that is
\* neither cached nor written yet raises FileNotFoundError.
Sample ==
    /\ up /\ Len(index) >= MinSize
    /\ \/ /\ \E i \in DOMAIN WindowNow : Readable(WindowNow[i])
          /\ window' = WindowNow /\ windowValid' = TRUE
          /\ UNCHANGED <<up, index, counter, cache, saving>>
       \/ /\ \E i \in DOMAIN WindowNow : ~Readable(WindowNow[i])
          /\ Lose
    /\ UNCHANGED <<replayConfig, disk, saved, made, starts, saves>>

CheckpointDir == <<"checkpoint", saves + 1>>

\* Mutant: only the trajectories of the last window are saved.
CheckpointFilesWindowMutant ==
    {[dir |-> CheckpointDir, id |-> window[i].id,
      data |-> [k \in 1 .. window[i].n |-> Cell(window[i].id, k)]] :
        i \in {j \in DOMAIN window : Cached(window[j].id)}}

\* The trajectory files of save_checkpoint: those of the cache, or, with
\* auto_save, copies of the files of the window of the last sample that are
\* in auto_save_path.
CheckpointFiles ==
    IF ~autoSave
    THEN {[dir |-> CheckpointDir, id |-> e.id, data |-> [k \in 1 .. e.n |-> Cell(e.id, k)]] :
             e \in {x \in Range(index) : Cached(x.id)}}
    ELSE {[f EXCEPT !.dir = CheckpointDir] :
             f \in UNION {Files(AutoDir, window[i].id) : i \in DOMAIN window}}

SaveCheckpoint ==
    /\ up /\ saves < MaxSaves
    /\ disk' = disk \cup CheckpointFiles
    /\ saved' = [dir |-> CheckpointDir, index |-> index, counter |-> counter]
    /\ saves' = saves + 1
    /\ UNCHANGED <<replayConfig, memory, made, starts>>

Crash ==
    /\ up
    /\ Lose
    /\ UNCHANGED <<replayConfig, disk, saved, made, starts, saves>>

Fresh == index' = <<>> /\ counter' = 0 /\ cache' = EmptyCache

\* The entries' files are put in the empty cache, one after the other.
Refilled(entries) ==
    LET filled[k \in 0 .. Len(entries)] ==
            IF k = 0 THEN EmptyCache
            ELSE Put(filled[k - 1], entries[k].id, FileOf(entries[k]).data)
    IN  filled[Len(entries)]

\* Mutant: the ids start again at 0.
LoadCheckpointResetsCounterMutant ==
    LET entries == [i \in DOMAIN saved.index |-> [saved.index[i] EXCEPT !.dir = saved.dir]]
    IN  /\ \A e \in Range(Newest(entries, cacheSize)) : Loadable(e)
        /\ index' = entries /\ counter' = 0
        /\ cache' = Refilled(Newest(entries, cacheSize))

\* load_checkpoint, which raises if a trajectory for the cache has no file.
LoadCheckpoint ==
    LET entries == [i \in DOMAIN saved.index |-> [saved.index[i] EXCEPT !.dir = saved.dir]]
    IN  /\ \A e \in Range(Newest(entries, cacheSize)) : Loadable(e)
        /\ index' = entries /\ counter' = saved.counter
        /\ cache' = Refilled(Newest(entries, cacheSize))

\* The process is started, and resumes from the latest checkpoint.
Start ==
    /\ ~up /\ starts < MaxStarts
    /\ starts' = starts + 1
    /\ up' = TRUE
    /\ IF saved = None THEN Fresh ELSE LoadCheckpoint
    /\ UNCHANGED <<replayConfig, window, windowValid, saving, disk, saved, made, saves>>

-----------------------------------------------------------------------------
ReplayInit ==
    /\ autoSave \in BOOLEAN
    /\ IF autoSave THEN cacheSize \in CacheSizes ELSE cacheSize = Window
    /\ up = FALSE /\ index = <<>> /\ counter = 0 /\ cache = EmptyCache
    /\ window = <<>> /\ windowValid = FALSE /\ saving = {} /\ disk = {}
    /\ saved = None /\ made = 0 /\ starts = 0 /\ saves = 0

ReplayNext ==
    \/ \E n \in Lengths : AddTrajectory(n)
    \/ FinishSave \/ Sample \/ SaveCheckpoint \/ Crash \/ Start

ReplaySpec == ReplayInit /\ [][ReplayNext]_replayVars

-----------------------------------------------------------------------------
(* A sample is a chunk of the trajectory that the index says it is, one of *)
(* the newest Window: whatever was evicted, however the slots grew, and    *)
(* although a resumed process gives out ids again.  Without auto_save      *)
(* every trajectory of the window can be sampled from memory, although     *)
(* nothing was ever written.                                               *)
SamplesAreTrue ==
    /\ up => WindowNow = Newest(index, Window)
    /\ \A e \in Range(Newest(index, Window)) :
          /\ autoSave \/ Cached(e.id)
          /\ Readable(e) => \A k \in 1 .. e.n : Read(e, k) = <<e.serial, k>>

(* Without auto_save the latest checkpoint can always be loaded, and gives *)
(* back the trajectories of the window of then: "When saving a checkpoint, *)
(* cached trajectories and metadata are saved into the checkpoint path".   *)
CheckpointLoads ==
    saved # None /\ ~autoSave =>
        \A e \in Range(Newest(saved.index, Window)) :
            \E f \in Files(saved.dir, e.id) : f.data = Data(e.serial, e.n)
=============================================================================
