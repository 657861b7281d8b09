--------------------------- MODULE ReplayPrefetch ---------------------------
(***************************************************************************)
(* PreloadReplayBufferDataset of data/embodied_buffer_dataset.py beside    *)
(* the actor of asynchronous SAC.  The actor's thread adds trajectories to *)
(* the replay buffer and then waits for a batch; a background thread       *)
(* samples batches ahead into a queue.  Only the index is under a lock:    *)
(* the thread may find a trajectory in the index that is not in the cache  *)
(* yet, or in the cache for the last time.                                 *)
(*                                                                         *)
(* One process without checkpoints, and a batch is only whether it was     *)
(* made: what a sample reads while a slot is being written is left open.   *)
(***************************************************************************)
EXTENDS ReplayBuffer

CONSTANT PrefetchSize       \* prefetch_size, at least one

VARIABLES
    actor,       \* the actor's thread: "drain", "adding" or "next", where it waits for a batch
    sampler,     \* _sample_buffer: where the thread is
    drawn,       \* the entries that it samples from
    hits,        \* those of them that it found in the cache
    preload      \* the batches in preload_queue

prefetchVars == <<replayVars, actor, sampler, drawn, hits, preload>>

-----------------------------------------------------------------------------
\* The actor: _drain_received_trajectories, then update_one_epoch

AddIndex(n) ==
    /\ actor = "drain"
    /\ Indexed(n)
    /\ actor' = "adding"
    /\ UNCHANGED <<cache, sampler, drawn, hits, preload>>

AddCache ==
    /\ actor = "adding"
    /\ PutInCache(Last(index))
    /\ actor' = "drain"
    /\ UNCHANGED <<replayConfig, up, index, counter, window, windowValid, saving, disk, saved, made,
                   starts, saves, sampler, drawn, hits, preload>>

\* next(buffer_dataloader_iter), which starts the thread the first time.
AskBatch ==
    /\ actor = "drain" /\ Len(index) >= MinSize
    /\ actor' = "next"
    /\ sampler' = IF sampler = "none" THEN "idle" ELSE sampler
    /\ UNCHANGED <<replayVars, drawn, hits, preload>>

TakeBatch ==
    /\ actor = "next" /\ preload > 0
    /\ preload' = preload - 1
    /\ actor' = "drain"
    /\ UNCHANGED <<replayVars, sampler, drawn, hits>>

-----------------------------------------------------------------------------
\* The thread: sample_chunks, outside of its try

\* The window is taken under the lock, and the samples are drawn.
DrawSamples ==
    /\ sampler = "idle" /\ preload < PrefetchSize /\ Len(index) >= MinSize
    /\ window' = WindowNow /\ windowValid' = TRUE
    /\ drawn' \in SUBSET ToSet(WindowNow) \ {{}}
    /\ sampler' = "drawn"
    /\ UNCHANGED <<replayConfig, up, index, counter, cache, saving, disk, saved, made, starts, saves,
                   actor, hits, preload>>

\* cached_mask
FindHits ==
    /\ sampler = "drawn"
    /\ hits' = {e \in drawn : Cached(e.id)}
    /\ sampler' = "found"
    /\ UNCHANGED <<replayVars, actor, drawn, preload>>

\* The slots of the hits; the KeyError of one that was evicted ends the thread.
ReadHits ==
    /\ sampler = "found"
    /\ sampler' = IF \A e \in hits : Cached(e.id) THEN "read" ELSE "dead"
    /\ UNCHANGED <<replayVars, actor, drawn, hits, preload>>

\* The files of the misses; a trajectory without one ends the thread.
ReadMisses ==
    /\ sampler = "read"
    /\ sampler' = IF \A e \in drawn \ hits : Loadable(e) THEN "batch" ELSE "dead"
    /\ UNCHANGED <<replayVars, actor, drawn, hits, preload>>

PutBatch ==
    /\ sampler = "batch"
    /\ preload' = preload + 1
    /\ sampler' = "idle" /\ drawn' = {} /\ hits' = {}
    /\ UNCHANGED <<replayVars, actor>>

SamplerStep == DrawSamples \/ FindHits \/ ReadHits \/ ReadMisses \/ PutBatch

-----------------------------------------------------------------------------
PrefetchInit ==
    /\ ReplayInit /\ actor = "drain"
    /\ sampler = "none" /\ drawn = {} /\ hits = {} /\ preload = 0

PrefetchNext ==
    \/ Start /\ UNCHANGED <<actor, sampler, drawn, hits, preload>>
    \/ FinishSave /\ UNCHANGED <<actor, sampler, drawn, hits, preload>>
    \/ \E n \in Lengths : AddIndex(n)
    \/ AddCache \/ AskBatch \/ TakeBatch
    \/ SamplerStep

\* Both threads and the save executor run on.
PrefetchFairness ==
    /\ WF_prefetchVars(AddCache) /\ WF_prefetchVars(TakeBatch) /\ WF_prefetchVars(SamplerStep)
    /\ WF_prefetchVars(FinishSave /\ UNCHANGED <<actor, sampler, drawn, hits, preload>>)

PrefetchSpec == PrefetchInit /\ [][PrefetchNext]_prefetchVars /\ PrefetchFairness

-----------------------------------------------------------------------------
(* The actor that waits for a batch gets one: the thread goes on sampling  *)
(* ("Runs in a loop until stop event is set ... Sleeps when buffers are    *)
(* not ready or when errors occur").                                       *)
BatchArrives == actor = "next" ~> actor # "next"
=============================================================================
