# A TLA+ model of RLinf's workers, scheduler and task discovery

This directory holds TLA+ specifications of the concurrent and restartable parts
of the repository, the TLC configurations that check them on small instances, and
machine-checked proofs (TLAPS) of what matters most. It is written from the code
under `src/`; `PROJECT.json` maps every definition to the lines it stands for,
lists the runs, the theorems, the hazards and the disagreements found.

    tlc -workers 2 -config ChannelQueue.cfg MCChannelQueue       # one run
    tlapm ChannelProofs.tla                                     # one proof module

## 1. The system

The repository is a framework for reinforcement learning on clusters (`rlinf`): a
runner starts groups of Ray actors (rollout, environment, inference, actor), which
exchange data over *channels* and share accelerators under *locks*; a *dynamic
scheduler* moves GPUs between them while a step goes on. On top of it a *discovery*
pipeline grows a tree of manipulation subtasks for a scene: a vision model
proposes subtasks at each node, each is trained by a job of its own, and the
process that drives it must survive crashes for days.

### Inventory

| Component | State | Operations | Interacts by | Hard | Correct when |
|---|---|---|---|---|---|
| Channel worker `scheduler/channel/channel_worker.py` | one `PeekQueue` (asyncio) per key, its sleeping getters and putters | put, get, get_batch, nowait forms | remote calls; send and recv | coroutines interleave at every await; a wake-up is a promise that may be late | bounded FIFO per key; nobody sleeps beside an item or a free slot; batches keep to their target |
| Channel client `channel/channel.py`, `collective/async_work.py` | chain of futures per key, store of answers per query id | put, get, get_batch, async or not | remote calls that run in any order; two FIFO pipes | item and call travel apart | puts of a key keep their order, each get gets its own answer, every call returns |
| Device and port locks `manager/lock_manager.py`, `worker/lock.py` | one lock per accelerator, owner, waiters | acquire_devices, release_devices | asyncio tasks in one actor | locks of one worker are taken one by one | mutual exclusion, no failure, no deadlock |
| Dynamic scheduler `scheduler/dynamic_scheduler/*` | train_iter, books of GPUs, reports | pre_process, main_loop; report, migrate, finish | request and response queues to each rollout instance, a queue to the actor, inference's flag | decisions on reports that are already old | no group lost or doubled, a GPU has one user, the step ends |
| Rollout instance under it `workers/rollout/{utils,sglang/sglang_worker}.py` | running, aborted and done groups, notification event | rollout(), main_loop() | two coroutines over one status manager | abort and migration while results are being handled | as above |
| Discovery manifest `tasks/discovery/manifest.py` | edges, terminal nodes, reset paths, in one JSON file | add_edge, mark_terminal, set_reset_states_path... | the walk | crash between two writes | a tree from the root, unique ids |
| Discovery walk `tasks/discovery/orchestrator.py` | level, frontier, seen ids, checkpoint | discover_and_train_by_level and three other walks | manifest, Phase A (VLM), Phase B, training, collection | restart asks the VLM anew, and it answers otherwise | one checkpoint through all edges, no subtask twice |
| Tree driver `logs/tree_manifest/driver.py` | `driver_status.json` | stages that note progress, resume | status file and manifest | the status is merged and written in place | what is persisted was trained, what was trained is not trained again |
| `launch_and_wait` `orchestrator.py` | exit-code file per log path | launch, poll, read | detached shell job | the job outlives its caller | a call returns its own job's code |
| Asynchronous PPO `workers/actor/async_ppo_fsdp_worker.py`, `workers/rollout/hf/async_huggingface_worker.py`, `data/priority_store.py` | versions, rollout store, receive queue | receive, drain, wait, train, sync weights | channel, threads, weight sync | versions move while data is on its way | data trained on is within the staleness threshold; training does not starve |
| Asynchronous SAC `runners/async_embodied_runner.py`, `workers/actor/async_fsdp_sac_policy_worker.py` | pending sync of either side | request a sync, train, receive in a task | two remote calls per sync | one side drops requests, the other coalesces them | no side syncs alone |
| Weight syncers `hybrid_engines/weight_syncer/*` | buckets, patches, versions, snapshots | sync, apply | send and recv | sender and receiver count apart, from live parameters | the receiver ends with the sender's weights and version |
| Replay buffer `data/replay_buffer.py` and its prefetching dataset `data/embodied_buffer_dataset.py` | index, cache of slots, window, files | add, sample, checkpoint, resume | a sampling thread, a save executor | slots grow and are reused, ids are given out again | a sample is data of the trajectory it names; a checkpoint can be loaded |
| Collective groups `collective/collective_group.py` | process groups, a queue and a done flag per role | send, recv and the tensor forms, with and without async_op | two queue threads and the caller | threads share a process group; nothing names a message | transfers stay apart and in order; shared memory is not given back early |
| Synchronous embodied loop `runners/embodied_runner.py`, `workers/env/env_worker.py`, `workers/rollout/hf/huggingface_worker.py`, `utils/comm_mapping.py` | the loops of three groups of workers | interact, generate, evaluate, collect | channels keyed by source, destination and mode | each side counts its own loops; shards of several workers | an action answers its own observation; a batch is every environment once; the job ends |
| Pipelined actors `workers/actor/fsdp_actor_worker_pipeline.py` | micro-batches and global batches of each rank | receive, train, train again | collective operations between the ranks | each rank chooses by its own queue | an optimizer step applies its own batch; the ranks agree in what they do together |
| Everything else | | | | | see section 7 |

How they interact: the runners call methods of the workers and pass them channels;
a channel operation is a remote call on the channel worker and a message through a
collective group; the dynamic scheduler's queues are channels too; a rollout
instance holds its device lock while its engine is on the GPUs. The embodied runners
pass observations, actions and trajectories over channels, and the weights back to the
rollout workers through a weight syncer over a collective group; asynchronous PPO keeps
trajectories in its store, asynchronous SAC in the replay buffer. The driver calls the
walk, the walk calls `launch_and_wait` and writes the manifest.

## 2. The modules

| Module | Models | Uses |
|---|---|---|
| `ChannelQueue` | the channel worker's queues and coroutines | `FifoChannel` (refinement) |
| `FifoChannel` | what a channel promises: a bounded first-in first-out queue per key, written only for the refinement | |
| `ChannelClient` | the workers' side of a channel | `ChannelQueue`: composition, its actions are conjuncts of the client's |
| `ChannelProofs` | theorems on both | `ChannelClient`, TLAPS |
| `DeviceLocks`, `DeviceLocksProofs` | the locks and the event loop under them; theorems | |
| `CollectiveGroup`, `CollectiveGroupProofs` | two workers' transfers, by queue threads and callers; theorems | |
| `DynamicScheduler`, `DynamicSchedulerProofs` | scheduler, rollout instances, inference and actor over one global step; theorems | |
| `WeightSync`, `AsyncProofs` | the weight syncers, sender and receiver; theorems on them in `AsyncPPO` and `AsyncSAC` | |
| `AsyncPPO` | runner, generation, receiving thread, store, training | `WeightSync`: composition, with training between syncs |
| `AsyncSAC` | runner, training and generation with syncs in the background | `WeightSync`: composition, with training at the awaits of a sync |
| `ReplayBuffer`, `TrainingDataProofs` | index, cache, files and checkpoints of the replay buffer; theorems | |
| `ReplayPrefetch` | the sampling thread beside the actor | `ReplayBuffer` |
| `CommMapper` | who exchanges which part of a batch; pure functions | |
| `EmbodiedLoop`, `EmbodiedLoopProofs` | runner, env workers, rollout workers and actors of the synchronous loop; two theorems | `CommMapper` |
| `PipelineActor`, `TrainingDataProofs` | actors that train on micro-batches as they come; theorems | |
| `Manifest` | the manifest's operations, each one atomic write | |
| `Discovery`, `DiscoveryProofs` | the walk by level with crashes and restarts; theorems | `Manifest` |
| `DiscoveryDriver` | the driver with its status file | `Discovery`: its stages are refined by the driver's |
| `LaunchAndWait`, `DiscoveryProofs` | detached jobs and exit-code files; a theorem | |
| `MC...` | instances for TLC | |

State and actions carry the names of the code where TLA+ allows it. A definition
called `...Mutant` is the definition below it with one plausible bug; the runs'
properties must find it. It is never part of a specification.

Some MC modules hold several systems that share no state: `MCWorker` the channel client
or the locks, `MCDiscoveryGroups` the discovery or a collective group, `MCDiscovery` the
walk, the driver or the detached jobs, `MCAsync` one of five ways to train. A variable
chosen in the initial state says which of them runs; the variables of the others keep
their initial values. One run then checks each system by itself, never a product of two.

**ChannelQueue.** A *task* is one call of put, get or get_batch; `pc` says at which
`await` it stands, `call` holds its locals. `queue`, `getters` and `putters` are the
three deques of an `asyncio.Queue`. What runs between two awaits is one action:
`Put`, `Get` and `GetBatch` are a call up to its first wait, `PutResume`, `GetResume` and
`GetBatchResume` go on after a wake-up, which may happen any time later. Queues
exist from the start (`create_queue` finds or makes them and nothing tells the two
apart); `BatchKey` is the set of keys that get_batch reads. asyncio's own code is
external and modelled from its documented algorithm: `put_nowait` and `get_nowait`
wake the first waiter that is not done; a woken one tests its condition again.

**ChannelClient.** `rpcs` are remote calls under way, run in any order; `pipe` and `back`
are the send/recv pipes to and from the channel worker, in order. `RunPut` takes the
*head of the pipe* whichever put it runs for: that is what `self.recv` does, and the pipe
is shared by the keys. `chain` is `last_future_per_key`. A blocking get returns what its
recv gets; an asynchronous one stores it under the query id. `MixKeys` and `MixGets` say
whether a client has puts to two keys, or a blocking beside an asynchronous get, outstanding.

**DeviceLocks.** `ready` is the event loop's queue of callbacks, which run first in,
first out; `woken[d]` says that a lock's first waiter has its future set. `Ask` merges
the sending of the remote call with its arrival and `Acquired` the completion of `gather`
with the reply: between them nothing else reads what they write. No caller cancels
or nests an acquire, so the model has neither.

**CollectiveGroup.** A transfer is a list of messages (`Messages`): its type, metadata, then
an object, tensors or handles of shared memory, as the sender and the receiver find
themselves on the same device, on different ones, or uncertain. A message is a broadcast
in the process group of its direction and medium, a rendezvous; which one it meets depends only on how many
were called there before, which is how a process group counts. A role's works are run by
its queue's thread or, without async_op, by the caller once the queue is empty and done.
`Duplex = FALSE` lets only one of two workers with uncertain devices send: with `TRUE`
the recv thread and the send thread, which receives the answer about devices, take each
other's messages, and TLC violates `Paired`.

**DynamicScheduler.** One global step. `spc`, `rpc`, `lpc` and `apc` are the program
counters of the scheduler, of an instance's rollout() and main_loop(), and of the
actor. A group is generated as a whole; which aborted group goes to which instance
is left open; `Migrate_In` and `Finish`, sent in one step by the code's gather, are one
action. `IterGroups` decides which sizes of the actor are valid, as in
`get_valid_dp_sizes`, so that few groups can stand for many. `policy` is chosen in the
initial state from `Policies`, the settings of use_pre_process_policy and
use_wait_before_last_iter_policy. An instance's rollout() may start any time. The
polling sleeps of main_loop are guards.

**WeightSync.** A tensor's value is the number of the update that last changed it; `history`
keeps the actor's weights after each update, so that a property can ask which weights a
worker has. The state dict refers to the live parameters: a bucket, a snapshot or a patch
is made from the weights of *its* moment. `syncer` is chosen in the initial state: buckets
loaded at once, buckets buffered until the last, patches, patches with init_sync.
Not modelled: a last bucket that only holds tensors without elements (its count is not
announced), several receivers, and how a patch is encoded.

**AsyncPPO.** `label` is the version that the rollout worker writes into a chunk; a trajectory
is its sequence of labels. `Receive` is a turn of the receiving thread, `Drain` a turn of
_drain_received_trajectories, `Construct` the rest of _wait_for_rollout_store_ready with
construct_rollout_batch: topn leaves its entries in the store, `uses` counts how often they
are trained on. One actor rank is modelled. `wait_if_stale` is called from nowhere, although
the documentation describes it, so generation never pauses for the actor.

**AsyncSAC.** `RequestSync` is update_rollout_weights without waiting: two remote calls, `calls`,
that arrive in any order. `StartIfNeeded` is the rollout worker's test of
`_weight_sync_requested` and `_weight_sync_work`, met at each call and at each turn of
generation. The actor trains between the awaits of run_training, so `UpdateOneEpoch` may
come between two buckets. The actor's version stays 0: this runner never sets it.

**ReplayBuffer.** A slot holds a sequence of cells <<serial, k>>; a trajectory keeps its serial number
although ids are given out again by a resumed process. `PutInCache` widens the slots when a longer
trajectory comes. `saving` are the files that the executor has still to write; `Crash` loses all
but the files. `cacheSize` 0 is enable_cache = False.

**ReplayPrefetch.** The sampling thread's steps (ask for the window, draw, look into the cache, read slots,
read files, put the batch) beside `AddIndex` and `AddCache`, the two halves of add. Whether a slot is read
before or after it is overwritten is left open.

**CommMapper, EmbodiedLoop.** An observation is <<mode, stage, place in the stage's batch, number>>, an answer the
observation it was computed from and the version of the weights, so that mixing anything up shows.
`Bootstrap`, `ChunkStep` and `EndOfEpoch` are the parts of the env worker's loop between two receives,
`Answer` one turn of the rollout worker's. Each side counts its own loops: nothing in a message says which
turn it belongs to. Evaluation has as many environments as training; reward workers, expert
labels and the pipelined runner are left out.

**PipelineActor.** A micro-batch is its number. `collectives` lists, for each rank, the kinds of the
collective operations it has called; the n-th of one rank meets the n-th of the other,
and a rank leaves an operation when all have come to it.

**Manifest, Discovery, DiscoveryDriver.** A node is the set of the ids satisfied there.
A checkpoint is its *lineage*, the ids trained into it, which makes "trained on the
right thing" a property of the state. What Phase A may return is a constant set of
lists; the walk that is restarted gets another of them. A failing stage raises, so it
is a `Crash`; so is a kill. The nodes of a level are taken in any order (the code sorts
them). `collect` is one step with `add_edge`, as it leaves only a file named after the
edge. `DriverCrash` may lose the status file, which is written in place and read as
empty when it does not parse. Digests of eight hexadecimal digits in ids are taken as
distinct.

**LaunchAndWait.** Calls on one log path, one after the other; the detached shell
creates the exit-code file and fills it in two steps; the caller polls, reads, times out
or dies.

## 3. The runs

| Run | Asks | Instance and why it is enough | Distinct states |
|---|---|---|---|
| `channel_queue` | no get sleeps beside an item, no put beside room; bounded FIFO (refinement of `FifoChannel`); a sleeping get is served; a batch stops only for a reason | one key, read by get or by get and get_batch; two slots, five calls, four payloads of weights 1 and 2, targets 1 and 2: two full-queue waits beside a get that overtakes a woken one; batches that are exact, stop short, or begin with too heavy an item | 146,900 |
| `channel_lost_wakeup` (violation) | is a get beside an item served when get_batch reads the key too? | no: see findings | |
| `client_and_locks` | order of puts, own answers, every call returns; exclusion, no failure, one order of asking for all, nobody waits for ever | client: one producer with three puts, one consumer with two gets, one slot: the pipe, the chain and the waits overlap. Locks: four workers on up to three accelerators, two pairs overlapping in different ones: a cycle is possible if the order broke | 50,393 + 17,828 |
| `channel_put_nowait` (violation) | does put_nowait return? | no: see findings | |
| `discovery_and_groups` | the tree and the checkpoint over crashes and restarts; a finished edge is not trained again; a call returns its own job's code; transfers stay apart, shared memory waits for its reader, all transfers end | discovery: depth 2, four edges, three starts, two raw ids and two goals, a seed for the root and one for a node below it: collisions of ids, a goal under a new id, a node with no proposal, seeds or none; three calls on one log path, so that a late job meets both of the next. Group: two transfers of every kind, over both queues and one caller | 478,762 |
| `driver_untrained` (violation) | was everything that is persisted trained? | no: see findings | |
| `scheduler_step` | a global step under the four policy settings | three instances, three groups, four GPUs, three training iterations: migration out and in, a finish, two growths of the actor | 128,618 |
| `scheduler_overlap` (violation) | is a GPU the actor grows to always free? | no: see findings | |
| `async` | fresh batches, bounded reuse, labels that tell the weights, paired syncs; true samples, loadable checkpoints; own actions, whole batches; updates of one's own batch, agreeing collectives; training ends | PPO and SAC: two tensors in two buckets, three updates, two chunks per trajectory, a store of two, threshold 1: a trajectory may span two versions, be refused, evicted or used twice. Replay: three trajectories of one or two samples, window 2, cache 0 or 1, three starts, two checkpoints. Loop: five jobs with one to three workers on either side, one or two stages and epochs, resets, prefetched bootstraps, evaluations, a resumed one. Pipeline: two actors, accumulation 2, or two or three epochs | 664,113 |
| `async_sync_overlap` (violation) | does the receiver have what the sender's snapshot says? | no: see findings | |
| `replay_prefetch` (violation) | does the actor get its batch? | no: see findings | |
| `pipeline_mixed` (violation) | does an update apply its own batch? | no: see findings | |

The states of `async` are about 385,000 of PPO, 77,000 of SAC, 107,000 of the replay buffer, 86,000 of the
loop and 8,500 of the pipeline.

Bounds: `MaxStarts` (restarts), `MaxDepth` and `MaxTotalEdges` (parameters of the walk in
the code too), `MaxUpdates` (updates of the weights, which bounds versions), `MaxInFlight` (trajectories in
the channel and in the queue of the receiving thread), `WireCap` (sends under way before an await of a send returns),
`MaxMade` and `MaxSaves` (trajectories and checkpoints of the replay buffer), `MaxTransfers`,
the number of calls per client (`MaxPuts`, `MaxGets`) and of tasks. The
calls being limited, some systems stop; the configurations that switch the deadlock
check off say so, and the liveness properties say that the stop is not too early.

Fairness, and why: woken asyncio coroutines run (the event loop is a FIFO queue), Ray
runs a remote call that arrived, messages arrive (the collective group's thread sends
them in order), a poll that sleeps polls again, a generating engine ends a group, threads run. Fairness
is weak, with one exception, and no fairness is assumed on crashes, calls of users, time-outs or new work.
The exception is `Construct` of `AsyncPPO`, strongly fair: the actor leaves its drain when it
finds the queue empty, and taking a trajectory out takes no time beside the episode that makes
the next. For the locks it is the event loop, and for each worker that it goes on until it has
released; for the client, the collective group, the loop and the pipeline, whose steps are limited in number, fairness of all
steps together implies that of each. `Terminates` is claimed under the pre-process policy only.

Properties whose restriction matters: `NoIdleGetter` and `PlainGetterServed` are about keys
that get_batch does not read, because with it they fail (`channel_lost_wakeup`). `PutOrder`
holds with `MixKeys = FALSE` and `OwnAnswer` with `MixGets = FALSE`: set to TRUE, TLC
violates them (PutOrder with four puts). `ActorAloneWhenWaiting` is the half of
`ActorAlone` that the code keeps. `AssertionsHold` speaks of a failed rollout() only under
the pre-process policy: without it an instance whose rollout() has not begun when others
are migrated to it fails its assertion that nothing is left over. `WeightsMatchLabel` begins after
the first sync: a plain patch syncer never sends an update that precedes its first snapshot.
`SyncsPaired` holds when a send is over only once it has been received (`WireCap = 1`). With `WireCap = 2` and four updates
TLC violates it: the actor is a whole sync ahead, and two requests that the rollout worker coalesces meet two syncs.
`CheckpointLoads` is claimed without auto_save: with it the index may name a trajectory whose file
is still to be written. `ConfigsAssumption` of `EmbodiedLoop` names two things the code does not
assert: that a job is resumed at a multiple of weight_sync_interval, else its rollout workers
generate with their initial weights until the next one, and that `torch.chunk` gives as many parts as
were asked for. `UpdatesOwnBatch` and `CollectivesAgree` are claimed when gradients are accumulated or
global batches are trained again, but not both (`pipeline_mixed`).
`SingleCheckpoint` is claimed of the edges before the first that was not trained, which only the driver can
add (`driver_untrained`); the walk by itself adds none, which is proved.

## 4. What is proved

For every value of the constants, from the named assumptions of the modules only:

* `AsyncProofs!WeightsMatchLabelHolds` and `SyncsPairedHolds` (the latter for `WireCap = 1`, see section 3). Both rest on a
  balance that each step of the two coroutines keeps: what the sender has still to send, with what is on the wire, is what
  the receiver has still to receive (`SendRest`, `RecvRest`). `SyncInv`, which both algorithms share, says what each side
  of a patch syncer knows of the other: a receiver that has not sent its metadata has an empty wire before it, and none but
  the buckets of init_sync precede the snapshot. For PPO, `WireRight` says of every message on the wire that it is the
  one the receiver expects there, `SnapshotRight`, `LabelRight`, `BufferRight` and `ModelRight` what each side has at every point of a
  sync. For SAC, `OneRequest` says that each side is asked for one sync at a time, and `PatchOwed` that a receiver that is
  ready before the sender took its snapshot has a patch to wait for. `SyncAssumption` keeps `Unset` apart from weights.
* `AsyncProofs!BatchIsFreshHolds` and `ReuseBoundedHolds`, for any store and threshold. `StoreInv` types the trajectories by the
  newest version, keeps the store in ascending order of the oldest label (`Ascending`), and says that an entry is used once
  a round at most from the version of its oldest label on (`UsedOK`). `add` keeps the order whatever the mean decides among
  equals (`PlaceFacts`: the number of entries of no higher priority is a place between the older and the newer ones), so
  that the stale entries come first and `remove_below` is a cut (`RemoveFacts`); what it leaves at a version can have been used in
  `threshold` rounds before. The newest label is the version of a sync that is over: `LabelRight` of `PPOInv`.
* `ChannelProofs!TypeCorrect`: `Spec => []TypeOK`. The invariant is `TypeInv`, which adds
  `Carries` (a put holds exactly one payload): without it the step that stores a woken
  put's item is not typed.
* `ChannelProofs!FifoRefinement`: `Spec => ImplementsFifo`, the channel worker implements
  `FifoChannel`, whose state is a function of the worker's: the items are those of the queue, what
  was obtained is what the gets hold, what entered is what the puts have stored. A step that stores
  an item maps to `Enter`, one that takes an item to `Leave`, and a call that falls asleep or is
  refused, like a wake-up, to a stutter. The invariant `RefInv` adds to the types that the payloads of the
  puts differ (`Once`), so that none enters twice, and that a get that waits has obtained nothing
  yet (`Empty`).
* `ChannelProofs!NoIdleGetterHolds` and `NoIdlePutterHolds`: no lost wake-up, for any
  number of calls, keys and slots. `NoIdleGetter` alone is not inductive: one woken get may
  be all there is for two items. The invariant `WakeInv` counts: `Fed` says that a key has as
  many woken gets as it has items, or no get sleeps; `Room` says the same of free slots and
  puts; `Deques` that a deque holds each sleeping call once, and woken ones of its key;
  `PeekKeys` that only keys of `BatchKey` have get_batch calls. The steps change the two
  counts by one on both sides (`StoreKeeps`, `TakeKeeps`, `SleepKeeps`), and each action is
  one of these shapes.
* `ChannelProofs!BatchMaximalHolds`, an action property, from `TypeInv`: a step in which a call of `get_batch` ends its loop
  is `BatchBody` of that call (`SwitchBatched`; no other step makes a call `batched`), and stops at the number of items at
  which the loop does not go on. What the loop has added up then is the weight of the batch (`SumAppend`: that of a
  sequence with one item more, from the recursive function in `SumWeight`, by the least length at which two would differ).
* `ChannelProofs!OwnAnswerHolds`, under `~MixGets`: no client calls a get that blocks while it
  has gets outstanding. The pipe that brings the answers is shared by the gets of a client, and a blocking get takes
  whatever comes first. `AnswerInv` says that a client has as many recvs as open gets (`Counted`), that an open get
  that blocks is the only one (`Blocking`), and that each answer in the pipe belongs to another open get
  (`Sent`, `Distinct`); hence the first answer that a blocking get sees is its own. `Piped`, a second invariant, says that
  what is on its way to the channel worker was put by a call. `NoneAssumption` keeps `None` apart from calls and items.
* `ChannelProofs!PutOrderHolds`, under `~MixKeys`: no client puts to a key while it has puts to another key outstanding.
  A remote put takes whatever item comes first in the pipe of its client. `OrderInv` says that a chain has the puts of its
  key in the order of the calls, only the first of which may have begun, that a client has one chain at a time, and that the
  pipe holds the chain, or what is behind its first put once that has begun (`Chain`, `Piping`); a remote call that has not
  begun is the first of its chain (`Made`). So each put takes its own item (`TakesOwn`), and one that is in no chain any more
  has returned before all that are (`Returned`). Calls are numbered from 1 (`ClientAssumption`).
* `CollectiveGroupProofs!PairedHolds` and `SharedUntilCopiedHolds`, under `OneWay`: workers with uncertain devices send one
  way (`Duplex = FALSE`), as otherwise `Paired` is violated (section 2). A rank in a role is an end of the transfers of one
  source. `Queues` says that an end has one work under way at a time, in the order of the calls, be it run by the queue's
  thread or by the caller. `Lockstep` says that the two ends of a source have called the same broadcasts (`Even`), or one of
  them one more than the other (`Ahead`), across the border between two transfers too. As the wires of a source are used by its
  two ends only, the counts of calls agree on each wire, but for the one broadcast ahead (`Books`): so the next ticket of the
  other end is the one it has to meet, and what it finds there is the expected message (`Heard`). Once no broadcast is garbled,
  `SharedUntilCopied` is a fact about lockstep: a send that is through leaves its receiver at the last message at least, and
  the handles are never the last (`Whole`).
* `DeviceLocksProofs!TypeOKHolds`, `MutualExclusionHolds`, `NoFailureHolds`. Exclusion needs to
  know that a woken waiter finds its lock free, which in turn rests on the callbacks in the
  event loop: `LockInv` says that a worker has one callback per lock at most (`Uniq`), what
  each callback implies about its lock (`Calls`), that the owner of a lock is a worker that
  holds it or is still gathering (`Own`, `Pend`), that waiters wait once and for a lock of theirs
  (`Wait`), and that a woken lock is free and has a waiter (`Wake`).
* `DeviceLocksProofs!SameOrderHolds`. Where two workers stand for an accelerator is a matter of three places: who holds it, the
  waiters of its lock, and the acquire callbacks still in the event loop (`Before`). A worker gets behind all others on
  all its accelerators at once, when it calls and when its tasks are created (`OrderLast`); no other callback
  changes who is before whom (`Onward`, `OrderKept`).
* `DiscoveryProofs!SingleCheckpointHolds`, `AddsWhatItTrained`, `NoSubtaskTwiceHolds`, for the walk
  by itself. `TreeInv` ties the checkpoint in memory to the manifest (`Carried`: trained on all its edges
  in their order, and on the candidate once that is trained) and says that a candidate being
  trained or collected matches no edge (`Fresh`). A start establishes `Carried` from
  the manifest alone, so a crash at any step does no harm. That the driver does not keep
  `AddsWhatItTrained` is the finding `driver_untrained`.
* `DiscoveryProofs!NoDuplicateIdHolds`, `RootedHolds`, `GroundedHolds`, for the walk by itself, any proposals and any seeds
  that satisfy `SeedAssumption`: a seeded list holds what an earlier discovery of its node returned, and resets from nowhere or
  from the end states of that node's one edge, as in the driver's two seed files. `IdInv` says that the ids of the level's
  candidates, of the seeded nodes still to come and of the edges are all different and in `seen_ids`, but for the
  candidate just persisted; the loops that give ids are proved to give new ones from `_dedupe_id`'s promise, which rests on the
  pigeonhole principle (`FreeNumber`, `DedupeNew`, `FinalIdsNew`, `SeedIdsNew`). `GrowInv` takes it from there: an edge
  produces its precondition and its own id, and the precondition's ids are those of earlier edges (`EdgeTree`), so that a new
  id makes a node that nothing has; a recorded path is that of the edge that produces the node (`PathsInv`); and a
  walk that is at work has one path left to lose (`LossInv`).
* `DiscoveryProofs!DriverNoDuplicateId`, `DriverSingleCheckpoint`, `FinishedNotRetrainedHolds`, for the walk under the driver with its resumed edges.
  While the walk is at work the status names no seed with a checkpoint that is not in the tree (`StatusInv`); as long as every edge
  was trained, the status's checkpoint is the lineage of the edges or one id ahead of it (`StatusChain`), so that
  an edge resumed with a checkpoint of its own continues the lineage. The theorems assume that the driver's seed files are
  seeds and that an id is not empty (`SeedFileAssumption`).
* `DynamicSchedulerProofs!ExactlyOnceHolds`, `ResponsesMatchHolds`, `NoGroupForTheDeadHolds`, `CleanStepHolds`,
  `ActorAloneWhenWaitingHolds`, `AssertionsAlwaysHold`: all invariants of the run, for any sizes that satisfy
  `SchedulerAssumption`. None is inductive; the invariant has three layers. `Kept`: `Base` types the state and
  says that the instances that leave are the next in turn; `Requested` says for each instance in which phase of the
  protocol it is (`Unasked`, `ToTake`, `AtWork`, `Responded`, `Gone`), what its queues hold then, and whether rollout() may be
  parked, notified or gone; `GroupsKept` that a group has one place, that a group is sent only while rollout() handles it, and
  that one is given up only while the instance migrates out. The two need each other: rollout() leaves aborted groups behind only
  during a migration (`Requested` from `GroupsKept`), and a cleared status manager holds no group that is still to be handed over
  (`GroupsKept` from `Requested`). `Sized` keeps the books of GPUs: what the actor has and what is available is no more than
  its own GPUs, those of the instances below `offset` and, once released, inference's (`GpuInv`); the world size follows the
  scheduler's request (`ActorInv`); in the last turn, or the last before the wait, all instances leave (`LastLeave`).
  `Started` is about the pre-process policy: until the first migration an instance reports no more groups than its part of
  the batch, and none before rollout() has started, so that the totals make up the batch only when all have started.
* `DiscoveryProofs!ReturnsOwnCodeHolds`. As long as no call gave up (`Orderly`) one call is active
  at most (`Alone`) and a job is on its way only while its call waits, so that the file is what
  that job has made of it since the call removed it (`Own`). The exit codes are assumed to
  differ from the marks for a file that is absent or empty (`LaunchAssumption`).
* `TrainingDataProofs!UpdatesOwnBatchHolds` and `CollectivesAgreeHolds`, under `OneOfBoth`: gradients are accumulated over several
  micro-batches, or global batches are trained several times, but not both. The gradients are those of the
  current global batch whenever no other is trained again (`Grads`); only global batches of one micro-batch
  are ever trained again (`Again`, `Singles`), at a time when there is no current one. Without
  `OneOfBoth` the first is false: `pipeline_mixed`. For the second, `Kinds` says that the n-th collective operation of an actor
  reduces gradients if n is a multiple of `accumulation`, and that since the last such one the actor has trained what its current
  global batch holds: training one again keeps this count, as it then consists of one micro-batch.
* `TrainingDataProofs!SamplesAreTrueHolds` and `CheckpointLoadsHolds`, on the replay buffer. The cache holds the newest
  trajectories in slots taken in turn, so a trajectory's slot follows from how many were put since (`InTurn`), `put`
  evicts exactly the one that leaves the newest `cacheSize` (`PutHolds`), and when slots grow, what they show is moved
  along (`Grown`: the quotient and the remainder of a cell's address by the new length give its slot and place). A
  trajectory out of the cache is read from its file: no directory is used by two starts or two checkpoints (`DirsInv`), so
  an id given out again after a resume names another file (`FilesInv`), and a checkpoint's files are those of entries
  of its list (`SavedInv`), which is what refills the cache (`RefilledHolds`). Nothing is assumed but the types of the
  constants.

* `EmbodiedLoopProofs!OwnActionsHolds`, for any job that `ConfigsAssumption` and the code's assertions admit. The maps of
  the ranks agree: what a source's map names for a destination is what the destination's map names for the source, in one
  order and of one size (`MapsAgree`; both are shown to be the cells between the borders of the two even cuts). The invariant
  `LoopInv` is about each env worker alone: the shards in the queues of each of its rollout workers, answers first, then
  observations still to be answered, are those of the observations it waits for, stage by stage, from the stage it takes next
  on (`Fed`, `PendOf`). How many it waits for follows from where it is in its loops (`AwaitedOf`, `FirstOf`), which is where the
  two sides count the same: a bootstrap, prefetched or not, asks for all stages, the end of an epoch lets the number go down
  to none, and an evaluation keeps it up to the last observation it sends (`SendsEval`). Cutting and merging are inverses
  (`CutIs`, `MergeIs`), so that a shard that is answered stays the shard of its question (`ReplyIs`).

* `EmbodiedLoopProofs!WholeBatchHolds`, for the same jobs. It takes `LoopInv` and a second invariant, `WholeInv`, which is about
  all workers at once. The runner has called what its place in the loop says (`CalledBy`) and synced at the last multiple of the
  interval (`Synced`). The channels carry no step numbers, so both sides are made to count: the answers in a queue are
  those that the rollout worker has given and the env worker has not taken, and the n-th has the version that belongs to n
  (`Answered`, `VersionAt`), as the two nests of loops have the same length (`TookLast`). So what a worker has
  recorded of a stage follows from where it is (`Keeps`, `Upto`), and at the end of its loops is whole (`WholeAtEnd`). The
  trajectories in the queue and with the actors are parts of what workers recorded that have finished, and no two of them
  share an environment of a stage (`Delivered`). What an actor has and what it still waits for is its share; at
  the training all shares are full, and as many different places as there are environments are all of them (`Covers`), so every
  worker has finished and the queue is empty (`AllSent`). That the shares and the pieces match is arithmetic on one least common
  multiple (`SplitNumIs`, `PartsFacts`); it needs `ConfigsAssumption`: pieces of one size, a resumption at a step of
  `weight_sync_interval`.

Only model-checked: liveness (fairness and ENABLED are out of the prover's reach);
`NoSubtaskTwice`, `Rooted` and `Grounded` under the driver, where they rest on which seed
has which id in the files; and `ReplayPrefetch`.

## 5. Where the code does not do what it says

1. `channel_lost_wakeup`: `get_batch` waits in `peek()` among the getters. When a put wakes it and
   it leaves the item because it is too heavy, it wakes nobody else: a get that sleeps on
   the key goes on sleeping beside the item (`channel_worker.py:472`).
2. `channel_put_nowait`: inside a worker, a `put_nowait` on a full queue never returns; the
   exception of the remote call is raised in the callback that should set the future
   (`async_work.py:302`), and all later puts of the key wait behind it.
3. `driver_untrained`: the status pairs the edge in training with the checkpoint of the edge
   before; a driver restarted then persists an edge that was never trained
   (`driver.py:153`). If the edge before was itself lost in a crash and is in no seed file, the checkpoint that is
   persisted was trained on a subtask that the tree does not have.
4. `scheduler_overlap`: without use_wait_before_last_iter_policy, inference's GPUs are released
   while a rollout instance beside them still holds its own; the actor grows onto those of
   the instance (`manager.py:762`).
5. `async_sync_overlap`: with sync_weight_no_wait and init_sync, the actor trains between the buckets of the
   first sync and the snapshot; what changed in between is in the snapshot and was never sent
   (`patch_syncer.py:743`). The documentation says init_sync aligns both sides. The repository's
   asynchronous PPO examples use this syncer, but wait for each sync.
6. `replay_prefetch`: the sampling thread may draw a trajectory that is in the index and not yet, or no longer, in
   the cache; the exception ends the thread, nobody learns of it, and the actor waits for
   ever (`embodied_buffer_dataset.py:204`).
7. `pipeline_mixed`: with gradient accumulation and several epochs, an actor that waits for the rest of
   a new global batch trains an old one meanwhile, and its optimizer step applies the gradients of both
   (`fsdp_actor_worker_pipeline.py:134`).

Met while modelling, without a run of their own: two workers with partly common devices that send to each
other at once (`Duplex`, section 2); `recv_tensor` between such workers of a tensor on
the receiver's device raises a TypeError, and is left out; a work that raises ends the thread of
its queue, so that all later ones wait. `config.py` asserts `total % workers % stages == 0`, which after the
assertion before it says nothing: six environments for two workers and two stages pass it and
fail the assertion of `CommMapper`, five for one worker and two stages pass everything and one is never simulated.

## 6. Plan

Done: channel worker and client, device locks, collective groups, dynamic scheduler, weight syncers,
asynchronous PPO and SAC, replay buffer and its prefetching, the synchronous embodied loop, pipelined
actors, discovery by level, driver, detached jobs; proofs on the parts that section 4 names.

Left, in this order:

1. `generate_and_send` and groups of several sequences in `DynamicScheduler`, with the vLLM worker's migration.
2. The pipelined embodied runner (`run_pipeline`) between `EmbodiedLoop` and `PipelineActor`.
3. The depth-first `discover_and_train`, `train_sequence` and `discover_tree` over `Manifest`.
4. `PortLocks` with the daemon, `ensure_key_replica`, works that raise in `CollectiveGroup`.
5. Torn reads of slots in `ReplayPrefetch`; several actor ranks and a demo buffer.

Theorems worth proving next: the tree of discovery under its driver; the order of reads and writes of `ReplayPrefetch`.

## 7. Not modelled, and why

* Ray, NCCL, Gloo, torch: external; what the code relies on is said above (remote calls run in
  any order, send and recv between two workers are FIFO).
* Cluster start-up, node and hardware discovery, placement: configuration and arithmetic;
  the results are constants of `DynamicScheduler`.
* Registries of workers, nodes and collective groups: written once at start-up. Construction of process
  groups: its result is what `CollectiveGroup` starts from.
* Port locks: a table under a mutex with a daemon that is rarely of consequence; in the plan.
* Runners other than the embodied ones: sequential loops; the order of calls that matters (schedule
  before rollout) is in `DynamicScheduler`.
* Rollout engines, reward, critic and SFT workers, environments, models, algorithms, FSDP and
  Megatron, datasets, tokenizers: numerical or external. Most of the repository's lines are of this kind.
* Starting states, Phase B and the VLM client: their results are non-deterministic inputs of
  `Discovery`.
* `LocalChannel` and the channel's path outside a worker: one thread, or one Ray call.
* RoboLab, PolaRiS-Hub, toolkits, examples, docs, docker: vendored code, assets, scripts.
