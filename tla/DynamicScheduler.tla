-------------------------- MODULE DynamicScheduler --------------------------
(***************************************************************************)
(* The dynamic scheduler of rlinf/scheduler/dynamic_scheduler over one     *)
(* global step of training.                                                *)
(*                                                                         *)
(* The scheduler moves GPUs from rollout and inference to the actor while  *)
(* the step goes on.  It asks the rollout instances for reports, migrates  *)
(* the sequence groups of some instances to others, finishes instances,    *)
(* and tells the actor to grow.  Each rollout instance is one asyncio loop *)
(* with two coroutines over one RunningStatusManager: rollout(), which     *)
(* generates and sends results, and RolloutScalingScheduler.main_loop(),   *)
(* which serves the scheduler's requests; exit_rollout_iter keeps          *)
(* rollout() from returning while groups may still be migrated in.         *)
(*                                                                         *)
(* A group is generated as a whole (group_size 1).  The few groups stand   *)
(* for the many of a batch, so IterGroups, which decides the valid sizes   *)
(* of the actor, is a constant of its own.                                 *)
(***************************************************************************)
EXTENDS Integers, Sequences, FiniteSets, FiniteSetsExt

CONSTANTS
    Policies,        \* the settings [pre, wait] of the two optional policies
    NumGroups,       \* the groups are 1 .. NumGroups
    ActorGpus,       \* the GPUs of each component, in this order
    RolloutGpus,
    InferenceGpus,
    ActorMP,         \* GPUs per instance (model_parallel_size)
    RolloutMP,
    IterGroups,      \* rollout_batch_size / n_minibatches
    NumIters,        \* n_minibatches
    MaxRunning,      \* max_running_requests
    Threshold        \* running_tasks_threshold of the pre-process policy

Group == 1 .. NumGroups
TotalGpus == ActorGpus + RolloutGpus + InferenceGpus

\* get_valid_dp_sizes
ValidDp == {d \in 1 .. TotalGpus \div ActorMP : IterGroups % d = 0}

ASSUME SchedulerAssumption ==
    /\ Policies \subseteq [pre : BOOLEAN, wait : BOOLEAN]
    /\ NumGroups \in Nat /\ NumIters \in Nat \ {0, 1} /\ MaxRunning \in Nat \ {0} /\ IterGroups \in Nat \ {0}
    /\ Threshold \in 1 .. NumGroups - 1
    /\ ActorMP \in Nat \ {0} /\ RolloutMP \in Nat \ {0}
    /\ ActorGpus \in Nat \ {0} /\ RolloutGpus \in Nat \ {0} /\ InferenceGpus \in Nat \ {0}
    /\ ActorGpus % ActorMP = 0 /\ ActorGpus \div ActorMP \in ValidDp
    /\ ActorGpus % RolloutMP = 0 /\ RolloutGpus % RolloutMP = 0
    \* Each instance is given a part of the batch.
    /\ NumGroups >= (ActorGpus + RolloutGpus) \div RolloutMP
    \* init_trainer_resharding: the last valid size takes all GPUs.
    /\ TotalGpus % ActorMP = 0 /\ TotalGpus \div ActorMP \in ValidDp

VARIABLES
    policy,          \* the policies of this run
    \* The scheduler: SchedulerWorker and its component managers.
    stage,           \* "pre" in pre_process, "main" in main_loop
    spc,             \* what the scheduler waits for or does next
    iter,            \* train_iter
    offset,          \* RolloutManager.current_instance_offset
    report,          \* RolloutManager.reports, the running tasks of each instance
    leaving,         \* the instances being migrated out or finished
    avail,           \* available_gpu_num
    actorDp,         \* ActorManager.current_instance_num
    inferenceUp,     \* InferenceManager.current_instance_num > 0
    \* The channels between the scheduler and the instances.
    req, resp,
    \* The rollout instances.
    rpc,             \* where rollout() is
    lpc,             \* where main_loop() is
    running,         \* _running_seq_group
    aborted,         \* _aborted_seq_group
    done,            \* _done_seq_group
    watched,         \* the groups whose tasks were given to asyncio.wait
    returned,        \* what it returned and is not handled yet
    event,           \* exit_rollout_iter is set
    \* The groups.
    task,            \* "generating", "completed", "aborted", or "sending" its result
    sent,            \* how often its result was put on the output channel
    \* The rest of the step.
    inference,       \* "running", or "offloaded" once it has told the scheduler
    apc,             \* where the actor is
    aiter,           \* its training step
    world,           \* its world size
    areq             \* the scheduler's requests to it; 0 stands for None

sched == <<stage, spc, iter, offset, report, leaving, avail, actorDp, inferenceUp>>
status == <<running, aborted, done, watched, returned, event>>
actor == <<apc, aiter, world, areq>>
vars == <<policy, sched, req, resp, rpc, lpc, status, task, sent, inference, actor>>

\* init_instance_num: under the pre-process policy rollout takes the actor's GPUs too.
NumInstances == ((IF policy.pre THEN ActorGpus ELSE 0) + RolloutGpus) \div RolloutMP
Instance == 0 .. NumInstances - 1

\* _get_running_instances
Alive == offset .. NumInstances - 1

LastIter == NumIters - 1

Info(action, data, total, active) ==
    [action |-> action, data |-> data, total |-> total, running |-> active]

Init ==
    /\ policy \in Policies
    /\ stage = "pre" /\ spc = "begin" /\ iter = 0 /\ offset = 0 /\ leaving = {}
    /\ report = [i \in Instance |-> 0]
    /\ avail = 0 /\ actorDp = ActorGpus \div ActorMP /\ inferenceUp = TRUE
    /\ req = [i \in Instance |-> <<>>] /\ resp = [i \in Instance |-> <<>>]
    /\ rpc = [i \in Instance |-> "idle"] /\ lpc = [i \in Instance |-> "idle"]
    /\ running = [i \in Instance |-> {}] /\ aborted = running /\ done = running
    /\ watched = running /\ returned = running
    /\ event = [i \in Instance |-> FALSE]
    /\ task = [g \in Group |-> "generating"] /\ sent = [g \in Group |-> 0]
    /\ inference = "running"
    /\ apc = (IF policy.pre THEN "pre" ELSE "training")
    /\ aiter = 0 /\ world = ActorGpus /\ areq = <<>>

-----------------------------------------------------------------------------
\* The scheduler

\* _scatter_requests; data is what Migrate_In carries to each instance.
Scatter(action, ids, data) ==
    req' = [i \in Instance |-> IF i \in ids THEN Append(req[i], Info(action, data[i], 0, 0))
                                              ELSE req[i]]
NoData == [i \in Instance |-> {}]

\* _gather_responses: one response of each instance of ids
Gathered(ids) == \A i \in ids : resp[i] # <<>>
Gather(ids) == resp' = [i \in Instance |-> IF i \in ids THEN Tail(resp[i]) ELSE resp[i]]

SumOver(ids, value) == SumFunctionOnSet(value, ids)

\* The totals of a report that was just gathered.
TotalTasks == SumOver(Alive, [i \in Alive |-> Head(resp[i]).total])
RunningTasks == SumOver(Alive, [i \in Alive |-> Head(resp[i]).running])

CeilDiv(a, b) == (a + b - 1) \div b

\* try_allocate: the GPUs by which the actor can grow when so many are available
Growth(gpus) ==
    Max({0} \cup {n \in {(d - actorDp) * ActorMP : d \in {e \in ValidDp : e > actorDp}} :
                   n <= gpus})

\* Mutant: the instances that the running tasks need are rounded down.
ReleaseNeededFloorMutant(tasks) ==
    LET most == Cardinality(Alive) - tasks \div MaxRunning
    IN IF Cardinality(Alive) <= 1 \/ most <= 0 THEN 0
       ELSE CeilDiv(Growth(most * RolloutMP), RolloutMP)

\* migrate_policy and find_release_instance_num_needed
ReleaseNeeded(tasks) ==
    LET most == Cardinality(Alive) - CeilDiv(tasks, MaxRunning)
    IN IF Cardinality(Alive) <= 1 \/ most <= 0 THEN 0
       ELSE CeilDiv(Growth(most * RolloutMP), RolloutMP)

\* pre_process: under the policy the reports begin, else all managers are just reset.
Begin ==
    /\ spc = "begin"
    /\ IF policy.pre
       THEN /\ Scatter("Report", Alive, NoData)
            /\ spc' = "reports"
            /\ UNCHANGED stage
       ELSE /\ stage' = "main"
            /\ spc' = "wait_actor"
            /\ UNCHANGED req
    /\ UNCHANGED <<policy, iter, offset, report, leaving, avail, actorDp, inferenceUp, resp, rpc,
                   lpc, status, task, sent, inference, actor>>

\* migrate: the first n of the running instances are to hand over their groups.
MigrateOut(n) ==
    /\ leaving' = offset .. offset + n - 1
    /\ Scatter("Migrate_Out", offset .. offset + n - 1, NoData)
    /\ spc' = "migrated"

\* finish of all running instances
FinishAll(action) ==
    /\ leaving' = Alive
    /\ Scatter(action, Alive, NoData)
    /\ spc' = "offloaded"

\* The responses to a report are in.
TakeReports ==
    /\ spc = "reports"
    /\ Gathered(Alive)
    /\ Gather(Alive)
    /\ report' = [i \in Instance |-> IF i \in Alive THEN Head(resp[i]).running ELSE 0]
    /\ UNCHANGED <<policy, stage, iter, offset, avail, actorDp, inferenceUp, rpc, lpc, status, task,
                   sent, inference, actor>>

\* The loop of pre_process_impl.
PreReports ==
    /\ stage = "pre"
    /\ TakeReports
    /\ IF TotalTasks = NumGroups /\ RunningTasks <= Threshold
       THEN MigrateOut(ActorGpus \div RolloutMP)
       ELSE Scatter("Report", Alive, NoData) /\ UNCHANGED <<leaving, spc>>

\* release_resource of RolloutManager, after its report
MainReports ==
    /\ stage = "main"
    /\ TakeReports
    /\ IF RunningTasks = 0 THEN FinishAll("Finish")
       ELSE IF policy.wait /\ iter = NumIters - 2 THEN FinishAll("Wait_For_Finish")
       ELSE IF ReleaseNeeded(RunningTasks) = 0
            THEN spc' = "inference" /\ UNCHANGED <<req, leaving>>
       ELSE MigrateOut(ReleaseNeeded(RunningTasks))

\* The actor is ready to update after train_iter: rollout's turn.
ActorReady ==
    /\ spc = "wait_actor"
    /\ apc = "ready"
    /\ apc' = "scaling"
    /\ IF Alive = {} THEN spc' = "inference" /\ UNCHANGED <<req, leaving>>
       ELSE IF iter = LastIter THEN FinishAll("Finish")
       ELSE spc' = "reports" /\ Scatter("Report", Alive, NoData) /\ UNCHANGED leaving
    /\ UNCHANGED <<policy, stage, iter, offset, report, avail, actorDp, inferenceUp, resp, rpc, lpc,
                   status, task, sent, inference, aiter, world, areq>>

\* _assign_sequences_sequential: so many groups go to each of the staying instances.
Share(staying, batches) ==
    LET expected == SumOver(Alive, report) \div Cardinality(staying)
        lack == [i \in staying |-> Max({0, expected - report[i]})]
        left(i) == Max({0, Cardinality(batches)
                           - SumOver({j \in staying : j < i}, lack)})
    IN [i \in staying |-> IF i = NumInstances - 1 THEN left(i) ELSE Min({lack[i], left(i)})]

\* The groups are in: migrate_in, then Finish for the instances that gave them up.
\* Which of the groups goes where is left open, their order in the responses being of no account.
Migrated ==
    /\ spc = "migrated"
    /\ Gathered(leaving)
    /\ LET batches == UNION {Head(resp[i]).data : i \in leaving}
           staying == Alive \ leaving
       IN \E to \in [batches -> staying] :
            LET given == [i \in Instance |-> {g \in batches : to[g] = i}]
            IN /\ \A i \in staying : Cardinality(given[i]) = Share(staying, batches)[i]
               /\ req' = [i \in Instance |->
                     IF i \in leaving THEN Append(req[i], Info("Finish", {}, 0, 0))
                     ELSE IF given[i] # {} THEN Append(req[i], Info("Migrate_In", given[i], 0, 0))
                     ELSE req[i]]
    /\ Gather(leaving)
    /\ spc' = "offloaded"
    /\ UNCHANGED <<policy, stage, iter, offset, report, leaving, avail, actorDp, inferenceUp, rpc, lpc,
                   status, task, sent, inference, actor>>

\* The end of finish.  After pre_process_impl of rollout follow those of the other managers;
\* the actor's sends the signal it waits for.
Offloaded ==
    /\ spc = "offloaded"
    /\ Gathered(leaving)
    /\ Gather(leaving)
    /\ offset' = offset + Cardinality(leaving)
    /\ leaving' = {}
    /\ stage' = "main"
    /\ IF stage = "pre"
       THEN /\ spc' = "wait_actor"
            /\ areq' = Append(areq, 0)
            /\ UNCHANGED avail
       ELSE /\ spc' = "inference"
            /\ avail' = IF iter = LastIter THEN avail ELSE avail + Cardinality(leaving) * RolloutMP
            /\ UNCHANGED areq
    /\ UNCHANGED <<policy, iter, report, actorDp, inferenceUp, req, rpc, lpc, status, task, sent,
                   inference, apc, aiter, world>>

\* Does InferenceManager wait for inference to finish in this turn?
MustWait == iter = LastIter \/ (inferenceUp /\ policy.wait /\ (iter = NumIters - 2 \/ Alive = {}))

\* Mutant: inference that is done is released whatever rollout still holds.
InferenceTurnEagerMutant ==
    /\ spc = "inference"
    /\ MustWait => inference = "offloaded"
    /\ LET release == iter # LastIter /\ inferenceUp /\ inference = "offloaded"
       IN /\ inferenceUp' = (inferenceUp /\ ~release)
          /\ avail' = avail + (IF release THEN InferenceGpus ELSE 0)
    /\ spc' = "actor"
    /\ UNCHANGED <<policy, stage, iter, offset, report, leaving, actorDp, req, resp, rpc, lpc, status,
                   task, sent, inference, actor>>

\* InferenceManager's turn: main_loop_finalize or release_resource
InferenceTurn ==
    /\ spc = "inference"
    /\ MustWait => inference = "offloaded"
    /\ LET release == /\ iter # LastIter
                      /\ inferenceUp
                      /\ IF policy.wait THEN MustWait ELSE inference = "offloaded"
       IN /\ inferenceUp' = (inferenceUp /\ ~release)
          /\ avail' = avail + (IF release THEN InferenceGpus ELSE 0)
    /\ spc' = "actor"
    /\ UNCHANGED <<policy, stage, iter, offset, report, leaving, actorDp, req, resp, rpc, lpc, status,
                   task, sent, inference, actor>>

\* ActorManager's turn: main_loop_finalize or allocate_resource, and scale
ActorTurn ==
    /\ spc = "actor"
    /\ LET new == IF iter = LastIter THEN ActorGpus ELSE actorDp * ActorMP + Growth(avail)
       IN /\ areq' = Append(areq, IF new = actorDp * ActorMP THEN 0 ELSE new)
          /\ actorDp' = new \div ActorMP
          /\ avail' = IF iter = LastIter THEN avail ELSE avail - Growth(avail)
    /\ IF iter = LastIter THEN spc' = "stopped" /\ UNCHANGED iter
                           ELSE spc' = "wait_actor" /\ iter' = iter + 1
    /\ UNCHANGED <<policy, stage, offset, report, leaving, inferenceUp, req, resp, rpc, lpc, status,
                   task, sent, inference, apc, aiter, world>>

Scheduler == \/ Begin \/ PreReports \/ MainReports \/ ActorReady \/ Migrated \/ Offloaded
             \/ InferenceTurn \/ ActorTurn

-----------------------------------------------------------------------------
\* rollout() of a rollout instance

\* The part of the batch that the instance takes from the input channel.
Batch(i) == {g \in Group : (g - 1) % NumInstances = i}

\* It asserts that the status manager has no group before it adds its own.
StartRollout(i) ==
    /\ rpc[i] = "idle"
    /\ IF running[i] \cup done[i] \cup aborted[i] = {}
       THEN /\ running' = [running EXCEPT ![i] = Batch(i)]
            /\ watched' = [watched EXCEPT ![i] = Batch(i)]
            /\ rpc' = [rpc EXCEPT ![i] = "waiting"]
       ELSE /\ rpc' = [rpc EXCEPT ![i] = "failed"]
            /\ UNCHANGED <<running, watched>>
    /\ UNCHANGED <<policy, sched, req, resp, lpc, aborted, done, returned, event, task, sent, inference,
                   actor>>

\* The engine completes a group, or gives it up once abort_generation was called.
Generate(g) ==
    \E i \in Instance :
        /\ g \in running[i] /\ task[g] = "generating"
        /\ \E outcome \in {"completed"} \cup (IF lpc[i] = "migrate_out" THEN {"aborted"} ELSE {}) :
              task' = [task EXCEPT ![g] = outcome]
    /\ UNCHANGED <<policy, sched, req, resp, rpc, lpc, status, sent, inference, actor>>

\* asyncio.wait returns the tasks that are done when rollout() resumes.
Collect(i) ==
    LET ready == {g \in watched[i] : task[g] # "generating"}
    IN /\ rpc[i] = "waiting"
       /\ ready # {}
       /\ rpc' = [rpc EXCEPT ![i] = "handling"]
       /\ returned' = [returned EXCEPT ![i] = ready]
       /\ UNCHANGED <<policy, sched, req, resp, lpc, running, aborted, done, watched, event, task, sent,
                      inference, actor>>

\* Mutant: rollout() leaves its loop as soon as no group runs, and waits for no notification.
AfterGroupLeaveMutant(i, g) ==
    LET rest == running[i] \ {g}
    IN /\ running' = [running EXCEPT ![i] = rest]
       /\ returned' = [returned EXCEPT ![i] = @ \ {g}]
       /\ IF returned[i] # {g} THEN UNCHANGED <<rpc, watched>>
          ELSE /\ rpc' = [rpc EXCEPT ![i] = IF rest = {} THEN "offloading" ELSE "waiting"]
               /\ watched' = [watched EXCEPT ![i] = rest]

\* The loop condition, after the last of the returned groups g left the running ones.
AfterGroup(i, g) ==
    LET rest == running[i] \ {g}
    IN /\ running' = [running EXCEPT ![i] = rest]
       /\ returned' = [returned EXCEPT ![i] = @ \ {g}]
       /\ IF returned[i] # {g} THEN UNCHANGED <<rpc, watched>>
          ELSE /\ rpc' = [rpc EXCEPT ![i] = IF rest = {} THEN "parked" ELSE "waiting"]
               /\ watched' = [watched EXCEPT ![i] = rest]

\* A result is put on the output channel; the group is still running while the put is awaited.
SendResult(i, g) ==
    /\ rpc[i] = "handling" /\ g \in returned[i] /\ task[g] = "completed"
    /\ \A h \in returned[i] : task[h] # "sending"
    /\ task' = [task EXCEPT ![g] = "sending"]
    /\ sent' = [sent EXCEPT ![g] = @ + 1]
    /\ UNCHANGED <<policy, sched, req, resp, rpc, lpc, status, inference, actor>>

MarkDone(i, g) ==
    /\ rpc[i] = "handling" /\ g \in returned[i] /\ task[g] = "sending"
    /\ done' = [done EXCEPT ![i] = @ \cup {g}]
    /\ AfterGroup(i, g)
    /\ UNCHANGED <<policy, sched, req, resp, lpc, aborted, event, task, sent, inference, actor>>

MarkAborted(i, g) ==
    /\ rpc[i] = "handling" /\ g \in returned[i] /\ task[g] = "aborted"
    /\ \A h \in returned[i] : task[h] # "sending"
    /\ aborted' = [aborted EXCEPT ![i] = @ \cup {g}]
    /\ AfterGroup(i, g)
    /\ UNCHANGED <<policy, sched, req, resp, lpc, done, event, task, sent, inference, actor>>

\* Mutant: the status manager is not cleared at the end.
WakeNoClearMutant(i) ==
    /\ rpc[i] = "parked" /\ event[i]
    /\ event' = [event EXCEPT ![i] = FALSE]
    /\ IF running[i] # {}
       THEN /\ rpc' = [rpc EXCEPT ![i] = "waiting"]
            /\ watched' = [watched EXCEPT ![i] = running[i]]
       ELSE /\ rpc' = [rpc EXCEPT ![i] = "offloading"]
            /\ UNCHANGED watched
    /\ UNCHANGED <<policy, sched, req, resp, lpc, running, aborted, done, returned, task, sent,
                   inference, actor>>

\* wait_notification returns: groups were migrated in, or the iteration is over.
Wake(i) ==
    /\ rpc[i] = "parked" /\ event[i]
    /\ event' = [event EXCEPT ![i] = FALSE]
    /\ IF running[i] # {}
       THEN /\ rpc' = [rpc EXCEPT ![i] = "waiting"]
            /\ watched' = [watched EXCEPT ![i] = running[i]]
            /\ UNCHANGED <<aborted, done>>
       ELSE /\ rpc' = [rpc EXCEPT ![i] = "offloading"]
            /\ aborted' = [aborted EXCEPT ![i] = {}]
            /\ done' = [done EXCEPT ![i] = {}]
            /\ UNCHANGED watched
    /\ UNCHANGED <<policy, sched, req, resp, lpc, running, returned, task, sent, inference, actor>>

Respond(i, info) == resp' = [resp EXCEPT ![i] = Append(@, info)]

\* offload_engine and report_offloaded
Offload(i) ==
    /\ rpc[i] = "offloading"
    /\ rpc' = [rpc EXCEPT ![i] = "finished"]
    /\ Respond(i, Info("Offloaded", {}, 0, 0))
    /\ UNCHANGED <<policy, sched, req, lpc, status, task, sent, inference, actor>>

Rollout(i) ==
    \/ StartRollout(i) \/ Collect(i) \/ Wake(i) \/ Offload(i)
    \/ \E g \in Group : SendResult(i, g) \/ MarkDone(i, g) \/ MarkAborted(i, g)

-----------------------------------------------------------------------------
\* RolloutScalingScheduler.main_loop of a rollout instance

Take(i, action) ==
    /\ lpc[i] = "idle" /\ req[i] # <<>>
    /\ Head(req[i]).action = action
    /\ req' = [req EXCEPT ![i] = Tail(@)]

\* Mutant: the groups that are done are not counted.
HandleReportRunningMutant(i) ==
    /\ Take(i, "Report")
    /\ Respond(i, Info("Report", {}, Cardinality(running[i]),
                       Cardinality({g \in running[i] : task[g] = "generating"})))
    /\ UNCHANGED <<policy, sched, rpc, lpc, status, task, sent, inference, actor>>

HandleReport(i) ==
    /\ Take(i, "Report")
    /\ Respond(i, Info("Report", {}, Cardinality(running[i] \cup done[i]),
                       Cardinality({g \in running[i] : task[g] = "generating"})))
    /\ UNCHANGED <<policy, sched, rpc, lpc, status, task, sent, inference, actor>>

\* A parked rollout() is woken; one that runs finds the new groups by itself.
HandleMigrateIn(i) ==
    /\ Take(i, "Migrate_In")
    /\ event' = [event EXCEPT ![i] = @ \/ running[i] = {}]
    /\ running' = [running EXCEPT ![i] = @ \cup Head(req[i]).data]
    /\ task' = [g \in Group |-> IF g \in Head(req[i]).data THEN "generating" ELSE task[g]]
    /\ UNCHANGED <<policy, sched, resp, rpc, lpc, aborted, done, watched, returned, sent, inference,
                   actor>>

\* The other requests wait until no group runs.
HandleDrain(i) ==
    /\ \/ Take(i, "Migrate_Out") /\ lpc' = [lpc EXCEPT ![i] = "migrate_out"]
       \/ Take(i, "Finish") /\ lpc' = [lpc EXCEPT ![i] = "finish"]
       \/ Take(i, "Wait_For_Finish") /\ lpc' = [lpc EXCEPT ![i] = "finish"]
    /\ UNCHANGED <<policy, sched, resp, rpc, status, task, sent, inference, actor>>

\* Mutant: the aborted groups are handed over while some are still running.
DrainedAtOnceMutant(i) ==
    /\ lpc[i] # "idle" /\ (lpc[i] = "finish" => running[i] = {})
    /\ lpc' = [lpc EXCEPT ![i] = "idle"]
    /\ IF lpc[i] = "migrate_out"
       THEN Respond(i, Info("Migrate_Out", aborted[i], 0, 0)) /\ UNCHANGED event
       ELSE event' = [event EXCEPT ![i] = TRUE] /\ UNCHANGED resp
    /\ UNCHANGED <<policy, sched, req, rpc, running, aborted, done, watched, returned, task, sent,
                   inference, actor>>

Drained(i) ==
    /\ lpc[i] # "idle" /\ running[i] = {}
    /\ lpc' = [lpc EXCEPT ![i] = "idle"]
    /\ IF lpc[i] = "migrate_out"
       THEN Respond(i, Info("Migrate_Out", aborted[i], 0, 0)) /\ UNCHANGED event
       ELSE event' = [event EXCEPT ![i] = TRUE] /\ UNCHANGED resp
    /\ UNCHANGED <<policy, sched, req, rpc, running, aborted, done, watched, returned, task, sent,
                   inference, actor>>

MainLoop(i) == HandleReport(i) \/ HandleMigrateIn(i) \/ HandleDrain(i) \/ Drained(i)

-----------------------------------------------------------------------------
\* Inference and the actor

Results == SumOver(Group, sent)

\* run_inference is through with the batch: scheduler_offload_sync.
FinishInference ==
    /\ inference = "running"
    /\ Results >= NumGroups
    /\ inference' = "offloaded"
    /\ UNCHANGED <<policy, sched, req, resp, rpc, lpc, status, task, sent, actor>>

\* scheduler_pre_process
BeginTraining ==
    /\ apc = "pre" /\ areq # <<>>
    /\ areq' = Tail(areq)
    /\ apc' = "training"
    /\ UNCHANGED <<policy, sched, req, resp, rpc, lpc, status, task, sent, inference, aiter, world>>

\* training_step on the next part of the batch, and the first half of scheduler_scale_sync
Train ==
    /\ apc = "training"
    /\ Results * NumIters >= (aiter + 1) * NumGroups
    /\ apc' = "ready"
    /\ UNCHANGED <<policy, sched, req, resp, rpc, lpc, status, task, sent, inference, aiter, world, areq>>

\* The second half: the actor applies the new world size.
Scale ==
    /\ apc = "scaling" /\ areq # <<>>
    /\ areq' = Tail(areq)
    /\ world' = IF Head(areq) = 0 THEN world ELSE Head(areq)
    /\ IF aiter = LastIter THEN apc' = "done" /\ UNCHANGED aiter
                            ELSE apc' = "training" /\ aiter' = aiter + 1
    /\ UNCHANGED <<policy, sched, req, resp, rpc, lpc, status, task, sent, inference>>

Finished ==
    /\ spc = "stopped" /\ apc = "done" /\ inference = "offloaded"
    /\ \A i \in Instance : rpc[i] = "finished"

\* The global step is over, or an assertion of a rollout worker has brought the job down.
Idle == (Finished \/ \E i \in Instance : rpc[i] = "failed") /\ UNCHANGED vars

Next ==
    \/ Scheduler
    \/ \E i \in Instance : Rollout(i) \/ MainLoop(i)
    \/ \E g \in Group : Generate(g)
    \/ FinishInference \/ BeginTraining \/ Train \/ Scale
    \/ Idle

\* The event loops run what can run, the engines complete every group, and the workers' own
\* calls return.
Fairness ==
    /\ WF_vars(Scheduler)
    /\ \A i \in 0 .. (ActorGpus + RolloutGpus) \div RolloutMP - 1 :
          WF_vars(i \in Instance /\ Rollout(i)) /\ WF_vars(i \in Instance /\ MainLoop(i))
    /\ \A g \in Group : WF_vars(Generate(g))
    /\ WF_vars(FinishInference) /\ WF_vars(BeginTraining) /\ WF_vars(Train) /\ WF_vars(Scale)

Spec == Init /\ [][Next]_vars /\ Fairness

-----------------------------------------------------------------------------
\* Properties

Carried(queue) == UNION {queue[k].data : k \in DOMAIN queue}

\* Where group g is: among the running groups of an instance, among those that an instance has
\* aborted and not handed over yet, or in a message.
Places(g) ==
    Cardinality({i \in Instance : g \in running[i]})
    + Cardinality({i \in Instance : g \in aborted[i] /\ lpc[i] = "migrate_out"})
    + Cardinality({i \in Instance : g \in Carried(resp[i])})
    + Cardinality({i \in Instance : g \in Carried(req[i])})

\* No sequence group is lost or generated twice, however often it is migrated: from the start
\* of its rollout() until its result is sent it is in exactly one place, afterwards in none, and
\* its result is put on the output channel once.
ExactlyOnce ==
    \A g \in Group :
        /\ sent[g] <= 1
        /\ Places(g) = IF sent[g] = 1
                       THEN IF \E i \in Instance : g \in returned[i] THEN 1 ELSE 0
                       ELSE IF \E i \in Instance : g \in Batch(i) /\ rpc[i] \in {"idle", "failed"}
                            THEN 0 ELSE 1

\* An instance whose rollout() has left its loop is given no group any more: the requests
\* before it hold no Migrate_In, and no group is running.
NoGroupForTheDead ==
    \A i \in Instance : rpc[i] \in {"offloading", "finished"} =>
        running[i] = {} /\ Carried(req[i]) = {}

\* The scheduler gathers the responses it asked for (_gather_responses, migrate_out, finish):
\* what is in a response queue comes from an instance it waits for and is of the kind that it
\* waits for, so that no response of an earlier request is taken for one of a later one.
ResponsesMatch ==
    \A i \in Instance : resp[i] # <<>> =>
        \/ spc = "reports" /\ i \in Alive /\ Head(resp[i]).action = "Report"
        \/ spc = "migrated" /\ i \in leaving /\ Head(resp[i]).action = "Migrate_Out"
        \/ spc = "offloaded" /\ i \in leaving /\ Head(resp[i]).action = "Offloaded"

\* The assertions of migrate, of try_allocate and, under the pre-process policy, of rollout:
\* some instance stays when others are migrated out, an actor that could be given GPUs has not
\* all of them already, and a rollout() that starts finds no groups of others.
AssertionsHold ==
    /\ spc = "migrated" => leaving # {} /\ leaving # Alive
    /\ spc = "actor" /\ iter # LastIter /\ avail >= ActorMP => actorDp # Max(ValidDp)
    /\ policy.pre => \A i \in Instance : rpc[i] # "failed"

FirstGpu(i) == (IF policy.pre THEN 0 ELSE ActorGpus) + i * RolloutMP

\* The GPUs are the actor's: rollout instances and inference have offloaded those below world.
ActorAlone ==
    apc # "pre" =>
        /\ \A i \in Instance : FirstGpu(i) < world => rpc[i] = "finished"
        /\ world > ActorGpus + RolloutGpus => inference = "offloaded"

\* When the last step waits for rollout and inference, the actor never runs on a GPU that another
\* component still holds: what the scheduler counts as released is what lies next to the actor.
ActorAloneWhenWaiting == policy.wait => ActorAlone

\* A global step leaves nothing to the next one: no request, response or notification that the
\* next rollout() or scheduler would find, no group, and the actor at its first size.
CleanStep ==
    Finished =>
        /\ \A i \in Instance : /\ req[i] = <<>> /\ resp[i] = <<>> /\ lpc[i] = "idle"
                              /\ running[i] \cup done[i] \cup aborted[i] = {}
                              /\ ~event[i]
        /\ areq = <<>> /\ world = ActorGpus /\ actorDp = ActorGpus \div ActorMP
        /\ \A g \in Group : sent[g] = 1

\* Under the pre-process policy every global step comes to its end: no instance waits for a
\* notification, and the scheduler for no response, that never comes.
Terminates == policy.pre ~> Finished
=============================================================================
