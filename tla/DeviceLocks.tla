----------------------------- MODULE DeviceLocks -----------------------------
(***************************************************************************)
(* The device locks of rlinf/scheduler/manager/lock_manager.py.            *)
(*                                                                         *)
(* DeviceLockManager is one asyncio actor with a lock for each accelerator *)
(* of the cluster.  A worker asks for all of its accelerators in one call, *)
(* which starts one task for each of their locks, and is answered when all *)
(* of them have the lock.  Nothing orders the locks: that workers with     *)
(* overlapping accelerators do not deadlock rests on the event loop, which *)
(* runs the callbacks in the order in which they became ready.             *)
(***************************************************************************)
EXTENDS Naturals, Sequences

CONSTANTS
    Worker, Device,
    Accels,          \* global_accelerator_ids of each worker
    Nobody

ASSUME LocksAssumption ==
    /\ Accels \in [Worker -> Seq(Device)]
    /\ \A w \in Worker : \A i, j \in DOMAIN Accels[w] : Accels[w][i] = Accels[w][j] => i = j
    /\ Nobody \notin Worker \cup Device

Devices(w) == {Accels[w][i] : i \in DOMAIN Accels[w]}

VARIABLES
    wpc,             \* the worker: "idle", "acquiring", "holding", "releasing", or "failed"
    pending,         \* the locks that its call still waits for
    locked, owner,   \* _locked and _worker_address of each lock
    waiters,         \* _waiters of each lock, by their workers
    woken,           \* the future of the first waiter has its result
    ready            \* the callbacks that the event loop is to run, in order

lockVars == <<wpc, pending, locked, owner, waiters, woken, ready>>

LockCall(op, w, d) == [op |-> op, w |-> w, d |-> d]

LocksInit ==
    /\ wpc = [w \in Worker |-> "idle"]
    /\ pending = [w \in Worker |-> {}]
    /\ locked = [d \in Device |-> FALSE]
    /\ owner = [d \in Device |-> Nobody]
    /\ waiters = [d \in Device |-> <<>>]
    /\ woken = [d \in Device |-> FALSE]
    /\ ready = <<>>

-----------------------------------------------------------------------------
\* The worker: DeviceLock.acquire and release, calls of the manager that block

Ask(w, from, to, op) ==
    /\ wpc[w] = from
    /\ wpc' = [wpc EXCEPT ![w] = to]
    /\ pending' = [pending EXCEPT ![w] = Devices(w)]
    /\ ready' = Append(ready, LockCall(op, w, Nobody))
    /\ UNCHANGED <<locked, owner, waiters, woken>>

\* The call returns when the manager is through with it.
Answered(w, from, to) ==
    /\ wpc[w] = from
    /\ pending[w] = {} /\ \A i \in DOMAIN ready : ready[i].w # w
    /\ wpc' = [wpc EXCEPT ![w] = to]
    /\ UNCHANGED <<pending, locked, owner, waiters, woken, ready>>

AcquireLocks(w) == Ask(w, "idle", "acquiring", "acquire_devices")
Acquired(w) == Answered(w, "acquiring", "holding")
ReleaseLocks(w) == Ask(w, "holding", "releasing", "release_devices")
Released(w) == Answered(w, "releasing", "idle")

-----------------------------------------------------------------------------
\* The event loop of the manager runs the callback e, the first of the ready ones.

Runs(e, op) == ready # <<>> /\ e = Head(ready) /\ e.op = op

\* acquire_devices and release_devices: asyncio.gather creates a task for each lock.
Gather(e, op, task) ==
    /\ Runs(e, op)
    /\ ready' = Tail(ready) \o [i \in DOMAIN Accels[e.w] |-> LockCall(task, e.w, Accels[e.w][i])]
    /\ UNCHANGED <<wpc, pending, locked, owner, waiters, woken>>

AcquireDevices(e) == Gather(e, "acquire_devices", "lock")
ReleaseDevices(e) == Gather(e, "release_devices", "unlock")

Done(e) == pending' = [pending EXCEPT ![e.w] = @ \ {e.d}]
Fail(e) == wpc' = [wpc EXCEPT ![e.w] = "failed"]

\* Mutant: a lock that is free is taken although a waiter has been woken for it.
LockBargingMutant(e) ==
    /\ Runs(e, "lock")
    /\ ready' = Tail(ready)
    /\ IF ~locked[e.d]
       THEN /\ locked' = [locked EXCEPT ![e.d] = TRUE]
            /\ owner' = [owner EXCEPT ![e.d] = e.w]
            /\ Done(e)
            /\ UNCHANGED waiters
       ELSE /\ waiters' = [waiters EXCEPT ![e.d] = Append(@, e.w)]
            /\ UNCHANGED <<pending, locked, owner>>
    /\ UNCHANGED <<wpc, woken>>

\* WorkerDeviceLock.acquire: at once if the worker has the lock or nobody has it or waits for it
Lock(e) ==
    /\ Runs(e, "lock")
    /\ ready' = Tail(ready)
    /\ IF owner[e.d] = e.w \/ (~locked[e.d] /\ waiters[e.d] = <<>>)
       THEN /\ locked' = [locked EXCEPT ![e.d] = TRUE]
            /\ owner' = [owner EXCEPT ![e.d] = e.w]
            /\ Done(e)
            /\ UNCHANGED waiters
       ELSE /\ waiters' = [waiters EXCEPT ![e.d] = Append(@, e.w)]
            /\ UNCHANGED <<pending, locked, owner>>
    /\ UNCHANGED <<wpc, woken>>

\* Mutant: the new owner is not checked against the old one, nor is the lock marked as taken.
ResumeUnlockedMutant(e) ==
    /\ Runs(e, "resume")
    /\ ready' = Tail(ready)
    /\ waiters' = [waiters EXCEPT ![e.d] = Tail(@)]
    /\ woken' = [woken EXCEPT ![e.d] = FALSE]
    /\ owner' = [owner EXCEPT ![e.d] = e.w]
    /\ Done(e)
    /\ UNCHANGED <<wpc, locked>>

\* The rest of acquire, when the future of the waiter, the first one, has its result.
ResumeLock(e) ==
    /\ Runs(e, "resume")
    /\ ready' = Tail(ready)
    /\ waiters' = [waiters EXCEPT ![e.d] = Tail(@)]
    /\ woken' = [woken EXCEPT ![e.d] = FALSE]
    /\ locked' = [locked EXCEPT ![e.d] = TRUE]
    /\ IF owner[e.d] = Nobody
       THEN /\ owner' = [owner EXCEPT ![e.d] = e.w]
            /\ Done(e)
            /\ UNCHANGED wpc
       ELSE /\ Fail(e)
            /\ UNCHANGED <<owner, pending>>

\* Mutant: the last of the waiters is woken.
UnlockLastMutant(e) ==
    /\ Runs(e, "unlock")
    /\ locked' = [locked EXCEPT ![e.d] = FALSE]
    /\ owner' = [owner EXCEPT ![e.d] = Nobody]
    /\ Done(e)
    /\ IF waiters[e.d] # <<>> /\ ~woken[e.d]
       THEN /\ woken' = [woken EXCEPT ![e.d] = TRUE]
            /\ ready' = Append(Tail(ready), LockCall("resume", waiters[e.d][Len(waiters[e.d])], e.d))
       ELSE ready' = Tail(ready) /\ UNCHANGED woken
    /\ UNCHANGED <<wpc, waiters>>

\* WorkerDeviceLock.release, with _wake_up_first of asyncio.Lock
Unlock(e) ==
    /\ Runs(e, "unlock")
    /\ IF owner[e.d] \in {Nobody, e.w} /\ locked[e.d]
       THEN /\ locked' = [locked EXCEPT ![e.d] = FALSE]
            /\ owner' = [owner EXCEPT ![e.d] = Nobody]
            /\ Done(e)
            /\ IF waiters[e.d] # <<>> /\ ~woken[e.d]
               THEN /\ woken' = [woken EXCEPT ![e.d] = TRUE]
                    /\ ready' = Append(Tail(ready), LockCall("resume", Head(waiters[e.d]), e.d))
               ELSE ready' = Tail(ready) /\ UNCHANGED woken
            /\ UNCHANGED wpc
       ELSE /\ ready' = Tail(ready)
            /\ Fail(e)
            /\ UNCHANGED <<pending, locked, owner, woken>>
    /\ UNCHANGED waiters

EventLoop ==
    \E e \in {ready[i] : i \in DOMAIN ready} :
        AcquireDevices(e) \/ ReleaseDevices(e) \/ Lock(e) \/ ResumeLock(e) \/ Unlock(e)

LocksNext ==
    \/ \E w \in Worker : AcquireLocks(w) \/ Acquired(w) \/ ReleaseLocks(w) \/ Released(w)
    \/ EventLoop

\* The event loop runs what is ready; a worker leaves its critical section.
LocksFairness ==
    /\ WF_lockVars(EventLoop)
    /\ \A w \in Worker : WF_lockVars(Acquired(w) \/ ReleaseLocks(w) \/ Released(w))

LocksSpec == LocksInit /\ [][LocksNext]_lockVars /\ LocksFairness

-----------------------------------------------------------------------------
\* Properties

Op == {"acquire_devices", "release_devices", "lock", "resume", "unlock"}
Callback == [op : Op, w : Worker, d : Device \cup {Nobody}]

\* The types of the variables; a lock with an owner is locked.
LocksTypeOK ==
    /\ wpc \in [Worker -> {"idle", "acquiring", "holding", "releasing", "failed"}]
    /\ pending \in [Worker -> SUBSET Device]
    /\ locked \in [Device -> BOOLEAN]
    /\ owner \in [Device -> Worker \cup {Nobody}]
    /\ \A d \in Device : owner[d] # Nobody => locked[d]
    /\ waiters \in [Device -> Seq(Worker)]
    /\ woken \in [Device -> BOOLEAN]
    /\ ready \in Seq(Callback)

\* DeviceLock: only one worker at a time can use an accelerator (lock.py:23).
MutualExclusion ==
    \A v, w \in Worker :
        v # w /\ wpc[v] = "holding" /\ wpc[w] = "holding" => Devices(v) \cap Devices(w) = {}

\* No acquire runs into its assertion, and no release into a RuntimeError: a waiter that is woken
\* finds the lock without an owner even if others ask, or release, before it resumes.
NoFailure == \A w \in Worker : wpc[w] # "failed"

\* Where a worker asks for the lock of d in the callbacks, and where it waits for it.
AsksAt(d, w) ==
    {i \in DOMAIN ready :
        /\ ready[i].op \in {"acquire_devices", "lock"} /\ ready[i].w = w
        /\ ready[i].d \in {d, Nobody} /\ d \in Devices(w)}
WaitsAt(d, w) == {i \in DOMAIN waiters[d] : waiters[d][i] = w}

\* v stands before w in the line of those who have, wait for or ask for the lock of d.
Before(d, v, w) ==
    \/ owner[d] = v /\ WaitsAt(d, w) \cup AsksAt(d, w) # {}
    \/ WaitsAt(d, v) # {} /\ AsksAt(d, w) # {}
    \/ \E i \in WaitsAt(d, v), j \in WaitsAt(d, w) : i < j
    \/ \E i \in AsksAt(d, v), j \in AsksAt(d, w) : i < j

\* Two workers stand in the same order before all the locks that both want, which is why they
\* never wait for each other although each takes its locks one by one.
SameOrder ==
    \A c, d \in Device : \A v, w \in Worker :
        v # w /\ Before(c, v, w) => ~Before(d, w, v)

\* Every worker that asks gets its accelerators, as long as every holder lets go of its own.
EveryoneServed == \A w \in Worker : wpc[w] = "acquiring" ~> wpc[w] = "holding"
=============================================================================
