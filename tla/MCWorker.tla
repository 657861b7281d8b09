------------------------------ MODULE MCWorker ------------------------------
(***************************************************************************)
(* Two things that a worker works with, for TLC: the client of a channel,  *)
(* and the locks of its devices.  They share no state, and one of the two  *)
(* runs while the other's variables keep their values.                     *)
(***************************************************************************)
EXTENDS MCChannelClient, DeviceLocks

CONSTANTS w1, w2, w3, w4, d1, d2, d3

VARIABLE service      \* "client" or "locks"

\* One worker on all accelerators, two that overlap in one, and one on a single accelerator.
MCWorkers == {w1, w2, w3, w4}
MCDevices == {d1, d2, d3}
MCAccels == w1 :> <<d1, d2, d3>> @@ w2 :> <<d1, d2>> @@ w3 :> <<d2, d3>> @@ w4 :> <<d3>>

clientVars == <<vars, client>>

WorkerInit == service \in {"client", "locks"} /\ ClientInit /\ LocksInit

ClientRuns == service = "client" /\ ClientNext /\ UNCHANGED <<service, lockVars>>
LocksRun == service = "locks" /\ LocksNext /\ UNCHANGED <<service, clientVars>>

\* As the calls are limited, fairness of the client's steps together implies that of each.
WorkerFairness ==
    /\ WF_clientVars(service = "client" /\
          (\/ \E t \in Task : RunPut(t) \/ RunGet(t) \/ RunOn(t) \/ PutReturns(t)
           \/ \E i \in Client : Receive(i)))
    /\ LocksFairness

WorkerSpec ==
    WorkerInit /\ [][ClientRuns \/ LocksRun]_<<service, clientVars, lockVars>> /\ WorkerFairness
=============================================================================
