------------------------ MODULE MCDynamicScheduler ------------------------
(* The dynamic scheduler on four GPUs, for TLC. *)
EXTENDS DynamicScheduler

AllPolicies == [pre : BOOLEAN, wait : BOOLEAN]
\* The policies of the documentation's example and of the example configurations.
NoWait == {[pre |-> TRUE, wait |-> FALSE]}
=============================================================================
