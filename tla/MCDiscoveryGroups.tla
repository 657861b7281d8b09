-------------------------- MODULE MCDiscoveryGroups --------------------------
(***************************************************************************)
(* The discovery of MCDiscovery, and beside it a collective group of two   *)
(* workers, with which it shares no state: one of the two runs.            *)
(***************************************************************************)
EXTENDS MCDiscovery, CollectiveGroup

VARIABLE part      \* "discovery" or "group"

MCPartsInit ==
    /\ MCInit /\ GroupInit
    /\ \/ part = "discovery" /\ relation = "none" /\ traffic = [r \in Rank |-> <<>>]
       \/ part = "group" /\ runs = "stages"

DiscoveryRuns ==
    part = "discovery" /\ (NextWalk \/ NextDriver \/ NextStages) /\ UNCHANGED <<part, groupVars>>
GroupRuns == part = "group" /\ GroupNext /\ UNCHANGED <<part, allVars>>

\* As the transfers are limited, fairness of the group's steps together implies that of each.
MCPartsSpec ==
    /\ MCPartsInit
    /\ [][DiscoveryRuns \/ GroupRuns]_<<part, allVars, groupVars>>
    /\ WF_groupVars(part = "group" /\ GroupNext)
=============================================================================
