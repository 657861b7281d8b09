--------------------------- MODULE MCChannelQueue ---------------------------
(***************************************************************************)
(* ChannelQueue with small sets of calls, payloads and keys for TLC.  The  *)
(* calls of a behaviour all use one key, which is one that only get reads  *)
(* or one for get_batch too; the queues of two keys share nothing.         *)
(***************************************************************************)
EXTENDS ChannelQueue, TLC

CONSTANTS k1, k2, t1, t2, t3, t4, t5, i1, i2, i3, i4

VARIABLE used

\* One payload of each weight that get_batch tells apart from a target of 2:
\* below it, equal to it, and light enough to be followed by another.
MCWeight == [i \in Item |-> IF i = i1 THEN 1 ELSE IF i = i2 THEN 2 ELSE 1]

OneKeyInit == Init /\ used \in Key

\* With get_batch, four calls and three payloads have to do.
OneKeyNext ==
    /\ Next
    /\ \A t \in Task : pc'[t] # "new" => call'[t].key = used
    /\ used \in BatchKey =>
           /\ Item \cap {i4} \subseteq fresh'
           /\ \A t \in Task \cap {t5} : pc'[t] = "new"
    /\ UNCHANGED used

OneKeySpec == OneKeyInit /\ [][OneKeyNext]_<<vars, used>> /\ Fairness
=============================================================================
