---------------------------- MODULE FifoChannel ----------------------------
(***************************************************************************)
(* What a channel promises its users: a bounded first-in first-out queue   *)
(* per key.  An item enters a queue once, at its tail, and only while the  *)
(* queue has room; a reader obtains items from the head of a queue, in the *)
(* order in which they entered.  How puts and gets wait for each other is  *)
(* left out.                                                               *)
(***************************************************************************)
EXTENDS Naturals, Sequences

CONSTANTS Key, Item, Reader, Capacity

VARIABLES
    chan,         \* [Key -> Seq(Item)]
    got,          \* [Reader -> Seq(Item)], what each reader obtained
    entered       \* the items that have entered a queue

fvars == <<chan, got, entered>>

FifoInit ==
    /\ chan = [k \in Key |-> <<>>]
    /\ got = [r \in Reader |-> <<>>]
    /\ entered = {}

HasRoom(k) == Capacity = 0 \/ Len(chan[k]) < Capacity

Enter(k, i) ==
    /\ i \notin entered
    /\ HasRoom(k)
    /\ chan' = [chan EXCEPT ![k] = Append(@, i)]
    /\ entered' = entered \cup {i}
    /\ UNCHANGED got

Leave(r, k, n) ==
    /\ got' = [got EXCEPT ![r] = @ \o SubSeq(chan[k], 1, n)]
    /\ chan' = [chan EXCEPT ![k] = SubSeq(@, n + 1, Len(@))]
    /\ UNCHANGED entered

FifoNext ==
    \E k \in Key :
        \/ \E i \in Item : Enter(k, i)
        \/ \E r \in Reader : \E n \in 1 .. Len(chan[k]) : Leave(r, k, n)

FifoSpec == FifoInit /\ [][FifoNext]_fvars
=============================================================================
