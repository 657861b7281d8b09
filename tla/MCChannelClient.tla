--------------------------- MODULE MCChannelClient ---------------------------
(* Instances of ChannelClient: a client that puts and a client that gets.   *)
EXTENDS ChannelClient, TLC

CONSTANTS p, c, MaxPuts, MaxGets

MCClient == {p, c}
MCTask == {<<p, n>> : n \in 1 .. MaxPuts} \cup {<<c, n>> : n \in 1 .. MaxGets}
MCItem == MCTask
MCWeight == [i \in MCItem |-> 1]
MCTarget == {1}

WaitingPuts == p :> {"put"} @@ c :> {"get", "get_nowait"}
NowaitPuts == p :> {"put_nowait"} @@ c :> {"get"}
=============================================================================
