---------------------------- MODULE MCDiscovery ----------------------------
(***************************************************************************)
(* The walk alone, the walk under its driver, and the stages launched on   *)
(* one log path, for TLC: one of the three runs, the variables of the      *)
(* others keep their values.                                               *)
(*                                                                         *)
(* Two raw ids, two goals; lists in which an id is repeated with another   *)
(* goal, a goal is repeated under another id, and a node that has nothing  *)
(* to propose.                                                             *)
(***************************************************************************)
EXTENDS DiscoveryDriver, LaunchAndWait

CONSTANTS a, b, c, g, h

VARIABLE runs      \* "walk", "driver" or "stages"

Cand(id, goal) == [id |-> id, goal |-> goal]

MCProposal == {<<>>, <<Cand(a, g), Cand(a, h)>>, <<Cand(b, g)>>, <<Cand(a, g), Cand(b, g)>>}

Seed(id, goal, node) ==
    [id |-> id, pre |-> node, goal |-> goal, produces |-> node \cup {id}, reset |-> None]

\* The root's candidates, and that of the first one's node.
MCSeedFiles ==
    <<[node |-> {}, candidates |-> <<Seed(a, g, {}), Seed(b, h, {})>>],
      [node |-> {a}, candidates |-> <<[Seed(c, h, {a}) EXCEPT !.reset = a]>>]>>

\* The walk alone starts with or without the seed files.
MaybeSeeded == {<<>>, MCSeedFiles}

NextWalk == runs = "walk" /\ Next /\ UNCHANGED <<runs, status, launchVars>>
NextDriver == runs = "driver" /\ DriverNext /\ UNCHANGED <<runs, launchVars>>
NextStages == runs = "stages" /\ LaunchNext /\ UNCHANGED <<runs, dvars>>

MCInit == runs \in {"walk", "driver", "stages"} /\ DriverInit /\ LaunchInit
DriverOnly == runs = "driver" /\ DriverInit /\ LaunchInit

allVars == <<runs, dvars, launchVars>>

MCDriverSpec == DriverOnly /\ [][NextDriver]_allVars
=============================================================================
