---------------------------- MODULE MCRandomWalk ----------------------------
(***************************************************************************)
(* Seven nodes: two ways from 1 to 4 joined by opposite roads, two         *)
(* parallel roads into 4, from where a road goes back to 1 and another to  *)
(* the dead end 5. As a destination, 4 is passed and come back to, no road *)
(* leaves 5, and from 6 one cannot come back; no way leads from 5 to       *)
(* anywhere, and none to 7.                                                *)
(***************************************************************************)
EXTENDS RandomWalk

MCNode == 1 .. 7
MCUp   == <<1, 1, 2, 3, 2, 3, 3, 4, 4, 3, 6, 7>>
MCDown == <<2, 3, 3, 2, 4, 4, 4, 1, 5, 6, 5, 1>>
MCRoad == 1 .. 12

Costs == {<<a, 3, 1, b, c, 2, 2, 1, 1, 2, 1, 1>> : a \in {1, 3}, b \in {1, 2}, c \in {1, 4}}

MCQuery == [cost : Costs, origin : {1, 2, 4, 5}, destination : {4, 5, 6, 7}]
=============================================================================
