------------------------- MODULE MCNetworkReduction -------------------------
(***************************************************************************)
(* Seven nodes, from 1 to 7. A two-way street 1-2-3-4-7 of three nodes in  *)
(* between runs beside a row 1-5-7 whose middle is reached by a one-way    *)
(* chain 1-6-5 as well; roads join the rows, and a dead end may hang off.  *)
(***************************************************************************)
EXTENDS NetworkReduction

MCNode == 1 .. 7

A(up, down, cost) == [up |-> up, down |-> down, cost |-> cost]

Street == <<A(1,2,1), A(2,1,1), A(2,3,1), A(3,2,1), A(3,4,1), A(4,3,1), A(4,7,1), A(7,4,1)>>

\* Both ways to 5 tie, and with the street; the row is shorter; it is longer.
Rows == {<<A(1,5,p[1]), A(5,7,p[2]), A(1,6,1), A(6,5,p[3])>> : p \in {<<2,2,1>>, <<3,1,2>>, <<2,4,2>>}}

Joins == {<<>>, <<A(3,5,1)>>, <<A(5,3,1), A(3,5,2)>>, <<A(2,6,1)>>, <<A(6,4,1), A(5,1,1)>>}

\* Reduced, compressed, or both.
MCQuery ==
  {[arcs |-> Street \o row \o join, origin |-> 1, destination |-> 7, cutOff |-> p.cutOff,
    expansion |-> p.expansion, compress |-> p.compress, trigger |-> <<>>] :
     row \in Rows, join \in Joins,
     p \in [cutOff : {TRUE}, expansion : {<<1, 1>>, <<3, 2>>}, compress : BOOLEAN]
           \cup [cutOff : {FALSE}, expansion : {<<0, 1>>}, compress : {TRUE}]}

\* The street alone: the shortest path, or the most likely observation, takes it.
MCStreet ==
  {[arcs |-> Street, origin |-> 1, destination |-> 7, cutOff |-> FALSE,
    expansion |-> <<0, 1>>, compress |-> c, trigger |-> t] : c \in BOOLEAN, t \in {<<>>, <<1, 3, 5, 7>>}}
=============================================================================
