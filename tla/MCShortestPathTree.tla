------------------------- MODULE MCShortestPathTree -------------------------
(***************************************************************************)
(* Four nodes: two ways round from 1 to 4, a pair of opposite roads between*)
(* them, a way back, and two parallel roads from 3 to 4. Ties, detours that*)
(* beat direct roads and unreachable targets all occur.                    *)
(***************************************************************************)
EXTENDS ShortestPathTree

MCNode == 1 .. 4
MCUp   == <<1, 1, 2, 3, 2, 3, 3, 4>>
MCDown == <<2, 3, 3, 2, 4, 4, 4, 1>>
MCRoad == 1 .. 8

\* Road costs: the two between 2 and 3 and the one from 2 to 4 are drawn.
MCCost == {<<a, 3, b, c, d, 2, 2, 1>> : a \in {1, 3}, b \in {1, 2}, c \in {1, 2}, d \in {1, 2, 3}}

\* Roads of cost 0, on a cycle away from the root or out of it.
ZeroCost == {<<1, 3, 0, 0, 2, 2, 2, 1>>, <<0, 3, 1, 1, 2, 2, 2, 1>>}

\* Simple node sequences along the roads of a direction.
Simple(dir) ==
  {s \in UNION {[1 .. n -> MCNode] : n \in 2 .. 4} :
     /\ \A i, j \in DOMAIN s : s[i] = s[j] => i = j
     /\ \A i \in 1 .. Len(s) - 1 : \E r \in MCRoad : Near(r, dir) = s[i] /\ Far(r, dir) = s[i+1]}

\* The segment checks of MHPath.
Checks ==
  UNION {{[cost |-> c, root |-> s[1], targets |-> {s[Len(s)]}, excluded |-> x, dir |-> dir, ordered |-> s] :
            s \in Simple(dir), c \in MCCost, x \in {{}, {2}, {3}, {1, 4}}} : dir \in Direction}

\* The trees: for one target, for all nodes, or for none in particular.
Trees ==
  [cost : MCCost \cup ZeroCost, root : {1, 2}, targets : {{}, {4}, {3, 4}, MCNode},
   excluded : {{}, {2}, {3}, {2, 3}}, dir : Direction, ordered : {<<>>}]

Avoiding(c) == \A i \in DOMAIN c.ordered : c.ordered[i] \notin c.excluded

MCQuery == {c \in Checks : Avoiding(c)} \cup Trees
=============================================================================
