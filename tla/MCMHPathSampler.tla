-------------------------- MODULE MCMHPathSampler ---------------------------
(***************************************************************************)
(* The sampler on a street network of seven nodes, its routes computed by  *)
(* the search of module Router. From 1 to 6 there are two rows (1-2-4-6    *)
(* and 1-3-5-6) with roads between them in both directions, so that a      *)
(* splice may detour, loop or find no way; node 7 lies off 3 and 4, and    *)
(* whoever comes there from 4 has to turn back.                            *)
(***************************************************************************)
EXTENDS MHPathSampler, TLC

MCNode == 1 .. 7
MCRoads ==
  <<<<1, 2, 2>>, <<1, 3, 2>>, <<2, 4, 2>>, <<3, 5, 3>>, <<4, 6, 2>>, <<5, 6, 2>>,
    <<2, 3, 1>>, <<3, 2, 1>>, <<4, 5, 1>>, <<5, 4, 1>>, <<3, 4, 3>>, <<4, 7, 1>>, <<7, 4, 4>>, <<3, 7, 2>>, <<1, 6, 20>>>>

R == INSTANCE Router WITH
       Node <- MCNode, Road <- DOMAIN MCRoads, DBL_MAX <- 1000,
       UpNode <- [r \in DOMAIN MCRoads |-> MCRoads[r][1]],
       DownNode <- [r \in DOMAIN MCRoads |-> MCRoads[r][2]]

RoadCost == [r \in DOMAIN MCRoads |-> MCRoads[r][3]]
Edges == {<<MCRoads[r][1], MCRoads[r][2]>> : r \in DOMAIN MCRoads}
MCEdge == Edges

Avoid(u, v, X) == u # v /\ u \notin X /\ v \notin X

Fwd(u, v, X) ==
  R!RouteIn(R!TreeCost(R!CostExcluding(RoadCost, X), u, v, "FWD").pred, u, v, "FWD")
Bwd(u, v, X) ==
  R!RouteIn(R!TreeCost(R!CostExcluding(RoadCost, X), v, u, "BWD").pred, v, u, "BWD")

\* @@ makes TLC tabulate a function, and a definition of a definition makes
\* it do so once: what a .cfg substitutes is evaluated again at each use.
FwdTable ==
  [u \in MCNode |-> [v \in MCNode |-> [X \in SUBSET MCNode |->
    IF Avoid(u, v, X) THEN Fwd(u, v, X) ELSE <<>>] @@ <<>>] @@ <<>>] @@ <<>>
BwdTable ==
  [u \in MCNode |-> [v \in MCNode |-> [X \in SUBSET MCNode |->
    IF Avoid(u, v, X) THEN Bwd(u, v, X) ELSE <<>>] @@ <<>>] @@ <<>>] @@ <<>>
MCFwdRoute == FwdTable
MCBwdRoute == BwdTable

\* MHNIPPG::calculate gives a weight to the nodes with a label in the trees
\* grown from the origin and back from the destination: here, all of them.
Labelled(root, dir) ==
  LET label == R!TreeCost(RoadCost, root, 0, dir).label IN {n \in MCNode : label[n] # 1000}

ASSUME WeightsAssumption == Labelled(1, "FWD") \cap Labelled(6, "BWD") = MCNode

MCInsertWeight == [v \in MCNode |-> v]

\* The shortest path, or another as the most likely one, the direct road too.
Triggers == {FwdTable[1][6][{}], <<1, 3, 2, 4, 6>>, <<1, 6>>}
MCTrigger == Triggers

\* The weights another thread left in the calculator it shares: of a network
\* reduced for its own trip, without node 3.
MCForeignWeight == {[v \in {1, 2, 4, 5, 6} |-> v]}
=============================================================================
