-------------------------- MODULE NetworkReduction --------------------------
(***************************************************************************)
(* How MHPathGenerator::run prepares its network before it samples         *)
(* (src/src/PathGeneration/MetropolishHastings/MHPathGenerator.cc): the    *)
(* shortest path, the nodes too far away removed (patNetworkReducer), the  *)
(* chains of intermediate nodes compressed (patNetworkCompressor), the     *)
(* shortest path again, which must be the same, and the path the chain is  *)
(* started with, found again in what is left (recoverPath).                *)
(*                                                                         *)
(* A network maps addresses to roads, and a road is the sequence of the    *)
(* original arcs it was made of: what patMultiModalPath compares.          *)
(*                                                                         *)
(* A definition named after another with _Wrong is what a mistake would    *)
(* make of it: the properties are checked to notice.                       *)
(***************************************************************************)
EXTENDS Integers, FiniteSets, SequencesExt, FiniteSetsExt

CONSTANTS Node, DBL_MAX,
          Query   \* the calls: the network, the trip and the parameters

Arc == [up : Node, down : Node, cost : Nat \ {0}]

\* expansion is a fraction; an empty trigger stands for the shortest path.
ASSUME QueryAssumption ==
  Query \subseteq [arcs : Seq(Arc), origin : Node, destination : Node, cutOff : BOOLEAN,
                   expansion : Nat \X (Nat \ {0}), compress : BOOLEAN, trigger : Seq(Nat)]

VARIABLES
  q,       \* the query
  net,     \* m_network
  sp,      \* sp_path, as arcs
  normal,  \* the nodes compression keeps, all before it
  init,    \* new_init_path, as arcs
  pc       \* "start", "reduce", "compress", "compare", "recover", "run", "unequal", "thrown"

vars == <<q, net, sp, normal, init, pc>>

-----------------------------------------------------------------------------
Up(road)   == q.arcs[Head(road)].up
Down(road) == q.arcs[Last(road)].down

\* computeGeneralizedCost of a compressed arc: the sum over its arcs.
RoadCost(road) == FoldLeft(LAMBDA sum, a : sum + q.arcs[a].cost, 0, road)

\* The router on a network n.
R(n) == INSTANCE Router WITH
          Road <- DOMAIN n,
          UpNode <- [r \in DOMAIN n |-> Up(n[r])],
          DownNode <- [r \in DOMAIN n |-> Down(n[r])]

Costs(n) == [r \in DOMAIN n |-> RoadCost(n[r])]

\* fwdCost and bwdCost to all nodes
Labels(n, root, dir) == R(n)!TreeCost(Costs(n), root, DBL_MAX, dir).label

\* The roads of the route to the destination. pred names the road into each node.
Route(n) ==
  LET pred == R(n)!TreeCost(Costs(n), q.origin, q.destination, "FWD").pred
      walk[k \in 0 .. Cardinality(Node)] ==
        IF k = 0 THEN <<>>
        ELSE LET s == walk[k-1]
                 first == IF s = <<>> THEN q.destination ELSE Up(Head(s))
             IN  IF (s # <<>> /\ first = q.origin) \/ pred[first] = {} THEN s
                 ELSE <<n[CHOOSE r \in pred[first] : TRUE]>> \o s
  IN  walk[Cardinality(Node)]

RoadsOut(n, v) == {r \in DOMAIN n : Up(n[r]) = v}
RoadsIn(n, v)  == {r \in DOMAIN n : Down(n[r]) = v}

-----------------------------------------------------------------------------
(* patNetworkReducer::reduce.                                              *)

maxCost(least) == (q.expansion[1] * least) \div q.expansion[2]

remove_nodes ==
  LET fwd == Labels(net, q.origin, "FWD")
      bwd == Labels(net, q.destination, "BWD")
      most == maxCost(fwd[q.destination])
  IN  {v \in Node : fwd[v] + bwd[v] > most}

\* removeNode takes the roads out of a node, and leaves those into it.
Reduced ==
  LET removed == remove_nodes
  IN  [r \in {r \in DOMAIN net : Up(net[r]) \notin removed} |-> net[r]]

-----------------------------------------------------------------------------
(* patNetworkCompressor::compress.                                         *)

\* checkNodeStatus: neighbours, counting a road in from a node that is not
\* also a neighbour out once each.
ValidIncidents(v) ==
  LET out == {Down(net[r]) : r \in RoadsOut(net, v)}
  IN  Cardinality(out) + Cardinality({r \in RoadsIn(net, v) : Up(net[r]) \notin out})

DeadEnd_Wrong(v) == RoadsOut(net, v) = {} \/ RoadsIn(net, v) = {} \/ ValidIncidents(v) <= 2
DeadEnd(v) == RoadsOut(net, v) = {} \/ RoadsIn(net, v) = {} \/ ValidIncidents(v) <= 1

Intermediate(v) == ~DeadEnd(v) /\ ValidIncidents(v) = 2

NormalNodes ==
  LET present == UNION {{Up(net[r]), Down(net[r])} : r \in DOMAIN net}
  IN  {v \in present : v \in {q.origin, q.destination} \/ (~DeadEnd(v) /\ ~Intermediate(v))}

\* walk: the chains from the normal nodes through intermediate ones, without
\* turning back. A chain passes no more roads than there are.
Chains ==
  LET kept == NormalNodes
      between == {v \in Node \ kept : Intermediate(v)}
      longer(c) == {Append(c, r) : r \in {r \in RoadsOut(net, Down(net[Last(c)])) :
                                            Down(net[r]) # Up(net[Last(c)])}}
      chain[k \in 1 .. Cardinality(DOMAIN net)] ==
        IF k = 1 THEN {<<r>> : r \in {r \in DOMAIN net : Up(net[r]) \in kept}}
        ELSE UNION {longer(c) : c \in {c \in chain[k-1] : Down(net[Last(c)]) \in between}}
  IN  {c \in UNION {chain[k] : k \in DOMAIN chain} : Down(net[Last(c)]) \in kept}

Joined(roads) == FoldLeft(LAMBDA arcs, r : arcs \o net[r], <<>>, roads)

\* A chain of several roads becomes two: its last road stays a road of its own.
Pieces_Wrong(c) == {Joined(c)}
Pieces_WrongPop(c) == IF Len(c) = 1 THEN {Joined(c)} ELSE {Joined(c), Joined(<<Last(c)>>)}
Pieces_WrongEmpty(c) == {Joined(Front(c)), Joined(<<Last(c)>>)}
Pieces(c) == IF Len(c) = 1 THEN {Joined(c)} ELSE {Joined(Front(c)), Joined(<<Last(c)>>)}

\* Their addresses follow no order of interest.
Compressed == FoldSet(LAMBDA road, roads : Append(roads, road), <<>>, UNION {Pieces(c) : c \in Chains})

-----------------------------------------------------------------------------
(***************************************************************************)
(* patNetworkBase::recoverPath: the path again, along the roads of net.    *)
(* Arcs are gathered until one ends at a node that some road enters; one   *)
(* alone is taken as it is, several must be a road from the last such      *)
(* node. What matches no road stays gathered, and is lost at the end. The  *)
(* arcs of path join, so that taking them never fails.                     *)
(***************************************************************************)
Recovered(path) ==
  LET step(s, i) ==
        LET arcs  == Append(s.tmp, path[i])
            down  == Down(arcs)
            stuck == s.thrown \/ (s.tmp = <<>> /\ RoadsOut(net, s.up) = {})
            known == RoadsIn(net, down) # {} \/ i = Len(path)
            whole == Len(arcs) = 1 \/ \E r \in RoadsOut(net, s.up) : net[r] = arcs
        IN  CASE stuck -> [s EXCEPT !.thrown = TRUE]
              [] ~stuck /\ known /\ whole -> [s EXCEPT !.path = @ \o arcs, !.tmp = <<>>, !.up = down]
              [] OTHER -> [s EXCEPT !.tmp = arcs]
  IN  FoldLeft(step, [path |-> <<>>, tmp |-> <<>>, up |-> Up(path), thrown |-> FALSE],
               [i \in DOMAIN path |-> i])

-----------------------------------------------------------------------------
(* MHPathGenerator::run.                                                   *)

Init ==
  /\ q \in Query
  /\ net = [r \in DOMAIN q.arcs |-> <<r>>]
  /\ sp = <<>>
  /\ normal = Node
  /\ init = <<>>
  /\ pc = "start"

FirstRoute ==
  /\ pc = "start"
  /\ sp' = FlattenSeq(Route(net))
  /\ pc' = "reduce"
  /\ UNCHANGED <<q, net, normal, init>>

Reduce ==
  /\ pc = "reduce"
  /\ net' = IF q.cutOff THEN Reduced ELSE net
  /\ pc' = "compress"
  /\ UNCHANGED <<q, sp, normal, init>>

Compress ==
  /\ pc = "compress"
  /\ net' = IF q.compress THEN Compressed ELSE net
  /\ normal' = IF q.compress THEN NormalNodes ELSE normal
  /\ pc' = "compare"
  /\ UNCHANGED <<q, sp, init>>

\* "wrong: two sp paths no equal"
Compare ==
  /\ pc = "compare"
  /\ pc' = IF FlattenSeq(Route(net)) = sp THEN "recover" ELSE "unequal"
  /\ UNCHANGED <<q, net, sp, normal, init>>

\* The path the chain starts with must have the arcs it was asked to have.
Recover ==
  /\ pc = "recover"
  /\ LET path == IF q.trigger = <<>> THEN FlattenSeq(Route(net)) ELSE q.trigger
         new == Recovered(path)
         found == ~new.thrown /\ new.path = path
     IN  /\ pc' = IF found THEN "run" ELSE "thrown"
         /\ init' = IF found THEN new.path ELSE init
  /\ UNCHANGED <<q, net, sp, normal>>

Next == FirstRoute \/ Reduce \/ Compress \/ Compare \/ Recover

Spec == Init /\ [][Next]_vars

-----------------------------------------------------------------------------
First == [r \in DOMAIN q.arcs |-> <<r>>]

Prepared == pc \in {"compare", "recover", "run", "unequal", "thrown"}

TypeOK ==
  /\ q \in Query
  /\ \A r \in DOMAIN net : net[r] # <<>> /\ \A i \in DOMAIN net[r] : net[r][i] \in DOMAIN q.arcs
  /\ sp \in Seq(DOMAIN q.arcs) /\ init \in Seq(DOMAIN q.arcs)
  /\ normal \subseteq Node
  /\ pc \in {"start", "reduce", "compress", "compare", "recover", "run", "unequal", "thrown"}

(***************************************************************************)
(* The check of run between "original sp" and "compressed sp" never fails, *)
(* whatever the ties between shortest paths: the router breaks them by the *)
(* order in which nodes are expanded, and the last node of a compressed    *)
(* chain, which decides, is kept with the label it had.                    *)
(***************************************************************************)
SameRoute == pc # "unequal"

\* The costs of the whole network from the origin and to the destination, and
\* those by which MHNIPPG weighs the nodes of what is left of it.
Whole == [from |-> R(First)!Distances(Costs(First), {q.origin}, "FWD"),
          to   |-> R(First)!Distances(Costs(First), {q.destination}, "BWD")]
Left  == [from |-> Labels(net, q.origin, "FWD"),
          to   |-> Labels(net, q.destination, "BWD")]

Through(costs, v) == costs.from[v] + costs.to[v]

\* A cost that the cut-off allows when the shortest path costs least.
Within(cost, least) == ~q.cutOff \/ q.expansion[2] * cost <= q.expansion[1] * least

\* The loop-free trips from origin to destination along a network, as arcs.
Trips(n) ==
  LET trip[k \in 1 .. Cardinality(Node)] ==
        IF k = 1 THEN {[end |-> q.origin, met |-> {q.origin}, arcs |-> <<>>]}
        ELSE UNION {{[end |-> Down(n[r]), met |-> t.met \cup {Down(n[r])}, arcs |-> t.arcs \o n[r]] :
                       r \in {r \in RoadsOut(n, t.end) : Down(n[r]) \notin t.met}} : t \in trip[k-1]}
  IN  {t.arcs : t \in {t \in UNION {trip[k] : k \in DOMAIN trip} : t.end = q.destination}}

(***************************************************************************)
(* MHNIPPG weighs the nodes of the reduced and compressed network by their *)
(* costs from the origin and to the destination. None is weighed as nearer *)
(* than it is. Within the cut-off, a normal node is weighed exactly as in  *)
(* the whole network. A node inside a chain is weighed only by the trips   *)
(* on which it comes last in the chain, since the rest of the chain is one *)
(* road (patNetworkCompressor::walk): no farther than the cheapest of      *)
(* these, though in the whole network it may be nearer than all of them.   *)
(***************************************************************************)
LabelsKept ==
  Prepared =>
    LET whole == Whole
        kept  == Left
        least == whole.from[q.destination]
        near  == {t \in Trips(First) : Within(RoadCost(t), least)}
    IN  /\ \A v \in Node : kept.from[v] >= whole.from[v] /\ kept.to[v] >= whole.to[v]
        /\ \A v \in normal : Through(whole, v) < DBL_MAX /\ Within(Through(whole, v), least)
             => kept.from[v] = whole.from[v] /\ kept.to[v] = whole.to[v]
        /\ \A t \in near : \A a \in Range(t) :
             q.arcs[a].down \in normal => Through(kept, q.arcs[a].up) <= RoadCost(t)

(***************************************************************************)
(* The choice set is not touched: every loop-free trip that costs at most  *)
(* the cut-off can still be sampled, and nothing else than the trips of    *)
(* the whole network can.                                                  *)
(***************************************************************************)
TripsKept ==
  Prepared =>
    LET all == Trips(First)
        kept == Trips(net)
        least == Whole.from[q.destination]
    IN  /\ kept \subseteq all
        /\ \A t \in all : Within(RoadCost(t), least) => t \in kept

(***************************************************************************)
(* run throws unless the path it starts with is recovered arc for arc      *)
(* (MHPathGenerator.cc, lines 305-310): the path is one of the network, so *)
(* it can be found.                                                        *)
(***************************************************************************)
TriggerRecovered == pc # "thrown"

=============================================================================
