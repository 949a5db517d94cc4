------------------------------- MODULE Router -------------------------------
(***************************************************************************)
(* The network as the router sees it, and one iteration of the label       *)
(* setting search of patRouter::treeCost (src/src/Router/patRouter.cc).    *)
(*                                                                         *)
(* The search keeps its open nodes in a std::set ordered by                *)
(* patShortestPathTreeGeneral::compareLabel: by label, ties by the address *)
(* of the node. Nodes and roads are therefore numbers here, standing for   *)
(* their addresses, and every tie the code breaks is broken the same way.  *)
(*                                                                         *)
(* A definition named after another with _Wrong is what a mistake would    *)
(* make of it: the properties are checked to notice.                       *)
(***************************************************************************)
EXTENDS Integers, FiniteSets, Sequences

CONSTANTS Node,      \* the nodes, as addresses
          Road,      \* the roads (arcs, or ways of several arcs), as addresses
          UpNode,    \* the node a road leaves
          DownNode,  \* the node a road enters
          DBL_MAX    \* the label of a node that has none, the cost of a forbidden road

ASSUME NetworkAssumption ==
  /\ Node \subseteq Nat /\ IsFiniteSet(Node)
  /\ Road \subseteq Nat
  /\ UpNode \in [Road -> Node]
  /\ DownNode \in [Road -> Node]
  /\ DBL_MAX \in Nat \ {0}

Direction == {"FWD", "BWD"}

\* The node a road is expanded from and the node it reaches, in a direction.
Near(r, dir) == IF dir = "FWD" THEN UpNode[r] ELSE DownNode[r]
Far(r, dir)  == IF dir = "FWD" THEN DownNode[r] ELSE UpNode[r]

(***************************************************************************)
(* patLinkCostExcludingNodes::getCost: a road that touches an excluded     *)
(* node costs DBL_MAX, so that it never improves a label.                  *)
(***************************************************************************)
CostExcluding_Wrong(cost, excluded) ==
  [r \in Road |-> IF UpNode[r] \in excluded THEN DBL_MAX ELSE cost[r]]

CostExcluding(cost, excluded) ==
  [r \in Road |-> IF {UpNode[r], DownNode[r]} \cap excluded # {} THEN DBL_MAX ELSE cost[r]]

NoLabels(root) == [n \in Node |-> IF n = root THEN 0 ELSE DBL_MAX]

\* patShortestPathTreeGeneral::compareLabel
compareLabel_Wrong(label, a, b) == a < b
compareLabel(label, a, b) ==
  \/ label[a] < label[b]
  \/ label[a] = label[b] /\ a < b

\* The node the ordered set yields first.
FirstOf(label, list) ==
  CHOOSE a \in list : \A b \in list \ {a} : compareLabel(label, a, b)

\* The roads out of u that lower the label of n.
Improving_WrongTie(label, cost, dir, u, n) ==
  {r \in Road : Near(r, dir) = u /\ Far(r, dir) = n /\ label[n] >= label[u] + cost[r]}

Improving_WrongNew(label, cost, dir, u, n) ==
  {r \in Road : Near(r, dir) = u /\ Far(r, dir) = n
                   /\ (label[n] = DBL_MAX \/ label[n] > label[u] + cost[r])}

Improving(label, cost, dir, u, n) ==
  {r \in Road : Near(r, dir) = u /\ Far(r, dir) = n /\ label[n] > label[u] + cost[r]}

\* Of several such roads the cheapest stays, among equals the first in the set.
Cheapest(roads, cost) ==
  CHOOSE r \in roads : \A q \in roads : cost[r] < cost[q] \/ (cost[r] = cost[q] /\ r <= q)

Relaxed(label, cost, dir, u) == {n \in Node : Improving(label, cost, dir, u, n) # {}}

RelaxLabels(label, cost, dir, u) ==
  [n \in Node |-> LET better == Improving(label, cost, dir, u, n)
                  IN  IF better = {} THEN label[n] ELSE label[u] + cost[Cheapest(better, cost)]]

RelaxPreds_Wrong(pred, label, cost, dir, u) ==
  [n \in Node |-> LET better == Improving(label, cost, dir, u, n)
                  IN  IF better = {} THEN pred[n] ELSE pred[n] \cup {Cheapest(better, cost)}]

RelaxPreds(pred, label, cost, dir, u) ==
  [n \in Node |-> LET better == Improving(label, cost, dir, u, n)
                  IN  IF better = {} THEN pred[n] ELSE {Cheapest(better, cost)}]

(***************************************************************************)
(* The tree after at most k iterations of the loop, as a function of k:    *)
(* the search for one target that MHPath asks for. With positive costs a   *)
(* node is expanded once, so Cardinality(Node) iterations complete it.     *)
(***************************************************************************)
TreeCost(cost, root, target, dir) ==
  LET grow[k \in 0 .. Cardinality(Node)] ==
        IF k = 0
        THEN [label |-> NoLabels(root), pred |-> [n \in Node |-> {}],
              list |-> {root}, found |-> FALSE]
        ELSE LET t == grow[k-1]
                 u == FirstOf(t.label, t.list)
             IN  IF t.found \/ t.list = {} THEN t
                 ELSE [label |-> RelaxLabels(t.label, cost, dir, u),
                       pred  |-> RelaxPreds(t.pred, t.label, cost, dir, u),
                       list  |-> (t.list \ {u}) \cup Relaxed(t.label, cost, dir, u),
                       found |-> u = target]
  IN  grow[Cardinality(Node)]

(***************************************************************************)
(* patShortestPathTreeGeneral::getShortestPathTo: the nodes from the root  *)
(* to dest (FWD) or from dest to the root (BWD), along the predecessors;   *)
(* <<>> when the code answers false.                                       *)
(***************************************************************************)
RouteIn(pred, root, dest, dir) ==
  LET walk[k \in 0 .. Cardinality(Node)] ==
        IF k = 0 THEN <<dest>>
        ELSE LET s == walk[k-1]
                 front == IF s = <<>> THEN dest ELSE IF dir = "FWD" THEN Head(s) ELSE s[Len(s)]
             IN  IF s = <<>> \/ (k > 1 /\ front = root) THEN s
                 ELSE IF pred[front] = {} THEN <<>>
                 ELSE LET r == CHOOSE r \in pred[front] : TRUE
                      IN  IF dir = "FWD" THEN <<UpNode[r]>> \o s ELSE Append(s, DownNode[r])
  IN  walk[Cardinality(Node)]

\* Reference: the costs of the cheapest walks from the roots.
Distances(cost, roots, dir) ==
  LET least(S) == CHOOSE x \in S : \A y \in S : x <= y
      dist[k \in 0 .. Cardinality(Node)] ==
        IF k = 0 THEN [n \in Node |-> IF n \in roots THEN 0 ELSE DBL_MAX]
        ELSE [n \in Node |->
               least({dist[k-1][n]} \cup
                     {dist[k-1][Near(r, dir)] + cost[r] : r \in {r \in Road : Far(r, dir) = n}})]
  IN  dist[Cardinality(Node)]

=============================================================================
