---------------------------- MODULE DomainSearch ----------------------------
(***************************************************************************)
(* The search map matching extends a path with: buildShortestPathTree of   *)
(* patShortestPathGeneral (src/src/Router). From the end nodes of the      *)
(* paths so far it labels nodes within a distance (what could be driven    *)
(* since the last measurement) and collects the roads in the domain of the *)
(* new measurement.                                                        *)
(*                                                                         *)
(* Unlike the router's, its list is a deque in no order of labels, in      *)
(* which a node may stand twice: a label can be corrected after the node   *)
(* was expanded. One action is one road, or one node taken from the list.  *)
(* A query, drawn at the start, says how long the roads are and which have *)
(* an arc in the domain. A measurement is passed: the overloads without    *)
(* one have no caller.                                                     *)
(*                                                                         *)
(* A definition named after another with _Wrong is what a mistake would    *)
(* make of it: the properties are checked to notice.                       *)
(***************************************************************************)
EXTENDS Router, SequencesExt

CONSTANTS Query   \* the calls

ASSUME QueryAssumption ==
  Query \subseteq [length : [Road -> Nat \ {0}], roots : Seq(Node), domain : SUBSET Road,
                   ceil : Nat]

VARIABLES
  q,              \* the query
  label, pred,    \* shortest_path_tree
  list_of_nodes,  \* m_list_of_nodes
  roads_left,     \* the roads of the node taken that are still to be seen
  ddr_arcs,       \* the roads collected
  status          \* "search", "true" (returned), "limit" (returned true at the ceiling), "false"

vars == <<q, label, pred, list_of_nodes, roads_left, ddr_arcs, status>>

\* The roots come in the order of their set, that of addresses.
Roots == Range(q.roots)

\* patNetworkBase::computeMinimumLabel: the length of the shortest road.
minimum_label == CHOOSE x \in {q.length[r] : r \in Road} : \A r \in Road : x <= q.length[r]

Init ==
  /\ q \in Query
  /\ label = [n \in Node |-> IF n \in Roots THEN 0 ELSE DBL_MAX]
  /\ pred = [n \in Node |-> {}]
  /\ list_of_nodes = q.roots
  /\ roads_left = {}
  /\ ddr_arcs = {}
  /\ status = "search"

BetweenNodes == status = "search" /\ roads_left = {}

\* The node at the front is out of reach: the search is over.
Limit ==
  /\ BetweenNodes
  /\ list_of_nodes # <<>>
  /\ label[Head(list_of_nodes)] > q.ceil
  /\ list_of_nodes' = Tail(list_of_nodes)
  /\ status' = "limit"
  /\ UNCHANGED <<q, label, pred, roads_left, ddr_arcs>>

Take_WrongPop ==
  /\ BetweenNodes
  /\ list_of_nodes # <<>>
  /\ label[Head(list_of_nodes)] <= q.ceil
  /\ roads_left' = {r \in Road : UpNode[r] = Head(list_of_nodes)}
  /\ UNCHANGED <<q, label, pred, list_of_nodes, ddr_arcs, status>>

Take ==
  /\ BetweenNodes
  /\ list_of_nodes # <<>>
  /\ label[Head(list_of_nodes)] <= q.ceil
  /\ roads_left' = {r \in Road : UpNode[r] = Head(list_of_nodes)}
  /\ list_of_nodes' = Tail(list_of_nodes)
  /\ UNCHANGED <<q, label, pred, ddr_arcs, status>>

\* The road seen next.
road == CHOOSE r \in roads_left : \A p \in roads_left : r <= p

Through_Wrong == q.length[road]
Through == label[UpNode[road]] + q.length[road]

Better == label[DownNode[road]] > Through

\* The node goes to the front when its label, as it was before, is not
\* above the label at the front (as it is by now).
Placed(n, old, lab) ==
  IF list_of_nodes # <<>> /\ old <= lab[Head(list_of_nodes)]
  THEN <<n>> \o list_of_nodes
  ELSE Append(list_of_nodes, n)

\* The road when one of its arcs is in the domain.
Collected_Wrong == {road}
Collected == {road} \cap q.domain

See ==
  /\ status = "search"
  /\ roads_left # {}
  /\ ~Better
  /\ roads_left' = roads_left \ {road}
  /\ ddr_arcs' = ddr_arcs \cup Collected
  /\ UNCHANGED <<q, label, pred, list_of_nodes, status>>

Correct_Wrong ==
  /\ status = "search" /\ roads_left # {} /\ Better
  /\ label' = [label EXCEPT ![DownNode[road]] = Through]
  /\ ddr_arcs' = ddr_arcs \cup Collected
  /\ pred' = [pred EXCEPT ![DownNode[road]] = {road}]
  /\ list_of_nodes' = IF Contains(list_of_nodes, DownNode[road]) \/ pred[DownNode[road]] # {}
                       THEN list_of_nodes ELSE Placed(DownNode[road], label[DownNode[road]], label')
  /\ roads_left' = roads_left \ {road}
  /\ UNCHANGED <<q, status>>

\* A label below the length of the shortest road is taken for a negative
\* cycle, before the predecessor is set.
Correct ==
  /\ status = "search"
  /\ roads_left # {}
  /\ Better
  /\ label' = [label EXCEPT ![DownNode[road]] = Through]
  /\ ddr_arcs' = ddr_arcs \cup Collected
  /\ IF Through < minimum_label
     THEN /\ status' = "false"
          /\ UNCHANGED <<pred, list_of_nodes, roads_left>>
     ELSE /\ pred' = [pred EXCEPT ![DownNode[road]] = {road}]
          /\ list_of_nodes' = Placed(DownNode[road], label[DownNode[road]], label')
          /\ roads_left' = roads_left \ {road}
          /\ UNCHANGED status
  /\ UNCHANGED q

Finish ==
  /\ BetweenNodes
  /\ list_of_nodes = <<>>
  /\ status' = "true"
  /\ UNCHANGED <<q, label, pred, list_of_nodes, roads_left, ddr_arcs>>

Next == Limit \/ Take \/ See \/ Correct \/ Finish

Spec == Init /\ [][Next]_vars /\ WF_vars(Next)

-----------------------------------------------------------------------------
TypeOK ==
  /\ q \in Query
  /\ label \in [Node -> 0 .. DBL_MAX]
  /\ pred \in [Node -> SUBSET Road]
  /\ list_of_nodes \in Seq(Node)
  /\ roads_left \subseteq Road
  /\ ddr_arcs \subseteq q.domain
  /\ status \in {"search", "true", "limit", "false"}

Reached == {n \in Node : label[n] # DBL_MAX}

(***************************************************************************)
(* The predecessors lead back to a root although labels are corrected      *)
(* after they were used: a predecessor's label may have become smaller     *)
(* than the one it was given for, never larger, and so getShortestPathTo   *)
(* walks down and ends. No label gets below the length of the shortest     *)
(* road either: the search never takes a correction for a negative cycle.  *)
(***************************************************************************)
WalkBackEnds ==
  /\ status # "false"
  /\ \A n \in Reached \ Roots :
       \E r \in Road : /\ pred[n] = {r} /\ DownNode[r] = n
                       /\ UpNode[r] \in Reached
                       /\ label[UpNode[r]] + q.length[r] <= label[n]

(***************************************************************************)
(* The roads collected start within the ceiling: a path is never extended  *)
(* beyond what could be driven since the last measurement. A search the    *)
(* ceiling did not stop has the shortest distances and all roads of the    *)
(* domain that can be reached, in whichever order the deque handed out the *)
(* nodes.                                                                  *)
(***************************************************************************)
CollectsDomain ==
  /\ \A r \in ddr_arcs : label[UpNode[r]] <= q.ceil
  /\ status = "true" =>
       /\ label = Distances(q.length, Roots, "FWD")
       /\ ddr_arcs = {r \in q.domain : UpNode[r] \in Reached}

\* The search ends, however often labels are corrected.
Termination == <>(status # "search")

(***************************************************************************)
(* "If the label exceeds the distance ceiling, i.e., we have reached the   *)
(* distance limit that we can climb in the tree. Terminate the process."   *)
(* (patShortestPathGeneral.cc, lines 61-64): when the search ends there,   *)
(* no open node is within the limit.                                       *)
(***************************************************************************)
LimitReached ==
  status = "limit" => \A i \in DOMAIN list_of_nodes : label[list_of_nodes[i]] > q.ceil

=============================================================================
