-------------------------- MODULE ShortestPathTree --------------------------
(***************************************************************************)
(* One search of patRouter as a state machine: costWithoutExcludedNodes2   *)
(* and the loop of treeCost (src/src/Router/patRouter.cc), one action per  *)
(* exit of an iteration. A query is made at the start and never changes:   *)
(* the road costs, the root, the targets (none stands for the whole tree), *)
(* the excluded nodes, the direction and, when MHPath asks whether one of  *)
(* its segments is still a shortest path, the nodes of that segment in the *)
(* order of the search.                                                    *)
(***************************************************************************)
EXTENDS Router

CONSTANTS Query   \* the queries the search is started with

ASSUME QueryAssumption ==
  Query \subseteq [cost : [Road -> Nat], root : Node, targets : SUBSET Node,
                   excluded : SUBSET Node, dir : Direction, ordered : Seq(Node)]

VARIABLES
  q,              \* the query
  label,          \* m_labels, DBL_MAX for a node without a label
  pred,           \* m_predecessors, the empty set for a node without one
  list_of_nodes,  \* the open nodes
  targets_left,   \* the targets not yet taken from the list
  visited,        \* visited_sp_iter: how many ordered nodes have been met
  true_sp,        \* the verdict on the ordered nodes
  status          \* "call", "search", "done" or "thrown"

vars == <<q, label, pred, list_of_nodes, targets_left, visited, true_sp, status>>

cost == CostExcluding(q.cost, q.excluded)

\* The caller passes ordered nodes: q.ordered is empty when it does not.
Checked == q.ordered # <<>>

Init ==
  /\ q \in Query
  /\ label = [n \in Node |-> DBL_MAX]
  /\ pred = [n \in Node |-> {}]
  /\ list_of_nodes = {}
  /\ targets_left = {}
  /\ visited = 0
  /\ true_sp = TRUE
  /\ status = "call"

\* costWithoutExcludedNodes2 refuses a forbidden root or target.
Refuse ==
  /\ status = "call"
  /\ (q.targets \cup {q.root}) \cap q.excluded # {}
  /\ status' = "thrown"
  /\ UNCHANGED <<q, label, pred, list_of_nodes, targets_left, visited, true_sp>>

Begin ==
  /\ status = "call"
  /\ (q.targets \cup {q.root}) \cap q.excluded = {}
  /\ label' = [label EXCEPT ![q.root] = 0]
  /\ list_of_nodes' = {q.root}
  /\ targets_left' = q.targets
  /\ status' = "search"
  /\ UNCHANGED <<q, pred, visited, true_sp>>

Searching_Wrong == status = "search" /\ list_of_nodes # {}

\* Without targets the set holds NULL, which is never taken.
Searching ==
  /\ status = "search"
  /\ list_of_nodes # {}
  /\ q.targets = {} \/ targets_left # {}

u == FirstOf(label, list_of_nodes)

\* ordered_nodes->at(visited_sp_iter) throws beyond the last ordered node.
PastOrdered == Checked /\ visited >= Len(q.ordered)

Meets == Checked /\ ~PastOrdered /\ q.ordered[visited + 1] = u

OffOrder_Wrong == Meets /\ visited > 0 /\ pred[u] = {}

\* The node met is not reached from the ordered node before it.
OffOrder ==
  /\ Meets /\ visited > 0
  /\ \A r \in pred[u] : Near(r, q.dir) # q.ordered[visited]

\* A label below 1e-7: with costs that are not negative, a road of cost 0
\* out of the root.
NegativeCycle ==
  \E n \in Relaxed(label, cost, q.dir, u) :
    \E r \in Improving(label, cost, q.dir, u, n) : label[u] + cost[r] = 0

Expand ==
  /\ Searching
  /\ ~PastOrdered /\ ~OffOrder /\ ~NegativeCycle
  /\ label' = RelaxLabels(label, cost, q.dir, u)
  /\ pred' = RelaxPreds(pred, label, cost, q.dir, u)
  /\ list_of_nodes' = (list_of_nodes \ {u}) \cup Relaxed(label, cost, q.dir, u)
  /\ targets_left' = targets_left \ {u}
  /\ visited' = IF Meets THEN visited + 1 ELSE visited
  /\ UNCHANGED <<q, true_sp, status>>

\* The exceptions of an iteration: at() out of range, negative cycle.
Throw ==
  /\ Searching
  /\ PastOrdered \/ (~OffOrder /\ NegativeCycle)
  /\ list_of_nodes' = list_of_nodes \ {u}
  /\ status' = "thrown"
  /\ UNCHANGED <<q, label, pred, targets_left, visited, true_sp>>

\* A search that has labelled its root only is refused after the loop.
\* Without targets the message of that exception reads the first of an empty
\* set, which is undefined: "thrown" stands for whatever comes of it.
Ending == IF Cardinality({n \in Node : label[n] # DBL_MAX}) = 1 THEN "thrown" ELSE "done"

\* The segment is not a branch of the tree: the loop is left at once.
Break ==
  /\ Searching
  /\ OffOrder
  /\ list_of_nodes' = list_of_nodes \ {u}
  /\ true_sp' = FALSE
  /\ status' = Ending
  /\ UNCHANGED <<q, label, pred, targets_left, visited>>

Finish ==
  /\ status = "search"
  /\ ~Searching
  /\ true_sp' = (true_sp /\ (Checked => visited = Len(q.ordered)))
  /\ status' = Ending
  /\ UNCHANGED <<q, label, pred, list_of_nodes, targets_left, visited>>

Next == Refuse \/ Begin \/ Expand \/ Throw \/ Break \/ Finish

Spec == Init /\ [][Next]_vars /\ WF_vars(Next)

-----------------------------------------------------------------------------
TypeOK ==
  /\ q \in Query
  /\ label \in [Node -> 0 .. DBL_MAX]
  /\ pred \in [Node -> SUBSET Road]
  /\ list_of_nodes \subseteq Node
  /\ targets_left \subseteq Node
  /\ visited \in Nat
  /\ true_sp \in BOOLEAN
  /\ status \in {"call", "search", "done", "thrown"}

Settled == {n \in Node : label[n] # DBL_MAX} \ list_of_nodes

(***************************************************************************)
(* A node that has left the list has its final, optimal label: whatever    *)
(* the ties and however many times it was relabelled while it was open.    *)
(* newSpliceSegmentAB reads the tree of a search stopped at its target,    *)
(* and is right to do so only because of this.                             *)
(***************************************************************************)
SettledOptimal ==
  status # "thrown" =>
    \A n \in Settled : label[n] = Distances(cost, {q.root}, q.dir)[n]

(***************************************************************************)
(* The predecessors are a tree of exactly the labelled nodes: the road     *)
(* that getShortestPathTo follows leaves a settled node and accounts for   *)
(* the label, so the walk back reaches the root and never a forbidden node.*)
(***************************************************************************)
TreeOfLabels ==
  \A n \in Node :
    IF label[n] = DBL_MAX \/ n = q.root THEN pred[n] = {}
    ELSE \E r \in Road : /\ pred[n] = {r} /\ Far(r, q.dir) = n
                         /\ Near(r, q.dir) \in Settled
                         /\ label[n] = label[Near(r, q.dir)] + cost[r]

\* No road of a search that goes through ever labels an excluded node.
ForbiddenUnlabelled ==
  \A n \in q.excluded : label[n] = DBL_MAX

\* What MHPath::checkSpliceableAB and BC ask: the ordered nodes, part of a path
\* that visits none twice, lead along roads from the root to the only target;
\* the excluded nodes lie elsewhere on the path.
SegmentCheck ==
  LET ord == q.ordered
  IN  /\ Len(ord) > 1 /\ ord[1] = q.root /\ q.targets = {ord[Len(ord)]}
      /\ \A i, j \in DOMAIN ord : ord[i] = ord[j] => i = j
      /\ \A i \in DOMAIN ord : ord[i] \notin q.excluded
      /\ \A i \in 1 .. Len(ord) - 1 :
           \E r \in Road : Near(r, q.dir) = ord[i] /\ Far(r, q.dir) = ord[i+1]
      /\ \A r \in Road : q.cost[r] \in 1 .. DBL_MAX - 1

(***************************************************************************)
(* The verdict on the fly (ordered nodes met in turn, each below the one   *)
(* before) is the verdict on the finished tree: the segment is the branch  *)
(* getShortestPathTo would return. Stopping at the first mismatch, or at   *)
(* the target, never changes it.                                           *)
(***************************************************************************)
VerdictIsTreePath ==
  (status = "done" /\ SegmentCheck) =>
    LET target == q.ordered[Len(q.ordered)]
        route == RouteIn(TreeCost(cost, q.root, target, q.dir).pred, q.root, target, q.dir)
        len == Len(q.ordered)
    IN  true_sp = (route = IF q.dir = "FWD" THEN q.ordered
                           ELSE [i \in 1 .. len |-> q.ordered[len + 1 - i]])

\* A segment check ends with a verdict: ordered_nodes->at never runs past the
\* last node, the root and target are allowed and the tree is not trivial.
SegmentCheckNeverThrows ==
  SegmentCheck => status # "thrown"

\* A node that was taken from the list is never put back.
SettledStays ==
  [][status = "search" /\ status' # "thrown" => \A n \in Settled : n \notin list_of_nodes']_vars

\* Every search ends, whatever the costs, the ties and the cycles.
Termination == <>(status \in {"done", "thrown"})

=============================================================================
