---------------------- MODULE ShortestPathTree_proofs -----------------------
(***************************************************************************)
(* What holds of every search of patRouter, on every network, with every   *)
(* cost: the predecessors are a tree of the labelled nodes, a settled node *)
(* is never opened again, its label is the cost of the cheapest walk that  *)
(* avoids the forbidden nodes, and no forbidden node is ever reached. And  *)
(* of every check of a segment: it gives a verdict, and the right one.     *)
(***************************************************************************)
EXTENDS ShortestPathTree, Router_proofs

-----------------------------------------------------------------------------
(* Type correctness.                                                       *)

\* The parts of a query.
LEMMA QueryType ==
  ASSUME q \in Query
  PROVE  /\ q.root \in Node /\ q.targets \in SUBSET Node /\ q.excluded \in SUBSET Node
         /\ q.dir \in Direction
         /\ cost \in [Road -> Nat]
<1>1. q \in [cost : [Road -> Nat], root : Node, targets : SUBSET Node,
              excluded : SUBSET Node, dir : Direction, ordered : Seq(Node)]
  BY QueryAssumption
<1>2. DBL_MAX \in Nat
  BY NetworkAssumption
<1>3. cost \in [Road -> Nat]
  BY <1>1, <1>2 DEF cost, CostExcluding
<1> QED
  BY <1>1, <1>3

\* The node taken next, when there is one.
LEMMA FirstOpen ==
  ASSUME TypeOK, Searching
  PROVE  u \in list_of_nodes /\ u \in Node /\ \A b \in list_of_nodes : label[u] <= label[b]
<1>1. label \in [Node -> Nat]
  BY NetworkAssumption DEF TypeOK
<1>2. list_of_nodes \in SUBSET Node /\ list_of_nodes # {}
  BY DEF TypeOK, Searching
<1> QED
  BY <1>1, <1>2, FirstOfIsFirst DEF u

\* Every reachable state of a search is well typed: labels are costs, predecessors are
\* roads of the network, and the list holds nodes.
THEOREM TypeCorrect == Spec => []TypeOK
<1>1. Init => TypeOK
  <2> SUFFICES ASSUME Init PROVE TypeOK
    OBVIOUS
  <2>1. DBL_MAX \in 0 .. DBL_MAX
    BY NetworkAssumption
  <2> QED
    BY <2>1 DEF Init, TypeOK
<1>2. TypeOK /\ [Next]_vars => TypeOK'
  <2> SUFFICES ASSUME TypeOK, [Next]_vars PROVE TypeOK'
    OBVIOUS
  <2> USE DEF TypeOK
  <2>q. /\ q.root \in Node /\ q.targets \in SUBSET Node /\ q.dir \in Direction
        /\ cost \in [Road -> Nat]
    BY QueryType
  <2>1. CASE Refuse
    BY <2>1 DEF Refuse
  <2>2. CASE Begin
    <3>1. 0 \in 0 .. DBL_MAX
      BY NetworkAssumption
    <3>2. label' \in [Node -> 0 .. DBL_MAX]
      BY <2>2, <3>1, <2>q DEF Begin
    <3> QED
      BY <2>2, <3>2, <2>q DEF Begin
  <2>3. CASE Expand
    <3>1. u \in Node
      BY <2>3, FirstOpen DEF Expand
    <3>2. label' \in [Node -> 0 .. DBL_MAX] /\ pred' \in [Node -> SUBSET Road]
      BY <2>3, <2>q, <3>1, RelaxType DEF Expand
    <3>3. list_of_nodes' \subseteq Node
      BY <2>3 DEF Expand, Relaxed
    <3>4. visited' \in Nat /\ targets_left' \subseteq Node
      BY <2>3 DEF Expand
    <3> QED
      BY <2>3, <3>2, <3>3, <3>4 DEF Expand
  <2>4. CASE Throw
    BY <2>4 DEF Throw
  <2>5. CASE Break
    BY <2>5 DEF Break, Ending
  <2>6. CASE Finish
    BY <2>6 DEF Finish, Ending
  <2>7. CASE UNCHANGED vars
    BY <2>7 DEF vars
  <2> QED
    BY <2>1, <2>2, <2>3, <2>4, <2>5, <2>6, <2>7 DEF Next
<1> QED
  BY <1>1, <1>2, PTL DEF Spec

-----------------------------------------------------------------------------
(***************************************************************************)
(* The inductive invariant. Costs are not negative and the open node of    *)
(* least label is expanded, so no settled label is above an open one: that *)
(* is why a road never improves the label of a settled node, and why the   *)
(* label a predecessor accounts for does not move any more.                *)
(***************************************************************************)
NothingYet ==
  status = "call" => /\ list_of_nodes = {}
                     /\ \A n \in Node : label[n] = DBL_MAX /\ pred[n] = {}

RootFirst ==
  status = "search" => label[q.root] = 0 /\ q.root \notin q.excluded

OpenLabelled ==
  \A n \in list_of_nodes : label[n] # DBL_MAX

Frontier ==
  status = "search" => \A s \in Settled, n \in list_of_nodes : label[s] <= label[n]

IInv ==
  /\ TypeOK /\ NothingYet /\ RootFirst /\ OpenLabelled /\ Frontier
  /\ TreeOfLabels /\ ForbiddenUnlabelled

\* What one iteration does to every node, from the invariant.
LEMMA OneExpansion ==
  ASSUME IInv, Expand
  PROVE  /\ u \in list_of_nodes /\ u \in Node
         /\ label[u] # DBL_MAX
         /\ \A b \in list_of_nodes : label[u] <= label[b]
         /\ \A s \in Settled \cup {u} :
              s \notin Relaxed(label, cost, q.dir, u) /\ label'[s] = label[s] /\ pred'[s] = pred[s]
         /\ Settled' = Settled \cup {u}
<1> USE DEF IInv, TypeOK
<1>1. /\ u \in list_of_nodes /\ u \in Node
      /\ \A b \in list_of_nodes : label[u] <= label[b]
  BY FirstOpen DEF Expand
<1>2. label[u] # DBL_MAX
  BY <1>1 DEF OpenLabelled
<1>3. q.dir \in Direction /\ cost \in [Road -> Nat]
  BY QueryType
<1>4. ASSUME NEW s \in Settled \cup {u}
      PROVE  s \notin Relaxed(label, cost, q.dir, u) /\ label'[s] = label[s] /\ pred'[s] = pred[s]
  <2>1. s \in Node /\ label[s] <= label[u]
    <3>1. CASE s \in Settled
      BY <1>1, <3>1 DEF Settled, Frontier, Expand, Searching
    <3>2. CASE s = u
      BY <1>1, <3>2
    <3> QED
      BY <3>1, <3>2
  <2>2. label[s] \in Nat /\ label[u] \in Nat
    BY <1>1, <2>1
  <2>3. s \notin Relaxed(label, cost, q.dir, u)
    <3>1. \A r \in Road : ~(label[s] > label[u] + cost[r])
      BY <1>3, <2>1, <2>2
    <3> QED
      BY <3>1 DEF Relaxed, Improving
  <2> QED
    BY <1>1, <1>3, <2>1, <2>3, RelaxedOrKept DEF Expand
<1>5. ASSUME NEW n \in Node
      PROVE  n \in Settled' <=> n \in Settled \cup {u}
  <2>1. CASE n \in Settled \cup {u}
    <3>1. n \notin list_of_nodes' /\ label'[n] # DBL_MAX
      BY <1>2, <1>4, <2>1 DEF Settled, Expand
    <3> QED
      BY <2>1, <3>1 DEF Settled
  <2>2. CASE n \notin Settled \cup {u} /\ n \in list_of_nodes
    <3>1. n \in list_of_nodes'
      BY <2>2 DEF Expand
    <3> QED
      BY <2>2, <3>1 DEF Settled
  <2>3. CASE n \notin Settled \cup {u} /\ n \notin list_of_nodes
    <3>1. label[n] = DBL_MAX
      BY <2>3 DEF Settled
    <3>2. CASE n \in Relaxed(label, cost, q.dir, u)
      BY <2>3, <3>2 DEF Settled, Expand
    <3>3. CASE n \notin Relaxed(label, cost, q.dir, u)
      <4>1. label'[n] = DBL_MAX
        BY <1>1, <1>3, <3>1, <3>3, RelaxedOrKept DEF Expand
      <4> QED
        BY <2>3, <4>1 DEF Settled
    <3> QED
      BY <3>2, <3>3
  <2> QED
    BY <2>1, <2>2, <2>3
<1>6. Settled \cup {u} \subseteq Node /\ Settled' \subseteq Node
  BY <1>1 DEF Settled
<1> QED
  BY <1>1, <1>2, <1>4, <1>5, <1>6

\* Before treeCost has begun.
LEMMA InitIInv == Init => IInv
<1> SUFFICES ASSUME Init PROVE IInv
  OBVIOUS
<1>1. DBL_MAX \in 0 .. DBL_MAX
  BY NetworkAssumption
<1>2. TypeOK
  BY <1>1 DEF Init, TypeOK
<1>3. NothingYet /\ RootFirst /\ OpenLabelled /\ Frontier
  BY DEF Init, NothingYet, RootFirst, OpenLabelled, Frontier
<1>4. TreeOfLabels
  BY DEF Init, TreeOfLabels
<1>5. ForbiddenUnlabelled
  BY <1>2, QueryType DEF Init, TypeOK, ForbiddenUnlabelled
<1> QED
  BY <1>2, <1>3, <1>4, <1>5 DEF IInv

\* The root is labelled and put into the list.
LEMMA BeginIInv ==
  ASSUME IInv, Begin, TypeOK'
  PROVE  IInv'
<1> USE DEF IInv, TypeOK
<1>1. q.root \in Node /\ q.excluded \in SUBSET Node /\ 0 # DBL_MAX
  BY QueryType, NetworkAssumption
<1>2. /\ label'[q.root] = 0 /\ \A n \in Node \ {q.root} : label'[n] = DBL_MAX
      /\ \A n \in Node : pred'[n] = {}
      /\ list_of_nodes' = {q.root} /\ q' = q /\ status' = "search"
  BY <1>1 DEF Begin, NothingYet
<1>3. Settled' = {}
  BY <1>2 DEF Settled
<1>4. q.root \notin q.excluded
  BY DEF Begin
<1>5. NothingYet' /\ RootFirst' /\ OpenLabelled' /\ Frontier'
  BY <1>1, <1>2, <1>3, <1>4 DEF NothingYet, RootFirst, OpenLabelled, Frontier
<1>6. TreeOfLabels'
  BY <1>2 DEF TreeOfLabels
<1>7. ForbiddenUnlabelled'
  BY <1>1, <1>2, <1>4 DEF ForbiddenUnlabelled
<1> QED
  BY <1>5, <1>6, <1>7

\* One iteration of the loop of treeCost.
LEMMA ExpandIInv ==
  ASSUME IInv, Expand, TypeOK'
  PROVE  IInv'
<1> USE DEF IInv
<1>1. /\ u \in list_of_nodes /\ u \in Node /\ label[u] # DBL_MAX
      /\ \A b \in list_of_nodes : label[u] <= label[b]
      /\ \A s \in Settled \cup {u} :
           s \notin Relaxed(label, cost, q.dir, u) /\ label'[s] = label[s] /\ pred'[s] = pred[s]
      /\ Settled' = Settled \cup {u}
  BY OneExpansion
<1>2. /\ q.dir \in Direction /\ cost \in [Road -> Nat] /\ q.excluded \in SUBSET Node
      /\ q.root \in Node /\ label \in [Node -> 0 .. DBL_MAX] /\ label' \in [Node -> 0 .. DBL_MAX]
      /\ pred \in [Node -> SUBSET Road] /\ DBL_MAX \in Nat /\ list_of_nodes \subseteq Node
  BY QueryType, NetworkAssumption DEF TypeOK
<1>3. /\ q' = q /\ cost' = cost /\ status = "search" /\ status' = "search"
      /\ label' = RelaxLabels(label, cost, q.dir, u)
      /\ pred' = RelaxPreds(pred, label, cost, q.dir, u)
      /\ list_of_nodes' = (list_of_nodes \ {u}) \cup Relaxed(label, cost, q.dir, u)
  BY DEF Expand, Searching, cost
\* What becomes of the label and predecessor of a node, in the three ways needed.
<1>4. \A n \in Node : IF n \in Relaxed(label, cost, q.dir, u)
         THEN \E r \in Road : /\ Near(r, q.dir) = u /\ Far(r, q.dir) = n
                              /\ label[n] > label[u] + cost[r]
                              /\ label'[n] = label[u] + cost[r]
                              /\ pred'[n] = {r}
         ELSE label'[n] = label[n] /\ pred'[n] = pred[n]
  <2> SUFFICES ASSUME NEW n \in Node
               PROVE  IF n \in Relaxed(label, cost, q.dir, u)
                      THEN \E r \in Road : /\ Near(r, q.dir) = u /\ Far(r, q.dir) = n
                                           /\ label[n] > label[u] + cost[r]
                                           /\ label'[n] = label[u] + cost[r]
                                           /\ pred'[n] = {r}
                      ELSE label'[n] = label[n] /\ pred'[n] = pred[n]
    OBVIOUS
  <2>1. /\ label \in [Node -> 0 .. DBL_MAX] /\ pred \in [Node -> SUBSET Road] /\ u \in Node
        /\ cost \in [Road -> Nat] /\ q.dir \in Direction
    BY <1>1, <1>2
  <2>2. IF n \in Relaxed(label, cost, q.dir, u)
        THEN \E r \in Road : /\ Near(r, q.dir) = u /\ Far(r, q.dir) = n
                             /\ label[n] > label[u] + cost[r]
                             /\ RelaxLabels(label, cost, q.dir, u)[n] = label[u] + cost[r]
                             /\ RelaxPreds(pred, label, cost, q.dir, u)[n] = {r}
        ELSE /\ RelaxLabels(label, cost, q.dir, u)[n] = label[n]
             /\ RelaxPreds(pred, label, cost, q.dir, u)[n] = pred[n]
    BY ONLY <2>1, RelaxedOrKept, n \in Node
  <2>3. label' = RelaxLabels(label, cost, q.dir, u) /\ pred' = RelaxPreds(pred, label, cost, q.dir, u)
    BY <1>3
  <2> QED
    BY ONLY <2>2, <2>3
<1>5. \A n \in Node : n \in Relaxed(label, cost, q.dir, u) => label[u] <= label'[n] /\ label'[n] < DBL_MAX
  <2> SUFFICES ASSUME NEW n \in Node, n \in Relaxed(label, cost, q.dir, u)
               PROVE  label[u] <= label'[n] /\ label'[n] < DBL_MAX
    OBVIOUS
  <2>1. PICK r \in Road : label[n] > label[u] + cost[r] /\ label'[n] = label[u] + cost[r]
    BY <1>4
  <2>2. cost[r] \in Nat /\ label[u] \in Nat /\ label[n] \in Nat /\ label[n] <= DBL_MAX
    BY <1>1, <1>2
  <2> QED
    BY <1>2, <2>1, <2>2
<1>6. NothingYet' /\ RootFirst'
  <2>1. label'[q.root] = 0
    <3>1. label[q.root] = 0
      BY <1>3 DEF RootFirst
    <3>2. q.root \notin Relaxed(label, cost, q.dir, u)
      <4>1. \A r \in Road : ~(0 > label[u] + cost[r])
        BY <1>1, <1>2
      <4> QED
        BY <3>1, <4>1 DEF Relaxed, Improving
    <3> QED
      BY <1>2, <1>4, <3>1, <3>2
  <2> QED
    BY <1>3, <2>1 DEF NothingYet, RootFirst
<1>7. OpenLabelled'
  <2> SUFFICES ASSUME NEW n \in list_of_nodes'
               PROVE  label'[n] # DBL_MAX
    BY DEF OpenLabelled
  <2>1. CASE n \in Relaxed(label, cost, q.dir, u)
    BY <1>2, <1>5, <2>1 DEF Relaxed
  <2>2. CASE n \notin Relaxed(label, cost, q.dir, u)
    <3>1. n \in list_of_nodes /\ n \in Node
      BY <1>2, <1>3, <2>2
    <3> QED
      BY <1>4, <2>2, <3>1 DEF OpenLabelled
  <2> QED
    BY <2>1, <2>2
<1>8. Frontier'
  <2> SUFFICES ASSUME NEW s \in Settled', NEW n \in list_of_nodes'
               PROVE  label'[s] <= label'[n]
    BY DEF Frontier
  <2>1. s \in Node /\ label'[s] = label[s] /\ label[s] <= label[u]
    <3>1. s \in Settled \/ s = u
      BY <1>1
    <3>2. CASE s \in Settled
      BY <1>1, <1>3, <3>2 DEF Settled, Frontier
    <3>3. CASE s = u
      BY <1>1, <1>2, <3>3
    <3> QED
      BY <3>1, <3>2, <3>3
  <2>2. n \in Node /\ label[u] <= label'[n]
    <3>1. CASE n \in Relaxed(label, cost, q.dir, u)
      BY <1>5, <3>1 DEF Relaxed
    <3>2. CASE n \notin Relaxed(label, cost, q.dir, u)
      <4>1. n \in list_of_nodes
        BY <1>3, <3>2
      <4> QED
        BY <1>1, <1>2, <1>4, <3>2, <4>1
    <3> QED
      BY <3>1, <3>2
  <2>3. label[s] \in Nat /\ label[u] \in Nat /\ label'[n] \in Nat
    BY <1>1, <1>2, <2>1, <2>2
  <2> QED
    BY <2>1, <2>2, <2>3
<1>9. TreeOfLabels'
  <2> SUFFICES ASSUME NEW n \in Node
               PROVE  IF label'[n] = DBL_MAX \/ n = q.root THEN pred'[n] = {}
                      ELSE \E r \in Road : /\ pred'[n] = {r} /\ Far(r, q.dir) = n
                                           /\ Near(r, q.dir) \in Settled'
                                           /\ label'[n] = label'[Near(r, q.dir)] + cost[r]
    BY <1>3 DEF TreeOfLabels
  <2>1. CASE n \in Relaxed(label, cost, q.dir, u)
    <3>1. PICK r \in Road : /\ Near(r, q.dir) = u /\ Far(r, q.dir) = n
                            /\ label'[n] = label[u] + cost[r] /\ pred'[n] = {r}
      BY <1>4, <2>1
    <3>2. label'[n] # DBL_MAX
      BY <1>2, <1>5, <2>1
    <3>3. n # q.root
      <4>1. label[q.root] = 0 /\ \A p \in Road : ~(0 > label[u] + cost[p])
        BY <1>1, <1>2, <1>3 DEF RootFirst
      <4> QED
        BY <2>1, <4>1 DEF Relaxed, Improving
    <3> QED
      BY <1>1, <3>1, <3>2, <3>3
  <2>2. CASE n \notin Relaxed(label, cost, q.dir, u)
    <3>1. label'[n] = label[n] /\ pred'[n] = pred[n]
      BY <1>4, <2>2
    <3>2. CASE label[n] = DBL_MAX \/ n = q.root
      BY <3>1, <3>2 DEF TreeOfLabels
    <3>3. CASE ~(label[n] = DBL_MAX \/ n = q.root)
      <4>1. PICK r \in Road : /\ pred[n] = {r} /\ Far(r, q.dir) = n
                              /\ Near(r, q.dir) \in Settled
                              /\ label[n] = label[Near(r, q.dir)] + cost[r]
        BY <3>3 DEF TreeOfLabels
      <4>2. Near(r, q.dir) \in Settled' /\ label'[Near(r, q.dir)] = label[Near(r, q.dir)]
        BY <1>1, <4>1
      <4> QED
        BY <3>1, <3>3, <4>1, <4>2
    <3> QED
      BY <3>2, <3>3
  <2> QED
    BY <2>1, <2>2
<1>10. ForbiddenUnlabelled'
  <2> SUFFICES ASSUME NEW n \in q.excluded
               PROVE  label'[n] = DBL_MAX
    BY <1>3 DEF ForbiddenUnlabelled
  <2>1. n \in Node /\ label[n] = DBL_MAX
    BY <1>2 DEF ForbiddenUnlabelled
  <2>2. \A r \in Road : Far(r, q.dir) = n => cost[r] = DBL_MAX
    BY NetworkAssumption DEF cost, CostExcluding, Far
  <2>3. \A r \in Road : Far(r, q.dir) = n => ~(label[n] > label[u] + cost[r])
    <3>1. label[u] \in Nat
      BY <1>1, <1>2
    <3> QED
      BY <1>2, <2>1, <2>2, <3>1
  <2>4. n \notin Relaxed(label, cost, q.dir, u)
    BY <2>3 DEF Relaxed, Improving
  <2> QED
    BY <1>4, <2>1, <2>4
<1> QED
  BY <1>6, <1>7, <1>8, <1>9, <1>10

\* A search that stops, in whichever way, changes neither labels nor tree.
LEMMA StopIInv ==
  ASSUME IInv, TypeOK', Refuse \/ Throw \/ Break \/ Finish
  PROVE  IInv'
<1> USE DEF IInv
<1>1. /\ q' = q /\ cost' = cost /\ label' = label /\ pred' = pred
      /\ list_of_nodes' \subseteq list_of_nodes
      /\ status' \in {"done", "thrown"}
  BY DEF Refuse, Throw, Break, Finish, Ending, cost
<1>2. Settled \subseteq Settled'
  BY <1>1 DEF Settled
<1>3. NothingYet' /\ RootFirst' /\ OpenLabelled' /\ Frontier'
  BY <1>1 DEF NothingYet, RootFirst, OpenLabelled, Frontier
<1>4. TreeOfLabels'
  <2> SUFFICES ASSUME NEW n \in Node
               PROVE  IF label[n] = DBL_MAX \/ n = q.root THEN pred[n] = {}
                      ELSE \E r \in Road : /\ pred[n] = {r} /\ Far(r, q.dir) = n
                                           /\ Near(r, q.dir) \in Settled'
                                           /\ label[n] = label[Near(r, q.dir)] + cost[r]
    BY <1>1 DEF TreeOfLabels
  <2> QED
    BY <1>2 DEF TreeOfLabels
<1>5. ForbiddenUnlabelled'
  BY <1>1 DEF ForbiddenUnlabelled
<1> QED
  BY <1>3, <1>4, <1>5

\* The open nodes are labelled, the root comes first, and no open label is below a settled
\* one, in every reachable state: what the theorems about the tree rest on.
THEOREM Invariance == Spec => []IInv
<1>1. IInv /\ TypeOK' /\ [Next]_vars => IInv'
  <2> SUFFICES ASSUME IInv, TypeOK', [Next]_vars PROVE IInv'
    OBVIOUS
  <2>1. CASE Begin
    BY <2>1, BeginIInv
  <2>2. CASE Expand
    BY <2>2, ExpandIInv
  <2>3. CASE Refuse \/ Throw \/ Break \/ Finish
    BY <2>3, StopIInv
  <2>4. CASE UNCHANGED vars
    BY <2>4 DEF vars, IInv, TypeOK, NothingYet, RootFirst, OpenLabelled, Frontier, TreeOfLabels,
                ForbiddenUnlabelled, Settled, cost
  <2> QED
    BY <2>1, <2>2, <2>3, <2>4 DEF Next
<1> QED
  BY <1>1, InitIInv, TypeCorrect, PTL DEF Spec

-----------------------------------------------------------------------------
(***************************************************************************)
(* The walk back along the predecessors, from any labelled node, goes      *)
(* through settled nodes whose labels account for each other: what         *)
(* getShortestPathTo rests on, at any time during the search.              *)
(***************************************************************************)
THEOREM TreeOfLabelsAlways == Spec => []TreeOfLabels
<1>1. IInv => TreeOfLabels
  BY DEF IInv
<1> QED
  BY <1>1, Invariance, PTL

(***************************************************************************)
(* patLinkCostExcludingNodes keeps every excluded node out of the tree,    *)
(* although it only prices the roads that touch one.                       *)
(***************************************************************************)
THEOREM ForbiddenNeverReached == Spec => []ForbiddenUnlabelled
<1>1. IInv => ForbiddenUnlabelled
  BY DEF IInv
<1> QED
  BY <1>1, Invariance, PTL

(***************************************************************************)
(* A node taken from the list is never put back, so that an iteration is   *)
(* made at most once per node, whatever the costs and the ties.            *)
(***************************************************************************)
THEOREM SettledNodesStay == Spec => SettledStays
<1> DEFINE Stays == (status = "search" /\ status' # "thrown" => \A n \in Settled : n \notin list_of_nodes')
<1>1. IInv /\ [Next]_vars => Stays
  <2> SUFFICES ASSUME IInv, [Next]_vars, status = "search",
                      NEW n \in Settled
               PROVE  n \notin list_of_nodes'
    OBVIOUS
  <2>1. n \notin list_of_nodes
    BY DEF Settled
  <2>2. CASE Expand
    BY <2>1, <2>2, OneExpansion DEF Expand
  <2>3. CASE ~Expand
    <3>1. list_of_nodes' \subseteq list_of_nodes
      BY <2>3 DEF Next, Refuse, Begin, Throw, Break, Finish, vars
    <3> QED
      BY <2>1, <3>1
  <2> QED
    BY <2>2, <2>3
<1>2. IInv /\ [Next]_vars => [Stays]_vars
  BY <1>1
<1> QED
  BY <1>2, Invariance, PTL DEF Spec, SettledStays

-----------------------------------------------------------------------------
(* Settled labels are the shortest distances.                              *)

\* The distances from the root that no road contradicts. The shortest ones
\* are the largest of them.
Consistent ==
  {d \in [Node -> 0 .. DBL_MAX] :
     /\ d[q.root] = 0
     /\ \A r \in Road : d[Far(r, q.dir)] <= d[Near(r, q.dir)] + cost[r]}

NoneAbove == \A d \in Consistent, n \in Node : d[n] <= label[n]

RootAtZero == (\E n \in Node : label[n] # DBL_MAX) => label[q.root] = 0

\* While the search goes on, no road from a settled node lowers a label.
Spread ==
  status = "search" =>
    \A r \in Road : Near(r, q.dir) \in Settled => label[Far(r, q.dir)] <= label[Near(r, q.dir)] + cost[r]

\* However it ended: none does from a node below a settled one. (The search
\* may be left with a node taken and not expanded.)
Covered ==
  \A s \in Settled, r \in Road :
    label[Near(r, q.dir)] < label[s] => label[Far(r, q.dir)] <= label[Near(r, q.dir)] + cost[r]

OptInv == NoneAbove /\ RootAtZero /\ Spread /\ Covered

\* One expansion.
LEMMA ExpandOptInv ==
  ASSUME IInv, OptInv, Expand, TypeOK', IInv'
  PROVE  OptInv'
<1>1. /\ u \in list_of_nodes /\ u \in Node /\ label[u] # DBL_MAX
      /\ \A b \in list_of_nodes : label[u] <= label[b]
      /\ \A s \in Settled \cup {u} : label'[s] = label[s]
      /\ Settled' = Settled \cup {u}
  BY OneExpansion
<1>2. /\ q.dir \in Direction /\ cost \in [Road -> Nat] /\ q' = q /\ cost' = cost /\ Consistent' = Consistent
      /\ label \in [Node -> 0 .. DBL_MAX] /\ label' \in [Node -> 0 .. DBL_MAX] /\ DBL_MAX \in Nat
      /\ pred \in [Node -> SUBSET Road] /\ Settled \subseteq Node
      /\ label' = RelaxLabels(label, cost, q.dir, u) /\ status = "search" /\ status' = "search"
  BY QueryType, NetworkAssumption DEF IInv, TypeOK, Expand, Searching, cost, Consistent, Settled
<1> DEFINE far(r) == Far(r, q.dir)
           near(r) == Near(r, q.dir)
<1>3. \A r \in Road : near(r) \in Node /\ far(r) \in Node /\ cost[r] \in Nat
  BY <1>2, EndsAreNodes
<1>4. ASSUME NEW n \in Node
      PROVE  /\ label'[n] \in Nat /\ label[n] \in Nat
             /\ \/ label'[n] = label[n]
                \/ \E r \in Road : near(r) = u /\ far(r) = n /\ label'[n] = label[u] + cost[r]
                                   /\ label[n] > label[u] + cost[r]
  <2>1. label'[n] \in Nat /\ label[n] \in Nat
    BY <1>2
  <2>2. CASE n \in Relaxed(label, cost, q.dir, u)
    BY <1>1, <1>2, <2>1, <2>2, RelaxedOrKept
  <2>3. CASE n \notin Relaxed(label, cost, q.dir, u)
    BY <1>1, <1>2, <2>1, <2>3, RelaxedOrKept
  <2> QED
    BY <2>2, <2>3
<1>5. \A n \in Node : label'[n] <= label[n] /\ (label'[n] # label[n] => label[u] <= label'[n])
  <2> SUFFICES ASSUME NEW n \in Node, label'[n] # label[n]
               PROVE  label'[n] <= label[n] /\ label[u] <= label'[n]
    BY <1>4
  <2>1. PICK r \in Road : label'[n] = label[u] + cost[r] /\ label[n] > label[u] + cost[r]
    BY <1>4
  <2> QED
    BY <1>1, <1>3, <1>4, <2>1
<1>6. \A r \in Road : near(r) = u => label'[far(r)] <= label[u] + cost[r]
  BY <1>1, <1>2, NothingToImprove
<1>7. Spread'
  <2> SUFFICES ASSUME NEW r \in Road, near(r) \in Settled'
               PROVE  label'[far(r)] <= label'[near(r)] + cost[r]
    BY <1>2 DEF Spread
  <2>1. CASE near(r) = u
    BY <1>1, <1>6, <2>1
  <2>2. CASE near(r) # u
    <3>1. near(r) \in Settled /\ label'[near(r)] = label[near(r)]
      BY <1>1, <2>2
    <3>2. label[far(r)] <= label[near(r)] + cost[r]
      BY <1>2, <3>1 DEF OptInv, Spread
    <3>3. label'[far(r)] <= label[far(r)]
      BY <1>3, <1>5
    <3> HIDE DEF far, near
    <3> QED
      BY <1>3, <1>4, <3>1, <3>2, <3>3
  <2> QED
    BY <2>1, <2>2
<1>8. \A s \in Settled : label[s] <= label[u]
  BY <1>1, <1>2 DEF IInv, Frontier
<1>9. Covered'
  <2> SUFFICES ASSUME NEW s \in Settled', NEW r \in Road, label'[near(r)] < label'[s]
               PROVE  near(r) \in Settled'
    BY <1>2, <1>7 DEF Covered, Spread
  <2>1. s \in Node /\ label'[s] = label[s] /\ label[s] <= label[u]
    BY <1>1, <1>2, <1>4, <1>8
  <2>2. near(r) \in Node
    BY <1>3
  <2> HIDE DEF near
  <2>3. label'[near(r)] < label[u]
    BY <1>1, <1>4, <2>1, <2>2
  <2>4. label[near(r)] = label'[near(r)]
    BY <1>1, <1>4, <1>5, <2>2, <2>3
  <2>5. near(r) \notin list_of_nodes
    BY <1>1, <1>4, <2>2, <2>3, <2>4
  <2>6. label[near(r)] # DBL_MAX
    BY <1>1, <1>2, <2>3, <2>4
  <2> QED
    BY <1>1, <2>2, <2>5, <2>6 DEF Settled
<1>10. NoneAbove'
  <2> SUFFICES ASSUME NEW d \in Consistent, NEW n \in Node
               PROVE  d[n] <= label'[n]
    BY <1>2 DEF NoneAbove
  <2>1. d[n] <= label[n] /\ d[u] <= label[u] /\ d[n] \in Nat /\ d[u] \in Nat
    BY <1>1, <1>2 DEF OptInv, NoneAbove, Consistent
  <2>2. CASE label'[n] = label[n]
    BY <2>1, <2>2
  <2>3. CASE label'[n] # label[n]
    <3>1. PICK r \in Road : near(r) = u /\ far(r) = n /\ label'[n] = label[u] + cost[r]
      BY <1>4, <2>3
    <3>2. d[n] <= d[u] + cost[r]
      BY <3>1 DEF Consistent
    <3> QED
      BY <1>1, <1>3, <1>4, <2>1, <3>1, <3>2
  <2> QED
    BY <2>2, <2>3
<1>11. RootAtZero'
  BY <1>2 DEF IInv, RootFirst, RootAtZero
<1> QED
  BY <1>7, <1>9, <1>10, <1>11 DEF OptInv

\* A search that stops may leave the node it took unexpanded: no label of a
\* settled node is above that node's.
LEMMA StopOptInv ==
  ASSUME IInv, OptInv, Refuse \/ Throw \/ Break \/ Finish
  PROVE  OptInv'
<1>1. /\ q' = q /\ cost' = cost /\ Consistent' = Consistent /\ label' = label
      /\ status' # "search"
  BY DEF Refuse, Throw, Break, Finish, Ending, cost, Consistent
<1>2. NoneAbove' /\ RootAtZero' /\ Spread'
  BY <1>1 DEF OptInv, NoneAbove, RootAtZero, Spread
<1>3. CASE list_of_nodes' = list_of_nodes
  <2>1. Settled' = Settled
    BY <1>1, <1>3 DEF Settled
  <2> QED
    BY <1>1, <1>2, <2>1 DEF OptInv, Covered
<1>4. CASE Searching /\ list_of_nodes' = list_of_nodes \ {u}
  <2>1. /\ u \in list_of_nodes /\ u \in Node /\ \A b \in list_of_nodes : label[u] <= label[b]
    BY <1>4, FirstOpen DEF IInv
  <2>2. status = "search" /\ label \in [Node -> 0 .. DBL_MAX] /\ DBL_MAX \in Nat /\ q.dir \in Direction
    BY <1>4, QueryType, NetworkAssumption DEF Searching, IInv, TypeOK
  <2>3. \A s \in Settled' : s \in Node /\ label[s] <= label[u]
    <3> SUFFICES ASSUME NEW s \in Settled', s # u
                 PROVE  s \in Node /\ label[s] <= label[u]
      BY <2>1, <2>2
    <3>1. s \in Settled
      BY <1>1, <1>4 DEF Settled
    <3> QED
      BY <2>1, <2>2, <3>1 DEF IInv, Frontier, Settled
  <2>4. Covered'
    <3> SUFFICES ASSUME NEW s \in Settled', NEW r \in Road,
                        label[Near(r, q.dir)] < label[s]
                 PROVE  Near(r, q.dir) \in Settled
      BY <1>1, <2>2 DEF Covered, OptInv, Spread
    <3>1. Near(r, q.dir) \in Node
      BY <2>2, EndsAreNodes
    <3>2. s \in Node /\ label[s] <= label[u]
      BY <2>3
    <3>3. label[s] \in 0 .. DBL_MAX /\ label[Near(r, q.dir)] \in 0 .. DBL_MAX /\ label[u] \in 0 .. DBL_MAX
      BY <2>1, <2>2, <3>1, <3>2
    <3>4. Near(r, q.dir) \notin list_of_nodes
      BY <2>1, <3>2, <3>3
    <3>5. label[Near(r, q.dir)] # DBL_MAX
      BY <2>2, <3>3
    <3> QED
      BY <3>1, <3>4, <3>5 DEF Settled
  <2> QED
    BY <1>2, <2>4 DEF OptInv
<1> QED
  BY <1>3, <1>4 DEF Refuse, Throw, Break, Finish

\* The root at zero, and nothing to spread yet.
LEMMA BeginOptInv ==
  ASSUME IInv, OptInv, Begin
  PROVE  OptInv'
<1>1. /\ q.root \in Node /\ q' = q /\ cost' = cost /\ Consistent' = Consistent /\ DBL_MAX \in Nat
      /\ label = [n \in Node |-> DBL_MAX]
      /\ label' = [label EXCEPT ![q.root] = 0] /\ list_of_nodes' = {q.root}
  BY QueryType, NetworkAssumption DEF IInv, TypeOK, NothingYet, Begin, cost, Consistent
<1>2. label'[q.root] = 0 /\ \A n \in Node : n # q.root => label'[n] = DBL_MAX
  BY <1>1
<1>3. Settled' = {}
  BY <1>1, <1>2 DEF Settled
<1>4. NoneAbove'
  BY <1>1, <1>2 DEF NoneAbove, Consistent
<1> QED
  BY <1>1, <1>2, <1>3, <1>4 DEF OptInv, RootAtZero, Spread, Covered

\* Labels are never below the shortest distance, and settled ones are spread.
LEMMA Optimality == Spec => []OptInv
<1>1. Init => OptInv
  <2> SUFFICES ASSUME Init PROVE OptInv
    OBVIOUS
  <2>1. label = [n \in Node |-> DBL_MAX] /\ DBL_MAX \in Nat /\ Settled = {} /\ status = "call"
    BY NetworkAssumption DEF Init, Settled
  <2> QED
    BY <2>1 DEF OptInv, NoneAbove, Consistent, RootAtZero, Spread, Covered
<1>2. IInv /\ IInv' /\ OptInv /\ [Next]_vars => OptInv'
  <2> SUFFICES ASSUME IInv, IInv', OptInv, [Next]_vars PROVE OptInv'
    OBVIOUS
  <2>1. CASE Expand
    BY <2>1, ExpandOptInv DEF IInv
  <2>2. CASE UNCHANGED vars
    BY <2>2 DEF vars, OptInv, NoneAbove, Consistent, RootAtZero, Spread, Covered, Settled, cost
  <2> QED
    BY <2>1, <2>2, BeginOptInv, StopOptInv DEF Next
<1> QED
  BY <1>1, <1>2, Invariance, PTL DEF Spec

\* The labels, capped at that of a settled node, contradict no road.
LEMMA SettledIsShortest ==
  ASSUME IInv, OptInv, NEW s \in Settled
  PROVE  /\ \E d \in Consistent : d[s] = label[s]
         /\ \A d \in Consistent : d[s] <= label[s]
<1>1. /\ q.root \in Node /\ q.dir \in Direction /\ cost \in [Road -> Nat] /\ DBL_MAX \in Nat
      /\ label \in [Node -> 0 .. DBL_MAX] /\ s \in Node /\ label[s] # DBL_MAX
  BY QueryType, NetworkAssumption DEF IInv, TypeOK, Settled
<1> DEFINE d == [n \in Node |-> IF label[n] < label[s] THEN label[n] ELSE label[s]]
<1>2. d \in [Node -> 0 .. DBL_MAX] /\ d[s] = label[s]
  BY <1>1
<1>3. d[q.root] = 0
  <2>1. label[q.root] = 0
    BY <1>1 DEF OptInv, RootAtZero
  <2>2. label[s] \in Nat
    BY <1>1
  <2> QED
    BY <1>1, <2>1, <2>2
<1>4. ASSUME NEW r \in Road
      PROVE  d[Far(r, q.dir)] <= d[Near(r, q.dir)] + cost[r]
  <2> DEFINE n == Near(r, q.dir)
             f == Far(r, q.dir)
  <2>1. n \in Node /\ f \in Node /\ cost[r] \in Nat
    BY <1>1, EndsAreNodes
  <2>2. label[n] < label[s] => label[f] <= label[n] + cost[r]
    BY DEF OptInv, Covered
  <2> HIDE DEF n, f
  <2>3. label[n] \in Nat /\ label[f] \in Nat /\ label[s] \in Nat
    BY <1>1, <2>1
  <2>4. /\ d[n] = IF label[n] < label[s] THEN label[n] ELSE label[s]
        /\ d[f] = IF label[f] < label[s] THEN label[f] ELSE label[s]
    BY <2>1
  <2> HIDE DEF d
  <2>5. d[f] <= d[n] + cost[r]
    BY <2>1, <2>2, <2>3, <2>4
  <2> QED
    BY <2>5 DEF n, f
<1>5. d \in Consistent
  <2> HIDE DEF d
  <2> QED
    BY <1>2, <1>3, <1>4 DEF Consistent
<1>6. \A e \in Consistent : e[s] <= label[s]
  BY <1>1 DEF OptInv, NoneAbove
<1> HIDE DEF d
<1> QED
  BY <1>2, <1>5, <1>6

(***************************************************************************)
(* A settled label is the shortest distance: the largest that no road      *)
(* contradicts. So it is however the search ends (at its targets, at the   *)
(* first mismatch, by an exception), whatever the ties and zero costs:     *)
(* SettledOptimal, in a form without recursion.                            *)
(***************************************************************************)
THEOREM SettledShortest ==
  Spec => [](\A n \in Settled : /\ \E d \in Consistent : d[n] = label[n]
                                /\ \A d \in Consistent : d[n] <= label[n])
<1>1. IInv /\ OptInv => \A n \in Settled : /\ \E d \in Consistent : d[n] = label[n]
                                           /\ \A d \in Consistent : d[n] <= label[n]
  BY SettledIsShortest
<1> QED
  BY <1>1, Invariance, Optimality, PTL

-----------------------------------------------------------------------------
(***************************************************************************)
(* The reference of the run. Nodes are settled one by one, each behind a   *)
(* settled one, so that as many roads as there are settled nodes lead to   *)
(* every one of them: no label is below the cheapest walk of that many.    *)
(***************************************************************************)
ByRounds ==
  \A f : Rounds(f, cost, {q.root}, q.dir) =>
    \A n \in Settled : f[Cardinality(Settled)][n] <= label[n]

\* How many nodes are settled.
LEMMA SettledCount ==
  ASSUME TypeOK
  PROVE  /\ IsFiniteSet(Settled) /\ Cardinality(Settled) \in Nat
         /\ Cardinality(Settled) <= Cardinality(Node) /\ Cardinality(Node) \in Nat
<1>1. IsFiniteSet(Node) /\ Settled \subseteq Node
  BY NetworkAssumption DEF Settled
<1> QED
  BY <1>1, FS_Subset, FS_CardinalityType

\* One more node is settled: its predecessor was before.
LEMMA OneMoreSettled ==
  ASSUME IInv, status = "search", NEW f, Rounds(f, cost, {q.root}, q.dir),
         NEW v \in Node, label[v] # DBL_MAX, v \notin Settled,
         \A n \in Settled : f[Cardinality(Settled)][n] <= label[n]
  PROVE  \A n \in Settled \cup {v} : f[Cardinality(Settled \cup {v})][n] <= label[n]
<1>1. PICK N, k : N = Cardinality(Node) /\ k = Cardinality(Settled)
  OBVIOUS
<1>2. /\ TypeOK /\ label \in [Node -> 0 .. DBL_MAX] /\ DBL_MAX \in Nat /\ cost \in [Road -> Nat]
      /\ q.dir \in Direction /\ q.root \in Node /\ Settled \subseteq Node /\ IsFiniteSet(Node)
  BY QueryType, NetworkAssumption DEF IInv, TypeOK, Settled
<1>3. k \in Nat /\ Cardinality(Settled \cup {v}) = k + 1
  BY <1>1, <1>2, SettledCount, FS_AddElement
<1>4. N \in Nat /\ k + 1 <= N
  <2>1. Settled \cup {v} \subseteq Node
    BY <1>2
  <2>2. Cardinality(Settled \cup {v}) <= Cardinality(Node) /\ Cardinality(Node) \in Nat
    BY <1>2, <2>1, FS_Subset, FS_CardinalityType
  <2> QED
    BY <1>1, <1>3, <2>2
<1>5. k + 1 \in 1 .. N /\ k + 1 - 1 = k /\ k \in 0 .. N /\ k + 1 \in 0 .. N
  BY <1>3, <1>4
<1>6. \A j \in 0 .. N : \A n \in Node : f[j][n] \in Nat
  BY <1>1, <1>2 DEF Rounds
<1>7. ASSUME NEW n \in Settled
      PROVE  f[k + 1][n] <= label[n]
  <2>1. f[k + 1][n] <= f[k][n]
    BY <1>1, <1>2, <1>5 DEF Rounds
  <2>2. f[k][n] <= label[n]
    BY <1>1
  <2>3. f[k + 1][n] \in Nat /\ f[k][n] \in Nat /\ label[n] \in Nat
    BY <1>2, <1>5, <1>6
  <2> QED
    BY <2>1, <2>2, <2>3
<1>8. f[k + 1][v] <= label[v]
  <2>1. CASE v = q.root
    <3>1. label[v] = 0 /\ f[0][v] = 0
      BY <2>1 DEF IInv, RootFirst, Rounds
    <3>2. f[k + 1][v] <= f[0][v]
      <4>1. 0 \in 0 .. Cardinality(Node) /\ k + 1 \in 0 .. Cardinality(Node)
        BY <1>1, <1>4, <1>5
      <4> QED
        BY <1>2, <4>1, RoundsFall
    <3> QED
      BY <3>1, <3>2
  <2>2. CASE v # q.root
    <3>1. PICK r \in Road : /\ Far(r, q.dir) = v /\ Near(r, q.dir) \in Settled
                            /\ label[v] = label[Near(r, q.dir)] + cost[r]
      BY <2>2 DEF IInv, TreeOfLabels
    <3>2. PICK n : n = Near(r, q.dir)
      OBVIOUS
    <3>3. f[k + 1][v] <= f[k][n] + cost[r]
      BY <1>1, <1>5, <3>1, <3>2 DEF Rounds
    <3>4. f[k][n] <= label[n] /\ n \in Node
      BY <1>1, <1>2, <3>1, <3>2
    <3>5. f[k + 1][v] \in Nat /\ f[k][n] \in Nat /\ label[n] \in Nat /\ cost[r] \in Nat
      BY <1>2, <1>5, <1>6, <3>4
    <3> QED
      BY <3>1, <3>2, <3>3, <3>4, <3>5
  <2> QED
    BY <2>1, <2>2
<1> QED
  BY <1>3, <1>7, <1>8

\* Labels of settled nodes are those of walks.
LEMMA LabelsByRounds == Spec => []ByRounds
<1>1. Init => ByRounds
  <2> SUFFICES ASSUME Init PROVE ByRounds
    OBVIOUS
  <2>1. Settled = {}
    BY DEF Init, Settled
  <2> QED
    BY <2>1 DEF ByRounds
<1>2. IInv /\ ByRounds /\ [Next]_vars => ByRounds'
  <2> SUFFICES ASSUME IInv, ByRounds, [Next]_vars,
                      NEW f, Rounds(f, cost, {q.root}, q.dir)'
               PROVE  \A n \in Settled' : f[Cardinality(Settled')][n] <= label'[n]
    BY DEF ByRounds
  <2>1. q' = q /\ cost' = cost
    BY DEF Next, Refuse, Begin, Expand, Throw, Break, Finish, vars, cost
  <2>2. Rounds(f, cost, {q.root}, q.dir)
    BY <2>1 DEF Rounds
  <2>3. \A n \in Settled : f[Cardinality(Settled)][n] <= label[n]
    BY <2>2 DEF ByRounds
  <2>4. CASE Settled' = Settled /\ \A n \in Settled : label'[n] = label[n]
    BY <2>3, <2>4
  <2>5. CASE Searching /\ Settled' = Settled \cup {u} /\ \A n \in Settled \cup {u} : label'[n] = label[n]
    <3>1. u \in list_of_nodes /\ u \in Node /\ status = "search"
      BY <2>5, FirstOpen DEF IInv, Searching
    <3>2. label[u] # DBL_MAX /\ u \notin Settled
      BY <3>1 DEF IInv, OpenLabelled, Settled
    <3>3. \A n \in Settled \cup {u} : f[Cardinality(Settled \cup {u})][n] <= label[n]
      BY <2>2, <2>3, <3>1, <3>2, OneMoreSettled
    <3> QED
      BY <2>5, <3>3
  <2>6. CASE Expand
    BY <2>5, <2>6, OneExpansion DEF Expand
  <2>7. CASE Throw \/ Break
    <3>1. Searching /\ list_of_nodes' = list_of_nodes \ {u} /\ label' = label
      BY <2>7 DEF Throw, Break
    <3>2. u \in list_of_nodes /\ u \in Node /\ label[u] # DBL_MAX
      BY <3>1, FirstOpen DEF IInv, OpenLabelled
    <3>3. Settled' = Settled \cup {u}
      BY <3>1, <3>2 DEF Settled
    <3> QED
      BY <2>5, <3>1, <3>3
  <2>8. CASE Begin
    <3>1. Settled' = {}
      BY <2>8, QueryType DEF IInv, TypeOK, NothingYet, Begin, Settled
    <3> QED
      BY <3>1
  <2>9. CASE Refuse \/ Finish \/ UNCHANGED vars
    <3>1. label' = label /\ list_of_nodes' = list_of_nodes
      BY <2>9 DEF Refuse, Finish, vars
    <3> QED
      BY <2>4, <3>1 DEF Settled
  <2> QED
    BY <2>6, <2>7, <2>8, <2>9 DEF Next
<1> QED
  BY <1>1, <1>2, Invariance, PTL DEF Spec

(***************************************************************************)
(* A node that has left the list has its optimal label, the one of the     *)
(* reference, on every network and for every query: a search stopped at    *)
(* its target, or at the first mismatch, may be read as if complete.       *)
(***************************************************************************)
THEOREM SettledAlwaysOptimal == Spec => []SettledOptimal
<1>1. ASSUME IInv, OptInv, ByRounds, NEW s \in Settled
      PROVE  label[s] = Distances(cost, {q.root}, q.dir)[s]
  <2>1. /\ TypeOK /\ label \in [Node -> 0 .. DBL_MAX] /\ DBL_MAX \in Nat /\ cost \in [Road -> Nat]
        /\ q.dir \in Direction /\ q.root \in Node /\ s \in Node
    BY <1>1, QueryType, NetworkAssumption DEF IInv, TypeOK, Settled
  <2>2. PICK f : /\ Rounds(f, cost, {q.root}, q.dir)
                 /\ Distances(cost, {q.root}, q.dir) = f[Cardinality(Node)]
    BY <2>1, DistancesByRounds
  <2>3. PICK N, k : N = Cardinality(Node) /\ k = Cardinality(Settled)
    OBVIOUS
  <2>4. N \in Nat /\ k \in 0 .. N /\ N \in k .. N /\ N \in 0 .. N
    BY <2>1, <2>3, SettledCount
  <2>5. f[N][s] <= f[k][s]
    BY <2>1, <2>2, <2>3, <2>4, RoundsFall
  <2>6. f[k][s] <= label[s]
    BY <1>1, <2>2, <2>3 DEF ByRounds
  <2>7. PICK d \in Consistent : d[s] = label[s]
    BY <1>1, SettledIsShortest
  <2>8. /\ d \in [Node -> 0 .. DBL_MAX] /\ \A n \in Node : n \in {q.root} => d[n] = 0
        /\ \A r \in Road : d[Far(r, q.dir)] <= d[Near(r, q.dir)] + cost[r]
    BY DEF Consistent
  <2>9. \A j \in 0 .. Cardinality(Node) : \A n \in Node : d[n] <= f[j][n]
    BY ONLY <2>1, <2>2, <2>8, RoundsAbove
  <2>10. d[s] <= f[N][s]
    BY <2>1, <2>3, <2>4, <2>9
  <2>11. f[N][s] \in Nat /\ f[k][s] \in Nat /\ label[s] \in Nat
    BY <2>1, <2>2, <2>3, <2>4 DEF Rounds
  <2> QED
    BY <2>2, <2>3, <2>5, <2>6, <2>7, <2>10, <2>11
<1>2. IInv /\ OptInv /\ ByRounds => SettledOptimal
  BY <1>1 DEF SettledOptimal
<1> QED
  BY <1>2, Invariance, Optimality, LabelsByRounds, PTL

-----------------------------------------------------------------------------
(***************************************************************************)
(* The check of a segment. The search is one of the trees of the complete  *)
(* search for its target, and what was met of the ordered nodes tells what *)
(* will be read back: they are met in turn as long as each is reached from *)
(* the one before, and one that was taken out of turn has one before it,   *)
(* not met either, that is reached otherwise.                              *)
(***************************************************************************)
Target == q.ordered[Len(q.ordered)]

Whole == Trees(cost, q.root, Target, q.dir)

InStep ==
  /\ targets_left = {Target} \ Settled
  /\ Whole[Cardinality(Settled)].label = label /\ Whole[Cardinality(Settled)].pred = pred
  /\ Whole[Cardinality(Settled)].list = list_of_nodes
  /\ Whole[Cardinality(Settled)].found <=> Target \in Settled

Linked(i) == Follows(q.ordered, pred, q.dir, i)

MetSoFar ==
  /\ visited \in 0 .. Len(q.ordered) /\ true_sp
  /\ Settled = {} => list_of_nodes = {q.root}
  /\ Settled # {} => visited > 0
  /\ \A i \in 1 .. visited : q.ordered[i] \in Settled
  /\ \A i \in 2 .. visited : Linked(i)
  /\ \A j \in visited + 1 .. Len(q.ordered) : q.ordered[j] \in Settled =>
       \E i \in 2 .. j : visited < i /\ q.ordered[i] \in Settled /\ ~Linked(i)

Judged == true_sp <=> \A i \in 2 .. Len(q.ordered) : Follows(q.ordered, Whole[Cardinality(Node)].pred, q.dir, i)

CheckInv ==
  SegmentCheck =>
    /\ status = "call" => visited = 0 /\ true_sp
    /\ status = "search" => InStep /\ MetSoFar
    /\ status = "done" => Judged
    /\ status # "thrown"

\* The parts of a segment check.
LEMMA CheckType ==
  ASSUME q \in Query, SegmentCheck
  PROVE  /\ Ordered(q.ordered, q.root, Target) /\ Target \in Node /\ q.root \in Node /\ q.dir \in Direction
         /\ q.targets = {Target} /\ Checked /\ Target # q.root
         /\ \A i \in 1 .. Len(q.ordered) : q.ordered[i] \in Node /\ q.ordered[i] \notin q.excluded
         /\ Len(q.ordered) \in Nat /\ Len(q.ordered) > 1
         /\ \A r \in Road : cost[r] \in Nat /\ cost[r] > 0
<1>1. q \in [cost : [Road -> Nat], root : Node, targets : SUBSET Node,
              excluded : SUBSET Node, dir : Direction, ordered : Seq(Node)]
  BY QueryAssumption
<1>2. PICK ord, len : ord = q.ordered /\ len = Len(ord)
  OBVIOUS
<1>3. /\ ord \in Seq(Node) /\ len \in Nat /\ len > 1 /\ ord[1] = q.root /\ q.targets = {ord[len]}
      /\ DOMAIN ord = 1 .. len
      /\ \A i, j \in 1 .. len : ord[i] = ord[j] => i = j
      /\ \A i \in 1 .. len : ord[i] \notin q.excluded
      /\ \A r \in Road : q.cost[r] \in 1 .. DBL_MAX - 1
  <2>1. ord \in Seq(Node)
    BY <1>1, <1>2
  <2>2. DOMAIN ord = 1 .. len /\ len \in Nat
    BY <1>2, <2>1
  <2> QED
    BY <1>2, <2>1, <2>2 DEF SegmentCheck
<1>4. Ordered(ord, q.root, Target)
  BY <1>2, <1>3 DEF Ordered, Target
<1>5. \A i \in 1 .. len : ord[i] \in Node
  BY <1>2, <1>3, ElementOfSeq
<1>6. Target = ord[len] /\ Target \in Node /\ Target # q.root
  <2>1. 1 \in 1 .. len /\ len \in 1 .. len /\ len # 1
    BY <1>3
  <2> QED
    BY <1>2, <1>3, <1>5, <2>1 DEF Target
<1>7. Checked
  BY <1>2, <1>3 DEF Checked
<1>8. ASSUME NEW r \in Road
      PROVE  cost[r] \in Nat /\ cost[r] > 0
  <2>1. q.cost[r] \in 1 .. DBL_MAX - 1 /\ DBL_MAX \in Nat \ {0}
    BY <1>3, NetworkAssumption
  <2>2. cost[r] = DBL_MAX \/ cost[r] = q.cost[r]
    BY DEF cost, CostExcluding
  <2> QED
    BY <2>1, <2>2
<1> QED
  BY <1>1, <1>2, <1>3, <1>4, <1>5, <1>6, <1>7, <1>8

\* Two nodes are labelled: the search does not end as one that got nowhere.
LEMMA NotTrivial ==
  ASSUME NEW a \in Node, NEW b \in Node, a # b, label[a] # DBL_MAX, label[b] # DBL_MAX
  PROVE  Ending = "done"
<1> DEFINE S == {n \in Node : label[n] # DBL_MAX}
<1>1. IsFiniteSet(S)
  <2>1. S \subseteq Node /\ IsFiniteSet(Node)
    BY NetworkAssumption
  <2> QED
    BY <2>1, FS_Subset
<1>2. a \in S /\ b \in S
  OBVIOUS
<1>3. Cardinality(S) # 1
  <2> SUFFICES ASSUME Cardinality(S) = 1 PROVE FALSE
    OBVIOUS
  <2> HIDE DEF S
  <2>1. PICK x : S = {x}
    BY <1>1, FS_Singleton
  <2> QED
    BY <1>2, <2>1
<1> QED
  BY <1>3 DEF Ending

\* The search begins: nothing is met, and the tree is the root.
LEMMA BeginCheck ==
  ASSUME IInv, CheckInv, SegmentCheck, Begin, TypeOK'
  PROVE  CheckInv'
<1>1. /\ q' = q /\ cost' = cost /\ visited' = visited /\ true_sp' = true_sp /\ pred' = pred
      /\ status = "call" /\ status' = "search" /\ list_of_nodes' = {q.root} /\ targets_left' = q.targets
      /\ label' = [label EXCEPT ![q.root] = 0]
  BY DEF Begin, cost
<1>2. q \in Query /\ label \in [Node -> 0 .. DBL_MAX] /\ pred \in [Node -> SUBSET Road] /\ DBL_MAX \in Nat
  BY NetworkAssumption DEF IInv, TypeOK
<1>3. /\ Ordered(q.ordered, q.root, Target) /\ Target \in Node /\ q.root \in Node /\ q.dir \in Direction
      /\ q.targets = {Target} /\ Len(q.ordered) \in Nat /\ Len(q.ordered) > 1
  BY <1>2, CheckType
<1>4. \A n \in Node : label[n] = DBL_MAX /\ pred[n] = {}
  BY <1>1 DEF IInv, NothingYet
<1>5. label' = NoLabels(q.root) /\ pred' = [n \in Node |-> {}]
  BY <1>1, <1>2, <1>3, <1>4 DEF NoLabels
<1>6. Settled' = {}
  BY <1>1, <1>2, <1>4 DEF Settled
<1>7. Whole[0] = FirstTree(q.root) /\ Whole' = Whole /\ Target' = Target
  <2>1. cost \in [Road -> Nat]
    BY <1>2, QueryType
  <2>2. Target' = Target
    BY <1>1 DEF Target
  <2> QED
    BY <1>1, <1>3, <2>1, <2>2, TreesAre DEF Whole
<1>8. Cardinality(Settled') = 0
  BY <1>6, FS_EmptySet
<1>9. InStep'
  <2>1. targets_left' = {Target'} \ Settled'
    BY <1>1, <1>3, <1>6, <1>7
  <2>2. /\ Whole'[Cardinality(Settled')].label = label' /\ Whole'[Cardinality(Settled')].pred = pred'
        /\ Whole'[Cardinality(Settled')].list = list_of_nodes' /\ Whole'[Cardinality(Settled')].found = FALSE
    <3>1. Whole'[Cardinality(Settled')] = Whole[0]
      BY <1>7, <1>8
    <3>2. PICK t : t = Whole'[Cardinality(Settled')]
      OBVIOUS
    <3>3. t = FirstTree(q.root)
      BY <1>7, <3>1, <3>2
    <3>4. /\ t.label = NoLabels(q.root) /\ t.pred = [n \in Node |-> {}]
          /\ t.list = {q.root} /\ t.found = FALSE
      BY <3>3 DEF FirstTree
    <3> QED
      BY <1>1, <1>5, <3>2, <3>4
  <2> QED
    BY <1>6, <2>1, <2>2 DEF InStep
<1>10. visited = 0 /\ true_sp
  BY <1>1 DEF CheckInv
<1>11. MetSoFar'
  <2>1. /\ visited' \in 0 .. Len(q.ordered)' /\ true_sp' /\ list_of_nodes' = {q.root}'
        /\ \A i \in 1 .. visited' : FALSE
        /\ \A i \in 2 .. visited' : FALSE
    BY <1>1, <1>3, <1>10
  <2> QED
    BY <1>6, <2>1 DEF MetSoFar
<1> QED
  BY <1>1, <1>9, <1>11 DEF CheckInv

\* What is known of a search that looks for its target.
LEMMA LooksFor ==
  ASSUME IInv, CheckInv, SegmentCheck, Searching
  PROVE  /\ InStep /\ MetSoFar /\ Target \notin Settled /\ visited < Len(q.ordered)
         /\ ~ PastOrdered /\ ~ NegativeCycle
<1>1. q \in Query /\ label \in [Node -> 0 .. DBL_MAX] /\ DBL_MAX \in Nat
  BY NetworkAssumption DEF IInv, TypeOK
<1>2. /\ q.targets = {Target} /\ Len(q.ordered) \in Nat /\ Len(q.ordered) > 1
      /\ \A r \in Road : cost[r] \in Nat /\ cost[r] > 0
  BY <1>1, CheckType
<1>3. InStep /\ MetSoFar
  BY DEF CheckInv, Searching
<1>4. Target \notin Settled
  <2>1. targets_left # {}
    BY <1>2 DEF Searching
  <2> QED
    BY <1>3, <2>1 DEF InStep
<1>5. visited < Len(q.ordered)
  <2>1. visited \in 0 .. Len(q.ordered)
    BY <1>3 DEF MetSoFar
  <2>2. visited # Len(q.ordered)
    <3> SUFFICES ASSUME visited = Len(q.ordered) PROVE FALSE
      OBVIOUS
    <3>1. Len(q.ordered) \in 1 .. visited
      BY <1>2
    <3> QED
      BY <1>3, <1>4, <3>1 DEF MetSoFar, Target
  <2> QED
    BY <1>2, <2>1, <2>2
<1>6. ~ PastOrdered
  <2>1. visited \in Nat
    BY <1>2, <1>3 DEF MetSoFar
  <2> QED
    BY <1>2, <1>5, <2>1 DEF PastOrdered
<1>7. ~ NegativeCycle
  <2>1. u \in Node
    BY FirstOpen DEF IInv
  <2>2. label[u] \in Nat
    BY <1>1, <2>1
  <2>3. \A r \in Road : label[u] + cost[r] # 0
    <3> SUFFICES ASSUME NEW r \in Road PROVE label[u] + cost[r] # 0
      OBVIOUS
    <3>1. cost[r] \in Nat /\ cost[r] > 0
      BY <1>2
    <3> QED
      BY <2>2, <3>1
  <2> QED
    BY <2>3 DEF NegativeCycle, Improving
<1> QED
  BY <1>3, <1>4, <1>5, <1>6, <1>7

\* An expansion is an iteration of the whole search.
LEMMA ExpandInStep ==
  ASSUME IInv, CheckInv, SegmentCheck, Expand
  PROVE  InStep' /\ Whole' = Whole /\ Target' = Target
<1>1. /\ q' = q /\ cost' = cost /\ targets_left' = targets_left \ {u} /\ status = "search"
      /\ label' = RelaxLabels(label, cost, q.dir, u) /\ pred' = RelaxPreds(pred, label, cost, q.dir, u)
      /\ list_of_nodes' = (list_of_nodes \ {u}) \cup Relaxed(label, cost, q.dir, u)
      /\ list_of_nodes # {} /\ Searching
  BY DEF Expand, Searching, cost
<1>2. q \in Query /\ TypeOK
  BY DEF IInv, TypeOK
<1>3. Target \in Node /\ q.root \in Node /\ q.dir \in Direction /\ cost \in [Road -> Nat]
  BY <1>2, CheckType, QueryType
<1>4. InStep /\ Target \notin Settled
  BY <1>1, LooksFor
<1>5. u \in Node /\ u \in list_of_nodes /\ Settled' = Settled \cup {u} /\ u \notin Settled
  BY OneExpansion DEF Settled
<1>6. Whole' = Whole /\ Target' = Target
  <2>1. Target' = Target
    BY <1>1 DEF Target
  <2> QED
    BY <1>1, <2>1 DEF Whole
<1>7. PICK k : k = Cardinality(Settled)
  OBVIOUS
<1>8. k + 1 \in 1 .. Cardinality(Node) /\ k + 1 - 1 = k /\ Cardinality(Settled') = k + 1
  <2>1. IsFiniteSet(Settled) /\ k \in Nat
    BY <1>2, <1>7, SettledCount
  <2>2. Cardinality(Settled') = k + 1
    BY <1>5, <1>7, <2>1, FS_AddElement
  <2>3. Settled \cup {u} \subseteq Node /\ IsFiniteSet(Node)
    BY <1>5, NetworkAssumption DEF Settled
  <2>4. Cardinality(Settled') <= Cardinality(Node) /\ Cardinality(Node) \in Nat
    BY <1>5, <2>3, FS_Subset, FS_CardinalityType
  <2> QED
    BY <2>1, <2>2, <2>4
<1>9. PICK t : t = Whole[k]
  OBVIOUS
<1>10. t.label = label /\ t.pred = pred /\ t.list = list_of_nodes /\ ~ t.found
  BY <1>4, <1>7, <1>9 DEF InStep
<1>11. Whole[k + 1] = NextTree(t, cost, Target, q.dir)
  <2>1. \A j \in 1 .. Cardinality(Node) : Whole[j] = NextTree(Whole[j-1], cost, Target, q.dir)
    BY <1>3, TreesAre DEF Whole
  <2>2. PICK m, w : m = k + 1 /\ w = Whole
    OBVIOUS
  <2>3. w[m] = NextTree(w[m-1], cost, Target, q.dir)
    BY <1>8, <2>1, <2>2
  <2>4. w[m-1] = t
    <3>1. k \in Nat
      BY <1>2, <1>7, SettledCount
    <3>2. m - 1 = k
      BY <2>2, <3>1
    <3> QED
      BY <1>9, <2>2, <3>2
  <2> QED
    BY <2>2, <2>3, <2>4
<1>12. FirstOf(t.label, t.list) = u
  BY <1>10 DEF u
<1>13. Whole[k + 1] = [label |-> label', pred |-> pred', list |-> list_of_nodes', found |-> u = Target]
  BY <1>1, <1>10, <1>11, <1>12 DEF NextTree
<1>14. /\ Whole[k + 1].label = label' /\ Whole[k + 1].pred = pred' /\ Whole[k + 1].list = list_of_nodes'
       /\ Whole[k + 1].found <=> u = Target
  <2>1. PICK s : s = Whole[k + 1]
    OBVIOUS
  <2>2. s.label = label' /\ s.pred = pred' /\ s.list = list_of_nodes'
    BY <1>13, <2>1
  <2>3. CASE u = Target
    <3>1. s = [label |-> label', pred |-> pred', list |-> list_of_nodes', found |-> TRUE]
      BY <1>13, <2>1, <2>3, Zenon
    <3>2. s.found
      BY <3>1
    <3> QED
      BY <2>1, <2>2, <2>3, <3>2
  <2>4. CASE u # Target
    <3>1. s = [label |-> label', pred |-> pred', list |-> list_of_nodes', found |-> FALSE]
      BY <1>13, <2>1, <2>4, Zenon
    <3>2. ~ s.found
      BY <3>1
    <3> QED
      BY <2>1, <2>2, <2>4, <3>2
  <2> QED
    BY <2>3, <2>4
<1>15. targets_left' = {Target} \ Settled'
  BY <1>1, <1>4, <1>5 DEF InStep
<1>16. Target \in Settled' <=> u = Target
  BY <1>4, <1>5
<1> QED
  BY <1>6, <1>8, <1>14, <1>15, <1>16 DEF InStep

\* It meets the next ordered node, linked to the one before, or another node.
LEMMA ExpandMets ==
  ASSUME IInv, CheckInv, SegmentCheck, Expand
  PROVE  MetSoFar'
<1>1. /\ q' = q /\ visited' = (IF Meets THEN visited + 1 ELSE visited) /\ true_sp' = true_sp
      /\ ~ PastOrdered /\ ~ OffOrder /\ Searching
  BY DEF Expand
<1>2. q \in Query /\ label \in [Node -> 0 .. DBL_MAX] /\ pred \in [Node -> SUBSET Road]
  BY DEF IInv, TypeOK
<1>3. PICK ord, len, v : ord = q.ordered /\ len = Len(ord) /\ v = visited
  OBVIOUS
<1>4. /\ len \in Nat /\ len > 1 /\ ord[1] = q.root /\ \A i \in 1 .. len : ord[i] \in Node
      /\ \A i, j \in 1 .. len : ord[i] = ord[j] => i = j
      /\ Checked
  BY <1>2, <1>3, CheckType DEF Ordered
<1>5. MetSoFar /\ v < len
  BY <1>1, <1>3, LooksFor
<1>6. /\ u \in Node /\ u \in list_of_nodes /\ u \notin Settled /\ Settled' = Settled \cup {u}
      /\ \A s \in Settled \cup {u} : pred'[s] = pred[s]
  BY OneExpansion DEF Settled
<1>7. v \in Nat /\ v + 1 \in 1 .. len /\ true_sp
  BY <1>3, <1>4, <1>5 DEF MetSoFar
<1>8. /\ \A i \in 1 .. v : ord[i] \in Settled
      /\ \A i \in 2 .. v : Follows(ord, pred, q.dir, i)
      /\ \A j \in v + 1 .. len : ord[j] \in Settled =>
           \E i \in 2 .. j : v < i /\ ord[i] \in Settled /\ ~ Follows(ord, pred, q.dir, i)
      /\ Settled = {} => list_of_nodes = {q.root}
      /\ Settled # {} => v > 0
  BY <1>3, <1>5 DEF MetSoFar, Linked
<1>9. \A i : ord[i] \in Settled' => (Follows(ord, pred', q.dir, i) <=> Follows(ord, pred, q.dir, i))
  BY <1>6 DEF Follows
<1>10. Meets <=> ord[v + 1] = u
  BY <1>1, <1>3, <1>4 DEF Meets
<1>11. CASE ord[v + 1] = u
  <2>1. visited' = v + 1
    BY <1>1, <1>3, <1>10, <1>11
  <2>2. \A i \in 1 .. v + 1 : ord[i] \in Settled'
    <3> SUFFICES ASSUME NEW i \in 1 .. v + 1, i # v + 1 PROVE ord[i] \in Settled
      BY <1>6, <1>11
    <3>1. i \in 1 .. v
      BY <1>7
    <3> QED
      BY <1>8, <3>1
  <2>3. ASSUME NEW i \in 2 .. v + 1
        PROVE  Follows(ord, pred', q.dir, i)
    <3>1. ord[i] \in Settled'
      BY <1>7, <2>2
    <3>2. CASE i = v + 1
      <4>1. v > 0 /\ i - 1 = v
        BY <1>7, <2>3, <3>2
      <4>2. \E r \in pred[u] : Near(r, q.dir) = ord[v]
        BY <1>1, <1>3, <1>10, <1>11, <4>1 DEF OffOrder
      <4>3. Follows(ord, pred, q.dir, i)
        BY <1>11, <3>2, <4>1, <4>2 DEF Follows
      <4> QED
        BY <1>9, <3>1, <4>3
    <3>3. CASE i # v + 1
      <4>1. i \in 2 .. v
        BY <1>7, <2>3, <3>3
      <4> QED
        BY <1>8, <1>9, <3>1, <4>1
    <3> QED
      BY <3>2, <3>3
  <2>4. ASSUME NEW j \in v + 1 + 1 .. len, ord[j] \in Settled'
        PROVE  \E i \in 2 .. j : v + 1 < i /\ ord[i] \in Settled' /\ ~ Follows(ord, pred', q.dir, i)
    <3>1. j \in v + 1 .. len /\ j \in 1 .. len /\ j # v + 1
      BY <1>4, <1>7, <2>4
    <3>2. ord[j] \in Settled
      BY <1>4, <1>6, <1>7, <1>11, <2>4, <3>1
    <3>3. PICK i \in 2 .. j : v < i /\ ord[i] \in Settled /\ ~ Follows(ord, pred, q.dir, i)
      BY <1>8, <3>1, <3>2
    <3>4. i # v + 1
      BY <1>6, <1>11, <3>3
    <3>5. v + 1 < i
      BY <1>7, <3>1, <3>3, <3>4
    <3>6. ord[i] \in Settled' /\ ~ Follows(ord, pred', q.dir, i)
      BY <1>6, <1>9, <3>3
    <3> QED
      BY <3>5, <3>6
  <2>5. /\ visited' \in 0 .. len /\ visited' > 0 /\ Settled' # {} /\ true_sp'
    BY <1>1, <1>6, <1>7, <2>1
  <2> QED
    BY <1>1, <1>3, <2>1, <2>2, <2>3, <2>4, <2>5 DEF MetSoFar, Linked
<1>12. CASE ord[v + 1] # u
  <2>1. visited' = v
    BY <1>1, <1>3, <1>10, <1>12
  <2>2. Settled # {} /\ v > 0
    <3>1. v = 0 => u = q.root
      BY <1>6, <1>8
    <3>2. v = 0 => ord[v + 1] = q.root
      BY <1>4
    <3> QED
      BY <1>7, <1>8, <1>12, <3>1, <3>2
  <2>3. \A i \in 1 .. v : ord[i] \in Settled'
    BY <1>6, <1>8
  <2>4. \A i \in 2 .. v : Follows(ord, pred', q.dir, i)
    <3> SUFFICES ASSUME NEW i \in 2 .. v PROVE Follows(ord, pred', q.dir, i)
      OBVIOUS
    <3>1. i \in 1 .. v
      BY <1>7
    <3> QED
      BY <1>8, <1>9, <2>3, <3>1
  <2>5. ASSUME NEW j \in v + 1 .. len, ord[j] \in Settled'
        PROVE  \E i \in 2 .. j : v < i /\ ord[i] \in Settled' /\ ~ Follows(ord, pred', q.dir, i)
    <3>1. CASE ord[j] \in Settled
      <4>1. PICK i \in 2 .. j : v < i /\ ord[i] \in Settled /\ ~ Follows(ord, pred, q.dir, i)
        BY <1>8, <3>1
      <4>2. ord[i] \in Settled' /\ ~ Follows(ord, pred', q.dir, i)
        BY <1>6, <1>9, <4>1
      <4> QED
        BY <4>1, <4>2
    <3>2. CASE ord[j] \notin Settled
      <4>1. ord[j] = u /\ j # v + 1
        BY <1>6, <1>12, <2>5, <3>2
      <4>2. j \in 2 .. j /\ v < j /\ j - 1 \in v + 1 .. len /\ j - 1 \in Nat
        <5>1. j \in Int /\ v + 1 <= j /\ j <= len /\ v \in Nat /\ len \in Nat
          BY <1>4, <1>7, <2>5
        <5>2. v + 1 < j /\ v > 0
          BY <2>2, <4>1, <5>1
        <5> QED
          BY <5>1, <5>2
      <4>3. CASE ~ Follows(ord, pred, q.dir, j)
        <5>1. ~ Follows(ord, pred', q.dir, j)
          BY <1>9, <2>5, <4>3
        <5> QED
          BY <2>5, <4>2, <5>1
      <4>4. CASE Follows(ord, pred, q.dir, j)
        <5>1. PICK r \in pred[u] : Near(r, q.dir) = ord[j - 1]
          BY <4>1, <4>4 DEF Follows
        <5>2. ord[j - 1] \in Settled
          <6>1. pred[u] # {}
            BY <5>1
          <6>2. \E p \in Road : pred[u] = {p} /\ Near(p, q.dir) \in Settled
            BY <1>6, <6>1 DEF IInv, TreeOfLabels
          <6> QED
            BY <5>1, <6>2
        <5>3. PICK i \in 2 .. j - 1 : v < i /\ ord[i] \in Settled /\ ~ Follows(ord, pred, q.dir, i)
          BY <1>8, <4>2, <5>2
        <5>4. i \in 2 .. j
          BY <4>2
        <5>5. ord[i] \in Settled' /\ ~ Follows(ord, pred', q.dir, i)
          BY <1>6, <1>9, <5>3
        <5> QED
          BY <5>3, <5>4, <5>5
      <4> QED
        BY <4>3, <4>4
    <3> QED
      BY <3>1, <3>2
  <2>6. /\ visited' \in 0 .. len /\ visited' > 0 /\ Settled' # {} /\ true_sp'
    <3>1. true_sp' /\ Settled' # {}
      BY <1>1, <1>6, <1>7
    <3>2. v \in 0 .. len /\ v > 0
      BY <1>4, <1>7, <2>2
    <3> QED
      BY <2>1, <3>1, <3>2
  <2> QED
    BY <1>1, <1>3, <2>1, <2>3, <2>4, <2>5, <2>6 DEF MetSoFar, Linked
<1> QED
  BY <1>11, <1>12

\* The loop is left at a node reached otherwise, and it stays reached so.
LEMMA BreakCheck ==
  ASSUME IInv, CheckInv, SegmentCheck, Break
  PROVE  Ending = "done" /\ Judged'
<1>1. q' = q /\ cost' = cost /\ true_sp' = FALSE /\ OffOrder /\ Searching /\ status = "search"
  BY DEF Break, cost, Searching
<1>2. /\ q \in Query /\ label \in [Node -> 0 .. DBL_MAX] /\ label \in [Node -> Nat] /\ TypeOK
      /\ pred \in [Node -> SUBSET Road] /\ Settled \subseteq Node
  BY NetworkAssumption DEF IInv, TypeOK, Settled
<1>3. PICK ord, len, v : ord = q.ordered /\ len = Len(ord) /\ v = visited
  OBVIOUS
<1>4. /\ len \in Nat /\ len > 1 /\ ord[1] = q.root /\ Target \in Node /\ q.root \in Node
      /\ q.dir \in Direction /\ cost \in [Road -> Nat]
  BY <1>2, <1>3, CheckType, QueryType DEF Ordered
<1>5. InStep /\ MetSoFar /\ v < len
  BY <1>1, <1>3, LooksFor
<1>6. u \in list_of_nodes /\ u \in Node /\ \A b \in list_of_nodes : label[u] <= label[b]
  BY <1>1, <1>2, FirstOpen
<1>7. /\ v \in Nat /\ v > 0 /\ v + 1 \in 2 .. len /\ v + 1 - 1 = v /\ ord[v + 1] = u
      /\ \A r \in pred[u] : Near(r, q.dir) # ord[v]
  BY <1>1, <1>3, <1>4, <1>5 DEF OffOrder, Meets, MetSoFar
<1>8. q.root \in Settled
  <2>1. 1 \in 1 .. v
    BY <1>7
  <2> QED
    BY <1>3, <1>4, <1>5, <2>1 DEF MetSoFar
<1>9. Ending = "done"
  <2>1. label[u] # DBL_MAX /\ label[q.root] # DBL_MAX /\ u # q.root
    BY <1>6, <1>8 DEF IInv, OpenLabelled, Settled
  <2> QED
    BY <1>4, <1>6, <2>1, NotTrivial
<1>10. PICK k, done, g : k = Cardinality(Settled) /\ done = Settled \cup {u} /\ g = Whole
  OBVIOUS
<1>11. Kept(g[k], done, label, pred) /\ done \in SUBSET Node
  <2>1. g[k].label = label /\ g[k].pred = pred /\ g[k].list = list_of_nodes
    BY <1>5, <1>10 DEF InStep
  <2>2. \A s \in done, b \in list_of_nodes : label[s] <= label[b]
    BY <1>1, <1>6, <1>10 DEF IInv, Frontier
  <2> QED
    BY <1>2, <1>6, <1>10, <2>1, <2>2 DEF Kept
<1>12. k \in 0 .. Cardinality(Node)
  BY <1>2, <1>10, SettledCount
<1>13. g[Cardinality(Node)].pred[u] = pred[u]
  <2>1. g = Trees(cost, q.root, Target, q.dir) /\ u \in done
    BY <1>10 DEF Whole
  <2>2. PICK c, root, target, dir, lab, pre :
          c = cost /\ root = q.root /\ target = Target /\ dir = q.dir /\ lab = label /\ pre = pred
    OBVIOUS
  <2>3. /\ c \in [Road -> Nat] /\ root \in Node /\ dir \in Direction /\ g = Trees(c, root, target, dir)
        /\ k \in 0 .. Cardinality(Node) /\ done \in SUBSET Node /\ Kept(g[k], done, lab, pre)
    BY <1>4, <1>11, <1>12, <2>1, <2>2
  <2>4. Kept(g[Cardinality(Node)], done, lab, pre)
    BY <2>3, KeptOn
  <2> QED
    BY <2>1, <2>2, <2>4 DEF Kept
<1>14. ~ Follows(ord, g[Cardinality(Node)].pred, q.dir, v + 1)
  BY <1>7, <1>13 DEF Follows
<1>15. Whole' = g
  BY <1>1, <1>10 DEF Whole, Target
<1> QED
  BY <1>1, <1>3, <1>7, <1>9, <1>14, <1>15 DEF Judged

\* The loop ends by itself: at the target, or with nothing open.
LEMMA FinishCheck ==
  ASSUME IInv, OptInv, CheckInv, SegmentCheck, Finish
  PROVE  Ending = "done" /\ Judged'
<1>1. /\ q' = q /\ cost' = cost /\ status = "search" /\ ~ Searching
      /\ true_sp' = (true_sp /\ (Checked => visited = Len(q.ordered)))
  BY DEF Finish, cost
<1>2. /\ q \in Query /\ label \in [Node -> 0 .. DBL_MAX] /\ TypeOK /\ DBL_MAX \in Nat \ {0}
      /\ pred \in [Node -> SUBSET Road] /\ Settled \subseteq Node
  BY NetworkAssumption DEF IInv, TypeOK, Settled
<1>3. PICK ord, len, v : ord = q.ordered /\ len = Len(ord) /\ v = visited
  OBVIOUS
<1>4. /\ len \in Nat /\ len > 1 /\ ord[1] = q.root /\ Target \in Node /\ q.root \in Node /\ Target = ord[len]
      /\ q.dir \in Direction /\ cost \in [Road -> Nat] /\ Checked /\ q.targets = {Target}
      /\ \A i, j \in 1 .. len : ord[i] = ord[j] => i = j
      /\ \A i \in 1 .. len : ord[i] \in Node /\ ord[i] \notin q.excluded
  BY <1>2, <1>3, CheckType, QueryType DEF Ordered, Target
<1>5. InStep /\ MetSoFar
  BY <1>1 DEF CheckInv
<1>6. list_of_nodes = {} \/ Target \in Settled
  <2>1. list_of_nodes = {} \/ targets_left = {}
    BY <1>1 DEF Searching
  <2> QED
    BY <1>5, <2>1 DEF InStep
<1>7. v \in 0 .. len /\ true_sp /\ v > 0
  BY <1>3, <1>5, <1>6 DEF MetSoFar
<1>8. q.root \in Settled
  <2>1. 1 \in 1 .. v
    BY <1>7
  <2> QED
    BY <1>3, <1>4, <1>5, <2>1 DEF MetSoFar
<1>9. Ending = "done"
  <2>1. 1 \in 1 .. len - 1 /\ 1 + 1 = 2 /\ 2 \in 1 .. len /\ 1 \in 1 .. len
    BY <1>4
  <2>2. PICK r \in Road : Near(r, q.dir) = ord[1] /\ Far(r, q.dir) = ord[2]
    BY <1>3, <2>1 DEF SegmentCheck
  <2>3. cost[r] = q.cost[r]
    <3>1. Near(r, q.dir) \notin q.excluded /\ Far(r, q.dir) \notin q.excluded
      BY <1>4, <2>1, <2>2
    <3>2. UpNode[r] \notin q.excluded /\ DownNode[r] \notin q.excluded
      BY <1>4, <3>1 DEF Near, Far
    <3>3. {UpNode[r], DownNode[r]} \cap q.excluded = {}
      BY <3>2
    <3> QED
      BY <3>3 DEF cost, CostExcluding
  <2>4. cost[r] \in 1 .. DBL_MAX - 1
    BY <2>3 DEF SegmentCheck
  <2>5. label[q.root] = 0
    BY <1>1 DEF IInv, RootFirst
  <2>6. label[ord[2]] <= 0 + cost[r]
    BY <1>1, <1>4, <1>8, <2>2, <2>5 DEF OptInv, Spread
  <2>7. label[ord[2]] \in Nat /\ ord[2] \in Node
    BY <1>2, <1>4, <2>1
  <2>8. label[ord[2]] # DBL_MAX
    BY <1>2, <2>4, <2>6, <2>7
  <2>9. ord[2] # q.root /\ label[q.root] # DBL_MAX
    BY <1>2, <1>4, <2>1, <2>5
  <2> QED
    BY <1>4, <2>7, <2>8, <2>9, NotTrivial
<1>10. PICK k, g : k = Cardinality(Settled) /\ g = Whole
  OBVIOUS
<1>11. g[k].pred = pred /\ (g[k].found \/ g[k].list = {})
  BY <1>5, <1>6, <1>10 DEF InStep
<1>12. k \in 0 .. Cardinality(Node)
  BY <1>2, <1>10, SettledCount
<1>13. g[Cardinality(Node)].pred = pred
  <2>1. g = Trees(cost, q.root, Target, q.dir)
    BY <1>10 DEF Whole
  <2>2. g[Cardinality(Node)] = g[k]
    BY <1>4, <1>11, <1>12, <2>1, EndedStays
  <2> QED
    BY <1>11, <2>2
<1>14. true_sp' <=> v = len
  BY <1>1, <1>3, <1>4, <1>7
<1>15. v = len <=> \A i \in 2 .. len : Follows(ord, pred, q.dir, i)
  <2>1. ASSUME v = len
        PROVE  \A i \in 2 .. len : Follows(ord, pred, q.dir, i)
    BY <1>3, <1>5, <2>1 DEF MetSoFar, Linked
  <2>2. ASSUME v # len
        PROVE  \E i \in 2 .. len : ~ Follows(ord, pred, q.dir, i)
    <3>1. len \in v + 1 .. len /\ len \in 2 .. len
      BY <1>4, <1>7, <2>2
    <3>2. CASE Target \in Settled
      BY <1>3, <1>4, <1>5, <3>1, <3>2 DEF MetSoFar, Linked
    <3>3. CASE Target \notin Settled
      <4>1. label[Target] = DBL_MAX
        BY <1>4, <1>6, <3>3 DEF Settled
      <4>2. pred[Target] = {}
        BY <1>4, <4>1 DEF IInv, TreeOfLabels
      <4>3. ~ Follows(ord, pred, q.dir, len)
        BY <1>4, <4>2 DEF Follows
      <4> QED
        BY <3>1, <4>3
    <3> QED
      BY <3>2, <3>3
  <2> QED
    BY <2>1, <2>2
<1>16. Whole' = g
  BY <1>1, <1>10 DEF Whole, Target
<1> QED
  BY <1>1, <1>3, <1>9, <1>13, <1>14, <1>15, <1>16 DEF Judged

LEMMA CheckKept == Spec => []CheckInv
<1>1. Init => CheckInv
  BY DEF Init, CheckInv
<1>2. IInv /\ OptInv /\ CheckInv /\ TypeOK' /\ [Next]_vars => CheckInv'
  <2> SUFFICES ASSUME IInv, OptInv, CheckInv, TypeOK', [Next]_vars, SegmentCheck'
               PROVE  CheckInv'
    BY DEF CheckInv
  <2>1. q' = q /\ cost' = cost /\ SegmentCheck
    <3>1. q' = q
      BY DEF Next, Refuse, Begin, Expand, Throw, Break, Finish, vars
    <3> QED
      BY <3>1 DEF cost, SegmentCheck
  <2>2. CASE Refuse
    <3>1. q \in Query
      BY DEF IInv, TypeOK
    <3>2. \A i \in 1 .. Len(q.ordered) : q.ordered[i] \notin q.excluded
      BY <2>1, <3>1, CheckType
    <3>3. /\ q.targets = {Target} /\ q.ordered[1] = q.root
          /\ 1 \in 1 .. Len(q.ordered) /\ Len(q.ordered) \in 1 .. Len(q.ordered)
      BY <2>1, <3>1, CheckType DEF Ordered
    <3>4. q.root \notin q.excluded /\ Target \notin q.excluded
      BY <3>2, <3>3 DEF Target
    <3> QED
      BY <2>2, <3>3, <3>4 DEF Refuse
  <2>3. CASE Begin
    BY <2>1, <2>3, BeginCheck
  <2>4. CASE Expand
    <3>1. InStep' /\ MetSoFar' /\ status' = "search"
      BY <2>1, <2>4, ExpandInStep, ExpandMets DEF Expand, Searching
    <3> QED
      BY <3>1 DEF CheckInv
  <2>5. CASE Throw
    <3>1. ~ PastOrdered /\ ~ NegativeCycle
      BY <2>1, <2>5, LooksFor DEF Throw
    <3> QED
      BY <2>5, <3>1 DEF Throw
  <2>6. CASE Break
    <3>1. status' = "done" /\ Judged'
      BY <2>1, <2>6, BreakCheck DEF Break
    <3> QED
      BY <3>1 DEF CheckInv
  <2>7. CASE Finish
    <3>1. status' = "done" /\ Judged'
      BY <2>1, <2>7, FinishCheck DEF Finish
    <3> QED
      BY <3>1 DEF CheckInv
  <2>8. CASE UNCHANGED vars
    BY <2>1, <2>8 DEF vars, CheckInv, InStep, MetSoFar, Judged, Linked, Whole, Target, Settled
  <2> QED
    BY <2>2, <2>3, <2>4, <2>5, <2>6, <2>7, <2>8 DEF Next
<1> QED
  BY <1>1, <1>2, Invariance, Optimality, TypeCorrect, PTL DEF Spec

(***************************************************************************)
(* A segment check of MHPath never throws, on any network: the ordered     *)
(* nodes are not run past (the search stops at the last of them), nothing  *)
(* looks like a negative cycle, and the tree has more than its root.       *)
(***************************************************************************)
THEOREM SegmentChecksNeverThrow == Spec => []SegmentCheckNeverThrows
<1>1. CheckInv => SegmentCheckNeverThrows
  BY DEF CheckInv, SegmentCheckNeverThrows
<1> QED
  BY <1>1, CheckKept, PTL

(***************************************************************************)
(* The verdict of checkSpliceable, given while the search goes on and      *)
(* often before it ends, is whether the route that getShortestPathTo reads *)
(* from the complete tree is the segment, on every network, whatever the   *)
(* ties.                                                                   *)
(***************************************************************************)
THEOREM VerdictAlwaysTreePath == Spec => []VerdictIsTreePath
<1>1. IInv /\ CheckInv => VerdictIsTreePath
  <2> SUFFICES ASSUME IInv, CheckInv, status = "done", SegmentCheck
               PROVE  true_sp = (RouteIn(TreeCost(cost, q.root, Target, q.dir).pred, q.root, Target, q.dir)
                                   = Along(q.ordered, q.dir))
    BY DEF VerdictIsTreePath, Target, Along
  <2>1. q \in Query /\ true_sp \in BOOLEAN
    BY DEF IInv, TypeOK
  <2>2. /\ Ordered(q.ordered, q.root, Target) /\ Target \in Node /\ q.root \in Node
        /\ q.dir \in Direction /\ cost \in [Road -> Nat]
    BY <2>1, CheckType, QueryType
  <2>3. PICK N, g : N = Cardinality(Node) /\ g = Whole
    OBVIOUS
  <2>4. N \in 0 .. N
    BY <2>3, NetworkAssumption, FS_CardinalityType
  <2>5. TreeCost(cost, q.root, Target, q.dir) = g[N] /\ g[N] \in Tree /\ OneEach(g[N].pred)
    BY <2>2, <2>3, <2>4, TreesAre DEF Whole
  <2>6. g[N].pred \in [Node -> SUBSET Road]
    BY <2>5 DEF Tree
  <2>7. RouteIn(g[N].pred, q.root, Target, q.dir) = Along(q.ordered, q.dir)
          <=> \A i \in 2 .. Len(q.ordered) : Follows(q.ordered, g[N].pred, q.dir, i)
    BY <2>2, <2>5, <2>6, RouteFollows, FollowedIsRoute
  <2>8. Judged
    BY DEF CheckInv
  <2> QED
    BY <2>1, <2>3, <2>5, <2>7, <2>8 DEF Judged
<1> QED
  BY <1>1, Invariance, CheckKept, PTL
=============================================================================
