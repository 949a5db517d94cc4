------------------------ MODULE DomainSearch_proofs ------------------------
(***************************************************************************)
(* What holds of every search of patShortestPathGeneral, on every network  *)
(* with positive lengths: predecessors lead back to a root however often   *)
(* labels are corrected, no road beyond the ceiling is collected, and a    *)
(* search that the ceiling did not stop has the shortest distances and all *)
(* it was asked for, although its deque is in no order of labels.          *)
(***************************************************************************)
EXTENDS DomainSearch, Router_proofs

-----------------------------------------------------------------------------
(* The deque.                                                              *)

\* A deque that is not empty has a first node, which it contains.
LEMMA ContainsHead ==
  ASSUME NEW s \in Seq(Node), s # <<>>
  PROVE  Contains(s, Head(s)) /\ Head(s) \in Node /\ Tail(s) \in Seq(Node)
BY DEF Contains

\* Taking a node from the front loses no other.
LEMMA ContainsTail ==
  ASSUME NEW s \in Seq(Node), s # <<>>, NEW n, Contains(s, n), n # Head(s)
  PROVE  Contains(Tail(s), n)
<1>1. PICK k \in 1 .. Len(s) : s[k] = n
  BY DEF Contains
<1>2. k # 1 /\ Len(Tail(s)) = Len(s) - 1
  BY <1>1
<1>3. k - 1 \in 1 .. Len(Tail(s)) /\ Tail(s)[k - 1] = n
  BY <1>1, <1>2
<1> QED
  BY <1>3 DEF Contains

\* What is left of a deque was in it.
LEMMA TailContains ==
  ASSUME NEW s \in Seq(Node), s # <<>>, NEW n, Contains(Tail(s), n)
  PROVE  Contains(s, n)
<1>1. PICK k \in 1 .. Len(Tail(s)) : Tail(s)[k] = n
  BY DEF Contains
<1>2. Len(Tail(s)) = Len(s) - 1 /\ Tail(s)[k] = s[k + 1] /\ k + 1 \in 1 .. Len(s)
  BY <1>1
<1> QED
  BY <1>1, <1>2 DEF Contains

\* Wherever a node is put, the deque holds it, and what it held.
LEMMA ContainsPlaced ==
  ASSUME list_of_nodes \in Seq(Node), NEW n \in Node, NEW old, NEW lab
  PROVE  /\ Placed(n, old, lab) \in Seq(Node)
         /\ \A x : Contains(Placed(n, old, lab), x) <=> x = n \/ Contains(list_of_nodes, x)
<1>1. CASE Placed(n, old, lab) = Append(list_of_nodes, n)
  BY <1>1 DEF Contains
<1>2. CASE Placed(n, old, lab) = <<n>> \o list_of_nodes
  BY <1>2 DEF Contains
<1> QED
  BY <1>1, <1>2 DEF Placed

-----------------------------------------------------------------------------
(* Roads and lengths.                                                      *)

\* The parts of a query, and the length no road is shorter than.
LEMMA QueryType ==
  ASSUME q \in Query
  PROVE  /\ q.length \in [Road -> Nat \ {0}] /\ q.roots \in Seq(Node)
         /\ q.domain \in SUBSET Road /\ q.ceil \in Nat
         /\ Roots \in SUBSET Node
         /\ \A n \in Roots : Contains(q.roots, n)
<1>1. q \in [length : [Road -> Nat \ {0}], roots : Seq(Node), domain : SUBSET Road, ceil : Nat]
  BY QueryAssumption
<1>2. q.roots \in Seq(Node)
  BY <1>1
<1> QED
  BY <1>1, <1>2 DEF Roots, Range, Contains

\* The road seen next is one that is left.
LEMMA RoadIsLeft ==
  ASSUME roads_left \in SUBSET Road, roads_left # {}
  PROVE  road \in roads_left /\ road \in Road /\ UpNode[road] \in Node /\ DownNode[road] \in Node
<1>1. roads_left \in SUBSET Nat
  BY NetworkAssumption
<1>2. PICK r \in roads_left : \A p \in roads_left : r <= p
  BY <1>1, LeastOfNaturals
<1>3. road \in roads_left
  BY <1>2 DEF road
<1> QED
  BY <1>3, NetworkAssumption

\* No road is shorter than the shortest.
LEMMA MinimumIsLeast ==
  ASSUME q \in Query, NEW r \in Road
  PROVE  minimum_label \in Nat /\ minimum_label <= q.length[r]
<1> DEFINE lengths == {q.length[p] : p \in Road}
<1>1. q.length \in [Road -> Nat \ {0}]
  BY QueryType
<1>2. lengths \in SUBSET Nat /\ lengths # {}
  BY <1>1
<1>3. PICK x \in lengths : \A y \in lengths : x <= y
  BY <1>2, LeastOfNaturals
<1>4. \A p \in Road : x <= q.length[p]
  BY <1>3
<1>5. minimum_label \in lengths /\ \A p \in Road : minimum_label <= q.length[p]
  BY <1>3, <1>4 DEF minimum_label
<1> QED
  BY <1>2, <1>5

-----------------------------------------------------------------------------
(* Type correctness.                                                       *)

\* Every reachable state of buildShortestPathTree is well typed: whatever the roots,
\* lengths and ceiling, labels are lengths and the deque holds nodes of the network.
THEOREM TypeCorrect == Spec => []TypeOK
<1>1. Init => TypeOK
  <2> SUFFICES ASSUME Init PROVE TypeOK
    OBVIOUS
  <2>1. DBL_MAX \in Nat /\ q.roots \in Seq(Node)
    BY NetworkAssumption, QueryType DEF Init
  <2> QED
    BY <2>1 DEF Init, TypeOK
<1>2. TypeOK /\ [Next]_vars => TypeOK'
  <2> SUFFICES ASSUME TypeOK, [Next]_vars PROVE TypeOK'
    OBVIOUS
  <2>q. q.length \in [Road -> Nat \ {0}] /\ label \in [Node -> 0 .. DBL_MAX] /\ DBL_MAX \in Nat
    BY QueryType, NetworkAssumption DEF TypeOK
  <2>1. CASE Limit
    <3>1. list_of_nodes' \in Seq(Node)
      BY <2>1, ContainsHead DEF TypeOK, Limit
    <3> QED
      BY <2>1, <3>1 DEF TypeOK, Limit
  <2>2. CASE Take
    <3>1. list_of_nodes' \in Seq(Node)
      BY <2>2, ContainsHead DEF TypeOK, Take
    <3> QED
      BY <2>2, <3>1 DEF TypeOK, Take
  <2>3. CASE See
    BY <2>3 DEF TypeOK, See, Collected
  <2>4. CASE Correct
    <3>1. /\ road \in Road /\ UpNode[road] \in Node /\ DownNode[road] \in Node
      BY <2>4, RoadIsLeft DEF TypeOK, Correct
    <3>2. Through \in 0 .. DBL_MAX
      <4>1. label[UpNode[road]] \in Nat /\ label[DownNode[road]] \in 0 .. DBL_MAX /\ q.length[road] \in Nat
        BY <2>q, <3>1
      <4>2. label[DownNode[road]] > Through
        BY <2>4 DEF Correct, Better
      <4> QED
        BY <2>q, <4>1, <4>2 DEF Through
    <3>3. label' \in [Node -> 0 .. DBL_MAX]
      BY <2>4, <3>2 DEF TypeOK, Correct
    <3>4. list_of_nodes' \in Seq(Node)
      BY <2>4, <3>1, ContainsPlaced DEF TypeOK, Correct
    <3>5. pred' \in [Node -> SUBSET Road]
      BY <2>4, <3>1 DEF TypeOK, Correct
    <3> QED
      BY <2>4, <3>3, <3>4, <3>5 DEF TypeOK, Correct, Collected
  <2>5. CASE Finish
    BY <2>5 DEF TypeOK, Finish
  <2>6. CASE UNCHANGED vars
    BY <2>6 DEF TypeOK, vars
  <2> QED
    BY <2>1, <2>2, <2>3, <2>4, <2>5, <2>6 DEF Next
<1> QED
  BY <1>1, <1>2, PTL DEF Spec

-----------------------------------------------------------------------------
(* The invariant.                                                          *)

\* Nodes in the deque, and those whose roads are being seen, have a label.
ListedReached ==
  /\ \A n \in Node : Contains(list_of_nodes, n) => n \in Reached
  /\ \A r \in roads_left : UpNode[r] \in Reached

WithinCeiling ==
  /\ \A r \in roads_left : label[UpNode[r]] <= q.ceil
  /\ \A r \in ddr_arcs : label[UpNode[r]] <= q.ceil /\ UpNode[r] \in Reached

RootsAtZero == \A n \in Roots : label[n] = 0

\* Nothing is left to do for a road.
Done(r) == label[DownNode[r]] <= label[UpNode[r]] + q.length[r] /\ (r \in q.domain => r \in ddr_arcs)

\* A node that was reached will be taken (again), or each of its roads was
\* seen since its label changed, or will be; until the ceiling ends the search.
Expanded ==
  status # "limit" =>
    \A n \in Reached : \/ Contains(list_of_nodes, n)
                       \/ \A r \in Road : UpNode[r] = n => r \in roads_left \/ Done(r)

Ended == status = "true" => list_of_nodes = <<>> /\ roads_left = {}

IInv == /\ TypeOK /\ ListedReached /\ WalkBackEnds /\ WithinCeiling /\ RootsAtZero
        /\ Expanded /\ Ended

\* The roots with their labels, as the code enters them.
LEMMA InitIInv == Init => IInv
<1> SUFFICES ASSUME Init PROVE IInv
  OBVIOUS
<1>1. /\ DBL_MAX \in Nat \ {0} /\ q.roots \in Seq(Node) /\ Roots \in SUBSET Node
      /\ \A n \in Roots : Contains(q.roots, n)
      /\ label = [n \in Node |-> IF n \in Roots THEN 0 ELSE DBL_MAX]
      /\ list_of_nodes = q.roots /\ pred = [n \in Node |-> {}] /\ roads_left = {} /\ ddr_arcs = {}
      /\ status = "search" /\ q \in Query
  BY NetworkAssumption, QueryType DEF Init
<1>2. TypeOK
  BY <1>1 DEF TypeOK
<1>3. \A n \in Node : n \in Reached <=> n \in Roots
  BY <1>1 DEF Reached
<1>4. \A n \in Node : Contains(list_of_nodes, n) => n \in Roots
  BY <1>1 DEF Contains, Roots, Range
<1>5. ListedReached
  BY <1>1, <1>3, <1>4 DEF ListedReached
<1>6. WalkBackEnds
  BY <1>1, <1>3 DEF WalkBackEnds, Reached
<1>7. WithinCeiling /\ Ended
  BY <1>1 DEF WithinCeiling, Ended
<1>8. RootsAtZero
  BY <1>1 DEF RootsAtZero
<1>9. Expanded
  BY <1>1, <1>3 DEF Expanded, Reached
<1> QED
  BY <1>2, <1>5, <1>6, <1>7, <1>8, <1>9 DEF IInv

\* The search that ends at the ceiling leaves labels and predecessors alone.
LEMMA LimitIInv ==
  ASSUME IInv, TypeOK', Limit
  PROVE  IInv'
<1>1. /\ list_of_nodes \in Seq(Node) /\ list_of_nodes # <<>> /\ list_of_nodes' = Tail(list_of_nodes)
      /\ q' = q /\ label' = label /\ pred' = pred /\ roads_left' = roads_left /\ ddr_arcs' = ddr_arcs
      /\ status' = "limit" /\ Reached' = Reached /\ Roots' = Roots
  BY DEF IInv, TypeOK, Limit, Reached, Roots
<1>2. \A n \in Node : Contains(list_of_nodes', n) => Contains(list_of_nodes, n)
  BY <1>1, TailContains
<1>3. ListedReached'
  BY <1>1, <1>2 DEF IInv, ListedReached
<1>4. WalkBackEnds' /\ WithinCeiling' /\ RootsAtZero'
  BY <1>1 DEF IInv, WalkBackEnds, WithinCeiling, RootsAtZero
<1>5. Expanded' /\ Ended'
  BY <1>1 DEF Expanded, Ended
<1> QED
  BY <1>3, <1>4, <1>5 DEF IInv

\* A node leaves the deque: its roads are what is left to do instead.
LEMMA TakeIInv ==
  ASSUME IInv, TypeOK', Take
  PROVE  IInv'
<1> DEFINE u == Head(list_of_nodes)
<1>1. /\ list_of_nodes \in Seq(Node) /\ list_of_nodes # <<>> /\ list_of_nodes' = Tail(list_of_nodes)
      /\ roads_left = {} /\ roads_left' = {r \in Road : UpNode[r] = u} /\ label[u] <= q.ceil
      /\ q' = q /\ label' = label /\ pred' = pred /\ ddr_arcs' = ddr_arcs
      /\ status = "search" /\ status' = "search" /\ Reached' = Reached /\ Roots' = Roots
  BY DEF IInv, TypeOK, Take, BetweenNodes, Reached, Roots
<1>2. Contains(list_of_nodes, u) /\ u \in Node
  BY <1>1, ContainsHead
<1>3. u \in Reached
  BY <1>2 DEF IInv, ListedReached
<1> HIDE DEF u
<1>4. \A n \in Node : Contains(list_of_nodes', n) => Contains(list_of_nodes, n)
  BY <1>1, TailContains
<1>5. ListedReached'
  BY <1>1, <1>3, <1>4 DEF IInv, ListedReached
<1>6. WalkBackEnds' /\ RootsAtZero' /\ Ended'
  BY <1>1 DEF IInv, WalkBackEnds, RootsAtZero, Ended
<1>7. WithinCeiling'
  BY <1>1 DEF IInv, WithinCeiling
<1>8. Expanded'
  <2> SUFFICES ASSUME NEW n \in Reached, ~Contains(list_of_nodes', n),
                      NEW r \in Road, UpNode[r] = n
               PROVE  r \in roads_left' \/ Done(r)'
    BY <1>1 DEF Expanded
  <2>1. CASE n = u
    BY <1>1, <2>1
  <2>2. CASE n # u
    <3>1. ~Contains(list_of_nodes, n)
      BY <1>1, <2>2, ContainsTail DEF u
    <3>2. Done(r)
      BY <1>1, <3>1 DEF IInv, Expanded
    <3> QED
      BY <1>1, <3>2 DEF Done
  <2> QED
    BY <2>1, <2>2
<1> QED
  BY <1>5, <1>6, <1>7, <1>8 DEF IInv

\* A road is seen: its end is labelled, corrected or left, and waits in the deque if it was.
LEMMA SeeIInv ==
  ASSUME IInv, TypeOK', See
  PROVE  IInv'
<1>1. /\ roads_left \in SUBSET Road /\ roads_left # {} /\ roads_left' = roads_left \ {road}
      /\ ddr_arcs' = ddr_arcs \cup Collected /\ ~Better
      /\ q' = q /\ label' = label /\ pred' = pred /\ list_of_nodes' = list_of_nodes
      /\ status = "search" /\ status' = "search" /\ Reached' = Reached /\ Roots' = Roots
  BY DEF IInv, TypeOK, See, Reached, Roots
<1>2. road \in roads_left /\ road \in Road
  BY <1>1, RoadIsLeft
<1>3. ListedReached' /\ WalkBackEnds' /\ RootsAtZero' /\ Ended'
  BY <1>1 DEF IInv, ListedReached, WalkBackEnds, RootsAtZero, Ended
<1>4. WithinCeiling'
  BY <1>1, <1>2 DEF IInv, WithinCeiling, ListedReached, Collected
<1>5. /\ label[DownNode[road]] <= label[UpNode[road]] + q.length[road]
      /\ road \in q.domain => road \in ddr_arcs'
  <2>1. label \in [Node -> 0 .. DBL_MAX] /\ q.length \in [Road -> Nat \ {0}] /\ DBL_MAX \in Nat
        /\ UpNode[road] \in Node /\ DownNode[road] \in Node
    BY <1>1, QueryType, RoadIsLeft, NetworkAssumption DEF IInv, TypeOK
  <2>2. label[DownNode[road]] \in Nat /\ label[UpNode[road]] \in Nat /\ q.length[road] \in Nat
    BY <1>2, <2>1
  <2>3. label[DownNode[road]] <= label[UpNode[road]] + q.length[road]
    BY <1>1, <2>2 DEF Better, Through
  <2> QED
    BY <1>1, <2>3 DEF Collected
<1>6. Expanded'
  <2> SUFFICES ASSUME NEW n \in Reached, ~Contains(list_of_nodes, n),
                      NEW r \in Road, UpNode[r] = n
               PROVE  r \in roads_left' \/ Done(r)'
    BY <1>1 DEF Expanded
  <2>1. CASE r = road
    BY <1>1, <1>5, <2>1 DEF Done
  <2>2. CASE r # road
    <3>1. r \in roads_left \/ Done(r)
      BY <1>1 DEF IInv, Expanded
    <3>2. Done(r) => Done(r)'
      BY <1>1 DEF Done
    <3> QED
      BY <1>1, <2>2, <3>1, <3>2
  <2> QED
    BY <2>1, <2>2
<1> QED
  BY <1>3, <1>4, <1>6 DEF IInv

\* A label is corrected: nothing rests on its being as large as it was.
LEMMA CorrectIInv ==
  ASSUME IInv, TypeOK', Correct
  PROVE  IInv'
<1> DEFINE n == DownNode[road]
           u == UpNode[road]
<1>1. /\ roads_left \in SUBSET Road /\ roads_left # {} /\ Better
      /\ label \in [Node -> 0 .. DBL_MAX] /\ q.length \in [Road -> Nat \ {0}] /\ DBL_MAX \in Nat
      /\ pred \in [Node -> SUBSET Road] /\ list_of_nodes \in Seq(Node)
      /\ q' = q /\ Roots' = Roots /\ Roots \in SUBSET Node /\ q \in Query
      /\ label' = [label EXCEPT ![n] = Through] /\ ddr_arcs' = ddr_arcs \cup Collected
      /\ status = "search"
  BY QueryType, NetworkAssumption DEF IInv, TypeOK, Correct, Roots
<1>2. road \in roads_left /\ road \in Road /\ u \in Node /\ n \in Node
  BY <1>1, RoadIsLeft
<1>3. /\ label[n] \in 0 .. DBL_MAX /\ label[u] \in 0 .. DBL_MAX /\ q.length[road] \in Nat
      /\ q.length[road] > 0 /\ Through = label[u] + q.length[road] /\ Through < label[n]
  BY <1>1, <1>2 DEF Better, Through
<1>4. minimum_label \in Nat /\ minimum_label <= q.length[road]
  BY <1>1, <1>2, MinimumIsLeast
<1>5. ~(Through < minimum_label)
  BY <1>1, <1>3, <1>4
<1>6. /\ pred' = [pred EXCEPT ![n] = {road}]
      /\ list_of_nodes' = Placed(n, label[n], label')
      /\ roads_left' = roads_left \ {road} /\ status' = "search"
  BY <1>1, <1>5 DEF Correct
<1>7. u # n /\ Through \in Nat /\ Through # DBL_MAX /\ label[u] # DBL_MAX
  BY <1>1, <1>3
<1> HIDE DEF n, u
<1>8. \A x : Contains(list_of_nodes', x) <=> x = n \/ Contains(list_of_nodes, x)
  BY <1>1, <1>2, <1>6, ContainsPlaced
<1>9. /\ label'[n] = Through /\ \A x \in Node : x # n => label'[x] = label[x]
      /\ \A x \in Node : label'[x] <= label[x] /\ label'[x] \in Nat /\ label[x] \in Nat
  BY <1>1, <1>2, <1>3, <1>7
<1>10. \A x \in Node : x \in Reached' <=> x = n \/ x \in Reached
  BY <1>1, <1>2, <1>7, <1>9 DEF Reached
<1>11. UpNode \in [Road -> Node] /\ DownNode \in [Road -> Node]
  BY NetworkAssumption
<1>12. ListedReached'
  BY <1>1, <1>6, <1>8, <1>10, <1>11 DEF IInv, ListedReached
<1>13. RootsAtZero'
  <2>1. n \notin Roots
    BY <1>3 DEF IInv, RootsAtZero
  <2> QED
    BY <1>1, <1>9, <2>1 DEF IInv, RootsAtZero
<1>14. WithinCeiling'
  <2>1. \A r \in ddr_arcs' : r \in ddr_arcs \/ r = road
    BY <1>1 DEF Collected
  <2>2. ddr_arcs \in SUBSET Road /\ q.ceil \in Nat
    BY <1>1, QueryType DEF IInv, TypeOK
  <2>3. ASSUME NEW r \in Road, label[UpNode[r]] <= q.ceil, UpNode[r] \in Reached
        PROVE  label'[UpNode[r]] <= q.ceil /\ UpNode[r] \in Reached'
    BY <1>9, <1>10, <1>11, <2>2, <2>3
  <2>4. label[u] <= q.ceil /\ u \in Reached
    BY <1>2 DEF IInv, WithinCeiling, ListedReached, u
  <2>5. \A r \in ddr_arcs' : r \in Road /\ label[UpNode[r]] <= q.ceil /\ UpNode[r] \in Reached
    BY <1>2, <2>1, <2>2, <2>4 DEF IInv, WithinCeiling, u
  <2>6. \A r \in roads_left' : r \in Road /\ label[UpNode[r]] <= q.ceil /\ UpNode[r] \in Reached
    BY <1>1, <1>6 DEF IInv, WithinCeiling, ListedReached
  <2> QED
    BY <1>1, <2>3, <2>5, <2>6 DEF WithinCeiling
<1>15. WalkBackEnds'
  <2> SUFFICES ASSUME NEW x \in Reached', x \notin Roots
               PROVE  \E r \in Road : /\ pred'[x] = {r} /\ DownNode[r] = x
                                      /\ UpNode[r] \in Reached'
                                      /\ label'[UpNode[r]] + q.length[r] <= label'[x]
    BY <1>1, <1>6 DEF WalkBackEnds
  <2>0. x \in Node
    BY DEF Reached
  <2>1. CASE x = n
    <3>1. pred'[x] = {road}
      BY <1>1, <1>2, <1>6, <2>1
    <3>2. u \in Reached' /\ label'[u] = label[u]
      BY <1>2, <1>7, <1>9, <1>10 DEF Reached
    <3>3. label'[u] + q.length[road] <= label'[x]
      BY <1>3, <1>7, <1>9, <2>1, <3>2
    <3> QED
      BY <1>2, <2>1, <3>1, <3>2, <3>3 DEF n, u
  <2>2. CASE x # n
    <3>1. x \in Reached /\ pred'[x] = pred[x] /\ label'[x] = label[x]
      BY <1>1, <1>6, <1>9, <1>10, <2>0, <2>2
    <3>2. PICK r \in Road : /\ pred[x] = {r} /\ DownNode[r] = x /\ UpNode[r] \in Reached
                            /\ label[UpNode[r]] + q.length[r] <= label[x]
      BY <3>1 DEF IInv, WalkBackEnds
    <3>3. UpNode[r] \in Node /\ UpNode[r] \in Reached' /\ label'[UpNode[r]] <= label[UpNode[r]]
      BY <1>9, <1>10, <1>11, <3>2
    <3>4. /\ label'[UpNode[r]] \in Nat /\ label[UpNode[r]] \in Nat /\ q.length[r] \in Nat
          /\ label[x] \in Nat
      BY <1>1, <1>9, <2>0, <3>3
    <3>5. label'[UpNode[r]] + q.length[r] <= label'[x]
      BY <3>1, <3>2, <3>3, <3>4
    <3> QED
      BY <3>1, <3>2, <3>3, <3>5
  <2> QED
    BY <2>1, <2>2
<1>16. Expanded'
  <2> SUFFICES ASSUME NEW x \in Reached', ~Contains(list_of_nodes', x),
                      NEW r \in Road, UpNode[r] = x
               PROVE  r \in roads_left' \/ Done(r)'
    BY DEF Expanded
  <2>1. x \in Node /\ x # n /\ x \in Reached /\ ~Contains(list_of_nodes, x)
    BY <1>8, <1>10 DEF Reached
  <2>2. r \in roads_left \/ Done(r)
    BY <1>1, <2>1 DEF IInv, Expanded
  <2>3. /\ label'[x] = label[x] /\ label'[DownNode[r]] <= label[DownNode[r]] /\ label[x] \in Nat
        /\ label'[DownNode[r]] \in Nat /\ label[DownNode[r]] \in Nat /\ q.length[r] \in Nat
    BY <1>1, <1>9, <1>11, <2>1
  <2>4. CASE Done(r)
    BY <1>1, <2>3, <2>4 DEF Done
  <2>5. CASE r \in roads_left /\ r # road
    BY <1>6, <2>5
  <2>6. CASE r = road
    <3>1. label'[DownNode[r]] <= label'[x] + q.length[r]
      BY <1>3, <1>9, <2>3, <2>6 DEF n, u
    <3>2. r \in q.domain => r \in ddr_arcs'
      BY <1>1, <2>6 DEF Collected
    <3> QED
      BY <1>1, <3>1, <3>2 DEF Done
  <2> QED
    BY <2>2, <2>4, <2>5, <2>6
<1>17. Ended'
  BY <1>6 DEF Ended
<1> QED
  BY <1>12, <1>13, <1>14, <1>15, <1>16, <1>17 DEF IInv

\* The empty deque: nothing is left to do, so every label is spread.
LEMMA FinishIInv ==
  ASSUME IInv, TypeOK', Finish
  PROVE  IInv'
<1>1. /\ list_of_nodes = <<>> /\ roads_left = {} /\ list_of_nodes' = list_of_nodes
      /\ q' = q /\ label' = label /\ pred' = pred /\ roads_left' = roads_left /\ ddr_arcs' = ddr_arcs
      /\ status = "search" /\ status' = "true" /\ Reached' = Reached /\ Roots' = Roots
  BY DEF Finish, BetweenNodes, Reached, Roots
<1>2. ListedReached' /\ WalkBackEnds' /\ WithinCeiling' /\ RootsAtZero' /\ Ended'
  BY <1>1 DEF IInv, ListedReached, WalkBackEnds, WithinCeiling, RootsAtZero, Ended
<1>3. Expanded'
  BY <1>1 DEF IInv, Expanded, Done
<1> QED
  BY <1>2, <1>3 DEF IInv

(***************************************************************************)
(* The invariant of the search: what is in the deque, or left to be seen,  *)
(* is all there is to do, and predecessors are at least a road shorter.    *)
(***************************************************************************)
THEOREM Invariance == Spec => []IInv
<1>1. Spec => []TypeOK
  BY TypeCorrect
<1>2. IInv /\ TypeOK' /\ [Next]_vars => IInv'
  <2> SUFFICES ASSUME IInv, TypeOK', [Next]_vars PROVE IInv'
    OBVIOUS
  <2>1. CASE UNCHANGED vars
    BY <2>1 DEF vars, IInv, ListedReached, WalkBackEnds, WithinCeiling, RootsAtZero, Expanded,
                Ended, Done, Reached, Roots
  <2> QED
    BY <2>1, LimitIInv, TakeIInv, SeeIInv, CorrectIInv, FinishIInv DEF Next
<1> QED
  BY <1>1, <1>2, InitIInv, PTL DEF Spec

(***************************************************************************)
(* However often labels are corrected after they were used, predecessors   *)
(* lead back to a root, on every network, and no correction is taken for a *)
(* negative cycle: the search never fails.                                 *)
(***************************************************************************)
THEOREM WalksBackEnd == Spec => []WalkBackEnds
BY Invariance, PTL DEF IInv

-----------------------------------------------------------------------------
(* What a search that the ceiling did not stop has found.                  *)

\* The distances that no road contradicts.
Consistent ==
  {d \in [Node -> 0 .. DBL_MAX] :
     /\ \A n \in Roots : d[n] = 0
     /\ \A r \in Road : d[DownNode[r]] <= d[UpNode[r]] + q.length[r]}

\* The shortest distances are the largest of them.
ShortestLabels == label \in Consistent /\ \A d \in Consistent, n \in Node : d[n] <= label[n]

AllCollected == ddr_arcs = {r \in q.domain : UpNode[r] \in Reached}

\* No consistent distance exceeds a label: the node of the least label for
\* which one did has a predecessor for which it did as well.
LEMMA LabelsLargest ==
  ASSUME IInv, NEW d \in Consistent, NEW n \in Node
  PROVE  d[n] <= label[n]
<1> DEFINE above == {x \in Node : d[x] > label[x]}
           values == {label[x] : x \in above}
<1>1. /\ label \in [Node -> 0 .. DBL_MAX] /\ d \in [Node -> 0 .. DBL_MAX] /\ DBL_MAX \in Nat
      /\ q.length \in [Road -> Nat \ {0}] /\ UpNode \in [Road -> Node] /\ Roots \in SUBSET Node
      /\ \A x \in Roots : d[x] = 0
      /\ \A r \in Road : d[DownNode[r]] <= d[UpNode[r]] + q.length[r]
  BY QueryType, NetworkAssumption DEF IInv, TypeOK, Consistent
<1>2. \A x \in Node : label[x] \in Nat /\ d[x] \in Nat /\ d[x] <= DBL_MAX
  BY <1>1
<1>3. SUFFICES ASSUME above # {} PROVE FALSE
  BY <1>2
<1>4. values \in SUBSET Nat /\ values # {}
  BY <1>2, <1>3
<1>5. PICK v \in values : \A w \in values : v <= w
  BY <1>4, LeastOfNaturals
<1>6. PICK x \in above : label[x] = v
  OBVIOUS
<1>7. x \in Node /\ d[x] > label[x] /\ \A y \in Node : d[y] > label[y] => label[x] <= label[y]
  BY <1>5, <1>6
<1> HIDE DEF above, values
<1>8. x \in Reached \ Roots
  <2>1. label[x] # DBL_MAX
    BY <1>1, <1>2, <1>7
  <2>2. x \notin Roots
    BY <1>1, <1>2, <1>7
  <2> QED
    BY <1>7, <2>1, <2>2 DEF Reached
<1>9. PICK r \in Road : DownNode[r] = x /\ label[UpNode[r]] + q.length[r] <= label[x]
  BY <1>8 DEF IInv, WalkBackEnds
<1>10. UpNode[r] \in Node /\ q.length[r] \in Nat /\ q.length[r] > 0
  BY <1>1
<1>11. d[x] <= d[UpNode[r]] + q.length[r]
  BY <1>1, <1>9
<1>12. d[UpNode[r]] > label[UpNode[r]] /\ ~(label[x] <= label[UpNode[r]])
  BY <1>2, <1>7, <1>9, <1>10, <1>11
<1> QED
  BY <1>7, <1>10, <1>12

\* Nothing is left to do when the deque is empty.
LEMMA AllSeen ==
  ASSUME IInv, status = "true"
  PROVE  ShortestLabels /\ AllCollected
<1>1. list_of_nodes = <<>> /\ roads_left = {}
  BY DEF IInv, Ended
<1>2. \A n : ~Contains(list_of_nodes, n)
  BY <1>1 DEF Contains
<1>3. \A r \in Road : UpNode[r] \in Reached => Done(r)
  BY <1>1, <1>2 DEF IInv, Expanded
<1>4. /\ label \in [Node -> 0 .. DBL_MAX] /\ DBL_MAX \in Nat /\ q.length \in [Road -> Nat \ {0}]
      /\ UpNode \in [Road -> Node] /\ DownNode \in [Road -> Node]
      /\ ddr_arcs \subseteq q.domain /\ q.domain \subseteq Road
  BY QueryType, NetworkAssumption DEF IInv, TypeOK
<1>5. ASSUME NEW r \in Road
      PROVE  label[DownNode[r]] <= label[UpNode[r]] + q.length[r]
  <2>1. label[UpNode[r]] \in Nat /\ label[DownNode[r]] \in 0 .. DBL_MAX /\ q.length[r] \in Nat
    BY <1>4
  <2>2. CASE UpNode[r] \in Reached
    BY <1>3, <2>2 DEF Done
  <2>3. CASE UpNode[r] \notin Reached
    <3>1. label[UpNode[r]] = DBL_MAX
      BY <1>4, <2>3 DEF Reached
    <3> QED
      BY <1>4, <2>1, <3>1
  <2> QED
    BY <2>2, <2>3
<1>6. label \in Consistent
  BY <1>4, <1>5 DEF Consistent, IInv, RootsAtZero
<1>7. ShortestLabels
  BY <1>6, LabelsLargest DEF ShortestLabels
<1>8. AllCollected
  BY <1>3, <1>4 DEF AllCollected, IInv, WithinCeiling, Done
<1> QED
  BY <1>7, <1>8

(***************************************************************************)
(* Without the ceiling the search is complete: when it returns true after  *)
(* emptying its deque, the labels are the shortest distances (no larger    *)
(* ones are consistent with the roads) and all roads of the domain that    *)
(* can be reached are collected; and always, none is collected that starts *)
(* beyond the ceiling. This is CollectsDomain in a form without recursion. *)
(***************************************************************************)
THEOREM DomainCollected ==
  Spec => [](/\ \A r \in ddr_arcs : label[UpNode[r]] <= q.ceil
             /\ status = "true" => ShortestLabels /\ AllCollected)
<1>1. IInv => (status = "true" => ShortestLabels /\ AllCollected)
  BY AllSeen
<1>2. IInv => \A r \in ddr_arcs : label[UpNode[r]] <= q.ceil
  BY DEF IInv, WithinCeiling
<1> QED
  BY <1>1, <1>2, Invariance, PTL

-----------------------------------------------------------------------------
(* The reference of the run.                                               *)

(***************************************************************************)
(* The roads that are collected start within the ceiling; and a search the *)
(* ceiling did not stop has the labels of the reference and all roads of   *)
(* the domain that can be reached, on every network, in whichever order    *)
(* the deque hands out the nodes.                                          *)
(***************************************************************************)
THEOREM AlwaysCollectsDomain == Spec => []CollectsDomain
<1>1. ASSUME IInv, status = "true"
      PROVE  label = Distances(q.length, Roots, "FWD")
  <2>1. label \in [Node -> 0 .. DBL_MAX] /\ q.length \in [Road -> Nat \ {0}] /\ "FWD" \in Direction
    BY <1>1, QueryType, NetworkAssumption DEF IInv, TypeOK, Direction
  <2>2. \A r : Near(r, "FWD") = UpNode[r] /\ Far(r, "FWD") = DownNode[r]
    BY DEF Near, Far
  <2>3. label \in Consistent
    BY <1>1, AllSeen DEF ShortestLabels
  <2>4. \A r \in Road : label[Far(r, "FWD")] <= label[Near(r, "FWD")] + q.length[r]
    BY <2>2, <2>3 DEF Consistent
  <2>5. Preceded(label, q.length, Roots, "FWD")
    <3>1. \A n \in Node \cap Roots : label[n] = 0
      BY <2>3 DEF Consistent
    <3>2. \A n \in Node \ Roots : label[n] # DBL_MAX =>
            \E r \in Road : DownNode[r] = n /\ label[UpNode[r]] + q.length[r] <= label[n]
      BY <1>1 DEF IInv, WalkBackEnds, Reached
    <3> QED
      BY <2>2, <3>1, <3>2 DEF Preceded
  <2> QED
    BY <2>1, <2>4, <2>5, LabelsAreDistances
<1>2. IInv => CollectsDomain
  BY <1>1, AllSeen DEF CollectsDomain, AllCollected, IInv, WithinCeiling
<1> QED
  BY <1>2, Invariance, PTL

=============================================================================
