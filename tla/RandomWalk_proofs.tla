------------------------- MODULE RandomWalk_proofs --------------------------
(***************************************************************************)
(* What holds of every random walk, on every network with positive costs:  *)
(* it throws only where no way leads on, and the probability it adds up    *)
(* while it walks is the one calculatePathLogWeight adds up afterwards.    *)
(***************************************************************************)
EXTENDS RandomWalk, Router_proofs

-----------------------------------------------------------------------------
(* The labels which the walk follows.                                      *)

LEMMA QueryType ==
  ASSUME q \in Query
  PROVE  /\ q.cost \in [Road -> Nat \ {0}] /\ q.cost \in [Road -> Nat]
         /\ q.origin \in Node /\ q.destination \in Node
<1>1. q \in [cost : [Road -> Nat \ {0}], origin : Node, destination : Node]
  BY QueryAssumption
<1>2. q.cost \in [Road -> Nat \ {0}] /\ q.origin \in Node /\ q.destination \in Node
  BY <1>1
<1> QED
  BY <1>2

\* What bwdCost leaves: no road contradicts the labels, every labelled node has
\* a road on, and they are the distances of the reference.
Followed(lab) ==
  /\ lab \in [Node -> 0 .. DBL_MAX]
  /\ lab[q.destination] = 0
  /\ \A r \in Road : lab[UpNode[r]] <= lab[DownNode[r]] + q.cost[r]
  /\ \A n \in Node \ {q.destination} : lab[n] # DBL_MAX =>
       \E r \in RoadsOut(n) : lab[DownNode[r]] + q.cost[r] <= lab[n]
  /\ lab = Distances(q.cost, {q.destination}, "BWD")

LEMMA LabelsFollowed ==
  ASSUME q \in Query
  PROVE  Followed(Labels(q.destination))
<1>1. PICK lab : lab = Labels(q.destination)
  OBVIOUS
<1>2. "BWD" \in Direction /\ -1 \notin Node
  BY NetworkAssumption DEF Direction
<1>3. Complete(lab, q.cost, q.destination, "BWD")
  BY <1>1, <1>2, QueryType, TreeCompletes DEF Labels
<1>4. \A r : Near(r, "BWD") = DownNode[r] /\ Far(r, "BWD") = UpNode[r]
  BY DEF Near, Far
<1>5. /\ lab \in [Node -> 0 .. DBL_MAX] /\ Preceded(lab, q.cost, {q.destination}, "BWD")
      /\ \A r \in Road : lab[Far(r, "BWD")] <= lab[Near(r, "BWD")] + q.cost[r]
  BY <1>3 DEF Complete
<1>6. lab = Distances(q.cost, {q.destination}, "BWD")
  BY <1>2, <1>5, QueryType, LabelsAreDistances
<1>7. lab[q.destination] = 0
  BY <1>5, QueryType DEF Preceded
<1>8. \A r \in Road : lab[UpNode[r]] <= lab[DownNode[r]] + q.cost[r]
  BY <1>4, <1>5
<1>9. \A n \in Node \ {q.destination} : lab[n] # DBL_MAX =>
        \E r \in RoadsOut(n) : lab[DownNode[r]] + q.cost[r] <= lab[n]
  BY <1>4, <1>5 DEF Preceded, RoadsOut
<1> QED
  BY <1>1, <1>5, <1>6, <1>7, <1>8, <1>9 DEF Followed

\* The roads out of a node, their costs, and the cheapest round trip.
LEMMA LeastIsOne ==
  ASSUME q \in Query, NEW lab, Followed(lab), NEW n \in Node
  PROVE  /\ \A r \in Onward(n, lab) : Through(r, lab) \in Nat /\ 0 < Through(r, lab)
                                      /\ Least(n, q.destination, lab) <= Through(r, lab)
         /\ n = q.destination /\ Onward(n, lab) # {} =>
              Least(n, q.destination, lab) # DBL_MAX /\ Least(n, q.destination, lab) # 0
<1>1. DBL_MAX \in Nat /\ 0 < DBL_MAX
  BY NetworkAssumption
<1>2. ASSUME NEW r \in Onward(n, lab)
      PROVE  /\ r \in Road /\ UpNode[r] = n /\ DownNode[r] \in Node /\ lab[DownNode[r]] # DBL_MAX
             /\ Through(r, lab) \in Nat /\ 0 < Through(r, lab) /\ Through(r, lab) < DBL_MAX
  <2>1. r \in Road /\ UpNode[r] = n /\ DownNode[r] \in Node /\ lab[DownNode[r]] # DBL_MAX
    BY NetworkAssumption DEF Onward, RoadsOut
  <2>2. PICK d, cr : d = lab[DownNode[r]] /\ cr = q.cost[r]
    OBVIOUS
  <2>3. d \in Nat /\ cr \in Nat /\ 0 < cr
    <3>1. d \in 0 .. DBL_MAX
      BY <2>1, <2>2 DEF Followed
    <3>2. cr \in Nat \ {0}
      BY <2>1, <2>2, QueryType
    <3> QED
      BY <1>1, <3>1, <3>2
  <2>4. d + cr < DBL_MAX
    BY <2>1, <2>2, RangeAssumption DEF Followed
  <2>5. Through(r, lab) = d + cr
    BY <2>2 DEF Through
  <2> QED
    BY <2>1, <2>3, <2>4, <2>5
<1>3. CASE n # q.destination
  <2>1. Least(n, q.destination, lab) = lab[n]
    BY <1>3 DEF Least
  <2>2. ASSUME NEW r \in Onward(n, lab)
        PROVE  lab[n] <= Through(r, lab)
    BY <1>2, <2>2 DEF Followed, Through
  <2> QED
    BY <1>2, <1>3, <2>1, <2>2
<1>4. CASE n = q.destination
  <2> DEFINE costs == {DBL_MAX} \cup {Through(r, lab) : r \in Onward(n, lab)}
  <2>1. costs \in SUBSET Nat /\ costs # {} /\ 0 \notin costs
    BY <1>1, <1>2
  <2>2. Least(n, q.destination, lab) = LeastOf(costs)
    BY <1>4 DEF Least, LeastOf
  <2>3. LeastOf(costs) \in costs /\ \A y \in costs : LeastOf(costs) <= y
    <3> HIDE DEF costs
    <3> QED
      BY <2>1, LeastIsLeast
  <2>4. \A r \in Onward(n, lab) : LeastOf(costs) <= Through(r, lab)
    BY <2>3
  <2>5. LeastOf(costs) # 0 /\ LeastOf(costs) \in Nat
    BY <2>1, <2>3
  <2>6. ASSUME Onward(n, lab) # {} PROVE LeastOf(costs) # DBL_MAX
    <3>1. PICK r : r \in Onward(n, lab)
      BY <2>6
    <3>2. Through(r, lab) \in Nat /\ Through(r, lab) < DBL_MAX /\ LeastOf(costs) <= Through(r, lab)
      BY <1>2, <2>4, <3>1
    <3> HIDE DEF costs
    <3> QED
      BY <1>1, <2>5, <3>2
  <2> HIDE DEF costs
  <2> QED
    BY <1>2, <2>2, <2>4, <2>5, <2>6
<1> QED
  BY <1>3, <1>4

\* No road can be drawn, or something is thrown: the node does not lead to the
\* destination, or it is the destination and nothing comes back to it.
LEMMA StuckMeansTrapped ==
  ASSUME q \in Query, NEW lab, Followed(lab), NEW n \in Node,
         ProbasThrow(n, q.destination, lab) \/ Drawable(n, q.destination, lab) = {}
  PROVE  IF n = q.destination THEN Onward(n, lab) = {} ELSE lab[n] = DBL_MAX
<1>1. DBL_MAX \in Nat /\ lab[n] \in Nat
  <2>1. lab[n] \in 0 .. DBL_MAX /\ DBL_MAX \in Nat
    BY NetworkAssumption DEF Followed
  <2> QED
    BY <2>1
<1>2. ASSUME n # q.destination, lab[n] # DBL_MAX
      PROVE  FALSE
  <2>1. Least(n, q.destination, lab) = lab[n]
    BY <1>2 DEF Least
  <2>2. PICK r \in RoadsOut(n) : lab[DownNode[r]] + q.cost[r] <= lab[n]
    BY <1>2 DEF Followed
  <2>3. PICK d, cr : d = lab[DownNode[r]] /\ cr = q.cost[r]
    OBVIOUS
  <2>4. d \in Nat /\ cr \in Nat /\ 0 < cr /\ lab[n] <= DBL_MAX
    <3>1. r \in Road /\ DownNode[r] \in Node
      BY NetworkAssumption DEF RoadsOut
    <3>2. d \in 0 .. DBL_MAX /\ lab[n] \in 0 .. DBL_MAX
      BY <2>3, <3>1 DEF Followed
    <3>3. cr \in Nat \ {0}
      BY <2>3, <3>1, QueryType
    <3> QED
      BY <1>1, <3>2, <3>3
  <2>5. d + cr <= lab[n]
    BY <2>2, <2>3
  <2>6. d # DBL_MAX /\ lab[n] # 0
    BY <1>1, <2>4, <2>5
  <2>7. r \in Onward(n, lab)
    BY <2>3, <2>6 DEF Onward
  <2>8. Drawable(n, q.destination, lab) # {}
    BY <1>2, <2>1, <2>7 DEF Drawable
  <2>9. \A s \in Onward(n, lab) : Through(s, lab) \in Nat /\ lab[n] <= Through(s, lab)
    BY <2>1, LeastIsOne
  <2>10. ~ ProbasThrow(n, q.destination, lab)
    BY <1>1, <2>1, <2>6, <2>7, <2>9 DEF ProbasThrow
  <2> QED
    BY <2>8, <2>10
<1>3. ASSUME n = q.destination, Onward(n, lab) # {}
      PROVE  FALSE
  <2>1. PICK least : least = Least(n, q.destination, lab)
    OBVIOUS
  <2>2. least # DBL_MAX /\ least # 0
    BY <1>3, <2>1, LeastIsOne
  <2>3. Drawable(n, q.destination, lab) # {}
    BY <1>3, <2>1, <2>2 DEF Drawable
  <2>4. \A s \in Onward(n, lab) : Through(s, lab) \in Nat /\ least <= Through(s, lab)
    BY <2>1, LeastIsOne
  <2>5. least \in Nat
    <3> DEFINE costs == {DBL_MAX} \cup {Through(r, lab) : r \in Onward(n, lab)}
    <3>1. costs \in SUBSET Nat /\ costs # {}
      BY <1>1, <2>4
    <3>2. least = LeastOf(costs)
      BY <1>3, <2>1 DEF Least, LeastOf
    <3> HIDE DEF costs
    <3> QED
      BY <3>1, <3>2, LeastIsLeast
  <2>6. ~ ProbasThrow(n, q.destination, lab)
    BY <1>3, <2>1, <2>2, <2>4, <2>5 DEF ProbasThrow
  <2> QED
    BY <2>3, <2>6
<1> QED
  BY <1>2, <1>3

-----------------------------------------------------------------------------
(* Where a walk is, and why it throws.                                     *)

WalkType ==
  /\ q \in Query /\ path \in Seq(Road) /\ current_node \in Node /\ dest_count \in Nat
  /\ pc \in {"tree", "walk", "go", "done", "thrown"}

\* Once it took a road the walk is at a node that leads to the destination,
\* and it goes on from the destination only when roads leave it.
OnItsWay ==
  /\ pc = "tree" => path = <<>>
  /\ pc # "tree" => label = Labels(q.destination)
  /\ path = <<>> => current_node = q.origin
  /\ path # <<>> => label[current_node] # DBL_MAX
  /\ pc = "go" => current_node = q.destination /\ RoadsOut(current_node) # {}

IInv == WalkType /\ OnItsWay /\ ThrowsOnlyWhenTrapped

LEMMA InitIInv == Init => IInv
<1> SUFFICES ASSUME Init PROVE IInv
  OBVIOUS
<1>1. q \in Query /\ q.origin \in Node
  BY QueryType DEF Init
<1> QED
  BY <1>1 DEF Init, IInv, WalkType, OnItsWay, ThrowsOnlyWhenTrapped

\* The nodes that lead to the destination are those with a label.
LEMMA LeadsLabelled ==
  ASSUME IInv, pc # "tree"
  PROVE  Followed(label) /\ \A n \in Node : n \in Leads <=> label[n] # DBL_MAX
<1>1. Followed(label)
  BY LabelsFollowed DEF IInv, WalkType, OnItsWay
<1> QED
  BY <1>1 DEF Followed, Leads

\* run, before the walk.
LEMMA GrowIInv ==
  ASSUME IInv, Grow
  PROVE  IInv'
<1>1. /\ pc = "tree" /\ label' = Labels(q.destination) /\ path = <<>> /\ path' = path
      /\ q' = q /\ current_node' = current_node /\ dest_count' = dest_count
      /\ pc' \in {"walk", "thrown"} /\ current_node = q.origin
  BY DEF Grow, IInv, OnItsWay
<1>2. Followed(label') /\ q \in Query /\ q.destination \in Node /\ q.origin \in Node
  BY <1>1, LabelsFollowed, QueryType DEF IInv, WalkType
<1>3. WalkType'
  BY <1>1 DEF IInv, WalkType
<1>4. Labels(q.destination)' = Labels(q.destination)
  BY <1>1 DEF Labels
<1>5. OnItsWay'
  BY <1>1, <1>4 DEF OnItsWay
<1>6. ASSUME pc' = "thrown"
      PROVE  Leads' = {q.destination}
  <2>1. \A n \in Node \ {q.destination} : label'[n] = DBL_MAX
    BY <1>6 DEF Grow
  <2>2. label'[q.destination] = 0 /\ label' = Distances(q.cost, {q.destination}, "BWD")
    BY <1>2 DEF Followed
  <2>3. 0 # DBL_MAX
    BY NetworkAssumption
  <2>4. Leads' = {n \in Node : label'[n] # DBL_MAX}
    BY <1>1, <2>2 DEF Leads
  <2> QED
    BY <1>2, <2>1, <2>2, <2>3, <2>4
<1>7. ThrowsOnlyWhenTrapped'
  BY <1>1, <1>6 DEF ThrowsOnlyWhenTrapped
<1> QED
  BY <1>3, <1>5, <1>7 DEF IInv

\* At the destination the walk stays where it is.
LEMMA DrawIInv ==
  ASSUME IInv, End \/ DrawStop \/ DrawGoOn
  PROVE  IInv'
<1>1. /\ pc = "walk" /\ current_node = q.destination /\ q' = q /\ label' = label /\ path' = path
      /\ current_node' = current_node /\ dest_count' \in {dest_count, dest_count + 1}
      /\ pc' \in {"done", "go"} /\ (pc' = "go" => RoadsOut(current_node) # {})
  BY DEF End, DrawStop, DrawGoOn, AtDestination
<1>2. WalkType'
  BY <1>1 DEF IInv, WalkType
<1>3. Labels(q.destination)' = Labels(q.destination) /\ RoadsOut(current_node)' = RoadsOut(current_node)
  BY <1>1 DEF Labels, RoadsOut
<1>4. OnItsWay'
  BY <1>1, <1>3 DEF IInv, OnItsWay
<1>5. ThrowsOnlyWhenTrapped'
  BY <1>1 DEF ThrowsOnlyWhenTrapped
<1> QED
  BY <1>2, <1>4, <1>5 DEF IInv

\* A road that is drawn leads to a labelled node.
LEMMA WalkIInv ==
  ASSUME IInv, NEW r \in Road, Walk(r)
  PROVE  IInv'
<1>1. /\ Leaving /\ r \in Drawable(current_node, q.destination, label) /\ path' = Append(path, r)
      /\ current_node' = DownNode[r] /\ pc' = "walk" /\ q' = q /\ label' = label /\ dest_count' = dest_count
  BY DEF Walk
<1>2. pc # "tree"
  BY <1>1 DEF Leaving
<1>3. label[DownNode[r]] # DBL_MAX /\ DownNode[r] \in Node
  BY <1>1, NetworkAssumption DEF Drawable, Onward
<1>4. path' \in Seq(Road) /\ path' # <<>>
  BY <1>1 DEF IInv, WalkType
<1>5. WalkType'
  BY <1>1, <1>3, <1>4 DEF IInv, WalkType
<1>6. Labels(q.destination)' = Labels(q.destination)
  BY <1>1 DEF Labels
<1>7. OnItsWay'
  BY <1>1, <1>2, <1>3, <1>4, <1>6 DEF IInv, OnItsWay
<1>8. ThrowsOnlyWhenTrapped'
  BY <1>1 DEF ThrowsOnlyWhenTrapped
<1> QED
  BY <1>5, <1>7, <1>8 DEF IInv

\* What is thrown, is thrown at an origin from where no way leads to the
\* destination, or at a destination nothing comes back to.
LEMMA ThrowIInv ==
  ASSUME IInv, Throw
  PROVE  IInv'
<1>1. /\ Leaving /\ pc' = "thrown" /\ q' = q /\ label' = label /\ path' = path
      /\ current_node' = current_node /\ dest_count' = dest_count
      /\ \/ ProbasThrow(current_node, q.destination, label)
         \/ Drawable(current_node, q.destination, label) = {}
  BY DEF Throw
<1>2. pc # "tree" /\ (current_node = q.destination => pc = "go")
  BY <1>1 DEF Leaving
<1>3. WalkType'
  BY <1>1 DEF IInv, WalkType
<1>4. Labels(q.destination)' = Labels(q.destination)
  BY <1>1 DEF Labels
<1>5. OnItsWay'
  BY <1>1, <1>2, <1>4 DEF IInv, OnItsWay
<1>6. Followed(label) /\ (\A n \in Node : n \in Leads <=> label[n] # DBL_MAX)
  BY <1>2, LeadsLabelled
<1>7. q \in Query /\ current_node \in Node
  BY DEF IInv, WalkType
<1>8. IF current_node = q.destination THEN Onward(current_node, label) = {} ELSE label[current_node] = DBL_MAX
  BY <1>1, <1>6, <1>7, StuckMeansTrapped
<1>9. ASSUME current_node # q.destination
      PROVE  ThrowsOnlyWhenTrapped'
  <2>1. path = <<>> /\ current_node = q.origin
    BY <1>8, <1>9 DEF IInv, OnItsWay
  <2>2. q.origin \notin Leads
    BY <1>6, <1>7, <1>8, <1>9, <2>1
  <2>3. Leads' = Leads
    BY <1>1 DEF Leads
  <2> QED
    BY <1>1, <2>1, <2>2, <2>3 DEF ThrowsOnlyWhenTrapped
<1>10. ASSUME current_node = q.destination
       PROVE  ThrowsOnlyWhenTrapped'
  <2>1. RoadsOut(current_node) # {}
    BY <1>2, <1>10 DEF IInv, OnItsWay
  <2>2. \A r \in RoadsOut(current_node) : DownNode[r] \in Node /\ label[DownNode[r]] = DBL_MAX
    BY <1>8, <1>10, NetworkAssumption DEF Onward, RoadsOut
  <2>3. \A r \in RoadsOut(current_node) : DownNode[r] \notin Leads
    BY <1>6, <2>2
  <2>4. Leads' = Leads /\ RoadsOut(current_node)' = RoadsOut(current_node)
    BY <1>1 DEF Leads, RoadsOut
  <2> QED
    BY <1>1, <1>10, <2>1, <2>3, <2>4 DEF ThrowsOnlyWhenTrapped
<1>11. ThrowsOnlyWhenTrapped'
  BY <1>9, <1>10
<1> QED
  BY <1>3, <1>5, <1>11 DEF IInv

THEOREM Invariance == Spec => []IInv
<1>1. IInv /\ [Next]_vars => IInv'
  <2> SUFFICES ASSUME IInv, [Next]_vars PROVE IInv'
    OBVIOUS
  <2>1. CASE UNCHANGED vars
    BY <2>1 DEF vars, IInv, WalkType, OnItsWay, ThrowsOnlyWhenTrapped, Labels, RoadsOut, Leads
  <2>2. CASE Next
    BY <2>2, GrowIInv, DrawIInv, WalkIInv, ThrowIInv DEF Next
  <2> QED
    BY <2>1, <2>2
<1> QED
  BY <1>1, InitIInv, PTL DEF Spec

(***************************************************************************)
(* A walk throws only when no way leads from its origin to the             *)
(* destination, or from the destination, where it drew to go on, back to   *)
(* it: never because it got lost on the way, and never because of a ratio  *)
(* above 1 (getOutgoingArcProbas), on every network.                       *)
(***************************************************************************)
THEOREM ThrowsWhenTrapped == Spec => []ThrowsOnlyWhenTrapped
BY Invariance, PTL DEF IInv

-----------------------------------------------------------------------------
(* The loop of calculatePathLogWeight.                                     *)

\* What the loop carries, and what it makes of it on a road of probability p.
Unweighed == [terms |-> EmptyBag, dest_count |-> 0]

Weighed(s, r, p, dest) ==
  LET count == IF UpNode[r] = dest THEN s.dest_count + 1 ELSE s.dest_count
      begun == IF UpNode[r] = dest THEN Add(s.terms, GoOn(count)) ELSE s.terms
  IN  [terms |-> Add(begun, p), dest_count |-> count]

\* f gives what the loop carries after the roads at the positions s, the last
\* one last; of all positions, what it ends with.
LoopTo(f, roads, dest) ==
  f = [s \in SUBSET DOMAIN roads |->
         IF s = {} THEN Unweighed
         ELSE Weighed(f[s \ {Max(s)}], roads[Max(s)], Proba(roads[Max(s)], dest, Labels(dest)), dest)]

Loop(roads, dest) == (CHOOSE f : LoopTo(f, roads, dest))[DOMAIN roads]

LEMMA WeightOfLoop ==
  ASSUME NEW roads, NEW dest
  PROVE  calculatePathLogWeight(roads, dest) =
           IF RoadsOut(dest) # {} THEN Add(Loop(roads, dest).terms, Stop(Loop(roads, dest).dest_count + 1))
           ELSE Loop(roads, dest).terms
BY DEF calculatePathLogWeight, FoldLeft, MapThenFoldSet, Loop, LoopTo, Unweighed, Weighed

\* A set of positions that is not empty has a last one.
LEMMA LastPosition ==
  ASSUME NEW n \in Nat, NEW s \in SUBSET (1 .. n), s # {}
  PROVE  Max(s) \in s /\ (\A k \in s : k <= Max(s)) /\ s \ {Max(s)} \in SUBSET (1 .. n - 1)
<1> DEFINE back == {n - k : k \in s}
<1>1. back \in SUBSET Nat /\ back # {}
  <2>1. \A k \in s : n - k \in Nat
    BY s \subseteq 1 .. n
  <2>2. back \in SUBSET Nat
    BY ONLY <2>1
  <2> QED
    BY <2>2
<1>2. PICK m \in back : \A k \in back : m <= k
  <2> HIDE DEF back
  <2> QED
    BY <1>1, LeastOfNaturals
<1>3. PICK last \in s : m = n - last
  BY <1>2
<1>4. \A k \in s : last >= k
  <2> SUFFICES ASSUME NEW k \in s
               PROVE  last >= k
    OBVIOUS
  <2>1. m <= n - k
    BY <1>2
  <2>2. k \in 1 .. n /\ last \in 1 .. n
    OBVIOUS
  <2> QED
    BY <1>3, <2>1, <2>2
<1>5. Max(s) \in s /\ \A k \in s : Max(s) >= k
  BY <1>4 DEF Max
<1>6. PICK x : x = Max(s)
  OBVIOUS
<1>7. x \in 1 .. n /\ \A k \in s : k \in 1 .. n /\ x >= k
  BY <1>5, <1>6
<1>8. \A k \in s : k <= x /\ (k # x => k \in 1 .. n - 1)
  BY <1>7
<1> QED
  BY <1>5, <1>6, <1>8

\* The loop can be run over any path.
LEMMA LoopExists ==
  ASSUME NEW roads \in Seq(Road), NEW dest
  PROVE  \E f : LoopTo(f, roads, dest)
<1> DEFINE K == Len(roads)
           step(x, k) == Weighed(x, roads[k], Proba(roads[k], dest, Labels(dest)), dest)
           Upto(n, g) == \A s \in SUBSET (1 .. n) :
                           g[s] = IF s = {} THEN Unweighed ELSE step(g[s \ {Max(s)}], Max(s))
           S == {n \in 0 .. K : \E g : Upto(n, g)}
<1>1. K \in Nat /\ DOMAIN roads = 1 .. K
  OBVIOUS
<1> HIDE DEF step, K
<1>2. 0 \in S
  <2>1. \A s \in SUBSET (1 .. 0) : s = {}
    OBVIOUS
  <2>2. PICK g : g = [s \in SUBSET (1 .. 0) |-> Unweighed]
    OBVIOUS
  <2>3. Upto(0, g)
    BY <2>1, <2>2
  <2> HIDE DEF Upto
  <2> QED
    BY <1>1, <2>3
<1>3. ASSUME NEW n \in 1 .. K, n - 1 \in S
      PROVE  n \in S
  <2>1. PICK g : Upto(n - 1, g)
    BY <1>3
  <2>2. PICK h : h = [s \in SUBSET (1 .. n) |->
                        IF s = {} THEN Unweighed ELSE step(g[s \ {Max(s)}], Max(s))]
    OBVIOUS
  <2>3. n \in Nat /\ 1 .. n - 1 \subseteq 1 .. n
    BY <1>1
  <2>4. ASSUME NEW s \in SUBSET (1 .. n), s # {}
        PROVE  h[s \ {Max(s)}] = g[s \ {Max(s)}]
    <3>1. PICK t : t = s \ {Max(s)}
      OBVIOUS
    <3>2. t \in SUBSET (1 .. n - 1)
      BY <2>3, <2>4, <3>1, LastPosition
    <3>3. h[t] = IF t = {} THEN Unweighed ELSE step(g[t \ {Max(t)}], Max(t))
      BY <2>2, <2>3, <3>2
    <3> QED
      BY <2>1, <3>1, <3>2, <3>3
  <2>5. Upto(n, h)
    BY <2>2, <2>4
  <2>6. n \in 0 .. K
    BY <1>1
  <2> HIDE DEF Upto
  <2> QED
    BY <2>5, <2>6
<1>4. K \in S
  <2>1. S \in SUBSET (0 .. K)
    OBVIOUS
  <2> HIDE DEF S
  <2> QED
    BY <1>1, <1>2, <1>3, <2>1, AllNumbers
<1>5. PICK g : Upto(K, g)
  BY <1>4
<1>6. PICK f : f = [s \in SUBSET (1 .. K) |-> g[s]]
  OBVIOUS
<1>7. ASSUME NEW s \in SUBSET (1 .. K)
      PROVE  f[s] = IF s = {} THEN Unweighed ELSE step(f[s \ {Max(s)}], Max(s))
  <2>1. s \ {Max(s)} \in SUBSET (1 .. K)
    OBVIOUS
  <2>2. f[s] = g[s] /\ f[s \ {Max(s)}] = g[s \ {Max(s)}]
    BY <1>6, <2>1
  <2> QED
    BY <1>5, <2>2
<1>8. f = [s \in SUBSET (1 .. K) |-> IF s = {} THEN Unweighed ELSE step(f[s \ {Max(s)}], Max(s))]
  BY <1>6, <1>7
<1> QED
  BY <1>1, <1>8 DEF LoopTo, step

\* On the first k roads, from those on the first k - 1.
LEMMA LoopOnPrefix ==
  ASSUME NEW roads \in Seq(Road), NEW dest, NEW f, LoopTo(f, roads, dest)
  PROVE  /\ f[1 .. 0] = Unweighed
         /\ \A k \in 1 .. Len(roads) :
              f[1 .. k] = Weighed(f[1 .. k - 1], roads[k], Proba(roads[k], dest, Labels(dest)), dest)
<1>1. DOMAIN roads = 1 .. Len(roads) /\ Len(roads) \in Nat
  OBVIOUS
<1>2. 1 .. 0 = {} /\ f[{}] = Unweighed
  BY DEF LoopTo
<1>3. ASSUME NEW k \in 1 .. Len(roads)
      PROVE  f[1 .. k] = Weighed(f[1 .. k - 1], roads[k], Proba(roads[k], dest, Labels(dest)), dest)
  <2>1. PICK s : s = 1 .. k
    OBVIOUS
  <2>2. k \in Nat /\ k \in s /\ s \in SUBSET (1 .. k) /\ s \in SUBSET DOMAIN roads
    BY <1>1, <2>1
  <2>3. Max(s) = k
    <3>1. Max(s) \in s /\ k <= Max(s)
      BY <2>2, LastPosition
    <3> QED
      BY <2>1, <3>1
  <2>4. s \ {Max(s)} = 1 .. k - 1
    BY <2>1, <2>3
  <2>5. f[s] = Weighed(f[s \ {Max(s)}], roads[Max(s)], Proba(roads[Max(s)], dest, Labels(dest)), dest)
    BY <2>2 DEF LoopTo
  <2> QED
    BY <2>1, <2>3, <2>4, <2>5
<1> QED
  BY <1>2, <1>3

LEMMA LoopStart ==
  ASSUME NEW dest
  PROVE  Loop(<<>>, dest) = Unweighed
<1>1. <<>> \in Seq(Road) /\ DOMAIN <<>> = 1 .. 0
  OBVIOUS
<1>2. PICK f : f = CHOOSE g : LoopTo(g, <<>>, dest)
  OBVIOUS
<1>3. LoopTo(f, <<>>, dest)
  BY <1>1, <1>2, LoopExists
<1>4. f[1 .. 0] = Unweighed
  BY <1>1, <1>3, LoopOnPrefix
<1> QED
  BY <1>1, <1>2, <1>4 DEF Loop

\* One road more is one round of the loop more.
LEMMA LoopOnward ==
  ASSUME NEW roads \in Seq(Road), NEW r \in Road, NEW dest
  PROVE  Loop(Append(roads, r), dest) = Weighed(Loop(roads, dest), r, Proba(r, dest, Labels(dest)), dest)
<1>1. PICK more : more = Append(roads, r)
  OBVIOUS
<1>2. PICK K : K = Len(roads)
  OBVIOUS
<1>3. /\ K \in Nat /\ DOMAIN roads = 1 .. K
      /\ more \in Seq(Road) /\ Len(more) = K + 1 /\ DOMAIN more = 1 .. K + 1
      /\ more[K+1] = r /\ \A k \in 1 .. K : more[k] = roads[k]
  BY <1>1, <1>2
<1>4. PICK f, g : f = (CHOOSE h : LoopTo(h, roads, dest)) /\ g = (CHOOSE h : LoopTo(h, more, dest))
  OBVIOUS
<1>5. LoopTo(f, roads, dest) /\ LoopTo(g, more, dest)
  BY <1>3, <1>4, LoopExists
<1>6. /\ f[1 .. 0] = Unweighed
      /\ \A k \in 1 .. K : f[1 .. k] = Weighed(f[1 .. k - 1], roads[k], Proba(roads[k], dest, Labels(dest)), dest)
  BY <1>2, <1>5, LoopOnPrefix
<1>7. /\ g[1 .. 0] = Unweighed
      /\ \A k \in 1 .. K + 1 : g[1 .. k] = Weighed(g[1 .. k - 1], more[k], Proba(more[k], dest, Labels(dest)), dest)
  <2>1. /\ g[1 .. 0] = Unweighed
        /\ \A k \in 1 .. Len(more) : g[1 .. k] = Weighed(g[1 .. k - 1], more[k], Proba(more[k], dest, Labels(dest)), dest)
    BY <1>3, <1>5, LoopOnPrefix
  <2> QED
    BY <1>3, <2>1
<1>8. f[1 .. K] = g[1 .. K]
  <2> DEFINE S == {k \in 0 .. K : f[1 .. k] = g[1 .. k]}
  <2>1. S \in SUBSET (0 .. K) /\ 0 \in S /\ K \in 0 .. K
    BY <1>3, <1>6, <1>7
  <2>2. ASSUME NEW k \in 1 .. K, k - 1 \in S
        PROVE  k \in S
    <3>1. k \in 1 .. K + 1 /\ k \in 0 .. K /\ more[k] = roads[k] /\ f[1 .. k - 1] = g[1 .. k - 1]
      BY <1>3, <2>2
    <3>2. f[1 .. k] = g[1 .. k]
      BY <1>6, <1>7, <3>1
    <3> QED
      BY <3>1, <3>2
  <2>3. \A k \in 0 .. K : k \in S
    <3> HIDE DEF S
    <3> QED
      BY <1>3, <2>1, <2>2, AllNumbers
  <2> QED
    BY <2>1, <2>3
<1>9. g[1 .. K + 1] = Weighed(g[1 .. K], r, Proba(r, dest, Labels(dest)), dest)
  <2>1. PICK k \in 1 .. K + 1 : k = K + 1
    BY <1>3
  <2>2. k - 1 = K /\ more[k] = r
    BY <1>3, <2>1
  <2> QED
    BY <1>7, <2>1, <2>2
<1> QED
  BY <1>1, <1>3, <1>4, <1>8, <1>9 DEF Loop

-----------------------------------------------------------------------------
(* The probability of a walk.                                              *)

\* What the walk has added up is what the loop adds up on its path, and, when it
\* drew to go on, the probability of that, which the loop adds with the next road.
SoFar ==
  LET w == Loop(path, q.destination)
  IN  /\ pc \in {"tree", "walk"} => logProba = w.terms /\ dest_count = w.dest_count
      /\ pc = "go" => logProba = Add(w.terms, GoOn(w.dest_count + 1)) /\ dest_count = w.dest_count + 1

\* What the loop and what is added after it make of the path.
ByLoop ==
  LET w == Loop(path, q.destination)
  IN  calculatePathLogWeight(path, q.destination) =
        IF RoadsOut(q.destination) # {} THEN Add(w.terms, Stop(w.dest_count + 1)) ELSE w.terms

LEMMA WeightByLoop == ByLoop
BY WeightOfLoop DEF ByLoop

LEMMA LoopStays ==
  ASSUME q' = q, NEW roads, path' = roads
  PROVE  Loop(path, q.destination)' = Loop(roads, q.destination)
<1>1. \A r, dest, lab : Proba(r, dest, lab)' = Proba(r, dest, lab)
  BY DEF Proba, Drawable, Least, Onward, RoadsOut, Through, FoldSet, MapThenFoldSet
<1>2. \A dest : Labels(dest)' = Labels(dest)
  BY DEF Labels
<1> QED
  BY <1>1, <1>2 DEF Loop, LoopTo

LEMMA InitSoFar == Init => SoFar
<1> SUFFICES ASSUME Init PROVE SoFar
  OBVIOUS
<1>1. Loop(path, q.destination) = Unweighed
  BY LoopStart DEF Init
<1> QED
  BY <1>1 DEF SoFar, Unweighed, Init

\* The walk draws at its destination.
LEMMA DrawSoFar ==
  ASSUME IInv, SoFar, End \/ DrawStop \/ DrawGoOn
  PROVE  SoFar' /\ WeightReproduced'
<1>1. /\ pc = "walk" /\ current_node = q.destination /\ q' = q /\ path' = path
      /\ pc' \in {"done", "go"}
  BY DEF End, DrawStop, DrawGoOn, AtDestination
<1>2. PICK w : w = Loop(path, q.destination)
  OBVIOUS
<1>3. Loop(path, q.destination)' = w
  <2>1. PICK roads : roads = path
    OBVIOUS
  <2> QED
    BY <1>1, <1>2, <2>1, LoopStays
<1>4. logProba = w.terms /\ dest_count = w.dest_count
  BY <1>1, <1>2 DEF SoFar
<1>5. SoFar'
  BY <1>1, <1>3, <1>4 DEF SoFar, End, DrawStop, DrawGoOn
<1>6. (RoadsOut(q.destination) # {})' <=> RoadsOut(q.destination) # {}
  BY <1>1 DEF RoadsOut
<1>7. ASSUME pc' = "done"
      PROVE  logProba' = IF RoadsOut(q.destination) # {} THEN Add(w.terms, Stop(w.dest_count + 1)) ELSE w.terms
  BY <1>1, <1>4, <1>7 DEF End, DrawStop, DrawGoOn
<1>8. calculatePathLogWeight(path, q.destination)' =
        IF RoadsOut(q.destination) # {} THEN Add(w.terms, Stop(w.dest_count + 1)) ELSE w.terms
  <2>1. ByLoop'
    BY WeightByLoop, PTL
  <2> QED
    BY <1>3, <1>6, <2>1 DEF ByLoop, Add, Stop
<1>9. WeightReproduced'
  BY <1>7, <1>8 DEF WeightReproduced
<1> QED
  BY <1>5, <1>9

\* It takes a road.
LEMMA WalkSoFar ==
  ASSUME IInv, SoFar, NEW r \in Road, Walk(r)
  PROVE  SoFar' /\ WeightReproduced'
<1>1. /\ Leaving /\ r \in Drawable(current_node, q.destination, label) /\ path' = Append(path, r)
      /\ logProba' = Add(logProba, Proba(r, q.destination, label))
      /\ pc' = "walk" /\ q' = q /\ dest_count' = dest_count
  BY DEF Walk
<1>2. /\ (pc = "go" /\ current_node = q.destination) \/ (pc = "walk" /\ current_node # q.destination)
      /\ label = Labels(q.destination) /\ path \in Seq(Road)
  BY <1>1 DEF Leaving, IInv, WalkType, OnItsWay
<1>3. UpNode[r] = current_node
  BY <1>1 DEF Drawable, Onward, RoadsOut
<1>4. PICK w, p : w = Loop(path, q.destination) /\ p = Proba(r, q.destination, label)
  OBVIOUS
<1>5. Loop(path, q.destination)' = Weighed(w, r, p, q.destination)
  <2>1. PICK roads, more : roads = path /\ more = Append(roads, r)
    OBVIOUS
  <2>2. Loop(path, q.destination)' = Loop(more, q.destination)
    BY <1>1, <2>1, LoopStays
  <2>3. Loop(more, q.destination) = Weighed(Loop(roads, q.destination), r,
                                            Proba(r, q.destination, Labels(q.destination)), q.destination)
    BY <1>2, <2>1, LoopOnward
  <2> QED
    BY <1>2, <1>4, <2>1, <2>2, <2>3
<1>6. CASE pc = "walk"
  <2>1. logProba = w.terms /\ dest_count = w.dest_count /\ UpNode[r] # q.destination
    BY <1>2, <1>3, <1>4, <1>6 DEF SoFar
  <2>2. Weighed(w, r, p, q.destination) = [terms |-> logProba', dest_count |-> dest_count']
    BY <1>1, <1>4, <2>1 DEF Weighed
  <2> QED
    BY <1>1, <1>5, <2>2 DEF SoFar, WeightReproduced
<1>7. CASE pc = "go"
  <2>1. /\ logProba = Add(w.terms, GoOn(w.dest_count + 1)) /\ dest_count = w.dest_count + 1
        /\ UpNode[r] = q.destination
    BY <1>2, <1>3, <1>4, <1>7 DEF SoFar
  <2>2. Weighed(w, r, p, q.destination) = [terms |-> logProba', dest_count |-> dest_count']
    BY <1>1, <1>4, <2>1 DEF Weighed
  <2> QED
    BY <1>1, <1>5, <2>2 DEF SoFar, WeightReproduced
<1> QED
  BY <1>2, <1>6, <1>7

LEMMA SoFarStep ==
  ASSUME IInv, SoFar, WeightReproduced, [Next]_vars
  PROVE  SoFar' /\ WeightReproduced'
<1>1. CASE Grow \/ Throw
  <2>1. q' = q /\ path' = path /\ logProba' = logProba /\ dest_count' = dest_count
    BY <1>1 DEF Grow, Throw
  <2>2. Loop(path, q.destination)' = Loop(path, q.destination)
    <3>1. PICK roads : roads = path
      OBVIOUS
    <3> QED
      BY <2>1, <3>1, LoopStays
  <2>3. pc' = "thrown" \/ (pc = "tree" /\ pc' = "walk")
    BY <1>1 DEF Grow, Throw
  <2> QED
    BY <2>1, <2>2, <2>3 DEF SoFar, WeightReproduced
<1>2. CASE UNCHANGED vars
  <2>1. /\ q' = q /\ path' = path /\ logProba' = logProba /\ dest_count' = dest_count /\ pc' = pc
    BY <1>2 DEF vars
  <2>2. Loop(path, q.destination)' = Loop(path, q.destination)
    <3>1. PICK roads : roads = path
      OBVIOUS
    <3> QED
      BY <2>1, <3>1, LoopStays
  <2>3. SoFar'
    BY <2>1, <2>2 DEF SoFar
  <2>4. (RoadsOut(q.destination) # {})' <=> RoadsOut(q.destination) # {}
    BY <2>1 DEF RoadsOut
  <2>5. calculatePathLogWeight(path, q.destination)' = calculatePathLogWeight(path, q.destination)
    <3>1. ByLoop /\ ByLoop'
      BY WeightByLoop, PTL
    <3> QED
      BY <2>2, <2>4, <3>1 DEF ByLoop, Add, Stop
  <2> QED
    BY <2>1, <2>3, <2>5 DEF WeightReproduced
<1> QED
  BY <1>1, <1>2, DrawSoFar, WalkSoFar DEF Next

(***************************************************************************)
(* The logarithm that sampleOnePath adds up while it draws a path is the   *)
(* one that calculatePathLogWeight adds up for that path, on every network *)
(* and however often the path passes its destination.                      *)
(***************************************************************************)
THEOREM WeightIsReproduced == Spec => []WeightReproduced
<1>1. Init => WeightReproduced
  BY DEF Init, WeightReproduced
<1> QED
  BY <1>1, Invariance, InitSoFar, SoFarStep, PTL DEF Spec

=============================================================================
