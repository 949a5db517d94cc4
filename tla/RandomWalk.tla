----------------------------- MODULE RandomWalk -----------------------------
(***************************************************************************)
(* One path of the random walk generator: run and sampleOnePath of         *)
(* RWPathGenerator (src/src/PathGeneration/RandomWalk). From the origin    *)
(* the walk draws road after road, the likelier the smaller the detour;    *)
(* each time it is at the destination it draws whether to stop, which is   *)
(* the likelier the more often it was there.                               *)
(*                                                                         *)
(* A choice set is corrected by the probability with which its paths were  *)
(* drawn. sampleOnePath adds up its logarithm while it walks; for a path   *)
(* that was observed but not drawn, calculatePathLogWeight adds it up in a *)
(* loop of its own: both must be the same probability.                     *)
(*                                                                         *)
(* A sum of logarithms is the bag of the probabilities, exact fractions    *)
(* <<numerator, denominator>>, whose logarithms are added. Roads are arcs. *)
(* A definition named after another with _Wrong is what a mistake would    *)
(* make of it: the properties are checked to notice.                       *)
(***************************************************************************)
EXTENDS Router, Bags, SequencesExt

CONSTANTS Query,    \* the calls
          KumaA,    \* m_kumaA
          MaxRoads  \* bound on the length of a walk

ASSUME QueryAssumption ==
  Query \subseteq [cost : [Road -> Nat \ {0}], origin : Node, destination : Node]
ASSUME KumaAssumption == KumaA \in Nat /\ MaxRoads \in Nat

\* DBL_MAX is beyond all sums of lengths: a distance that is one, and a road
\* more, do not reach it.
ASSUME RangeAssumption ==
  \A x \in Query :
    LET d == Distances(x.cost, {x.destination}, "BWD")
    IN  \A r \in Road : d[DownNode[r]] # DBL_MAX => d[DownNode[r]] + x.cost[r] < DBL_MAX

VARIABLES
  q,             \* the query
  label,         \* the labels of bwdCost
  path,          \* new_path
  current_node,
  dest_count,    \* how often the walk was at the destination
  logProba,      \* as a bag
  pc             \* "tree", "walk" (top of the loop), "go" (on from here), "done", "thrown"

vars == <<q, label, path, current_node, dest_count, logProba, pc>>

-----------------------------------------------------------------------------
RoadsOut(n) == {r \in Road : UpNode[r] = n}

\* The labels of the tree grown back from dest to all nodes, for no target (-1)
\* in particular.
Labels(dest) == TreeCost(q.cost, dest, -1, "BWD").label

\* The roads the walk may take: those that lead on to the destination.
Onward_Wrong(n, lab) == RoadsOut(n)
Onward(n, lab) == {r \in RoadsOut(n) : lab[DownNode[r]] # DBL_MAX}

\* spCost + getCost
Through(r, lab) == lab[DownNode[r]] + q.cost[r]

\* sp_cost_up: at the destination, the cheapest round trip.
Least_Wrong(n, dest, lab) == lab[n]
Least(n, dest, lab) ==
  IF n # dest THEN lab[n]
  ELSE LET costs == {DBL_MAX} \cup {Through(r, lab) : r \in Onward(n, lab)}
       IN  CHOOSE x \in costs : \A y \in costs : x <= y

\* getOutgoingArcProbas: the roads that have a probability.
Drawable(n, dest, lab) == IF Least(n, dest, lab) = DBL_MAX THEN {} ELSE Onward(n, lab)

\* theRatio must be above 0 and at most 1; a map that was begun must not be empty.
ProbasThrow(n, dest, lab) ==
  LET least == Least(n, dest, lab)
  IN  /\ least # DBL_MAX
      /\ Onward(n, lab) = {} \/ \E r \in Onward(n, lab) : least = 0 \/ least > Through(r, lab)

\* exp(m_kumaA * log(theRatio)) over the sum of those of all roads: least and
\* smallest_kuma cancel.
Proba(r, dest, lab) ==
  LET roads == Drawable(UpNode[r], dest, lab)
      others(s) == FoldSet(LAMBDA t, x : x * Through(t, lab)^KumaA, 1, roads \ {s})
  IN  <<others(r), FoldSet(LAMBDA s, x : x + others(s), 0, roads)>>

\* To go on from the destination, and to stop there, at the k-th time.
GoOn(k) == <<1, 2^k>>
Stop(k) == <<2^k - 1, 2^k>>

Add(terms, p) == terms (+) SetToBag({p})

(***************************************************************************)
(* calculatePathLogWeight: the loop over the arcs of a path to dest, and   *)
(* what is added after it. Its exceptions need an arc whose end does not   *)
(* lead to dest, which no arc of a path to dest has.                       *)
(***************************************************************************)
calculatePathLogWeight_Wrong(roads, dest) ==
  LET lab == Labels(dest)
      step(s, r) == [s EXCEPT !.terms = Add(@, Proba(r, dest, lab))]
      end == FoldLeft(step, [terms |-> EmptyBag, dest_count |-> 0], roads)
  IN  IF RoadsOut(dest) # {} THEN Add(end.terms, Stop(end.dest_count + 1)) ELSE end.terms

calculatePathLogWeight(roads, dest) ==
  LET lab == Labels(dest)
      step(s, r) ==
        LET count == IF UpNode[r] = dest THEN s.dest_count + 1 ELSE s.dest_count
            begun == IF UpNode[r] = dest THEN Add(s.terms, GoOn(count)) ELSE s.terms
        IN  [terms |-> Add(begun, Proba(r, dest, lab)), dest_count |-> count]
      end == FoldLeft(step, [terms |-> EmptyBag, dest_count |-> 0], roads)
  IN  IF RoadsOut(dest) # {} THEN Add(end.terms, Stop(end.dest_count + 1)) ELSE end.terms

-----------------------------------------------------------------------------
Init ==
  /\ q \in Query
  /\ label = NoLabels(q.destination)
  /\ path = <<>>
  /\ current_node = q.origin
  /\ dest_count = 0
  /\ logProba = EmptyBag
  /\ pc = "tree"

\* run: bwdCost, which refuses a destination no other node leads to.
Grow ==
  /\ pc = "tree"
  /\ label' = Labels(q.destination)
  /\ pc' = IF \A n \in Node \ {q.destination} : label'[n] = DBL_MAX THEN "thrown" ELSE "walk"
  /\ UNCHANGED <<q, path, current_node, dest_count, logProba>>

AtDestination == pc = "walk" /\ current_node = q.destination

\* No road leaves the destination.
End ==
  /\ AtDestination
  /\ RoadsOut(current_node) = {}
  /\ pc' = "done"
  /\ UNCHANGED <<q, label, path, current_node, dest_count, logProba>>

DrawStop_Wrong ==
  /\ AtDestination
  /\ RoadsOut(current_node) # {}
  /\ dest_count' = dest_count + 1
  /\ logProba' = Add(logProba, Stop(dest_count))
  /\ pc' = "done"
  /\ UNCHANGED <<q, label, path, current_node>>

DrawStop ==
  /\ AtDestination
  /\ RoadsOut(current_node) # {}
  /\ dest_count' = dest_count + 1
  /\ logProba' = Add(logProba, Stop(dest_count'))
  /\ pc' = "done"
  /\ UNCHANGED <<q, label, path, current_node>>

DrawGoOn ==
  /\ AtDestination
  /\ RoadsOut(current_node) # {}
  /\ dest_count' = dest_count + 1
  /\ logProba' = Add(logProba, GoOn(dest_count'))
  /\ pc' = "go"
  /\ UNCHANGED <<q, label, path, current_node>>

Leaving == pc = "go" \/ (pc = "walk" /\ current_node # q.destination)

\* getNextArcInRandomWalk draws a road, which is added to the path.
Walk(r) ==
  /\ Leaving
  /\ Len(path) < MaxRoads
  /\ r \in Drawable(current_node, q.destination, label)
  /\ ~ProbasThrow(current_node, q.destination, label)
  /\ path' = Append(path, r)
  /\ logProba' = Add(logProba, Proba(r, q.destination, label))
  /\ current_node' = DownNode[r]
  /\ pc' = "walk"
  /\ UNCHANGED <<q, label, dest_count>>

\* "Ratio should be ...", or no road: "fail to add downstream road".
Throw ==
  /\ Leaving
  /\ \/ ProbasThrow(current_node, q.destination, label)
     \/ Drawable(current_node, q.destination, label) = {}
  /\ pc' = "thrown"
  /\ UNCHANGED <<q, label, path, current_node, dest_count, logProba>>

Next == Grow \/ End \/ DrawStop \/ DrawGoOn \/ (\E r \in Road : Walk(r)) \/ Throw

Spec == Init /\ [][Next]_vars

-----------------------------------------------------------------------------
\* With every number added a probability, so that its logarithm is finite.
TypeOK ==
  /\ q \in Query
  /\ label \in [Node -> 0 .. DBL_MAX]
  /\ path \in Seq(Road)
  /\ current_node \in Node
  /\ dest_count \in Nat
  /\ IsABag(logProba)
  /\ \A p \in BagToSet(logProba) : p \in Nat \X Nat /\ 0 < p[1] /\ p[1] <= p[2]
  /\ pc \in {"tree", "walk", "go", "done", "thrown"}

(***************************************************************************)
(* A path is drawn with the probability that calculatePathLogWeight gives  *)
(* it, also when it passes the destination several times on its way: the   *)
(* corrections of drawn and of observed alternatives compare. (The empty   *)
(* path has no last node to ask for.)                                      *)
(***************************************************************************)
WeightReproduced ==
  pc = "done" /\ path # <<>> => logProba = calculatePathLogWeight(path, q.destination)

\* The nodes with a way to the destination, by the reference.
Leads == {n \in Node : Distances(q.cost, {q.destination}, "BWD")[n] # DBL_MAX}

(***************************************************************************)
(* A walk never gets lost and never finds a detour shorter than the        *)
(* shortest path ("Ratio should be lower than 1"). It throws for two       *)
(* reasons only: there is no way at all, or it drew to go on from a        *)
(* destination that roads leave and none comes back to.                    *)
(***************************************************************************)
ThrowsOnlyWhenTrapped ==
  pc = "thrown" =>
    \/ path = <<>> /\ (q.origin \notin Leads \/ Leads = {q.destination})
    \/ /\ current_node = q.destination
       /\ RoadsOut(current_node) # {}
       /\ \A r \in RoadsOut(current_node) : DownNode[r] \notin Leads

=============================================================================
