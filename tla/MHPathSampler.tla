--------------------------- MODULE MHPathSampler ----------------------------
(***************************************************************************)
(* The Metropolis-Hastings sampler of paths between an origin and a        *)
(* destination: MHAlgorithm::run (src/src/MetropolisHasting) driving       *)
(* MHPathProposal and MHPath (src/src/PathGeneration/MetropolishHastings). *)
(*                                                                         *)
(* A state of the chain is a path with three of its nodes marked A, B, C,  *)
(* and a cache of whether A..B and B..C are shortest segments. A proposal  *)
(* either splices the path at a drawn node (A to the node to C, by the     *)
(* router) or shuffles the three points. Each proposal records the log     *)
(* probability of the move and of its reverse, from which the acceptance   *)
(* ratio is computed: the chain samples the wanted distribution only if    *)
(* those two are the probabilities with which newTransition makes them.    *)
(*                                                                         *)
(* A path is the sequence of its nodes: a search keeps the cheapest of     *)
(* parallel roads (module ShortestPathTree), so nodes determine the roads. *)
(* Probabilities are exact fractions <<numerator, denominator>>. Weights   *)
(* are arbitrary, so that any proposal may be accepted or rejected, and so *)
(* is the number of iterations.                                            *)
(*                                                                         *)
(* A definition named after another with _Wrong is what a mistake would    *)
(* make of it: the properties are checked to notice.                       *)
(***************************************************************************)
EXTENDS Integers, Sequences, FiniteSets

CONSTANTS
  Node, Edge,           \* the network: an edge where a road joins two nodes
  Origin, Destination,
  FwdRoute,             \* [u][v][X]: the branch to v of the tree grown from u avoiding X
  BwdRoute,             \* [u][v][X]: the branch of u of the tree grown back from v avoiding X
  Trigger,              \* the paths the chain may start with
  InsertWeight,         \* m_proposalProbabilities, up to a common factor
  ForeignWeight         \* what other threads may have left in the calculator they share

(***************************************************************************)
(* What the routes are: <<>> when there is none, else a path from one node *)
(* to the other along edges, without repetition, avoiding the nodes given. *)
(***************************************************************************)
PathFrom(s, u, v) ==
  /\ Len(s) >= 1 /\ s[1] = u /\ s[Len(s)] = v
  /\ \A i \in 1 .. Len(s) - 1 : <<s[i], s[i+1]>> \in Edge

Repeats(s) == \E i, j \in 1 .. Len(s) : i # j /\ s[i] = s[j]

Routing(route) ==
  /\ route \in [Node -> [Node -> [SUBSET Node -> Seq(Node)]]]
  /\ \A u, v \in Node : \A X \in SUBSET Node :
       (u # v /\ u \notin X /\ v \notin X /\ route[u][v][X] # <<>>) =>
         /\ PathFrom(route[u][v][X], u, v)
         /\ ~Repeats(route[u][v][X])
         /\ \A i \in 1 .. Len(route[u][v][X]) : route[u][v][X][i] \notin X

ASSUME EdgeAssumption == IsFiniteSet(Node) /\ Edge \subseteq Node \X Node
ASSUME FwdAssumption == Routing(FwdRoute)
ASSUME BwdAssumption == Routing(BwdRoute)
ASSUME TriggerAssumption ==
  \A s \in Trigger : s \in Seq(Node) /\ PathFrom(s, Origin, Destination) /\ ~Repeats(s)
ASSUME InsertAssumption ==
  \A w \in {InsertWeight} \cup ForeignWeight :
    DOMAIN w \subseteq Node /\ \A v \in DOMAIN w : w[v] \in Nat \ {0}

\* MHNIPPG::calculate weighs the nodes that have a label both in the tree
\* grown from the origin and in the one grown back from the destination.
ASSUME ReachAssumption ==
  \E fwd, bwd \in SUBSET Node :
    /\ Origin \in fwd /\ Destination \in bwd
    /\ \A e \in Edge : (e[1] \in fwd => e[2] \in fwd) /\ (e[2] \in bwd => e[1] \in bwd)
    /\ fwd \cap bwd \subseteq DOMAIN InsertWeight

VARIABLES pc,        \* "start", "draw", "decide", "done", "exit", "thrown", "no node"
          current,   \* currentState
          proposal,  \* proposalTransition
          weights    \* m_proposalProbabilities

vars == <<pc, current, proposal, weights>>

-----------------------------------------------------------------------------
(* MHPath. Node i of a path, counted from 0, is nodes[i + 1].              *)

State(nodes, A, B, C, spliceable) ==
  [nodes |-> nodes, A |-> A, B |-> B, C |-> C, spliceable |-> spliceable]

size(s) == Len(s.nodes) - 1
getNode(s, i) == s.nodes[i + 1]
NodeB(s) == getNode(s, s.B)

\* The nodes up to index i, and the last k + 1 nodes.
NodesFront(s, i) == {s.nodes[j] : j \in 1 .. i + 1}
NodesBack(s, k) == {s.nodes[j] : j \in (size(s) + 1 - k) .. (size(s) + 1)}

\* The nodes a segment must avoid: the path outside A..C, and C for the
\* segment to B, A for the segment from B.
ExcludedAB(s) == NodesFront(s, s.A - 1) \cup NodesBack(s, size(s) - s.C)
ExcludedBC(s) == NodesFront(s, s.A) \cup NodesBack(s, size(s) - s.C - 1)

SegmentAB(s, v) == FwdRoute[getNode(s, s.A)][v][ExcludedAB(s)]
SegmentBC(s, v) == BwdRoute[v][getNode(s, s.C)][ExcludedBC(s)]

\* checkSpliceableAB and checkSpliceableBC
Spliceable_Wrong(s) == SegmentAB(s, NodeB(s)) = SubSeq(s.nodes, s.A + 1, s.B + 1)
Spliceable(s) ==
  /\ SegmentAB(s, NodeB(s)) = SubSeq(s.nodes, s.A + 1, s.B + 1)
  /\ SegmentBC(s, NodeB(s)) = SubSeq(s.nodes, s.B + 1, s.C + 1)

\* isSpliceable: the answer is computed once and kept until the points move.
isSpliceable(s) == IF s.spliceable = -1 THEN Spliceable(s) ELSE s.spliceable = 1
Evaluated_Wrong(s) == [s EXCEPT !.spliceable = IF isSpliceable(s) THEN 1 ELSE @ - 1]
Evaluated(s) == [s EXCEPT !.spliceable = IF isSpliceable(s) THEN 1 ELSE 0]

\* setPoints
WithPoints_Wrong(s, p) == State(s.nodes, p[1], p[2], p[3], s.spliceable)
WithPoints(s, p) == State(s.nodes, p[1], p[2], p[3], -1)

\* The node a splice may not insert: on the path up to A or from C on.
OnPath_Wrong(s, v) == v \in NodesFront(s, s.A)
OnPath(s, v) == v \in NodesFront(s, s.A) \cup NodesBack(s, size(s) - s.C)

\* insertDetour: the path through v. B and C move with the lengths of the segments.
Detour(s, v) ==
  LET AB == SegmentAB(s, v)
      BC == SegmentBC(s, v)
      B  == s.A + Len(AB) - 1
      C  == B + Len(BC) - 1
  IN  State(SubSeq(s.nodes, 1, s.A) \o AB \o Tail(BC) \o SubSeq(s.nodes, s.C + 2, size(s) + 1),
            s.A, B, C, 1)

NoDetour(s, v) == SegmentAB(s, v) = <<>> \/ SegmentBC(s, v) = <<>>

\* The exceptions of newSpliceSegmentAB, BC, of the searches they make and
\* of the appends: v or an end excluded, an end without any usable road,
\* segments that do not meet, B not at v.
SpliceThrows(s, v) ==
  LET a == getNode(s, s.A)
      c == getNode(s, s.C)
  IN  \/ {v, a} \cap ExcludedAB(s) # {}
      \/ {n \in Node \ ExcludedAB(s) : n # a /\ <<a, n>> \in Edge} = {}
      \/ /\ SegmentAB(s, v) # <<>>
         /\ \/ {v, c} \cap ExcludedBC(s) # {}
            \/ {n \in Node \ ExcludedBC(s) : n # c /\ <<n, c>> \in Edge} = {}
            \/ /\ ~NoDetour(s, v)
               /\ \/ Head(SegmentAB(s, v)) # a \/ Head(SegmentBC(s, v)) # SegmentAB(s, v)[Len(SegmentAB(s, v))]
                  \/ SegmentBC(s, v)[Len(SegmentBC(s, v))] # c
                  \/ NodeB(Detour(s, v)) # v

containLoop_Wrong(s) == \E i \in 1 .. size(s) : s.nodes[i] = s.nodes[i+1]
containLoop(s) == Repeats(s.nodes)

-----------------------------------------------------------------------------
(* MHPathProposal.                                                         *)

\* drawPoints: three distinct indices of n nodes, sorted.
Points(n) == {p \in (0 .. n-1) \X (0 .. n-1) \X (0 .. n-1) : p[1] < p[2] /\ p[2] < p[3]}

InsertNode == DOMAIN weights

TotalWeight ==
  LET sum[S \in SUBSET InsertNode] ==
        IF S = {} THEN 0 ELSE LET v == CHOOSE v \in S : TRUE IN weights[v] + sum[S \ {v}]
  IN  sum[InsertNode]

\* The weight of a node that has none is read past the end of the map:
\* whatever is found there, it is no probability, and 0 stands for it.
Weight(v) == IF v \in InsertNode THEN weights[v] ELSE 0

\* m_splice_probability is 0.8.
SpliceProb(v) == <<8 * Weight(v), 10 * TotalWeight>>

pointCombinationSize_Wrong(s) == (size(s) * (size(s) - 1) * (size(s) - 2)) \div 6
pointCombinationSize(s) == (Len(s.nodes) * (Len(s.nodes) - 1) * (Len(s.nodes) - 2)) \div 6

SamePoints(s, t) == s.A = t.A /\ s.B = t.B /\ s.C = t.C

\* transitionLogProb, as a fraction
transitionProb_Wrong(s, t, splice) ==
  IF splice THEN SpliceProb(NodeB(s)) ELSE <<1, pointCombinationSize(s)>>
transitionProb(s, t, splice) ==
  IF splice THEN SpliceProb(NodeB(t))
  ELSE IF SamePoints(s, t) THEN <<1, 1>>
  ELSE IF s.A = t.A /\ s.C = t.C THEN SpliceProb(NodeB(t))
  ELSE LET forbiddenSize == s.C - s.A - 2
       IN  <<IF isSpliceable(s) THEN 2 ELSE 10, 10 * (pointCombinationSize(s) - forbiddenSize)>>

\* newTransition ends by recording both probabilities. They ask each state
\* whether it is spliceable only when A or C differ, and it remembers.
Transition(s, t, splice) ==
  LET asked(r) == IF ~splice /\ (s.A # t.A \/ s.C # t.C) THEN Evaluated(r) ELSE r
  IN  [old |-> asked(s), new |-> asked(t), splice |-> splice,
       fwd |-> transitionProb(s, t, splice), bwd |-> transitionProb(t, s, splice)]

\* The outcome of the splice branch of newTransition for the drawn node v.
SpliceTransition(s, v) ==
  IF OnPath(s, v) \/ NoDetour(s, v) \/ containLoop(Detour(s, v))
  THEN Transition(s, s, FALSE)
  ELSE Transition(s, Detour(s, v), TRUE)

\* The points the shuffle loop leaves with. Its last condition reads
\* !from.getB() == new.getB(): a comparison of 0 or 1 with an index.
Redraws(s, p) ==
  s.A = p[1] /\ s.C = p[3] /\ (IF s.B = 0 THEN 1 ELSE 0) = p[2]

ShufflePoints(s) == {p \in Points(Len(s.nodes)) : ~Redraws(s, p)}

-----------------------------------------------------------------------------
(* MHAlgorithm::run.                                                       *)

NoState == State(<<>>, 0, 0, 0, -1)
NoProposal == [old |-> NoState, new |-> NoState, splice |-> FALSE, fwd |-> <<1, 1>>, bwd |-> <<1, 1>>]

Init ==
  /\ pc = "start"
  /\ current = NoState
  /\ proposal = NoProposal
  /\ weights \in {InsertWeight} \cup ForeignWeight

\* newInitialState: fewer than three nodes throw; a point that cannot be
\* inserted ends the program.
StartThrows ==
  /\ pc = "start"
  /\ \E path \in Trigger : Len(path) < 3
  /\ pc' = "thrown"
  /\ UNCHANGED <<current, proposal>>

StartExits ==
  /\ pc = "start"
  /\ \E path \in Trigger : \E p \in Points(Len(path)) : \E i \in 1 .. 3 : path[p[i] + 1] \notin InsertNode
  /\ pc' = "exit"
  /\ UNCHANGED <<current, proposal>>

Start ==
  /\ pc = "start"
  /\ \E path \in Trigger : \E p \in Points(Len(path)) :
       /\ \A i \in 1 .. 3 : path[p[i] + 1] \in InsertNode
       /\ current' = State(path, p[1], p[2], p[3], -1)
  /\ pc' = "draw"
  /\ UNCHANGED proposal

\* newTransition, a draw below 0.8 in a spliceable state
Splice(v) ==
  /\ pc = "draw"
  /\ isSpliceable(current)
  /\ LET s == Evaluated(current)
     IN  IF ~OnPath(s, v) /\ SpliceThrows(s, v)
         THEN pc' = "thrown" /\ UNCHANGED <<current, proposal>>
         ELSE /\ proposal' = SpliceTransition(s, v)
              /\ current' = proposal'.old
              /\ pc' = "decide"

\* drawInsertNode: the probabilities sum up, rounded, to less than the draw.
NoNodeSelected ==
  /\ pc = "draw"
  /\ isSpliceable(current)
  /\ pc' = "no node"
  /\ UNCHANGED <<current, proposal>>

\* newTransition, a draw of 0.8 or more (asked is FALSE: the state is not
\* looked at) or a state that is not spliceable
Shuffle(asked) ==
  /\ pc = "draw"
  /\ asked => ~isSpliceable(current)
  /\ LET s == IF asked THEN Evaluated(current) ELSE current
     IN  \E p \in ShufflePoints(s) :
           /\ proposal' = Transition(s, WithPoints(s, p), FALSE)
           /\ current' = proposal'.old
  /\ pc' = "decide"

Accept ==
  /\ pc = "decide"
  /\ current' = proposal.new
  /\ proposal' = NoProposal
  /\ pc' = "draw"

Reject ==
  /\ pc = "decide"
  /\ proposal' = NoProposal
  /\ pc' = "draw"
  /\ UNCHANGED current

End ==
  /\ pc = "draw"
  /\ pc' = "done"
  /\ UNCHANGED <<current, proposal>>

Step ==
  \/ StartThrows \/ StartExits \/ Start
  \/ \E v \in InsertNode : Splice(v)
  \/ NoNodeSelected
  \/ \E asked \in BOOLEAN : Shuffle(asked)
  \/ Accept \/ Reject \/ End

Next == Step /\ UNCHANGED weights

Spec == Init /\ [][Next]_vars

-----------------------------------------------------------------------------
StateType == [nodes : Seq(Node), A : Int, B : Int, C : Int, spliceable : {-1, 0, 1}]

TypeOK ==
  /\ pc \in {"start", "draw", "decide", "done", "exit", "thrown", "no node"}
  /\ current \in StateType
  /\ proposal.old \in StateType /\ proposal.new \in StateType
  /\ proposal.splice \in BOOLEAN
  /\ proposal.fwd \in Int \X Int /\ proposal.bwd \in Int \X Int

Sound(s) ==
  /\ PathFrom(s.nodes, Origin, Destination) /\ ~Repeats(s.nodes)
  /\ 0 <= s.A /\ s.A < s.B /\ s.B < s.C /\ s.C <= size(s)

Started == pc \in {"draw", "decide", "done", "no node"}

(***************************************************************************)
(* Whatever the splices, shuffles, acceptances and rejections so far, the  *)
(* state (and the proposal) is a path from the origin to the destination   *)
(* along the network, without loop, with A < B < C on it: the four pieces  *)
(* insertDetour appends fit, and the new B and C are inside the new path.  *)
(***************************************************************************)
PathSound == (Started => Sound(current)) /\ (pc = "decide" => Sound(proposal.new))

(***************************************************************************)
(* m_spliceable never is stale: a cached answer is the one the router      *)
(* would give now. insertDetour sets it to 1 unasked, because the segments *)
(* were just built; that is right only if the nodes excluded from the new  *)
(* path's segments are those excluded when they were built.                *)
(***************************************************************************)
Fresh(s) == s.spliceable # -1 => (s.spliceable = 1) = Spliceable(s)

CacheFresh == (Started => Fresh(current)) /\ (pc = "decide" => Fresh(proposal.new))

(***************************************************************************)
(* A chain that has started never throws: insertDetour finds no forbidden  *)
(* end, no search that labels nothing, and pieces that meet. (Each of its  *)
(* throws is guarded by an argument about A, B, C and the last answer of   *)
(* isSpliceable, not by a test.)                                           *)
(***************************************************************************)
NeverThrows == pc = "thrown" => current = NoState

\* What the splice branch makes of s at v is t, up to the cache.
Makes(s, v, t) ==
  LET made == SpliceTransition(s, v)
  IN  made.splice /\ made.new.nodes = t.nodes /\ SamePoints(made.new, t)

(***************************************************************************)
(* A splice can be undone: the chain can go back from the new path, by     *)
(* splicing in the old B, to the very state it came from.                  *)
(***************************************************************************)
SpliceReversible ==
  (pc = "decide" /\ proposal.splice) =>
    Spliceable(proposal.new) /\ Makes(proposal.new, NodeB(proposal.old), proposal.old)

\* The probability with which newTransition goes from s to another path's t:
\* the splice branch is taken, and draws the node of B.
Kernel(s, t) ==
  IF Spliceable(s) /\ NodeB(t) \in InsertNode /\ Makes(s, NodeB(t), t) THEN SpliceProb(NodeB(t)) ELSE <<0, 1>>

SameFraction(x, y) == x[1] * y[2] = y[1] * x[2]

(***************************************************************************)
(* Detailed balance of the moves between paths: both recorded              *)
(* probabilities of a splice to another path are those with which the      *)
(* chain makes that move and its reverse.                                  *)
(***************************************************************************)
SpliceRatioExact ==
  (pc = "decide" /\ proposal.splice /\ proposal.old.nodes # proposal.new.nodes) =>
    /\ SameFraction(proposal.fwd, Kernel(proposal.old, proposal.new))
    /\ SameFraction(proposal.bwd, Kernel(proposal.new, proposal.old))

(***************************************************************************)
(* Every recorded number is a probability, so that its logarithm is        *)
(* finite: forbiddenSize is subtracted from pointCombinationSize in        *)
(* unsigned arithmetic and must stay below it, and never be negative; and  *)
(* B, looked up without a test in both states, has a weight. With the      *)
(* weights of another trip's network B may have none.                      *)
(***************************************************************************)
RecordedProper ==
  pc = "decide" /\ weights = InsertWeight =>
    \A x \in {proposal.fwd, proposal.bwd} : 0 < x[1] /\ x[1] <= x[2]

(***************************************************************************)
(* "identical points a and c, different point b -- a feasible SPLICE must  *)
(* have occurred because shuffle-b-only is not allowed": the comment on    *)
(* which transitionLogProb rests (MHPathProposal.cc, lines 99-101).        *)
(***************************************************************************)
ShuffleBOnlyNotAllowed ==
  [][(pc = "draw" /\ pc' = "decide" /\ ~proposal'.splice) =>
       LET s == proposal'.old
           t == proposal'.new
       IN  (s.A = t.A /\ s.C = t.C) => s.B = t.B]_vars

=============================================================================
