------------------------ MODULE MHPathSampler_proofs ------------------------
(***************************************************************************)
(* What the sampler of paths keeps to on every network, with every         *)
(* routing and every choice of weights: each invariant that the run        *)
(* mh_path_sampler checks on one network. Nothing is assumed but what      *)
(* module MHPathSampler assumes of its constants: a route asked for with   *)
(* free ends is a path between them that avoids what it must, the chain    *)
(* starts on a path, and weights are positive and given to all nodes       *)
(* between the origin and the destination.                                 *)
(*                                                                         *)
(* The argument is about positions. What a segment must avoid depends only *)
(* on the pieces of the path before A and after C, which a detour keeps    *)
(* (DetourKeeps). So the route to the inserted node is still the route the *)
(* new path would be given (DetourIsSound: insertDetour may set its cache  *)
(* to 1 unasked); and since the old path was spliceable, its own segments  *)
(* are the routes through the old B, and splicing that in again leads back *)
(* (WayBack). The inductive invariant says, beyond the properties, that a  *)
(* proposed splice is a detour of a spliceable state (Spliced).            *)
(*                                                                         *)
(* The sum of all weights is computed by recursion over a set. That the    *)
(* recursion has a value, and no weight exceeds it, is shown by way of the *)
(* least number of nodes for which it would not (module LeastNumber).      *)
(***************************************************************************)
EXTENDS MHPathSampler, LeastNumber, SequenceTheorems

-----------------------------------------------------------------------------
(* Paths with their segments replaced.                                     *)

\* Two paths appended: MHPath::append puts the second after the first.
LEMMA Joined ==
  ASSUME NEW x \in Seq(Node), NEW y \in Seq(Node), NEW m, m = Len(x), NEW n, n = Len(y),
         NEW z, z = x \o y
  PROVE  /\ z \in Seq(Node) /\ Len(z) = m + n
         /\ \A i \in 1 .. m : z[i] = x[i]
         /\ \A i \in 1 .. n : z[m + i] = y[i]
<1>0. m \in Nat /\ n \in Nat
  BY LenProperties
<1>1. /\ z \in Seq(Node) /\ Len(z) = m + n
      /\ \A i \in 1 .. m + n : z[i] = IF i <= m THEN x[i] ELSE y[i - m]
  BY ConcatProperties
<1>2. ASSUME NEW i \in 1 .. m PROVE z[i] = x[i]
  <2>1. i \in 1 .. m + n /\ i <= m
    BY <1>0
  <2> QED
    BY <1>1, <2>1
<1>3. ASSUME NEW i \in 1 .. n PROVE z[m + i] = y[i]
  <2>1. m + i \in 1 .. m + n /\ ~(m + i <= m) /\ m + i - m = i
    BY <1>0
  <2> QED
    BY <1>1, <2>1
<1> QED
  BY <1>1, <1>2, <1>3

\* A piece of a path, by position.
LEMMA Cut ==
  ASSUME NEW x \in Seq(Node), NEW k \in Nat \ {0}, NEW l \in Nat, k <= l + 1, l <= Len(x),
         NEW z, z = SubSeq(x, k, l)
  PROVE  /\ z \in Seq(Node) /\ Len(z) = l + 1 - k
         /\ \A i \in 1 .. l + 1 - k : z[i] = x[k - 1 + i]
<1>0. Len(x) \in Nat
  BY LenProperties
<1>1. \A i \in k .. l : x[i] \in Node
  BY <1>0, ElementOfSeq
<1>2. k \in Int /\ l \in Int
  OBVIOUS
<1>3. /\ SubSeq(x, k, l) \in Seq(Node)
      /\ Len(SubSeq(x, k, l)) = (IF k <= l THEN l - k + 1 ELSE 0)
      /\ \A i \in 1 .. l - k + 1 : SubSeq(x, k, l)[i] = x[k + i - 1]
  BY <1>1, <1>2, SubSeqProperties
<1>4. (IF k <= l THEN l - k + 1 ELSE 0) = l + 1 - k /\ l - k + 1 = l + 1 - k
  OBVIOUS
<1>5. \A i \in 1 .. l + 1 - k : k + i - 1 = k - 1 + i
  OBVIOUS
<1> QED
  BY ONLY <1>3, <1>4, <1>5, z = SubSeq(x, k, l)

\* What t is when ab and bc, joined, take the place of nodes A + 1 to C + 1.
Replaced(t, nodes, A, C, L, ab, m, bc, l) ==
  /\ t \in Seq(Node)
  /\ Len(t) = A + m + l + L - C - 2
  /\ \A i \in 1 .. A : t[i] = nodes[i]
  /\ \A i \in 1 .. m : t[A + i] = ab[i]
  /\ \A i \in 2 .. l : t[A + m + i - 1] = bc[i]
  /\ \A i \in C + 2 .. L : t[A + m + l + i - C - 2] = nodes[i]

\* insertDetour appends four pieces: the path up to A, the segment to the
\* inserted node, the segment from it less its first node, the path after C.
LEMMA FourPieces ==
  ASSUME NEW nodes \in Seq(Node), NEW ab \in Seq(Node), NEW bc \in Seq(Node),
         NEW L, L = Len(nodes), NEW m, m = Len(ab), NEW l, l = Len(bc),
         NEW A \in Nat, NEW C \in Nat, A < C, C < L, m >= 1, l >= 1,
         NEW t, t = SubSeq(nodes, 1, A) \o ab \o Tail(bc) \o SubSeq(nodes, C + 2, L)
  PROVE  Replaced(t, nodes, A, C, L, ab, m, bc, l)
<1>0. L = Len(nodes) /\ m = Len(ab) /\ l = Len(bc)
  OBVIOUS
<1>1. L \in Nat /\ m \in Nat /\ l \in Nat /\ bc # <<>> /\ A < C /\ C < L /\ m >= 1 /\ l >= 1
  BY <1>0, LenProperties, EmptySeq
<1>2. PICK p, q, r, pab, pabq :
        /\ p = SubSeq(nodes, 1, A) /\ q = Tail(bc) /\ r = SubSeq(nodes, C + 2, L)
        /\ pab = p \o ab /\ pabq = pab \o q /\ t = pabq \o r
  BY <1>0
<1>3. p \in Seq(Node) /\ Len(p) = A /\ \A i \in 1 .. A : p[i] = nodes[i]
  <2>1. PICK k : k = 1
    OBVIOUS
  <2>2. k \in Nat \ {0} /\ k <= A + 1 /\ A <= Len(nodes) /\ p = SubSeq(nodes, k, A)
    BY <1>0, <1>1, <1>2, <2>1
  <2>3. /\ p \in Seq(Node) /\ Len(p) = A + 1 - k
        /\ \A i \in 1 .. A + 1 - k : p[i] = nodes[k - 1 + i]
    BY ONLY <2>2, Cut, nodes \in Seq(Node), A \in Nat
  <2>4. A + 1 - k = A /\ \A i \in 1 .. A : k - 1 + i = i
    BY ONLY <2>1, A \in Nat
  <2> QED
    BY ONLY <2>3, <2>4
<1>4. q \in Seq(Node) /\ Len(q) = l - 1 /\ \A i \in 1 .. l - 1 : q[i] = bc[i + 1]
  <2>1. q \in Seq(Node) /\ Len(q) = Len(bc) - 1 /\ \A i \in 1 .. Len(q) : q[i] = bc[i + 1]
    BY <1>1, <1>2, HeadTailProperties
  <2> QED
    BY ONLY <2>1, <1>0
<1>5. r \in Seq(Node) /\ Len(r) = L - C - 1 /\ \A i \in 1 .. L - C - 1 : r[i] = nodes[C + 1 + i]
  <2>1. C + 2 \in Nat \ {0} /\ L \in Nat /\ C + 2 <= L + 1 /\ L <= Len(nodes) /\ L + 1 - (C + 2) = L - C - 1
    BY <1>0, <1>1
  <2>2. \A i \in 1 .. L - C - 1 : C + 2 - 1 + i = C + 1 + i
    BY <1>1
  <2>3. /\ r \in Seq(Node) /\ Len(r) = L + 1 - (C + 2)
        /\ \A i \in 1 .. L + 1 - (C + 2) : r[i] = nodes[C + 2 - 1 + i]
    BY ONLY <2>1, <1>2, Cut, nodes \in Seq(Node)
  <2> QED
    BY ONLY <2>1, <2>2, <2>3
<1>6. /\ pab \in Seq(Node) /\ Len(pab) = A + m
      /\ \A i \in 1 .. A : pab[i] = p[i]
      /\ \A i \in 1 .. m : pab[A + i] = ab[i]
  <2>1. p \in Seq(Node) /\ ab \in Seq(Node) /\ A = Len(p) /\ m = Len(ab) /\ pab = p \o ab
    BY <1>0, <1>2, <1>3
  <2> QED
    BY ONLY <2>1, Joined
<1>7. /\ pabq \in Seq(Node) /\ Len(pabq) = A + m + (l - 1)
      /\ \A i \in 1 .. A + m : pabq[i] = pab[i]
      /\ \A i \in 1 .. l - 1 : pabq[A + m + i] = q[i]
  <2>1. PICK x, y : x = A + m /\ y = l - 1
    OBVIOUS
  <2>2. /\ pabq \in Seq(Node) /\ Len(pabq) = x + y
        /\ \A i \in 1 .. x : pabq[i] = pab[i]
        /\ \A i \in 1 .. y : pabq[x + i] = q[i]
    <3>1. pabq = pab \o q /\ x = Len(pab) /\ y = Len(q) /\ pab \in Seq(Node) /\ q \in Seq(Node)
      BY ONLY <1>2, <1>4, <1>6, <2>1
    <3> QED
      BY ONLY <3>1, Joined
  <2> QED
    BY ONLY <2>1, <2>2
<1>8. /\ t \in Seq(Node) /\ Len(t) = A + m + (l - 1) + (L - C - 1)
      /\ \A i \in 1 .. A + m + (l - 1) : t[i] = pabq[i]
      /\ \A i \in 1 .. L - C - 1 : t[A + m + (l - 1) + i] = r[i]
  <2>1. PICK x, y : x = A + m + (l - 1) /\ y = L - C - 1
    OBVIOUS
  <2>2. /\ t \in Seq(Node) /\ Len(t) = x + y
        /\ \A i \in 1 .. x : t[i] = pabq[i]
        /\ \A i \in 1 .. y : t[x + i] = r[i]
    <3>1. t = pabq \o r /\ x = Len(pabq) /\ y = Len(r) /\ pabq \in Seq(Node) /\ r \in Seq(Node)
      BY ONLY <1>2, <1>5, <1>7, <2>1
    <3> QED
      BY ONLY <3>1, Joined
  <2> QED
    BY ONLY <2>1, <2>2
<1>9. \A i \in 1 .. A : t[i] = nodes[i]
  <2>1. \A i \in 1 .. A : i \in 1 .. A + m /\ i \in 1 .. A + m + (l - 1)
    BY ONLY <1>1, A \in Nat
  <2>2. /\ \A i \in 1 .. A : p[i] = nodes[i] /\ pab[i] = p[i]
        /\ \A i \in 1 .. A + m : pabq[i] = pab[i]
        /\ \A i \in 1 .. A + m + (l - 1) : t[i] = pabq[i]
    BY ONLY <1>3, <1>6, <1>7, <1>8
  <2> QED
    BY ONLY <2>1, <2>2
<1>10. \A i \in 1 .. m : t[A + i] = ab[i]
  BY ONLY <1>1, <1>6, <1>7, <1>8, A \in Nat
<1>11. ASSUME NEW i \in 2 .. l PROVE t[A + m + i - 1] = bc[i]
  <2>1. /\ i - 1 \in 1 .. l - 1 /\ A + m + (i - 1) \in 1 .. A + m + (l - 1)
        /\ A + m + (i - 1) = A + m + i - 1 /\ i - 1 + 1 = i
    BY <1>1
  <2> QED
    BY ONLY <2>1, <1>4, <1>7, <1>8
<1>12. ASSUME NEW i \in C + 2 .. L PROVE t[A + m + l + i - C - 2] = nodes[i]
  <2>1. /\ i - C - 1 \in 1 .. L - C - 1 /\ C + 1 + (i - C - 1) = i
        /\ A + m + (l - 1) + (i - C - 1) = A + m + l + i - C - 2
    BY <1>1
  <2> QED
    BY ONLY <2>1, <1>5, <1>8
<1>13. Len(t) = A + m + l + L - C - 2
  BY ONLY <1>1, <1>8, A \in Nat, C \in Nat
<1> QED
  BY ONLY <1>8, <1>9, <1>10, <1>11, <1>12, <1>13 DEF Replaced

-----------------------------------------------------------------------------
(* The nodes of a state.                                                   *)

\* The nodes of a sound state, as a sequence without repetition along edges.
LEMMA StateNodes ==
  ASSUME NEW s \in StateType, Sound(s), NEW L, L = Len(s.nodes)
  PROVE  /\ L \in Nat /\ s.nodes \in Seq(Node)
         /\ s.A \in Nat /\ s.B \in Nat /\ s.C \in Nat /\ s.A < s.B /\ s.B < s.C /\ s.C < L
         /\ \A i \in 1 .. L : s.nodes[i] \in Node
         /\ \A i, j \in 1 .. L : i # j => s.nodes[i] # s.nodes[j]
         /\ \A i \in 1 .. L - 1 : <<s.nodes[i], s.nodes[i+1]>> \in Edge
         /\ getNode(s, s.A) = s.nodes[s.A + 1] /\ getNode(s, s.C) = s.nodes[s.C + 1]
         /\ NodeB(s) = s.nodes[s.B + 1]
         /\ s.nodes[1] = Origin /\ s.nodes[L] = Destination
<1>1. s.nodes \in Seq(Node) /\ s.A \in Int /\ s.B \in Int /\ s.C \in Int
  BY DEF StateType
<1>2. L \in Nat /\ \A i \in 1 .. L : s.nodes[i] \in Node
  BY <1>1, LenProperties, ElementOfSeq
<1>3. size(s) = L - 1 /\ 0 <= s.A /\ s.A < s.B /\ s.B < s.C /\ s.C <= size(s)
  BY DEF size, Sound
<1>4. /\ \A i, j \in 1 .. L : i # j => s.nodes[i] # s.nodes[j]
      /\ \A i \in 1 .. L - 1 : <<s.nodes[i], s.nodes[i+1]>> \in Edge
      /\ s.nodes[1] = Origin /\ s.nodes[L] = Destination
  BY DEF Sound, PathFrom, Repeats
<1> QED
  BY <1>1, <1>2, <1>3, <1>4 DEF getNode, NodeB

\* What is excluded from the segments, by position on the path.
ExcludedIs(s, nodes, L, A, C) ==
  /\ ExcludedAB(s) = {nodes[j] : j \in 1 .. A} \cup {nodes[j] : j \in C + 1 .. L}
  /\ ExcludedBC(s) = {nodes[j] : j \in 1 .. A + 1} \cup {nodes[j] : j \in C + 2 .. L}
  /\ \A v : OnPath(s, v) <=> v \in {nodes[j] : j \in 1 .. A + 1} \cup {nodes[j] : j \in C + 1 .. L}

\* The exclusions of newSpliceSegmentAB and BC depend only on A, C and the nodes.
LEMMA ExcludedByPosition ==
  ASSUME NEW s, NEW nodes, nodes = s.nodes, NEW L, L = Len(nodes), L \in Nat,
         NEW A, A = s.A, A \in Nat, NEW C, C = s.C, C \in Nat
  PROVE  ExcludedIs(s, nodes, L, A, C)
<1>1. size(s) = L - 1
  BY DEF size
<1>2. NodesFront(s, s.A - 1) = {nodes[j] : j \in 1 .. A}
  <2>1. s.A - 1 + 1 = A
    OBVIOUS
  <2> QED
    BY <2>1 DEF NodesFront
<1>3. NodesFront(s, s.A) = {nodes[j] : j \in 1 .. A + 1}
  BY DEF NodesFront
<1>4. NodesBack(s, size(s) - s.C) = {nodes[j] : j \in C + 1 .. L}
  <2>1. size(s) + 1 - (size(s) - s.C) = C + 1 /\ size(s) + 1 = L
    BY <1>1
  <2> QED
    BY <2>1 DEF NodesBack
<1>5. NodesBack(s, size(s) - s.C - 1) = {nodes[j] : j \in C + 2 .. L}
  <2>1. size(s) + 1 - (size(s) - s.C - 1) = C + 2 /\ size(s) + 1 = L
    BY <1>1
  <2> QED
    BY <2>1 DEF NodesBack
<1> QED
  BY <1>2, <1>3, <1>4, <1>5 DEF ExcludedIs, ExcludedAB, ExcludedBC, OnPath

\* The ends of a segment never are excluded, nor is the node to insert; and
\* the roads of the path itself are there for the searches to start with.
LEMMA Free ==
  ASSUME NEW s \in StateType, Sound(s)
  PROVE  /\ ExcludedAB(s) \in SUBSET Node /\ ExcludedBC(s) \in SUBSET Node
         /\ getNode(s, s.A) \in Node /\ getNode(s, s.C) \in Node
         /\ getNode(s, s.A) \notin ExcludedAB(s) /\ getNode(s, s.C) \notin ExcludedBC(s)
         /\ NodeB(s) \in Node /\ ~OnPath(s, NodeB(s))
         /\ \A v : ~OnPath(s, v) =>
              /\ v \notin ExcludedAB(s) /\ v \notin ExcludedBC(s)
              /\ v # getNode(s, s.A) /\ v # getNode(s, s.C)
         /\ {n \in Node \ ExcludedAB(s) : n # getNode(s, s.A) /\ <<getNode(s, s.A), n>> \in Edge} # {}
         /\ {n \in Node \ ExcludedBC(s) : n # getNode(s, s.C) /\ <<n, getNode(s, s.C)>> \in Edge} # {}
<1>0. PICK L : L = Len(s.nodes)
  OBVIOUS
<1>1. /\ L \in Nat /\ s.nodes \in Seq(Node)
      /\ s.A \in Nat /\ s.B \in Nat /\ s.C \in Nat /\ s.A < s.B /\ s.B < s.C /\ s.C < L
      /\ \A i \in 1 .. L : s.nodes[i] \in Node
      /\ \A i, j \in 1 .. L : i # j => s.nodes[i] # s.nodes[j]
      /\ \A i \in 1 .. L - 1 : <<s.nodes[i], s.nodes[i+1]>> \in Edge
      /\ getNode(s, s.A) = s.nodes[s.A + 1] /\ getNode(s, s.C) = s.nodes[s.C + 1]
      /\ NodeB(s) = s.nodes[s.B + 1]
  BY <1>0, StateNodes
<1>2. PICK nodes, A, B, C : nodes = s.nodes /\ A = s.A /\ B = s.B /\ C = s.C
  OBVIOUS
<1>3. /\ L \in Nat /\ nodes \in Seq(Node)
      /\ A \in Nat /\ B \in Nat /\ C \in Nat /\ A < B /\ B < C /\ C < L
      /\ \A i \in 1 .. L : nodes[i] \in Node
      /\ \A i, j \in 1 .. L : i # j => nodes[i] # nodes[j]
      /\ \A i \in 1 .. L - 1 : <<nodes[i], nodes[i+1]>> \in Edge
  BY <1>1, <1>2
<1>4. /\ getNode(s, s.A) = nodes[A + 1] /\ getNode(s, s.C) = nodes[C + 1] /\ NodeB(s) = nodes[B + 1]
      /\ ExcludedAB(s) = {nodes[j] : j \in 1 .. A} \cup {nodes[j] : j \in C + 1 .. L}
      /\ ExcludedBC(s) = {nodes[j] : j \in 1 .. A + 1} \cup {nodes[j] : j \in C + 2 .. L}
      /\ \A v : OnPath(s, v) <=> v \in {nodes[j] : j \in 1 .. A + 1} \cup {nodes[j] : j \in C + 1 .. L}
  <2>1. nodes = s.nodes /\ A = s.A /\ C = s.C /\ L = Len(nodes) /\ L \in Nat /\ A \in Nat /\ C \in Nat
    BY <1>0, <1>2, <1>3
  <2>2. ExcludedIs(s, nodes, L, A, C)
    BY ONLY <2>1, ExcludedByPosition
  <2> QED
    BY ONLY <2>2, <1>1, <1>2 DEF ExcludedIs
<1>5. /\ {nodes[j] : j \in 1 .. A} \cup {nodes[j] : j \in C + 1 .. L} \in SUBSET Node
      /\ {nodes[j] : j \in 1 .. A + 1} \cup {nodes[j] : j \in C + 2 .. L} \in SUBSET Node
      /\ nodes[A + 1] \in Node /\ nodes[C + 1] \in Node /\ nodes[B + 1] \in Node
  BY ONLY <1>3
<1>6. /\ nodes[A + 1] \notin {nodes[j] : j \in 1 .. A} \cup {nodes[j] : j \in C + 1 .. L}
      /\ nodes[C + 1] \notin {nodes[j] : j \in 1 .. A + 1} \cup {nodes[j] : j \in C + 2 .. L}
      /\ nodes[B + 1] \notin {nodes[j] : j \in 1 .. A + 1} \cup {nodes[j] : j \in C + 1 .. L}
  BY ONLY <1>3
<1>7. ASSUME NEW v, v \notin {nodes[j] : j \in 1 .. A + 1}, v \notin {nodes[j] : j \in C + 1 .. L}
      PROVE  /\ v \notin {nodes[j] : j \in 1 .. A} \cup {nodes[j] : j \in C + 1 .. L}
             /\ v \notin {nodes[j] : j \in 1 .. A + 1} \cup {nodes[j] : j \in C + 2 .. L}
             /\ v # nodes[A + 1] /\ v # nodes[C + 1]
  BY ONLY <1>3, <1>7
<1>8. /\ nodes[A + 2] \in Node
      /\ nodes[A + 2] \notin {nodes[j] : j \in 1 .. A} \cup {nodes[j] : j \in C + 1 .. L}
      /\ nodes[A + 2] # nodes[A + 1] /\ <<nodes[A + 1], nodes[A + 2]>> \in Edge
  <2>1. A + 1 \in 1 .. L - 1 /\ A + 1 + 1 = A + 2 /\ A + 2 \in 1 .. L /\ A + 1 \in 1 .. L /\ A + 2 # A + 1
        /\ \A j \in 1 .. A : j \in 1 .. L /\ j # A + 2
        /\ \A k \in C + 1 .. L : k \in 1 .. L /\ k # A + 2
    BY ONLY <1>3
  <2> QED
    BY ONLY <1>3, <2>1
<1>9. /\ nodes[C] \in Node
      /\ nodes[C] \notin {nodes[j] : j \in 1 .. A + 1} \cup {nodes[j] : j \in C + 2 .. L}
      /\ nodes[C] # nodes[C + 1] /\ <<nodes[C], nodes[C + 1]>> \in Edge
  <2>1. C \in 1 .. L - 1 /\ C \in 1 .. L /\ C + 1 \in 1 .. L /\ C # C + 1
        /\ \A j \in 1 .. A + 1 : j \in 1 .. L /\ j # C
        /\ \A k \in C + 2 .. L : k \in 1 .. L /\ k # C
    BY ONLY <1>3
  <2> QED
    BY ONLY <1>3, <2>1
<1>10. ASSUME NEW v, ~OnPath(s, v)
       PROVE  /\ v \notin ExcludedAB(s) /\ v \notin ExcludedBC(s)
              /\ v # getNode(s, s.A) /\ v # getNode(s, s.C)
  BY <1>4, <1>7, <1>10
<1>11. ~OnPath(s, NodeB(s))
  BY <1>4, <1>6
<1>12. {n \in Node \ ExcludedAB(s) : n # getNode(s, s.A) /\ <<getNode(s, s.A), n>> \in Edge} # {}
  BY <1>4, <1>8
<1>13. {n \in Node \ ExcludedBC(s) : n # getNode(s, s.C) /\ <<n, getNode(s, s.C)>> \in Edge} # {}
  BY <1>4, <1>9
<1> QED
  BY <1>4, <1>5, <1>6, <1>10, <1>11, <1>12, <1>13

\* The routes asked for are paths between the points asked for.
LEMMA Segments ==
  ASSUME NEW s \in StateType, Sound(s), NEW v \in Node, ~OnPath(s, v), ~NoDetour(s, v),
         NEW ab, ab = SegmentAB(s, v), NEW bc, bc = SegmentBC(s, v)
  PROVE  /\ ab \in Seq(Node) /\ PathFrom(ab, getNode(s, s.A), v) /\ Len(ab) \in Nat /\ Len(ab) >= 2
         /\ bc \in Seq(Node) /\ PathFrom(bc, v, getNode(s, s.C)) /\ Len(bc) \in Nat /\ Len(bc) >= 2
<1>1. PICK a, c : a = getNode(s, s.A) /\ c = getNode(s, s.C)
  OBVIOUS
<1>2. /\ a \in Node /\ c \in Node /\ ExcludedAB(s) \in SUBSET Node /\ ExcludedBC(s) \in SUBSET Node
      /\ a \notin ExcludedAB(s) /\ c \notin ExcludedBC(s)
      /\ v \notin ExcludedAB(s) /\ v \notin ExcludedBC(s) /\ v # a /\ v # c
  BY <1>1, Free
<1>3. ab = FwdRoute[a][v][ExcludedAB(s)] /\ bc = BwdRoute[v][c][ExcludedBC(s)] /\ ab # <<>> /\ bc # <<>>
  BY <1>1 DEF SegmentAB, SegmentBC, NoDetour
<1>4. ab \in Seq(Node) /\ PathFrom(ab, a, v)
  BY <1>2, <1>3, FwdAssumption DEF Routing
<1>5. bc \in Seq(Node) /\ PathFrom(bc, v, c)
  BY <1>2, <1>3, BwdAssumption DEF Routing
<1>6. Len(ab) \in Nat /\ Len(bc) \in Nat
  BY <1>4, <1>5, LenProperties
<1>7. Len(ab) # 1 /\ Len(bc) # 1
  BY <1>2, <1>4, <1>5 DEF PathFrom
<1>8. Len(ab) >= 2 /\ Len(bc) >= 2
  <2>1. Len(ab) >= 1 /\ Len(bc) >= 1
    BY <1>4, <1>5 DEF PathFrom
  <2>2. PICK m, l : m = Len(ab) /\ l = Len(bc)
    OBVIOUS
  <2>3. m \in Nat /\ l \in Nat /\ m >= 1 /\ l >= 1 /\ m # 1 /\ l # 1
    BY <2>1, <2>2, <1>6, <1>7
  <2>4. m >= 2 /\ l >= 2
    BY ONLY <2>3
  <2> QED
    BY <2>2, <2>4
<1> QED
  BY <1>1, <1>4, <1>5, <1>6, <1>8

\* The path through v, by position.
DetourIs(t, nodes, N, s, L, ab, m, bc, l) ==
  /\ t \in StateType /\ nodes \in Seq(Node) /\ N \in Nat
  /\ t.A = s.A /\ t.B = s.A + m - 1 /\ t.C = s.A + m + l - 2 /\ t.spliceable = 1
  /\ N = s.A + m + l + L - s.C - 2
  /\ \A i \in 1 .. s.A : nodes[i] = s.nodes[i]
  /\ \A i \in 1 .. m : nodes[s.A + i] = ab[i]
  /\ \A i \in 1 .. l : nodes[s.A + m + i - 1] = bc[i]
  /\ \A i \in s.C + 2 .. L : nodes[s.A + m + l + i - s.C - 2] = s.nodes[i]

\* The path insertDetour makes through v, by position, with its points.
LEMMA DetourByPosition ==
  ASSUME NEW s \in StateType, Sound(s), NEW v \in Node, ~OnPath(s, v), ~NoDetour(s, v),
         NEW ab, ab = SegmentAB(s, v), NEW bc, bc = SegmentBC(s, v),
         NEW m, m = Len(ab), NEW l, l = Len(bc), NEW L, L = Len(s.nodes),
         NEW t, t = Detour(s, v), NEW nodes, nodes = t.nodes, NEW N, N = Len(nodes)
  PROVE  DetourIs(t, nodes, N, s, L, ab, m, bc, l)
<1>1. /\ L \in Nat /\ s.nodes \in Seq(Node) /\ s.A \in Nat /\ s.B \in Nat /\ s.C \in Nat
      /\ s.A < s.B /\ s.B < s.C /\ s.C < L
  BY StateNodes
<1>2. /\ ab \in Seq(Node) /\ PathFrom(ab, getNode(s, s.A), v) /\ Len(ab) \in Nat /\ Len(ab) >= 2
      /\ bc \in Seq(Node) /\ PathFrom(bc, v, getNode(s, s.C)) /\ Len(bc) \in Nat /\ Len(bc) >= 2
  BY Segments
<1>3. m \in Nat /\ l \in Nat /\ m >= 2 /\ l >= 2 /\ ab[m] = v /\ bc[1] = v
  BY <1>2 DEF PathFrom
<1>4. /\ t.nodes = SubSeq(s.nodes, 1, s.A) \o ab \o Tail(bc) \o SubSeq(s.nodes, s.C + 2, size(s) + 1)
      /\ t.A = s.A /\ t.B = s.A + m - 1 /\ t.C = s.A + m - 1 + l - 1 /\ t.spliceable = 1
      /\ t = [nodes |-> t.nodes, A |-> t.A, B |-> t.B, C |-> t.C, spliceable |-> t.spliceable]
  BY DEF Detour, State
<1>5. size(s) + 1 = L
  BY <1>1 DEF size
<1>6. PICK snodes, A, C : snodes = s.nodes /\ A = s.A /\ C = s.C
  OBVIOUS
<1>7. nodes = SubSeq(snodes, 1, A) \o ab \o Tail(bc) \o SubSeq(snodes, C + 2, L)
  BY <1>4, <1>5, <1>6
<1>8. /\ snodes \in Seq(Node) /\ A \in Nat /\ C \in Nat /\ A < C /\ C < L
      /\ L = Len(snodes) /\ ab \in Seq(Node) /\ bc \in Seq(Node)
  BY <1>1, <1>2, <1>6
<1>9. m >= 1 /\ l >= 1
  BY ONLY <1>3
<1>10. /\ nodes \in Seq(Node)
       /\ N = A + m + l + L - C - 2
       /\ \A i \in 1 .. A : nodes[i] = snodes[i]
       /\ \A i \in 1 .. m : nodes[A + i] = ab[i]
       /\ \A i \in 2 .. l : nodes[A + m + i - 1] = bc[i]
       /\ \A i \in C + 2 .. L : nodes[A + m + l + i - C - 2] = snodes[i]
  <2>1. m = Len(ab) /\ l = Len(bc) /\ N = Len(nodes)
    OBVIOUS
  <2>2. Replaced(nodes, snodes, A, C, L, ab, m, bc, l)
    BY ONLY <2>1, <1>7, <1>8, <1>9, FourPieces
  <2> QED
    BY ONLY <2>1, <2>2 DEF Replaced
<1>11. \A i \in 1 .. l : nodes[A + m + i - 1] = bc[i]
  <2>1. nodes[A + m + 1 - 1] = bc[1]
    <3>1. m \in 1 .. m /\ A + m + 1 - 1 = A + m
      BY ONLY <1>3, <1>8
    <3> QED
      BY ONLY <3>1, <1>3, <1>10
  <2>2. \A i \in 1 .. l : i = 1 \/ i \in 2 .. l
    BY ONLY <1>3
  <2> QED
    BY ONLY <2>1, <2>2, <1>10
<1>12. /\ A + m + l + L - C - 2 \in Nat /\ A + m - 1 \in Int /\ A + m - 1 + l - 1 \in Int
       /\ A + m - 1 + l - 1 = A + m + l - 2
  BY ONLY <1>1, <1>3, <1>8
<1>13. t \in StateType
  <2>1. t.nodes \in Seq(Node)
    BY <1>10
  <2>2. t.A \in Int /\ t.B \in Int /\ t.C \in Int /\ t.spliceable \in {-1, 0, 1}
    BY ONLY <1>4, <1>6, <1>8, <1>12
  <2> QED
    BY <2>1, <2>2, <1>4 DEF StateType
<1> QED
  BY ONLY <1>4, <1>6, <1>10, <1>11, <1>12, <1>13 DEF DetourIs

\* A piece of a path is known by its positions.
LEMMA SameCut ==
  ASSUME NEW x \in Seq(Node), NEW y \in Seq(Node), NEW k \in Nat \ {0}, NEW l \in Nat, k <= l + 1,
         l <= Len(x), Len(y) = l + 1 - k, \A i \in 1 .. l + 1 - k : y[i] = x[k - 1 + i]
  PROVE  SubSeq(x, k, l) = y
<1>1. PICK z : z = SubSeq(x, k, l)
  OBVIOUS
<1>2. z \in Seq(Node) /\ Len(z) = l + 1 - k /\ \A i \in 1 .. l + 1 - k : z[i] = x[k - 1 + i]
  BY <1>1, Cut
<1>3. Len(z) = Len(y) /\ \A i \in 1 .. Len(z) : z[i] = y[i]
  BY <1>2
<1>4. z = y
  BY <1>2, <1>3, SeqEqual
<1> QED
  BY <1>1, <1>4

\* What a detour keeps: the pieces before A and after C, hence all that is
\* excluded; and what it inserts: the two segments, with v between them at B.
LEMMA DetourKeeps ==
  ASSUME NEW s \in StateType, Sound(s), NEW v \in Node, ~OnPath(s, v), ~NoDetour(s, v),
         NEW t, t = Detour(s, v)
  PROVE  /\ t \in StateType /\ PathFrom(t.nodes, Origin, Destination)
         /\ t.A \in Nat /\ t.A < t.B /\ t.B < t.C /\ t.C <= size(t) /\ t.A = s.A /\ t.spliceable = 1
         /\ NodeB(t) = v /\ getNode(t, t.A) = getNode(s, s.A) /\ getNode(t, t.C) = getNode(s, s.C)
         /\ ExcludedAB(t) = ExcludedAB(s) /\ ExcludedBC(t) = ExcludedBC(s)
         /\ \A w : OnPath(t, w) <=> OnPath(s, w)
         /\ SubSeq(t.nodes, t.A + 1, t.B + 1) = SegmentAB(s, v)
         /\ SubSeq(t.nodes, t.B + 1, t.C + 1) = SegmentBC(s, v)
         /\ SubSeq(t.nodes, 1, t.A) = SubSeq(s.nodes, 1, s.A)
         /\ SubSeq(t.nodes, t.C + 2, size(t) + 1) = SubSeq(s.nodes, s.C + 2, size(s) + 1)
<1>1. PICK ab, bc, m, l, L, nodes, N :
        /\ ab = SegmentAB(s, v) /\ bc = SegmentBC(s, v) /\ m = Len(ab) /\ l = Len(bc)
        /\ L = Len(s.nodes) /\ nodes = t.nodes /\ N = Len(nodes)
  OBVIOUS
<1>2. PICK snodes, A, B, C, D : /\ snodes = s.nodes /\ A = s.A /\ B = s.B /\ C = s.C
                                /\ D = A + m + l - 2 - C
  OBVIOUS
<1>3. /\ L \in Nat /\ snodes \in Seq(Node)
      /\ A \in Nat /\ B \in Nat /\ C \in Nat /\ A < B /\ B < C /\ C < L
      /\ \A i \in 1 .. L - 1 : <<snodes[i], snodes[i+1]>> \in Edge
      /\ getNode(s, s.A) = snodes[A + 1] /\ getNode(s, s.C) = snodes[C + 1]
      /\ snodes[1] = Origin /\ snodes[L] = Destination
  <2>1. /\ L \in Nat /\ s.nodes \in Seq(Node)
        /\ s.A \in Nat /\ s.B \in Nat /\ s.C \in Nat /\ s.A < s.B /\ s.B < s.C /\ s.C < L
        /\ \A i \in 1 .. L - 1 : <<s.nodes[i], s.nodes[i+1]>> \in Edge
        /\ getNode(s, s.A) = s.nodes[s.A + 1] /\ getNode(s, s.C) = s.nodes[s.C + 1]
        /\ s.nodes[1] = Origin /\ s.nodes[L] = Destination
    BY <1>1, StateNodes
  <2> QED
    BY ONLY <1>2, <2>1
<1>4. /\ ab \in Seq(Node) /\ PathFrom(ab, getNode(s, s.A), v) /\ m \in Nat /\ m >= 2
      /\ bc \in Seq(Node) /\ PathFrom(bc, v, getNode(s, s.C)) /\ l \in Nat /\ l >= 2
  BY <1>1, Segments
<1>5. /\ ab[1] = snodes[A + 1] /\ ab[m] = v /\ bc[1] = v /\ bc[l] = snodes[C + 1]
      /\ \A i \in 1 .. m - 1 : <<ab[i], ab[i+1]>> \in Edge
      /\ \A i \in 1 .. l - 1 : <<bc[i], bc[i+1]>> \in Edge
  BY <1>1, <1>3, <1>4 DEF PathFrom
<1>6. /\ t \in StateType /\ nodes \in Seq(Node) /\ N \in Nat
      /\ t.A = A /\ t.B = A + m - 1 /\ t.C = A + m + l - 2 /\ t.spliceable = 1
      /\ N = A + m + l + L - C - 2
      /\ \A i \in 1 .. A : nodes[i] = snodes[i]
      /\ \A i \in 1 .. m : nodes[A + i] = ab[i]
      /\ \A i \in 1 .. l : nodes[A + m + i - 1] = bc[i]
      /\ \A i \in C + 2 .. L : nodes[A + m + l + i - C - 2] = snodes[i]
  <2>1. DetourIs(t, nodes, N, s, L, ab, m, bc, l)
    BY <1>1, DetourByPosition
  <2> QED
    BY ONLY <2>1, <1>2 DEF DetourIs
<1> DEFINE Sizes == /\ A \in Nat /\ C \in Nat /\ L \in Nat /\ m \in Nat /\ l \in Nat /\ D \in Int /\ N \in Nat
                    /\ A + 1 < C /\ C < L /\ m >= 2 /\ l >= 2 /\ C + D = A + m + l - 2 /\ N = L + D
<1>a. Sizes
  <2>1. /\ A \in Nat /\ B \in Nat /\ C \in Nat /\ L \in Nat /\ m \in Nat /\ l \in Nat
        /\ A < B /\ B < C /\ C < L /\ m >= 2 /\ l >= 2
        /\ D = A + m + l - 2 - C /\ N = A + m + l + L - C - 2
    BY <1>2, <1>3, <1>4, <1>6
  <2> QED
    BY ONLY <2>1
<1>7. D \in Int /\ t.C = C + D /\ N = L + D /\ t.B \in Nat /\ t.C \in Nat /\ C + D = A + m + l - 2
  <2>1. t.B = A + m - 1 /\ t.C = A + m + l - 2
    BY <1>6
  <2>2. A + m - 1 \in Nat /\ A + m + l - 2 \in Nat
    BY ONLY <1>a
  <2> QED
    BY ONLY <1>a, <2>1, <2>2
<1>8. \A i \in C + 1 .. L : nodes[i + D] = snodes[i]
  <2> SUFFICES ASSUME NEW i \in C + 1 .. L
               PROVE  nodes[i + D] = snodes[i]
    OBVIOUS
  <2>1. CASE i = C + 1
    <3>1. i + D = A + m + l - 1 /\ l \in 1 .. l
      BY ONLY <1>a, <2>1
    <3> QED
      BY ONLY <3>1, <2>1, <1>5, <1>6
  <2>2. CASE i # C + 1
    <3>1. i + D = A + m + l + i - C - 2 /\ i \in C + 2 .. L
      BY ONLY <1>a, <2>2, i \in C + 1 .. L
    <3> QED
      BY ONLY <3>1, <1>6
  <2> QED
    BY <2>1, <2>2
<1>9. t.A \in Nat /\ t.A < t.B /\ t.B < t.C /\ t.C < N
  BY ONLY <1>3, <1>4, <1>6
<1>10. /\ nodes[A + 1] = snodes[A + 1] /\ nodes[A + m] = v /\ nodes[t.B + 1] = v
       /\ nodes[t.C + 1] = snodes[C + 1]
  <2>1. 1 \in 1 .. m /\ m \in 1 .. m /\ t.B + 1 = A + m /\ C + 1 \in C + 1 .. L /\ t.C + 1 = C + 1 + D
    <3>1. t.B = A + m - 1 /\ t.C = C + D
      BY <1>6, <1>7
    <3> QED
      BY ONLY <1>a, <3>1
  <2> QED
    BY ONLY <2>1, <1>5, <1>6, <1>8
<1>11. getNode(t, t.A) = getNode(s, s.A) /\ getNode(t, t.C) = getNode(s, s.C) /\ NodeB(t) = v
  BY <1>1, <1>3, <1>6, <1>10 DEF getNode, NodeB
<1>12. /\ {nodes[j] : j \in 1 .. A} = {snodes[j] : j \in 1 .. A}
       /\ {nodes[j] : j \in 1 .. A + 1} = {snodes[j] : j \in 1 .. A + 1}
  <2>1. \A j \in 1 .. A : nodes[j] = snodes[j]
    BY <1>6
  <2>2. \A j \in 1 .. A + 1 : nodes[j] = snodes[j]
    <3>1. \A j \in 1 .. A + 1 : j = A + 1 \/ j \in 1 .. A
      BY <1>3
    <3> QED
      BY <3>1, <2>1, <1>10
  <2> QED
    BY ONLY <2>1, <2>2
<1>13. /\ {nodes[j] : j \in t.C + 1 .. N} = {snodes[j] : j \in C + 1 .. L}
       /\ {nodes[j] : j \in t.C + 2 .. N} = {snodes[j] : j \in C + 2 .. L}
  <2>1. \A k \in {1, 2} : {nodes[j] : j \in C + D + k .. L + D} = {snodes[j] : j \in C + k .. L}
    <3> SUFFICES ASSUME NEW k \in {1, 2}
                 PROVE  {nodes[j] : j \in C + D + k .. L + D} = {snodes[j] : j \in C + k .. L}
      OBVIOUS
    <3>1. ASSUME NEW j \in C + k .. L PROVE j + D \in C + D + k .. L + D /\ nodes[j + D] = snodes[j]
      <4>1. j + D \in C + D + k .. L + D /\ j \in C + 1 .. L
        BY <1>3, <1>7
      <4> QED
        BY <4>1, <1>8
    <3>2. ASSUME NEW j \in C + D + k .. L + D PROVE j - D \in C + k .. L /\ snodes[j - D] = nodes[j]
      <4>1. j - D \in C + k .. L /\ j - D \in C + 1 .. L /\ j - D + D = j
        BY <1>3, <1>7
      <4> QED
        BY ONLY <4>1, <1>8
    <3> QED
      BY ONLY <3>1, <3>2
  <2> QED
    BY ONLY <2>1, <1>7
<1>14. /\ ExcludedAB(t) = ExcludedAB(s) /\ ExcludedBC(t) = ExcludedBC(s)
       /\ \A w : OnPath(t, w) <=> OnPath(s, w)
  <2>1. PICK E : E = t.C
    OBVIOUS
  <2>2. nodes = t.nodes /\ N = Len(nodes) /\ N \in Nat /\ A = t.A /\ A \in Nat /\ E = t.C /\ E \in Nat
    BY <1>1, <1>3, <1>6, <1>7, <2>1
  <2>3. ExcludedIs(t, nodes, N, A, E)
    BY ONLY <2>2, ExcludedByPosition
  <2>4. snodes = s.nodes /\ L = Len(snodes) /\ L \in Nat /\ A = s.A /\ A \in Nat /\ C = s.C /\ C \in Nat
    BY <1>1, <1>2, <1>3
  <2>5. ExcludedIs(s, snodes, L, A, C)
    BY ONLY <2>4, ExcludedByPosition
  <2>6. /\ {nodes[j] : j \in E + 1 .. N} = {snodes[j] : j \in C + 1 .. L}
        /\ {nodes[j] : j \in E + 2 .. N} = {snodes[j] : j \in C + 2 .. L}
    BY ONLY <1>13, <2>1
  <2>7. PICK front, front1, back, back1 :
          /\ front = {snodes[j] : j \in 1 .. A} /\ front1 = {snodes[j] : j \in 1 .. A + 1}
          /\ back = {snodes[j] : j \in C + 1 .. L} /\ back1 = {snodes[j] : j \in C + 2 .. L}
    OBVIOUS
  <2>8. /\ ExcludedAB(t) = front \cup back /\ ExcludedBC(t) = front1 \cup back1
        /\ \A w : OnPath(t, w) <=> w \in front1 \cup back
    BY ONLY <2>3, <2>6, <2>7, <1>12 DEF ExcludedIs
  <2>9. /\ ExcludedAB(s) = front \cup back /\ ExcludedBC(s) = front1 \cup back1
        /\ \A w : OnPath(s, w) <=> w \in front1 \cup back
    BY ONLY <2>5, <2>7 DEF ExcludedIs
  <2> QED
    BY ONLY <2>8, <2>9
<1>15. PathFrom(nodes, Origin, Destination)
  <2>1. nodes[1] = Origin
    <3>1. CASE A = 0
      BY <3>1, <1>3, <1>10
    <3>2. CASE A # 0
      <4>1. 1 \in 1 .. A
        BY <3>2, <1>3
      <4> QED
        BY ONLY <4>1, <1>3, <1>6
    <3> QED
      BY <3>1, <3>2
  <2>2. nodes[N] = Destination
    <3>1. L \in C + 1 .. L
      BY <1>3
    <3> QED
      BY ONLY <3>1, <1>3, <1>7, <1>8
  <2>3. ASSUME NEW i \in 1 .. N - 1
        PROVE  <<nodes[i], nodes[i+1]>> \in Edge
    <3>1. CASE i <= A
      <4>1. i \in 1 .. A /\ i \in 1 .. L - 1 /\ (i + 1 \in 1 .. A \/ i + 1 = A + 1)
        BY ONLY <3>1, <1>a, i \in 1 .. N - 1
      <4>2. nodes[i] = snodes[i] /\ nodes[i + 1] = snodes[i + 1]
        BY ONLY <4>1, <1>6, <1>10
      <4> QED
        BY ONLY <4>1, <4>2, <1>3
    <3>2. CASE A < i /\ i < A + m
      <4>1. PICK j : j = i - A
        OBVIOUS
      <4>2. j \in 1 .. m - 1 /\ i = A + j /\ i + 1 = A + (j + 1) /\ j \in 1 .. m /\ j + 1 \in 1 .. m
        BY ONLY <4>1, <3>2, <1>a, i \in 1 .. N - 1
      <4>3. nodes[i] = ab[j] /\ nodes[i + 1] = ab[j + 1]
        BY ONLY <4>2, <1>6
      <4> QED
        BY ONLY <4>2, <4>3, <1>5
    <3>3. CASE A + m <= i /\ i < A + m + l - 1
      <4>1. PICK j : j = i - A - m + 1
        OBVIOUS
      <4>2. /\ j \in 1 .. l - 1 /\ i = A + m + j - 1 /\ i + 1 = A + m + (j + 1) - 1
            /\ j \in 1 .. l /\ j + 1 \in 1 .. l
        BY ONLY <4>1, <3>3, <1>a, i \in 1 .. N - 1
      <4>3. nodes[i] = bc[j] /\ nodes[i + 1] = bc[j + 1]
        BY ONLY <4>2, <1>6
      <4> QED
        BY ONLY <4>2, <4>3, <1>5
    <3>4. CASE A + m + l - 1 <= i
      <4>1. PICK j : j = i - D
        OBVIOUS
      <4>2. /\ j \in C + 1 .. L /\ j + 1 \in C + 1 .. L /\ i = j + D /\ i + 1 = j + 1 + D /\ j \in 1 .. L - 1
        BY ONLY <4>1, <3>4, <1>a, i \in 1 .. N - 1
      <4>3. nodes[i] = snodes[j] /\ nodes[i + 1] = snodes[j + 1]
        BY ONLY <4>2, <1>8
      <4>4. \A k \in 1 .. L - 1 : <<snodes[k], snodes[k+1]>> \in Edge
        BY <1>3
      <4>5. <<snodes[j], snodes[j+1]>> \in Edge
        BY ONLY <4>2, <4>4
      <4> QED
        BY ONLY <4>3, <4>5
    <3>5. i <= A \/ (A < i /\ i < A + m) \/ (A + m <= i /\ i < A + m + l - 1) \/ A + m + l - 1 <= i
      BY ONLY <1>a, i \in 1 .. N - 1
    <3> QED
      BY ONLY <3>1, <3>2, <3>3, <3>4, <3>5
  <2>4. N >= 1
    BY ONLY <1>9, <1>7
  <2> QED
    BY ONLY <1>1, <2>1, <2>2, <2>3, <2>4 DEF PathFrom
<1>16. SubSeq(nodes, t.A + 1, t.B + 1) = ab
  <2>1. PICK j, k : j = t.A + 1 /\ k = t.B + 1
    OBVIOUS
  <2>2. j \in Nat \ {0} /\ k \in Nat /\ j <= k + 1 /\ k <= N /\ k + 1 - j = m /\ j - 1 = A
    <3>1. t.A = A /\ t.B = A + m - 1 /\ t.C = C + D
      BY <1>6, <1>7
    <3> QED
      BY ONLY <1>a, <2>1, <3>1
  <2>3. k <= Len(nodes) /\ Len(ab) = k + 1 - j
    BY ONLY <2>2, <1>1
  <2>4. \A i \in 1 .. k + 1 - j : ab[i] = nodes[j - 1 + i]
    BY ONLY <2>2, <1>6
  <2>5. SubSeq(nodes, j, k) = ab
    BY ONLY <2>2, <2>3, <2>4, <1>4, <1>6, SameCut
  <2> QED
    BY ONLY <2>1, <2>5
<1>17. SubSeq(nodes, t.B + 1, t.C + 1) = bc
  <2>1. PICK j, k : j = t.B + 1 /\ k = t.C + 1
    OBVIOUS
  <2>2. j \in Nat \ {0} /\ k \in Nat /\ j <= k + 1 /\ k <= N /\ k + 1 - j = l /\ j - 1 = A + m - 1
    <3>1. t.A = A /\ t.B = A + m - 1 /\ t.C = C + D
      BY <1>6, <1>7
    <3> QED
      BY ONLY <1>a, <2>1, <3>1
  <2>3. k <= Len(nodes) /\ Len(bc) = k + 1 - j
    BY ONLY <2>2, <1>1
  <2>4. \A i \in 1 .. k + 1 - j : bc[i] = nodes[j - 1 + i]
    <3> SUFFICES ASSUME NEW i \in 1 .. k + 1 - j
                 PROVE  bc[i] = nodes[j - 1 + i]
      OBVIOUS
    <3>0. i \in 1 .. l
      BY <2>2
    <3>1. j - 1 + i = A + m + i - 1
      BY ONLY <2>2, <1>a, <3>0
    <3> QED
      BY ONLY <3>1, <1>6, <3>0
  <2>5. SubSeq(nodes, j, k) = bc
    BY ONLY <2>2, <2>3, <2>4, <1>4, <1>6, SameCut
  <2> QED
    BY ONLY <2>1, <2>5
<1>18. SubSeq(nodes, 1, A) = SubSeq(snodes, 1, A)
  <2>1. PICK y : y = SubSeq(snodes, 1, A)
    OBVIOUS
  <2>2. 1 \in Nat \ {0} /\ 1 <= A + 1 /\ A <= L /\ A <= N /\ A + 1 - 1 = A /\ \A i \in 1 .. A : 1 - 1 + i = i
    BY ONLY <1>a
  <2>3. y \in Seq(Node) /\ Len(y) = A + 1 - 1 /\ \A i \in 1 .. A + 1 - 1 : y[i] = snodes[1 - 1 + i]
    <3>1. A <= Len(snodes)
      BY ONLY <2>2, <1>1, <1>2
    <3> QED
      BY ONLY <2>1, <2>2, <3>1, <1>3, Cut
  <2>4. A <= Len(nodes) /\ \A i \in 1 .. A + 1 - 1 : y[i] = nodes[1 - 1 + i]
    <3>1. A <= Len(nodes)
      BY ONLY <2>2, <1>1
    <3>2. \A i \in 1 .. A : y[i] = nodes[1 - 1 + i]
      BY ONLY <2>2, <2>3, <1>6
    <3>3. A + 1 - 1 = A
      BY <2>2
    <3> QED
      BY ONLY <3>1, <3>2, <3>3
  <2>5. SubSeq(nodes, 1, A) = y
    BY ONLY <2>2, <2>3, <2>4, <1>3, <1>6, SameCut
  <2> QED
    BY ONLY <2>1, <2>5
<1>19. SubSeq(nodes, t.C + 2, N) = SubSeq(snodes, C + 2, L)
  <2>1. PICK y, j, k : y = SubSeq(snodes, k, L) /\ j = t.C + 2 /\ k = C + 2
    OBVIOUS
  <2>2. /\ j \in Nat \ {0} /\ j <= N + 1 /\ k \in Nat \ {0} /\ k <= L + 1
        /\ N + 1 - j = L + 1 - k /\ j - 1 = k - 1 + D /\ \A i \in 1 .. L + 1 - k : k - 1 + i \in C + 1 .. L
    <3>1. t.C = C + D
      BY <1>7
    <3> QED
      BY ONLY <1>a, <2>1, <3>1
  <2>3. y \in Seq(Node) /\ Len(y) = L + 1 - k /\ \A i \in 1 .. L + 1 - k : y[i] = snodes[k - 1 + i]
    <3>1. L <= Len(snodes)
      BY ONLY <1>1, <1>2, <1>3
    <3>2. /\ snodes \in Seq(Node) /\ k \in Nat \ {0} /\ L \in Nat /\ k <= L + 1 /\ L <= Len(snodes)
          /\ y = SubSeq(snodes, k, L)
      BY ONLY <2>1, <2>2, <3>1, <1>3
    <3> QED
      BY ONLY <3>2, Cut
  <2>4. \A i \in 1 .. N + 1 - j : y[i] = nodes[j - 1 + i]
    <3> SUFFICES ASSUME NEW i \in 1 .. N + 1 - j
                 PROVE  y[i] = nodes[j - 1 + i]
      OBVIOUS
    <3>0. i \in 1 .. L + 1 - k
      BY <2>2
    <3>1. j - 1 + i = k - 1 + i + D
      BY ONLY <2>2, <1>a, <3>0
    <3>2. nodes[k - 1 + i + D] = snodes[k - 1 + i]
      BY ONLY <2>2, <1>8, <3>0
    <3> QED
      BY ONLY <3>1, <3>2, <2>3, <3>0
  <2>5. N <= Len(nodes) /\ Len(y) = N + 1 - j
    BY ONLY <1>1, <1>6, <2>2, <2>3
  <2>6. SubSeq(nodes, j, N) = y
    BY ONLY <2>2, <2>3, <2>4, <2>5, <1>6, SameCut
  <2> QED
    BY ONLY <2>1, <2>6
<1>20. size(t) + 1 = N /\ size(s) + 1 = L /\ t.C <= size(t)
  <2>1. size(t) = N - 1 /\ size(s) = L - 1
    BY <1>1 DEF size
  <2>2. t.C = C + D
    BY <1>7
  <2>3. C + D + 1 <= N
    BY <1>9, <2>2, <1>a
  <2> QED
    BY ONLY <2>1, <2>2, <2>3, <1>a
<1> QED
  BY ONLY <1>1, <1>2, <1>6, <1>9, <1>11, <1>14, <1>15, <1>16, <1>17, <1>18, <1>19, <1>20

-----------------------------------------------------------------------------
(* Splices.                                                                *)

\* A route is asked for by the node inserted and what surrounds the points.
LEMMA SameSegments ==
  ASSUME NEW s, NEW t, getNode(t, t.A) = getNode(s, s.A), getNode(t, t.C) = getNode(s, s.C),
         ExcludedAB(t) = ExcludedAB(s), ExcludedBC(t) = ExcludedBC(s), NEW w
  PROVE  /\ SegmentAB(t, w) = SegmentAB(s, w) /\ SegmentBC(t, w) = SegmentBC(s, w)
         /\ NoDetour(t, w) <=> NoDetour(s, w)
BY DEF SegmentAB, SegmentBC, NoDetour

\* No exception of insertDetour: nothing asked for is excluded, and the pieces meet.
LEMMA SpliceDoesNotThrow ==
  ASSUME NEW s \in StateType, Sound(s), NEW v \in Node, ~OnPath(s, v)
  PROVE  ~SpliceThrows(s, v)
<1>1. PICK a, c : a = getNode(s, s.A) /\ c = getNode(s, s.C)
  OBVIOUS
<1>2. /\ {v, a} \cap ExcludedAB(s) = {} /\ {v, c} \cap ExcludedBC(s) = {}
      /\ {n \in Node \ ExcludedAB(s) : n # a /\ <<a, n>> \in Edge} # {}
      /\ {n \in Node \ ExcludedBC(s) : n # c /\ <<n, c>> \in Edge} # {}
  BY <1>1, Free
<1>3. ASSUME ~NoDetour(s, v)
      PROVE  /\ Head(SegmentAB(s, v)) = a
             /\ Head(SegmentBC(s, v)) = SegmentAB(s, v)[Len(SegmentAB(s, v))]
             /\ SegmentBC(s, v)[Len(SegmentBC(s, v))] = c
             /\ NodeB(Detour(s, v)) = v
  <2>1. PICK ab, bc, t : ab = SegmentAB(s, v) /\ bc = SegmentBC(s, v) /\ t = Detour(s, v)
    OBVIOUS
  <2>2. /\ ab \in Seq(Node) /\ PathFrom(ab, a, v) /\ Len(ab) \in Nat /\ Len(ab) >= 2
        /\ bc \in Seq(Node) /\ PathFrom(bc, v, c) /\ Len(bc) \in Nat /\ Len(bc) >= 2
    BY <1>1, <1>3, <2>1, Segments
  <2>3. Head(ab) = ab[1] /\ Head(bc) = bc[1]
    BY <2>2
  <2>4. ab[1] = a /\ ab[Len(ab)] = v /\ bc[1] = v /\ bc[Len(bc)] = c
    BY <2>2 DEF PathFrom
  <2>5. NodeB(t) = v
    BY <1>3, <2>1, DetourKeeps
  <2> QED
    BY <2>1, <2>3, <2>4, <2>5
<1> QED
  BY <1>1, <1>2, <1>3 DEF SpliceThrows

\* A detour without loop is sound, and spliceable as insertDetour claims by
\* setting m_spliceable to 1.
LEMMA DetourIsSound ==
  ASSUME NEW s \in StateType, Sound(s), NEW v \in Node, ~OnPath(s, v), ~NoDetour(s, v),
         NEW t, t = Detour(s, v), ~containLoop(t)
  PROVE  t \in StateType /\ Sound(t) /\ Spliceable(t) /\ Fresh(t) /\ NodeB(t) = v
<1>1. /\ t \in StateType /\ PathFrom(t.nodes, Origin, Destination)
      /\ t.A \in Nat /\ t.A < t.B /\ t.B < t.C /\ t.C <= size(t) /\ t.spliceable = 1
      /\ NodeB(t) = v /\ getNode(t, t.A) = getNode(s, s.A) /\ getNode(t, t.C) = getNode(s, s.C)
      /\ ExcludedAB(t) = ExcludedAB(s) /\ ExcludedBC(t) = ExcludedBC(s)
      /\ SubSeq(t.nodes, t.A + 1, t.B + 1) = SegmentAB(s, v)
      /\ SubSeq(t.nodes, t.B + 1, t.C + 1) = SegmentBC(s, v)
  BY DetourKeeps
<1>2. Sound(t)
  <2>1. 0 <= t.A
    BY <1>1
  <2> QED
    BY <1>1, <2>1 DEF Sound, containLoop
<1>3. SegmentAB(t, v) = SegmentAB(s, v) /\ SegmentBC(t, v) = SegmentBC(s, v)
  BY <1>1, SameSegments
<1>4. Spliceable(t)
  BY <1>1, <1>3 DEF Spliceable
<1> QED
  BY <1>1, <1>2, <1>4 DEF Fresh

\* A path is put together again from the pieces around its points.
LEMMA PiecesMakeWhole ==
  ASSUME NEW s \in StateType, Sound(s),
         NEW ab, ab = SubSeq(s.nodes, s.A + 1, s.B + 1), NEW bc, bc = SubSeq(s.nodes, s.B + 1, s.C + 1)
  PROVE  /\ Len(ab) = s.B + 1 - s.A /\ Len(bc) = s.C + 1 - s.B /\ ab # <<>> /\ bc # <<>>
         /\ SubSeq(s.nodes, 1, s.A) \o ab \o Tail(bc) \o SubSeq(s.nodes, s.C + 2, size(s) + 1) = s.nodes
<1>1. PICK nodes, A, B, C, L : nodes = s.nodes /\ A = s.A /\ B = s.B /\ C = s.C /\ L = Len(nodes)
  OBVIOUS
<1>2. /\ L \in Nat /\ nodes \in Seq(Node) /\ A \in Nat /\ B \in Nat /\ C \in Nat /\ A < B /\ B < C /\ C < L
  BY <1>1, StateNodes
<1>3. size(s) + 1 = L
  <2>1. size(s) = L - 1
    BY <1>1 DEF size
  <2> QED
    BY ONLY <2>1, <1>2
<1>4. PICK m, l : m = B + 1 - A /\ l = C + 1 - B
  OBVIOUS
<1>5. m \in Nat /\ l \in Nat /\ m >= 2 /\ l >= 2
  BY ONLY <1>2, <1>4
<1>6. ab \in Seq(Node) /\ m = Len(ab) /\ \A i \in 1 .. m : ab[i] = nodes[A + i]
  <2>1. PICK j, k : j = A + 1 /\ k = B + 1
    OBVIOUS
  <2>2. j \in Nat \ {0} /\ k \in Nat /\ j <= k + 1 /\ k <= L /\ k + 1 - j = m /\ j - 1 = A
    BY ONLY <1>2, <1>4, <2>1
  <2>3. ab = SubSeq(nodes, j, k) /\ k <= Len(nodes)
    BY <1>1, <2>1, <2>2
  <2>4. ab \in Seq(Node) /\ Len(ab) = k + 1 - j /\ \A i \in 1 .. k + 1 - j : ab[i] = nodes[j - 1 + i]
    BY ONLY <1>2, <2>2, <2>3, Cut
  <2> QED
    BY ONLY <2>2, <2>4
<1>7. bc \in Seq(Node) /\ l = Len(bc) /\ \A i \in 1 .. l : bc[i] = nodes[B + i]
  <2>1. PICK j, k : j = B + 1 /\ k = C + 1
    OBVIOUS
  <2>2. j \in Nat \ {0} /\ k \in Nat /\ j <= k + 1 /\ k <= L /\ k + 1 - j = l /\ j - 1 = B
    BY ONLY <1>2, <1>4, <2>1
  <2>3. bc = SubSeq(nodes, j, k) /\ k <= Len(nodes)
    BY <1>1, <2>1, <2>2
  <2>4. bc \in Seq(Node) /\ Len(bc) = k + 1 - j /\ \A i \in 1 .. k + 1 - j : bc[i] = nodes[j - 1 + i]
    BY ONLY <1>2, <2>2, <2>3, Cut
  <2> QED
    BY ONLY <2>2, <2>4
<1>8. PICK t : t = SubSeq(nodes, 1, A) \o ab \o Tail(bc) \o SubSeq(nodes, C + 2, L)
  OBVIOUS
<1>9. Replaced(t, nodes, A, C, L, ab, m, bc, l)
  <2>1. A < C /\ m >= 1 /\ l >= 1
    BY ONLY <1>2, <1>5
  <2> QED
    BY ONLY <1>1, <1>2, <1>6, <1>7, <1>8, <2>1, FourPieces
<1>10. t \in Seq(Node) /\ Len(t) = L
  <2>1. A + m + l + L - C - 2 = L
    BY ONLY <1>2, <1>4
  <2> QED
    BY ONLY <2>1, <1>9 DEF Replaced
<1>11. ASSUME NEW i \in 1 .. L
       PROVE  t[i] = nodes[i]
  <2>1. CASE i \in 1 .. A
    BY ONLY <2>1, <1>9 DEF Replaced
  <2>2. CASE i \in A + 1 .. A + m
    <3>1. i - A \in 1 .. m /\ A + (i - A) = i
      BY ONLY <2>2, <1>2, <1>5
    <3>2. t[A + (i - A)] = ab[i - A] /\ ab[i - A] = nodes[A + (i - A)]
      BY ONLY <3>1, <1>6, <1>9 DEF Replaced
    <3> QED
      BY ONLY <3>1, <3>2
  <2>3. CASE i \in A + m + 1 .. A + m + l - 1
    <3>1. PICK k : k = i - A - m + 1
      OBVIOUS
    <3>2. k \in 2 .. l /\ k \in 1 .. l /\ A + m + k - 1 = i /\ B + k = i
      BY ONLY <2>3, <3>1, <1>2, <1>4, <1>5
    <3>3. t[A + m + k - 1] = bc[k] /\ bc[k] = nodes[B + k]
      BY ONLY <3>2, <1>7, <1>9 DEF Replaced
    <3> QED
      BY ONLY <3>2, <3>3
  <2>4. CASE i \in C + 2 .. L
    <3>1. A + m + l + i - C - 2 = i
      BY ONLY <2>4, <1>2, <1>4
    <3>2. t[A + m + l + i - C - 2] = nodes[i]
      BY ONLY <2>4, <1>9 DEF Replaced
    <3> QED
      BY ONLY <3>1, <3>2
  <2>5. i \in 1 .. A \/ i \in A + 1 .. A + m \/ i \in A + m + 1 .. A + m + l - 1 \/ i \in C + 2 .. L
    BY ONLY <1>2, <1>4, i \in 1 .. L
  <2> QED
    BY ONLY <2>1, <2>2, <2>3, <2>4, <2>5
<1>12. t = nodes
  <2>1. Len(t) = Len(nodes) /\ \A i \in 1 .. Len(t) : t[i] = nodes[i]
    BY ONLY <1>1, <1>10, <1>11
  <2> QED
    BY ONLY <2>1, <1>2, <1>10, SeqEqual
<1>13. Len(ab) = s.B + 1 - s.A /\ Len(bc) = s.C + 1 - s.B /\ ab # <<>> /\ bc # <<>>
  <2>1. Len(ab) = m /\ Len(bc) = l /\ Len(ab) # 0 /\ Len(bc) # 0
    BY ONLY <1>5, <1>6, <1>7
  <2>2. ab # <<>> /\ bc # <<>>
    BY ONLY <2>1, <1>6, <1>7, EmptySeq
  <2> QED
    BY ONLY <2>1, <2>2, <1>1, <1>4
<1> QED
  BY ONLY <1>1, <1>3, <1>8, <1>12, <1>13

\* From the detour of a spliceable state, splicing in the old B leads back to
\* the very state.
LEMMA WayBack ==
  ASSUME NEW s \in StateType, Sound(s), Spliceable(s), NEW v \in Node, ~OnPath(s, v), ~NoDetour(s, v),
         NEW t, t = Detour(s, v)
  PROVE  Makes(t, NodeB(s), s)
<1>1. PICK b, ab, bc : b = NodeB(s) /\ ab = SegmentAB(s, b) /\ bc = SegmentBC(s, b)
  OBVIOUS
<1>2. ab = SubSeq(s.nodes, s.A + 1, s.B + 1) /\ bc = SubSeq(s.nodes, s.B + 1, s.C + 1)
  BY <1>1 DEF Spliceable
<1>3. /\ Len(ab) = s.B + 1 - s.A /\ Len(bc) = s.C + 1 - s.B /\ ab # <<>> /\ bc # <<>>
      /\ SubSeq(s.nodes, 1, s.A) \o ab \o Tail(bc) \o SubSeq(s.nodes, s.C + 2, size(s) + 1) = s.nodes
  BY <1>2, PiecesMakeWhole
<1>4. /\ t.A = s.A /\ getNode(t, t.A) = getNode(s, s.A) /\ getNode(t, t.C) = getNode(s, s.C)
      /\ ExcludedAB(t) = ExcludedAB(s) /\ ExcludedBC(t) = ExcludedBC(s)
      /\ \A w : OnPath(t, w) <=> OnPath(s, w)
      /\ SubSeq(t.nodes, 1, t.A) = SubSeq(s.nodes, 1, s.A)
      /\ SubSeq(t.nodes, t.C + 2, size(t) + 1) = SubSeq(s.nodes, s.C + 2, size(s) + 1)
  BY DetourKeeps
<1>5. SegmentAB(t, b) = ab /\ SegmentBC(t, b) = bc
  BY <1>1, <1>4, SameSegments
<1>6. ~OnPath(t, b) /\ ~NoDetour(t, b)
  BY <1>1, <1>3, <1>4, <1>5, Free DEF NoDetour
<1>7. PICK r : r = Detour(t, b)
  OBVIOUS
<1>8. r.nodes = s.nodes /\ r.A = s.A
  BY <1>3, <1>4, <1>5, <1>7 DEF Detour, State
<1>9. r.B = s.B /\ r.C = s.C
  <2>1. r.B = t.A + Len(ab) - 1 /\ r.C = t.A + Len(ab) - 1 + Len(bc) - 1
    BY <1>5, <1>7 DEF Detour, State
  <2>2. s.A \in Int /\ s.B \in Int /\ s.C \in Int
    BY DEF StateType
  <2>3. r.B = s.A + (s.B + 1 - s.A) - 1 /\ r.C = s.A + (s.B + 1 - s.A) - 1 + (s.C + 1 - s.B) - 1
    BY ONLY <2>1, <1>3, <1>4
  <2> QED
    BY ONLY <2>2, <2>3
<1>10. ~containLoop(r)
  BY <1>8 DEF containLoop, Sound
<1>11. SpliceTransition(t, b) = Transition(t, r, TRUE)
  BY <1>6, <1>7, <1>10 DEF SpliceTransition
<1>12. Transition(t, r, TRUE).splice = TRUE /\ Transition(t, r, TRUE).new = r
  BY DEF Transition
<1> QED
  BY <1>1, <1>8, <1>9, <1>11, <1>12 DEF Makes, SamePoints

-----------------------------------------------------------------------------
(* Weights.                                                                *)

\* The node the recursion takes first, and what makes f the function of all
\* sums of w: the recursion of TotalWeight.
Chosen(S) == CHOOSE v \in S : TRUE

Sums(f, w) ==
  f = [S \in SUBSET DOMAIN w |->
         IF S = {} THEN 0 ELSE LET v == CHOOSE v \in S : TRUE IN w[v] + f[S \ {v}]]

\* As InsertAssumption has it, over finitely many nodes.
WeightsOK(w) == IsFiniteSet(DOMAIN w) /\ \A v \in DOMAIN w : w[v] \in Nat \ {0}

\* The step of the recursion: without the node chosen there is one node less.
LEMMA OneLess ==
  ASSUME NEW w, WeightsOK(w), NEW S \in SUBSET DOMAIN w
  PROVE  /\ IsFiniteSet(S) /\ Cardinality(S) \in Nat /\ Cardinality(S) <= Cardinality(DOMAIN w)
         /\ S # {} => /\ Chosen(S) \in S /\ S \ {Chosen(S)} \in SUBSET DOMAIN w
                      /\ Cardinality(S \ {Chosen(S)}) = Cardinality(S) - 1
<1>1. IsFiniteSet(S) /\ Cardinality(S) \in Nat /\ Cardinality(S) <= Cardinality(DOMAIN w)
  BY FS_Subset, FS_CardinalityType DEF WeightsOK
<1>2. ASSUME S # {} PROVE Chosen(S) \in S
  BY <1>2 DEF Chosen
<1> QED
  BY <1>1, <1>2, FS_RemoveElement

\* The sum exists: a least number of nodes without one would have one.
LEMMA SumsExist ==
  ASSUME NEW w, WeightsOK(w)
  PROVE  \E f : Sums(f, w)
<1> DEFINE Small(n) == {S \in SUBSET DOMAIN w : Cardinality(S) <= n}
           Upto(n, g) == \A S \in Small(n) :
                           /\ g[S] \in Nat
                           /\ g[S] = IF S = {} THEN 0 ELSE w[Chosen(S)] + g[S \ {Chosen(S)}]
           Bad == {n \in Nat : ~ \E g : Upto(n, g)}
<1>1. Bad = {}
  <2> SUFFICES ASSUME Bad # {}
               PROVE  FALSE
    OBVIOUS
  <2>1. PICK m \in Bad : \A k \in Bad : m <= k
    <3> HIDE DEF Bad
    <3> QED
      BY LeastOfNaturals, Bad \in SUBSET Nat DEF Bad
  <2>2. CASE m = 0
    <3>1. Upto(0, [S \in SUBSET DOMAIN w |-> 0])
      <4> SUFFICES ASSUME NEW S \in Small(0)
                   PROVE  S = {}
        OBVIOUS
      <4>1. IsFiniteSet(S) /\ Cardinality(S) \in Nat /\ Cardinality(S) <= 0
        BY OneLess
      <4>2. Cardinality(S) = 0
        BY ONLY <4>1
      <4> QED
        BY <4>1, <4>2, FS_EmptySet
    <3> QED
      BY <3>1, <2>1, <2>2
  <2>3. CASE m # 0
    <3>1. m \in Nat /\ m - 1 \in Nat /\ ~(m <= m - 1)
      BY <2>3, <2>1
    <3>2. PICK g : Upto(m - 1, g)
      <4>1. m - 1 \notin Bad
        <5> HIDE DEF Bad
        <5> QED
          BY <3>1, <2>1
      <4> QED
        BY <4>1, <3>1
    <3> DEFINE h == [S \in SUBSET DOMAIN w |->
                       IF S = {} THEN 0 ELSE w[Chosen(S)] + g[S \ {Chosen(S)}]]
    <3>3. \A S \in Small(m - 1) : h[S] = g[S]
      BY <3>2
    <3>4. ASSUME NEW S \in Small(m), S # {}
          PROVE  S \ {Chosen(S)} \in Small(m - 1) /\ Chosen(S) \in DOMAIN w
      BY <3>4, <3>1, OneLess
    <3> HIDE DEF Upto
    <3>5. Upto(m, h)
      <4> SUFFICES ASSUME NEW S \in Small(m)
                   PROVE  /\ h[S] \in Nat
                          /\ h[S] = IF S = {} THEN 0 ELSE w[Chosen(S)] + h[S \ {Chosen(S)}]
        BY DEF Upto
      <4>1. CASE S = {}
        BY <4>1
      <4>2. CASE S # {}
        <5>1. S \ {Chosen(S)} \in Small(m - 1) /\ Chosen(S) \in DOMAIN w
          BY <3>4, <4>2
        <5>2. g[S \ {Chosen(S)}] \in Nat /\ h[S \ {Chosen(S)}] = g[S \ {Chosen(S)}]
          BY <5>1, <3>2, <3>3 DEF Upto
        <5> QED
          BY <4>2, <5>1, <5>2 DEF WeightsOK
      <4> QED
        BY <4>1, <4>2
    <3> QED
      BY <3>5, <2>1 DEF Upto
  <2> QED
    BY <2>2, <2>3
<1>2. PICK g : Upto(Cardinality(DOMAIN w), g)
  BY <1>1, OneLess
<1> DEFINE f == [S \in SUBSET DOMAIN w |-> g[S]]
<1>3. f = [S \in SUBSET DOMAIN w |-> IF S = {} THEN 0 ELSE w[Chosen(S)] + f[S \ {Chosen(S)}]]
  <2> SUFFICES ASSUME NEW S \in SUBSET DOMAIN w
               PROVE  g[S] = IF S = {} THEN 0 ELSE w[Chosen(S)] + f[S \ {Chosen(S)}]
    OBVIOUS
  <2>1. S \in Small(Cardinality(DOMAIN w))
    BY OneLess
  <2> QED
    BY <1>2, <2>1
<1>4. Sums(f, w)
  <2> HIDE DEF f
  <2> QED
    BY <1>3 DEF Sums, Chosen
<1> QED
  BY <1>4

\* A sum of weights is a number, and no less than any of them.
LEMMA SumBounds ==
  ASSUME NEW w, WeightsOK(w), NEW f, Sums(f, w)
  PROVE  \A S \in SUBSET DOMAIN w : f[S] \in Nat /\ \A v \in S : w[v] <= f[S]
<1> DEFINE OK(S) == f[S] \in Nat /\ \A v \in S : w[v] <= f[S]
           Bad == {Cardinality(S) : S \in {S \in SUBSET DOMAIN w : ~OK(S)}}
<1>1. \A S \in SUBSET DOMAIN w : f[S] = IF S = {} THEN 0 ELSE w[Chosen(S)] + f[S \ {Chosen(S)}]
  BY DEF Sums, Chosen
<1>2. Bad \in SUBSET Nat
  BY OneLess
<1>3. Bad = {}
  <2> SUFFICES ASSUME Bad # {}
               PROVE  FALSE
    OBVIOUS
  <2>1. PICK m \in Bad : \A k \in Bad : m <= k
    <3> HIDE DEF Bad
    <3> QED
      BY <1>2, LeastOfNaturals
  <2>2. PICK S \in SUBSET DOMAIN w : ~OK(S) /\ m = Cardinality(S)
    BY <2>1
  <2>3. S # {}
    <3>1. f[{}] = 0
      BY <1>1
    <3>2. OK({})
      BY ONLY <3>1
    <3> QED
      BY <2>2, <3>2
  <2>4. PICK u, T : u = Chosen(S) /\ T = S \ {u}
    OBVIOUS
  <2>5. u \in S /\ T \in SUBSET DOMAIN w /\ Cardinality(T) = m - 1 /\ m \in Nat
    BY <2>2, <2>3, <2>4, OneLess
  <2>6. OK(T)
    <3> SUFFICES ASSUME ~OK(T)
                 PROVE  FALSE
      OBVIOUS
    <3>1. Cardinality(T) \in Bad
      BY <2>5
    <3> HIDE DEF Bad
    <3>2. m <= m - 1
      BY <3>1, <2>1, <2>5
    <3> QED
      BY <3>2, <2>5
  <2>7. f[S] = w[u] + f[T] /\ w[u] \in Nat
    BY <1>1, <2>3, <2>4, <2>5 DEF WeightsOK
  <2>8. ASSUME NEW v \in S PROVE w[v] <= f[S]
    <3>1. v = u \/ v \in T
      BY <2>4
    <3>2. w[v] \in Nat
      BY DEF WeightsOK
    <3> QED
      BY <2>6, <2>7, <3>1, <3>2
  <2> QED
    BY <2>2, <2>6, <2>7, <2>8
<1> QED
  BY <1>3

\* m_proposalProbabilities, whichever thread left them: the total is a number,
\* and no less than the weight of any node that has one.
LEMMA Totals ==
  ASSUME weights \in {InsertWeight} \cup ForeignWeight
  PROVE  /\ InsertNode \in SUBSET Node /\ TotalWeight \in Nat
         /\ \A v : Weight(v) \in Nat
         /\ \A v \in InsertNode : 0 < Weight(v) /\ Weight(v) <= TotalWeight
<1>1. WeightsOK(weights) /\ InsertNode \in SUBSET Node
  BY EdgeAssumption, InsertAssumption, FS_Subset DEF WeightsOK, InsertNode
<1> DEFINE f == CHOOSE f : Sums(f, weights)
<1>2. Sums(f, weights)
  BY <1>1, SumsExist
<1>3. TotalWeight = f[InsertNode]
  BY DEF TotalWeight, Sums, InsertNode
<1>4. f[InsertNode] \in Nat /\ \A v \in InsertNode : weights[v] <= f[InsertNode]
  <2> HIDE DEF f
  <2> QED
    BY <1>1, <1>2, SumBounds DEF InsertNode
<1>5. \A v : IF v \in InsertNode THEN Weight(v) = weights[v] /\ weights[v] \in Nat /\ 0 < weights[v]
                                 ELSE Weight(v) = 0
  BY <1>1 DEF Weight, WeightsOK, InsertNode
<1> HIDE DEF f
<1>6. \A v : Weight(v) \in Nat
  BY <1>5
<1>7. \A v \in InsertNode : 0 < Weight(v) /\ Weight(v) <= TotalWeight
  BY <1>3, <1>4, <1>5
<1> QED
  BY <1>1, <1>3, <1>4, <1>6, <1>7

\* Every node on a way from the origin to the destination has a weight:
\* MHNIPPG::calculate gives one to the nodes both trees reach.
LEMMA PathWeighed ==
  ASSUME NEW x \in Seq(Node), PathFrom(x, Origin, Destination), NEW i \in 1 .. Len(x)
  PROVE  x[i] \in DOMAIN InsertWeight
<1>1. PICK L : L = Len(x) /\ L \in Nat
  BY LenProperties
<1>2. PICK fwd, bwd \in SUBSET Node :
        /\ Origin \in fwd /\ Destination \in bwd
        /\ \A e \in Edge : (e[1] \in fwd => e[2] \in fwd) /\ (e[2] \in bwd => e[1] \in bwd)
        /\ fwd \cap bwd \subseteq DOMAIN InsertWeight
  BY ReachAssumption
<1>3. x[1] = Origin /\ x[L] = Destination /\ L >= 1 /\ \A j \in 1 .. L - 1 : <<x[j], x[j+1]>> \in Edge
  BY <1>1 DEF PathFrom
<1>4. \A j \in 1 .. L - 1 : (x[j] \in fwd => x[j+1] \in fwd) /\ (x[j+1] \in bwd => x[j] \in bwd)
  BY <1>2, <1>3
<1>5. \A j \in 1 .. L : x[j] \in fwd
  <2> DEFINE Bad == {j \in 1 .. L : x[j] \notin fwd}
  <2> SUFFICES ASSUME Bad # {}
               PROVE  FALSE
    OBVIOUS
  <2>1. PICK j \in Bad : \A k \in Bad : j <= k
    <3>1. Bad \in SUBSET Nat
      OBVIOUS
    <3> HIDE DEF Bad
    <3> QED
      BY <3>1, LeastOfNaturals
  <2>2. j # 1 /\ j \in 1 .. L /\ j - 1 \in 1 .. L - 1 /\ j - 1 + 1 = j /\ j - 1 \in 1 .. L /\ ~(j <= j - 1)
    BY <1>1, <1>2, <1>3, <2>1
  <2>3. x[j - 1] \in fwd
    BY <2>1, <2>2
  <2> QED
    BY <1>4, <2>1, <2>2, <2>3
<1>6. \A j \in 1 .. L : x[j] \in bwd
  <2> DEFINE Bad == {k \in 0 .. L - 1 : x[L - k] \notin bwd}
  <2> SUFFICES ASSUME NEW j \in 1 .. L, x[j] \notin bwd
               PROVE  FALSE
    OBVIOUS
  <2>0. Bad # {}
    <3>1. L - j \in 0 .. L - 1 /\ L - (L - j) = j
      BY <1>1
    <3> QED
      BY <3>1
  <2>1. PICK k \in Bad : \A n \in Bad : k <= n
    <3>1. Bad \in SUBSET Nat
      BY <1>1
    <3> HIDE DEF Bad
    <3> QED
      BY <2>0, <3>1, LeastOfNaturals
  <2>2. k # 0 /\ k \in 0 .. L - 1
    BY <1>1, <1>2, <1>3, <2>1
  <2>3. /\ k - 1 \in 0 .. L - 1 /\ ~(k <= k - 1) /\ L - k \in 1 .. L - 1 /\ L - (k - 1) = L - k + 1
    BY <1>1, <2>2
  <2>4. x[L - (k - 1)] \in bwd
    BY <2>1, <2>3
  <2> QED
    BY <1>4, <2>1, <2>3, <2>4
<1> QED
  BY <1>1, <1>2, <1>5, <1>6

-----------------------------------------------------------------------------
(* Probabilities.                                                          *)

Proper(x) == 0 < x[1] /\ x[1] <= x[2]

\* forbiddenSize is less than the number of combinations of three points, so
\* that the unsigned subtraction in transitionLogProb does not wrap.
LEMMA Combinations ==
  ASSUME NEW n \in Nat, n >= 3, NEW f \in Nat, f <= n - 3
  PROVE  (n * (n - 1) * (n - 2)) \div 6 \in Int /\ (n * (n - 1) * (n - 2)) \div 6 >= f + 1
<1>1. PICK k, q : k = n - 2 /\ q = n * (n - 1)
  OBVIOUS
<1>2. k \in Nat /\ q \in Nat /\ q >= 6
  <2>1. n - 1 \in Nat /\ n - 1 >= 2
    OBVIOUS
  <2> QED
    BY <1>1, <2>1
<1>3. q * k \in Int /\ q * k >= 6 * k
  BY ONLY <1>2
<1>4. (q * k) \div 6 \in Int /\ (q * k) \div 6 >= k
  <2>1. PICK x : x = q * k
    OBVIOUS
  <2>2. x \in Int /\ x >= 6 * k /\ k \in Int
    BY ONLY <1>2, <1>3, <2>1
  <2>3. x \div 6 \in Int /\ x \div 6 >= k
    BY ONLY <2>2
  <2> QED
    BY ONLY <2>1, <2>3
<1>5. k >= f + 1
  BY <1>1
<1> QED
  BY ONLY <1>1, <1>2, <1>4, <1>5, f \in Nat

\* The probability of a splice is one, if the inserted node has a weight.
LEMMA SpliceProbProper ==
  ASSUME weights \in {InsertWeight} \cup ForeignWeight, NEW v
  PROVE  /\ SpliceProb(v) \in Int \X Int
         /\ v \in InsertNode => Proper(SpliceProb(v))
<1>1. PICK x, y : x = Weight(v) /\ y = TotalWeight
  OBVIOUS
<1>2. x \in Nat /\ y \in Nat /\ (v \in InsertNode => 0 < x /\ x <= y)
  BY <1>1, Totals
<1>3. SpliceProb(v) = <<8 * x, 10 * y>>
  BY <1>1 DEF SpliceProb
<1>4. 8 * x \in Int /\ 10 * y \in Int /\ (0 < x /\ x <= y => 0 < 8 * x /\ 8 * x <= 10 * y)
  BY ONLY <1>2
<1>5. SpliceProb(v)[1] = 8 * x /\ SpliceProb(v)[2] = 10 * y
  BY <1>3
<1> QED
  BY ONLY <1>2, <1>3, <1>4, <1>5 DEF Proper

\* The probability of a move of the points, or of none, is one whichever
\* branch of transitionLogProb gives it.
LEMMA ShuffleProbProper ==
  ASSUME weights \in {InsertWeight} \cup ForeignWeight,
         NEW s \in StateType, Sound(s), NEW t \in StateType, Sound(t)
  PROVE  /\ transitionProb(s, t, FALSE) \in Int \X Int
         /\ weights = InsertWeight => Proper(transitionProb(s, t, FALSE))
<1>1. CASE SamePoints(s, t)
  <2>1. transitionProb(s, t, FALSE) = <<1, 1>>
    BY <1>1 DEF transitionProb
  <2>2. <<1, 1>> \in Int \X Int /\ Proper(<<1, 1>>)
    BY DEF Proper
  <2> QED
    BY <2>1, <2>2
<1>2. CASE ~SamePoints(s, t) /\ s.A = t.A /\ s.C = t.C
  <2>1. transitionProb(s, t, FALSE) = SpliceProb(NodeB(t))
    BY <1>2 DEF transitionProb
  <2>2. weights = InsertWeight => NodeB(t) \in InsertNode
    <3>1. PICK L, i : L = Len(t.nodes) /\ i = t.B + 1
      OBVIOUS
    <3>2. /\ t.nodes \in Seq(Node) /\ L \in Nat /\ NodeB(t) = t.nodes[i]
          /\ t.B \in Nat /\ t.C \in Nat /\ t.B < t.C /\ t.C < L
      BY <3>1, StateNodes
    <3>3. i \in 1 .. L
      BY ONLY <3>1, <3>2
    <3>4. t.nodes[i] \in DOMAIN InsertWeight
      BY <3>1, <3>2, <3>3, PathWeighed DEF Sound
    <3> QED
      BY <3>2, <3>4 DEF InsertNode
  <2> QED
    BY <2>1, <2>2, SpliceProbProper
<1>3. CASE ~SamePoints(s, t) /\ ~(s.A = t.A /\ s.C = t.C)
  <2>1. PICK p, f, e : /\ p = pointCombinationSize(s) /\ f = s.C - s.A - 2
                       /\ e = IF isSpliceable(s) THEN 2 ELSE 10
    OBVIOUS
  <2>2. transitionProb(s, t, FALSE) = <<e, 10 * (p - f)>>
    BY <1>3, <2>1 DEF transitionProb
  <2>3. PICK n : n = Len(s.nodes)
    OBVIOUS
  <2>4. n \in Nat /\ n >= 3 /\ f \in Nat /\ f <= n - 3
    <3>1. n \in Nat /\ s.A \in Nat /\ s.B \in Nat /\ s.C \in Nat /\ s.A < s.B /\ s.B < s.C /\ s.C < n
      BY <2>3, StateNodes
    <3> QED
      BY ONLY <3>1, <2>1
  <2>5. p = (n * (n - 1) * (n - 2)) \div 6
    BY <2>1, <2>3 DEF pointCombinationSize
  <2>6. p \in Int /\ p >= f + 1
    BY ONLY <2>4, <2>5, Combinations
  <2>7. e \in {2, 10}
    BY <2>1
  <2>8. e \in Int /\ 10 * (p - f) \in Int /\ 0 < e /\ e <= 10 * (p - f)
    BY ONLY <2>4, <2>6, <2>7
  <2>9. PICK d : d = 10 * (p - f)
    OBVIOUS
  <2>10. <<e, d>> \in Int \X Int /\ Proper(<<e, d>>)
    BY ONLY <2>8, <2>9 DEF Proper
  <2> QED
    BY <2>2, <2>9, <2>10
<1> QED
  BY <1>1, <1>2, <1>3

-----------------------------------------------------------------------------
(* The invariant.                                                          *)

Good(s) == s \in StateType /\ Sound(s) /\ Fresh(s)

\* The proposal in hand is one that newTransition makes.
Spliced(p) ==
  /\ Spliceable(p.old)
  /\ \E v \in InsertNode :
       /\ ~OnPath(p.old, v) /\ ~NoDetour(p.old, v) /\ p.new = Detour(p.old, v)
       /\ p.fwd = SpliceProb(v) /\ p.bwd = SpliceProb(NodeB(p.old))

ProposalType ==
  /\ proposal.old \in StateType /\ proposal.new \in StateType
  /\ proposal.splice \in BOOLEAN
  /\ proposal.fwd \in Int \X Int /\ proposal.bwd \in Int \X Int

ProposalInv ==
  pc = "decide" =>
    /\ Good(proposal.old) /\ Good(proposal.new)
    /\ weights = InsertWeight => Proper(proposal.fwd) /\ Proper(proposal.bwd)
    /\ proposal.splice => Spliced(proposal)

StateInv ==
  /\ current \in StateType
  /\ pc \in {"start", "thrown"} => current = NoState
  /\ Started => Good(current)

\* The inductive invariant.
IInv ==
  /\ pc \in {"start", "draw", "decide", "done", "exit", "thrown", "no node"}
  /\ weights \in {InsertWeight} \cup ForeignWeight
  /\ StateInv
  /\ ProposalType
  /\ ProposalInv

\* Before the first state and between proposals there is nothing, well typed.
LEMMA NothingTyped ==
  /\ NoState \in StateType
  /\ NoProposal.old \in StateType /\ NoProposal.new \in StateType
  /\ NoProposal.splice \in BOOLEAN
  /\ NoProposal.fwd \in Int \X Int /\ NoProposal.bwd \in Int \X Int
<1>1. NoState \in StateType
  <2>1. <<>> \in Seq(Node) /\ 0 \in Int
    BY EmptySeq
  <2> QED
    BY <2>1 DEF NoState, State, StateType
<1>2. /\ NoProposal.old = NoState /\ NoProposal.new = NoState /\ NoProposal.splice = FALSE
      /\ NoProposal.fwd = <<1, 1>> /\ NoProposal.bwd = <<1, 1>>
  BY DEF NoProposal
<1>3. <<1, 1>> \in Int \X Int
  OBVIOUS
<1> QED
  BY <1>1, <1>2, <1>3

\* Before newInitialState the invariant holds.
THEOREM InitIInv == Init => IInv
<1> SUFFICES ASSUME Init
             PROVE  IInv
  OBVIOUS
<1>1. pc = "start" /\ current = NoState /\ proposal = NoProposal
  BY DEF Init
<1> QED
  BY <1>1, NothingTyped DEF Init, IInv, StateInv, ProposalType, ProposalInv, Started

\* isSpliceable only remembers: all else of a state stays.
LEMMA EvaluatedSame ==
  ASSUME NEW s \in StateType
  PROVE  LET e == Evaluated(s)
         IN  /\ e \in StateType /\ e.nodes = s.nodes /\ e.A = s.A /\ e.B = s.B /\ e.C = s.C
             /\ e.spliceable = IF isSpliceable(s) THEN 1 ELSE 0
BY DEF Evaluated, StateType

\* Soundness and spliceability do not depend on what is remembered.
LEMMA SameButCache ==
  ASSUME NEW s, NEW e, e.nodes = s.nodes, e.A = s.A, e.B = s.B, e.C = s.C
  PROVE  (Sound(e) <=> Sound(s)) /\ (Spliceable(e) <=> Spliceable(s))
<1>1. size(e) = size(s) /\ \A i : getNode(e, i) = getNode(s, i)
  BY DEF size, getNode
<1>2. \A i : NodesFront(e, i) = NodesFront(s, i) /\ NodesBack(e, i) = NodesBack(s, i)
  BY <1>1 DEF NodesFront, NodesBack
<1>3. ExcludedAB(e) = ExcludedAB(s) /\ ExcludedBC(e) = ExcludedBC(s) /\ NodeB(e) = NodeB(s)
  BY <1>1, <1>2 DEF ExcludedAB, ExcludedBC, NodeB
<1>4. Sound(e) <=> Sound(s)
  BY <1>1 DEF Sound
<1>5. \A v : SegmentAB(e, v) = SegmentAB(s, v) /\ SegmentBC(e, v) = SegmentBC(s, v)
  BY <1>1, <1>3 DEF SegmentAB, SegmentBC
<1> QED
  BY <1>3, <1>4, <1>5 DEF Spliceable

\* isSpliceable answers what the router would, and remembers just that.
LEMMA EvaluatedGood ==
  ASSUME NEW s, Good(s)
  PROVE  Good(Evaluated(s)) /\ (isSpliceable(s) <=> Spliceable(Evaluated(s)))
<1>1. s \in StateType /\ Sound(s) /\ Fresh(s) /\ s.spliceable \in {-1, 0, 1}
  BY DEF Good, StateType
<1>2. isSpliceable(s) <=> Spliceable(s)
  BY <1>1 DEF isSpliceable, Fresh
<1>3. PICK e : e = Evaluated(s)
  OBVIOUS
<1>4. /\ e \in StateType /\ e.nodes = s.nodes /\ e.A = s.A /\ e.B = s.B /\ e.C = s.C
      /\ e.spliceable = IF isSpliceable(s) THEN 1 ELSE 0
  BY <1>1, <1>3, EvaluatedSame
<1>5. Sound(e) /\ (Spliceable(e) <=> Spliceable(s))
  BY <1>1, <1>4, SameButCache
<1>6. Fresh(e)
  <2>1. (e.spliceable = 1) <=> Spliceable(e)
    BY ONLY <1>2, <1>4, <1>5
  <2>2. (e.spliceable = 1) \in BOOLEAN /\ Spliceable(e) \in BOOLEAN
    BY DEF Spliceable
  <2> QED
    BY <2>1, <2>2 DEF Fresh
<1>7. Good(e)
  BY <1>4, <1>5, <1>6 DEF Good
<1> QED
  BY <1>2, <1>3, <1>5, <1>7

\* setPoints: other points on the same path, and nothing remembered.
LEMMA PointsGood ==
  ASSUME NEW s, Good(s), NEW p \in Points(Len(s.nodes)), NEW t, t = WithPoints(s, p)
  PROVE  Good(t)
<1>1. PICK L : L = Len(s.nodes)
  OBVIOUS
<1>2. L \in Nat /\ s.nodes \in Seq(Node)
  BY <1>1, StateNodes DEF Good
<1>3. /\ p[1] \in Nat /\ p[2] \in Nat /\ p[3] \in Nat /\ p[1] < p[2] /\ p[2] < p[3] /\ p[3] <= L - 1
  BY <1>1, <1>2 DEF Points
<1>4. /\ t.nodes = s.nodes /\ t.A = p[1] /\ t.B = p[2] /\ t.C = p[3] /\ t.spliceable = -1
      /\ t = [nodes |-> s.nodes, A |-> p[1], B |-> p[2], C |-> p[3], spliceable |-> -1]
  BY DEF WithPoints, State
<1>5. t \in StateType
  BY <1>2, <1>3, <1>4 DEF StateType
<1>6. size(t) = L - 1 /\ 0 <= p[1]
  BY <1>1, <1>3, <1>4 DEF size
<1>7. Sound(t)
  BY <1>3, <1>4, <1>6 DEF Sound, Good
<1> QED
  BY <1>4, <1>5, <1>7 DEF Good, Fresh

\* What newTransition records of a move that is not a splice.
LEMMA ShuffleGood ==
  ASSUME weights \in {InsertWeight} \cup ForeignWeight,
         NEW s, Good(s), NEW t, Good(t), NEW r, r = Transition(s, t, FALSE)
  PROVE  /\ Good(r.old) /\ Good(r.new) /\ r.splice = FALSE
         /\ r.fwd \in Int \X Int /\ r.bwd \in Int \X Int
         /\ weights = InsertWeight => Proper(r.fwd) /\ Proper(r.bwd)
<1>1. /\ r.old \in {s, Evaluated(s)} /\ r.new \in {t, Evaluated(t)} /\ r.splice = FALSE
      /\ r.fwd = transitionProb(s, t, FALSE) /\ r.bwd = transitionProb(t, s, FALSE)
  BY DEF Transition
<1> QED
  BY <1>1, EvaluatedGood, ShuffleProbProper DEF Good

\* What the splice branch of newTransition records: a detour of a spliceable
\* state with its probabilities, or a move that changes nothing.
LEMMA SpliceGood ==
  ASSUME weights \in {InsertWeight} \cup ForeignWeight,
         NEW s, Good(s), Spliceable(s), NEW v \in InsertNode, NEW r, r = SpliceTransition(s, v)
  PROVE  /\ Good(r.old) /\ Good(r.new) /\ r.splice \in BOOLEAN
         /\ r.fwd \in Int \X Int /\ r.bwd \in Int \X Int
         /\ weights = InsertWeight => Proper(r.fwd) /\ Proper(r.bwd)
         /\ r.splice => Spliced(r)
<1>1. CASE OnPath(s, v) \/ NoDetour(s, v) \/ containLoop(Detour(s, v))
  <2>1. r = Transition(s, s, FALSE)
    BY <1>1 DEF SpliceTransition
  <2> QED
    BY <2>1, ShuffleGood
<1>2. CASE ~(OnPath(s, v) \/ NoDetour(s, v) \/ containLoop(Detour(s, v)))
  <2>1. PICK t : t = Detour(s, v)
    OBVIOUS
  <2>2. /\ r.old = s /\ r.new = t /\ r.splice = TRUE
        /\ r.fwd = SpliceProb(NodeB(t)) /\ r.bwd = SpliceProb(NodeB(s))
    BY <1>2, <2>1 DEF SpliceTransition, Transition, transitionProb
  <2>3. v \in Node
    BY Totals
  <2>4. t \in StateType /\ Sound(t) /\ Fresh(t) /\ NodeB(t) = v
    BY <1>2, <2>1, <2>3, DetourIsSound DEF Good
  <2>5. weights = InsertWeight => NodeB(s) \in InsertNode
    <3>1. PICK L, i : L = Len(s.nodes) /\ i = s.B + 1
      OBVIOUS
    <3>2. /\ s.nodes \in Seq(Node) /\ L \in Nat /\ s.B \in Nat /\ s.C \in Nat /\ s.B < s.C /\ s.C < L
          /\ NodeB(s) = s.nodes[i]
      BY <3>1, StateNodes DEF Good
    <3>3. i \in 1 .. L
      BY ONLY <3>1, <3>2
    <3>4. s.nodes[i] \in DOMAIN InsertWeight
      BY <3>1, <3>2, <3>3, PathWeighed DEF Sound, Good
    <3> QED
      BY <3>2, <3>4 DEF InsertNode
  <2>6. /\ r.fwd \in Int \X Int /\ r.bwd \in Int \X Int
        /\ weights = InsertWeight => Proper(r.fwd) /\ Proper(r.bwd)
    BY <2>2, <2>4, <2>5, SpliceProbProper
  <2>7. Spliced(r)
    BY <1>2, <2>1, <2>2, <2>4 DEF Spliced
  <2> QED
    BY <2>2, <2>4, <2>6, <2>7 DEF Good
<1> QED
  BY <1>1, <1>2

\* newInitialState: three points on a path the chain may start with.
LEMMA StartGood ==
  ASSUME NEW path \in Trigger, NEW p \in Points(Len(path)),
         NEW t, t = State(path, p[1], p[2], p[3], -1)
  PROVE  Good(t)
<1>1. path \in Seq(Node) /\ PathFrom(path, Origin, Destination) /\ ~Repeats(path)
  BY TriggerAssumption
<1>2. PICK L : L = Len(path) /\ L \in Nat
  BY <1>1, LenProperties
<1>3. /\ p[1] \in Nat /\ p[2] \in Nat /\ p[3] \in Nat /\ p[1] < p[2] /\ p[2] < p[3] /\ p[3] <= L - 1
  BY <1>2 DEF Points
<1>4. /\ t.nodes = path /\ t.A = p[1] /\ t.B = p[2] /\ t.C = p[3] /\ t.spliceable = -1
      /\ t = [nodes |-> path, A |-> p[1], B |-> p[2], C |-> p[3], spliceable |-> -1]
  BY DEF State
<1>5. t \in StateType
  BY <1>1, <1>3, <1>4 DEF StateType
<1>6. size(t) = L - 1 /\ 0 <= p[1]
  BY <1>2, <1>3, <1>4 DEF size
<1>7. Sound(t)
  BY <1>1, <1>3, <1>4, <1>6 DEF Sound
<1> QED
  BY <1>4, <1>5, <1>7 DEF Good, Fresh

\* What a step must leave behind, when it makes a proposal.
LEMMA ProposedIInv ==
  ASSUME IInv, UNCHANGED weights, pc' = "decide", current' = proposal'.old,
         Good(proposal'.old), Good(proposal'.new), proposal'.splice \in BOOLEAN,
         proposal'.fwd \in Int \X Int, proposal'.bwd \in Int \X Int,
         weights = InsertWeight => Proper(proposal'.fwd) /\ Proper(proposal'.bwd),
         proposal'.splice => Spliced(proposal')
  PROVE  IInv'
<1>1. (Spliced(proposal))' <=> Spliced(proposal')
  BY DEF Spliced, InsertNode, SpliceProb, Weight, TotalWeight
<1>2. ProposalInv' /\ ProposalType'
  BY <1>1 DEF ProposalInv, ProposalType, Good
<1>3. StateInv'
  BY DEF StateInv, Started, Good
<1> QED
  BY <1>2, <1>3 DEF IInv

\* Every step keeps the invariant: proposals of both kinds, acceptances,
\* rejections, and the ways a chain may end.
THEOREM NextIInv == IInv /\ [Next]_vars => IInv'
<1> SUFFICES ASSUME IInv, [Next]_vars
             PROVE  IInv'
  OBVIOUS
<1>0. weights \in {InsertWeight} \cup ForeignWeight /\ StateInv /\ ProposalType
  BY DEF IInv
<1>1. ASSUME StartThrows, UNCHANGED weights PROVE IInv'
  BY <1>1 DEF StartThrows, IInv, StateInv, ProposalType, ProposalInv, Started
<1>2. ASSUME StartExits, UNCHANGED weights PROVE IInv'
  BY <1>2 DEF StartExits, IInv, StateInv, ProposalType, ProposalInv, Started
<1>3. ASSUME Start, UNCHANGED weights PROVE IInv'
  <2>1. pc' = "draw" /\ Good(current') /\ proposal' = proposal
    BY <1>3, StartGood DEF Start
  <2> QED
    BY <1>3, <2>1 DEF IInv, StateInv, ProposalType, ProposalInv, Started, Good
<1>4. ASSUME NEW v \in InsertNode, Splice(v), UNCHANGED weights PROVE IInv'
  <2>1. PICK s : s = Evaluated(current)
    OBVIOUS
  <2>2. pc = "draw" /\ isSpliceable(current) /\ Good(current)
    BY <1>4, <1>0 DEF Splice, StateInv, Started
  <2>3. Good(s) /\ Spliceable(s)
    BY <2>1, <2>2, EvaluatedGood
  <2>4. ~(~OnPath(s, v) /\ SpliceThrows(s, v))
    BY <1>0, <2>3, Totals, SpliceDoesNotThrow DEF Good
  <2>5. proposal' = SpliceTransition(s, v) /\ current' = proposal'.old /\ pc' = "decide"
    BY <1>4, <2>1, <2>4 DEF Splice
  <2>6. PICK r : r = proposal'
    OBVIOUS
  <2>7. /\ Good(r.old) /\ Good(r.new) /\ r.splice \in BOOLEAN
        /\ r.fwd \in Int \X Int /\ r.bwd \in Int \X Int
        /\ weights = InsertWeight => Proper(r.fwd) /\ Proper(r.bwd)
        /\ r.splice => Spliced(r)
    BY <1>0, <2>3, <2>5, <2>6, SpliceGood
  <2> QED
    BY <1>4, <2>5, <2>6, <2>7, ProposedIInv
<1>5. ASSUME NoNodeSelected, UNCHANGED weights PROVE IInv'
  BY <1>5 DEF NoNodeSelected, IInv, StateInv, ProposalType, ProposalInv, Started
<1>6. ASSUME NEW asked \in BOOLEAN, Shuffle(asked), UNCHANGED weights PROVE IInv'
  <2>1. PICK s : s = IF asked THEN Evaluated(current) ELSE current
    OBVIOUS
  <2>2. Good(current)
    BY <1>6, <1>0 DEF Shuffle, StateInv, Started
  <2>3. Good(s)
    BY <2>1, <2>2, EvaluatedGood
  <2>4. PICK p \in ShufflePoints(s) :
          proposal' = Transition(s, WithPoints(s, p), FALSE) /\ current' = proposal'.old
    BY <1>6, <2>1 DEF Shuffle
  <2>5. Good(WithPoints(s, p))
    BY <2>3, <2>4, PointsGood DEF ShufflePoints
  <2>6. PICK r : r = proposal'
    OBVIOUS
  <2>7. /\ Good(r.old) /\ Good(r.new) /\ r.splice = FALSE
        /\ r.fwd \in Int \X Int /\ r.bwd \in Int \X Int
        /\ weights = InsertWeight => Proper(r.fwd) /\ Proper(r.bwd)
    BY <1>0, <2>3, <2>4, <2>5, <2>6, ShuffleGood
  <2>8. pc' = "decide"
    BY <1>6 DEF Shuffle
  <2> QED
    BY <1>6, <2>4, <2>6, <2>7, <2>8, ProposedIInv
<1>7. ASSUME Accept, UNCHANGED weights PROVE IInv'
  <2>1. Good(proposal.new)
    BY <1>7 DEF Accept, IInv, ProposalInv
  <2> QED
    BY <1>7, <2>1, NothingTyped DEF Accept, IInv, StateInv, ProposalType, ProposalInv, Started, Good
<1>8. ASSUME Reject, UNCHANGED weights PROVE IInv'
  BY <1>8, NothingTyped DEF Reject, IInv, StateInv, ProposalType, ProposalInv, Started
<1>9. ASSUME End, UNCHANGED weights PROVE IInv'
  BY <1>9 DEF End, IInv, StateInv, ProposalType, ProposalInv, Started
<1>10. CASE UNCHANGED vars
  <2>1. (Spliced(proposal))' <=> Spliced(proposal)
    BY <1>10 DEF vars, Spliced, InsertNode, SpliceProb, Weight, TotalWeight
  <2> QED
    BY <1>10, <2>1 DEF vars, IInv, StateInv, ProposalType, ProposalInv, Started
<1> QED
  BY <1>1, <1>2, <1>3, <1>4, <1>5, <1>6, <1>7, <1>8, <1>9, <1>10 DEF Next, Step

\* The inductive invariant of the chain: its states are sound with a fresh
\* cache, and a proposed splice is a detour of a spliceable state.
THEOREM Invariance == Spec => []IInv
  BY InitIInv, NextIInv, PTL DEF Spec

-----------------------------------------------------------------------------
(* What follows.                                                           *)

\* Every reachable state of a chain is well typed.
THEOREM TypeCorrect == Spec => []TypeOK
<1>1. IInv => TypeOK
  BY DEF IInv, StateInv, ProposalType, TypeOK
<1> QED
  BY <1>1, Invariance, PTL

\* Whatever has been spliced and shuffled, the state and the proposal are
\* paths from the origin to the destination without loop, their points in order.
THEOREM PathsStaySound == Spec => []PathSound
<1>1. IInv => PathSound
  BY DEF IInv, StateInv, ProposalInv, PathSound, Good
<1> QED
  BY <1>1, Invariance, PTL

\* m_spliceable never is stale, though insertDetour sets it unasked.
THEOREM CacheStaysFresh == Spec => []CacheFresh
<1>1. IInv => CacheFresh
  BY DEF IInv, StateInv, ProposalInv, CacheFresh, Good
<1> QED
  BY <1>1, Invariance, PTL

\* A chain that has its first state never throws, on any network.
THEOREM ChainNeverThrows == Spec => []NeverThrows
<1>1. IInv => NeverThrows
  BY DEF IInv, StateInv, NeverThrows
<1> QED
  BY <1>1, Invariance, PTL

\* Every proposed splice can be undone, to the very state it came from.
THEOREM SplicesReversible == Spec => []SpliceReversible
<1>1. IInv => SpliceReversible
  <2> SUFFICES ASSUME IInv, pc = "decide", proposal.splice
               PROVE  Spliceable(proposal.new) /\ Makes(proposal.new, NodeB(proposal.old), proposal.old)
    BY DEF SpliceReversible
  <2>1. PICK s, t : s = proposal.old /\ t = proposal.new
    OBVIOUS
  <2>2. Good(s) /\ Good(t) /\ Spliced(proposal) /\ weights \in {InsertWeight} \cup ForeignWeight
    BY <2>1 DEF IInv, ProposalInv
  <2>3. PICK v \in InsertNode : ~OnPath(s, v) /\ ~NoDetour(s, v) /\ t = Detour(s, v)
    BY <2>1, <2>2 DEF Spliced
  <2>4. v \in Node /\ s \in StateType /\ Sound(s) /\ Spliceable(s) /\ ~containLoop(t)
    BY <2>1, <2>2, Totals DEF Spliced, Good, Sound, containLoop
  <2> QED
    BY <2>1, <2>3, <2>4, DetourIsSound, WayBack
<1> QED
  BY <1>1, Invariance, PTL

\* Detailed balance of the splices: the probabilities transitionLogProb gives
\* a splice to another path and its reverse are those newTransition makes them with.
THEOREM SpliceRatiosExact == Spec => []SpliceRatioExact
<1>1. IInv => SpliceRatioExact
  <2> SUFFICES ASSUME IInv, pc = "decide", proposal.splice
               PROVE  /\ SameFraction(proposal.fwd, Kernel(proposal.old, proposal.new))
                      /\ SameFraction(proposal.bwd, Kernel(proposal.new, proposal.old))
    BY DEF SpliceRatioExact
  <2>1. PICK s, t : s = proposal.old /\ t = proposal.new
    OBVIOUS
  <2>2. Good(s) /\ Good(t) /\ Spliced(proposal) /\ weights \in {InsertWeight} \cup ForeignWeight
    BY <2>1 DEF IInv, ProposalInv
  <2>3. PICK v \in InsertNode : /\ ~OnPath(s, v) /\ ~NoDetour(s, v) /\ t = Detour(s, v)
                                /\ proposal.fwd = SpliceProb(v) /\ proposal.bwd = SpliceProb(NodeB(s))
    BY <2>1, <2>2 DEF Spliced
  <2>4. v \in Node /\ s \in StateType /\ Sound(s) /\ Spliceable(s) /\ ~containLoop(t)
    BY <2>1, <2>2, Totals DEF Spliced, Good, Sound, containLoop
  <2>5. NodeB(t) = v /\ Spliceable(t) /\ Makes(t, NodeB(s), s)
    BY <2>3, <2>4, DetourIsSound, WayBack
  <2>6. Makes(s, v, t)
    <3>1. SpliceTransition(s, v) = Transition(s, t, TRUE)
      BY <2>3, <2>4 DEF SpliceTransition
    <3>2. Transition(s, t, TRUE).splice = TRUE /\ Transition(s, t, TRUE).new = t
      BY DEF Transition
    <3> QED
      BY <3>1, <3>2 DEF Makes, SamePoints
  <2>7. Kernel(s, t) = SpliceProb(v)
    BY <2>3, <2>4, <2>5, <2>6 DEF Kernel
  <2>8. SameFraction(SpliceProb(v), SpliceProb(v))
    BY DEF SameFraction
  <2>9. SameFraction(SpliceProb(NodeB(s)), Kernel(t, s))
    <3>1. CASE NodeB(s) \in InsertNode
      <4>1. Kernel(t, s) = SpliceProb(NodeB(s))
        BY <3>1, <2>5 DEF Kernel
      <4> QED
        BY <4>1 DEF SameFraction
    <3>2. CASE NodeB(s) \notin InsertNode
      <4>1. Kernel(t, s) = <<0, 1>>
        BY <3>2 DEF Kernel
      <4>2. PICK d : d = TotalWeight /\ d \in Nat
        BY <2>2, Totals
      <4>3. SpliceProb(NodeB(s)) = <<8 * 0, 10 * d>>
        BY <3>2, <4>2 DEF SpliceProb, Weight
      <4>4. SameFraction(<<8 * 0, 10 * d>>, <<0, 1>>)
        BY <4>2 DEF SameFraction
      <4> QED
        BY <4>1, <4>3, <4>4
    <3> QED
      BY <3>1, <3>2
  <2> QED
    BY <2>1, <2>3, <2>7, <2>8, <2>9
<1> QED
  BY <1>1, Invariance, PTL

\* Both recorded probabilities are positive and at most one, with the weights
\* of the chain's own network: no logarithm of zero, no unsigned wrap.
THEOREM RecordedAlwaysProper == Spec => []RecordedProper
<1>1. IInv => RecordedProper
  BY DEF IInv, ProposalInv, RecordedProper, Proper
<1> QED
  BY <1>1, Invariance, PTL

=============================================================================
