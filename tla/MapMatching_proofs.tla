------------------------ MODULE MapMatching_proofs -------------------------
(***************************************************************************)
(* What holds of every program pmm, for all extracts, trips and            *)
(* parameters. Of the networks: lines of public transport end at stops and *)
(* are not cut between them. Of matching: every variable keeps to its      *)
(* type, no point gets lost, the domains hold arcs near their points, the  *)
(* files agree with the points they are for, and every candidate can be    *)
(* travelled.                                                              *)
(*                                                                         *)
(* The searches, explorations and updates are loops. First come the lemmas *)
(* about loops over finite sets; then those of what each loop makes; then  *)
(* the invariant MatchInv, and a lemma for each step that it is kept; last *)
(* SoundInv, for the candidates: what the searches and joints make of      *)
(* roads that can be travelled.                                            *)
(***************************************************************************)
EXTENDS MapMatching, LeastNumber, SequenceTheorems

-----------------------------------------------------------------------------
(* Loops over finite sets of numbers, as InOrder and FoldLeft run them: what   *)
(* is carried, f, after the numbers of each set, the greatest last.            *)

\* A finite set of numbers has a greatest.
LEMMA GreatestOne ==
  ASSUME NEW S \in SUBSET Nat, IsFiniteSet(S), S # {}
  PROVE  Max(S) \in S /\ \A k \in S : k <= Max(S)
<1> DEFINE above(k) == {j \in S : k < j}
           sizes == {Cardinality(above(k)) : k \in S}
<1>1. \A k \in S : IsFiniteSet(above(k)) /\ Cardinality(above(k)) \in Nat
  BY FS_Subset, FS_CardinalityType
<1>2. PICK least \in sizes : \A n \in sizes : least <= n
  <2>1. sizes \in SUBSET Nat /\ sizes # {}
    BY <1>1
  <2> HIDE DEF sizes
  <2> QED
    BY <2>1, LeastOfNaturals
<1>3. PICK m \in S : least = Cardinality(above(m))
  BY <1>2
<1>4. \A k \in S : m >= k
  <2> SUFFICES ASSUME NEW k \in S, ~(m >= k)
               PROVE  FALSE
    OBVIOUS
  <2>1. m \in Nat /\ k \in Nat /\ m < k
    OBVIOUS
  <2>2. above(k) \subseteq above(m)
    <3> SUFFICES ASSUME NEW j \in S, k < j
                 PROVE  m < j
      OBVIOUS
    <3> QED
      BY <2>1, j \in Nat
  <2>3. k \in above(m) /\ k \notin above(k)
    BY <2>1
  <2>4. Cardinality(above(k)) <= Cardinality(above(m)) /\ Cardinality(above(k)) # Cardinality(above(m))
    <3> HIDE DEF above
    <3> QED
      BY <1>1, <2>2, <2>3, FS_Subset
  <2>5. Cardinality(above(m)) <= Cardinality(above(k))
    BY <1>2, <1>3
  <2>6. Cardinality(above(m)) \in Nat /\ Cardinality(above(k)) \in Nat
    BY <1>1
  <2> QED
    BY ONLY <2>4, <2>5, <2>6
<1>5. Max(S) \in S /\ \A k \in S : Max(S) >= k
  BY <1>4 DEF Max
<1>6. PICK x \in S : x = Max(S)
  BY <1>5
<1>7. \A k \in S : k <= x
  <2> SUFFICES ASSUME NEW k \in S
               PROVE  k <= x
    OBVIOUS
  <2>1. x >= k /\ x \in Nat /\ k \in Nat
    BY <1>5, <1>6
  <2> QED
    BY ONLY <2>1
<1> QED
  BY <1>6, <1>7

\* Without its greatest number a set is smaller.
LEMMA LessOne ==
  ASSUME NEW D \in SUBSET Nat, IsFiniteSet(D), NEW S \in SUBSET D
  PROVE  /\ Cardinality(S) \in 0 .. Cardinality(D) /\ Cardinality(D) \in Nat
         /\ S # {} => /\ Max(S) \in S /\ S \ {Max(S)} \in SUBSET D
                      /\ Cardinality(S) \in 1 .. Cardinality(D)
                      /\ Cardinality(S \ {Max(S)}) = Cardinality(S) - 1
<1>1. IsFiniteSet(S) /\ Cardinality(S) \in Nat /\ Cardinality(S) <= Cardinality(D) /\ Cardinality(D) \in Nat
  BY FS_Subset, FS_CardinalityType
<1>2. ASSUME S # {}
      PROVE  Max(S) \in S /\ Cardinality(S \ {Max(S)}) = Cardinality(S) - 1 /\ Cardinality(S) # 0
  <2>1. Max(S) \in S
    BY <1>1, <1>2, S \in SUBSET Nat, GreatestOne
  <2> QED
    BY <1>1, <1>2, <2>1, FS_RemoveElement, FS_EmptySet
<1>3. PICK s, d : s = Cardinality(S) /\ d = Cardinality(D)
  OBVIOUS
<1>4. s \in Nat /\ d \in Nat /\ s <= d
  BY <1>1, <1>3
<1>5. s \in 0 .. d /\ (s # 0 => s \in 1 .. d)
  BY ONLY <1>4
<1>6. S \ {Max(S)} \in SUBSET D
  OBVIOUS
<1> QED
  BY <1>2, <1>3, <1>4, <1>5, <1>6

\* What each number keeps in V, stays in V.
LEMMA FoldStays ==
  ASSUME NEW D \in SUBSET Nat, IsFiniteSet(D), NEW V, NEW f, f[{}] \in V,
         \A S \in SUBSET D : S # {} /\ f[S \ {Max(S)}] \in V => f[S] \in V
  PROVE  f[D] \in V
<1>1. PICK K \in Nat : K = Cardinality(D)
  BY LessOne
<1> DEFINE Z == {n \in 0 .. K : \A S \in SUBSET D : Cardinality(S) = n => f[S] \in V}
<1>2. 0 \in Z
  <2> SUFFICES ASSUME NEW S \in SUBSET D, Cardinality(S) = 0
               PROVE  f[S] \in V
    BY <1>1
  <2>1. S = {}
    BY FS_Subset, FS_EmptySet
  <2> QED
    BY <2>1
<1>3. ASSUME NEW n \in 1 .. K, n - 1 \in Z
      PROVE  n \in Z
  <2>1. n \in 0 .. K /\ n # 0
    BY <1>1
  <2> SUFFICES ASSUME NEW S \in SUBSET D, Cardinality(S) = n
               PROVE  f[S] \in V
    BY <2>1
  <2>2. S # {}
    BY <2>1, FS_EmptySet
  <2>3. S \ {Max(S)} \in SUBSET D /\ Cardinality(S \ {Max(S)}) = n - 1
    BY <2>2, LessOne
  <2>4. f[S \ {Max(S)}] \in V
    BY <1>3, <2>3
  <2> QED
    BY <2>2, <2>4
<1>4. K \in Z
  <2>1. Z \in SUBSET (0 .. K) /\ K \in 0 .. K
    BY <1>1
  <2> HIDE DEF Z
  <2> QED
    BY <1>2, <1>3, <2>1, AllNumbers
<1> QED
  BY <1>1, <1>4

\* f carries what op makes of start.
Carried(f, op, start, D) ==
  \A S \in SUBSET D : f[S] = IF S = {} THEN start ELSE op[<<f[S \ {Max(S)}], Max(S)>>]

\* Such a loop can be run, whatever op is.
LEMMA FoldExists ==
  ASSUME NEW D \in SUBSET Nat, IsFiniteSet(D), NEW V, NEW start \in V, NEW op \in [V \X D -> V]
  PROVE  \E f \in [SUBSET D -> V] : Carried(f, op, start, D)
<1>1. PICK K \in Nat : K = Cardinality(D)
  BY LessOne
<1> DEFINE Upto(n, g) == \A S \in SUBSET D : Cardinality(S) <= n =>
             /\ g[S] \in V
             /\ g[S] = IF S = {} THEN start ELSE op[<<g[S \ {Max(S)}], Max(S)>>]
           Z == {n \in 0 .. K : \E g : Upto(n, g)}
<1>2. 0 \in Z
  <2>1. PICK g : g = [S \in SUBSET D |-> start]
    OBVIOUS
  <2>2. \A S \in SUBSET D : Cardinality(S) <= 0 => S = {}
    <3> SUFFICES ASSUME NEW S \in SUBSET D, Cardinality(S) <= 0
                 PROVE  S = {}
      OBVIOUS
    <3>1. Cardinality(S) \in Nat /\ IsFiniteSet(S)
      BY LessOne, FS_Subset
    <3>2. Cardinality(S) = 0
      BY <3>1
    <3> QED
      BY <3>1, <3>2, FS_EmptySet
  <2>3. Upto(0, g)
    BY <2>1, <2>2
  <2>4. 0 \in 0 .. K
    BY <1>1
  <2> HIDE DEF Upto
  <2> QED
    BY <2>3, <2>4
<1>3. ASSUME NEW n \in 1 .. K, n - 1 \in Z
      PROVE  n \in Z
  <2>1. PICK g : Upto(n - 1, g)
    BY <1>3
  <2>2. PICK h : h = [S \in SUBSET D |-> IF S = {} THEN start ELSE op[<<g[S \ {Max(S)}], Max(S)>>]]
    OBVIOUS
  <2>3. n \in Nat /\ n \in 0 .. K
    BY <1>1
  <2>4. ASSUME NEW S \in SUBSET D, Cardinality(S) <= n - 1
        PROVE  h[S] = g[S]
    BY <2>1, <2>2, <2>4
  <2>5. ASSUME NEW S \in SUBSET D, Cardinality(S) <= n, S # {}
        PROVE  /\ Max(S) \in D /\ S \ {Max(S)} \in SUBSET D
               /\ Cardinality(S \ {Max(S)}) <= n - 1
    <3>1. PICK s, d, t : s = Cardinality(S) /\ d = Cardinality(D) /\ t = Cardinality(S \ {Max(S)})
      OBVIOUS
    <3>2. Max(S) \in S /\ S \ {Max(S)} \in SUBSET D /\ s \in 1 .. d /\ t = s - 1 /\ s <= n /\ d \in Nat
      BY <2>5, <3>1, LessOne
    <3>3. t <= n - 1
      BY ONLY <2>3, <3>2
    <3> QED
      BY <3>1, <3>2, <3>3
  <2>6. Upto(n, h)
    <3> SUFFICES ASSUME NEW S \in SUBSET D, Cardinality(S) <= n
                 PROVE  /\ h[S] \in V
                        /\ h[S] = IF S = {} THEN start ELSE op[<<h[S \ {Max(S)}], Max(S)>>]
      OBVIOUS
    <3>1. CASE S = {}
      BY <2>2, <3>1
    <3>2. CASE S # {}
      <4>1. PICK T \in SUBSET D, x \in D : T = S \ {Max(S)} /\ x = Max(S)
        BY <2>5, <3>2
      <4>2. g[T] \in V /\ h[T] = g[T]
        BY <2>1, <2>4, <2>5, <3>2, <4>1
      <4>3. h[S] = op[<<g[T], x>>]
        BY <2>2, <3>2, <4>1
      <4>4. op[<<g[T], x>>] \in V
        BY <4>2
      <4> QED
        BY <3>2, <4>1, <4>2, <4>3, <4>4
    <3> QED
      BY <3>1, <3>2
  <2> HIDE DEF Upto
  <2> QED
    BY <2>3, <2>6
<1>4. K \in Z
  <2>1. Z \in SUBSET (0 .. K) /\ K \in 0 .. K
    BY <1>1
  <2> HIDE DEF Z
  <2> QED
    BY <1>2, <1>3, <2>1, AllNumbers
<1>5. PICK g : Upto(K, g)
  BY <1>4
<1>6. ASSUME NEW S \in SUBSET D
      PROVE  Cardinality(S) <= K
  <2>1. PICK s : s = Cardinality(S)
    OBVIOUS
  <2>2. s \in 0 .. K
    BY <1>1, <2>1, LessOne
  <2>3. s <= K
    BY ONLY <2>2, K \in Nat
  <2> QED
    BY <2>1, <2>3
<1>7. PICK f : f = [S \in SUBSET D |-> g[S]]
  OBVIOUS
<1>8. f \in [SUBSET D -> V]
  BY <1>5, <1>6, <1>7
<1>9. Carried(f, op, start, D)
  <2> SUFFICES ASSUME NEW S \in SUBSET D
               PROVE  f[S] = IF S = {} THEN start ELSE op[<<f[S \ {Max(S)}], Max(S)>>]
    BY DEF Carried
  <2>1. S \ {Max(S)} \in SUBSET D
    OBVIOUS
  <2>2. f[S] = g[S] /\ f[S \ {Max(S)}] = g[S \ {Max(S)}]
    BY <1>7, <2>1
  <2> QED
    BY <1>5, <1>6, <2>2
<1> QED
  BY <1>8, <1>9

-----------------------------------------------------------------------------
(* The networks.                                                           *)

\* Whatever the ways and relations of an extract, what is read are arcs.
LEMMA ReadsArcs ==
  ASSUME osm \in Extract
  PROVE  /\ \A w \in DOMAIN osm.ways : WayArcs(w) \in SUBSET Arc
         /\ \A arcs \in SUBSET Arc : Reversed(arcs) \in SUBSET Arc
         /\ \A m : RoadArcs(m) \in SUBSET Arc
         /\ \A r : Incidents(r) \in SUBSET Arc
         /\ \A r : StopNodes(r) \in SUBSET Nat /\ StopNodes(r) \in SUBSET Node /\ IsFiniteSet(StopNodes(r))
<1>1. ASSUME NEW w \in DOMAIN osm.ways
      PROVE  WayArcs(w) \in SUBSET Arc
  <2> SUFFICES ASSUME NEW a \in WayArcs(w)
               PROVE  a \in Arc
    OBVIOUS
  <2>1. osm.known \subseteq Node
    BY ExtractAssumption
  <2>2. a \in osm.known \X osm.known
    BY DEF WayArcs
  <2> QED
    BY <2>1, <2>2 DEF Arc
<1>2. ASSUME NEW arcs \in SUBSET Arc
      PROVE  Reversed(arcs) \in SUBSET Arc
  BY DEF Reversed, Arc
<1>3. ASSUME NEW m
      PROVE  RoadArcs(m) \in SUBSET Arc
  <2> SUFFICES ASSUME NEW a \in RoadArcs(m)
               PROVE  a \in Arc
    OBVIOUS
  <2>1. PICK w \in DOMAIN osm.ways : a \in WayArcs(w) \cup Reversed(WayArcs(w))
    BY DEF RoadArcs
  <2> QED
    BY <1>1, <1>2, <2>1
<1>4. ASSUME NEW r
      PROVE  Incidents(r) \in SUBSET Arc
  <2> SUFFICES ASSUME NEW d, NEW a \in RouteArcs(r, d)
               PROVE  a \in Arc
    BY DEF Incidents
  <2>1. PICK w \in DOMAIN osm.ways : a \in WayArcs(w) \cup Reversed(WayArcs(w))
    BY DEF RouteArcs
  <2> QED
    BY <1>1, <1>2, <2>1
<1>5. ASSUME NEW r
      PROVE  StopNodes(r) \in SUBSET Nat /\ StopNodes(r) \in SUBSET Node /\ IsFiniteSet(StopNodes(r))
  <2>1. StopNodes(r) \subseteq Node
    <3>1. StopNodes(r) \subseteq osm.known
      BY DEF StopNodes
    <3>2. osm.known \subseteq Node
      BY ExtractAssumption
    <3> QED
      BY <3>1, <3>2
  <2>2. Node \subseteq Nat /\ IsFiniteSet(Node)
    BY ExtractAssumption
  <2> QED
    BY <2>1, <2>2, FS_Subset
<1> QED
  BY <1>1, <1>2, <1>3, <1>4, <1>5

Arrivals == [arrivals : SUBSET (STRING \X Arc), name : [Node -> STRING]]

\* A stop is found on its line, or beside it.
LEMMA StopFound ==
  ASSUME osm \in Extract, NEW r, NEW found \in Arrivals, NEW n \in Node
  PROVE  FindStop(r, found, n) \in Arrivals
<1> DEFINE on == OnRoute(r, n)
           beside == Passing(r, n)
           nearest == CHOOSE b \in beside : \A c \in beside : b.distance <= c.distance
<1>1. Incidents(r) \in SUBSET Arc
  BY ReadsArcs
<1>2. on \in SUBSET Arc
  BY <1>1 DEF OnRoute
<1>3. \A b \in beside : b.arc \in Arc
  BY <1>1 DEF Passing
<1>4. found.name[n] \in STRING /\ found.arrivals \in SUBSET (STRING \X Arc) /\ found.name \in [Node -> STRING]
  BY DEF Arrivals
<1>5. CASE on # {}
  <2>1. FindStop(r, found, n) = [found EXCEPT !.arrivals = @ \cup ({found.name[n]} \X on)]
    BY <1>5 DEF FindStop
  <2>2. {found.name[n]} \X on \in SUBSET (STRING \X Arc)
    BY <1>2, <1>4
  <2> HIDE DEF on
  <2> QED
    BY <1>4, <2>1, <2>2 DEF Arrivals
<1>6. CASE on = {} /\ beside # {}
  <2>1. FindStop(r, found, n) =
          [arrivals |-> found.arrivals \cup {<<found.name[n], nearest.arc>>},
           name |-> [found.name EXCEPT ![nearest.arc[2]] = found.name[n]]]
    BY <1>6 DEF FindStop
  <2>2. nearest.arc \in Arc
    <3> DEFINE far == {b.distance : b \in beside}
    <3>1. far \in SUBSET Nat /\ far # {}
      BY <1>6, ExtractAssumption DEF Passing
    <3>2. PICK least \in far : \A k \in far : least <= k
      <4> HIDE DEF far
      <4> QED
        BY <3>1, LeastOfNaturals
    <3>3. \E b \in beside : \A c \in beside : b.distance <= c.distance
      BY <3>2
    <3>4. nearest \in beside
      BY <3>3
    <3> QED
      BY <1>3, <3>4
  <2> HIDE DEF nearest, on, beside
  <2> QED
    BY <1>4, <2>1, <2>2 DEF Arrivals, Arc
<1>7. CASE on = {} /\ beside = {}
  BY <1>7 DEF FindStop
<1> QED
  BY <1>5, <1>6, <1>7

\* The loop over the stops of a line, with the stops found so far.
Finding(g, r, names) ==
  /\ g[{}] = [arrivals |-> {}, name |-> names]
  /\ \A S \in SUBSET StopNodes(r) : S # {} =>
       /\ Max(S) \in S /\ S \ {Max(S)} \in SUBSET StopNodes(r)
       /\ g[S] = FindStop(r, g[S \ {Max(S)}], Max(S))

LEMMA StopsLoop ==
  ASSUME osm \in Extract, NEW r, NEW names \in [Node -> STRING]
  PROVE  \E g : Finding(g, r, names) /\ FindStopsIncomingLinks(r, names) = g[StopNodes(r)]
<1> DEFINE start == [arrivals |-> {}, name |-> names]
           D == StopNodes(r)
           Is(g) == g = [s \in SUBSET D |-> IF s = {} THEN start
                          ELSE LET x == Max(s) IN FindStop(r, g[s \ {x}], x)]
           op == [p \in Arrivals \X D |-> FindStop(r, p[1], p[2])]
<1>1. D \in SUBSET Nat /\ D \in SUBSET Node /\ IsFiniteSet(D)
  BY ReadsArcs
<1>2. start \in Arrivals
  BY DEF Arrivals
<1>3. op \in [Arrivals \X D -> Arrivals]
  <2>1. \A p \in Arrivals \X D : FindStop(r, p[1], p[2]) \in Arrivals
    BY <1>1, StopFound
  <2> QED
    BY <2>1
<1>4. PICK f \in [SUBSET D -> Arrivals] : Carried(f, op, start, D)
  <2> HIDE DEF D, op, start
  <2> QED
    BY <1>1, <1>2, <1>3, FoldExists
<1>5. \A S \in SUBSET D : S # {} => Max(S) \in S /\ S \ {Max(S)} \in SUBSET D
  <2> HIDE DEF D
  <2> QED
    BY <1>1, LessOne
<1>6. Is(f)
  <2>1. \A S \in SUBSET D : f[S] = IF S = {} THEN start ELSE FindStop(r, f[S \ {Max(S)}], Max(S))
    <3> SUFFICES ASSUME NEW S \in SUBSET D
                 PROVE  f[S] = IF S = {} THEN start ELSE FindStop(r, f[S \ {Max(S)}], Max(S))
      OBVIOUS
    <3>1. CASE S = {}
      BY <1>4, <3>1 DEF Carried
    <3>2. CASE S # {}
      <4>1. PICK x \in D, T \in SUBSET D : x = Max(S) /\ T = S \ {Max(S)}
        BY <1>5, <3>2
      <4>2. f[T] \in Arrivals /\ f[S] = op[<<f[T], x>>]
        BY <1>4, <3>2, <4>1 DEF Carried
      <4> QED
        BY <3>2, <4>1, <4>2
    <3> QED
      BY <3>1, <3>2
  <2>2. f = [S \in SUBSET D |-> f[S]]
    OBVIOUS
  <2> QED
    BY <2>1, <2>2
<1>7. Is(CHOOSE g : Is(g))
  <2> HIDE DEF Is
  <2> QED
    BY <1>6
<1>8. PICK g : g = CHOOSE h : Is(h)
  OBVIOUS
<1>9. FindStopsIncomingLinks(r, names) = g[D]
  BY <1>8 DEF FindStopsIncomingLinks, InOrder, MapThenFoldSet
<1>10. g[{}] = start
  BY <1>7, <1>8
<1>11. ASSUME NEW S \in SUBSET D, S # {}
       PROVE  g[S] = FindStop(r, g[S \ {Max(S)}], Max(S))
  BY <1>7, <1>8, <1>11
<1>12. Finding(g, r, names)
  BY <1>5, <1>10, <1>11 DEF Finding
<1> QED
  BY <1>9, <1>12

\* So are the stops of a whole line.
LEMMA StopsFound ==
  ASSUME osm \in Extract, NEW r, NEW names \in [Node -> STRING]
  PROVE  FindStopsIncomingLinks(r, names) \in Arrivals
<1>1. PICK g : Finding(g, r, names) /\ FindStopsIncomingLinks(r, names) = g[StopNodes(r)]
  BY StopsLoop
<1>2. StopNodes(r) \in SUBSET Nat /\ StopNodes(r) \in SUBSET Node /\ IsFiniteSet(StopNodes(r))
  BY ReadsArcs
<1>3. g[{}] \in Arrivals
  BY <1>1 DEF Finding, Arrivals
<1>4. ASSUME NEW S \in SUBSET StopNodes(r), S # {}, g[S \ {Max(S)}] \in Arrivals
      PROVE  g[S] \in Arrivals
  BY <1>1, <1>2, <1>4, StopFound DEF Finding
<1> QED
  BY <1>1, <1>2, <1>3, <1>4, FoldStays

\* Routes never stay at a node.
Routes == {s \in Seq(Node) : s # <<>> /\ \A k \in 1 .. Len(s) - 1 : s[k] # s[k+1]}

\* A route as RoutesFrom follows it.
Follows(into, incidents, halts, s) ==
  /\ s \in Seq(Node) /\ s # <<>> /\ s[1] = into[2]
  /\ \A k \in 1 .. Len(s) - 1 : <<s[k], s[k+1]>> \in incidents
  /\ \A k \in 1 .. Len(s) : \A l \in 1 .. k - 1 : s[l] # s[k]
  /\ Len(s) > 1 => s[2] # into[1]
  /\ \A k \in 1 .. Len(s) - 2 : <<s[k], s[k+1]>> \notin halts

\* A route that goes on by one arc.
LEMMA FollowsOn ==
  ASSUME NEW into \in Arc, NEW incidents \in SUBSET Arc, NEW halts,
         NEW s, Follows(into, incidents, halts, s), NEW b \in incidents,
         b[1] = s[Len(s)], ~Contains(s, b[2]), Len(s) = 1 => b # <<into[2], into[1]>>,
         Len(s) > 1 => LastArc(s) \notin halts
  PROVE  /\ Follows(into, incidents, halts, Append(s, b[2]))
         /\ Len(Append(s, b[2])) = Len(s) + 1
<1>1. b \in Node \X Node /\ b = <<b[1], b[2]>> /\ s \in Seq(Node) /\ s # <<>>
  BY DEF Arc, Follows
<1>2. PICK t, n : t = Append(s, b[2]) /\ n = Len(s)
  OBVIOUS
<1>3. /\ t \in Seq(Node) /\ Len(t) = n + 1 /\ n \in Nat \ {0}
      /\ \A k \in 1 .. n : t[k] = s[k]
      /\ t[n + 1] = b[2]
  BY <1>1, <1>2, AppendProperties, EmptySeq
<1>4. t # <<>>
  BY <1>3, EmptySeq
<1>5. ASSUME NEW k \in 1 .. n
      PROVE  <<t[k], t[k+1]>> \in incidents
  <2>1. CASE k = n
    BY <1>1, <1>2, <1>3, <2>1
  <2>2. CASE k # n
    <3>1. k \in 1 .. n - 1 /\ k + 1 \in 1 .. n
      BY <1>3, <2>2
    <3>2. <<s[k], s[k+1]>> \in incidents
      BY <1>2, <3>1 DEF Follows
    <3> QED
      BY <1>3, <3>1, <3>2
  <2> QED
    BY <2>1, <2>2
<1>6. ASSUME NEW k \in 1 .. n + 1, NEW l \in 1 .. k - 1
      PROVE  t[l] # t[k]
  <2>1. l \in 1 .. n /\ t[l] = s[l]
    BY <1>3
  <2>2. CASE k = n + 1
    BY <1>2, <1>3, <2>1, <2>2 DEF Contains
  <2>3. CASE k # n + 1
    <3>1. k \in 1 .. n
      BY <1>3, <2>3
    <3>2. s[l] # s[k]
      BY <1>2, <3>1 DEF Follows
    <3> QED
      BY <1>3, <2>1, <3>1, <3>2
  <2> QED
    BY <2>2, <2>3
<1>7. t[2] # into[1]
  <2>1. CASE n = 1
    <3>1. b[1] = into[2] /\ t[2] = b[2]
      BY <1>2, <1>3, <2>1 DEF Follows
    <3> QED
      BY <1>1, <1>2, <2>1, <3>1
  <2>2. CASE n # 1
    <3>1. 2 \in 1 .. n /\ n > 1
      BY <1>3, <2>2
    <3> QED
      BY <1>2, <1>3, <3>1 DEF Follows
  <2> QED
    BY <2>1, <2>2
<1>8. ASSUME NEW k \in 1 .. n - 1
      PROVE  <<t[k], t[k+1]>> \notin halts
  <2>1. k \in 1 .. n /\ k + 1 \in 1 .. n /\ n > 1
    BY <1>3
  <2>2. t[k] = s[k] /\ t[k+1] = s[k+1]
    BY <1>3, <2>1
  <2>3. CASE k = n - 1
    <3>1. k + 1 = n
      BY <1>3, <2>3
    <3>2. <<s[k], s[k+1]>> \notin halts
      BY <1>2, <2>1, <2>3, <3>1 DEF LastArc
    <3> QED
      BY <2>2, <3>2
  <2>4. CASE k # n - 1
    <3>1. k \in 1 .. n - 2
      BY <1>3, <2>4
    <3> QED
      BY <1>2, <2>2, <3>1 DEF Follows
  <2> QED
    BY <2>3, <2>4
<1>9. t[1] = into[2]
  <2>1. 1 \in 1 .. n
    BY <1>3
  <2> QED
    BY <1>3, <2>1 DEF Follows
<1>10. Len(t) - 1 = n /\ Len(t) - 2 = n - 1
  BY <1>3
<1>11. Follows(into, incidents, halts, t)
  BY <1>3, <1>4, <1>5, <1>6, <1>7, <1>8, <1>9, <1>10 DEF Follows
<1> QED
  BY <1>2, <1>3, <1>11

\* A route is one that went on by one arc.
LEMMA FollowsBack ==
  ASSUME NEW into \in Arc, NEW incidents \in SUBSET Arc, NEW halts,
         NEW t, Follows(into, incidents, halts, t), Len(t) > 1
  PROVE  \E s : \E b \in incidents :
           /\ Follows(into, incidents, halts, s) /\ Len(s) = Len(t) - 1 /\ t = Append(s, b[2])
           /\ b[1] = s[Len(s)] /\ ~Contains(s, b[2])
           /\ Len(s) = 1 => b # <<into[2], into[1]>>
           /\ Len(s) > 1 => LastArc(s) \notin halts
<1>1. t \in Seq(Node) /\ t # <<>>
  BY DEF Follows
<1>2. PICK n \in Nat \ {0} : Len(t) = n + 1
  <2>1. PICK m \in Nat : m = Len(t) /\ m > 1
    BY <1>1, LenProperties
  <2>2. m - 1 \in Nat \ {0} /\ m = (m - 1) + 1
    BY <2>1
  <2> QED
    BY <2>1, <2>2
<1>3. \A k \in 1 .. n + 1 : t[k] \in Node
  BY <1>1, <1>2, ElementOfSeq
<1>4. PICK s : s = SubSeq(t, 1, n)
  OBVIOUS
<1>5. s \in Seq(Node) /\ Len(s) = n /\ \A k \in 1 .. n : s[k] = t[k]
  <2>1. \A k \in 1 .. n : t[k] \in Node
    BY <1>2, <1>3
  <2>2. /\ SubSeq(t, 1, n) \in Seq(Node)
        /\ Len(SubSeq(t, 1, n)) = IF 1 <= n THEN n - 1 + 1 ELSE 0
        /\ \A k \in 1 .. n - 1 + 1 : SubSeq(t, 1, n)[k] = t[1 + k - 1]
    BY <2>1, SubSeqProperties
  <2>3. \A k \in 1 .. n : k \in 1 .. n - 1 + 1 /\ 1 + k - 1 = k
    OBVIOUS
  <2>4. (IF 1 <= n THEN n - 1 + 1 ELSE 0) = n
    OBVIOUS
  <2> QED
    BY <1>4, <2>2, <2>3, <2>4
<1>6. s # <<>>
  BY <1>5, EmptySeq
<1>7. PICK b : b = <<t[n], t[n+1]>>
  OBVIOUS
<1>8. b \in incidents /\ b[1] = t[n] /\ b[2] = t[n+1] /\ b[2] \in Node
  <2>1. n \in 1 .. Len(t) - 1 /\ n + 1 \in 1 .. n + 1
    BY <1>2
  <2> QED
    BY <1>3, <1>7, <2>1 DEF Follows
<1>9. b[1] = s[Len(s)]
  <2>1. n \in 1 .. n
    OBVIOUS
  <2> QED
    BY <1>5, <1>8, <2>1
<1>10. t = Append(s, b[2])
  <2>1. /\ Append(s, b[2]) \in Seq(Node) /\ Len(Append(s, b[2])) = n + 1
        /\ \A k \in 1 .. n : Append(s, b[2])[k] = s[k]
        /\ Append(s, b[2])[n + 1] = b[2]
    BY <1>5, <1>8, AppendProperties
  <2>2. ASSUME NEW k \in 1 .. Len(t)
        PROVE  t[k] = Append(s, b[2])[k]
    <3>1. k \in 1 .. n \/ k = n + 1
      BY <1>2
    <3> QED
      BY <1>5, <1>8, <2>1, <3>1
  <2> QED
    BY <1>1, <1>2, <2>1, <2>2, SeqEqual
<1>11. ~Contains(s, b[2])
  <2> SUFFICES ASSUME NEW l \in 1 .. n, s[l] = b[2]
               PROVE  FALSE
    BY <1>5 DEF Contains
  <2>1. n + 1 \in 1 .. Len(t) /\ l \in 1 .. (n + 1) - 1
    BY <1>2
  <2>2. t[l] # t[n+1]
    BY <2>1 DEF Follows
  <2> QED
    BY <1>5, <1>8, <2>2
<1>12. n = 1 => b # <<into[2], into[1]>>
  <2>1. t[2] # into[1]
    BY DEF Follows
  <2> QED
    BY <1>7, <2>1
<1>13. n > 1 => LastArc(s) \notin halts
  <2> SUFFICES ASSUME n > 1
               PROVE  <<s[n-1], s[n]>> \notin halts
    BY <1>5 DEF LastArc
  <2>1. n - 1 \in 1 .. n /\ n \in 1 .. n /\ n - 1 \in 1 .. Len(t) - 2 /\ (n - 1) + 1 = n
    BY <1>2
  <2> QED
    BY <1>5, <2>1 DEF Follows
<1>14. Follows(into, incidents, halts, s)
  <2>1. /\ \A k \in 1 .. n - 1 : k \in 1 .. Len(t) - 1 /\ k \in 1 .. n /\ k + 1 \in 1 .. n
        /\ \A k \in 1 .. n : k \in 1 .. Len(t) /\ \A l \in 1 .. k - 1 : l \in 1 .. n
        /\ n > 1 => 2 \in 1 .. n
        /\ 1 \in 1 .. n
        /\ \A k \in 1 .. n - 2 : k \in 1 .. Len(t) - 2 /\ k \in 1 .. n /\ k + 1 \in 1 .. n
    BY <1>2
  <2>2. \A k \in 1 .. n - 1 : <<s[k], s[k+1]>> \in incidents
    BY <1>5, <2>1 DEF Follows
  <2>3. \A k \in 1 .. n : \A l \in 1 .. k - 1 : s[l] # s[k]
    <3> SUFFICES ASSUME NEW k \in 1 .. n, NEW l \in 1 .. k - 1
                 PROVE  s[l] # s[k]
      OBVIOUS
    <3>1. t[l] # t[k]
      BY <2>1 DEF Follows
    <3> QED
      BY <1>5, <2>1, <3>1
  <2>4. n > 1 => s[2] # into[1]
    BY <1>5, <2>1 DEF Follows
  <2>5. \A k \in 1 .. n - 2 : <<s[k], s[k+1]>> \notin halts
    BY <1>5, <2>1 DEF Follows
  <2>6. s[1] = into[2]
    BY <1>5, <2>1 DEF Follows
  <2> QED
    BY <1>5, <1>6, <2>2, <2>3, <2>4, <2>5, <2>6 DEF Follows
<1>15. Len(s) = Len(t) - 1
  BY <1>2, <1>5
<1> QED
  BY <1>5, <1>8, <1>9, <1>10, <1>11, <1>12, <1>13, <1>14, <1>15

\* These routes are what RoutesFrom has, up to as many arcs as there are nodes.
LEMMA RoutesFollow ==
  ASSUME NEW into \in Arc, NEW incidents \in SUBSET Arc, NEW halts
  PROVE  \A s : s \in RoutesFrom(into, incidents, halts) <=>
           Follows(into, incidents, halts, s) /\ Len(s) \in 2 .. Cardinality(Node) + 1
<1> DEFINE K == Cardinality(Node)
           Longer(s) == {Append(s, a[2]) : a \in {b \in incidents :
                           /\ b[1] = s[Len(s)]
                           /\ ~Contains(s, b[2])
                           /\ ~(Len(s) = 1 /\ b = <<into[2], into[1]>>)}}
           More(k, S) == UNION {Longer(s) : s \in {t \in S : k = 1 \/ LastArc(t) \notin halts}}
           Is(g) == g = [k \in 0 .. K |-> IF k = 0 THEN {<<into[2]>>} ELSE More(k, g[k-1])]
           Those(k) == {s \in Seq(Node) : Follows(into, incidents, halts, s) /\ Len(s) = k + 1}
<1>1. K \in Nat /\ into[2] \in Node
  BY ExtractAssumption, FS_CardinalityType DEF Arc
<1>2. Those(0) = {<<into[2]>>}
  <2>1. PICK o : o = <<into[2]>>
    OBVIOUS
  <2>2. o \in Seq(Node) /\ Len(o) = 1 /\ o[1] = into[2] /\ o # <<>>
    BY <1>1, <2>1
  <2>3. Follows(into, incidents, halts, o)
    <3>1. 1 .. Len(o) - 1 = {} /\ 1 .. Len(o) - 2 = {} /\ \A k \in 1 .. Len(o) : 1 .. k - 1 = {}
      BY <2>2
    <3> QED
      BY <2>2, <3>1 DEF Follows
  <2>4. ASSUME NEW s \in Seq(Node), Follows(into, incidents, halts, s), Len(s) = 1
        PROVE  s = o
    <3>1. \A k \in 1 .. Len(s) : s[k] = o[k]
      BY <2>2, <2>4 DEF Follows
    <3> QED
      BY <2>2, <2>4, <3>1, SeqEqual
  <2>5. o \in Those(0)
    BY <2>2, <2>3
  <2>6. \A s \in Those(0) : s = o
    BY <2>4
  <2> HIDE DEF Those
  <2> QED
    BY <2>1, <2>5, <2>6
<1>3. ASSUME NEW k \in 1 .. K
      PROVE  More(k, Those(k - 1)) = Those(k)
  <2>1. k - 1 \in Nat /\ (k - 1) + 1 = k /\ k \in Nat /\ k + 1 > 1 /\ (k + 1) - 1 = k
    BY <1>1
  <2>2. ASSUME NEW s \in Those(k - 1), k = 1 \/ LastArc(s) \notin halts, NEW b \in incidents,
               b[1] = s[Len(s)], ~Contains(s, b[2]), ~(Len(s) = 1 /\ b = <<into[2], into[1]>>)
        PROVE  Append(s, b[2]) \in Those(k)
    <3>1. Follows(into, incidents, halts, s) /\ Len(s) = k
      BY <2>1
    <3>2. Len(s) > 1 => LastArc(s) \notin halts
      BY <2>1, <2>2, <3>1
    <3>3. /\ Follows(into, incidents, halts, Append(s, b[2]))
          /\ Len(Append(s, b[2])) = k + 1
      BY <2>2, <3>1, <3>2, FollowsOn
    <3>4. Append(s, b[2]) \in Seq(Node)
      BY <3>3 DEF Follows
    <3> QED
      BY <3>3, <3>4
  <2>3. ASSUME NEW t \in Those(k)
        PROVE  t \in More(k, Those(k - 1))
    <3>1. Follows(into, incidents, halts, t) /\ Len(t) = k + 1 /\ Len(t) > 1
      BY <2>1
    <3>2. PICK s : \E b \in incidents :
            /\ Follows(into, incidents, halts, s) /\ Len(s) = Len(t) - 1 /\ t = Append(s, b[2])
            /\ b[1] = s[Len(s)] /\ ~Contains(s, b[2])
            /\ Len(s) = 1 => b # <<into[2], into[1]>>
            /\ Len(s) > 1 => LastArc(s) \notin halts
      BY <3>1, FollowsBack
    <3> PICK b \in incidents :
            /\ t = Append(s, b[2]) /\ b[1] = s[Len(s)] /\ ~Contains(s, b[2])
            /\ Len(s) = 1 => b # <<into[2], into[1]>>
      BY <3>2
    <3>3. Len(s) = k /\ s \in Seq(Node)
      BY <2>1, <3>1, <3>2 DEF Follows
    <3>4. s \in Those(k - 1) /\ (k = 1 \/ LastArc(s) \notin halts)
      BY <2>1, <3>2, <3>3
    <3>5. t \in Longer(s)
      BY <3>2
    <3> HIDE DEF Longer, Those
    <3> QED
      BY <3>4, <3>5
  <2>4. ASSUME NEW t \in More(k, Those(k - 1))
        PROVE  t \in Those(k)
    <3> HIDE DEF Those
    <3>1. PICK s \in Those(k - 1) : (k = 1 \/ LastArc(s) \notin halts) /\ t \in Longer(s)
      OBVIOUS
    <3>2. PICK b \in incidents :
            t = Append(s, b[2]) /\ b[1] = s[Len(s)] /\ ~Contains(s, b[2])
              /\ ~(Len(s) = 1 /\ b = <<into[2], into[1]>>)
      BY <3>1
    <3> QED
      BY <2>2, <3>1, <3>2
  <2> HIDE DEF More, Those
  <2> QED
    BY <2>3, <2>4
<1>4. PICK f : f = [k \in 0 .. K |-> Those(k)]
  OBVIOUS
<1>5. Is(f)
  <2> HIDE DEF Those
  <2>1. \A k \in 0 .. K : f[k] = IF k = 0 THEN {<<into[2]>>} ELSE More(k, f[k-1])
    <3> SUFFICES ASSUME NEW k \in 0 .. K
                 PROVE  f[k] = IF k = 0 THEN {<<into[2]>>} ELSE More(k, f[k-1])
      OBVIOUS
    <3> HIDE DEF More
    <3>1. CASE k = 0
      BY <1>1, <1>2, <1>4, <3>1
    <3>2. CASE k # 0
      <4>1. k \in 1 .. K /\ k - 1 \in 0 .. K
        BY <1>1, <3>2
      <4> QED
        BY <1>3, <1>4, <3>2, <4>1
    <3> QED
      BY <3>1, <3>2
  <2>2. f = [k \in 0 .. K |-> f[k]]
    BY <1>4
  <2> QED
    BY <2>1, <2>2
<1>6. PICK g : g = CHOOSE e : Is(e)
  OBVIOUS
<1>7. Is(g)
  <2> HIDE DEF Is
  <2> QED
    BY <1>5, <1>6
<1>8. \A k \in 0 .. K : g[k] = Those(k)
  <2> DEFINE T == {k \in 0 .. K : g[k] = Those(k)}
  <2> HIDE DEF More, Those
  <2>1. /\ 0 \in 0 .. K /\ g[0] = {<<into[2]>>}
        /\ \A k \in 1 .. K : k \in 0 .. K /\ k # 0 /\ g[k] = More(k, g[k-1])
    <3>1. \A k \in 0 .. K : g[k] = IF k = 0 THEN {<<into[2]>>} ELSE More(k, g[k-1])
      <4> SUFFICES ASSUME NEW k \in 0 .. K
                   PROVE  g[k] = IF k = 0 THEN {<<into[2]>>} ELSE More(k, g[k-1])
        OBVIOUS
      <4> HIDE DEF K
      <4>1. PICK h : h = [l \in 0 .. K |-> IF l = 0 THEN {<<into[2]>>} ELSE More(l, g[l-1])]
        OBVIOUS
      <4>2. h[k] = IF k = 0 THEN {<<into[2]>>} ELSE More(k, g[k-1])
        BY <4>1, Zenon
      <4>3. g = h
        BY <1>7, <4>1, Zenon
      <4> QED
        BY <4>2, <4>3
    <3>2. 0 \in 0 .. K /\ \A k \in 1 .. K : k \in 0 .. K /\ k # 0
      BY <1>1
    <3> QED
      BY <3>1, <3>2, Zenon
  <2>2. 0 \in T
    BY <1>1, <1>2, <2>1
  <2>3. \A k \in 1 .. K : k - 1 \in T => k \in T
    BY <1>1, <1>3, <2>1
  <2>4. T \in SUBSET (0 .. K)
    OBVIOUS
  <2>5. \A k \in 0 .. K : k \in T
    <3> HIDE DEF T
    <3> QED
      BY <1>1, <2>2, <2>3, <2>4, AllNumbers
  <2> QED
    BY <2>5
<1>9. RoutesFrom(into, incidents, halts) = UNION {g[k] : k \in 1 .. K}
  BY <1>6 DEF RoutesFrom
<1>10. ASSUME NEW s
       PROVE  s \in RoutesFrom(into, incidents, halts) <=>
                Follows(into, incidents, halts, s) /\ Len(s) \in 2 .. K + 1
  <2>1. s \in RoutesFrom(into, incidents, halts) <=> \E k \in 1 .. K : s \in g[k]
    BY <1>9
  <2>2. \A k \in 1 .. K : k \in 0 .. K
    BY <1>1
  <2>3. s \in RoutesFrom(into, incidents, halts) <=> \E k \in 1 .. K : s \in Those(k)
    <3> HIDE DEF Those
    <3> QED
      BY <1>8, <2>1, <2>2
  <2>4. Follows(into, incidents, halts, s) => s \in Seq(Node) /\ Len(s) \in Nat
    BY LenProperties DEF Follows
  <2>5. Follows(into, incidents, halts, s) =>
          (Len(s) \in 2 .. K + 1 <=> \E k \in 1 .. K : Len(s) = k + 1)
    <3>1. \A n \in Nat : n \in 2 .. K + 1 <=> \E k \in 1 .. K : n = k + 1
      <4> SUFFICES ASSUME NEW n \in Nat
                   PROVE  n \in 2 .. K + 1 <=> \E k \in 1 .. K : n = k + 1
        OBVIOUS
      <4>1. n \in 2 .. K + 1 => n - 1 \in 1 .. K /\ n = (n - 1) + 1
        BY <1>1
      <4>2. \A k \in 1 .. K : k + 1 \in 2 .. K + 1
        BY <1>1
      <4> QED
        BY <4>1, <4>2
    <3> QED
      BY <2>4, <3>1
  <2>6. (\E k \in 1 .. K : s \in Those(k)) <=>
          Follows(into, incidents, halts, s) /\ \E k \in 1 .. K : Len(s) = k + 1
    BY <2>4
  <2> QED
    BY <2>3, <2>5, <2>6
<1> QED
  BY <1>10

\* Every segment is a route with at least one node.
LEMMA SegmentsAreRoutes ==
  ASSUME NEW into \in Arc, NEW incidents \in SUBSET Arc, NEW arrivals, NEW names
  PROVE  SegmentsFrom(into, incidents, arrivals, names) \in SUBSET Routes
<1> SUFFICES ASSUME NEW s \in SegmentsFrom(into, incidents, arrivals, names)
             PROVE  s \in Routes
  OBVIOUS
<1>1. Follows(into, incidents, Halts(incidents, arrivals, names), s)
  BY RoutesFollow DEF SegmentsFrom
<1>2. s \in Seq(Node) /\ s # <<>> /\ Len(s) \in Nat
  BY <1>1, LenProperties DEF Follows
<1>3. ASSUME NEW k \in 1 .. Len(s) - 1
      PROVE  s[k] # s[k+1]
  <2>1. k + 1 \in 1 .. Len(s) /\ k \in 1 .. (k + 1) - 1
    BY <1>2
  <2> QED
    BY <1>1, <2>1 DEF Follows
<1> QED
  BY <1>2, <1>3 DEF Routes

Segments == [PublicTransport -> SUBSET Routes]

NetInv == NetTypeOK /\ segs \in Segments

\* There is nothing in the networks at first.
LEMMA NetStarts ==
  ASSUME NetInit
  PROVE  NetInv
<1>1. /\ segs = [m \in PublicTransport |-> {}] /\ stops = [m \in PublicTransport |-> {}]
      /\ net = [m \in Mode |-> {}] /\ osm \in Extract /\ name = osm.name /\ stage = "bike"
  BY DEF NetInit
<1>2. segs \in Segments /\ stops \in [PublicTransport -> SUBSET Node] /\ net \in [Mode -> SUBSET Arc]
  BY <1>1 DEF Segments
<1>3. name \in [Node -> STRING] /\ stage \in Mode
  BY <1>1, ExtractAssumption DEF Mode
<1>4. \A m \in PublicTransport : segs[m] \subseteq Seq(Node)
  BY <1>2 DEF Segments, Routes
<1> QED
  BY <1>1, <1>2, <1>3, <1>4 DEF NetInv, NetTypeOK

\* The arcs between the nodes of a route.
LEMMA RoutesHaveArcs ==
  ASSUME NEW s \in Routes
  PROVE  ArcsOf(s) \in SUBSET Arc /\ s[1] \in Node /\ s[Len(s)] \in Node
<1>1. s \in Seq(Node) /\ Len(s) \in Nat \ {0}
  BY EmptySeq DEF Routes
<1>2. \A k \in 1 .. Len(s) : s[k] \in Node
  BY <1>1, ElementOfSeq
<1>3. /\ 1 \in 1 .. Len(s) /\ Len(s) \in 1 .. Len(s)
      /\ \A k \in 1 .. Len(s) - 1 : k \in 1 .. Len(s) /\ k + 1 \in 1 .. Len(s)
  BY <1>1
<1> QED
  BY <1>2, <1>3 DEF ArcsOf, Arc

\* Every step of the constructor makes networks of arcs.
LEMMA NetStep ==
  ASSUME NetInv, NetNext
  PROVE  NetInv'
<1>1. /\ osm \in Extract /\ name \in [Node -> STRING] /\ segs \in Segments
      /\ stops \in [PublicTransport -> SUBSET Node] /\ net \in [Mode -> SUBSET Arc]
  BY DEF NetInv, NetTypeOK
<1>2. PublicTransport \subseteq Mode /\ "walk" \in Mode /\ "metro" \in PublicTransport
  BY DEF Mode, PublicTransport
<1>3. \A m \in Mode : After(m) \in Mode \cup {"access", "ready"}
  BY DEF After, Mode, PublicTransport
<1> SUFFICES /\ osm' = osm /\ stage' \in Mode \cup {"access", "ready"} /\ name' \in [Node -> STRING]
             /\ segs' \in Segments
             /\ stops' \in [PublicTransport -> SUBSET Node] /\ net' \in [Mode -> SUBSET Arc]
  <2>1. segs' \in Segments => \A m \in PublicTransport : segs'[m] \subseteq Seq(Node)
    BY DEF Segments, Routes
  <2> QED
    BY <1>1, <2>1 DEF NetInv, NetTypeOK
<1>4. CASE Skip
  <2>1. stage' = After(stage) /\ stage \in Mode /\ UNCHANGED <<osm, name, segs, stops, net>>
    BY <1>4 DEF Skip, Follow
  <2> QED
    BY <1>1, <1>3, <2>1
<1>5. CASE ReadRoads
  <2>1. stage \in Mode /\ stage' = After(stage) /\ UNCHANGED <<osm, name, segs, stops>>
    BY <1>5 DEF ReadRoads, Follow, Mode
  <2>2. net' = [net EXCEPT ![stage] = RoadArcs(stage)] /\ RoadArcs(stage) \in SUBSET Arc
    BY <1>1, <1>5, ReadsArcs DEF ReadRoads
  <2>3. net' \in [Mode -> SUBSET Arc]
    BY <1>1, <2>1, <2>2
  <2> QED
    BY <1>1, <1>3, <2>1, <2>3
<1>6. CASE ReadRelation
  <2> DEFINE relation == Head(left)
             found == FindStopsIncomingLinks(relation, name)
             more == UNION {SegmentsFrom(a[2], Incidents(relation), found.arrivals, found.name) :
                              a \in found.arrivals}
  <2>1. /\ stage \in PublicTransport /\ UNCHANGED <<osm, stage, stops, net>>
        /\ name' = found.name /\ segs' = [segs EXCEPT ![stage] = @ \cup more]
    BY <1>6 DEF ReadRelation
  <2>2. found \in Arrivals
    BY <1>1, StopsFound
  <2>3. found.name \in [Node -> STRING] /\ found.arrivals \in SUBSET (STRING \X Arc)
    <3> HIDE DEF found
    <3> QED
      BY <2>2 DEF Arrivals
  <2>4. Incidents(relation) \in SUBSET Arc
    BY <1>1, ReadsArcs
  <2>5. more \in SUBSET Routes
    <3> HIDE DEF found
    <3>1. \A a \in found.arrivals :
            SegmentsFrom(a[2], Incidents(relation), found.arrivals, found.name) \in SUBSET Routes
      BY <2>3, <2>4, SegmentsAreRoutes
    <3> QED
      BY <3>1
  <2> HIDE DEF more, found
  <2>6. segs' \in Segments
    BY <1>1, <2>1, <2>5 DEF Segments
  <2> QED
    BY <1>1, <1>2, <2>1, <2>3, <2>6
<1>7. CASE Summarize
  <2> DEFINE arcs == UNION {ArcsOf(s) : s \in segs[stage]}
             ends == UNION {{s[1], s[Len(s)]} : s \in segs[stage]}
  <2>1. /\ stage \in PublicTransport /\ stage' = After(stage) /\ UNCHANGED <<osm, name, segs>>
        /\ stops' = [stops EXCEPT ![stage] = ends] /\ net' = [net EXCEPT ![stage] = arcs]
    BY <1>7 DEF Summarize, Follow
  <2>2. \A s \in segs[stage] : s \in Routes
    BY <1>1, <2>1 DEF Segments
  <2>3. arcs \in SUBSET Arc /\ ends \in SUBSET Node
    BY <2>2, RoutesHaveArcs
  <2> HIDE DEF arcs, ends
  <2> QED
    BY <1>1, <1>2, <1>3, <2>1, <2>3
<1>8. CASE Access
  <2>1. stage' = "ready" /\ UNCHANGED <<osm, name, segs, stops>>
    BY <1>8 DEF Access, Follow
  <2>2. Nearby \in SUBSET Arc
    <3>1. \A s \in stops["metro"] : s \in Node /\ osm.close[s] \in SUBSET Node
      BY <1>1, <1>2, ExtractAssumption
    <3> QED
      BY <3>1 DEF Nearby, Arc
  <2>3. Reversed(Nearby \ ReadArcs) \in SUBSET Arc
    BY <1>1, <2>2, ReadsArcs
  <2>4. net' = net \/ net' = [net EXCEPT !["walk"] = @ \cup Nearby \cup Reversed(Nearby \ ReadArcs)]
    BY <1>8 DEF Access
  <2>5. net' \in [Mode -> SUBSET Arc]
    BY <1>1, <1>2, <2>2, <2>3, <2>4
  <2> QED
    BY <1>1, <2>1, <2>5
<1> QED
  BY <1>4, <1>5, <1>6, <1>7, <1>8 DEF NetNext

\* No arc of a network leads back to where it starts.
NoLoops == \A m \in Mode : \A a \in net[m] : a[1] # a[2]

\* Nothing that is read stays at a node.
LEMMA ReadsNoLoops ==
  ASSUME osm \in Extract
  PROVE  /\ \A w \in DOMAIN osm.ways : \A a \in WayArcs(w) \cup Reversed(WayArcs(w)) : a[1] # a[2]
         /\ \A m : \A a \in RoadArcs(m) : a[1] # a[2]
<1>1. ASSUME NEW w \in DOMAIN osm.ways, NEW a \in WayArcs(w)
      PROVE  a[1] # a[2]
  <2>1. PICK k \in 1 .. Len(osm.ways[w].nodes) - 1 : a = <<osm.ways[w].nodes[k], osm.ways[w].nodes[k+1]>>
    BY DEF WayArcs
  <2> QED
    BY <2>1, ExtractAssumption
<1>2. ASSUME NEW w \in DOMAIN osm.ways, NEW a \in Reversed(WayArcs(w))
      PROVE  a[1] # a[2]
  <2>1. PICK b \in WayArcs(w) : a = <<b[2], b[1]>>
    BY DEF Reversed
  <2> QED
    BY <1>1, <2>1
<1>3. ASSUME NEW m, NEW a \in RoadArcs(m)
      PROVE  a[1] # a[2]
  <2>1. PICK w \in DOMAIN osm.ways : a \in WayArcs(w) \cup Reversed(WayArcs(w))
    BY DEF RoadArcs
  <2> QED
    BY <1>1, <1>2, <2>1
<1> QED
  BY <1>1, <1>2, <1>3

\* Nor is any arc made that does.
LEMMA NoLoopsStep ==
  ASSUME NetInv, NoLoops, NetNext
  PROVE  NoLoops'
<1>1. /\ osm \in Extract /\ net \in [Mode -> SUBSET Arc] /\ segs \in Segments
      /\ stops \in [PublicTransport -> SUBSET Node]
  BY DEF NetInv, NetTypeOK
<1>2. PublicTransport \subseteq Mode /\ "metro" \in PublicTransport
  BY DEF Mode, PublicTransport
<1>3. CASE Skip \/ ReadRelation
  BY <1>3 DEF Skip, ReadRelation, NoLoops
<1>4. CASE ReadRoads
  <2>1. net' = [net EXCEPT ![stage] = RoadArcs(stage)]
    BY <1>4 DEF ReadRoads
  <2>2. \A m \in Mode : net'[m] = net[m] \/ net'[m] = RoadArcs(stage)
    BY <1>1, <2>1
  <2>3. \A a \in RoadArcs(stage) : a[1] # a[2]
    BY <1>1, ReadsNoLoops
  <2> QED
    BY <2>2, <2>3 DEF NoLoops
<1>5. CASE Summarize
  <2> DEFINE arcs == UNION {ArcsOf(s) : s \in segs[stage]}
  <2>1. stage \in PublicTransport /\ net' = [net EXCEPT ![stage] = arcs]
    BY <1>5 DEF Summarize
  <2>2. \A a \in arcs : a[1] # a[2]
    <3> SUFFICES ASSUME NEW s \in segs[stage], NEW a \in ArcsOf(s)
                 PROVE  a[1] # a[2]
      OBVIOUS
    <3>1. s \in Routes
      BY <1>1, <2>1 DEF Segments
    <3> QED
      BY <3>1 DEF ArcsOf, Routes
  <2> HIDE DEF arcs
  <2>3. \A m \in Mode : net'[m] = net[m] \/ net'[m] = arcs
    BY <1>1, <2>1
  <2> QED
    BY <2>2, <2>3 DEF NoLoops
<1>6. CASE Access
  <2>1. \A p \in Nearby : p[1] # p[2]
    <3> SUFFICES ASSUME NEW s \in stops["metro"], NEW p \in {s} \X osm.close[s]
                 PROVE  p[1] # p[2]
      BY DEF Nearby
    <3>1. s \in Node
      BY <1>1, <1>2
    <3>2. s \notin osm.close[s]
      BY <1>1, <3>1, ExtractAssumption
    <3> QED
      BY <3>2
  <2>2. \A p \in Reversed(Nearby \ ReadArcs) : p[1] # p[2]
    BY <2>1 DEF Reversed
  <2>3. \/ net' = net
        \/ net' = [net EXCEPT !["walk"] = @ \cup Nearby \cup Reversed(Nearby \ ReadArcs)]
    BY <1>6 DEF Access
  <2>4. \A m \in Mode : net'[m] \subseteq net[m] \cup Nearby \cup Reversed(Nearby \ ReadArcs)
    BY <1>1, <2>3
  <2> QED
    BY <2>1, <2>2, <2>4 DEF NoLoops
<1> QED
  BY <1>3, <1>4, <1>5, <1>6 DEF NetNext

-----------------------------------------------------------------------------
(* Lines: what is joined together from segments ends where they end.       *)

\* Any set of routes, taken apart into arcs: an arc begins and ends where a
\* route does, or another arc ends and begins.
LEMMA RoutesJoin ==
  ASSUME NEW S \in SUBSET Seq(Node),
         NEW a \in UNION {ArcsOf(s) : s \in S}
  PROVE  LET arcs == UNION {ArcsOf(s) : s \in S}
             ends == UNION {{s[1], s[Len(s)]} : s \in S}
         IN  /\ a[1] \in ends \/ \E b \in arcs : b[2] = a[1]
             /\ a[2] \in ends \/ \E b \in arcs : b[1] = a[2]
<1> DEFINE arcs == UNION {ArcsOf(t) : t \in S}
           ends == UNION {{t[1], t[Len(t)]} : t \in S}
<1>1. PICK s \in S : a \in ArcsOf(s)
  OBVIOUS
<1>2. PICK k \in 1 .. Len(s) - 1 : a = <<s[k], s[k+1]>>
  BY <1>1 DEF ArcsOf
<1>3. Len(s) \in Nat /\ k \in Nat /\ 1 <= k /\ k <= Len(s) - 1
  OBVIOUS
<1>4. s[1] \in ends /\ s[Len(s)] \in ends /\ ArcsOf(s) \subseteq arcs
  OBVIOUS
<1>5. a[1] \in ends \/ \E b \in arcs : b[2] = a[1]
  <2>1. CASE k = 1
    BY <1>2, <1>4, <2>1
  <2>2. CASE k # 1
    <3>1. k - 1 \in 1 .. Len(s) - 1 /\ (k - 1) + 1 = k
      BY <1>3, <2>2
    <3>2. <<s[k-1], s[k]>> \in ArcsOf(s)
      BY <3>1 DEF ArcsOf
    <3>3. <<s[k-1], s[k]>> \in arcs /\ <<s[k-1], s[k]>>[2] = a[1]
      BY <1>2, <1>4, <3>2
    <3> QED
      BY <3>3
  <2> QED
    BY <2>1, <2>2
<1>6. a[2] \in ends \/ \E b \in arcs : b[1] = a[2]
  <2>1. CASE k + 1 = Len(s)
    BY <1>2, <1>4, <2>1
  <2>2. CASE k + 1 # Len(s)
    <3>1. k + 1 \in 1 .. Len(s) - 1
      BY <1>3, <2>2
    <3>2. <<s[k+1], s[(k+1)+1]>> \in ArcsOf(s)
      BY <3>1 DEF ArcsOf
    <3>3. <<s[k+1], s[(k+1)+1]>> \in arcs /\ <<s[k+1], s[(k+1)+1]>>[1] = a[2]
      BY <1>2, <1>4, <3>2
    <3> QED
      BY <3>3
  <2> QED
    BY <2>1, <2>2
<1> QED
  BY <1>5, <1>6

LinesInv == NetInv /\ RidesEndAtStops

\* Every step of the constructor keeps the lines ending at stops.
LEMMA LinesStep ==
  ASSUME LinesInv, NetNext
  PROVE  LinesInv'
<1>1. /\ segs \in Segments /\ DOMAIN net = Mode /\ DOMAIN stops = PublicTransport
      /\ PublicTransport \subseteq Mode
  BY DEF LinesInv, NetInv, NetTypeOK, Mode
<1>2. NetInv'
  BY NetStep DEF LinesInv
<1> SUFFICES RidesEndAtStops'
  BY <1>2 DEF LinesInv
<1>3. CASE Skip \/ ReadRelation
  BY <1>3 DEF Skip, ReadRelation, LinesInv, RidesEndAtStops
<1>4. CASE ReadRoads
  <2>1. stage \notin PublicTransport /\ stops' = stops
    BY <1>4 DEF ReadRoads, PublicTransport
  <2>2. net' = [net EXCEPT ![stage] = RoadArcs(stage)]
    BY <1>4 DEF ReadRoads
  <2>3. \A m \in PublicTransport : net'[m] = net[m]
    BY <1>1, <2>1, <2>2
  <2> QED
    BY <2>1, <2>3 DEF LinesInv, RidesEndAtStops
<1>5. CASE Summarize
  <2>1. stage \in PublicTransport
    BY <1>5 DEF Summarize
  <2> DEFINE arcs == UNION {ArcsOf(s) : s \in segs[stage]}
             ends == UNION {{s[1], s[Len(s)]} : s \in segs[stage]}
  <2>2. stops' = [stops EXCEPT ![stage] = ends] /\ net' = [net EXCEPT ![stage] = arcs]
    BY <1>5 DEF Summarize
  <2>3. segs[stage] \in SUBSET Seq(Node)
    BY <1>1, <2>1 DEF Segments, Routes
  <2>4. \A a \in arcs : /\ a[1] \in ends \/ \E b \in arcs : b[2] = a[1]
                        /\ a[2] \in ends \/ \E b \in arcs : b[1] = a[2]
    BY <2>3, RoutesJoin
  <2> HIDE DEF arcs, ends
  <2>5. ASSUME NEW m \in PublicTransport, NEW a \in net'[m]
        PROVE  /\ a[1] \in stops'[m] \/ \E b \in net'[m] : b[2] = a[1]
               /\ a[2] \in stops'[m] \/ \E b \in net'[m] : b[1] = a[2]
    <3>1. CASE m = stage
      <4>1. net'[m] = arcs /\ stops'[m] = ends
        BY <1>1, <2>1, <2>2, <3>1
      <4> QED
        BY <2>4, <2>5, <4>1
    <3>2. CASE m # stage
      <4>1. net'[m] = net[m] /\ stops'[m] = stops[m]
        BY <1>1, <2>1, <2>2, <3>2
      <4> QED
        BY <2>5, <4>1 DEF LinesInv, RidesEndAtStops
    <3> QED
      BY <3>1, <3>2
  <2> QED
    BY <2>5 DEF RidesEndAtStops
<1>6. CASE Access
  <2>1. stops' = stops
    BY <1>6 DEF Access
  <2>2. net' = net \/ \E walks : net' = [net EXCEPT !["walk"] = walks]
    BY <1>6 DEF Access
  <2>3. \A m \in PublicTransport : net'[m] = net[m]
    BY <1>1, <2>2 DEF PublicTransport
  <2> QED
    BY <2>1, <2>3 DEF LinesInv, RidesEndAtStops
<1> QED
  BY <1>3, <1>4, <1>5, <1>6 DEF NetNext

\* The networks stay as well typed as they are.
LEMMA NetStays ==
  ASSUME NetInv, UNCHANGED netVars
  PROVE  NetInv'
BY DEF netVars, NetInv, NetTypeOK

(***************************************************************************)
(* Nobody is stuck in a bus or a metro, whatever the relations are like    *)
(* (patNetworkPublicTransport): for every extract, and as long as the      *)
(* program runs.                                                           *)
(***************************************************************************)
THEOREM LinesEndAtStops == Spec => []RidesEndAtStops
<1>1. Init => LinesInv
  <2> SUFFICES ASSUME Init PROVE LinesInv
    OBVIOUS
  <2>1. NetInv /\ net = [m \in Mode |-> {}]
    BY NetStarts DEF Init, NetInit
  <2>2. \A m \in PublicTransport : net[m] = {}
    BY <2>1 DEF Mode
  <2> QED
    BY <2>1, <2>2 DEF LinesInv, RidesEndAtStops
<1>2. LinesInv /\ [Next]_vars => LinesInv'
  <2> SUFFICES ASSUME LinesInv, [Next]_vars PROVE LinesInv'
    OBVIOUS
  <2>1. NetNext \/ UNCHANGED netVars
    BY DEF Next, vars
  <2>2. CASE UNCHANGED netVars
    <3>1. NetInv'
      BY <2>2, NetStays DEF LinesInv
    <3>2. RidesEndAtStops'
      BY <2>2 DEF netVars, LinesInv, RidesEndAtStops
    <3> QED
      BY <3>1, <3>2 DEF LinesInv
  <2> QED
    BY <2>1, <2>2, LinesStep
<1> QED
  BY <1>1, <1>2, PTL DEF Spec, LinesInv

-----------------------------------------------------------------------------
(* Lines: they are not cut. A ride along a line is cut where it calls; each *)
(* piece is one of the segments that are searched.                         *)

\* A line whose stops are all on it is found with the names they have.
LEMMA FoundInPlace ==
  ASSUME osm \in Extract, NEW r, NEW names \in [Node -> STRING],
         \A n \in StopNodes(r) : OnRoute(r, n) # {} \/ Passing(r, n) = {}
  PROVE  FindStopsIncomingLinks(r, names) =
           [arrivals |-> UNION {{names[n]} \X OnRoute(r, n) : n \in StopNodes(r)}, name |-> names]
<1> DEFINE D == StopNodes(r)
           after(S) == [arrivals |-> UNION {{names[n]} \X OnRoute(r, n) : n \in S}, name |-> names]
           V == {<<S, after(S)>> : S \in SUBSET D}
<1>1. PICK g : Finding(g, r, names) /\ FindStopsIncomingLinks(r, names) = g[D]
  BY StopsLoop
<1>2. D \in SUBSET Nat /\ IsFiniteSet(D)
  BY ReadsArcs
<1>3. ASSUME NEW S \in SUBSET D, NEW n \in S
      PROVE  FindStop(r, after(S \ {n}), n) = after(S)
  <2> DEFINE on == OnRoute(r, n)
             before == UNION {{names[k]} \X OnRoute(r, k) : k \in S \ {n}}
  <2>1. PICK b : b = before
    OBVIOUS
  <2>2. after(S) = [arrivals |-> b \cup ({names[n]} \X on), name |-> names]
    <3>1. UNION {{names[k]} \X OnRoute(r, k) : k \in S} = b \cup ({names[n]} \X on)
      BY <2>1
    <3> QED
      BY <3>1
  <2>3. PICK found : found = [arrivals |-> b, name |-> names]
    OBVIOUS
  <2>4. FindStop(r, found, n) = [arrivals |-> b \cup ({names[n]} \X on), name |-> names]
    <3>1. CASE on # {}
      <4>1. FindStop(r, found, n) = [found EXCEPT !.arrivals = @ \cup ({found.name[n]} \X on)]
        BY <3>1 DEF FindStop
      <4> HIDE DEF on
      <4> QED
        BY <2>3, <4>1
    <3>2. CASE on = {}
      <4>1. Passing(r, n) = {}
        BY <3>2
      <4>2. FindStop(r, found, n) = found
        BY <3>2, <4>1 DEF FindStop
      <4>3. {names[n]} \X on = {}
        BY <3>2
      <4> HIDE DEF on
      <4> QED
        BY <2>3, <4>2, <4>3
    <3> QED
      BY <3>1, <3>2
  <2>5. after(S \ {n}) = found
    BY <2>1, <2>3
  <2> HIDE DEF after, on
  <2> QED
    BY <2>2, <2>4, <2>5
<1> DEFINE f == [S \in SUBSET D |-> <<S, g[S]>>]
<1>4. f[{}] \in V
  <2>1. g[{}] = after({})
    BY <1>1 DEF Finding
  <2> HIDE DEF after, D
  <2> QED
    BY <2>1
<1>5. ASSUME NEW S \in SUBSET D, S # {}, f[S \ {Max(S)}] \in V
      PROVE  f[S] \in V
  <2>1. PICK n, T : n = Max(S) /\ T = S \ {n}
    OBVIOUS
  <2>2. n \in S /\ T \in SUBSET D /\ g[S] = FindStop(r, g[T], n)
    BY <1>1, <1>5, <2>1 DEF Finding
  <2> HIDE DEF after, D
  <2>3. g[T] = after(T)
    BY <1>5, <2>1, <2>2
  <2>4. g[S] = after(S)
    BY <1>3, <2>1, <2>2, <2>3
  <2> QED
    BY <2>4
<1>6. f[D] \in V
  <2> HIDE DEF f, V, D
  <2> QED
    BY <1>2, <1>4, <1>5, FoldStays
<1>7. g[D] = after(D)
  <2> HIDE DEF after, D
  <2> QED
    BY <1>6
<1> QED
  BY <1>1, <1>7

\* The arcs one passes on a ride between two calls of a line.
Ridden(r) == UNION {ArcsOf(s) : s \in
               {t \in UNION {RoutesFrom(into, Incidents(r), {}) : into \in Calls(r)} :
                  LastArc(t) \in Calls(r)}}

\* Each of them is on a piece of a ride, that calls nowhere in between.
LEMMA RidesCut ==
  ASSUME NEW incidents \in SUBSET Arc, NEW calls \in SUBSET incidents, NEW into \in calls,
         NEW r \in RoutesFrom(into, incidents, {}), LastArc(r) \in calls, NEW p \in 1 .. Len(r) - 1
  PROVE  \E from \in calls : \E s \in RoutesFrom(from, incidents, calls) :
           LastArc(s) \in calls /\ <<r[p], r[p+1]>> \in ArcsOf(s)
<1>1. Follows(into, incidents, {}, r) /\ Len(r) \in 2 .. Cardinality(Node) + 1
  BY RoutesFollow
<1>2. r \in Seq(Node) /\ Cardinality(Node) \in Nat
  BY <1>1, ExtractAssumption, FS_CardinalityType DEF Follows
<1>3. PICK n \in Nat, K \in Nat : n = Len(r) /\ K = Cardinality(Node) /\ n >= 2 /\ n <= K + 1
  BY <1>1, <1>2
<1>4. p \in Nat /\ 1 <= p /\ p <= n - 1
  BY <1>3
<1>5. \A k \in 1 .. n : r[k] \in Node
  BY <1>2, <1>3, ElementOfSeq
\* The last call before the arc, or where the ride begins.
<1>6. PICK a \in 1 .. p : /\ a = 1 \/ <<r[a-1], r[a]>> \in calls
                          /\ \A k \in a + 1 .. p : <<r[k-1], r[k]>> \notin calls
  <2> DEFINE Is(k) == k = 1 \/ <<r[k-1], r[k]>> \in calls
             S == {j \in 0 .. p - 1 : Is(p - j)}
  <2>1. S \in SUBSET Nat /\ S # {}
    <3>1. p - 1 \in 0 .. p - 1 /\ p - (p - 1) = 1
      BY <1>4
    <3>2. p - 1 \in S
      BY <3>1
    <3>3. S \in SUBSET Nat
      BY <1>4
    <3> HIDE DEF S
    <3> QED
      BY <3>2, <3>3
  <2>2. PICK j \in S : \A k \in S : j <= k
    <3> HIDE DEF S
    <3> QED
      BY <2>1, LeastOfNaturals
  <2>3. j \in 0 .. p - 1 /\ p - j \in 1 .. p /\ Is(p - j)
    BY <1>4
  <2>4. ASSUME NEW k \in (p - j) + 1 .. p, Is(k)
        PROVE  FALSE
    <3>1. p - k \in 0 .. p - 1 /\ p - (p - k) = k /\ ~(j <= p - k)
      BY <1>4, <2>3
    <3> HIDE DEF Is
    <3>2. p - k \in S
      BY <2>4, <3>1
    <3> QED
      BY <2>2, <3>1, <3>2
  <2> QED
    BY <2>3, <2>4
\* The first call behind it.
<1>7. PICK b \in p + 1 .. n : /\ <<r[b-1], r[b]>> \in calls
                              /\ \A k \in p + 1 .. b - 1 : <<r[k-1], r[k]>> \notin calls
  <2> DEFINE S == {k \in p + 1 .. n : <<r[k-1], r[k]>> \in calls}
  <2>1. S \in SUBSET Nat /\ S # {}
    <3>1. n \in p + 1 .. n
      BY <1>4
    <3>2. n \in S
      BY <1>3, <3>1 DEF LastArc
    <3>3. S \in SUBSET Nat
      BY <1>4
    <3> QED
      BY <3>2, <3>3
  <2>2. PICK b \in S : \A k \in S : b <= k
    <3> HIDE DEF S
    <3> QED
      BY <2>1, LeastOfNaturals
  <2>3. b \in p + 1 .. n /\ \A k \in p + 1 .. b - 1 : k \in p + 1 .. n /\ ~(b <= k)
    BY <1>4
  <2> QED
    BY <2>2, <2>3
<1>8. PICK s : s = SubSeq(r, a, b)
  OBVIOUS
<1>9. PICK m \in Nat : m = b - a + 1 /\ m >= 2 /\ m <= n
  <2>1. b - a + 1 \in Nat /\ b - a + 1 >= 2 /\ b - a + 1 <= n
    BY <1>4
  <2> QED
    BY <2>1
<1>10. s \in Seq(Node) /\ Len(s) = m /\ \A k \in 1 .. m : s[k] = r[a + k - 1] /\ a + k - 1 \in 1 .. n
  <2>1. a \in Int /\ b \in Int /\ a <= b /\ \A k \in a .. b : k \in 1 .. n
    BY <1>4
  <2>2. /\ SubSeq(r, a, b) \in Seq(Node)
        /\ Len(SubSeq(r, a, b)) = IF a <= b THEN b - a + 1 ELSE 0
        /\ \A k \in 1 .. b - a + 1 : SubSeq(r, a, b)[k] = r[a + k - 1]
    BY <1>5, <2>1, SubSeqProperties
  <2>3. \A k \in 1 .. m : a + k - 1 \in a .. b
    BY <1>4, <1>9
  <2> QED
    BY <1>8, <1>9, <2>1, <2>2, <2>3
<1>11. PICK from \in calls : /\ from = IF a = 1 THEN into ELSE <<r[a-1], r[a]>>
                             /\ from[2] = r[a]
  <2>1. CASE a = 1
    BY <1>1, <2>1 DEF Follows
  <2>2. CASE a # 1
    BY <1>6, <2>2
  <2> QED
    BY <2>1, <2>2
<1>12. Follows(from, incidents, calls, s)
  <2>1. s # <<>>
    BY <1>9, <1>10, EmptySeq
  <2>2. s[1] = from[2]
    <3>1. 1 \in 1 .. m /\ a + 1 - 1 = a
      BY <1>9, a \in Nat
    <3> QED
      BY <1>10, <1>11, <3>1
  <2>3. ASSUME NEW k \in 1 .. m - 1
        PROVE  <<s[k], s[k+1]>> \in incidents
    <3>1. k \in 1 .. m /\ k + 1 \in 1 .. m /\ a + (k + 1) - 1 = (a + k - 1) + 1
      BY <1>9, a \in Nat
    <3>2. a + k - 1 \in 1 .. n - 1
      BY <1>4, <1>9
    <3>3. <<r[a+k-1], r[(a+k-1)+1]>> \in incidents
      BY <1>1, <1>3, <3>2 DEF Follows
    <3>4. s[k] = r[a+k-1] /\ s[k+1] = r[a+(k+1)-1]
      BY <1>10, <3>1
    <3> QED
      BY <3>1, <3>3, <3>4
  <2>4. ASSUME NEW k \in 1 .. m, NEW l \in 1 .. k - 1
        PROVE  s[l] # s[k]
    <3>1. l \in 1 .. m /\ a + l - 1 \in 1 .. (a + k - 1) - 1
      BY <1>4, <1>9
    <3>2. a + k - 1 \in 1 .. n
      BY <1>10
    <3>3. r[a+l-1] # r[a+k-1]
      BY <1>1, <1>3, <3>1, <3>2 DEF Follows
    <3> QED
      BY <1>10, <3>1, <3>3
  <2>5. s[2] # from[1]
    <3>1. 2 \in 1 .. m /\ a + 2 - 1 = a + 1 /\ a + 1 \in 1 .. n
      BY <1>4, <1>9
    <3>2. s[2] = r[a+1]
      BY <1>10, <3>1
    <3>3. CASE a = 1
      BY <1>1, <1>3, <1>11, <3>2, <3>3 DEF Follows
    <3>4. CASE a # 1
      <4>1. a - 1 \in 1 .. (a + 1) - 1
        BY <1>4, <3>4
      <4>2. r[a-1] # r[a+1]
        BY <1>1, <1>3, <3>1, <4>1 DEF Follows
      <4> QED
        BY <1>11, <3>2, <3>4, <4>2
    <3> QED
      BY <3>3, <3>4
  <2>6. ASSUME NEW k \in 1 .. m - 2
        PROVE  <<s[k], s[k+1]>> \notin calls
    <3>1. k \in 1 .. m /\ k + 1 \in 1 .. m /\ a + (k + 1) - 1 = a + k
      BY <1>9, a \in Nat
    <3>2. a + k \in a + 1 .. p \/ a + k \in p + 1 .. b - 1
      BY <1>4, <1>9
    <3>3. <<r[(a+k)-1], r[a+k]>> \notin calls
      BY <1>6, <1>7, <3>2
    <3>4. s[k] = r[a+k-1] /\ s[k+1] = r[a+(k+1)-1]
      BY <1>10, <3>1
    <3>5. a + k - 1 = (a + k) - 1
      BY <1>9, a \in Nat
    <3> QED
      BY <3>1, <3>3, <3>4, <3>5
  <2> QED
    BY <1>10, <2>1, <2>2, <2>3, <2>4, <2>5, <2>6 DEF Follows
<1>13. s \in RoutesFrom(from, incidents, calls)
  <2>1. Len(s) \in 2 .. Cardinality(Node) + 1
    BY <1>3, <1>9, <1>10
  <2>2. from \in Arc
    OBVIOUS
  <2> QED
    BY <1>12, <2>1, <2>2, RoutesFollow
<1>14. LastArc(s) \in calls
  <2>1. m - 1 \in 1 .. m /\ m \in 1 .. m /\ a + (m - 1) - 1 = b - 1 /\ a + m - 1 = b
    BY <1>4, <1>9
  <2>2. s[m-1] = r[b-1] /\ s[m] = r[b]
    BY <1>10, <2>1
  <2> QED
    BY <1>7, <1>10, <2>2 DEF LastArc
<1>15. <<r[p], r[p+1]>> \in ArcsOf(s)
  <2>1. PICK k : k = p - a + 1
    OBVIOUS
  <2>2. k \in 1 .. m - 1 /\ k \in 1 .. m /\ k + 1 \in 1 .. m /\ a + k - 1 = p /\ a + (k + 1) - 1 = p + 1
    BY <1>4, <1>9, <2>1
  <2>3. s[k] = r[p] /\ s[k+1] = r[p+1]
    BY <1>10, <2>2
  <2> QED
    BY <1>10, <2>2, <2>3 DEF ArcsOf
<1> QED
  BY <1>13, <1>14, <1>15

\* The segments that are searched along a line, when its stops have the names given.
Searched(r, found) ==
  UNION {SegmentsFrom(a[2], Incidents(r), found.arrivals, found.name) : a \in found.arrivals}

\* They are all there is to ride, when no two stops of the line have the same name.
LEMMA LineSearched ==
  ASSUME osm \in Extract, NEW r, OwnNames(r),
         \A n \in StopNodes(r) : OnRoute(r, n) # {} \/ Passing(r, n) = {}
  PROVE  LET found == FindStopsIncomingLinks(r, osm.name)
         IN  found.name = osm.name /\ Ridden(r) \subseteq UNION {ArcsOf(s) : s \in Searched(r, found)}
<1>1. osm.name \in [Node -> STRING]
  BY ExtractAssumption
<1>2. PICK arrivals : arrivals = UNION {{osm.name[n]} \X OnRoute(r, n) : n \in StopNodes(r)}
  OBVIOUS
<1>3. PICK found : /\ found = FindStopsIncomingLinks(r, osm.name)
                   /\ found = [arrivals |-> arrivals, name |-> osm.name]
  BY <1>1, <1>2, FoundInPlace
<1>4. Incidents(r) \in SUBSET Arc /\ Calls(r) \in SUBSET Incidents(r)
  BY ReadsArcs DEF Calls, OnRoute
<1>5. \A a : a \in Calls(r) <=> a[2] \in StopNodes(r) /\ a \in OnRoute(r, a[2])
  BY DEF Calls, OnRoute
<1>6. ASSUME NEW a \in Calls(r)
      PROVE  <<osm.name[a[2]], a>> \in arrivals
  BY <1>2, <1>5
<1>7. ASSUME NEW a, NEW x, <<x, a>> \in arrivals
      PROVE  a \in Calls(r) /\ x = osm.name[a[2]]
  <2>1. PICK n \in StopNodes(r) : x = osm.name[n] /\ a \in OnRoute(r, n)
    BY <1>2, <1>7
  <2>2. a[2] = n
    BY <2>1 DEF OnRoute
  <2> QED
    BY <1>5, <2>1, <2>2
<1>8. Halts(Incidents(r), arrivals, osm.name) = Calls(r)
  <2>1. \A a \in Incidents(r) : <<osm.name[a[2]], a>> \in arrivals <=> a \in Calls(r)
    BY <1>6, <1>7
  <2> QED
    BY <1>4, <2>1 DEF Halts
<1>9. ASSUME NEW from \in Calls(r), NEW s \in RoutesFrom(from, Incidents(r), Calls(r)), LastArc(s) \in Calls(r)
      PROVE  s \in Searched(r, found)
  <2>1. Follows(from, Incidents(r), Calls(r), s) /\ Len(s) \in 2 .. Cardinality(Node) + 1
    BY <1>4, RoutesFollow
  <2>2. s \in Seq(Node) /\ s # <<>> /\ s[1] = from[2] /\ LastArc(s)[2] = s[Len(s)]
    BY <2>1 DEF Follows, LastArc
  <2>3. s[1] # s[Len(s)]
    <3>1. Len(s) \in 1 .. Len(s) /\ 1 \in 1 .. Len(s) - 1
      BY <2>1, ExtractAssumption, FS_CardinalityType
    <3> QED
      BY <2>1, <3>1 DEF Follows
  <2>4. from[2] \in StopNodes(r) /\ s[Len(s)] \in StopNodes(r)
    BY <1>5, <1>9, <2>2
  <2>5. osm.name[s[Len(s)]] # osm.name[from[2]]
    BY <2>2, <2>3, <2>4 DEF OwnNames
  <2>6. <<osm.name[from[2]], LastArc(s)>> \notin arrivals
    BY <1>7, <2>2, <2>5
  <2>7. s \in SegmentsFrom(from, Incidents(r), arrivals, osm.name)
    BY <1>8, <1>9, <2>5, <2>6 DEF SegmentsFrom
  <2>8. found.arrivals = arrivals /\ found.name = osm.name
    BY <1>3
  <2>9. PICK a : a = <<osm.name[from[2]], from>> /\ a \in found.arrivals
    BY <1>6, <2>8
  <2>10. s \in SegmentsFrom(a[2], Incidents(r), found.arrivals, found.name)
    BY <2>7, <2>8, <2>9
  <2> QED
    BY <2>9, <2>10 DEF Searched
<1>10. ASSUME NEW e \in Ridden(r)
       PROVE  e \in UNION {ArcsOf(s) : s \in Searched(r, found)}
  <2>1. PICK into \in Calls(r) : \E t \in RoutesFrom(into, Incidents(r), {}) :
          LastArc(t) \in Calls(r) /\ e \in ArcsOf(t)
    BY DEF Ridden
  <2> PICK t \in RoutesFrom(into, Incidents(r), {}) : LastArc(t) \in Calls(r) /\ e \in ArcsOf(t)
    BY <2>1
  <2>2. PICK p \in 1 .. Len(t) - 1 : e = <<t[p], t[p+1]>>
    BY DEF ArcsOf
  <2>3. PICK from \in Calls(r) : \E s \in RoutesFrom(from, Incidents(r), Calls(r)) :
          LastArc(s) \in Calls(r) /\ <<t[p], t[p+1]>> \in ArcsOf(s)
    BY <1>4, RidesCut
  <2> PICK s \in RoutesFrom(from, Incidents(r), Calls(r)) :
          LastArc(s) \in Calls(r) /\ <<t[p], t[p+1]>> \in ArcsOf(s)
    BY <2>3
  <2>4. s \in Searched(r, found)
    BY <1>9
  <2> QED
    BY <2>2, <2>4
<1> QED
  BY <1>3, <1>10

\* What a line may be ridden along is covered by these arcs.
Covered(r, arcs) == OwnNames(r) => Ridden(r) \subseteq arcs

\* The stages behind a mode of public transport.
Past(m) == IF m = "bus" THEN {"car", "metro", "access", "ready"} ELSE {"access", "ready"}

\* Of the mode that is read, what is not left is covered by its segments; the
\* network of a mode that was read covers all of its lines.
UncutInv ==
  /\ NetInv
  /\ stage \notin PublicTransport \cap osm.enabled => left = <<>>
  /\ NoneMoved =>
       /\ name = osm.name
       /\ stage \in PublicTransport \cap osm.enabled =>
            /\ left \in Seq(Range(osm.relations[stage]))
            /\ \A r \in Range(osm.relations[stage]) :
                 r \in Range(left) \/ Covered(r, UNION {ArcsOf(s) : s \in segs[stage]})
       /\ \A line \in Lines : stage \in Past(line[1]) => Covered(line[2], net[line[1]])

\* So it is of the variables after a step, when the extract is the same.
LEMMA UncutLater ==
  ASSUME osm' = osm, NetInv', stage' \notin PublicTransport \cap osm.enabled => left' = <<>>,
         NoneMoved =>
           /\ name' = osm.name
           /\ stage' \in PublicTransport \cap osm.enabled =>
                /\ left' \in Seq(Range(osm.relations[stage']))
                /\ \A r \in Range(osm.relations[stage']) :
                     r \in Range(left') \/ Covered(r, UNION {ArcsOf(s) : s \in segs'[stage']})
           /\ \A line \in Lines : stage' \in Past(line[1]) => Covered(line[2], net'[line[1]])
  PROVE  UncutInv'
<1>1. \A w : WayArcs(w)' = WayArcs(w)
  BY DEF WayArcs
<1>2. \A r, d : RouteArcs(r, d)' = RouteArcs(r, d)
  BY <1>1 DEF RouteArcs
<1>3. \A r : Incidents(r)' = Incidents(r) /\ StopNodes(r)' = StopNodes(r)
  BY <1>2 DEF Incidents, StopNodes
<1>4. \A r, n : OnRoute(r, n)' = OnRoute(r, n) /\ Passing(r, n)' = Passing(r, n)
  BY <1>2, <1>3 DEF OnRoute, Passing
<1>5. \A r : Calls(r)' = Calls(r) /\ (OwnNames(r)' <=> OwnNames(r))
  BY <1>3, <1>4 DEF Calls, OwnNames
<1>6. \A r : Ridden(r)' = Ridden(r)
  BY <1>3, <1>5 DEF Ridden
<1>7. Lines' = Lines
  BY DEF Lines
<1>8. NoneMoved' <=> NoneMoved
  BY <1>3, <1>4, <1>7 DEF NoneMoved
<1>9. ASSUME NoneMoved
      PROVE  \A r \in Range(osm.relations[stage']) : stage' \in PublicTransport \cap osm.enabled =>
               \/ r \in Range(left')
               \/ (OwnNames(r)' => Ridden(r)' \subseteq UNION {ArcsOf(s) : s \in segs'[stage']})
  BY <1>5, <1>6, <1>9 DEF Covered
<1>10. ASSUME NoneMoved
       PROVE  \A line \in Lines : stage' \in Past(line[1]) =>
                 (OwnNames(line[2])' => Ridden(line[2])' \subseteq net'[line[1]])
  BY <1>5, <1>6, <1>10 DEF Covered
<1> QED
  BY <1>7, <1>8, <1>9, <1>10 DEF UncutInv, Covered

\* Behind a stage only the networks read before it count; those of roads none.
LEMMA PastStage ==
  ASSUME stage \in Mode, NEW m \in PublicTransport, After(stage) \in Past(m), m # stage
  PROVE  stage \in Past(m)
BY DEF Mode, PublicTransport, After, Past

\* A stage that is begun has all of its relations left.
LEMMA UncutFollows ==
  ASSUME UncutInv, NEW next, Follow(next), UNCHANGED <<osm, name>>, NetInv',
         NoneMoved => \A line \in Lines : next \in Past(line[1]) => Covered(line[2], net'[line[1]])
  PROVE  UncutInv'
<1>1. stage' = next /\ osm' = osm /\ name' = name /\ osm \in Extract
  BY DEF Follow, UncutInv, NetInv, NetTypeOK
<1>2. CASE next \in PublicTransport \cap osm.enabled
  <2>1. left' = osm.relations[next] /\ osm.relations[next] \in Seq(Range(osm.relations[next]))
    BY <1>1, <1>2, ExtractAssumption DEF Follow
  <2>2. \A r \in Range(osm.relations[next]) : r \in Range(left')
    BY <2>1
  <2> QED
    BY <1>1, <1>2, <2>1, <2>2, UncutLater DEF UncutInv
<1>3. CASE next \notin PublicTransport \cap osm.enabled
  <2>1. left' = <<>>
    BY <1>3 DEF Follow
  <2> QED
    BY <1>1, <1>3, <2>1, UncutLater DEF UncutInv
<1> QED
  BY <1>2, <1>3

\* Every step of the constructor keeps the lines covered.
LEMMA UncutStep ==
  ASSUME UncutInv, NetNext
  PROVE  UncutInv'
<1>1. /\ NetInv /\ NetInv' /\ osm \in Extract /\ net \in [Mode -> SUBSET Arc] /\ segs \in Segments
      /\ PublicTransport \subseteq Mode
  BY NetStep DEF UncutInv, NetInv, NetTypeOK, Mode
<1>2. \A line \in Lines : /\ line[1] \in PublicTransport \cap osm.enabled
                          /\ line[2] \in Range(osm.relations[line[1]])
  BY DEF Lines
<1>3. CASE Skip
  <2>1. stage \in Mode /\ stage \notin osm.enabled /\ Follow(After(stage)) /\ UNCHANGED <<osm, name, net>>
    BY <1>3 DEF Skip
  <2>2. \A line \in Lines : After(stage) \in Past(line[1]) => stage \in Past(line[1])
    BY <1>2, <2>1, PastStage
  <2> QED
    BY <1>1, <2>1, <2>2, UncutFollows DEF UncutInv
<1>4. CASE ReadRoads
  <2>1. /\ stage \in Mode \ PublicTransport /\ Follow(After(stage)) /\ UNCHANGED <<osm, name>>
        /\ net' = [net EXCEPT ![stage] = RoadArcs(stage)]
    BY <1>4 DEF ReadRoads, Mode, PublicTransport
  <2>2. \A line \in Lines : After(stage) \in Past(line[1]) => stage \in Past(line[1])
    BY <1>2, <2>1, PastStage
  <2>3. \A line \in Lines : net'[line[1]] = net[line[1]]
    BY <1>1, <1>2, <2>1
  <2> QED
    BY <1>1, <2>1, <2>2, <2>3, UncutFollows DEF UncutInv
<1>5. CASE ReadRelation
  <2>1. PICK relation, found : relation = Head(left) /\ found = FindStopsIncomingLinks(relation, name)
    OBVIOUS
  <2>2. /\ stage \in PublicTransport /\ left # <<>> /\ UNCHANGED <<osm, stage, net>>
        /\ name' = found.name /\ left' = Tail(left)
        /\ segs' = [segs EXCEPT ![stage] = @ \cup Searched(relation, found)]
    BY <1>5, <2>1 DEF ReadRelation, Searched
  <2>3. stage \in PublicTransport \cap osm.enabled
    BY <2>2 DEF UncutInv
  <2>4. segs'[stage] = segs[stage] \cup Searched(relation, found)
    BY <1>1, <2>2 DEF Segments
  <2>5. ASSUME NoneMoved
        PROVE  /\ name' = osm.name /\ left' \in Seq(Range(osm.relations[stage]))
               /\ \A r \in Range(osm.relations[stage]) :
                    r \in Range(left') \/ Covered(r, UNION {ArcsOf(s) : s \in segs'[stage]})
    <3>1. name = osm.name /\ left \in Seq(Range(osm.relations[stage]))
      BY <2>3, <2>5 DEF UncutInv
    <3>2. PICK n \in Nat : Len(left) = n + 1
      <4>1. Len(left) \in Nat \ {0}
        BY <2>2, <3>1, EmptySeq, LenProperties
      <4>2. Len(left) - 1 \in Nat /\ Len(left) = (Len(left) - 1) + 1
        BY <4>1
      <4> QED
        BY <4>2
    <3>3. /\ Tail(left) \in Seq(Range(osm.relations[stage])) /\ Len(Tail(left)) = n
          /\ \A k \in 1 .. n : Tail(left)[k] = left[k+1]
      BY <2>2, <3>1, <3>2, HeadTailProperties
    <3>4. relation \in Range(osm.relations[stage])
      BY <2>1, <2>2, <3>1, HeadTailProperties
    <3>5. ASSUME NEW r \in Range(left)
          PROVE  r = relation \/ r \in Range(left')
      <4>1. PICK k \in 1 .. n + 1 : r = left[k]
        BY <3>1, <3>2 DEF Range
      <4>2. CASE k = 1
        BY <2>1, <3>1, <4>1, <4>2
      <4>3. CASE k # 1
        <5>1. k - 1 \in 1 .. n /\ (k - 1) + 1 = k
          BY <4>3
        <5>2. r = Tail(left)[k-1] /\ k - 1 \in DOMAIN Tail(left)
          BY <3>3, <4>1, <5>1
        <5> QED
          BY <2>2, <5>2 DEF Range
      <4> QED
        BY <4>2, <4>3
    <3>6. <<stage, relation>> \in Lines
      BY <2>3, <3>4 DEF Lines
    <3>7. \A m \in StopNodes(relation) : OnRoute(relation, m) # {} \/ Passing(relation, m) = {}
      BY <2>5, <3>6 DEF NoneMoved
    <3>8. found.name = osm.name
      <4>1. osm.name \in [Node -> STRING]
        BY <1>1, ExtractAssumption
      <4>2. PICK arrivals : FindStopsIncomingLinks(relation, osm.name) =
                              [arrivals |-> arrivals, name |-> osm.name]
        BY <1>1, <3>7, <4>1, FoundInPlace
      <4> QED
        BY <2>1, <3>1, <4>2
    <3>9. Covered(relation, UNION {ArcsOf(s) : s \in Searched(relation, found)})
      BY <1>1, <2>1, <3>1, <3>7, LineSearched DEF Covered
    <3>10. Covered(relation, UNION {ArcsOf(s) : s \in segs'[stage]})
      BY <2>4, <3>9 DEF Covered
    <3>11. \A r : Covered(r, UNION {ArcsOf(s) : s \in segs[stage]}) =>
                    Covered(r, UNION {ArcsOf(s) : s \in segs'[stage]})
      BY <2>4 DEF Covered
    <3> QED
      BY <2>2, <2>3, <2>5, <3>3, <3>5, <3>8, <3>10, <3>11 DEF UncutInv
  <2>6. ASSUME NoneMoved
        PROVE  \A line \in Lines : stage' \in Past(line[1]) => Covered(line[2], net'[line[1]])
    BY <2>2, <2>6 DEF UncutInv
  <2> QED
    BY <1>1, <2>2, <2>3, <2>5, <2>6, UncutLater
<1>6. CASE Summarize
  <2>1. /\ stage \in PublicTransport \cap osm.enabled /\ left = <<>> /\ Follow(After(stage))
        /\ UNCHANGED <<osm, name>>
        /\ net' = [net EXCEPT ![stage] = UNION {ArcsOf(s) : s \in segs[stage]}]
    BY <1>6 DEF Summarize
  <2>2. ASSUME NoneMoved, NEW line \in Lines, After(stage) \in Past(line[1])
        PROVE  Covered(line[2], net'[line[1]])
    <3>1. CASE line[1] = stage
      <4>1. net'[stage] = UNION {ArcsOf(s) : s \in segs[stage]}
        BY <1>1, <2>1
      <4>2. line[2] \notin Range(left)
        BY <2>1 DEF Range
      <4> QED
        BY <1>2, <2>1, <2>2, <3>1, <4>1, <4>2 DEF UncutInv
    <3>2. CASE line[1] # stage
      <4>1. stage \in Past(line[1])
        BY <1>1, <1>2, <2>1, <2>2, <3>2, PastStage
      <4>2. net'[line[1]] = net[line[1]]
        BY <1>1, <1>2, <2>1, <3>2
      <4> QED
        BY <2>2, <4>1, <4>2 DEF UncutInv
    <3> QED
      BY <3>1, <3>2
  <2> QED
    BY <1>1, <2>1, <2>2, UncutFollows
<1>7. CASE Access
  <2>1. stage = "access" /\ Follow("ready") /\ UNCHANGED <<osm, name>>
    BY <1>7 DEF Access
  <2>2. net' = net \/ \E walks : net' = [net EXCEPT !["walk"] = walks]
    BY <1>7 DEF Access
  <2>3. \A line \in Lines : net'[line[1]] = net[line[1]]
    BY <1>1, <1>2, <2>2 DEF PublicTransport
  <2>4. \A m : stage \in Past(m)
    BY <2>1 DEF Past
  <2> QED
    BY <1>1, <2>1, <2>3, <2>4, UncutFollows DEF UncutInv
<1> QED
  BY <1>3, <1>4, <1>5, <1>6, <1>7 DEF NetNext

(***************************************************************************)
(* Between two of its stops one can ride a line all the way, along         *)
(* whichever of its ways it runs (getSegFromNode): for every extract whose *)
(* stops are all on their lines, and as long as the program runs.          *)
(***************************************************************************)
THEOREM LinesNeverCut == Spec => []LinesUncut
<1>1. Init => UncutInv
  <2> SUFFICES ASSUME Init PROVE UncutInv
    OBVIOUS
  <2>1. NetInv /\ stage = "bike" /\ left = <<>> /\ name = osm.name
    BY NetStarts DEF Init, NetInit
  <2>2. \A line : stage \notin Past(line[1])
    BY <2>1 DEF Past
  <2> QED
    BY <2>1, <2>2 DEF UncutInv, PublicTransport
<1>2. UncutInv /\ [Next]_vars => UncutInv'
  <2> SUFFICES ASSUME UncutInv, [Next]_vars PROVE UncutInv'
    OBVIOUS
  <2>1. NetNext \/ UNCHANGED netVars
    BY DEF Next, vars
  <2>2. CASE UNCHANGED netVars
    <3>1. NetInv'
      BY <2>2, NetStays DEF UncutInv
    <3>2. UNCHANGED <<osm, stage, left, name, segs, net>>
      BY <2>2 DEF netVars
    <3> QED
      BY <3>1, <3>2, UncutLater DEF UncutInv
  <2> QED
    BY <2>1, <2>2, UncutStep
<1>3. UncutInv => LinesUncut
  <2> SUFFICES ASSUME UncutInv, stage = "ready", NoneMoved,
                      NEW line \in Lines, OwnNames(line[2]), NEW into \in Calls(line[2]),
                      NEW r \in RoutesFrom(into, Incidents(line[2]), {}), LastArc(r) \in Calls(line[2])
               PROVE  ArcsOf(r) \subseteq net[line[1]]
    BY DEF LinesUncut
  <2>1. Covered(line[2], net[line[1]])
    BY DEF UncutInv, Past
  <2>2. ArcsOf(r) \subseteq Ridden(line[2])
    BY DEF Ridden
  <2> QED
    BY <2>1, <2>2 DEF Covered
<1> QED
  BY <1>1, <1>2, <1>3, PTL DEF Spec

-----------------------------------------------------------------------------
(* Searches in a network, from which the candidates are extended: what     *)
(* they find are routes from the root along the arcs of that network.      *)

Nets == net \in [Mode -> SUBSET Arc]

Trees(m) == [label : [Node -> Nat], pred : [Node -> Seq(net[m])],
             arcs : SUBSET net[m], list : Seq(Node)]

\* The nodes that have been reached.
Reached(t, root, n) == n = root \/ t.pred[n] # <<>>

\* The predecessors lead to the root: labels fall along them, whichever were
\* corrected. What was seen, and what is to be expanded, was reached.
Rooted(m, root) ==
  {t \in Trees(m) :
     /\ t.label[root] = 0 /\ t.pred[root] = <<>>
     /\ \A n \in Node : t.pred[n] # <<>> => \E a \in net[m] :
          /\ t.pred[n] = <<a>> /\ a[2] = n
          /\ t.label[a[1]] < t.label[n] /\ Reached(t, root, a[1])
     /\ \A a \in t.arcs : Reached(t, root, a[1])
     /\ \A n \in Range(t.list) : Reached(t, root, n)}

\* The elements of a sequence.
LEMMA RangeOf ==
  ASSUME NEW S, NEW s \in Seq(S)
  PROVE  /\ Range(s) = {s[k] : k \in 1 .. Len(s)} /\ Range(s) \subseteq S
         /\ Len(s) \in Nat
BY DEF Range

\* One more element.
LEMMA AppendRange ==
  ASSUME NEW S, NEW s \in Seq(S), NEW e \in S
  PROVE  Range(Append(s, e)) = Range(s) \cup {e}
<1> DEFINE t == Append(s, e)
<1>1. /\ t \in Seq(S) /\ Len(t) = Len(s) + 1 /\ \A k \in 1 .. Len(s) : t[k] = s[k]
      /\ t[Len(s) + 1] = e /\ Len(s) \in Nat
  BY AppendProperties, LenProperties
<1>2. Range(t) = {t[k] : k \in 1 .. Len(s) + 1}
  BY <1>1, RangeOf
<1>3. Range(s) = {s[k] : k \in 1 .. Len(s)}
  BY RangeOf
<1>4. 1 .. Len(s) + 1 = (1 .. Len(s)) \cup {Len(s) + 1}
  BY <1>1
<1> HIDE DEF t
<1>5. Range(t) = Range(s) \cup {e}
  BY <1>1, <1>2, <1>3, <1>4
<1> QED
  BY <1>5 DEF t

\* The elements of two sequences joined.
LEMMA ConcatRange ==
  ASSUME NEW S, NEW s \in Seq(S), NEW t \in Seq(S)
  PROVE  Range(s \o t) = Range(s) \cup Range(t)
<1>1. PICK u : u = s \o t
  OBVIOUS
<1>2. /\ u \in Seq(S) /\ Len(u) = Len(s) + Len(t) /\ Len(s) \in Nat /\ Len(t) \in Nat
      /\ \A k \in 1 .. Len(s) + Len(t) : u[k] = IF k <= Len(s) THEN s[k] ELSE t[k - Len(s)]
  BY <1>1, ConcatProperties, LenProperties
<1>3. /\ Range(u) = {u[k] : k \in 1 .. Len(u)} /\ Range(s) = {s[k] : k \in 1 .. Len(s)}
      /\ Range(t) = {t[k] : k \in 1 .. Len(t)}
  BY <1>2, RangeOf
<1>4. Range(u) \subseteq Range(s) \cup Range(t)
  <2> SUFFICES ASSUME NEW k \in 1 .. Len(s) + Len(t)
               PROVE  u[k] \in Range(s) \cup Range(t)
    BY <1>2, <1>3
  <2>1. CASE k <= Len(s)
    BY <1>2, <1>3, <2>1
  <2>2. CASE ~(k <= Len(s))
    <3>1. k - Len(s) \in 1 .. Len(t)
      BY <1>2, <2>2
    <3> QED
      BY <1>2, <1>3, <2>2, <3>1
  <2> QED
    BY <2>1, <2>2
<1>5. Range(s) \subseteq Range(u)
  <2> SUFFICES ASSUME NEW k \in 1 .. Len(s)
               PROVE  s[k] \in Range(u)
    BY <1>3
  <2>1. k \in 1 .. Len(s) + Len(t) /\ k <= Len(s)
    BY <1>2
  <2> QED
    BY <1>2, <1>3, <2>1
<1>6. Range(t) \subseteq Range(u)
  <2> SUFFICES ASSUME NEW k \in 1 .. Len(t)
               PROVE  t[k] \in Range(u)
    BY <1>3
  <2>1. /\ k + Len(s) \in 1 .. Len(s) + Len(t) /\ ~(k + Len(s) <= Len(s))
        /\ (k + Len(s)) - Len(s) = k
    BY <1>2
  <2>2. u[k + Len(s)] = t[k]
    BY <1>2, <2>1
  <2> QED
    BY <1>2, <1>3, <2>1, <2>2
<1> QED
  BY <1>1, <1>4, <1>5, <1>6

\* A sequence of one element.
LEMMA OneElement ==
  ASSUME NEW S, NEW e \in S
  PROVE  <<e>> \in Seq(S) /\ Len(<<e>>) = 1 /\ <<e>>[1] = e
OBVIOUS

\* Seeing an arc leaves a tree of arcs of the network.
LEMMA SeesArcs ==
  ASSUME Nets, NEW m \in Mode, NEW t \in Trees(m), NEW a \in net[m]
  PROVE  See(t, a) \in Trees(m)
<1> DEFINE through == t.label[a[1]] + Length[a]
           lower == [t.label EXCEPT ![a[2]] = through]
           list == IF t.list # <<>> /\ t.label[a[2]] <= lower[Head(t.list)]
                   THEN <<a[2]>> \o t.list ELSE Append(t.list, a[2])
<1>1. a \in Arc /\ a[1] \in Node /\ a[2] \in Node
  BY DEF Nets, Arc
<1>2. /\ t.label \in [Node -> Nat] /\ t.pred \in [Node -> Seq(net[m])]
      /\ t.arcs \in SUBSET net[m] /\ t.list \in Seq(Node)
  BY DEF Trees
<1>3. through \in Nat
  <2>1. PICK x, y : x = t.label[a[1]] /\ y = Length[a]
    OBVIOUS
  <2>2. x \in Nat
    BY <1>1, <1>2, <2>1
  <2>3. y \in Nat
    BY <1>1, <2>1, MatchingAssumption
  <2> QED
    BY <2>1, <2>2, <2>3
<1>4. lower \in [Node -> Nat]
  <2> HIDE DEF through
  <2> QED
    BY <1>1, <1>2, <1>3
<1>5. [t.pred EXCEPT ![a[2]] = <<a>>] \in [Node -> Seq(net[m])]
  <2>1. <<a>> \in Seq(net[m])
    BY OneElement
  <2> QED
    BY <1>1, <1>2, <2>1
<1>6. list \in Seq(Node)
  <2>1. <<a[2]>> \in Seq(Node)
    BY <1>1
  <2>2. <<a[2]>> \o t.list \in Seq(Node) /\ Append(t.list, a[2]) \in Seq(Node)
    BY <1>1, <1>2, <2>1, ConcatProperties, AppendProperties
  <2> QED
    BY <2>2
<1>7. CASE t.label[a[2]] <= through
  <2>1. See(t, a) = [t EXCEPT !.arcs = @ \cup {a}]
    BY <1>7 DEF See
  <2> QED
    BY <1>2, <2>1 DEF Trees
<1>8. CASE ~(t.label[a[2]] <= through)
  <2>1. See(t, a) = [label |-> lower, pred |-> [t.pred EXCEPT ![a[2]] = <<a>>],
                     arcs |-> t.arcs \cup {a}, list |-> list]
    BY <1>8 DEF See
  <2> HIDE DEF lower, list
  <2> QED
    BY <1>2, <1>4, <1>5, <1>6, <2>1 DEF Trees
<1> QED
  BY <1>7, <1>8

\* From a node that was reached the tree stays rooted, and what was reached so.
LEMMA SeesReached ==
  ASSUME Nets, NEW m \in Mode, NEW root \in Node, NEW t \in Rooted(m, root), NEW a \in net[m],
         Reached(t, root, a[1])
  PROVE  /\ See(t, a) \in Rooted(m, root)
         /\ \A n \in Node : Reached(t, root, n) => Reached(See(t, a), root, n)
<1>1. a \in Arc /\ a[1] \in Node /\ a[2] \in Node
  BY DEF Nets, Arc
<1>2. /\ t \in Trees(m) /\ t.label[root] = 0 /\ t.pred[root] = <<>>
      /\ \A b \in t.arcs : Reached(t, root, b[1])
      /\ \A n \in Range(t.list) : Reached(t, root, n)
  BY DEF Rooted
<1>3. /\ t.label \in [Node -> Nat] /\ t.pred \in [Node -> Seq(net[m])]
      /\ t.arcs \in SUBSET net[m] /\ t.list \in Seq(Node)
  BY <1>2 DEF Trees
<1>4. See(t, a) \in Trees(m)
  BY <1>2, SeesArcs
<1>5. PICK through : through = t.label[a[1]] + Length[a]
  OBVIOUS
<1>6. through \in Nat /\ t.label[a[1]] < through
  <2>1. PICK x, y : x = t.label[a[1]] /\ y = Length[a]
    OBVIOUS
  <2>2. x \in Nat
    BY <1>1, <1>3, <2>1
  <2>3. y \in Nat \ {0}
    BY <1>1, <2>1, MatchingAssumption
  <2> QED
    BY <1>5, <2>1, <2>2, <2>3
<1>7. CASE t.label[a[2]] <= through
  <2>1. See(t, a) = [t EXCEPT !.arcs = @ \cup {a}]
    BY <1>5, <1>7 DEF See
  <2>2. /\ See(t, a).label = t.label /\ See(t, a).pred = t.pred /\ See(t, a).list = t.list
        /\ See(t, a).arcs = t.arcs \cup {a}
    BY <1>2, <2>1 DEF Trees
  <2>3. \A n : Reached(See(t, a), root, n) <=> Reached(t, root, n)
    BY <2>2 DEF Reached
  <2> QED
    BY <1>2, <1>4, <2>2, <2>3 DEF Rooted
<1>8. CASE ~(t.label[a[2]] <= through)
  <2> DEFINE lower == [t.label EXCEPT ![a[2]] = through]
             list == IF t.list # <<>> /\ t.label[a[2]] <= lower[Head(t.list)]
                     THEN <<a[2]>> \o t.list ELSE Append(t.list, a[2])
  <2>1. PICK s : s = See(t, a)
    OBVIOUS
  <2>2. s = [label |-> lower, pred |-> [t.pred EXCEPT ![a[2]] = <<a>>],
             arcs |-> t.arcs \cup {a}, list |-> list]
    BY <1>5, <1>8, <2>1 DEF See
  <2>3. s.label = lower /\ s.pred = [t.pred EXCEPT ![a[2]] = <<a>>] /\ s.arcs = t.arcs \cup {a} /\ s.list = list
    <3> HIDE DEF lower, list
    <3> QED
      BY <2>2
  <2>4. a[2] # root /\ a[2] # a[1]
    BY <1>1, <1>2, <1>3, <1>6, <1>8
  <2>5. /\ s.pred[a[2]] = <<a>> /\ s.label[a[2]] = through
        /\ \A n \in Node : n # a[2] => s.pred[n] = t.pred[n] /\ s.label[n] = t.label[n]
    BY <1>1, <1>3, <2>3
  <2>6. \A n \in Node : s.label[n] <= t.label[n] /\ s.label[n] \in Nat /\ t.label[n] \in Nat
    <3> SUFFICES ASSUME NEW n \in Node
                 PROVE  s.label[n] <= t.label[n] /\ s.label[n] \in Nat /\ t.label[n] \in Nat
      OBVIOUS
    <3>1. PICK x, y : x = s.label[n] /\ y = t.label[n]
      OBVIOUS
    <3>2. y \in Nat
      BY <1>3, <3>1
    <3>3. CASE n = a[2]
      BY <1>6, <1>8, <2>5, <3>1, <3>2, <3>3
    <3>4. CASE n # a[2]
      BY <2>5, <3>1, <3>2, <3>4
    <3> QED
      BY <3>3, <3>4
  <2>7. ASSUME NEW n \in Node, Reached(t, root, n)
        PROVE  Reached(s, root, n)
    BY <2>5, <2>7 DEF Reached
  <2>8. s.label[root] = 0 /\ s.pred[root] = <<>>
    BY <1>2, <2>4, <2>5
  <2>9. ASSUME NEW n \in Node, s.pred[n] # <<>>
        PROVE  \E b \in net[m] : /\ s.pred[n] = <<b>> /\ b[2] = n
                                  /\ s.label[b[1]] < s.label[n] /\ Reached(s, root, b[1])
    <3>1. CASE n = a[2]
      <4>1. s.label[a[1]] < s.label[n] /\ Reached(s, root, a[1])
        BY <1>1, <1>6, <2>4, <2>5, <2>7, <3>1
      <4> QED
        BY <2>5, <3>1, <4>1
    <3>2. CASE n # a[2]
      <4>1. t.pred[n] # <<>>
        BY <2>5, <2>9, <3>2
      <4>2. PICK b \in net[m] : /\ t.pred[n] = <<b>> /\ b[2] = n
                                /\ t.label[b[1]] < t.label[n] /\ Reached(t, root, b[1])
        BY <4>1 DEF Rooted
      <4>3. b[1] \in Node
        BY DEF Nets, Arc
      <4>4. s.label[b[1]] <= t.label[b[1]] /\ s.label[n] = t.label[n]
        BY <2>5, <2>6, <3>2, <4>3
      <4>5. s.label[b[1]] < s.label[n]
        BY <2>6, <4>2, <4>3, <4>4
      <4> QED
        BY <2>5, <2>7, <3>2, <4>2, <4>3, <4>5
    <3> QED
      BY <3>1, <3>2
  <2>10. ASSUME NEW b \in s.arcs
         PROVE  Reached(s, root, b[1])
    <3>1. b \in net[m] /\ b[1] \in Node
      BY <1>3, <2>3 DEF Nets, Arc
    <3>2. Reached(t, root, b[1])
      BY <1>2, <2>3
    <3> QED
      BY <2>7, <3>1, <3>2
  <2>11. ASSUME NEW n \in Range(s.list)
         PROVE  Reached(s, root, n)
    <3>1. n \in Range(t.list) \cup {a[2]}
      <4>1. PICK w, v, z : w = t.list /\ v = a[2] /\ z = s.list
        OBVIOUS
      <4>2. z = <<v>> \o w \/ z = Append(w, v)
        BY <2>3, <4>1
      <4>3. w \in Seq(Node) /\ v \in Node
        BY <1>1, <1>3, <4>1
      <4>4. PICK one : one = <<v>>
        OBVIOUS
      <4>5. one \in Seq(Node) /\ Range(one) = {v}
        <5>1. one \in Seq(Node) /\ Len(one) = 1 /\ one[1] = v
          BY <4>3, <4>4
        <5>2. Range(one) = {one[k] : k \in 1 .. 1}
          BY <5>1, RangeOf
        <5> QED
          BY <5>1, <5>2
      <4>6. Range(one \o w) = Range(w) \cup {v} /\ Range(Append(w, v)) = Range(w) \cup {v}
        BY <4>3, <4>5, AppendRange, ConcatRange
      <4>7. z = one \o w \/ z = Append(w, v)
        BY <4>2, <4>4
      <4>8. Range(z) = Range(w) \cup {v}
        BY <4>6, <4>7
      <4> QED
        BY <4>1, <4>8
    <3>2. n \in Node
      BY <1>1, <1>3, <3>1, RangeOf
    <3>3. CASE n = a[2]
      BY <2>5, <3>3 DEF Reached
    <3>4. CASE n # a[2]
      BY <1>2, <2>7, <3>1, <3>2, <3>4
    <3> QED
      BY <3>3, <3>4
  <2>12. s \in Trees(m)
    BY <1>4, <2>1
  <2> QED
    BY <2>1, <2>7, <2>8, <2>9, <2>10, <2>11, <2>12 DEF Rooted
<1> QED
  BY <1>7, <1>8

\* Expanding a node leaves a rooted tree.
LEMMA Expands ==
  ASSUME Nets, NEW m \in Mode, NEW root \in Node, NEW t \in Rooted(m, root), t.list # <<>>,
         NEW u, u = Head(t.list)
  PROVE  Expand(m, t, u) \in Rooted(m, root)
<1> DEFINE start == [t EXCEPT !.list = Tail(@)]
           V == {s \in Rooted(m, root) : Reached(s, root, u)}
           D == {n \in Node : <<u, n>> \in net[m]}
           Is(g) == g = [s \in SUBSET D |-> IF s = {} THEN start
                          ELSE LET x == Max(s) IN See(g[s \ {x}], <<u, x>>)]
           op == [p \in V \X D |-> See(p[1], <<u, p[2]>>)]
<1>1. D \in SUBSET Nat /\ D \in SUBSET Node /\ IsFiniteSet(D)
  <2>1. D \subseteq Node
    OBVIOUS
  <2> HIDE DEF D
  <2> QED
    BY <2>1, ExtractAssumption, FS_Subset
<1>2. start \in V
  <2>1. /\ t \in Trees(m) /\ t.label[root] = 0 /\ t.pred[root] = <<>>
        /\ \A n \in Node : t.pred[n] # <<>> => \E a \in net[m] :
             /\ t.pred[n] = <<a>> /\ a[2] = n
             /\ t.label[a[1]] < t.label[n] /\ Reached(t, root, a[1])
        /\ \A a \in t.arcs : Reached(t, root, a[1])
        /\ \A n \in Range(t.list) : Reached(t, root, n)
    BY DEF Rooted
  <2>2. t.list \in Seq(Node)
    BY <2>1 DEF Trees
  <2>3. Tail(t.list) \in Seq(Node) /\ Range(Tail(t.list)) \subseteq Range(t.list) /\ u \in Range(t.list)
    BY <2>2 DEF Range
  <2>4. PICK s : s = start
    OBVIOUS
  <2>5. /\ s \in Trees(m) /\ s.label = t.label /\ s.pred = t.pred /\ s.arcs = t.arcs
        /\ s.list = Tail(t.list)
    BY <2>1, <2>3, <2>4 DEF Trees
  <2>6. \A n : Reached(s, root, n) <=> Reached(t, root, n)
    BY <2>5 DEF Reached
  <2>7. s \in Rooted(m, root)
    <3>1. \A n \in Node : s.pred[n] # <<>> => \E a \in net[m] :
             /\ s.pred[n] = <<a>> /\ a[2] = n
             /\ s.label[a[1]] < s.label[n] /\ Reached(s, root, a[1])
      BY <2>1, <2>5, <2>6
    <3>2. \A a \in s.arcs : Reached(s, root, a[1])
      BY <2>1, <2>5, <2>6
    <3>3. \A n \in Range(s.list) : Reached(s, root, n)
      BY <2>1, <2>3, <2>5, <2>6
    <3> QED
      BY <2>1, <2>5, <3>1, <3>2, <3>3 DEF Rooted
  <2>8. Reached(s, root, u)
    BY <2>1, <2>3, <2>6
  <2> QED
    BY <2>4, <2>7, <2>8
<1>3. \A s \in V : \A x \in D : See(s, <<u, x>>) \in V
  <2>1. u \in Node
    <3>1. t.list \in Seq(Node)
      BY DEF Rooted, Trees
    <3> QED
      BY <3>1
  <2> SUFFICES ASSUME NEW s \in V, NEW a \in net[m], a[1] = u
               PROVE  See(s, a) \in V
    OBVIOUS
  <2> QED
    BY <2>1, SeesReached
<1>4. op \in [V \X D -> V]
  <2> HIDE DEF D, V
  <2>1. \A p \in V \X D : See(p[1], <<u, p[2]>>) \in V
    BY <1>3
  <2> QED
    BY <2>1
<1>5. PICK f \in [SUBSET D -> V] : Carried(f, op, start, D)
  <2> HIDE DEF D, op, start, V
  <2> QED
    BY <1>1, <1>2, <1>4, FoldExists
<1>6. \A S \in SUBSET D : S # {} => Max(S) \in D /\ S \ {Max(S)} \in SUBSET D
  <2> HIDE DEF D
  <2>1. \A S \in SUBSET D : S # {} => Max(S) \in S /\ S \ {Max(S)} \in SUBSET D
    BY <1>1, LessOne
  <2> QED
    BY <2>1
<1>7. Is(f)
  <2> HIDE DEF D, V
  <2>1. ASSUME NEW S \in SUBSET D
        PROVE  f[S] = IF S = {} THEN start ELSE See(f[S \ {Max(S)}], <<u, Max(S)>>)
    <3>1. CASE S = {}
      BY <1>5, <3>1 DEF Carried
    <3>2. CASE S # {}
      <4>1. PICK x \in D, T \in SUBSET D : x = Max(S) /\ T = S \ {Max(S)}
        BY <1>6, <3>2
      <4>2. f[T] \in V /\ f[S] = op[<<f[T], x>>]
        BY <1>5, <3>2, <4>1 DEF Carried
      <4> QED
        BY <3>2, <4>1, <4>2
    <3> QED
      BY <3>1, <3>2
  <2>2. f = [S \in SUBSET D |-> f[S]]
    OBVIOUS
  <2> QED
    BY <2>1, <2>2
<1>8. PICK g : g = CHOOSE h : Is(h)
  OBVIOUS
<1>9. Is(g)
  <2> HIDE DEF Is
  <2> QED
    BY <1>7, <1>8
<1>10. Expand(m, t, u) = g[D]
  BY <1>8 DEF Expand, InOrder, MapThenFoldSet
<1>11. g[{}] \in V
  BY <1>2, <1>9
<1>12. ASSUME NEW S \in SUBSET D, S # {}, g[S \ {Max(S)}] \in V
       PROVE  g[S] \in V
  <2> HIDE DEF D, V
  <2>1. g[S] = See(g[S \ {Max(S)}], <<u, Max(S)>>)
    BY <1>9, <1>12
  <2> QED
    BY <1>3, <1>6, <1>12, <2>1
<1>13. g[D] \in V
  <2> HIDE DEF D, V
  <2> QED
    BY <1>1, <1>11, <1>12, FoldStays
<1> QED
  BY <1>10, <1>13

\* A search, in as many rounds as there may be, makes a tree of arcs of its network.
LEMMA Searches ==
  ASSUME Nets, NEW m \in Mode, NEW root \in Node, NEW g, NEW p
  PROVE  Search(m, root, g, p) \in Rooted(m, root)
<1> DEFINE K == SearchRounds
           V == Rooted(m, root)
           start == [label |-> [n \in Node |-> IF n = root THEN 0 ELSE DBL_MAX],
                     pred |-> [n \in Node |-> <<>>], arcs |-> {}, list |-> <<root>>]
           Do(t) == IF t.list = <<>> \/ AboveCeil(t.label[Head(t.list)], g, p) THEN t
                    ELSE Expand(m, t, Head(t.list))
           step == [t \in V |-> Do(t)]
           Is(r) == r = [k \in 0 .. K |-> IF k = 0 THEN start ELSE
                         LET t == r[k-1] IN IF t.list = <<>> \/ AboveCeil(t.label[Head(t.list)], g, p) THEN t
                                            ELSE Expand(m, t, Head(t.list))]
<1>1. K \in Nat
  <2>1. Cardinality(Node) \in Nat
    BY ExtractAssumption, FS_CardinalityType
  <2> QED
    BY <2>1 DEF SearchRounds
<1>2. start \in V
  <2>1. [n \in Node |-> IF n = root THEN 0 ELSE DBL_MAX] \in [Node -> Nat]
    BY MatchingAssumption
  <2>2. <<>> \in Seq(net[m]) /\ <<root>> \in Seq(Node)
    OBVIOUS
  <2>3. [n \in Node |-> <<>>] \in [Node -> Seq(net[m])]
    BY <2>2
  <2>4. PICK s : s = start
    OBVIOUS
  <2>5. s \in Trees(m) /\ s.label[root] = 0 /\ s.arcs = {} /\ s.list = <<root>> /\ \A n \in Node : s.pred[n] = <<>>
    BY <2>1, <2>2, <2>3, <2>4 DEF Trees
  <2>6. \A n \in Range(s.list) : Reached(s, root, n)
    BY <2>5 DEF Range, Reached
  <2> QED
    BY <2>4, <2>5, <2>6 DEF Rooted
<1>3. \A t \in V : Do(t) \in V
  <2> SUFFICES ASSUME NEW t \in V, t.list # <<>>
               PROVE  Expand(m, t, Head(t.list)) \in V
    OBVIOUS
  <2> QED
    BY Expands
<1>4. step \in [V -> V]
  <2> HIDE DEF V, Do
  <2> QED
    BY <1>3
<1>5. PICK f : Iterated(f, K, V, start, step)
  <2> HIDE DEF V, step, start, K
  <2> QED
    BY <1>1, <1>2, <1>4, Iterates
<1>6. Is(f)
  <2>1. ASSUME NEW k \in 0 .. K
        PROVE  f[k] = IF k = 0 THEN start ELSE Do(f[k-1])
    <3> HIDE DEF V, start, Do, K
    <3>1. CASE k = 0
      BY <1>5, <3>1 DEF Iterated
    <3>2. CASE k # 0
      <4>1. k \in 1 .. K /\ k - 1 \in 0 .. K
        BY <1>1, <3>2
      <4> QED
        BY <1>5, <3>2, <4>1 DEF Iterated
    <3> QED
      BY <3>1, <3>2
  <2>2. f = [k \in 0 .. K |-> f[k]]
    BY <1>5 DEF Iterated
  <2> HIDE DEF start, K
  <2> QED
    BY <2>1, <2>2
<1>7. PICK r : r = CHOOSE h : Is(h)
  OBVIOUS
<1>8. Is(r)
  <2> HIDE DEF Is
  <2> QED
    BY <1>6, <1>7
<1>9. r[K] \in V
  <2> DEFINE T == {k \in 0 .. K : r[k] \in V}
  <2>1. r[0] = start /\ \A k \in 1 .. K : r[k] = Do(r[k-1])
    <3>1. 0 \in 0 .. K /\ \A k \in 1 .. K : k \in 0 .. K /\ k # 0
      BY <1>1
    <3>2. \A k \in 0 .. K : r[k] = IF k = 0 THEN start ELSE Do(r[k-1])
      <4> HIDE DEF K, start
      <4> QED
        BY <1>8
    <3> HIDE DEF Do, K, start
    <3> QED
      BY <3>1, <3>2
  <2> HIDE DEF Do, V, start, K
  <2>2. 0 \in T /\ K \in 0 .. K
    BY <1>1, <1>2, <2>1
  <2>3. \A k \in 1 .. K : k - 1 \in T => k \in T
    BY <1>1, <1>3, <2>1
  <2>4. T \in SUBSET (0 .. K)
    OBVIOUS
  <2>5. \A k \in 0 .. K : k \in T
    <3> HIDE DEF T
    <3> QED
      BY <1>1, <2>2, <2>3, <2>4, AllNumbers
  <2> QED
    BY <2>2, <2>5
<1>10. Search(m, root, g, p) = r[K]
  BY <1>7 DEF Search
<1> QED
  BY <1>9, <1>10

\* Where a route read back so far starts.
From(dest, s) == IF s = <<>> THEN dest ELSE Head(s)[1]

\* A route is read back arc by arc, all of them of the tree's network.
LEMMA ReadBack ==
  ASSUME Nets, NEW m \in Mode, NEW pred \in [Node -> Seq(net[m])], NEW dest \in Node
  PROVE  LET K == Cardinality(Node)
         IN  \E r : /\ r[0] = <<>> /\ RouteTo(pred, dest) = r[K]
                    /\ \A k \in 0 .. K : r[k] \in Seq(net[m])
                    /\ \A k \in 1 .. K : r[k] = pred[From(dest, r[k-1])] \o r[k-1]
<1> DEFINE K == Cardinality(Node)
           V == Seq(net[m])
           Do(s) == pred[IF s = <<>> THEN dest ELSE Head(s)[1]] \o s
           step == [s \in V |-> Do(s)]
           Is(r) == r = [k \in 0 .. K |-> IF k = 0 THEN <<>> ELSE
                         LET s == r[k-1]
                             at == pred[IF s = <<>> THEN dest ELSE Head(s)[1]] IN at \o s]
<1>1. K \in Nat
  BY ExtractAssumption, FS_CardinalityType
<1>2. <<>> \in V
  OBVIOUS
<1>3. \A s \in V : Do(s) \in V
  <2> SUFFICES ASSUME NEW s \in V
               PROVE  Do(s) \in V
    OBVIOUS
  <2>1. s # <<>> => Head(s) \in net[m]
    BY HeadTailProperties
  <2>2. s # <<>> => Head(s)[1] \in Node
    BY <2>1 DEF Nets, Arc
  <2>3. PICK n \in Node : n = IF s = <<>> THEN dest ELSE Head(s)[1]
    BY <2>2
  <2>4. pred[n] \o s \in V
    BY ConcatProperties
  <2> QED
    BY <2>3, <2>4
<1>4. step \in [V -> V]
  <2> HIDE DEF V, Do
  <2> QED
    BY <1>3
<1>5. PICK f : Iterated(f, K, V, <<>>, step)
  <2> HIDE DEF V, step, K
  <2> QED
    BY <1>1, <1>2, <1>4, Iterates
<1>6. Is(f)
  <2>1. ASSUME NEW k \in 0 .. K
        PROVE  f[k] = IF k = 0 THEN <<>> ELSE Do(f[k-1])
    <3> HIDE DEF V, Do, K
    <3>1. CASE k = 0
      BY <1>5, <3>1 DEF Iterated
    <3>2. CASE k # 0
      <4>1. k \in 1 .. K /\ k - 1 \in 0 .. K
        BY <1>1, <3>2
      <4> QED
        BY <1>5, <3>2, <4>1 DEF Iterated
    <3> QED
      BY <3>1, <3>2
  <2>2. f = [k \in 0 .. K |-> f[k]]
    BY <1>5 DEF Iterated
  <2> HIDE DEF K
  <2> QED
    BY <2>1, <2>2
<1>7. PICK r : r = CHOOSE h : Is(h)
  OBVIOUS
<1>8. Is(r)
  <2> HIDE DEF Is
  <2> QED
    BY <1>6, <1>7
<1>9. r[0] = <<>> /\ \A k \in 1 .. K : r[k] = Do(r[k-1])
  <2>1. 0 \in 0 .. K /\ \A k \in 1 .. K : k \in 0 .. K /\ k # 0
    BY <1>1
  <2>2. \A k \in 0 .. K : r[k] = IF k = 0 THEN <<>> ELSE Do(r[k-1])
    <3> HIDE DEF K
    <3> QED
      BY <1>8
  <2> HIDE DEF Do, K
  <2> QED
    BY <2>1, <2>2
<1>10. \A k \in 0 .. K : r[k] \in V
  <2> DEFINE T == {k \in 0 .. K : r[k] \in V}
  <2> HIDE DEF Do, V, K
  <2>1. 0 \in T
    BY <1>1, <1>2, <1>9
  <2>2. \A k \in 1 .. K : k - 1 \in T => k \in T
    BY <1>1, <1>3, <1>9
  <2>3. T \in SUBSET (0 .. K)
    OBVIOUS
  <2>4. \A k \in 0 .. K : k \in T
    <3> HIDE DEF T
    <3> QED
      BY <1>1, <2>1, <2>2, <2>3, AllNumbers
  <2> QED
    BY <2>4
<1>11. RouteTo(pred, dest) = r[K]
  BY <1>7 DEF RouteTo
<1>12. \A k \in 1 .. K : r[k] = pred[From(dest, r[k-1])] \o r[k-1]
  BY <1>9 DEF From
<1> QED
  BY <1>9, <1>10, <1>11, <1>12

\* So the route is in arcs of that network.
LEMMA Routed ==
  ASSUME Nets, NEW m \in Mode, NEW pred \in [Node -> Seq(net[m])], NEW dest \in Node
  PROVE  RouteTo(pred, dest) \in Seq(net[m])
<1>1. Cardinality(Node) \in 0 .. Cardinality(Node)
  <2>1. Cardinality(Node) \in Nat
    BY ExtractAssumption, FS_CardinalityType
  <2> QED
    BY <2>1
<1> QED
  BY <1>1, ReadBack

\* A sequence of arcs each of which starts where the one before it ends.
Joint(s) == \A k \in 1 .. Len(s) - 1 : s[k][2] = s[k+1][1]

\* One arc more in front.
LEMMA JointFront ==
  ASSUME NEW S, NEW s \in Seq(S), Joint(s), NEW a \in S, s # <<>> => a[2] = s[1][1]
  PROVE  /\ <<a>> \o s \in Seq(S) /\ <<a>> \o s # <<>> /\ Joint(<<a>> \o s) /\ Head(<<a>> \o s) = a
         /\ Last(<<a>> \o s) = IF s = <<>> THEN a ELSE Last(s)
<1>1. PICK one, u, n : one = <<a>> /\ u = one \o s /\ n = Len(s)
  OBVIOUS
<1>2. one \in Seq(S) /\ Len(one) = 1 /\ one[1] = a
  BY <1>1, OneElement
<1>3. /\ u \in Seq(S) /\ Len(u) = n + 1 /\ n \in Nat
      /\ \A k \in 1 .. 1 + n : u[k] = IF k <= 1 THEN a ELSE s[k - 1]
  BY <1>1, <1>2, ConcatProperties, LenProperties
<1>4. u[1] = a /\ \A k \in 1 .. n : u[k + 1] = s[k]
  <2>1. 1 \in 1 .. 1 + n /\ \A k \in 1 .. n : k + 1 \in 1 .. 1 + n /\ ~(k + 1 <= 1) /\ (k + 1) - 1 = k
    BY <1>3
  <2> QED
    BY <1>3, <2>1
<1>5. u # <<>> /\ Head(u) = a
  BY <1>3, <1>4, EmptySeq
<1>6. Joint(u)
  <2> SUFFICES ASSUME NEW k \in 1 .. n
               PROVE  u[k][2] = u[k+1][1]
    BY <1>3 DEF Joint
  <2>1. CASE k = 1
    <3>1. s # <<>>
      BY <1>1, <1>3, EmptySeq
    <3> QED
      BY <1>4, <2>1, <3>1
  <2>2. CASE k # 1
    <3>1. k - 1 \in 1 .. n - 1 /\ k - 1 \in 1 .. n /\ (k - 1) + 1 = k
      BY <1>3, <2>2
    <3>2. u[k] = s[k-1] /\ u[k+1] = s[k]
      BY <1>4, <3>1
    <3>3. s[k-1][2] = s[k][1]
      BY <1>1, <3>1 DEF Joint
    <3> QED
      BY <3>2, <3>3
  <2> QED
    BY <2>1, <2>2
<1>7. Last(u) = IF s = <<>> THEN a ELSE Last(s)
  <2>1. CASE s = <<>>
    <3>1. n = 0
      BY <1>1, <2>1
    <3> QED
      BY <1>3, <1>4, <2>1, <3>1 DEF Last
  <2>2. CASE s # <<>>
    <3>1. n \in 1 .. n
      BY <1>1, <1>3, <2>2, EmptySeq
    <3> QED
      BY <1>1, <1>3, <1>4, <2>2, <3>1 DEF Last
  <2> QED
    BY <2>1, <2>2
<1> QED
  BY <1>1, <1>3, <1>5, <1>6, <1>7

\* How many nodes have labels below that of a node.
Below(t, n) == Cardinality({x \in Node : t.label[x] < t.label[n]})

LEMMA BelowFalls ==
  ASSUME NEW m \in Mode, NEW t \in Trees(m), NEW n \in Node
  PROVE  /\ Below(t, n) \in Nat /\ Below(t, n) <= Cardinality(Node) - 1
         /\ \A o \in Node : t.label[o] < t.label[n] => Below(t, o) < Below(t, n)
<1> DEFINE lower(o) == {x \in Node : t.label[x] < t.label[o]}
<1>1. t.label \in [Node -> Nat]
  BY DEF Trees
<1>2. IsFiniteSet(Node) /\ Cardinality(Node) \in Nat
  BY ExtractAssumption, FS_CardinalityType
<1>3. \A o \in Node : /\ lower(o) \subseteq Node /\ IsFiniteSet(lower(o)) /\ Cardinality(lower(o)) \in Nat
                      /\ o \notin lower(o)
  <2> SUFFICES ASSUME NEW o \in Node
               PROVE  /\ lower(o) \subseteq Node /\ IsFiniteSet(lower(o)) /\ Cardinality(lower(o)) \in Nat
                      /\ o \notin lower(o)
    OBVIOUS
  <2>1. lower(o) \subseteq Node
    OBVIOUS
  <2>2. o \notin lower(o)
    BY <1>1
  <2> HIDE DEF lower
  <2> QED
    BY <1>2, <2>1, <2>2, FS_Subset, FS_CardinalityType
<1>4. Cardinality(lower(n)) <= Cardinality(Node) - 1
  <2> HIDE DEF lower
  <2>1. Cardinality(lower(n)) <= Cardinality(Node) /\ Cardinality(lower(n)) # Cardinality(Node)
    BY <1>2, <1>3, FS_Subset
  <2> QED
    BY <1>2, <1>3, <2>1
<1>5. ASSUME NEW o \in Node, t.label[o] < t.label[n]
      PROVE  Cardinality(lower(o)) < Cardinality(lower(n))
  <2>1. lower(o) \subseteq lower(n) /\ o \in lower(n)
    <3>1. \A x \in Node : t.label[x] \in Nat
      BY <1>1
    <3> QED
      BY <1>5, <3>1
  <2> HIDE DEF lower
  <2>2. Cardinality(lower(o)) <= Cardinality(lower(n)) /\ Cardinality(lower(o)) # Cardinality(lower(n))
    BY <1>3, <2>1, FS_Subset
  <2> QED
    BY <1>3, <2>2
<1> QED
  BY <1>3, <1>4, <1>5 DEF Below

\* Joined arcs of a network, to dest from a node that has been reached.
Backwards(m, t, root, dest) ==
  {s \in Seq(net[m]) : /\ Joint(s) /\ Reached(t, root, From(dest, s)) /\ From(dest, s) \in Node
                       /\ s # <<>> => Last(s)[2] = dest}

\* Such a route, unless it is from the root, gets longer by one arc, and nearer to the root.
LEMMA LeadsBack ==
  ASSUME Nets, NEW m \in Mode, NEW root \in Node, NEW t \in Rooted(m, root), NEW dest \in Node,
         NEW s \in Backwards(m, t, root, dest)
  PROVE  LET longer == t.pred[From(dest, s)] \o s
         IN  /\ longer \in Backwards(m, t, root, dest)
             /\ \/ From(dest, s) = root /\ From(dest, longer) = root
                \/ Below(t, From(dest, longer)) < Below(t, From(dest, s))
<1>1. PICK n \in Node : n = From(dest, s)
  BY DEF Backwards
<1>2. /\ s \in Seq(net[m]) /\ Joint(s) /\ Reached(t, root, n) /\ (s # <<>> => Last(s)[2] = dest)
  BY <1>1 DEF Backwards
<1>3. CASE n = root
  <2>1. t.pred[n] = <<>>
    BY <1>3 DEF Rooted
  <2>2. t.pred[n] \o s = s
    BY <1>2, <2>1, ConcatEmptySeq
  <2> QED
    BY <1>1, <1>3, <2>2
<1>4. CASE n # root
  <2>1. t.pred[n] # <<>>
    BY <1>2, <1>4 DEF Reached
  <2>2. PICK a \in net[m] : /\ t.pred[n] = <<a>> /\ a[2] = n
                            /\ t.label[a[1]] < t.label[n] /\ Reached(t, root, a[1])
    BY <2>1 DEF Rooted
  <2>3. a[1] \in Node
    BY DEF Nets, Arc
  <2>4. s # <<>> => a[2] = s[1][1]
    BY <1>1, <1>2, <2>2 DEF From
  <2>5. PICK u : u = <<a>> \o s
    OBVIOUS
  <2>6. /\ u \in Seq(net[m]) /\ u # <<>> /\ Joint(u) /\ Head(u) = a
        /\ Last(u) = IF s = <<>> THEN a ELSE Last(s)
    <3>1. PICK S : S = net[m]
      OBVIOUS
    <3>2. a \in S /\ s \in Seq(S)
      BY <1>2, <3>1
    <3>3. /\ <<a>> \o s \in Seq(S) /\ <<a>> \o s # <<>> /\ Joint(<<a>> \o s) /\ Head(<<a>> \o s) = a
          /\ Last(<<a>> \o s) = IF s = <<>> THEN a ELSE Last(s)
      BY <1>2, <2>4, <3>2, JointFront
    <3> QED
      BY <2>5, <3>1, <3>3
  <2>7. From(dest, u) = a[1]
    BY <2>6 DEF From
  <2>8. Last(u)[2] = dest
    BY <1>1, <1>2, <2>2, <2>6 DEF From
  <2>9. u \in Backwards(m, t, root, dest)
    BY <2>2, <2>3, <2>6, <2>7, <2>8 DEF Backwards
  <2>10. Below(t, a[1]) < Below(t, n)
    BY <2>2, <2>3, BelowFalls DEF Rooted
  <2> QED
    BY <1>1, <2>2, <2>5, <2>7, <2>9, <2>10
<1> QED
  BY <1>3, <1>4

\* A node that has been reached is led to from the root.
LEMMA RouteFromRoot ==
  ASSUME Nets, NEW m \in Mode, NEW root \in Node, NEW t \in Rooted(m, root), NEW dest \in Node,
         Reached(t, root, dest)
  PROVE  LET s == RouteTo(t.pred, dest)
         IN  s \in Backwards(m, t, root, dest) /\ From(dest, s) = root
<1>1. PICK K : K = Cardinality(Node)
  OBVIOUS
<1>2. K \in Nat
  BY <1>1, ExtractAssumption, FS_CardinalityType
<1>3. t \in Trees(m) /\ t.pred \in [Node -> Seq(net[m])]
  BY DEF Rooted, Trees
<1>4. PICK r : /\ r[0] = <<>> /\ RouteTo(t.pred, dest) = r[K]
               /\ \A k \in 1 .. K : r[k] = t.pred[From(dest, r[k-1])] \o r[k-1]
  <2>1. PICK pred \in [Node -> Seq(net[m])] : pred = t.pred
    BY <1>3
  <2>2. \E r : /\ r[0] = <<>> /\ RouteTo(pred, dest) = r[Cardinality(Node)]
               /\ \A k \in 0 .. Cardinality(Node) : r[k] \in Seq(net[m])
               /\ \A k \in 1 .. Cardinality(Node) : r[k] = pred[From(dest, r[k-1])] \o r[k-1]
    BY ReadBack
  <2> QED
    BY <1>1, <2>1, <2>2
<1> DEFINE at(k) == From(dest, r[k])
           Z == {k \in 0 .. K : /\ r[k] \in Backwards(m, t, root, dest)
                                /\ at(k) = root \/ Below(t, at(k)) + k <= K - 1}
<1>5. 0 \in Z
  <2>1. From(dest, <<>>) = dest /\ Joint(<<>>) /\ <<>> \in Seq(net[m])
    BY DEF From, Joint
  <2>2. <<>> \in Backwards(m, t, root, dest)
    BY <2>1 DEF Backwards
  <2>3. Below(t, dest) + 0 <= K - 1
    BY <1>1, <1>2, <1>3, BelowFalls
  <2> QED
    BY <1>2, <1>4, <2>1, <2>2, <2>3
<1>6. ASSUME NEW k \in 1 .. K, k - 1 \in Z
      PROVE  k \in Z
  <2>1. PICK s : s = r[k-1]
    OBVIOUS
  <2>2. s \in Backwards(m, t, root, dest) /\ (From(dest, s) = root \/ Below(t, From(dest, s)) + (k - 1) <= K - 1)
    BY <1>6, <2>1
  <2>3. PICK u : u = t.pred[From(dest, s)] \o s
    OBVIOUS
  <2>4. /\ u \in Backwards(m, t, root, dest)
        /\ \/ From(dest, s) = root /\ From(dest, u) = root
           \/ Below(t, From(dest, u)) < Below(t, From(dest, s))
    BY <2>2, <2>3, LeadsBack
  <2>5. r[k] = u
    BY <1>4, <2>1, <2>3
  <2>6. k \in 0 .. K /\ k \in Nat
    BY <1>2
  <2>7. PICK x, y : x = From(dest, s) /\ y = From(dest, u)
    OBVIOUS
  <2>8. x \in Node /\ y \in Node
    BY <2>2, <2>4, <2>7 DEF Backwards
  <2>9. Below(t, x) \in Nat /\ Below(t, y) \in Nat
    BY <1>3, <2>8, BelowFalls
  <2>10. y = root \/ Below(t, y) + k <= K - 1
    <3>1. CASE x = root /\ y # root
      \* Nothing is below the root.
      <4>1. Below(t, y) < Below(t, x)
        BY <2>4, <2>7, <3>1
      <4>2. {z \in Node : t.label[z] < t.label[root]} = {}
        <5>1. t.label[root] = 0 /\ \A z \in Node : t.label[z] \in Nat
          BY <1>3 DEF Rooted, Trees
        <5> QED
          BY <5>1
      <4>3. Below(t, root) = 0
        BY <4>2, FS_EmptySet DEF Below
      <4> QED
        BY <2>9, <3>1, <4>1, <4>3
    <3>2. CASE x # root /\ y # root
      <4>1. Below(t, y) < Below(t, x) /\ Below(t, x) + (k - 1) <= K - 1
        BY <2>2, <2>4, <2>7, <3>2
      <4>2. PICK p, q : p = Below(t, y) /\ q = Below(t, x)
        OBVIOUS
      <4>3. p + k <= K - 1
        BY <1>2, <2>6, <2>9, <4>1, <4>2
      <4> QED
        BY <4>2, <4>3
    <3> QED
      BY <3>1, <3>2
  <2> QED
    BY <2>4, <2>5, <2>6, <2>7, <2>10
<1>7. K \in Z
  <2>1. Z \in SUBSET (0 .. K) /\ K \in 0 .. K
    BY <1>2
  <2> HIDE DEF Z
  <2> QED
    BY <1>2, <1>5, <1>6, <2>1, AllNumbers
<1>8. r[K] \in Backwards(m, t, root, dest) /\ (at(K) = root \/ Below(t, at(K)) + K <= K - 1)
  BY <1>7
<1>9. at(K) = root
  <2>1. at(K) \in Node
    BY <1>8 DEF Backwards
  <2>2. Below(t, at(K)) \in Nat
    BY <1>3, <2>1, BelowFalls
  <2> HIDE DEF at
  <2> QED
    BY <1>2, <1>8, <2>2
<1> QED
  BY <1>4, <1>8, <1>9

\* The routes to the arcs seen, and over them, are paths in the networks.
LEMMA DownStreamsTyped ==
  ASSUME Nets, NEW m \in Mode, NEW t \in Trees(m), NEW seen \in SUBSET net[m]
  PROVE  DownStreams(m, t, seen) \in SUBSET (Seq(net[m] \X {m}) \ {<<>>})
<1> SUFFICES ASSUME NEW a \in seen
             PROVE  LET arcs == Append(RouteTo(t.pred, a[1]), a)
                    IN  [k \in DOMAIN arcs |-> <<arcs[k], m>>] \in Seq(net[m] \X {m}) \ {<<>>}
  BY DEF DownStreams
<1> DEFINE arcs == Append(RouteTo(t.pred, a[1]), a)
           out == [k \in DOMAIN arcs |-> <<arcs[k], m>>]
<1>1. a \in net[m] /\ a[1] \in Node /\ t.pred \in [Node -> Seq(net[m])]
  BY DEF Nets, Arc, Trees
<1>2. RouteTo(t.pred, a[1]) \in Seq(net[m])
  BY <1>1, Routed
<1>3. arcs \in Seq(net[m]) /\ Len(arcs) \in Nat /\ Len(arcs) # 0
  <2>1. PICK route \in Seq(net[m]) : route = RouteTo(t.pred, a[1])
    BY <1>2
  <2>2. Append(route, a) \in Seq(net[m]) /\ Len(Append(route, a)) = Len(route) + 1 /\ Len(route) \in Nat
    BY <1>1
  <2> QED
    BY <2>1, <2>2
<1> HIDE DEF arcs
<1>4. out \in Seq(net[m] \X {m}) /\ Len(out) = Len(arcs)
  BY <1>3
<1>5. out # <<>>
  BY <1>3, <1>4
<1> QED
  BY <1>4, <1>5 DEF arcs

\* The routes to the arcs seen, and over them, lead there from the root.
LEMMA DownStreamsLead ==
  ASSUME Nets, NEW m \in Mode, NEW root \in Node, NEW t \in Rooted(m, root),
         NEW seen \in SUBSET t.arcs
  PROVE  \A d \in DownStreams(m, t, seen) :
           /\ \A k \in DOMAIN d : d[k][2] = m /\ d[k][1] \in net[m]
           /\ IsValid(d) /\ UpNode(d) = root /\ Last(d)[1] \in seen /\ Last(d)[2] = m
<1> SUFFICES ASSUME NEW d \in DownStreams(m, t, seen)
             PROVE  /\ \A k \in DOMAIN d : d[k][2] = m /\ d[k][1] \in net[m]
                    /\ IsValid(d) /\ UpNode(d) = root /\ Last(d)[1] \in seen /\ Last(d)[2] = m
  OBVIOUS
<1>1. PICK a \in seen : d = LET arcs == Append(RouteTo(t.pred, a[1]), a)
                            IN  [k \in DOMAIN arcs |-> <<arcs[k], m>>]
  BY DEF DownStreams
<1>2. a \in net[m] /\ Reached(t, root, a[1]) /\ a[1] \in Node
  BY DEF Rooted, Trees, Nets, Arc
<1>3. PICK s : s = RouteTo(t.pred, a[1])
  OBVIOUS
<1>4. s \in Backwards(m, t, root, a[1]) /\ From(a[1], s) = root
  BY <1>2, <1>3, RouteFromRoot
<1>5. s \in Seq(net[m]) /\ Joint(s) /\ (s # <<>> => Last(s)[2] = a[1])
  BY <1>4 DEF Backwards
<1>6. PICK u, n : u = Append(s, a) /\ n = Len(s)
  OBVIOUS
<1>7. /\ u \in Seq(net[m]) /\ Len(u) = n + 1 /\ n \in Nat /\ u[n + 1] = a
      /\ \A k \in 1 .. n : u[k] = s[k]
  BY <1>2, <1>5, <1>6, AppendProperties, LenProperties
<1>8. DOMAIN u = 1 .. n + 1 /\ \A k \in 1 .. n + 1 : u[k] \in net[m]
  BY <1>7
<1>9. d = [k \in 1 .. n + 1 |-> <<u[k], m>>]
  BY <1>1, <1>3, <1>6, <1>8
<1>10. DOMAIN d = 1 .. n + 1 /\ Len(d) = n + 1 /\ \A k \in 1 .. n + 1 : d[k][1] = u[k] /\ d[k][2] = m
  BY <1>7, <1>9
<1>11. IsValid(d)
  <2> SUFFICES ASSUME NEW k \in 1 .. n
               PROVE  d[k][1][2] = d[k+1][1][1]
    BY <1>7, <1>10 DEF IsValid
  <2>1. k \in 1 .. n + 1 /\ k + 1 \in 1 .. n + 1
    BY <1>7
  <2> SUFFICES u[k][2] = u[k+1][1]
    BY <1>10, <2>1
  <2>2. CASE k = n
    <3>1. s # <<>> /\ Last(s) = s[n]
      BY <1>6, <1>7, <2>2 DEF Last
    <3> QED
      BY <1>5, <1>7, <2>2, <3>1
  <2>3. CASE k # n
    <3>1. k \in 1 .. n - 1 /\ k + 1 \in 1 .. n
      BY <1>7, <2>3
    <3> QED
      BY <1>5, <1>6, <1>7, <3>1 DEF Joint
  <2> QED
    BY <2>2, <2>3
<1>12. UpNode(d) = root
  <2>1. UpNode(d) = u[1][1]
    BY <1>7, <1>10 DEF UpNode
  <2>2. CASE s = <<>>
    BY <1>4, <1>6, <1>7, <2>1, <2>2 DEF From
  <2>3. CASE s # <<>>
    <3>1. 1 \in 1 .. n
      BY <1>5, <1>6, <1>7, <2>3, EmptySeq
    <3> QED
      BY <1>4, <1>7, <2>1, <2>3, <3>1 DEF From
  <2> QED
    BY <2>2, <2>3
<1>13. Last(d)[1] = a /\ Last(d)[2] = m
  BY <1>7, <1>10 DEF Last
<1> QED
  BY <1>8, <1>10, <1>11, <1>12, <1>13

-----------------------------------------------------------------------------
(* Selection: whatever is selected was there.                              *)

\* A union of choices of subsets is a subset.
LEMMA UnionsWithin ==
  ASSUME NEW cs, NEW families, \A F \in families : F \subseteq SUBSET cs
  PROVE  Unions(families) \subseteq SUBSET cs
<1> SUFFICES ASSUME NEW f \in [families -> UNION families], \A F \in families : f[F] \in F,
                    NEW x \in UNION Range(f)
             PROVE  x \in cs
  BY DEF Unions, Choices
<1>1. PICK F \in families : x \in f[F]
  BY DEF Range
<1>2. f[F] \subseteq cs
  <2>1. f[F] \in F /\ F \subseteq SUBSET cs
    OBVIOUS
  <2> QED
    BY <2>1
<1> QED
  BY <1>1, <1>2

\* Samples are taken from the candidates.
LEMMA SamplesWithin ==
  ASSUME NEW cs, NEW some \in SUBSET cs, NEW count
  PROVE  Samples(some, count) \subseteq SUBSET cs
BY DEF Samples, kSubset

\* However candidates are selected, none is invented.
LEMMA Selects ==
  ASSUME NEW cs, NEW d
  PROVE  SelectPaths(cs, d) \subseteq SUBSET cs
<1>1. \A S \in SUBSET cs : Simplest(S) \in SUBSET cs
  BY DEF Simplest
<1>2. ASSUME NEW important
      PROVE  ByDDR(cs, important) \subseteq SUBSET cs
  <2>1. ASSUME NEW x \in important
        PROVE  Samples(Simplest(Contain(cs, x)), samplePathsByDDR) \subseteq SUBSET cs
    <3>1. Contain(cs, x) \in SUBSET cs
      BY DEF Contain
    <3> QED
      BY <1>1, <3>1, SamplesWithin
  <2>2. \A F \in {Samples(Simplest(Contain(cs, x)), samplePathsByDDR) : x \in important} :
          F \subseteq SUBSET cs
    BY <2>1
  <2> QED
    BY <2>2, UnionsWithin DEF ByDDR
<1>3. Shortest(cs) \subseteq SUBSET cs
  <2> DEFINE lengths == {GetLength(c.roads) : c \in cs}
             few == {l \in lengths : Cardinality({k \in lengths : k < l}) < selectShortestPaths}
             ofLength(l) == {c \in cs : GetLength(c.roads) = l}
             families == {{{c \in ofLength(l) : Proper(c) /\ Changes(c) = Changes(first)}
                             : first \in ofLength(l)} : l \in few}
  <2>1. Shortest(cs) = Unions(families)
    BY DEF Shortest
  <2>2. \A F \in families : F \subseteq SUBSET cs
    <3> SUFFICES ASSUME NEW l \in few, NEW first \in ofLength(l)
                 PROVE  {c \in ofLength(l) : Proper(c) /\ Changes(c) = Changes(first)} \subseteq cs
      <4> HIDE DEF few
      <4> QED
        OBVIOUS
    <3> QED
      OBVIOUS
  <2> HIDE DEF families
  <2> QED
    BY <2>1, <2>2, UnionsWithin
<1>4. ASSUME NEW important
      PROVE  Unions({Samples(cs, selectBestPaths), Samples(Simplest(cs), samplePathsByChange),
                     ByDDR(cs, important), Shortest(cs)}) \subseteq SUBSET cs
  <2>1. /\ Samples(cs, selectBestPaths) \subseteq SUBSET cs
        /\ Samples(Simplest(cs), samplePathsByChange) \subseteq SUBSET cs
    BY <1>1, SamplesWithin
  <2> QED
    BY <1>2, <1>3, <2>1, UnionsWithin
<1> QED
  <2> SUFFICES ASSUME NEW sel \in SelectPaths(cs, d)
               PROVE  sel \subseteq cs
    OBVIOUS
  <2>1. CASE Cardinality(cs) <= minGeneratedInterMediatePath
    BY <2>1 DEF SelectPaths
  <2>2. CASE ~(Cardinality(cs) <= minGeneratedInterMediatePath)
    <3>1. PICK important : sel \in Unions({Samples(cs, selectBestPaths),
                                          Samples(Simplest(cs), samplePathsByChange),
                                          ByDDR(cs, important), Shortest(cs)})
      BY <2>2 DEF SelectPaths
    <3> QED
      BY <1>4, <3>1
  <2> QED
    BY <2>1, <2>2

-----------------------------------------------------------------------------
(* Exploring: what is found from the candidates are candidates, and what   *)
(* a point takes for its domain was measured near it.                      *)

\* The arcs of the networks, in the modes that have them.
InNet == {x \in Arc \X Mode : x[1] \in net[x[2]]}

Roads == Seq(InNet) \ {<<>>}

IsCandidate(c) ==
  /\ c = [roads |-> c.roads, down |-> c.down, seq |-> c.seq, fresh |-> c.fresh, num |-> c.num]
  /\ c.roads \in Roads /\ c.down \in Seq(InNet)
  /\ c.seq \in Seq(DOMAIN trip) /\ c.fresh \in Seq(DOMAIN trip)

\* A candidate that grew: only its roads have changed.
Grew(p, roads, down) ==
  [roads |-> roads, down |-> down, seq |-> p.seq, fresh |-> p.fresh, num |-> p.num]

Grown == {Grew(p, r, w) : p \in paths, r \in Roads, w \in Seq(InNet)}

Near(g) == {x \in InNet : x[1] \in trip[g].around}


\* The state of matching, as far as a search needs it.
Exploring ==
  /\ osm \in Extract /\ Nets
  /\ trip \in Trip /\ i \in DOMAIN trip
  /\ \A c \in paths : IsCandidate(c)
  /\ ddr[i] \subseteq Near(i) /\ ddr[prevGps] \subseteq InNet

\* The end of a path is an arc of a network, its end node a node.
LEMMA LastRoads ==
  ASSUME Nets, NEW s \in Roads
  PROVE  Last(s) \in InNet /\ DownNode(s) \in Node
<1>1. s \in Seq(InNet) /\ Len(s) \in Nat \ {0}
  BY EmptySeq DEF Roads
<1>2. Last(s) \in InNet
  <2>1. Len(s) \in 1 .. Len(s)
    BY <1>1
  <2> QED
    BY <1>1, <2>1, ElementOfSeq DEF Last
<1> QED
  BY <1>2 DEF DownNode, InNet, Arc

\* Arcs of the domain were near the point, with or without its heading.
LEMMA Domains ==
  ASSUME trip \in Trip, NEW g \in DOMAIN trip, NEW lowspeed
  PROVE  DetArcs(g, lowspeed) \subseteq trip[g].around
BY MatchingAssumption DEF DetArcs

\* A candidate and the roads found from its end make a candidate.
LEMMA GrowsBy ==
  ASSUME NEW p, IsCandidate(p), NEW d \in Roads
  PROVE  /\ AddDownStream(p, d).roads \in Roads /\ AddDownStream(p, d).down \in Seq(InNet)
         /\ AddDownStream(p, d) = Grew(p, AddDownStream(p, d).roads, AddDownStream(p, d).down)
<1>1. PICK r, w, s, f, n : p = [roads |-> r, down |-> w, seq |-> s, fresh |-> f, num |-> n]
  BY DEF IsCandidate
<1>2. r \in Seq(InNet) /\ w \in Seq(InNet) /\ d \in Seq(InNet) /\ d # <<>> /\ r # <<>>
  BY <1>1 DEF IsCandidate, Roads
<1>3. w \o d \in Seq(InNet) /\ r \o d \in Seq(InNet) /\ r \o d # <<>>
  BY <1>2, ConcatProperties, ConcatEqualIffEmpty
<1>4. CASE w # <<>>
  <2>1. AddDownStream(p, d) = [roads |-> r, down |-> w \o d, seq |-> s, fresh |-> f, num |-> n]
    BY <1>1, <1>4 DEF AddDownStream
  <2>2. AddDownStream(p, d).roads = r /\ AddDownStream(p, d).down = w \o d
    BY <2>1
  <2>3. p.seq = s /\ p.fresh = f /\ p.num = n
    BY <1>1
  <2>4. AddDownStream(p, d) = Grew(p, r, w \o d)
    BY <2>1, <2>3 DEF Grew
  <2> QED
    BY <1>2, <1>3, <2>2, <2>4 DEF Roads
<1>5. CASE w = <<>>
  <2>1. AddDownStream(p, d) = [roads |-> r \o d, down |-> d, seq |-> s, fresh |-> f, num |-> n]
    BY <1>1, <1>5 DEF AddDownStream
  <2>2. AddDownStream(p, d).roads = r \o d /\ AddDownStream(p, d).down = d
    BY <2>1
  <2>3. p.seq = s /\ p.fresh = f /\ p.num = n
    BY <1>1
  <2>4. AddDownStream(p, d) = Grew(p, r \o d, d)
    BY <2>1, <2>3 DEF Grew
  <2> QED
    BY <1>2, <1>3, <2>2, <2>4 DEF Roads
<1> QED
  BY <1>4, <1>5

\* The candidates there are, unchanged, are among them.
LEMMA GrownAll ==
  ASSUME \A c \in paths : IsCandidate(c)
  PROVE  /\ paths \subseteq Grown
         /\ \A p \in paths : \A d \in Roads : AddDownStream(p, d) \in Grown
<1>1. ASSUME NEW c \in paths
      PROVE  c \in Grown
  <2>1. c = Grew(c, c.roads, c.down) /\ c.roads \in Roads /\ c.down \in Seq(InNet)
    BY DEF IsCandidate, Grew
  <2> QED
    BY <2>1 DEF Grown
<1>2. ASSUME NEW p \in paths, NEW d \in Roads
      PROVE  AddDownStream(p, d) \in Grown
  <2>1. PICK r, w : r = AddDownStream(p, d).roads /\ w = AddDownStream(p, d).down
    OBVIOUS
  <2>2. AddDownStream(p, d) = Grew(p, r, w) /\ r \in Roads /\ w \in Seq(InNet)
    BY <2>1, GrowsBy
  <2> QED
    BY <2>2 DEF Grown
<1> QED
  BY <1>1, <1>2

\* What CandidatesSound says of the roads of each candidate.
SoundRoads(roads) ==
  /\ IsValid(roads)
  /\ \A k \in DOMAIN roads : roads[k][1] \in net[roads[k][2]]
  /\ \A k \in ChangePoints(roads) : "walk" \in {roads[k][2], roads[k+1][2]}
  /\ \A k \in 1 .. Len(roads) - 1 :
       roads[k+1][2] # "walk" => roads[k][1][1] # roads[k+1][1][2]
  /\ \A n \in LoopPoint(roads) : isPTStop(n)
  /\ \A k \in DOMAIN roads :
       (\E l \in 1 .. k : roads[l][1][1] = roads[k][1][2]) => roads[k][2] \in PublicTransport

\* Without a loop no road ends where one before it, or itself, starts.
LEMMA NoNodeAgain ==
  ASSUME NEW s \in Roads, IsValid(s)
  PROVE  /\ LoopPoint(s) = {} <=> \A k \in 1 .. Len(s) : \A l \in 1 .. k : s[l][1][1] # s[k][1][2]
         /\ \A n, o \in LoopPoint(s) : n = o
<1> DEFINE nodes == [k \in 1 .. Len(s) + 1 |-> IF k = 1 THEN UpNode(s) ELSE s[k-1][1][2]]
           again == {k \in DOMAIN nodes : \E l \in 1 .. k - 1 : nodes[l] = nodes[k]}
<1>1. LoopPoint(s) = IF again = {} THEN {} ELSE {nodes[Min(again)]}
  BY DEF LoopPoint
<1>2. Len(s) \in Nat
  BY DEF Roads
<1>3. \A l \in 1 .. Len(s) : nodes[l] = s[l][1][1]
  <2> SUFFICES ASSUME NEW l \in 1 .. Len(s)
               PROVE  nodes[l] = s[l][1][1]
    OBVIOUS
  <2>1. CASE l = 1
    BY <1>2, <2>1 DEF UpNode
  <2>2. CASE l # 1
    <3>1. l - 1 \in 1 .. Len(s) - 1 /\ (l - 1) + 1 = l /\ l \in 1 .. Len(s) + 1
      BY <1>2, <2>2
    <3>2. s[l-1][1][2] = s[l][1][1]
      BY <3>1 DEF IsValid
    <3> QED
      BY <2>2, <3>1, <3>2
  <2> QED
    BY <2>1, <2>2
<1>4. \A k \in 1 .. Len(s) : k + 1 \in DOMAIN nodes /\ nodes[k+1] = s[k][1][2]
  BY <1>2
<1>5. DOMAIN nodes = 1 .. Len(s) + 1
  OBVIOUS
<1>6. again = {} <=> \A k \in 1 .. Len(s) : \A l \in 1 .. k : s[l][1][1] # s[k][1][2]
  <2> HIDE DEF nodes
  <2>1. ASSUME again = {}, NEW k \in 1 .. Len(s), NEW l \in 1 .. k
        PROVE  s[l][1][1] # s[k][1][2]
    <3>1. l \in 1 .. Len(s) /\ l \in 1 .. (k + 1) - 1
      BY <1>2
    <3>2. nodes[l] # nodes[k+1]
      BY <1>4, <2>1, <3>1
    <3> QED
      BY <1>3, <1>4, <3>1, <3>2
  <2>2. ASSUME NEW j \in again
        PROVE  \E k \in 1 .. Len(s) : \E l \in 1 .. k : s[l][1][1] = s[k][1][2]
    <3>1. PICK l \in 1 .. j - 1 : j \in 1 .. Len(s) + 1 /\ nodes[l] = nodes[j]
      BY <1>5
    <3>2. j - 1 \in 1 .. Len(s) /\ (j - 1) + 1 = j /\ l \in 1 .. Len(s)
      BY <1>2, <3>1
    <3>3. s[l][1][1] = s[j-1][1][2]
      BY <1>3, <1>4, <3>1, <3>2
    <3> QED
      BY <3>2, <3>3
  <2> QED
    BY <2>1, <2>2
<1> HIDE DEF nodes, again
<1> QED
  BY <1>1, <1>6

\* Roads that are added where a path ends, as extendFromNode lets them.
LEMMA JoinSound ==
  ASSUME Nets, NEW r \in Roads, SoundRoads(r), NEW d \in Roads, NEW m \in Mode,
         \A k \in DOMAIN d : d[k][2] = m /\ d[k][1] \in net[m],
         IsValid(d), UpNode(d) = DownNode(r), LoopPoint(d) = {},
         BackMode(r) # m => "walk" \in {BackMode(r), m},
         m # "walk" => d[1][1] # <<Last(r)[1][2], Last(r)[1][1]>>,
         LoopPoint(r \o d) = {} \/ (m \in PublicTransport /\ \E n \in LoopPoint(r \o d) : isPTStop(n))
  PROVE  SoundRoads(r \o d) /\ Last(r \o d) = Last(d)
<1>1. PICK u, n, p : u = r \o d /\ n = Len(r) /\ p = Len(d)
  OBVIOUS
<1>2. /\ r \in Seq(InNet) /\ d \in Seq(InNet) /\ r # <<>> /\ d # <<>>
  BY DEF Roads
<1>3. /\ u \in Seq(InNet) /\ Len(u) = n + p /\ n \in Nat \ {0} /\ p \in Nat \ {0}
      /\ DOMAIN r = 1 .. n /\ DOMAIN d = 1 .. p /\ DOMAIN u = 1 .. n + p
      /\ \A k \in 1 .. n + p : u[k] = IF k <= n THEN r[k] ELSE d[k - n]
  BY <1>1, <1>2, ConcatProperties, LenProperties, EmptySeq
<1>4. (\A k \in 1 .. n : u[k] = r[k]) /\ (\A k \in 1 .. p : u[k + n] = d[k])
  <2>1. /\ \A k \in 1 .. n : k \in 1 .. n + p /\ k <= n
        /\ \A k \in 1 .. p : k + n \in 1 .. n + p /\ ~(k + n <= n) /\ (k + n) - n = k
    BY <1>3
  <2> QED
    BY <1>3, <2>1
<1>5. u \in Roads
  BY <1>2, <1>3 DEF Roads
<1>6. Last(r) = r[n] /\ Last(d) = d[p] /\ Last(u) = d[p]
  <2>1. p \in 1 .. p /\ p + n = n + p
    BY <1>3
  <2> QED
    BY <1>1, <1>3, <1>4, <2>1 DEF Last
<1>7. \A k \in 1 .. n + p - 1 : \/ k \in 1 .. n - 1 /\ u[k] = r[k] /\ u[k+1] = r[k+1]
                                \/ k = n /\ u[k] = r[n] /\ u[k+1] = d[1]
                                \/ k - n \in 1 .. p - 1 /\ u[k] = d[k-n] /\ u[k+1] = d[(k-n)+1]
  <2> SUFFICES ASSUME NEW k \in 1 .. n + p - 1
               PROVE  \/ k \in 1 .. n - 1 /\ u[k] = r[k] /\ u[k+1] = r[k+1]
                      \/ k = n /\ u[k] = r[n] /\ u[k+1] = d[1]
                      \/ k - n \in 1 .. p - 1 /\ u[k] = d[k-n] /\ u[k+1] = d[(k-n)+1]
    OBVIOUS
  <2>1. CASE k < n
    <3>1. k \in 1 .. n - 1 /\ k \in 1 .. n /\ k + 1 \in 1 .. n
      BY <1>3, <2>1
    <3> QED
      BY <1>4, <3>1
  <2>2. CASE k = n
    <3>1. n \in 1 .. n /\ 1 \in 1 .. p /\ n + 1 = 1 + n
      BY <1>3
    <3> QED
      BY <1>4, <2>2, <3>1
  <2>3. CASE k > n
    <3>1. /\ k - n \in 1 .. p - 1 /\ k - n \in 1 .. p /\ (k - n) + 1 \in 1 .. p
          /\ (k - n) + n = k /\ ((k - n) + 1) + n = k + 1
      BY <1>3, <2>3
    <3>2. u[(k - n) + n] = d[k - n] /\ u[((k - n) + 1) + n] = d[(k - n) + 1]
      BY <1>4, <3>1
    <3> QED
      BY <3>1, <3>2
  <2> QED
    BY <1>3, <2>1, <2>2, <2>3
<1>8. d[1][1][1] = r[n][1][2]
  BY <1>6 DEF UpNode, DownNode
<1>9. IsValid(u)
  <2> SUFFICES ASSUME NEW k \in 1 .. n + p - 1
               PROVE  u[k][1][2] = u[k+1][1][1]
    BY <1>3 DEF IsValid
  <2>1. IsValid(r) /\ IsValid(d)
    BY DEF SoundRoads
  <2> QED
    BY <1>1, <1>7, <1>8, <2>1 DEF IsValid
<1>10. ASSUME NEW k \in DOMAIN u
       PROVE  /\ u[k][1] \in net[u[k][2]]
              /\ (\E l \in 1 .. k : u[l][1][1] = u[k][1][2]) => u[k][2] \in PublicTransport
  <2>1. CASE k <= n
    <3>1. k \in 1 .. n /\ \A l \in 1 .. k : l \in 1 .. n
      BY <1>3, <2>1
    <3>2. u[k] = r[k] /\ \A l \in 1 .. k : u[l] = r[l]
      BY <1>4, <3>1
    <3> QED
      BY <1>3, <3>1, <3>2 DEF SoundRoads
  <2>2. CASE ~(k <= n)
    <3>1. k - n \in 1 .. p /\ u[k] = d[k-n] /\ k \in 1 .. n + p
      BY <1>3, <2>2
    <3>2. u[k][2] = m /\ u[k][1] \in net[m]
      BY <1>3, <3>1
    <3>3. ASSUME NEW l \in 1 .. k, u[l][1][1] = u[k][1][2]
          PROVE  m \in PublicTransport
      <4>1. LoopPoint(u) # {}
        BY <1>3, <1>5, <1>9, <3>1, <3>3, NoNodeAgain
      <4> QED
        BY <1>1, <4>1
    <3> QED
      BY <3>2, <3>3
  <2> QED
    BY <2>1, <2>2
<1>11. ASSUME NEW k \in 1 .. n + p - 1
       PROVE  /\ u[k][2] # u[k+1][2] => "walk" \in {u[k][2], u[k+1][2]}
              /\ u[k+1][2] # "walk" => u[k][1][1] # u[k+1][1][2]
  <2>1. CASE k \in 1 .. n - 1 /\ u[k] = r[k] /\ u[k+1] = r[k+1]
    BY <1>1, <2>1 DEF SoundRoads, ChangePoints
  <2>2. CASE k = n /\ u[k] = r[n] /\ u[k+1] = d[1]
    <3>1. d[1][2] = m /\ BackMode(r) = r[n][2]
      BY <1>3, <1>6 DEF BackMode
    <3>2. d[1] \in InNet
      BY <1>2, <1>3, ElementOfSeq
    <3>3. PICK x, y : d[1][1] = <<x, y>>
      BY <3>2 DEF InNet, Arc
    <3>4. m # "walk" => <<x, y>> # <<r[n][1][2], r[n][1][1]>>
      BY <1>6, <3>3
    <3>5. d[1][1][1] = x /\ d[1][1][2] = y
      BY <3>3
    <3> QED
      BY <1>8, <2>2, <3>1, <3>4, <3>5
  <2>3. CASE k - n \in 1 .. p - 1 /\ u[k] = d[k-n] /\ u[k+1] = d[(k-n)+1]
    <3>1. PICK j \in 1 .. p - 1 : j = k - n
      BY <2>3
    <3>2. j \in 1 .. p /\ j + 1 \in 1 .. p /\ j \in 1 .. j + 1
      BY <1>3
    <3>3. d[j][2] = m /\ d[j+1][2] = m
      BY <1>3, <3>2
    <3>4. d[j][1][1] # d[j+1][1][2]
      BY <1>1, <3>2, NoNodeAgain
    <3> QED
      BY <2>3, <3>1, <3>3, <3>4
  <2> QED
    BY <1>7, <2>1, <2>2, <2>3
<1>12. \A x \in LoopPoint(u) : isPTStop(x)
  BY <1>1, <1>5, <1>9, NoNodeAgain
<1>13. SoundRoads(u)
  BY <1>3, <1>9, <1>10, <1>11, <1>12 DEF SoundRoads, ChangePoints
<1> QED
  BY <1>1, <1>6, <1>13

\* A single road is sound.
LEMMA OneRoadSound ==
  ASSUME Nets, NoLoops, NEW x \in InNet
  PROVE  SoundRoads(<<x>>) /\ Last(<<x>>) = x
<1>1. PICK s : s = <<x>>
  OBVIOUS
<1>2. s \in Seq(InNet) /\ Len(s) = 1 /\ s[1] = x /\ DOMAIN s = {1}
  BY <1>1, OneElement
<1>3. x[1] \in net[x[2]] /\ x[2] \in Mode /\ x[1][1] # x[1][2]
  BY DEF InNet, NoLoops
<1>4. s \in Roads /\ IsValid(s) /\ 1 .. Len(s) - 1 = {}
  <2>1. Len(s) - 1 = 0 /\ 1 .. 0 = {}
    BY <1>2
  <2>2. s # <<>>
    BY <1>2, EmptySeq
  <2> QED
    BY <1>2, <2>1, <2>2 DEF Roads, IsValid
<1>5. \A k \in 1 .. Len(s) : \A l \in 1 .. k : s[l][1][1] # s[k][1][2]
  <2>1. \A k \in 1 .. Len(s) : k = 1
    BY <1>2
  <2>2. \A l \in 1 .. 1 : l = 1
    OBVIOUS
  <2> QED
    BY <1>2, <1>3, <2>1, <2>2
<1>6. LoopPoint(s) = {}
  BY <1>4, <1>5, NoNodeAgain
<1>7. SoundRoads(s)
  BY <1>2, <1>3, <1>4, <1>5, <1>6 DEF SoundRoads, ChangePoints
<1> QED
  BY <1>1, <1>2, <1>7 DEF Last

\* Candidates with different arcs.
Distinct(cs) == \A b, c \in cs : ArcSeq(b.roads) = ArcSeq(c.roads) => b = c

(***************************************************************************)
(* What an exploration finds, from sound candidates: sound ones, no two of *)
(* the same arcs, which end in the domain unless their updates are stuck.  *)
(***************************************************************************)
Sound(f) ==
  /\ \A c \in f.temp : SoundRoads(c.roads)
  /\ Distinct(f.temp)
  /\ (\A c \in paths : c.down = <<>>) => \A c \in f.temp : Last(c.roads) \in f.ddr

Finds == {f \in [temp : SUBSET Grown, inter : SUBSET InNet, ddr : SUBSET Near(i)] :
            CandidatesSound => Sound(f)}

\* Of each sequence of arcs one is taken, and added when it is new.
LEMMA StayDistinct ==
  /\ \A cs : OneOfEach(cs) \subseteq cs /\ Distinct(OneOfEach(cs))
  /\ \A cs, new : Distinct(cs) /\ Distinct(new) => Distinct(Add(cs, new))
<1>1. ASSUME NEW cs
      PROVE  OneOfEach(cs) \subseteq cs /\ Distinct(OneOfEach(cs))
  <2> DEFINE one(s) == CHOOSE c \in cs : ArcSeq(c.roads) = s
  <2>1. ASSUME NEW b \in OneOfEach(cs)
        PROVE  b \in cs /\ b = one(ArcSeq(b.roads))
    <3>1. PICK s \in {ArcSeq(c.roads) : c \in cs} : b = one(s)
      BY DEF OneOfEach
    <3>2. \E c \in cs : ArcSeq(c.roads) = s
      BY <3>1
    <3>3. one(s) \in cs /\ ArcSeq(one(s).roads) = s
      BY <3>2
    <3> QED
      BY <3>1, <3>3
  <2> HIDE DEF one
  <2> QED
    BY <2>1 DEF Distinct
<1>2. ASSUME NEW cs, NEW new, Distinct(cs), Distinct(new)
      PROVE  Distinct(Add(cs, new))
  BY <1>2 DEF Distinct, Add
<1> QED
  BY <1>1, <1>2

\* The roads of a candidate with what was found from its end.
LEMMA GrownRoads ==
  ASSUME NEW p, IsCandidate(p), NEW d
  PROVE  AddDownStream(p, d).roads = IF p.down # <<>> THEN p.roads ELSE p.roads \o d
<1>1. PICK r, w, s, f, n : p = [roads |-> r, down |-> w, seq |-> s, fresh |-> f, num |-> n]
  BY DEF IsCandidate
<1>2. p.roads = r /\ p.down = w
  BY <1>1
<1>3. CASE w # <<>>
  <2>1. AddDownStream(p, d) = [roads |-> r, down |-> w \o d, seq |-> s, fresh |-> f, num |-> n]
    BY <1>1, <1>3 DEF AddDownStream
  <2> QED
    BY <1>2, <1>3, <2>1
<1>4. CASE w = <<>>
  <2>1. AddDownStream(p, d) = [roads |-> r \o d, down |-> d, seq |-> s, fresh |-> f, num |-> n]
    BY <1>1, <1>4 DEF AddDownStream
  <2> QED
    BY <1>2, <1>4, <2>1
<1> QED
  BY <1>3, <1>4

\* What extendFromNode makes of sound candidates that end at a node.
LEMMA ExtensionsSound ==
  ASSUME Nets, NEW m \in Mode, NEW end \in Node, NEW ups, NEW downs \in SUBSET Roads,
         \A p \in ups : IsCandidate(p) /\ SoundRoads(p.roads) /\ DownNode(p.roads) = end,
         \A d \in downs : /\ \A k \in DOMAIN d : d[k][2] = m /\ d[k][1] \in net[m]
                          /\ IsValid(d) /\ UpNode(d) = end
  PROVE  \A c \in ExtendFromNode(ups, downs, m) :
           /\ SoundRoads(c.roads)
           /\ (\A p \in ups : p.down = <<>>) => \E d \in downs : Last(c.roads) = Last(d)
<1> SUFFICES ASSUME NEW c \in ExtendFromNode(ups, downs, m)
             PROVE  /\ SoundRoads(c.roads)
                    /\ (\A p \in ups : p.down = <<>>) => \E d \in downs : Last(c.roads) = Last(d)
  OBVIOUS
<1>1. PICK p \in ups, d \in downs :
        /\ c = AddDownStream(p, d)
        /\ BackMode(p.roads) # m => "walk" \in {BackMode(p.roads), m}
        /\ LoopPoint(d) = {}
        /\ m # "walk" => d[1][1] # <<Last(p.roads)[1][2], Last(p.roads)[1][1]>>
        /\ LET loop == LoopPoint(AddDownStream(p, d).roads)
           IN  loop = {} \/ (m \in PublicTransport /\ \E n \in loop : isPTStop(n))
  BY DEF ExtendFromNode
<1>2. c.roads = IF p.down # <<>> THEN p.roads ELSE p.roads \o d
  BY <1>1, GrownRoads
<1>3. CASE p.down # <<>>
  BY <1>2, <1>3
<1>4. CASE p.down = <<>>
  <2>1. PICK r \in Roads : r = p.roads
    BY DEF IsCandidate
  <2>2. c.roads = r \o d /\ d \in Roads
    BY <1>2, <1>4, <2>1
  <2>3. LoopPoint(r \o d) = {} \/ (m \in PublicTransport /\ \E n \in LoopPoint(r \o d) : isPTStop(n))
    BY <1>1, <2>2
  <2>4. /\ SoundRoads(r) /\ UpNode(d) = DownNode(r) /\ IsValid(d)
        /\ \A k \in DOMAIN d : d[k][2] = m /\ d[k][1] \in net[m]
        /\ BackMode(r) # m => "walk" \in {BackMode(r), m}
        /\ m # "walk" => d[1][1] # <<Last(r)[1][2], Last(r)[1][1]>>
    BY <1>1, <2>1
  <2>5. SoundRoads(r \o d) /\ Last(r \o d) = Last(d)
    BY <1>1, <2>2, <2>3, <2>4, JoinSound
  <2> QED
    BY <2>2, <2>5
<1> QED
  BY <1>3, <1>4

\* From one end node, through one network.
LEMMA Extends ==
  ASSUME Exploring, NEW acc \in Finds, NEW end \in Node, NEW m \in osm.enabled
  PROVE  Extend(acc, end, m) \in Finds
<1> DEFINE t == Search(m, end, i, prevGps)
           seen == t.arcs \cap DetArcs(i, low)
           downs == DownStreams(m, t, seen)
           ups == {c \in paths : DownNode(c.roads) = end}
           new == {c \in OneOfEach(ExtendFromNode(ups, downs, m)) : ~TooLong(c)}
<1>1. m \in Mode
  BY ExtractAssumption DEF Exploring
<1>2. t \in Trees(m) /\ t \in Rooted(m, end)
  BY <1>1, Searches DEF Exploring, Rooted
<1>3. seen \in SUBSET net[m] /\ seen \subseteq trip[i].around
  <2>1. t.arcs \in SUBSET net[m]
    <3> HIDE DEF t
    <3> QED
      BY <1>2 DEF Trees
  <2> HIDE DEF t
  <2> QED
    BY <2>1, Domains DEF Exploring
<1>4. net[m] \X {m} \subseteq InNet
  BY <1>1 DEF Exploring, Nets, InNet
<1>5. downs \in SUBSET Roads
  <2>1. downs \in SUBSET (Seq(net[m] \X {m}) \ {<<>>})
    <3> HIDE DEF t, seen
    <3> QED
      BY <1>1, <1>2, <1>3, DownStreamsTyped DEF Exploring
  <2> HIDE DEF downs
  <2> QED
    BY <1>4, <2>1, SeqMonotonic DEF Roads
<1>6. new \in SUBSET Grown
  <2>1. PICK cs : cs = ExtendFromNode(ups, downs, m)
    OBVIOUS
  <2>2. cs \subseteq Grown
    <3> SUFFICES ASSUME NEW c \in cs
                 PROVE  c \in Grown
      OBVIOUS
    <3>1. PICK p \in ups, d \in downs : c = AddDownStream(p, d)
      <4> HIDE DEF ups, downs
      <4> QED
        BY <2>1 DEF ExtendFromNode
    <3>2. p \in paths /\ d \in Roads
      <4> HIDE DEF downs
      <4> QED
        BY <1>5, <3>1
    <3> QED
      BY <3>1, <3>2, GrownAll DEF Exploring
  <2>3. OneOfEach(cs) \subseteq cs
    BY DEF OneOfEach
  <2>4. new \subseteq OneOfEach(cs)
    <3> HIDE DEF ups, downs
    <3> QED
      BY <2>1
  <2> QED
    BY <2>2, <2>3, <2>4
<1>7. UNION {Range(d) : d \in downs} \subseteq InNet
  <2> HIDE DEF downs
  <2> SUFFICES ASSUME NEW d \in downs, NEW k \in DOMAIN d
               PROVE  d[k] \in InNet
    BY DEF Range
  <2> QED
    BY <1>5 DEF Roads
<1>8. seen \X {m} \subseteq Near(i)
  <2> HIDE DEF seen
  <2> QED
    BY <1>3, <1>4 DEF Near
<1>9. Add(acc.temp, new) \in SUBSET Grown
  <2>1. acc.temp \in SUBSET Grown
    BY DEF Finds
  <2> HIDE DEF new
  <2> QED
    BY <1>6, <2>1 DEF Add
<1>10. ASSUME CandidatesSound
       PROVE  /\ \A c \in new : SoundRoads(c.roads)
              /\ Distinct(new)
              /\ (\A c \in paths : c.down = <<>>) => \A c \in new : Last(c.roads) \in seen \X {m}
  <2>1. \A d \in downs : /\ \A k \in DOMAIN d : d[k][2] = m /\ d[k][1] \in net[m]
                         /\ IsValid(d) /\ UpNode(d) = end /\ Last(d)[1] \in seen /\ Last(d)[2] = m
    <3>1. seen \in SUBSET t.arcs
      OBVIOUS
    <3> HIDE DEF t, seen
    <3> QED
      BY <1>1, <1>2, <3>1, DownStreamsLead DEF Exploring
  <2>2. \A p \in ups : p \in paths /\ IsCandidate(p) /\ SoundRoads(p.roads) /\ DownNode(p.roads) = end
    BY <1>10 DEF CandidatesSound, SoundRoads, Exploring
  <2>3. \A d \in downs : d \in Roads /\ Last(d) \in seen \X {m}
    <3> SUFFICES ASSUME NEW d \in downs
                 PROVE  d \in Roads /\ Last(d) \in seen \X {m}
      OBVIOUS
    <3> HIDE DEF downs, seen
    <3>1. d \in Roads
      BY <1>5
    <3>2. PICK x : x = Last(d)
      OBVIOUS
    <3>3. x \in InNet
      BY <3>1, <3>2, LastRoads DEF Exploring
    <3>4. x = <<x[1], x[2]>>
      BY <3>3 DEF InNet
    <3> QED
      BY <2>1, <3>1, <3>2, <3>4
  <2> HIDE DEF ups, downs, seen
  <2>4. PICK cs : cs = ExtendFromNode(ups, downs, m)
    OBVIOUS
  <2>5. \A c \in cs : /\ SoundRoads(c.roads)
                      /\ (\A p \in ups : p.down = <<>>) => \E d \in downs : Last(c.roads) = Last(d)
    BY <1>1, <1>5, <2>1, <2>2, <2>4, ExtensionsSound DEF Exploring
  <2>6. new \subseteq OneOfEach(cs)
    BY <2>4
  <2> HIDE DEF new
  <2>7. new \subseteq cs /\ Distinct(new)
    BY <2>6, StayDistinct DEF Distinct
  <2> QED
    BY <2>2, <2>3, <2>5, <2>7
<1> HIDE DEF new, downs, seen, t
<1>11. CASE Skipped(m)
  BY <1>11 DEF Extend
<1>12. CASE ~Skipped(m)
  <2>1. PICK f : f = [temp |-> Add(acc.temp, new),
                      inter |-> acc.inter \cup UNION {Range(d) : d \in downs},
                      ddr |-> acc.ddr \cup (seen \X {m})]
    OBVIOUS
  <2>2. Extend(acc, end, m) = f
    BY <1>12, <2>1 DEF Extend, new, downs, seen, t
  <2>3. acc.inter \in SUBSET InNet /\ acc.ddr \in SUBSET Near(i)
    BY DEF Finds
  <2>4. f \in [temp : SUBSET Grown, inter : SUBSET InNet, ddr : SUBSET Near(i)]
    BY <1>7, <1>8, <1>9, <2>1, <2>3
  <2>5. f.temp = Add(acc.temp, new) /\ f.ddr = acc.ddr \cup (seen \X {m})
    BY <2>1
  <2>6. ASSUME CandidatesSound
        PROVE  Sound(f)
    <3>1. Sound(acc)
      BY <2>6 DEF Finds
    <3>2. Distinct(f.temp)
      BY <1>10, <2>5, <2>6, <3>1, StayDistinct DEF Sound
    <3>3. f.temp \subseteq acc.temp \cup new
      BY <2>5 DEF Add
    <3> QED
      BY <1>10, <2>5, <2>6, <3>1, <3>2, <3>3 DEF Sound
  <2> QED
    BY <2>2, <2>4, <2>6 DEF Finds
<1> QED
  BY <1>11, <1>12

\* The networks are a finite set of numbers, those of the modes enabled.
LEMMA ByNames ==
  /\ Networks \in SUBSET Nat /\ IsFiniteSet(Networks)
  /\ \A k \in Networks : ByName[k] \in osm.enabled
<1>1. Networks \subseteq 1 .. 5
  BY DEF Networks, ByName
<1>2. IsFiniteSet(1 .. 5)
  <2>1. PICK a \in Int, b \in Int : a = 1 /\ b = 5
    OBVIOUS
  <2>2. IsFiniteSet(a .. b)
    BY FS_Interval
  <2> QED
    BY <2>1, <2>2
<1>3. Networks \in SUBSET Nat /\ IsFiniteSet(Networks)
  <2>1. PICK five : five = 1 .. 5
    OBVIOUS
  <2>2. IsFiniteSet(five) /\ Networks \in SUBSET five
    BY <1>1, <1>2, <2>1
  <2>3. IsFiniteSet(Networks)
    BY <2>2, FS_Subset
  <2> QED
    BY <1>1, <2>3
<1> QED
  BY <1>3 DEF Networks

\* From one end node, through every network.
LEMMA Leaves ==
  ASSUME Exploring, NEW acc \in Finds, NEW end \in Node
  PROVE  Leave(acc, end) \in Finds
<1> DEFINE V == Finds
           D == Networks
           Is(g) == g = [s \in SUBSET D |-> IF s = {} THEN acc
                          ELSE LET x == Max(s) IN Extend(g[s \ {x}], end, ByName[x])]
           op == [p \in V \X D |-> Extend(p[1], end, ByName[p[2]])]
<1>1. D \in SUBSET Nat /\ IsFiniteSet(D)
  BY ByNames
<1>2. \A s \in V : \A x \in D : Extend(s, end, ByName[x]) \in V
  BY Extends, ByNames
<1>3. op \in [V \X D -> V]
  <2> HIDE DEF D, V
  <2>1. \A p \in V \X D : Extend(p[1], end, ByName[p[2]]) \in V
    BY <1>2
  <2> QED
    BY <2>1
<1>4. PICK f \in [SUBSET D -> V] : Carried(f, op, acc, D)
  <2> HIDE DEF D, op
  <2> QED
    BY <1>1, <1>3, FoldExists
<1>5. \A S \in SUBSET D : S # {} => Max(S) \in D /\ S \ {Max(S)} \in SUBSET D
  <2> HIDE DEF D
  <2>1. \A S \in SUBSET D : S # {} => Max(S) \in S /\ S \ {Max(S)} \in SUBSET D
    BY <1>1, LessOne
  <2> QED
    BY <2>1
<1>6. Is(f)
  <2> HIDE DEF D, V
  <2>1. ASSUME NEW S \in SUBSET D
        PROVE  f[S] = IF S = {} THEN acc ELSE Extend(f[S \ {Max(S)}], end, ByName[Max(S)])
    <3>1. CASE S = {}
      BY <1>4, <3>1 DEF Carried
    <3>2. CASE S # {}
      <4>1. PICK x \in D, T \in SUBSET D : x = Max(S) /\ T = S \ {Max(S)}
        BY <1>5, <3>2
      <4>2. f[T] \in V /\ f[S] = op[<<f[T], x>>]
        BY <1>4, <3>2, <4>1 DEF Carried
      <4> QED
        BY <3>2, <4>1, <4>2
    <3> QED
      BY <3>1, <3>2
  <2>2. f = [S \in SUBSET D |-> f[S]]
    OBVIOUS
  <2> QED
    BY <2>1, <2>2
<1>7. PICK g : g = CHOOSE h : Is(h)
  OBVIOUS
<1>8. Is(g)
  <2> HIDE DEF Is
  <2> QED
    BY <1>6, <1>7
<1>9. Leave(acc, end) = g[D]
  BY <1>7 DEF Leave, InOrder, MapThenFoldSet
<1>10. g[{}] \in V
  BY <1>8
<1>11. ASSUME NEW S \in SUBSET D, S # {}, g[S \ {Max(S)}] \in V
       PROVE  g[S] \in V
  <2> HIDE DEF D, V
  <2>1. g[S] = Extend(g[S \ {Max(S)}], end, ByName[Max(S)])
    BY <1>8, <1>11
  <2> QED
    BY <1>2, <1>5, <1>11, <2>1
<1>12. g[D] \in V
  <2> HIDE DEF D, V
  <2> QED
    BY <1>1, <1>10, <1>11, FoldStays
<1> QED
  BY <1>9, <1>12

\* What is taken over from the candidates and the domain before.
LEMMA TakesOver ==
  ASSUME Exploring, NEW lowspeed
  PROVE  /\ TakenOver(lowspeed) \subseteq Near(i)
         /\ Inherited(lowspeed) \subseteq paths
<1>1. Inherited(lowspeed) \subseteq paths
  BY DEF Inherited
<1>2. DetArcs(i, lowspeed) \subseteq trip[i].around
  BY Domains DEF Exploring
<1>3. \A x \in InNet : x[1] \in DetArcs(i, lowspeed) => x \in Near(i)
  BY <1>2 DEF Near
<1>4. Inherent(ddr[prevGps], i, lowspeed) \subseteq Near(i)
  BY <1>3 DEF Inherent, Exploring
<1>5. \A c \in Inherited(lowspeed) : Last(c.roads) \in InNet /\ Last(c.roads)[1] \in DetArcs(i, lowspeed)
  BY <1>1, LastRoads DEF Inherited, Exploring, IsCandidate
<1> QED
  BY <1>1, <1>3, <1>4, <1>5 DEF TakenOver

\* All end nodes explored: candidates that grew, and arcs near the point.
LEMMA Explores ==
  ASSUME Exploring
  PROVE  Explored \in Finds
<1> DEFINE V == Finds
           D == Ends
           start == [temp |-> Inherited(low), inter |-> TakenOver(low),
                     ddr |-> ddr[i] \cup TakenOver(low)]
           Is(g) == g = [s \in SUBSET D |-> IF s = {} THEN start
                          ELSE LET x == Max(s) IN Leave(g[s \ {x}], x)]
           op == [p \in V \X D |-> Leave(p[1], p[2])]
<1>1. D \in SUBSET Nat /\ D \in SUBSET Node /\ IsFiniteSet(D)
  <2>1. D \subseteq Node
    BY LastRoads DEF Ends, Exploring, IsCandidate
  <2> HIDE DEF D
  <2> QED
    BY <2>1, ExtractAssumption, FS_Subset
<1>2. start \in V
  <2>1. Inherited(low) \subseteq Grown
    BY TakesOver, GrownAll DEF Exploring
  <2>2. TakenOver(low) \subseteq Near(i) /\ TakenOver(low) \subseteq InNet /\ ddr[i] \subseteq Near(i)
    BY TakesOver DEF Exploring, Near
  <2>3. ASSUME CandidatesSound
        PROVE  Sound(start)
    <3>1. Inherited(low) \subseteq paths
      BY DEF Inherited
    <3>2. \A c \in Inherited(low) : SoundRoads(c.roads)
      BY <2>3, <3>1 DEF CandidatesSound, SoundRoads
    <3>3. Distinct(Inherited(low))
      BY <2>3, <3>1 DEF CandidatesSound, Distinct
    <3>4. \A c \in Inherited(low) : Last(c.roads) \in start.ddr
      BY DEF TakenOver
    <3> QED
      BY <3>2, <3>3, <3>4 DEF Sound
  <2> QED
    BY <2>1, <2>2, <2>3 DEF Finds
<1>3. \A s \in V : \A x \in D : Leave(s, x) \in V
  BY <1>1, Leaves
<1>4. op \in [V \X D -> V]
  <2> HIDE DEF D, V
  <2>1. \A p \in V \X D : Leave(p[1], p[2]) \in V
    BY <1>3
  <2> QED
    BY <2>1
<1>5. PICK f \in [SUBSET D -> V] : Carried(f, op, start, D)
  <2> HIDE DEF D, V, op, start
  <2> QED
    BY <1>1, <1>2, <1>4, FoldExists
<1>6. \A S \in SUBSET D : S # {} => Max(S) \in D /\ S \ {Max(S)} \in SUBSET D
  <2> HIDE DEF D
  <2>1. \A S \in SUBSET D : S # {} => Max(S) \in S /\ S \ {Max(S)} \in SUBSET D
    BY <1>1, LessOne
  <2> QED
    BY <2>1
<1>7. Is(f)
  <2> HIDE DEF D, V, start
  <2>1. ASSUME NEW S \in SUBSET D
        PROVE  f[S] = IF S = {} THEN start ELSE Leave(f[S \ {Max(S)}], Max(S))
    <3>1. CASE S = {}
      BY <1>5, <3>1 DEF Carried
    <3>2. CASE S # {}
      <4>1. PICK x \in D, T \in SUBSET D : x = Max(S) /\ T = S \ {Max(S)}
        BY <1>6, <3>2
      <4>2. f[T] \in V /\ f[S] = op[<<f[T], x>>]
        BY <1>5, <3>2, <4>1 DEF Carried
      <4> QED
        BY <3>2, <4>1, <4>2
    <3> QED
      BY <3>1, <3>2
  <2>2. f = [S \in SUBSET D |-> f[S]]
    OBVIOUS
  <2> QED
    BY <2>1, <2>2
<1>8. PICK g : g = CHOOSE h : Is(h)
  OBVIOUS
<1>9. Is(g)
  <2> HIDE DEF Is
  <2> QED
    BY <1>7, <1>8
<1>10. Explored = g[D]
  BY <1>8 DEF Explored, InOrder, MapThenFoldSet
<1>11. g[{}] \in V
  <2> HIDE DEF start, V
  <2> QED
    BY <1>2, <1>9
<1>12. ASSUME NEW S \in SUBSET D, S # {}, g[S \ {Max(S)}] \in V
       PROVE  g[S] \in V
  <2> HIDE DEF D, V
  <2>1. g[S] = Leave(g[S \ {Max(S)}], Max(S))
    BY <1>9, <1>12
  <2> QED
    BY <1>3, <1>6, <1>12, <2>1
<1>13. g[D] \in V
  <2> HIDE DEF D, V
  <2> QED
    BY <1>1, <1>11, <1>12, FoldStays
<1> QED
  BY <1>10, <1>13

-----------------------------------------------------------------------------
(***************************************************************************)
(* The inductive invariant. Before the points are read nothing has         *)
(* happened. Then the networks stay as they are; the domains hold arcs     *)
(* that are near their points; the points accounted for come before those  *)
(* put aside, and these between the last point matched and the present     *)
(* one; and the candidates account for the same points, up to the update   *)
(* that fails for good when the second point has the time of the first.    *)
(***************************************************************************)
Increasing(s) == \A k \in 1 .. Len(s) - 1 : s[k] < s[k+1]

NoFile == file = [numbered |-> {}, final |-> {}]

\* Nothing matched yet.
Fresh ==
  /\ i = 1 /\ running = <<>> /\ inter = <<>> /\ paths = {} /\ prevGps = 1
  /\ fail_iter = 0 /\ valid = {} /\ NoFile

Unread == trip = <<>> /\ low = {} /\ ddr = <<>> /\ Fresh

\* A domain with an arc has it in all the modes of its networks.
Closed(d) == \A x \in d : \A m \in osm.enabled : x[1] \in net[m] => <<x[1], m>> \in d

Typed ==
  /\ trip \in Trip /\ low \subseteq DOMAIN trip
  /\ i \in 1 .. Len(trip) + 1 /\ prevGps \in DOMAIN trip
  /\ ddr \in [DOMAIN trip -> SUBSET InNet]
  /\ running \in Seq(DOMAIN trip) /\ inter \in Seq(DOMAIN trip)
  /\ \A c \in paths : IsCandidate(c)
  /\ valid = {} \/ valid = {paths}
  /\ fail_iter \in 0 .. MaxFailures + 1 /\ (fail_iter > MaxFailures <=> status = "gaveup")

Clean == ~Stuck(running) => \A c \in paths : c.seq = running /\ c.fresh = <<>> /\ c.down = <<>>

\* While points are matched.
Midway ==
  /\ i \in 2 .. Len(trip) /\ prevGps < i /\ NoFile /\ Clean
  /\ Range(running) \subseteq 1 .. prevGps
  /\ Range(inter) \subseteq prevGps + 1 .. i - 1
  /\ \A g \in 1 .. i - 1 : g \in Range(running) \cup Range(inter) \/ ddr[g] = {}

Begun ==
  /\ stage = "ready" /\ Typed
  /\ \A g \in DOMAIN trip : ddr[g] \subseteq Near(g)
  /\ Closed(ddr[prevGps])
  /\ Increasing(running) /\ Increasing(inter)
  /\ status = "first" => Fresh /\ \A g \in DOMAIN trip : ddr[g] = {}
  /\ status = "matching" => Midway
  /\ FilesAgree

MatchInv ==
  /\ NetInv
  /\ status \in {"start", "first", "matching", "nodomain", "gaveup", "undefined", "done"}
  /\ IF status = "start" THEN Unread ELSE Begun

-----------------------------------------------------------------------------
(* Sequences of points.                                                    *)

\* Two sequences of increasing numbers, the second above the first, joined.
LEMMA JoinIncreasing ==
  ASSUME NEW s \in Seq(Nat), NEW t \in Seq(Nat), Increasing(s), Increasing(t),
         \A a \in Range(s) : \A b \in Range(t) : a < b
  PROVE  Increasing(s \o t)
<1>1. PICK u : u = s \o t
  OBVIOUS
<1>2. PICK m, n : m = Len(s) /\ n = Len(t)
  OBVIOUS
<1>3. /\ Len(u) = m + n /\ m \in Nat /\ n \in Nat
      /\ \A k \in 1 .. m + n : u[k] = IF k <= m THEN s[k] ELSE t[k - m]
  BY <1>1, <1>2, ConcatProperties, LenProperties
<1>4. \A k \in 1 .. m : s[k] \in Range(s)
  BY <1>2, RangeOf
<1>5. \A k \in 1 .. n : t[k] \in Range(t)
  BY <1>2, RangeOf
<1>6. ASSUME NEW k \in 1 .. (m + n) - 1
      PROVE  u[k] < u[k+1]
  <2>1. k \in 1 .. m + n /\ k + 1 \in 1 .. m + n
    BY <1>3
  <2>2. CASE k + 1 <= m
    <3>1. k \in 1 .. m - 1 /\ k <= m
      BY <1>3, <2>2
    <3>2. s[k] < s[k+1]
      BY <1>2, <3>1 DEF Increasing
    <3> QED
      BY <1>3, <2>1, <2>2, <3>1, <3>2
  <2>3. CASE k = m
    <3>1. k <= m /\ ~(k + 1 <= m) /\ (k + 1) - m = 1 /\ m \in 1 .. m /\ 1 \in 1 .. n
      BY <1>3, <2>3
    <3>2. u[k] = s[m] /\ u[k+1] = t[1]
      BY <1>3, <2>1, <2>3, <3>1
    <3> QED
      BY <1>4, <1>5, <3>1, <3>2
  <2>4. CASE k > m
    <3>1. ~(k <= m) /\ ~(k + 1 <= m) /\ k - m \in 1 .. n - 1 /\ (k + 1) - m = (k - m) + 1
      BY <1>3, <2>4
    <3>2. t[k - m] < t[(k - m) + 1]
      BY <1>2, <3>1 DEF Increasing
    <3> QED
      BY <1>3, <2>1, <3>1, <3>2
  <2>5. k + 1 <= m \/ k = m \/ k > m
    BY <1>3
  <2> QED
    BY <2>2, <2>3, <2>4, <2>5
<1> QED
  BY <1>1, <1>3, <1>6 DEF Increasing

\* A greater number appended.
LEMMA AppendIncreasing ==
  ASSUME NEW s \in Seq(Nat), NEW e \in Nat, Increasing(s), \A a \in Range(s) : a < e
  PROVE  Increasing(Append(s, e))
<1>1. <<e>> \in Seq(Nat) /\ Len(<<e>>) = 1 /\ <<e>>[1] = e
  BY OneElement
<1>2. Increasing(<<e>>)
  BY <1>1 DEF Increasing
<1>3. Range(<<e>>) = {e}
  <2>1. Range(<<e>>) = {<<e>>[k] : k \in 1 .. 1}
    BY <1>1, RangeOf
  <2> QED
    BY <1>1, <2>1
<1>4. Append(s, e) = s \o <<e>>
  BY AppendIsConcat
<1> QED
  BY <1>1, <1>2, <1>3, <1>4, JoinIncreasing

\* Numbers that increase one by one do so over any distance.
LEMMA EarlierLess ==
  ASSUME NEW s \in Seq(Nat), Increasing(s)
  PROVE  \A l \in 1 .. Len(s) : \A k \in 1 .. l - 1 : s[k] < s[l]
<1>1. PICK n \in Nat : n = Len(s)
  BY LenProperties
<1> DEFINE T == {l \in 0 .. n : \A k \in 1 .. l - 1 : s[k] < s[l]}
<1>2. 0 \in T
  BY <1>1
<1>3. ASSUME NEW l \in 1 .. n, l - 1 \in T
      PROVE  l \in T
  <2> SUFFICES ASSUME NEW k \in 1 .. l - 1
               PROVE  s[k] < s[l]
    BY <1>1
  <2>1. /\ l - 1 \in 1 .. Len(s) - 1 /\ (l - 1) + 1 = l /\ l \in 1 .. Len(s) /\ k \in 1 .. Len(s)
        /\ l - 1 \in 1 .. Len(s)
    BY <1>1
  <2>2. s[l-1] < s[l]
    BY <2>1 DEF Increasing
  <2>3. s[k] \in Nat /\ s[l-1] \in Nat /\ s[l] \in Nat
    BY <2>1, ElementOfSeq
  <2>4. CASE k = l - 1
    BY <2>2, <2>4
  <2>5. CASE k # l - 1
    <3>1. k \in 1 .. (l - 1) - 1
      BY <1>1, <2>5
    <3>2. s[k] < s[l-1]
      BY <1>3, <3>1
    <3>3. PICK x, y, z : x = s[k] /\ y = s[l-1] /\ z = s[l]
      OBVIOUS
    <3>4. x \in Nat /\ y \in Nat /\ z \in Nat /\ x < y /\ y < z
      BY <2>2, <2>3, <3>2, <3>3
    <3>5. x < z
      BY ONLY <3>4
    <3> QED
      BY <3>3, <3>5
  <2> QED
    BY <2>4, <2>5
<1>4. \A l \in 0 .. n : l \in T
  <2>1. T \in SUBSET (0 .. n)
    OBVIOUS
  <2> HIDE DEF T
  <2> QED
    BY <1>2, <1>3, <2>1, AllNumbers
<1>5. \A l \in 1 .. n : l \in 0 .. n
  OBVIOUS
<1> QED
  BY <1>1, <1>4, <1>5

\* What is kept of a sequence, element by element.
KeptBy(kept, s, S) ==
  /\ kept[0] = <<>>
  /\ \A k \in 1 .. Len(s) : kept[k] = IF s[k] \in S THEN Append(kept[k-1], s[k]) ELSE kept[k-1]
  /\ Kept(s, S) = kept[Len(s)]

\* The numbers up to k, as a loop over positions takes them apart.
LEMMA PrefixMax ==
  ASSUME NEW n \in Nat, NEW k \in 1 .. n
  PROVE  Max(1 .. k) = k /\ (1 .. k) \ {k} = 1 .. k - 1
<1>1. k \in 1 .. k /\ \A j \in 1 .. k : k >= j
  OBVIOUS
<1>2. \A x \in 1 .. k : (\A j \in 1 .. k : x >= j) => x = k
  OBVIOUS
<1>3. Max(1 .. k) = k
  BY <1>1, <1>2 DEF Max
<1>4. (1 .. k) \ {k} = 1 .. k - 1
  OBVIOUS
<1> QED
  BY <1>3, <1>4

\* Kept goes through its sequence from the first element to the last.
LEMMA KeepsOneByOne ==
  ASSUME NEW V, NEW s \in Seq(V), NEW S
  PROVE  \E kept : KeptBy(kept, s, S)
<1> DEFINE D == DOMAIN s
           Do(acc, x) == IF x \in S THEN Append(acc, x) ELSE acc
           Is(g) == g = [P \in SUBSET D |-> IF P = {} THEN <<>>
                          ELSE LET y == Max(P) IN IF s[y] \in S THEN Append(g[P \ {y}], s[y]) ELSE g[P \ {y}]]
           W == Seq(V)
           op == [p \in W \X D |-> Do(p[1], s[p[2]])]
<1>1. PICK n \in Nat : n = Len(s) /\ D = 1 .. n
  BY LenProperties
<1>2. D \in SUBSET Nat /\ IsFiniteSet(D)
  <2>1. D \in SUBSET Nat
    BY <1>1
  <2>2. PICK a \in Int, b \in Int : a = 1 /\ b = n
    OBVIOUS
  <2>3. IsFiniteSet(a .. b)
    BY FS_Interval
  <2> QED
    BY <1>1, <2>1, <2>2, <2>3
<1>3. <<>> \in W
  OBVIOUS
<1>4. \A k \in D : s[k] \in V
  BY <1>1, ElementOfSeq
<1>5. op \in [W \X D -> W]
  <2>1. \A acc \in W : \A k \in D : Do(acc, s[k]) \in W
    BY <1>4, AppendProperties
  <2> HIDE DEF W, D, Do
  <2>2. \A p \in W \X D : Do(p[1], s[p[2]]) \in W
    BY <2>1
  <2> QED
    BY <2>2
<1>6. PICK f \in [SUBSET D -> W] : Carried(f, op, <<>>, D)
  <2> HIDE DEF D, W, op
  <2> QED
    BY <1>2, <1>3, <1>5, FoldExists
<1>7. \A P \in SUBSET D : P # {} => Max(P) \in D /\ P \ {Max(P)} \in SUBSET D
  <2> HIDE DEF D
  <2>1. \A P \in SUBSET D : P # {} => Max(P) \in P /\ P \ {Max(P)} \in SUBSET D
    BY <1>2, LessOne
  <2> QED
    BY <2>1
<1>8. Is(f)
  <2>1. ASSUME NEW P \in SUBSET D
        PROVE  f[P] = IF P = {} THEN <<>> ELSE Do(f[P \ {Max(P)}], s[Max(P)])
    <3> HIDE DEF D, W, Do
    <3>1. CASE P = {}
      BY <1>6, <3>1 DEF Carried
    <3>2. CASE P # {}
      <4>1. PICK x \in D, T \in SUBSET D : x = Max(P) /\ T = P \ {Max(P)}
        BY <1>7, <3>2
      <4>2. f[T] \in W /\ f[P] = op[<<f[T], x>>]
        BY <1>6, <3>2, <4>1 DEF Carried
      <4> QED
        BY <3>2, <4>1, <4>2
    <3> QED
      BY <3>1, <3>2
  <2>2. f = [P \in SUBSET D |-> f[P]]
    OBVIOUS
  <2> HIDE DEF D
  <2> QED
    BY <2>1, <2>2
<1>9. PICK g : g = CHOOSE h : Is(h)
  OBVIOUS
<1>10. Is(g)
  <2> HIDE DEF Is
  <2> QED
    BY <1>8, <1>9
<1>11. Kept(s, S) = g[D]
  BY <1>9 DEF Kept, FoldLeft, MapThenFoldSet
<1>12. PICK kept : kept = [k \in 0 .. n |-> g[1 .. k]]
  OBVIOUS
<1>13. kept[0] = <<>>
  <2>1. 0 \in 0 .. n /\ 1 .. 0 = {}
    OBVIOUS
  <2>2. g[{}] = <<>>
    BY <1>10
  <2> QED
    BY <1>12, <2>1, <2>2
<1>14. ASSUME NEW k \in 1 .. n
       PROVE  kept[k] = IF s[k] \in S THEN Append(kept[k-1], s[k]) ELSE kept[k-1]
  <2>1. Max(1 .. k) = k /\ (1 .. k) \ {k} = 1 .. k - 1
    BY PrefixMax
  <2>2. 1 .. k \in SUBSET D /\ 1 .. k # {}
    <3>1. k \in 1 .. k /\ \A j \in 1 .. k : j \in 1 .. n
      OBVIOUS
    <3> QED
      BY <1>1, <3>1
  <2>3. g[1 .. k] = Do(g[1 .. k - 1], s[k])
    BY <1>10, <2>1, <2>2
  <2>4. k \in 0 .. n /\ k - 1 \in 0 .. n
    OBVIOUS
  <2> QED
    BY <1>12, <2>3, <2>4
<1>15. Kept(s, S) = kept[n]
  BY <1>1, <1>11, <1>12
<1> QED
  BY <1>1, <1>13, <1>14, <1>15 DEF KeptBy

\* They are elements of the sequence, all that are in S.
LEMMA KeepsElements ==
  ASSUME NEW V, NEW s \in Seq(V), NEW S
  PROVE  Kept(s, S) \in Seq(V) /\ Range(Kept(s, S)) = Range(s) \cap S
<1>1. PICK kept : KeptBy(kept, s, S)
  BY KeepsOneByOne
<1>2. PICK n \in Nat : n = Len(s)
  BY LenProperties
<1> DEFINE Some(k) == {s[j] : j \in 1 .. k} \cap S
           T == {k \in 0 .. n : kept[k] \in Seq(V) /\ Range(kept[k]) = Some(k)}
<1>3. 0 \in T
  <2>1. kept[0] = <<>> /\ 1 .. 0 = {} /\ 0 \in 0 .. n
    BY <1>1 DEF KeptBy
  <2>2. <<>> \in Seq(V) /\ Range(<<>>) = {}
    BY DEF Range
  <2> QED
    BY <2>1, <2>2
<1>4. ASSUME NEW k \in 1 .. n, k - 1 \in T
      PROVE  k \in T
  <2>1. kept[k] = IF s[k] \in S THEN Append(kept[k-1], s[k]) ELSE kept[k-1]
    BY <1>1, <1>2 DEF KeptBy
  <2>2. s[k] \in V /\ k \in 0 .. n
    BY <1>2, ElementOfSeq
  <2>3. kept[k-1] \in Seq(V) /\ Range(kept[k-1]) = Some(k - 1)
    BY <1>4
  <2>4. 1 .. k = (1 .. k - 1) \cup {k}
    OBVIOUS
  <2>5. CASE s[k] \in S
    <3>1. kept[k] \in Seq(V) /\ Range(kept[k]) = Range(kept[k-1]) \cup {s[k]}
      BY <2>1, <2>2, <2>3, <2>5, AppendProperties, AppendRange
    <3>2. Some(k) = Some(k - 1) \cup {s[k]}
      BY <2>4, <2>5
    <3> QED
      BY <2>2, <2>3, <3>1, <3>2
  <2>6. CASE s[k] \notin S
    <3>1. Some(k) = Some(k - 1)
      BY <2>4, <2>6
    <3> QED
      BY <2>1, <2>2, <2>3, <2>6, <3>1
  <2> QED
    BY <2>5, <2>6
<1>5. n \in T
  <2>1. T \in SUBSET (0 .. n) /\ n \in 0 .. n
    OBVIOUS
  <2> HIDE DEF T
  <2> QED
    BY <1>3, <1>4, <2>1, AllNumbers
<1>6. Range(s) = {s[j] : j \in 1 .. n}
  BY <1>2, RangeOf
<1> QED
  BY <1>1, <1>2, <1>5, <1>6 DEF KeptBy

\* Their order is kept.
LEMMA KeepsOrder ==
  ASSUME NEW s \in Seq(Nat), NEW S, Increasing(s)
  PROVE  Increasing(Kept(s, S))
<1>1. PICK kept : KeptBy(kept, s, S)
  BY KeepsOneByOne
<1>2. PICK n \in Nat : n = Len(s)
  BY LenProperties
<1> DEFINE T == {k \in 0 .. n : kept[k] \in Seq(Nat) /\ Range(kept[k]) \subseteq {s[j] : j \in 1 .. k}
                                /\ Increasing(kept[k])}
<1>3. 0 \in T
  <2>1. kept[0] = <<>> /\ 1 .. 0 = {} /\ 0 \in 0 .. n
    BY <1>1 DEF KeptBy
  <2>2. <<>> \in Seq(Nat) /\ Range(<<>>) = {}
    BY DEF Range
  <2>3. Increasing(<<>>)
    <3>1. Len(<<>>) = 0 /\ 1 .. 0 - 1 = {}
      OBVIOUS
    <3> QED
      BY <3>1 DEF Increasing
  <2> QED
    BY <2>1, <2>2, <2>3
<1>4. ASSUME NEW k \in 1 .. n, k - 1 \in T
      PROVE  k \in T
  <2>1. kept[k] = IF s[k] \in S THEN Append(kept[k-1], s[k]) ELSE kept[k-1]
    BY <1>1, <1>2 DEF KeptBy
  <2>2. s[k] \in Nat /\ k \in 0 .. n
    BY <1>2, ElementOfSeq
  <2>3. /\ kept[k-1] \in Seq(Nat) /\ Range(kept[k-1]) \subseteq {s[j] : j \in 1 .. k - 1}
        /\ Increasing(kept[k-1])
    BY <1>4
  <2>4. 1 .. k = (1 .. k - 1) \cup {k}
    OBVIOUS
  <2>5. \A j \in 1 .. k - 1 : s[j] < s[k]
    BY <1>2, EarlierLess
  <2>6. CASE s[k] \in S
    <3>1. kept[k] \in Seq(Nat) /\ Range(kept[k]) = Range(kept[k-1]) \cup {s[k]}
      BY <2>1, <2>2, <2>3, <2>6, AppendProperties, AppendRange
    <3>2. \A a \in Range(kept[k-1]) : a < s[k]
      BY <2>3, <2>5
    <3>3. Increasing(kept[k])
      BY <2>1, <2>2, <2>3, <2>6, <3>2, AppendIncreasing
    <3>4. Range(kept[k]) \subseteq {s[j] : j \in 1 .. k}
      BY <2>3, <2>4, <3>1
    <3> QED
      BY <2>2, <3>1, <3>3, <3>4
  <2>7. CASE s[k] \notin S
    BY <2>1, <2>2, <2>3, <2>4, <2>7
  <2> QED
    BY <2>6, <2>7
<1>5. n \in T
  <2>1. T \in SUBSET (0 .. n) /\ n \in 0 .. n
    OBVIOUS
  <2> HIDE DEF T
  <2> QED
    BY <1>3, <1>4, <2>1, AllNumbers
<1> QED
  BY <1>1, <1>2, <1>5 DEF KeptBy

\* Of a sequence with elements in S followed by others, the former.
LEMMA KeepsFront ==
  ASSUME NEW V, NEW s \in Seq(V), NEW t \in Seq(V), NEW S,
         Range(s) \subseteq S, Range(t) \cap S = {}
  PROVE  Kept(s \o t, S) = s
<1>1. PICK u : u = s \o t
  OBVIOUS
<1>2. PICK m, n : m = Len(s) /\ n = Len(t)
  OBVIOUS
<1>3. /\ u \in Seq(V) /\ Len(u) = m + n /\ m \in Nat /\ n \in Nat
      /\ \A k \in 1 .. m + n : u[k] = IF k <= m THEN s[k] ELSE t[k - m]
  BY <1>1, <1>2, ConcatProperties, LenProperties
<1>4. PICK kept : KeptBy(kept, u, S)
  BY <1>3, KeepsOneByOne
<1>5. /\ kept[0] = <<>> /\ Kept(u, S) = kept[m + n]
      /\ \A k \in 1 .. m + n : kept[k] = IF u[k] \in S THEN Append(kept[k-1], u[k]) ELSE kept[k-1]
  BY <1>3, <1>4 DEF KeptBy
<1> DEFINE Front0(k) == SubSeq(s, 1, k)
           T == {k \in 0 .. m + n : kept[k] = IF k <= m THEN Front0(k) ELSE s}
<1>6. 0 \in T
  <2>1. SubSeq(s, 1, 0) = <<>>
    <3>1. PICK a \in Int, b \in Int : a = 1 /\ b = 0
      OBVIOUS
    <3>2. SubSeq(s, a, b) = <<>>
      BY <3>1, SubSeqEmpty
    <3> QED
      BY <3>1, <3>2
  <2>2. 0 \in 0 .. m + n /\ 0 <= m
    BY <1>3
  <2>3. kept[0] = Front0(0)
    BY <1>5, <2>1
  <2> QED
    BY <2>2, <2>3
<1>7. Front0(m) = s
  BY <1>2, SubSeqFull
<1>8. ASSUME NEW k \in 1 .. m + n, k - 1 \in T
      PROVE  k \in T
  <2>1. k \in 0 .. m + n
    BY <1>3
  <2>2. CASE k <= m
    <3>1. k \in 1 .. Len(s) /\ 1 \in 1 .. Len(s) /\ k - 1 <= m
      BY <1>2, <1>3, <2>2
    <3>2. u[k] = s[k] /\ s[k] \in V /\ s[k] \in S
      BY <1>2, <1>3, <2>2, <3>1, RangeOf, ElementOfSeq
    <3>3. kept[k-1] = Front0(k - 1)
      BY <1>8, <3>1
    <3>4. kept[k] = Append(Front0(k - 1), s[k])
      BY <1>5, <3>2, <3>3
    <3>5. PICK a \in 1 .. Len(s) : a = 1 /\ k \in a .. Len(s)
      BY <3>1
    <3>6. SubSeq(s, a, k) = SubSeq(s, a, k - 1) \o <<s[k]>>
      BY <3>5, SubSeqRecursiveSecond
    <3>7. Front0(k - 1) \in Seq(V)
      <4>1. \A j \in 1 .. k - 1 : s[j] \in V
        BY <3>1, ElementOfSeq
      <4>2. PICK b \in Int, c \in Int : b = 1 /\ c = k - 1
        OBVIOUS
      <4>3. SubSeq(s, b, c) \in Seq(V)
        BY <4>1, <4>2, SubSeqProperties
      <4> QED
        BY <4>2, <4>3
    <3>8. Append(Front0(k - 1), s[k]) = Front0(k - 1) \o <<s[k]>>
      BY <3>2, <3>7, AppendIsConcat
    <3>9. kept[k] = Front0(k)
      BY <3>4, <3>5, <3>6, <3>8
    <3> QED
      BY <2>1, <2>2, <3>9
  <2>3. CASE ~(k <= m)
    <3>1. k - m \in 1 .. Len(t) /\ k \in 1 .. m + n
      BY <1>2, <1>3, <2>3
    <3>2. u[k] = t[k - m] /\ t[k - m] \in Range(t)
      BY <1>3, <2>3, <3>1, RangeOf
    <3>3. kept[k] = kept[k-1]
      BY <1>5, <3>2
    <3>4. kept[k-1] = s
      <4>1. CASE k - 1 = m
        BY <1>3, <1>7, <1>8, <4>1
      <4>2. CASE k - 1 # m
        <5>1. ~(k - 1 <= m)
          BY <1>3, <2>3, <4>2
        <5> QED
          BY <1>8, <5>1
      <4> QED
        BY <4>1, <4>2
    <3> QED
      BY <2>1, <2>3, <3>3, <3>4
  <2> QED
    BY <2>2, <2>3
<1>9. m + n \in T
  <2>1. T \in SUBSET (0 .. m + n) /\ m + n \in 0 .. m + n /\ m + n \in Nat
    BY <1>3
  <2> HIDE DEF T
  <2> QED
    BY <1>6, <1>8, <2>1, AllNumbers
<1>10. kept[m + n] = s
  <2>1. CASE m + n <= m
    <3>1. m + n = m
      BY <1>3, <2>1
    <3> QED
      BY <1>7, <1>9, <2>1, <3>1
  <2>2. CASE ~(m + n <= m)
    BY <1>9, <2>2
  <2> QED
    BY <2>1, <2>2
<1> QED
  BY <1>1, <1>5, <1>10

-----------------------------------------------------------------------------
(* Updates.                                                                *)

\* Once the second point has the time of the first, it has.
LEMMA StaysStuck ==
  ASSUME NEW V, NEW s \in Seq(V), NEW t \in Seq(V), Stuck(s)
  PROVE  Stuck(s \o t)
<1>1. PICK u, m, n : u = s \o t /\ m = Len(s) /\ n = Len(t)
  OBVIOUS
<1>2. /\ Len(u) = m + n /\ m \in Nat /\ n \in Nat
      /\ \A k \in 1 .. m + n : u[k] = IF k <= m THEN s[k] ELSE t[k - m]
  BY <1>1, ConcatProperties, LenProperties
<1>3. m >= 2 /\ trip[s[2]].time = trip[s[2-1]].time
  BY <1>1 DEF Stuck, SameTime
<1>4. 1 \in 1 .. m + n /\ 2 \in 1 .. m + n /\ 1 <= m /\ 2 <= m /\ m + n >= 2
  BY <1>2, <1>3
<1>5. u[1] = s[1] /\ u[2] = s[2]
  BY <1>2, <1>4
<1> QED
  BY <1>1, <1>2, <1>3, <1>4, <1>5 DEF Stuck, SameTime

\* An update leaves a candidate, which has taken over its new points unless it is stuck.
LEMMA Updates ==
  ASSUME NEW c, IsCandidate(c), NEW d
  PROVE  /\ IsCandidate(Update(c, d)) /\ Update(c, d).roads = c.roads
         /\ ~Stuck(c.seq \o c.fresh) =>
              /\ Update(c, d).seq = c.seq \o c.fresh
              /\ Update(c, d).fresh = <<>> /\ Update(c, d).down = <<>>
<1> DEFINE s == IF Stuck(c.seq) THEN c.seq ELSE c.seq \o c.fresh
           last == IF Stuck(s) THEN 1 ELSE Len(s)
           terms(k) == IF k = 1 THEN FirstTerms(c, s, d)
                       ELSE Transitions(c.roads, s, k,
                              IF k <= Len(c.seq) THEN Len(c.down) ELSE Len(c.roads), d)
           num == [k \in 1 .. last |->
                     (IF k \in DOMAIN c.num THEN c.num[k] ELSE EmptyBag) (+) SetToBag(terms(k))]
<1>1. Update(c, d) = IF Stuck(s) THEN [c EXCEPT !.seq = s, !.num = num]
                     ELSE [c EXCEPT !.seq = s, !.num = num, !.fresh = <<>>, !.down = <<>>]
  BY DEF Update
<1> HIDE DEF num, last
<1>2. PICK u, n : u = s /\ n = num
  OBVIOUS
<1>3. PICK r, w, q, f, m : c = [roads |-> r, down |-> w, seq |-> q, fresh |-> f, num |-> m]
  BY DEF IsCandidate
<1>4. r \in Roads /\ w \in Seq(InNet) /\ q \in Seq(DOMAIN trip) /\ f \in Seq(DOMAIN trip)
  BY <1>3 DEF IsCandidate
<1>5. /\ q \o f \in Seq(DOMAIN trip) /\ (Stuck(q) => Stuck(q \o f))
      /\ <<>> \in Seq(DOMAIN trip) /\ <<>> \in Seq(InNet)
  BY <1>4, ConcatProperties, StaysStuck
<1>6. u = IF Stuck(q) THEN q ELSE q \o f
  BY <1>2, <1>3
<1>7. u \in Seq(DOMAIN trip)
  BY <1>4, <1>5, <1>6
<1>8. Update(c, d) = IF Stuck(u) THEN [roads |-> r, down |-> w, seq |-> u, fresh |-> f, num |-> n]
                     ELSE [roads |-> r, down |-> <<>>, seq |-> u, fresh |-> <<>>, num |-> n]
  <2> HIDE DEF s
  <2>1. Update(c, d) = IF Stuck(u) THEN [c EXCEPT !.seq = u, !.num = n]
                       ELSE [c EXCEPT !.seq = u, !.num = n, !.fresh = <<>>, !.down = <<>>]
    BY <1>1, <1>2
  <2>2. PICK c1 : c1 = [c EXCEPT !.seq = u]
    OBVIOUS
  <2>3. PICK c2 : c2 = [c1 EXCEPT !.num = n]
    OBVIOUS
  <2>4. PICK c3 : c3 = [c2 EXCEPT !.fresh = <<>>]
    OBVIOUS
  <2>5. PICK c4 : c4 = [c3 EXCEPT !.down = <<>>]
    OBVIOUS
  <2>6. c1 = [roads |-> r, down |-> w, seq |-> u, fresh |-> f, num |-> m]
    BY ONLY <1>3, <2>2
  <2>7. c2 = [roads |-> r, down |-> w, seq |-> u, fresh |-> f, num |-> n]
    BY ONLY <2>3, <2>6
  <2>8. c3 = [roads |-> r, down |-> w, seq |-> u, fresh |-> <<>>, num |-> n]
    BY ONLY <2>4, <2>7
  <2>9. c4 = [roads |-> r, down |-> <<>>, seq |-> u, fresh |-> <<>>, num |-> n]
    BY ONLY <2>5, <2>8
  <2>10. [c EXCEPT !.seq = u, !.num = n] = c2
    BY ONLY <2>2, <2>3
  <2>11. [c EXCEPT !.seq = u, !.num = n, !.fresh = <<>>, !.down = <<>>] = c4
    BY ONLY <2>2, <2>3, <2>4, <2>5
  <2>12. Update(c, d) = IF Stuck(u) THEN c2 ELSE c4
    BY <2>1, <2>10, <2>11
  <2> QED
    BY <2>7, <2>9, <2>12
<1>9. PICK x : x = Update(c, d)
  OBVIOUS
<1>10. IsCandidate(x)
  <2>1. CASE Stuck(u)
    <3>1. x = [roads |-> r, down |-> w, seq |-> u, fresh |-> f, num |-> n]
      BY <1>8, <1>9, <2>1
    <3> QED
      BY <1>4, <1>7, <3>1 DEF IsCandidate
  <2>2. CASE ~Stuck(u)
    <3>1. x = [roads |-> r, down |-> <<>>, seq |-> u, fresh |-> <<>>, num |-> n]
      BY <1>8, <1>9, <2>2
    <3> QED
      BY <1>4, <1>5, <1>7, <3>1 DEF IsCandidate
  <2> QED
    BY <2>1, <2>2
<1>11. ASSUME ~Stuck(q \o f)
       PROVE  x.seq = q \o f /\ x.fresh = <<>> /\ x.down = <<>>
  BY <1>5, <1>6, <1>8, <1>9, <1>11
<1>12. c.seq = q /\ c.fresh = f /\ c.roads = r
  BY <1>3
<1>13. x.roads = r
  BY <1>8, <1>9
<1> QED
  BY <1>9, <1>10, <1>11, <1>12, <1>13

\* A candidate given new points and brought up to date.
LEMMA Absorbs ==
  ASSUME NEW c, IsCandidate(c), NEW points \in Seq(DOMAIN trip), NEW d
  PROVE  /\ IsCandidate(Update(AddMeasurements(c, points), d))
         /\ Update(AddMeasurements(c, points), d).roads = c.roads
         /\ c.fresh = <<>> /\ ~Stuck(c.seq \o points) =>
              /\ Update(AddMeasurements(c, points), d).seq = c.seq \o points
              /\ Update(AddMeasurements(c, points), d).fresh = <<>>
              /\ Update(AddMeasurements(c, points), d).down = <<>>
<1>1. PICK g : g = AddMeasurements(c, points)
  OBVIOUS
<1>2. PICK r, w, s, f, n : c = [roads |-> r, down |-> w, seq |-> s, fresh |-> f, num |-> n]
  BY DEF IsCandidate
<1>3. r \in Roads /\ w \in Seq(InNet) /\ s \in Seq(DOMAIN trip) /\ f \in Seq(DOMAIN trip)
  BY <1>2 DEF IsCandidate
<1>4. g = [roads |-> r, down |-> w, seq |-> s, fresh |-> f \o points, num |-> n]
  BY ONLY <1>1, <1>2 DEF AddMeasurements
<1>5. f \o points \in Seq(DOMAIN trip)
  BY <1>3, ConcatProperties
<1>6. IsCandidate(g)
  BY <1>3, <1>4, <1>5 DEF IsCandidate
<1>7. IsCandidate(Update(g, d)) /\ Update(g, d).roads = r
  BY <1>4, <1>6, Updates
<1>8. ASSUME f = <<>>, ~Stuck(s \o points)
      PROVE  Update(g, d).seq = s \o points /\ Update(g, d).fresh = <<>> /\ Update(g, d).down = <<>>
  <2>1. f \o points = points
    BY <1>8, ConcatEmptySeq
  <2>2. g.seq = s /\ g.fresh = points
    BY <1>4, <2>1
  <2>3. ~Stuck(g.seq \o g.fresh)
    BY <1>8, <2>2
  <2> QED
    BY <1>6, <2>2, <2>3, Updates
<1>9. c.fresh = f /\ c.seq = s /\ c.roads = r
  BY <1>2
<1> QED
  BY <1>1, <1>7, <1>8, <1>9

\* A trip has a first point.
LEMMA TripPoints ==
  ASSUME NEW t \in Trip
  PROVE  /\ DOMAIN t = 1 .. Len(t) /\ Len(t) \in Nat /\ Len(t) > 0
         /\ DOMAIN t \subseteq Nat /\ 1 \in DOMAIN t
<1>1. PICK V : V = Range(t)
  OBVIOUS
<1>2. t \in Seq(V) /\ t # <<>>
  BY <1>1, MatchingAssumption
<1>3. DOMAIN t = 1 .. Len(t) /\ Len(t) \in Nat \ {0}
  BY <1>2, LenProperties, EmptySeq
<1> QED
  BY <1>3

\* The points matched now: those put aside that have a domain, and the present one.
NewPoints(a) ==
  /\ a.points \in Seq(DOMAIN trip) /\ Increasing(a.points)
  /\ Range(a.points) \subseteq prevGps + 1 .. i /\ i \in Range(a.points)
  /\ \A g \in Range(inter) : g \in Range(a.points) \/ a.ddr[g] = {}

\* Their domains, and those of the other points.
NewDomains(a) ==
  /\ a.ddr \in [DOMAIN trip -> SUBSET InNet]
  /\ \A g \in DOMAIN trip : a.ddr[g] \subseteq Near(g)
  /\ Closed(a.ddr[i])
  /\ \A g \in DOMAIN trip : g \notin Range(inter) \cup {i} => a.ddr[g] = ddr[g]

\* The candidates account for them.
NewCandidates(a) ==
  \A x \in a.temp :
    /\ IsCandidate(x)
    /\ ~Stuck(running \o a.points) => x.seq = running \o a.points /\ x.fresh = <<>> /\ x.down = <<>>

\* The points that are absorbed follow those already matched.
LEMMA AbsorbsPoints ==
  ASSUME Begun, status = "matching", NEW temp, NEW arcmodes, NEW domain, NEW lowspeed
  PROVE  NewPoints(Absorb(temp, arcmodes, domain, lowspeed))
<1> DEFINE d == [g \in DOMAIN trip |->
                   CASE g = i -> FinalizeDDR(domain)
                     [] g \in Range(inter) -> ddr[g] \cup Inherent(ddr[prevGps] \cup arcmodes, g, lowspeed)
                     [] OTHER -> ddr[g]]
           points == Append(Kept(inter, {g \in DOMAIN trip : d[g] # {}}), i)
<1>1. PICK a : a = Absorb(temp, arcmodes, domain, lowspeed)
  OBVIOUS
<1>2. a.ddr = d /\ a.points = points
  BY <1>1 DEF Absorb
<1> HIDE DEF d
<1>3. PICK kept : kept = Kept(inter, {g \in DOMAIN trip : d[g] # {}})
  OBVIOUS
<1>4. /\ inter \in Seq(DOMAIN trip) /\ Increasing(inter)
      /\ DOMAIN trip = 1 .. Len(trip) /\ DOMAIN trip \subseteq Nat
      /\ Range(inter) \subseteq prevGps + 1 .. i - 1 /\ i \in 2 .. Len(trip) /\ prevGps \in DOMAIN trip
      /\ Len(trip) \in Nat /\ prevGps < i
  BY TripPoints DEF Begun, Typed, Midway
<1>5. kept \in Seq(DOMAIN trip) /\ Range(kept) = Range(inter) \cap {g \in DOMAIN trip : d[g] # {}}
  BY <1>3, <1>4, KeepsElements
<1>6. inter \in Seq(Nat) /\ kept \in Seq(Nat)
  BY <1>4, <1>5, SeqMonotonic
<1>7. Increasing(kept)
  BY <1>3, <1>4, <1>6, KeepsOrder
<1>8. i \in DOMAIN trip /\ i \in Nat /\ prevGps \in Nat
  BY <1>4
<1>9. \A g \in Range(kept) : g < i /\ g \in prevGps + 1 .. i
  BY <1>4, <1>5, <1>8
<1>10. PICK pts : pts = Append(kept, i)
  OBVIOUS
<1>11. pts \in Seq(DOMAIN trip) /\ Range(pts) = Range(kept) \cup {i} /\ Increasing(pts)
  <2>1. pts \in Seq(DOMAIN trip)
    BY <1>5, <1>8, <1>10, AppendProperties
  <2>2. Range(pts) = Range(kept) \cup {i}
    BY <1>6, <1>8, <1>10, AppendRange
  <2>3. \A g \in Range(kept) : g < i
    BY <1>9
  <2>4. Increasing(pts)
    BY <1>6, <1>7, <1>8, <1>10, <2>3, AppendIncreasing
  <2> QED
    BY <2>1, <2>2, <2>4
<1>12. Range(inter) \subseteq DOMAIN trip
  BY <1>4, RangeOf
<1>13. \A g \in Range(inter) : g \in Range(pts) \/ d[g] = {}
  BY <1>5, <1>11, <1>12
<1>14. Range(pts) \subseteq prevGps + 1 .. i
  <2>1. i \in prevGps + 1 .. i
    BY <1>4, <1>8
  <2> QED
    BY <1>9, <1>11, <2>1
<1>15. a.points = pts /\ i \in Range(pts)
  BY <1>2, <1>3, <1>10, <1>11
<1> QED
  BY <1>1, <1>2, <1>11, <1>13, <1>14, <1>15 DEF NewPoints

\* A domain is completed in all modes by arcs that are in it.
LEMMA Finalizes ==
  ASSUME NetInv, NEW domain \in SUBSET Near(i)
  PROVE  FinalizeDDR(domain) \subseteq Near(i) /\ Closed(FinalizeDDR(domain))
<1> DEFINE more == {x \in Arc \X osm.enabled : x[1] \in net[x[2]] /\ \E y \in domain : x[1] = y[1]}
<1>1. osm.enabled \subseteq Mode
  BY ExtractAssumption DEF NetInv, NetTypeOK
<1>2. net \in [Mode -> SUBSET Arc]
  BY DEF NetInv, NetTypeOK
<1>3. FinalizeDDR(domain) = domain \cup more
  BY DEF FinalizeDDR
<1>4. more \subseteq Near(i)
  <2> SUFFICES ASSUME NEW x \in more
               PROVE  x \in Near(i)
    OBVIOUS
  <2>1. PICK y \in domain : x[1] = y[1]
    OBVIOUS
  <2>2. y[1] \in trip[i].around
    BY DEF Near
  <2>3. x \in Arc \X Mode /\ x[1] \in net[x[2]]
    BY <1>1
  <2> QED
    BY <2>1, <2>2, <2>3 DEF Near, InNet
<1>5. ASSUME NEW x \in domain \cup more, NEW m \in osm.enabled, x[1] \in net[m]
      PROVE  <<x[1], m>> \in more
  <2>1. x[1] \in Arc
    BY <1>1, <1>2, <1>5
  <2>2. \E y \in domain : x[1] = y[1]
    BY <1>5
  <2> QED
    BY <1>5, <2>1, <2>2
<1> HIDE DEF more
<1> QED
  BY <1>3, <1>4, <1>5 DEF Closed

\* The domains of the points that are absorbed stay near them.
LEMMA AbsorbsDomains ==
  ASSUME NetInv, Begun, status = "matching", NEW temp, NEW arcmodes \in SUBSET InNet,
         NEW domain \in SUBSET Near(i), NEW lowspeed
  PROVE  NewDomains(Absorb(temp, arcmodes, domain, lowspeed))
<1> DEFINE D(g) == CASE g = i -> FinalizeDDR(domain)
                     [] g \in Range(inter) -> ddr[g] \cup Inherent(ddr[prevGps] \cup arcmodes, g, lowspeed)
                     [] OTHER -> ddr[g]
<1>1. PICK d : d = Absorb(temp, arcmodes, domain, lowspeed).ddr
  OBVIOUS
<1>2. d = [g \in DOMAIN trip |-> D(g)]
  BY <1>1 DEF Absorb
<1>3. /\ trip \in Trip /\ i \in 2 .. Len(trip) /\ DOMAIN trip = 1 .. Len(trip) /\ prevGps \in DOMAIN trip
      /\ ddr \in [DOMAIN trip -> SUBSET InNet] /\ \A g \in DOMAIN trip : ddr[g] \subseteq Near(g)
      /\ Range(inter) \subseteq prevGps + 1 .. i - 1
  BY TripPoints DEF Begun, Typed, Midway
<1>4. i \in DOMAIN trip /\ i \notin Range(inter)
  BY <1>3
<1>5. FinalizeDDR(domain) \subseteq Near(i) /\ Closed(FinalizeDDR(domain))
  BY Finalizes
<1>6. ASSUME NEW g \in DOMAIN trip
      PROVE  D(g) \subseteq Near(g) /\ (g \notin Range(inter) \cup {i} => D(g) = ddr[g])
  <2>1. CASE g = i
    <3>1. D(g) = FinalizeDDR(domain)
      BY <1>4, <2>1
    <3> QED
      <4> HIDE DEF D
      <4> QED
        BY <1>5, <2>1, <3>1
  <2>2. CASE g # i /\ g \in Range(inter)
    <3>1. D(g) = ddr[g] \cup Inherent(ddr[prevGps] \cup arcmodes, g, lowspeed)
      BY <2>2
    <3>2. ddr[prevGps] \cup arcmodes \subseteq InNet
      BY <1>3
    <3>3. DetArcs(g, lowspeed) \subseteq trip[g].around
      BY <1>3, Domains
    <3>4. Inherent(ddr[prevGps] \cup arcmodes, g, lowspeed) \subseteq Near(g)
      BY <3>2, <3>3 DEF Inherent, Near
    <3> QED
      BY <1>3, <2>2, <3>1, <3>4
  <2>3. CASE g # i /\ g \notin Range(inter)
    <3>1. D(g) = ddr[g]
      BY <2>3
    <3> QED
      BY <1>3, <2>3, <3>1
  <2> QED
    BY <2>1, <2>2, <2>3
<1>7. \A g \in DOMAIN trip : d[g] = D(g)
  <2> HIDE DEF D
  <2> QED
    BY <1>2
<1>8. d[i] = FinalizeDDR(domain)
  BY <1>4, <1>7
<1>9. \A g \in DOMAIN trip : Near(g) \subseteq InNet
  BY DEF Near
<1> HIDE DEF D
<1>10. d \in [DOMAIN trip -> SUBSET InNet]
  BY <1>2, <1>6, <1>9
<1> QED
  BY <1>1, <1>5, <1>6, <1>7, <1>8, <1>10 DEF NewDomains

\* All candidates absorb the same points.
LEMMA AbsorbsCandidates ==
  ASSUME Begun, status = "matching", NEW temp \in SUBSET Grown, NEW arcmodes, NEW domain, NEW lowspeed
  PROVE  NewCandidates(Absorb(temp, arcmodes, domain, lowspeed))
<1>1. PICK a : a = Absorb(temp, arcmodes, domain, lowspeed)
  OBVIOUS
<1>2. a.temp = {Update(AddMeasurements(c, a.points), a.ddr) : c \in temp}
  BY <1>1 DEF Absorb
<1>3. PICK points : points = a.points
  OBVIOUS
<1>4. points \in Seq(DOMAIN trip)
  BY <1>1, <1>3, AbsorbsPoints DEF NewPoints
<1>5. running \in Seq(DOMAIN trip) /\ Clean /\ \A c \in paths : IsCandidate(c)
  BY DEF Begun, Typed, Midway
<1> SUFFICES ASSUME NEW x \in a.temp
             PROVE  /\ IsCandidate(x)
                    /\ ~Stuck(running \o points) =>
                         x.seq = running \o points /\ x.fresh = <<>> /\ x.down = <<>>
  BY <1>1, <1>3 DEF NewCandidates
<1>6. PICK d : d = a.ddr
  OBVIOUS
<1>7. PICK c \in temp : x = Update(AddMeasurements(c, points), d)
  BY <1>2, <1>3, <1>6
<1>8. PICK p \in paths, r \in Roads, w \in Seq(InNet) : c = Grew(p, r, w)
  BY DEF Grown
<1>9. IsCandidate(c) /\ c.seq = p.seq /\ c.fresh = p.fresh
  BY <1>5, <1>8 DEF IsCandidate, Grew
<1>10. /\ IsCandidate(x)
       /\ c.fresh = <<>> /\ ~Stuck(c.seq \o points) =>
            x.seq = c.seq \o points /\ x.fresh = <<>> /\ x.down = <<>>
  BY <1>4, <1>7, <1>9, Absorbs
<1>11. ASSUME ~Stuck(running \o points)
       PROVE  p.seq = running /\ p.fresh = <<>>
  <2>1. ~Stuck(running)
    BY <1>4, <1>5, <1>11, StaysStuck
  <2> QED
    BY <1>5, <2>1 DEF Clean
<1> QED
  BY <1>9, <1>10, <1>11

-----------------------------------------------------------------------------
(* The steps keep the invariant.                                           *)

\* What depends on the networks and the trip alone stays when they do.
LEMMA Unmoved ==
  ASSUME UNCHANGED netVars, trip' = trip
  PROVE  /\ InNet' = InNet
         /\ \A c : IsCandidate(c)' <=> IsCandidate(c)
         /\ \A s : Stuck(s)' <=> Stuck(s)
         /\ \A g : Near(g)' = Near(g)
         /\ \A d : Closed(d)' <=> Closed(d)
<1>1. net' = net /\ osm' = osm
  BY DEF netVars
<1>2. InNet' = InNet
  BY <1>1 DEF InNet
<1>3. Roads' = Roads
  BY <1>2 DEF Roads
<1>4. \A c : IsCandidate(c)' <=> IsCandidate(c)
  BY <1>2, <1>3 DEF IsCandidate
<1>5. \A s : Stuck(s)' <=> Stuck(s)
  BY DEF Stuck, SameTime
<1>6. \A g : Near(g)' = Near(g)
  BY <1>2 DEF Near
<1>7. \A d : Closed(d)' <=> Closed(d)
  BY <1>1 DEF Closed
<1> QED
  BY <1>2, <1>4, <1>5, <1>6, <1>7

\* Nothing has been matched at first.
LEMMA InvStarts ==
  ASSUME Init
  PROVE  MatchInv
<1>1. NetInv
  BY NetStarts DEF Init
<1>2. status = "start" /\ Unread
  BY DEF Init, MatchInit, Unread, Fresh, NoFile
<1> QED
  BY <1>1, <1>2 DEF MatchInv

\* While networks are built nothing is matched.
LEMMA InvBuilds ==
  ASSUME MatchInv, NetNext, UNCHANGED mmVars
  PROVE  MatchInv'
<1>1. stage # "ready"
  BY DEF NetNext, Skip, ReadRoads, ReadRelation, Summarize, Access, Mode, PublicTransport
<1>2. status = "start" /\ Unread
  BY <1>1 DEF MatchInv, Begun
<1>3. status' = "start" /\ Unread'
  BY <1>2 DEF mmVars, Unread, Fresh, NoFile
<1>4. NetInv'
  BY NetStep DEF MatchInv
<1> QED
  BY <1>3, <1>4 DEF MatchInv

\* The points that are read have no domain yet.
LEMMA InvReads ==
  ASSUME MatchInv, stage = "ready", ReadFromFile, UNCHANGED netVars
  PROVE  MatchInv'
<1>1. /\ i = 1 /\ running = <<>> /\ inter = <<>> /\ paths = {} /\ prevGps = 1
      /\ fail_iter = 0 /\ valid = {} /\ NoFile
  BY DEF MatchInv, ReadFromFile, Unread, Fresh
<1>2. /\ i' = 1 /\ running' = <<>> /\ inter' = <<>> /\ paths' = {} /\ prevGps' = 1
      /\ fail_iter' = 0 /\ valid' = {} /\ file' = file /\ status' = "first" /\ stage' = "ready"
  BY <1>1 DEF ReadFromFile, netVars
<1>3. trip' \in Trip /\ low' \subseteq DOMAIN trip' /\ ddr' = [g \in DOMAIN trip' |-> {}]
  BY DEF ReadFromFile
<1>4. /\ 1 \in DOMAIN trip' /\ DOMAIN trip' = 1 .. Len(trip') /\ Len(trip') \in Nat
  BY <1>3, TripPoints
<1>5. NoFile' /\ Fresh'
  BY <1>1, <1>2 DEF Fresh, NoFile
<1>6. ddr' \in [DOMAIN trip' -> SUBSET InNet'] /\ \A g \in DOMAIN trip' : ddr'[g] = {}
  BY <1>3
<1>7. Typed'
  <2>1. <<>> \in Seq(DOMAIN trip')
    OBVIOUS
  <2>2. 1 \in 1 .. Len(trip') + 1 /\ 0 \in 0 .. MaxFailures + 1 /\ ~(0 > MaxFailures)
    BY <1>4, MatchingAssumption
  <2> QED
    BY <1>2, <1>3, <1>4, <1>6, <2>1, <2>2 DEF Typed
<1>8. Increasing(<<>>)
  BY DEF Increasing
<1>9. FilesAgree'
  BY <1>2, <1>5 DEF FilesAgree, NoFile
<1>10. Closed(ddr[prevGps])' /\ (\A g \in DOMAIN trip : ddr[g] \subseteq Near(g))'
  <2>1. ddr'[prevGps'] = {}
    BY <1>2, <1>4, <1>6
  <2>2. Closed(ddr[prevGps])'
    BY <2>1 DEF Closed
  <2>3. \A g \in DOMAIN trip' : ddr'[g] \subseteq Near(g)'
    BY <1>6
  <2> QED
    BY <2>2, <2>3
<1>11. Increasing(running)' /\ Increasing(inter)'
  BY <1>2, <1>8
<1>12. (status = "first" => Fresh /\ \A g \in DOMAIN trip : ddr[g] = {})' /\ (status = "matching" => Midway)'
  BY <1>2, <1>5, <1>6
<1>13. Begun'
  BY <1>2, <1>7, <1>9, <1>10, <1>11, <1>12 DEF Begun
<1> QED
  BY <1>2, <1>13, NetStays DEF MatchInv

\* The domain of the first point: near it, and in every mode of its arcs.
LEMMA FirstDomains ==
  ASSUME NetInv, trip \in Trip
  PROVE  FirstDomain \subseteq Near(1) /\ Closed(FirstDomain) /\ FirstDomain \subseteq InNet
<1>1. osm.enabled \subseteq Mode
  BY ExtractAssumption DEF NetInv, NetTypeOK
<1>2. net \in [Mode -> SUBSET Arc]
  BY DEF NetInv, NetTypeOK
<1>3. DetArcs(1, low) \subseteq trip[1].around
  BY TripPoints, Domains
<1>4. FirstDomain \subseteq Near(1)
  BY <1>1, <1>3 DEF FirstDomain, Near, InNet
<1>5. Closed(FirstDomain)
  <2> SUFFICES ASSUME NEW x \in FirstDomain, NEW m \in osm.enabled, x[1] \in net[m]
               PROVE  <<x[1], m>> \in FirstDomain
    BY DEF Closed
  <2>1. x[1] \in Arc /\ x[1] \in DetArcs(1, low)
    BY <1>1, <1>2 DEF FirstDomain
  <2> QED
    BY <2>1 DEF FirstDomain
<1> QED
  BY <1>4, <1>5 DEF Near

\* The candidate an arc makes, in the first network that has it.
FirstOf(a) ==
  NewCandidate(<<a, ByName[Min({k \in Networks : ~TooFast(ByName[k], 1) /\ <<a, ByName[k]>> \in FirstDomain})]>>, 1)

\* Each candidate of the first point is an arc of a network.
LEMMA FirstAreCandidates ==
  ASSUME NetInv, trip \in Trip, NEW c \in FirstCandidates
  PROVE  /\ IsCandidate(c) /\ c.seq = <<>> /\ c.fresh = <<1>>
         /\ \E x \in FirstDomain : c.roads = <<x>> /\ c = FirstOf(x[1])
<1> DEFINE having(a) == {k \in Networks : ~TooFast(ByName[k], 1) /\ <<a, ByName[k]>> \in FirstDomain}
<1>1. PICK a \in Arc : having(a) # {} /\ c = NewCandidate(<<a, ByName[Min(having(a))]>>, 1)
  BY DEF FirstCandidates
<1>2. PICK H : H = having(a)
  OBVIOUS
<1>3. H \subseteq Networks /\ H # {} /\ \A k \in H : <<a, ByName[k]>> \in FirstDomain
  BY <1>1, <1>2
<1>4. PICK least \in H : \A k \in H : least <= k
  BY <1>3, ByNames, LeastOfNaturals
<1>5. Min(H) \in H
  BY <1>4 DEF Min
<1>6. PICK x : x = <<a, ByName[Min(H)]>>
  OBVIOUS
<1>7. x \in InNet /\ x \in FirstDomain /\ c = NewCandidate(x, 1) /\ c = FirstOf(x[1])
  <2>1. x \in FirstDomain
    BY <1>3, <1>5, <1>6
  <2>2. c = NewCandidate(x, 1)
    BY <1>1, <1>2, <1>6
  <2>3. c = FirstOf(a) /\ x[1] = a
    BY <1>1, <1>6 DEF FirstOf
  <2> QED
    BY <2>1, <2>2, <2>3, FirstDomains
<1>8. c = [roads |-> <<x>>, down |-> <<x>>, seq |-> <<>>, fresh |-> <<1>>, num |-> <<>>]
  BY <1>7 DEF NewCandidate
<1>9. <<x>> \in Seq(InNet) /\ <<x>> # <<>>
  BY <1>7, OneElement
<1>10. <<1>> \in Seq(DOMAIN trip) /\ <<>> \in Seq(DOMAIN trip)
  BY TripPoints, OneElement
<1>11. IsCandidate(c) /\ c.seq = <<>> /\ c.fresh = <<1>> /\ c.roads = <<x>>
  BY <1>8, <1>9, <1>10 DEF IsCandidate, Roads
<1> QED
  BY <1>7, <1>11

\* The first point, with or without a domain.
LEMMA InvFirst ==
  ASSUME MatchInv, stage = "ready", FirstIteration, UNCHANGED netVars
  PROVE  MatchInv'
<1>1. status = "first" /\ NetInv /\ Begun /\ Fresh /\ \A g \in DOMAIN trip : ddr[g] = {}
  BY DEF MatchInv, Begun, FirstIteration
<1>2. /\ i = 1 /\ inter = <<>> /\ paths = {} /\ prevGps = 1 /\ fail_iter = 0 /\ valid = {} /\ NoFile
      /\ trip \in Trip /\ low \subseteq DOMAIN trip /\ ddr \in [DOMAIN trip -> SUBSET InNet]
  BY <1>1 DEF Fresh, Begun, Typed
<1>3. /\ trip' = trip /\ low' = low /\ inter' = <<>> /\ prevGps' = 1 /\ fail_iter' = 0
      /\ valid' = {} /\ file' = file /\ running' = <<1>> /\ ddr' = [ddr EXCEPT ![1] = FirstDomain]
      /\ stage' = "ready"
  BY <1>2 DEF FirstIteration, netVars
<1>4. /\ 1 \in DOMAIN trip /\ DOMAIN trip = 1 .. Len(trip) /\ Len(trip) \in Nat /\ Len(trip) > 0
  BY <1>2, TripPoints
<1>5. /\ ddr' \in [DOMAIN trip -> SUBSET InNet] /\ ddr'[1] = FirstDomain
      /\ \A g \in DOMAIN trip : ddr'[g] \subseteq Near(g)
  <2>1. FirstDomain \subseteq Near(1) /\ FirstDomain \subseteq InNet
    BY <1>1, <1>2, FirstDomains
  <2>2. \A g \in DOMAIN trip : ddr'[g] = IF g = 1 THEN FirstDomain ELSE {}
    BY <1>1, <1>2, <1>3
  <2> QED
    BY <1>2, <1>3, <1>4, <2>1, <2>2
<1>6. /\ <<1>> \in Seq(DOMAIN trip) /\ <<>> \in Seq(DOMAIN trip)
      /\ Len(<<1>>) = 1 /\ Range(<<1>>) = {1} /\ Range(<<>>) = {} /\ Increasing(<<1>>) /\ Increasing(<<>>)
      /\ ~Stuck(<<1>>)
  <2>1. <<1>> \in Seq(DOMAIN trip) /\ Len(<<1>>) = 1 /\ <<1>>[1] = 1
    BY <1>4, OneElement
  <2>2. Range(<<1>>) = {1}
    <3>1. PICK u : u = <<1>>
      OBVIOUS
    <3>2. Range(u) = {u[k] : k \in 1 .. Len(u)}
      <4>1. u \in Seq(DOMAIN trip)
        BY <2>1, <3>1
      <4> QED
        BY <4>1, RangeOf
    <3>3. Len(u) = 1 /\ u[1] = 1
      BY <2>1, <3>1
    <3>4. Range(u) = {1}
      BY <3>2, <3>3
    <3> QED
      BY <3>1, <3>4
  <2> QED
    BY <2>1, <2>2 DEF Increasing, Range, Stuck
<1>7. /\ \A c \in paths' : IsCandidate(c) /\ c.seq = <<1>> /\ c.fresh = <<>> /\ c.down = <<>>
      /\ \/ status' = "nodomain" /\ i' = 1
         \/ status' = "done" /\ i' = 2 /\ Len(trip) = 1
         \/ status' = "matching" /\ i' = 2 /\ Len(trip) # 1
  <2>1. CASE FirstDomain = {}
    <3>1. status' = "nodomain" /\ i' = 1 /\ paths' = {}
      BY <1>2, <2>1 DEF FirstIteration
    <3> QED
      BY <3>1
  <2>2. CASE FirstDomain # {}
    <3>1. PICK d : d = ddr'
      OBVIOUS
    <3>2. /\ paths' \in SelectPaths({Update(c, d) : c \in FirstCandidates}, FirstDomain)
          /\ i' = 2 /\ status' = IF Len(trip) = 1 THEN "done" ELSE "matching"
      BY <2>2, <3>1 DEF FirstIteration
    <3>3. paths' \subseteq {Update(c, d) : c \in FirstCandidates}
      BY <3>2, Selects
    <3>4. ASSUME NEW x \in paths'
          PROVE  IsCandidate(x) /\ x.seq = <<1>> /\ x.fresh = <<>> /\ x.down = <<>>
      <4>1. PICK c \in FirstCandidates : x = Update(c, d)
        BY <3>3, <3>4
      <4>2. IsCandidate(c) /\ c.seq = <<>> /\ c.fresh = <<1>>
        BY <1>1, <1>2, FirstAreCandidates
      <4>3. c.seq \o c.fresh = <<1>>
        BY <1>6, <4>2, ConcatEmptySeq
      <4> QED
        BY <1>6, <4>1, <4>2, <4>3, Updates
    <3> QED
      BY <3>2, <3>4
  <2> QED
    BY <2>1, <2>2
<1>8. /\ InNet' = InNet /\ (\A c : IsCandidate(c)' <=> IsCandidate(c)) /\ (\A s : Stuck(s)' <=> Stuck(s))
      /\ (\A g : Near(g)' = Near(g)) /\ (\A d : Closed(d)' <=> Closed(d))
  BY <1>3, Unmoved
<1>9. Typed'
  <2>1. i' \in 1 .. Len(trip) + 1 /\ 0 \in 0 .. MaxFailures + 1 /\ ~(0 > MaxFailures) /\ status' # "gaveup"
    BY <1>4, <1>7, MatchingAssumption
  <2>2. \A c \in paths' : IsCandidate(c)'
    BY <1>7, <1>8
  <2> QED
    BY <1>2, <1>3, <1>4, <1>5, <1>6, <1>8, <2>1, <2>2 DEF Typed
<1>10. NoFile' /\ FilesAgree'
  <2>1. NoFile'
    BY <1>2, <1>3 DEF NoFile
  <2>2. file'.numbered = {} /\ file'.final = {}
    BY <2>1 DEF NoFile
  <2>3. ~(status' = "done" /\ Len(trip') > 1)
    BY <1>3, <1>4, <1>7
  <2> QED
    BY <2>1, <2>2, <2>3 DEF FilesAgree
<1>11. (status = "matching" => Midway)'
  <2> SUFFICES ASSUME status' = "matching"
               PROVE  Midway'
    OBVIOUS
  <2>1. i' = 2 /\ Len(trip) >= 2
    BY <1>4, <1>7
  <2>2. i' \in 2 .. Len(trip') /\ prevGps' < i' /\ \A g \in 1 .. i' - 1 : g = 1
    BY <1>3, <1>4, <2>1
  <2>3. Clean'
    BY <1>3, <1>7 DEF Clean
  <2>4. /\ Range(running') \subseteq 1 .. prevGps' /\ Range(inter') \subseteq prevGps' + 1 .. i' - 1
        /\ \A g \in 1 .. i' - 1 : g \in Range(running')
    <3>1. Range(running') = {1} /\ Range(inter') = {} /\ prevGps' = 1
      BY <1>3, <1>6
    <3>2. 1 \in 1 .. 1 /\ \A g \in 1 .. i' - 1 : g = 1
      BY <2>1
    <3> QED
      BY <3>1, <3>2
  <2> QED
    BY <1>10, <2>2, <2>3, <2>4 DEF Midway
<1>12. Closed(ddr[prevGps])' /\ (\A g \in DOMAIN trip : ddr[g] \subseteq Near(g))'
  <2>1. PICK d : d = ddr'[1]
    OBVIOUS
  <2>2. Closed(d)'
    BY <1>1, <1>2, <1>5, <1>8, <2>1, FirstDomains
  <2>3. Closed(ddr[prevGps])'
    BY <1>3, <2>1, <2>2 DEF Closed
  <2> QED
    BY <1>3, <1>5, <1>8, <2>3
<1>13. Increasing(running)' /\ Increasing(inter)' /\ status' # "first" /\ stage' = "ready"
  BY <1>3, <1>6, <1>7
<1>14. Begun'
  BY <1>9, <1>10, <1>11, <1>12, <1>13 DEF Begun
<1> QED
  BY <1>1, <1>7, <1>14, NetStays DEF MatchInv

\* The running sequence with the points matched now.
LEMMA Joined ==
  ASSUME Begun, status = "matching", NEW points \in Seq(DOMAIN trip), Increasing(points),
         Range(points) \subseteq prevGps + 1 .. i
  PROVE  LET joined == running \o points
         IN  /\ joined \in Seq(DOMAIN trip) /\ Increasing(joined)
             /\ Range(joined) = Range(running) \cup Range(points) /\ Range(joined) \subseteq 1 .. i
             /\ Kept(joined, 1 .. prevGps) = running /\ Kept(joined, 1 .. i) = joined
             /\ ~Stuck(joined) => ~Stuck(running)
<1>1. PICK joined : joined = running \o points
  OBVIOUS
<1>2. /\ running \in Seq(DOMAIN trip) /\ Increasing(running) /\ Range(running) \subseteq 1 .. prevGps
      /\ DOMAIN trip \subseteq Nat /\ DOMAIN trip = 1 .. Len(trip) /\ Len(trip) \in Nat
      /\ prevGps \in DOMAIN trip /\ i \in 2 .. Len(trip) /\ prevGps < i
  BY TripPoints DEF Begun, Typed, Midway
<1>3. prevGps \in Nat /\ i \in Nat /\ prevGps <= i /\ prevGps >= 1
  BY <1>2
<1>4. running \in Seq(Nat) /\ points \in Seq(Nat)
  BY <1>2, SeqMonotonic
<1>5. \A a \in Range(running) : \A b \in Range(points) : a < b
  <2> SUFFICES ASSUME NEW a \in Range(running), NEW b \in Range(points)
               PROVE  a < b
    OBVIOUS
  <2>1. a \in 1 .. prevGps /\ b \in prevGps + 1 .. i
    BY <1>2
  <2> QED
    BY <1>3, <2>1
<1>6. joined \in Seq(DOMAIN trip)
  BY <1>1, <1>2, ConcatProperties
<1>7. Increasing(joined)
  BY <1>1, <1>2, <1>4, <1>5, JoinIncreasing
<1>8. Range(joined) = Range(running) \cup Range(points)
  BY <1>1, <1>2, ConcatRange
<1>9. Range(joined) \subseteq 1 .. i
  <2>1. 1 .. prevGps \subseteq 1 .. i /\ prevGps + 1 .. i \subseteq 1 .. i
    BY <1>3
  <2> QED
    BY <1>2, <1>8, <2>1
<1>10. Kept(joined, 1 .. prevGps) = running
  <2>1. (prevGps + 1 .. i) \cap 1 .. prevGps = {}
    BY <1>3
  <2>2. Range(points) \cap 1 .. prevGps = {}
    BY <2>1
  <2>3. PICK S : S = 1 .. prevGps
    OBVIOUS
  <2>4. Range(running) \subseteq S /\ Range(points) \cap S = {}
    BY <1>2, <2>2, <2>3
  <2>5. Kept(running \o points, S) = running
    BY <1>2, <2>4, KeepsFront
  <2> QED
    BY <1>1, <2>3, <2>5
<1>11. Kept(joined, 1 .. i) = joined
  <2>1. PICK S : S = 1 .. i
    OBVIOUS
  <2>2. PICK none : none = <<>>
    OBVIOUS
  <2>3. none \in Seq(DOMAIN trip) /\ Range(none) = {} /\ joined \o none = joined
    BY <1>6, <2>2, ConcatEmptySeq DEF Range
  <2>4. Range(joined) \subseteq S /\ Range(none) \cap S = {}
    BY <1>9, <2>1, <2>3
  <2>5. Kept(joined \o none, S) = joined
    BY <1>6, <2>3, <2>4, KeepsFront
  <2> QED
    BY <2>1, <2>3, <2>5
<1>12. ~Stuck(joined) => ~Stuck(running)
  BY <1>1, <1>2, StaysStuck
<1> QED
  BY <1>1, <1>6, <1>7, <1>8, <1>9, <1>10, <1>11, <1>12

\* An iteration that fails, with what it found for the domain of its point.
LEMMA InvFails ==
  ASSUME MatchInv, stage = "ready", status = "matching", UNCHANGED netVars,
         NEW domain \in SUBSET Near(i), Failed(domain)
  PROVE  MatchInv'
<1>1. NetInv /\ Begun /\ Typed /\ Midway /\ Clean /\ NoFile
  BY DEF MatchInv, Begun, Midway
<1>2. /\ trip \in Trip /\ low \subseteq DOMAIN trip /\ prevGps \in DOMAIN trip
      /\ ddr \in [DOMAIN trip -> SUBSET InNet]
      /\ running \in Seq(DOMAIN trip) /\ inter \in Seq(DOMAIN trip)
      /\ \A c \in paths : IsCandidate(c)
      /\ valid = {} \/ valid = {paths}
  BY <1>1 DEF Typed
<1>3. /\ i \in 2 .. Len(trip) /\ prevGps < i
      /\ Range(running) \subseteq 1 .. prevGps /\ Range(inter) \subseteq prevGps + 1 .. i - 1
      /\ \A g \in 1 .. i - 1 : g \in Range(running) \cup Range(inter) \/ ddr[g] = {}
  BY <1>1 DEF Midway
<1>4. fail_iter \in Nat /\ fail_iter <= MaxFailures /\ MaxFailures \in Nat
  <2>1. MaxFailures \in Nat
    BY MatchingAssumption
  <2>2. fail_iter \in 0 .. MaxFailures + 1 /\ ~(fail_iter > MaxFailures)
    BY <1>1 DEF Typed
  <2> QED
    BY <2>1, <2>2
<1>5. /\ trip' = trip /\ paths' = paths /\ prevGps' = prevGps /\ valid' = valid
      /\ low' = low \cup {i} /\ fail_iter' = fail_iter + 1 /\ stage' = "ready"
  BY DEF Failed, netVars
<1>6. DOMAIN trip = 1 .. Len(trip) /\ Len(trip) \in Nat /\ DOMAIN trip \subseteq Nat /\ 1 \in DOMAIN trip
  BY <1>2, TripPoints
<1>7. i \in DOMAIN trip /\ i \in Nat /\ prevGps \in Nat /\ i # prevGps /\ prevGps >= 1
  BY <1>2, <1>3, <1>6
<1>8. /\ \A g \in DOMAIN trip : ddr[g] \subseteq Near(g)
      /\ Closed(ddr[prevGps]) /\ Increasing(running) /\ Increasing(inter)
  BY <1>1 DEF Begun
<1>9. /\ InNet' = InNet /\ (\A c : IsCandidate(c)' <=> IsCandidate(c)) /\ (\A s : Stuck(s)' <=> Stuck(s))
      /\ (\A g : Near(g)' = Near(g)) /\ (\A d : Closed(d)' <=> Closed(d))
  BY <1>5, Unmoved
<1>10. low' \subseteq DOMAIN trip /\ domain \subseteq InNet
  BY <1>2, <1>5, <1>7 DEF Near
<1>11. running \in Seq(Nat) /\ inter \in Seq(Nat)
  BY <1>2, <1>6, SeqMonotonic
<1>12. \A g \in Range(running) \cup Range(inter) : g < i
  <2>1. \A g \in 1 .. prevGps : g < i
    BY <1>3, <1>7
  <2>2. \A g \in prevGps + 1 .. i - 1 : g < i
    BY <1>7
  <2> QED
    BY <1>3, <2>1, <2>2
\* What all three ways of failing have in common.
<1>13. ASSUME /\ running' \in Seq(DOMAIN trip) /\ Increasing(running')
              /\ inter' \in Seq(DOMAIN trip) /\ Increasing(inter')
              /\ ddr' \in [DOMAIN trip -> SUBSET InNet]
              /\ \A g \in DOMAIN trip : ddr'[g] \subseteq Near(g)
              /\ ddr'[prevGps] = ddr[prevGps],
              i' \in 1 .. Len(trip) + 1, FilesAgree',
              fail_iter' > MaxFailures <=> status' = "gaveup",
              status' \in {"gaveup", "matching", "undefined", "done"},
              status' = "matching" => Midway'
       PROVE  MatchInv'
  <2>1. fail_iter' \in 0 .. MaxFailures + 1
    BY <1>4, <1>5
  <2>2. \A c \in paths' : IsCandidate(c)'
    BY <1>2, <1>5, <1>9
  <2>3. valid' = {} \/ valid' = {paths'}
    BY <1>2, <1>5
  <2>4. Typed'
    BY <1>2, <1>5, <1>9, <1>10, <1>13, <2>1, <2>2, <2>3 DEF Typed
  <2>5. PICK d : d = ddr[prevGps]
    OBVIOUS
  <2>6. Closed(d)'
    BY <1>8, <1>9, <2>5
  <2>7. Closed(ddr[prevGps])'
    BY <1>5, <1>13, <2>5, <2>6 DEF Closed
  <2>8. (\A g \in DOMAIN trip : ddr[g] \subseteq Near(g))'
    BY <1>5, <1>9, <1>13
  <2>9. status' # "first" /\ status' # "start"
    BY <1>13
  <2>10. Begun'
    BY <1>5, <1>13, <2>4, <2>7, <2>8, <2>9 DEF Begun
  <2> QED
    BY <1>1, <1>13, <2>9, <2>10, NetStays DEF MatchInv
<1>14. ASSUME ddr' = [ddr EXCEPT ![i] = domain]
       PROVE  /\ ddr' \in [DOMAIN trip -> SUBSET InNet]
              /\ \A g \in DOMAIN trip : ddr'[g] \subseteq Near(g)
              /\ ddr'[prevGps] = ddr[prevGps]
              /\ \A g \in DOMAIN trip \ {i} : ddr'[g] = ddr[g]
  <2>1. \A g \in DOMAIN trip : ddr'[g] = IF g = i THEN domain ELSE ddr[g]
    BY <1>2, <1>14
  <2> QED
    BY <1>2, <1>7, <1>8, <1>10, <1>14, <2>1
<1>15. CASE GiveUp /\ ddr' = [ddr EXCEPT ![i] = domain]
  <2>1. /\ running' = Append(running, i) /\ status' = "gaveup" /\ i' = i /\ inter' = inter
        /\ file' = file /\ fail_iter' > MaxFailures
    BY <1>15 DEF GiveUp, TooManyFailures
  <2>2. running' \in Seq(DOMAIN trip)
    BY <1>2, <1>7, <2>1, AppendProperties
  <2>3. Increasing(running')
    BY <1>7, <1>8, <1>11, <1>12, <2>1, AppendIncreasing
  <2>4. FilesAgree'
    <3>1. file'.numbered = {} /\ file'.final = {}
      BY <1>1, <2>1 DEF NoFile
    <3> QED
      BY <2>1, <3>1 DEF FilesAgree
  <2>5. i' \in 1 .. Len(trip) + 1
    BY <1>6, <1>7, <2>1
  <2> QED
    BY <1>2, <1>8, <1>13, <1>14, <1>15, <2>1, <2>2, <2>3, <2>4, <2>5
<1>16. CASE PutAside /\ ddr' = [ddr EXCEPT ![i] = domain]
  <2>1. /\ inter' = Append(inter, i) /\ status' = "matching" /\ i' = i + 1 /\ running' = running
        /\ file' = file /\ ~(fail_iter' > MaxFailures) /\ i < Len(trip)
    BY <1>16 DEF PutAside, TooManyFailures
  <2>2. inter' \in Seq(DOMAIN trip)
    BY <1>2, <1>7, <2>1, AppendProperties
  <2>3. Increasing(inter')
    BY <1>7, <1>8, <1>11, <1>12, <2>1, AppendIncreasing
  <2>4. NoFile' /\ FilesAgree'
    <3>1. NoFile'
      BY <1>1, <2>1 DEF NoFile
    <3>2. file'.numbered = {} /\ file'.final = {}
      BY <3>1 DEF NoFile
    <3> QED
      BY <2>1, <3>1, <3>2 DEF FilesAgree
  <2>5. i' \in 1 .. Len(trip) + 1 /\ i' \in 2 .. Len(trip) /\ prevGps < i' /\ i' - 1 = i
    BY <1>3, <1>6, <1>7, <2>1
  <2>6. Range(inter') = Range(inter) \cup {i}
    <3>1. PICK longer : longer = Append(inter, i)
      OBVIOUS
    <3>2. Range(longer) = Range(inter) \cup {i}
      BY <1>7, <1>11, <3>1, AppendRange
    <3> QED
      BY <2>1, <3>1, <3>2
  <2>7. prevGps + 1 .. i - 1 \subseteq prevGps + 1 .. i /\ i \in prevGps + 1 .. i
    BY <1>3, <1>7
  <2>8. Range(inter') \subseteq prevGps + 1 .. i' - 1
    BY <1>3, <2>5, <2>6, <2>7
  <2>9. \A g \in 1 .. i' - 1 : g \in Range(running') \cup Range(inter') \/ ddr'[g] = {}
    <3> SUFFICES ASSUME NEW g \in 1 .. i
                 PROVE  g \in Range(running') \cup Range(inter') \/ ddr'[g] = {}
      BY <2>5
    <3>1. CASE g = i
      BY <2>6, <3>1
    <3>2. CASE g # i
      <4>1. g \in 1 .. i - 1 /\ g \in DOMAIN trip \ {i}
        BY <1>3, <1>6, <1>7, <3>2
      <4>2. ddr'[g] = ddr[g]
        BY <1>14, <1>16, <4>1
      <4> QED
        BY <1>3, <2>1, <2>6, <4>1, <4>2
    <3> QED
      BY <3>1, <3>2
  <2>10. Clean'
    BY <1>1, <1>5, <1>9, <2>1 DEF Clean
  <2>11. Midway'
    BY <1>3, <1>5, <2>1, <2>4, <2>5, <2>8, <2>9, <2>10 DEF Midway
  <2> QED
    BY <1>2, <1>8, <1>13, <1>14, <1>16, <2>1, <2>2, <2>3, <2>4, <2>5, <2>11
<1>17. CASE LastIterationForLowSpeed(domain)
  <2>1. PICK ls : ls = low'
    OBVIOUS
  <2>2. PICK temp, arcs, more :
          temp = Inherited(ls) /\ arcs = TakenOver(ls) /\ more = domain \cup TakenOver(ls)
    OBVIOUS
  <2>3. PICK look : look = Absorb(temp, arcs, more, ls)
    OBVIOUS
  <2>4. /\ ddr' = look.ddr /\ running' = running \o look.points
        /\ status' = IF valid = {} THEN "undefined" ELSE "done"
        /\ i' = i /\ inter' = inter /\ ~(fail_iter' > MaxFailures)
    BY <1>17, <2>1, <2>2, <2>3 DEF LastIterationForLowSpeed, TooManyFailures
  <2>5. PICK selected \in SelectPaths(look.temp, look.ddr[i]) :
          file' = [numbered |-> {[paths |-> selected, points |-> running']},
                   final |-> {[paths |-> p, points |-> running'] : p \in valid}]
    BY <1>17, <2>1, <2>2, <2>3 DEF LastIterationForLowSpeed
  <2>6. Exploring
    BY <1>1, <1>2, <1>7, <1>8 DEF Exploring, NetInv, NetTypeOK, Nets
  <2>7. arcs \subseteq Near(i) /\ temp \subseteq paths
    BY <2>2, <2>6, TakesOver
  <2>8. arcs \in SUBSET InNet /\ more \in SUBSET Near(i)
    BY <2>2, <2>7 DEF Near
  <2>9. temp \in SUBSET Grown
    BY <1>2, <2>7, GrownAll
  <2>10. NewPoints(look)
    BY <1>1, <2>3, AbsorbsPoints
  <2>11. NewDomains(look)
    BY <1>1, <2>3, <2>8, AbsorbsDomains
  <2>12. NewCandidates(look)
    BY <1>1, <2>3, <2>9, AbsorbsCandidates
  <2>13. PICK points : points = look.points
    OBVIOUS
  <2>14. points \in Seq(DOMAIN trip) /\ Increasing(points) /\ Range(points) \subseteq prevGps + 1 .. i
    BY <2>10, <2>13 DEF NewPoints
  <2>15. /\ running' \in Seq(DOMAIN trip) /\ Increasing(running')
         /\ Kept(running', 1 .. prevGps) = running /\ (~Stuck(running') => ~Stuck(running))
    <3>1. PICK joined : joined = running \o points
      OBVIOUS
    <3>2. running' = joined
      BY <2>4, <2>13, <3>1
    <3>3. /\ joined \in Seq(DOMAIN trip) /\ Increasing(joined)
          /\ Kept(joined, 1 .. prevGps) = running /\ (~Stuck(joined) => ~Stuck(running))
      BY <1>1, <2>14, <3>1, Joined
    <3> QED
      BY <3>2, <3>3
  <2>16. /\ ddr' \in [DOMAIN trip -> SUBSET InNet]
         /\ \A g \in DOMAIN trip : ddr'[g] \subseteq Near(g)
         /\ ddr'[prevGps] = ddr[prevGps]
    <3>1. prevGps \notin Range(inter) \cup {i}
      BY <1>3, <1>7
    <3> QED
      BY <1>2, <2>4, <2>11, <3>1 DEF NewDomains
  <2>17. FilesAgree'
    <3>1. PICK r : r = running'
      OBVIOUS
    <3>2. \A f \in file'.numbered : f.points = r /\ f.paths = selected
      BY <2>5, <3>1
    <3>3. \A f \in file'.final : f.points = r /\ f.paths \in valid
      BY <2>5, <3>1
    <3>4. selected \subseteq look.temp
      BY <2>5, Selects
    <3>5. ASSUME NEW c \in selected, ~Stuck(r)
          PROVE  c.seq = r
      <4>1. r = running \o look.points
        BY <2>4, <3>1
      <4> QED
        BY <2>12, <3>4, <3>5, <4>1 DEF NewCandidates
    <3>6. ASSUME NEW p \in valid, NEW c \in p, ~Stuck(r)
          PROVE  c.seq = Kept(r, 1 .. prevGps)
      <4>1. c \in paths /\ ~Stuck(running)
        BY <1>2, <2>15, <3>1, <3>6
      <4>2. c.seq = running
        BY <1>1, <4>1 DEF Clean
      <4> QED
        BY <2>15, <3>1, <4>2
    <3>7. status' = "done" => file'.final # {}
      BY <2>4, <2>5
    <3>8. \A f \in file'.numbered : \A c \in f.paths : ~Stuck(f.points)' => c.seq = f.points
      BY <1>9, <3>2, <3>5
    <3>9. \A f \in file'.final : \A c \in f.paths : ~Stuck(f.points)' => c.seq = Kept(f.points, 1 .. prevGps)
      BY <1>9, <3>3, <3>6
    <3> QED
      BY <1>5, <3>7, <3>8, <3>9 DEF FilesAgree
  <2>18. i' \in 1 .. Len(trip) + 1 /\ status' \in {"undefined", "done"}
    BY <1>6, <1>7, <2>4
  <2> QED
    BY <1>2, <1>8, <1>13, <2>4, <2>15, <2>16, <2>17, <2>18
<1> QED
  BY <1>15, <1>16, <1>17 DEF Failed

\* An iteration that succeeds.
LEMMA InvExtends ==
  ASSUME MatchInv, stage = "ready", Extended, UNCHANGED netVars
  PROVE  MatchInv'
<1>1. status = "matching" /\ NetInv /\ Begun /\ Typed /\ Midway /\ NoFile
  BY DEF MatchInv, Begun, Midway, Extended
<1>2. /\ trip \in Trip /\ low \subseteq DOMAIN trip /\ prevGps \in DOMAIN trip
      /\ ddr \in [DOMAIN trip -> SUBSET InNet]
      /\ running \in Seq(DOMAIN trip) /\ inter \in Seq(DOMAIN trip)
      /\ \A c \in paths : IsCandidate(c)
  BY <1>1 DEF Typed
<1>3. /\ i \in 2 .. Len(trip) /\ prevGps < i
      /\ Range(running) \subseteq 1 .. prevGps /\ Range(inter) \subseteq prevGps + 1 .. i - 1
      /\ \A g \in 1 .. i - 1 : g \in Range(running) \cup Range(inter) \/ ddr[g] = {}
  BY <1>1 DEF Midway
<1>4. DOMAIN trip = 1 .. Len(trip) /\ Len(trip) \in Nat
  BY <1>2, TripPoints
<1>5. i \in DOMAIN trip /\ i \in Nat /\ i >= 1
  BY <1>3, <1>4
<1>6. \A g \in DOMAIN trip : ddr[g] \subseteq Near(g)
  BY <1>1 DEF Begun
<1>7. Explored \in Finds
  <2>1. Exploring
    BY <1>1, <1>2, <1>5, <1>6 DEF Exploring, NetInv, NetTypeOK, Nets
  <2> QED
    BY <2>1, Explores
<1>8. PICK found : found = Explored
  OBVIOUS
<1>9. PICK look : look = Absorb(found.temp, found.inter, found.ddr, low)
  OBVIOUS
<1>10. /\ ddr' = look.ddr /\ running' = running \o look.points
       /\ paths' \in SelectPaths(look.temp, look.ddr[i])
       /\ inter' = <<>> /\ fail_iter' = 0 /\ prevGps' = i /\ valid' = {paths'}
       /\ trip' = trip /\ low' = low /\ stage' = "ready"
  BY <1>1, <1>8, <1>9 DEF Extended, netVars, Begun
<1>11. \/ /\ i = Len(trip) /\ status' = "done" /\ i' = i
          /\ file' = [f \in {"numbered", "final"} |-> {[paths |-> paths', points |-> running']}]
       \/ /\ i # Len(trip) /\ status' = "matching" /\ i' = i + 1 /\ file' = file
  BY <1>1 DEF Extended
<1>12. found.temp \in SUBSET Grown /\ found.inter \in SUBSET InNet /\ found.ddr \in SUBSET Near(i)
  BY <1>7, <1>8 DEF Finds
<1>13. NewPoints(look) /\ NewDomains(look) /\ NewCandidates(look)
  BY <1>1, <1>9, <1>12, AbsorbsPoints, AbsorbsDomains, AbsorbsCandidates
<1>14. PICK points : points = look.points
  OBVIOUS
<1>15. /\ points \in Seq(DOMAIN trip) /\ Increasing(points) /\ Range(points) \subseteq prevGps + 1 .. i
       /\ i \in Range(points) /\ \A g \in Range(inter) : g \in Range(points) \/ ddr'[g] = {}
  BY <1>10, <1>13, <1>14 DEF NewPoints
<1>16. PICK joined : joined = running \o points
  OBVIOUS
<1>17. /\ joined \in Seq(DOMAIN trip) /\ Increasing(joined)
       /\ Range(joined) = Range(running) \cup Range(points) /\ Range(joined) \subseteq 1 .. i
       /\ Kept(joined, 1 .. i) = joined
  BY <1>1, <1>15, <1>16, Joined
<1>18. running' = joined
  BY <1>10, <1>14, <1>16
<1>19. /\ ddr' \in [DOMAIN trip -> SUBSET InNet]
       /\ \A g \in DOMAIN trip : ddr'[g] \subseteq Near(g)
       /\ Closed(ddr'[i])
       /\ \A g \in DOMAIN trip : g \notin Range(inter) \cup {i} => ddr'[g] = ddr[g]
  BY <1>10, <1>13 DEF NewDomains
<1>20. /\ InNet' = InNet /\ (\A c : IsCandidate(c)' <=> IsCandidate(c)) /\ (\A s : Stuck(s)' <=> Stuck(s))
       /\ (\A g : Near(g)' = Near(g)) /\ (\A d : Closed(d)' <=> Closed(d))
  BY <1>10, Unmoved
<1>21. ASSUME NEW c \in paths'
       PROVE  /\ IsCandidate(c)
              /\ ~Stuck(joined) => c.seq = joined /\ c.fresh = <<>> /\ c.down = <<>>
  <2>1. c \in look.temp
    BY <1>10, <1>21, Selects
  <2> QED
    BY <1>13, <1>14, <1>16, <2>1 DEF NewCandidates
<1>22. i' \in 1 .. Len(trip) + 1 /\ status' \in {"matching", "done"}
  BY <1>4, <1>5, <1>11
<1>23. Typed'
  <2>1. 0 \in 0 .. MaxFailures + 1 /\ ~(0 > MaxFailures) /\ status' # "gaveup"
    BY <1>22, MatchingAssumption
  <2>2. \A c \in paths' : IsCandidate(c)'
    BY <1>20, <1>21
  <2>3. inter' \in Seq(DOMAIN trip)
    BY <1>10
  <2> QED
    BY <1>2, <1>5, <1>10, <1>17, <1>18, <1>19, <1>20, <1>22, <2>1, <2>2, <2>3 DEF Typed
<1>24. Clean'
  BY <1>10, <1>18, <1>20, <1>21 DEF Clean
<1>25. Increasing(running)' /\ Increasing(inter)'
  BY <1>10, <1>17, <1>18 DEF Increasing
<1>26. (status = "matching" => Midway)'
  <2> SUFFICES ASSUME status' = "matching"
               PROVE  Midway'
    OBVIOUS
  <2>1. i # Len(trip) /\ i' = i + 1 /\ file' = file
    BY <1>11
  <2>2. i' \in 2 .. Len(trip') /\ prevGps' < i' /\ i' - 1 = i
    BY <1>3, <1>4, <1>5, <1>10, <2>1
  <2>3. NoFile'
    BY <1>1, <2>1 DEF NoFile
  <2>4. Range(running') \subseteq 1 .. prevGps'
    BY <1>10, <1>17, <1>18
  <2>5. Range(inter') = {}
    BY <1>10 DEF Range
  <2>6. \A g \in 1 .. i' - 1 : g \in Range(running') \cup Range(inter') \/ ddr'[g] = {}
    <3> SUFFICES ASSUME NEW g \in 1 .. i
                 PROVE  g \in Range(joined) \/ ddr'[g] = {}
      BY <1>18, <2>2
    <3>1. CASE g = i
      BY <1>15, <1>17, <3>1
    <3>2. CASE g # i
      <4>1. g \in 1 .. i - 1 /\ g \in DOMAIN trip
        BY <1>3, <1>4, <1>5, <3>2
      <4>2. CASE g \in Range(running) \cup Range(inter)
        BY <1>15, <1>17, <4>2
      <4>3. CASE g \notin Range(running) \cup Range(inter)
        BY <1>3, <1>19, <3>2, <4>1, <4>3
      <4> QED
        BY <4>2, <4>3
    <3> QED
      BY <3>1, <3>2
  <2> QED
    BY <1>24, <2>2, <2>3, <2>4, <2>5, <2>6 DEF Midway
<1>27. Closed(ddr[prevGps])' /\ (\A g \in DOMAIN trip : ddr[g] \subseteq Near(g))'
  <2>1. PICK d : d = ddr'[i]
    OBVIOUS
  <2>2. Closed(d)'
    BY <1>19, <1>20, <2>1
  <2>3. Closed(ddr[prevGps])'
    BY <1>10, <2>1, <2>2 DEF Closed
  <2> QED
    BY <1>10, <1>19, <1>20, <2>3
<1>28. FilesAgree'
  <2>1. CASE i # Len(trip)
    <3>1. file' = file /\ status' = "matching"
      BY <1>11, <2>1
    <3>2. file'.numbered = {} /\ file'.final = {}
      BY <1>1, <3>1 DEF NoFile
    <3> QED
      BY <3>1, <3>2 DEF FilesAgree
  <2>2. CASE i = Len(trip)
    <3>1. PICK r, ps : r = running' /\ ps = paths'
      OBVIOUS
    <3>2. file' = [f \in {"numbered", "final"} |-> {[paths |-> ps, points |-> r]}]
      BY <1>11, <2>2, <3>1
    <3>3. file'.numbered = {[paths |-> ps, points |-> r]} /\ file'.final = {[paths |-> ps, points |-> r]}
      BY <3>2
    <3>4. \A c \in ps : ~Stuck(r) => c.seq = r
      BY <1>18, <1>21, <3>1
    <3>5. Kept(r, 1 .. i) = r
      BY <1>17, <1>18, <3>1
    <3>6. \A f \in file'.numbered : \A c \in f.paths : ~Stuck(f.points)' => c.seq = f.points
      BY <1>20, <3>3, <3>4
    <3>7. \A f \in file'.final : \A c \in f.paths : ~Stuck(f.points)' => c.seq = Kept(f.points, 1 .. i)
      BY <1>20, <3>3, <3>4, <3>5
    <3>8. file'.final # {}
      BY <3>3
    <3> QED
      BY <1>10, <3>6, <3>7, <3>8 DEF FilesAgree
  <2> QED
    BY <2>1, <2>2
<1>29. status' # "first" /\ status' # "start"
  BY <1>22
<1>30. Begun'
  BY <1>10, <1>23, <1>25, <1>26, <1>27, <1>28, <1>29 DEF Begun
<1> QED
  BY <1>1, <1>22, <1>29, <1>30, NetStays DEF MatchInv

\* Every step keeps the invariant.
LEMMA InvSteps ==
  ASSUME MatchInv, [Next]_vars
  PROVE  MatchInv'
<1>1. CASE NetNext /\ UNCHANGED mmVars
  BY <1>1, InvBuilds
<1>2. CASE stage = "ready" /\ Matching /\ UNCHANGED netVars
  <2>1. CASE ReadFromFile
    BY <1>2, <2>1, InvReads
  <2>2. CASE FirstIteration
    BY <1>2, <2>2, InvFirst
  <2>3. ASSUME status = "matching"
        PROVE  /\ ddr[i] \in SUBSET Near(i)
               /\ Explored \in Finds
    <3>1. Begun /\ NetInv /\ Typed /\ Midway
      BY <2>3 DEF MatchInv, Begun
    <3>2. i \in DOMAIN trip
      BY <3>1, TripPoints DEF Typed, Midway
    <3>3. ddr[i] \in SUBSET Near(i)
      BY <3>1, <3>2 DEF Begun
    <3>4. Exploring
      BY <3>1, <3>2, <3>3 DEF Exploring, NetInv, NetTypeOK, Nets, Typed
    <3> QED
      BY <3>3, <3>4, Explores
  <2>4. CASE TooNear
    <3>1. status = "matching" /\ Failed(ddr[i])
      BY <2>4 DEF TooNear
    <3>2. PICK domain : domain = ddr[i]
      OBVIOUS
    <3>3. domain \in SUBSET Near(i) /\ Failed(domain)
      BY <2>3, <3>1, <3>2
    <3> QED
      BY <1>2, <3>1, <3>3, InvFails
  <2>5. CASE NotExtended
    <3>1. status = "matching" /\ Failed(Explored.ddr)
      BY <2>5 DEF NotExtended
    <3>2. PICK found : found = Explored
      OBVIOUS
    <3>3. found.ddr \in SUBSET Near(i)
      BY <2>3, <3>1, <3>2 DEF Finds
    <3>4. PICK domain : domain = found.ddr
      OBVIOUS
    <3>5. domain \in SUBSET Near(i) /\ Failed(domain)
      BY <3>1, <3>2, <3>3, <3>4
    <3> QED
      BY <1>2, <3>1, <3>5, InvFails
  <2>6. CASE Extended
    BY <1>2, <2>6, InvExtends
  <2> QED
    BY <1>2, <2>1, <2>2, <2>4, <2>5, <2>6 DEF Matching
<1>3. CASE UNCHANGED vars
  <2>1. UNCHANGED netVars /\ UNCHANGED mmVars
    BY <1>3 DEF vars
  <2>2. /\ trip' = trip /\ i' = i /\ low' = low /\ ddr' = ddr /\ running' = running /\ inter' = inter
        /\ paths' = paths /\ prevGps' = prevGps /\ fail_iter' = fail_iter /\ valid' = valid
        /\ file' = file /\ status' = status /\ stage' = stage
    BY <2>1 DEF mmVars, netVars
  <2>3. /\ InNet' = InNet /\ (\A c : IsCandidate(c)' <=> IsCandidate(c)) /\ (\A s : Stuck(s)' <=> Stuck(s))
        /\ (\A g : Near(g)' = Near(g)) /\ (\A d : Closed(d)' <=> Closed(d))
    BY <2>1, <2>2, Unmoved
  <2>4. NetInv'
    BY <2>1, NetStays DEF MatchInv
  <2>5. CASE status = "start"
    <3>1. Unread'
      BY <2>2, <2>5 DEF MatchInv, Unread, Fresh, NoFile
    <3> QED
      BY <2>2, <2>4, <2>5, <3>1 DEF MatchInv
  <2>6. CASE status # "start"
    <3>1. Begun
      BY <2>6 DEF MatchInv
    <3>2. NoFile' <=> NoFile
      BY <2>2 DEF NoFile
    <3>3. Typed'
      BY <2>2, <2>3, <3>1 DEF Begun, Typed
    <3>4. Clean' <=> Clean
      BY <2>2, <2>3 DEF Clean
    <3>5. Midway' <=> Midway
      BY <2>2, <3>2, <3>4 DEF Midway
    <3>6. FilesAgree'
      <4>1. FilesAgree
        BY <3>1 DEF Begun
      <4> QED
        BY <2>2, <2>3, <4>1 DEF FilesAgree
    <3>7. PICK d : d = ddr[prevGps]
      OBVIOUS
    <3>8. Closed(ddr[prevGps])'
      <4>1. Closed(d)'
        BY <2>3, <3>1, <3>7 DEF Begun
      <4> QED
        BY <2>2, <3>7, <4>1 DEF Closed
    <3>9. Fresh' <=> Fresh
      BY <2>2, <3>2 DEF Fresh
    <3>10. (\A g \in DOMAIN trip : ddr[g] \subseteq Near(g))'
      BY <2>2, <2>3, <3>1 DEF Begun
    <3>11. Increasing(running)' /\ Increasing(inter)'
      BY <2>2, <3>1 DEF Begun
    <3>12. Begun'
      BY <2>2, <3>1, <3>3, <3>5, <3>6, <3>8, <3>9, <3>10, <3>11 DEF Begun
    <3> QED
      BY <2>2, <2>4, <2>6, <3>12 DEF MatchInv
  <2> QED
    BY <2>5, <2>6
<1> QED
  BY <1>1, <1>2, <1>3 DEF Next

\* The invariant holds throughout.
LEMMA MatchInvariant == Spec => []MatchInv
BY InvStarts, InvSteps, PTL DEF Spec

(***************************************************************************)
(* Every variable keeps to its type: a trip is given up exactly after too  *)
(* many failures in a row, and there is at most one last success           *)
(* (patProbabilisticMapMatching::run).                                     *)
(***************************************************************************)
THEOREM TypeCorrect == Spec => []TypeOK
<1>1. MatchInv => TypeOK
  <2> SUFFICES ASSUME MatchInv
               PROVE  TypeOK
    OBVIOUS
  <2>1. NetTypeOK /\ status \in {"start", "first", "matching", "nodomain", "gaveup", "undefined", "done"}
    BY DEF MatchInv, NetInv
  <2>2. Cardinality({}) <= 1 /\ \A x : Cardinality({x}) <= 1
    BY FS_EmptySet, FS_Singleton
  <2>3. CASE status = "start"
    <3>1. /\ trip = <<>> /\ low = {} /\ ddr = <<>> /\ i = 1 /\ running = <<>> /\ inter = <<>> /\ paths = {}
          /\ fail_iter = 0 /\ valid = {}
      BY <2>3 DEF MatchInv, Unread, Fresh
    <3>2. 0 \in 0 .. MaxFailures + 1 /\ ~(0 > MaxFailures)
      BY MatchingAssumption
    <3>3. DOMAIN trip = {} /\ Len(trip) = 0
      BY <3>1
    <3>4. ddr \in [DOMAIN trip -> SUBSET (Arc \X Mode)]
      BY <3>1, <3>3
    <3>5. {running, inter} \subseteq Seq(DOMAIN trip)
      BY <3>1
    <3>6. i \in 1 .. Len(trip) + 1
      BY <3>1, <3>3
    <3> QED
      BY <2>1, <2>2, <2>3, <3>1, <3>2, <3>4, <3>5, <3>6 DEF TypeOK
  <2>4. CASE status # "start"
    <3>1. Typed
      BY <2>4 DEF MatchInv, Begun
    <3>2. InNet \subseteq Arc \X Mode
      BY DEF InNet
    <3>3. \A c \in paths : c.roads \in Seq(Arc \X Mode) /\ c.seq \in Seq(DOMAIN trip)
      <4> SUFFICES ASSUME NEW c \in paths
                   PROVE  c.roads \in Seq(Arc \X Mode) /\ c.seq \in Seq(DOMAIN trip)
        OBVIOUS
      <4>1. c.roads \in Seq(InNet) /\ c.seq \in Seq(DOMAIN trip)
        BY <3>1 DEF Typed, IsCandidate, Roads
      <4> QED
        BY <3>2, <4>1, SeqMonotonic
    <3>4. ddr \in [DOMAIN trip -> SUBSET (Arc \X Mode)]
      BY <3>1, <3>2 DEF Typed
    <3>5. Cardinality(valid) <= 1
      BY <2>2, <3>1 DEF Typed
    <3> QED
      BY <2>1, <3>1, <3>3, <3>4, <3>5 DEF TypeOK, Typed
  <2> QED
    BY <2>3, <2>4
<1> QED
  BY <1>1, MatchInvariant, PTL

(***************************************************************************)
(* No point of a trip gets lost: the candidates account for the same       *)
(* points, in the order of the trip, and every point before the present    *)
(* one is among them or still put aside, unless it had no domain, for      *)
(* every network and trip, whatever the parameters and however many        *)
(* iterations failed (run, dealInterData).                                 *)
(***************************************************************************)
THEOREM PointsAlwaysAccounted == Spec => []PointsAccounted
<1>1. MatchInv => PointsAccounted
  <2> SUFFICES ASSUME MatchInv
               PROVE  PointsAccounted
    OBVIOUS
  <2>1. Increasing(running) /\ Increasing(inter)
    BY DEF MatchInv, Begun, Unread, Fresh, Increasing
  <2>2. status = "matching" => Midway
    BY DEF MatchInv, Begun
  <2> QED
    BY <2>1, <2>2 DEF PointsAccounted, Increasing, Midway, Clean
<1> QED
  BY <1>1, MatchInvariant, PTL

(***************************************************************************)
(* The domain of a point, by whichever way an arc came into it, holds arcs *)
(* the point was measured near, each in a mode whose network has it; that  *)
(* of the last point matched has its arcs in all modes (detInherentDDR,    *)
(* patMeasurementDDR::finalize).                                           *)
(***************************************************************************)
THEOREM DomainsAlwaysAgree == Spec => []DomainsAgree
<1>1. MatchInv => DomainsAgree
  <2> SUFFICES ASSUME MatchInv
               PROVE  DomainsAgree
    OBVIOUS
  <2>1. CASE status = "start"
    <3>1. DOMAIN ddr = {}
      BY <2>1 DEF MatchInv, Unread
    <3> QED
      BY <3>1 DEF DomainsAgree
  <2>2. CASE status # "start"
    <3>1. /\ DOMAIN ddr = DOMAIN trip /\ \A g \in DOMAIN trip : ddr[g] \subseteq Near(g)
          /\ Closed(ddr[prevGps])
      BY <2>2 DEF MatchInv, Begun, Typed
    <3> QED
      BY <3>1 DEF DomainsAgree, Near, InNet, Closed
  <2> QED
    BY <2>1, <2>2
<1> QED
  BY <1>1, MatchInvariant, PTL

(***************************************************************************)
(* What is written at the end accounts for the points it is written for,   *)
(* though the candidates of the last success are written with running      *)
(* measurements that went on growing, and a trip of several points that is *)
(* done has a result (lastIterationForLowSpeed, the end of run).           *)
(***************************************************************************)
THEOREM FilesAlwaysAgree == Spec => []FilesAgree
<1>1. MatchInv => FilesAgree
  BY DEF MatchInv, Begun, Unread, Fresh, NoFile, FilesAgree
<1> QED
  BY <1>1, MatchInvariant, PTL

-----------------------------------------------------------------------------
(***************************************************************************)
(* The candidates are sound: what explorations find from sound ones is     *)
(* (Sound), updates change no roads, and a selection invents nothing. That *)
(* the first candidates are without loops is so because no arc of a        *)
(* network is one.                                                         *)
(***************************************************************************)
SoundInv == MatchInv /\ NoLoops /\ CandidatesSound

\* While networks and trip stay, candidates are sound that are so one by one.
LEMMA SoundNext ==
  ASSUME UNCHANGED netVars, trip' = trip, Distinct(paths'),
         \A c \in paths' : /\ SoundRoads(c.roads)
                           /\ ~Stuck(running') => Last(c.roads) \in ddr'[prevGps']
  PROVE  CandidatesSound'
<1>1. net' = net /\ stops' = stops
  BY DEF netVars
<1>2. \A s : Stuck(s)' <=> Stuck(s)
  BY Unmoved
<1>3. \A n : isPTStop(n)' <=> isPTStop(n)
  BY <1>1 DEF isPTStop
<1> QED
  BY <1>1, <1>2, <1>3 DEF CandidatesSound, SoundRoads, Distinct

\* What is said of all candidates, said of the roads of each.
LEMMA SoundNow ==
  ASSUME CandidatesSound
  PROVE  /\ Distinct(paths)
         /\ \A c \in paths : SoundRoads(c.roads) /\ (~Stuck(running) => Last(c.roads) \in ddr[prevGps])
BY DEF CandidatesSound, SoundRoads, Distinct

\* An update changes no roads.
LEMMA SameRoads ==
  ASSUME NEW f, NEW cs, Distinct(cs), \A c \in cs : f[c].roads = c.roads
  PROVE  Distinct({f[c] : c \in cs})
<1> SUFFICES ASSUME NEW b \in cs, NEW c \in cs, ArcSeq(f[b].roads) = ArcSeq(f[c].roads)
             PROVE  f[b] = f[c]
  BY DEF Distinct
<1>1. ArcSeq(b.roads) = ArcSeq(c.roads)
  OBVIOUS
<1> QED
  BY <1>1 DEF Distinct

\* The candidates of the first point: single roads, one for each arc.
LEMMA FirstSound ==
  ASSUME NetInv, NoLoops, trip \in Trip
  PROVE  /\ \A c \in FirstCandidates : SoundRoads(c.roads) /\ Last(c.roads) \in FirstDomain
         /\ Distinct(FirstCandidates)
<1>1. Nets
  BY DEF NetInv, NetTypeOK, Nets
<1>2. ASSUME NEW c \in FirstCandidates
      PROVE  SoundRoads(c.roads) /\ Last(c.roads) \in FirstDomain
  <2>1. PICK x \in FirstDomain : c.roads = <<x>>
    BY FirstAreCandidates
  <2>2. x \in InNet
    BY FirstDomains
  <2> QED
    BY <1>1, <2>1, <2>2, OneRoadSound
<1>3. ASSUME NEW b \in FirstCandidates, NEW c \in FirstCandidates, ArcSeq(b.roads) = ArcSeq(c.roads)
      PROVE  b = c
  <2>1. PICK x \in FirstDomain : b.roads = <<x>> /\ b = FirstOf(x[1])
    BY FirstAreCandidates
  <2>2. PICK y \in FirstDomain : c.roads = <<y>> /\ c = FirstOf(y[1])
    BY FirstAreCandidates
  <2>3. ASSUME NEW z
        PROVE  ArcSeq(<<z>>)[1] = z[1]
    BY DEF ArcSeq
  <2>4. x[1] = y[1]
    BY <1>3, <2>1, <2>2, <2>3
  <2> QED
    BY <2>1, <2>2, <2>4
<1> QED
  BY <1>2, <1>3 DEF Distinct

\* The first iteration.
LEMMA SoundFirst ==
  ASSUME SoundInv, stage = "ready", FirstIteration, UNCHANGED netVars
  PROVE  CandidatesSound'
<1>1. status = "first" /\ NetInv /\ Begun /\ Fresh /\ NoLoops
  BY DEF SoundInv, MatchInv, Begun, FirstIteration
<1>2. trip \in Trip /\ ddr \in [DOMAIN trip -> SUBSET InNet] /\ 1 \in DOMAIN trip /\ paths = {} /\ prevGps = 1
  BY <1>1, TripPoints DEF Fresh, Begun, Typed
<1>3. trip' = trip /\ prevGps' = 1 /\ ddr' = [ddr EXCEPT ![1] = FirstDomain]
  BY <1>2 DEF FirstIteration
<1>4. ddr'[1] = FirstDomain
  BY <1>2, <1>3
<1>5. CASE FirstDomain = {}
  <2>1. paths' = {}
    BY <1>2, <1>5 DEF FirstIteration
  <2> QED
    BY <1>3, <2>1, SoundNext DEF Distinct
<1>6. CASE FirstDomain # {}
  <2>1. PICK d : d = ddr'
    OBVIOUS
  <2>2. PICK f : f = [c \in FirstCandidates |-> Update(c, d)]
    OBVIOUS
  <2>3. paths' \in SelectPaths({Update(c, d) : c \in FirstCandidates}, FirstDomain)
    BY <1>6, <2>1 DEF FirstIteration
  <2>4. paths' \subseteq {Update(c, d) : c \in FirstCandidates}
    BY <2>3, Selects
  <2>5. \A c \in FirstCandidates : f[c] = Update(c, d) /\ f[c].roads = c.roads
    BY <1>1, <1>2, <2>2, FirstAreCandidates, Updates
  <2>6. paths' \subseteq {f[c] : c \in FirstCandidates}
    BY <2>4, <2>5
  <2>7. Distinct(FirstCandidates) /\ \A c \in FirstCandidates : SoundRoads(c.roads) /\ Last(c.roads) \in FirstDomain
    BY <1>1, <1>2, FirstSound
  <2>8. Distinct({f[c] : c \in FirstCandidates})
    BY <2>5, <2>7, SameRoads
  <2>9. Distinct(paths')
    BY <2>6, <2>8 DEF Distinct
  <2>10. \A c \in paths' : SoundRoads(c.roads) /\ Last(c.roads) \in ddr'[prevGps']
    BY <1>3, <1>4, <2>5, <2>6, <2>7
  <2> QED
    BY <1>3, <2>9, <2>10, SoundNext
<1> QED
  BY <1>5, <1>6

\* An iteration that fails leaves the candidates, and the domain they end in.
LEMMA SoundFails ==
  ASSUME SoundInv, stage = "ready", status = "matching", UNCHANGED netVars,
         NEW domain \in SUBSET Near(i), Failed(domain)
  PROVE  CandidatesSound'
<1>1. NetInv /\ Begun /\ Typed /\ Midway
  BY DEF SoundInv, MatchInv, Begun
<1>2. /\ trip \in Trip /\ prevGps \in DOMAIN trip /\ ddr \in [DOMAIN trip -> SUBSET InNet]
      /\ running \in Seq(DOMAIN trip) /\ \A c \in paths : IsCandidate(c)
      /\ \A g \in DOMAIN trip : ddr[g] \subseteq Near(g)
      /\ i \in 2 .. Len(trip) /\ prevGps < i /\ Range(inter) \subseteq prevGps + 1 .. i - 1
  BY <1>1 DEF Typed, Midway, Begun
<1>3. i \in DOMAIN trip /\ i # prevGps /\ prevGps \notin Range(inter) \cup {i} /\ i \in Nat /\ prevGps \in Nat
  <2>1. DOMAIN trip = 1 .. Len(trip) /\ Len(trip) \in Nat
    BY <1>2, TripPoints
  <2> QED
    BY <1>2, <2>1
<1>4. trip' = trip /\ paths' = paths /\ prevGps' = prevGps
  BY DEF Failed
<1>5. ddr'[prevGps] = ddr[prevGps] /\ (Stuck(running) => Stuck(running'))
  <2>1. CASE (GiveUp \/ PutAside) /\ ddr' = [ddr EXCEPT ![i] = domain]
    <3>1. ddr'[prevGps] = ddr[prevGps]
      BY <1>2, <1>3, <2>1
    <3>2. running' = running \/ running' = Append(running, i)
      BY <2>1 DEF GiveUp, PutAside
    <3>3. PICK one : one = <<i>>
      OBVIOUS
    <3>4. one \in Seq(DOMAIN trip) /\ Append(running, i) = running \o one
      <4>1. one \in Seq(DOMAIN trip)
        BY <1>3, <3>3, OneElement
      <4>2. Append(running, i) = running \o <<i>>
        BY <1>2, <1>3, AppendIsConcat
      <4> QED
        BY <3>3, <4>1, <4>2
    <3> QED
      BY <1>2, <3>1, <3>2, <3>4, StaysStuck
  <2>2. CASE LastIterationForLowSpeed(domain)
    <3>1. PICK ls : ls = low'
      OBVIOUS
    <3>2. PICK temp, arcs, more :
            temp = Inherited(ls) /\ arcs = TakenOver(ls) /\ more = domain \cup TakenOver(ls)
      OBVIOUS
    <3>3. PICK look : look = Absorb(temp, arcs, more, ls)
      OBVIOUS
    <3>4. ddr' = look.ddr /\ running' = running \o look.points
      BY <2>2, <3>1, <3>2, <3>3 DEF LastIterationForLowSpeed
    <3>5. Exploring
      BY <1>1, <1>2, <1>3 DEF Exploring, NetInv, NetTypeOK, Nets
    <3>6. arcs \subseteq Near(i)
      BY <3>2, <3>5, TakesOver
    <3>7. arcs \in SUBSET InNet /\ more \in SUBSET Near(i)
      BY <3>2, <3>6 DEF Near
    <3>8. look.points \in Seq(DOMAIN trip)
      BY <1>1, <3>3, AbsorbsPoints DEF NewPoints
    <3>9. NewDomains(look)
      BY <1>1, <3>3, <3>7, AbsorbsDomains
    <3>10. ddr'[prevGps] = ddr[prevGps]
      BY <1>2, <1>3, <3>4, <3>9 DEF NewDomains
    <3>11. PICK points : points = look.points
      OBVIOUS
    <3> QED
      BY <1>2, <3>4, <3>8, <3>10, <3>11, StaysStuck
  <2> QED
    BY <2>1, <2>2 DEF Failed
<1>6. Distinct(paths) /\ \A c \in paths : SoundRoads(c.roads) /\ (~Stuck(running) => Last(c.roads) \in ddr[prevGps])
  BY SoundNow DEF SoundInv
<1> QED
  BY <1>4, <1>5, <1>6, SoundNext

\* An iteration that succeeds: what was found is brought up to date and selected from.
LEMMA SoundExtends ==
  ASSUME SoundInv, stage = "ready", Extended, UNCHANGED netVars
  PROVE  CandidatesSound'
<1>1. status = "matching" /\ NetInv /\ Begun /\ Typed /\ Midway /\ CandidatesSound
  BY DEF SoundInv, MatchInv, Begun, Extended
<1>2. /\ trip \in Trip /\ ddr \in [DOMAIN trip -> SUBSET InNet]
      /\ running \in Seq(DOMAIN trip) /\ \A c \in paths : IsCandidate(c)
      /\ \A g \in DOMAIN trip : ddr[g] \subseteq Near(g) /\ i \in 2 .. Len(trip) /\ prevGps \in DOMAIN trip
  BY <1>1 DEF Typed, Midway, Begun
<1>3. i \in DOMAIN trip /\ i \notin Range(inter)
  BY <1>1, TripPoints DEF Typed, Midway
<1>4. PICK found : found = Explored
  OBVIOUS
<1>5. found \in Finds
  <2>1. Exploring
    BY <1>1, <1>2, <1>3 DEF Exploring, NetInv, NetTypeOK, Nets
  <2> QED
    BY <1>4, <2>1, Explores
<1>6. /\ found.temp \in SUBSET Grown /\ found.ddr \in SUBSET Near(i) /\ found.inter \in SUBSET InNet
      /\ Sound(found)
  BY <1>1, <1>5 DEF Finds
<1>7. PICK look : look = Absorb(found.temp, found.inter, found.ddr, low)
  OBVIOUS
<1>8. /\ ddr' = look.ddr /\ running' = running \o look.points
      /\ paths' \in SelectPaths(look.temp, look.ddr[i]) /\ prevGps' = i /\ trip' = trip
  BY <1>4, <1>7 DEF Extended
<1>9. PICK points, d : points = look.points /\ d = look.ddr
  OBVIOUS
<1>10. points \in Seq(DOMAIN trip)
  BY <1>1, <1>7, <1>9, AbsorbsPoints DEF NewPoints
<1>11. PICK f : f = [c \in found.temp |-> Update(AddMeasurements(c, points), d)]
  OBVIOUS
<1>12. look.temp = {f[c] : c \in found.temp}
  <2>1. look.temp = {Update(AddMeasurements(c, look.points), look.ddr) : c \in found.temp}
    BY <1>7 DEF Absorb
  <2>2. look.temp = {Update(AddMeasurements(c, points), d) : c \in found.temp}
    BY <1>9, <2>1
  <2> QED
    BY <1>11, <2>2
<1>13. \A c \in found.temp : f[c].roads = c.roads
  <2> SUFFICES ASSUME NEW c \in found.temp
               PROVE  f[c].roads = c.roads
    OBVIOUS
  <2>1. PICK p \in paths, r \in Roads, w \in Seq(InNet) : c = Grew(p, r, w)
    BY <1>6 DEF Grown
  <2>2. IsCandidate(c)
    BY <1>2, <2>1 DEF IsCandidate, Grew
  <2> QED
    BY <1>10, <1>11, <2>2, Absorbs
<1>14. paths' \subseteq {f[c] : c \in found.temp}
  BY <1>8, <1>12, Selects
<1>15. Distinct(paths')
  <2>1. Distinct({f[c] : c \in found.temp})
    BY <1>6, <1>13, SameRoads DEF Sound
  <2> QED
    BY <1>14, <2>1 DEF Distinct
<1>16. \A c \in paths' : SoundRoads(c.roads)
  BY <1>6, <1>13, <1>14 DEF Sound
<1>17. ASSUME ~Stuck(running')
       PROVE  \A c \in paths' : Last(c.roads) \in ddr'[prevGps']
  <2>1. ~Stuck(running)
    BY <1>2, <1>8, <1>9, <1>10, <1>17, StaysStuck
  <2>2. \A c \in paths : c.down = <<>>
    BY <1>1, <2>1 DEF Midway, Clean
  <2>3. \A c \in paths' : Last(c.roads) \in found.ddr
    BY <1>6, <1>13, <1>14, <2>2 DEF Sound
  <2>4. found.ddr \subseteq ddr'[i]
    <3>1. PICK domain : domain = found.ddr
      OBVIOUS
    <3>2. look.ddr[i] = FinalizeDDR(domain)
      BY <1>3, <1>7, <3>1 DEF Absorb
    <3> QED
      BY <1>8, <3>1, <3>2 DEF FinalizeDDR
  <2> QED
    BY <1>8, <2>3, <2>4
<1> QED
  BY <1>8, <1>15, <1>16, <1>17, SoundNext

\* Every step leaves the candidates sound.
LEMMA SoundSteps ==
  ASSUME SoundInv, [Next]_vars
  PROVE  SoundInv'
<1>1. MatchInv' /\ NetInv
  BY InvSteps DEF SoundInv, MatchInv
<1>2. NoLoops'
  <2>1. CASE UNCHANGED netVars
    BY <2>1 DEF netVars, NoLoops, SoundInv
  <2>2. CASE NetNext
    BY <1>1, <2>2, NoLoopsStep DEF SoundInv
  <2> QED
    BY <2>1, <2>2 DEF Next, vars
<1>3. ASSUME paths' = {}
      PROVE  CandidatesSound'
  BY <1>3 DEF CandidatesSound
<1>4. CASE NetNext /\ UNCHANGED mmVars
  <2>1. stage # "ready"
    BY <1>4 DEF NetNext, Skip, ReadRoads, ReadRelation, Summarize, Access, Mode, PublicTransport
  <2>2. paths' = {}
    BY <1>4, <2>1 DEF SoundInv, MatchInv, Begun, Unread, Fresh, mmVars
  <2> QED
    BY <1>1, <1>2, <1>3, <2>2 DEF SoundInv
<1>5. CASE stage = "ready" /\ Matching /\ UNCHANGED netVars
  <2>1. CASE ReadFromFile
    <3>1. paths' = {}
      BY <2>1 DEF ReadFromFile, SoundInv, MatchInv, Unread, Fresh
    <3> QED
      BY <1>1, <1>2, <1>3, <3>1 DEF SoundInv
  <2>2. CASE FirstIteration
    BY <1>1, <1>2, <1>5, <2>2, SoundFirst DEF SoundInv
  <2>3. ASSUME status = "matching"
        PROVE  ddr[i] \in SUBSET Near(i) /\ Explored \in Finds
    <3>1. Begun /\ NetInv /\ Typed /\ Midway
      BY <2>3 DEF SoundInv, MatchInv, Begun
    <3>2. i \in DOMAIN trip
      BY <3>1, TripPoints DEF Typed, Midway
    <3>3. ddr[i] \in SUBSET Near(i)
      BY <3>1, <3>2 DEF Begun
    <3>4. Exploring
      BY <3>1, <3>2, <3>3 DEF Exploring, NetInv, NetTypeOK, Nets, Typed
    <3> QED
      BY <3>3, <3>4, Explores
  <2>4. CASE TooNear
    <3>1. PICK domain : domain = ddr[i]
      OBVIOUS
    <3>2. status = "matching" /\ domain \in SUBSET Near(i) /\ Failed(domain)
      BY <2>3, <2>4, <3>1 DEF TooNear
    <3> QED
      BY <1>1, <1>2, <1>5, <3>2, SoundFails DEF SoundInv
  <2>5. CASE NotExtended
    <3>1. PICK found : found = Explored
      OBVIOUS
    <3>2. PICK domain : domain = found.ddr
      OBVIOUS
    <3>3. status = "matching" /\ Failed(domain)
      BY <2>5, <3>1, <3>2 DEF NotExtended
    <3>4. domain \in SUBSET Near(i)
      BY <2>3, <3>1, <3>2, <3>3 DEF Finds
    <3> QED
      BY <1>1, <1>2, <1>5, <3>3, <3>4, SoundFails DEF SoundInv
  <2>6. CASE Extended
    BY <1>1, <1>2, <1>5, <2>6, SoundExtends DEF SoundInv
  <2> QED
    BY <1>5, <2>1, <2>2, <2>4, <2>5, <2>6 DEF Matching
<1>6. CASE UNCHANGED vars
  <2>1. UNCHANGED netVars /\ trip' = trip /\ paths' = paths /\ running' = running /\ ddr' = ddr /\ prevGps' = prevGps
    BY <1>6 DEF vars, mmVars
  <2>2. CandidatesSound'
    <3>1. /\ Distinct(paths)
          /\ \A c \in paths : SoundRoads(c.roads) /\ (~Stuck(running) => Last(c.roads) \in ddr[prevGps])
      BY SoundNow DEF SoundInv
    <3> QED
      BY <2>1, <3>1, SoundNext
  <2> QED
    BY <1>1, <1>2, <2>2 DEF SoundInv
<1> QED
  BY <1>4, <1>5, <1>6 DEF Next

(***************************************************************************)
(* Every candidate can be travelled, for every extract, trip and choice of *)
(* parameters: its roads are joined, in the networks of their modes, from  *)
(* one mode to another only on foot; it turns back only on foot, comes     *)
(* back to a node only by public transport, the first time at a stop, and  *)
(* ends in the domain of the last point matched; no two have the same arcs *)
(* (extendFromNode, selectPaths).                                          *)
(***************************************************************************)
THEOREM CandidatesAlwaysSound == Spec => []CandidatesSound
<1>1. Init => SoundInv
  <2> SUFFICES ASSUME Init
               PROVE  SoundInv
    OBVIOUS
  <2>1. MatchInv
    BY InvStarts
  <2>2. net = [m \in Mode |-> {}] /\ paths = {}
    BY DEF Init, NetInit, MatchInit
  <2>3. NoLoops /\ CandidatesSound
    BY <2>2 DEF NoLoops, CandidatesSound
  <2> QED
    BY <2>1, <2>3 DEF SoundInv
<1> QED
  BY <1>1, SoundSteps, PTL DEF Spec, SoundInv

=============================================================================
