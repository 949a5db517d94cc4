--------------------------- MODULE Router_proofs ----------------------------
(***************************************************************************)
(* What holds of the router's operators on every network: the choices of   *)
(* one iteration of treeCost, the labels it leaves, the route read back    *)
(* from a tree, and the reference which the labels of both searches are    *)
(* compared with.                                                          *)
(*                                                                         *)
(* The reference is a recursive function. That it has a value, and what    *)
(* holds of each of its rounds, is shown by way of the least number of     *)
(* rounds for which it would not (module LeastNumber).                     *)
(***************************************************************************)
EXTENDS Router, LeastNumber, SequenceTheorems

-----------------------------------------------------------------------------
(* The choices of one iteration exist.                                     *)

\* The open node taken next is open, and has the least label of all.
LEMMA FirstOfIsFirst ==
  ASSUME NEW lab \in [Node -> Nat], NEW list \in SUBSET Node, list # {}
  PROVE  /\ FirstOf(lab, list) \in list
         /\ \A b \in list : lab[FirstOf(lab, list)] <= lab[b]
<1> DEFINE values == {lab[a] : a \in list}
<1>1. Node \subseteq Nat
  BY NetworkAssumption
<1>2. values \in SUBSET Nat /\ values # {}
  OBVIOUS
<1>3. PICK v \in values : \A w \in values : v <= w
  BY <1>2, LeastOfNaturals
<1> DEFINE least == {a \in list : lab[a] = v}
<1>4. least \in SUBSET Nat /\ least # {}
  BY <1>1, <1>3
<1>5. PICK a \in least : \A b \in least : a <= b
  BY <1>4, LeastOfNaturals
<1>6. \A b \in list \ {a} : compareLabel(lab, a, b)
  <2> SUFFICES ASSUME NEW b \in list \ {a}
               PROVE  compareLabel(lab, a, b)
    OBVIOUS
  <2>1. lab[a] = v /\ v <= lab[b] /\ lab[b] \in Nat /\ v \in Nat
    BY <1>3, <1>5
  <2>2. CASE lab[b] = v
    <3>1. a <= b /\ a # b /\ a \in Nat /\ b \in Nat
      BY <1>1, <1>5, <2>2
    <3> QED
      BY <2>1, <2>2, <3>1 DEF compareLabel
  <2>3. CASE lab[b] # v
    BY <2>1, <2>3 DEF compareLabel
  <2> QED
    BY <2>2, <2>3
<1>7. \E x \in list : \A b \in list \ {x} : compareLabel(lab, x, b)
  BY <1>5, <1>6
<1>8. /\ FirstOf(lab, list) \in list
      /\ \A b \in list \ {FirstOf(lab, list)} : compareLabel(lab, FirstOf(lab, list), b)
  BY <1>7 DEF FirstOf
<1> QED
  BY <1>8 DEF compareLabel

\* The road kept among those that improve a label is one of them.
LEMMA CheapestIsOne ==
  ASSUME NEW c \in [Road -> Nat], NEW roads \in SUBSET Road, roads # {}
  PROVE  Cheapest(roads, c) \in roads
<1> DEFINE costs == {c[r] : r \in roads}
<1>1. Road \subseteq Nat
  BY NetworkAssumption
<1>2. costs \in SUBSET Nat /\ costs # {}
  OBVIOUS
<1>3. PICK v \in costs : \A w \in costs : v <= w
  BY <1>2, LeastOfNaturals
<1> DEFINE least == {r \in roads : c[r] = v}
<1>4. least \in SUBSET Nat /\ least # {}
  BY <1>1, <1>3
<1>5. PICK r \in least : \A p \in least : r <= p
  BY <1>4, LeastOfNaturals
<1>6. \A p \in roads : c[r] < c[p] \/ (c[r] = c[p] /\ r <= p)
  <2> SUFFICES ASSUME NEW p \in roads
               PROVE  c[r] < c[p] \/ (c[r] = c[p] /\ r <= p)
    OBVIOUS
  <2>1. c[r] = v /\ v <= c[p] /\ c[p] \in Nat /\ v \in Nat
    BY <1>3, <1>5
  <2> QED
    BY <1>5, <2>1
<1> QED
  BY <1>5, <1>6 DEF Cheapest

\* A road joins nodes, whichever way it is gone.
LEMMA EndsAreNodes ==
  ASSUME NEW dir \in Direction, NEW r \in Road
  PROVE  Near(r, dir) \in Node /\ Far(r, dir) \in Node
BY NetworkAssumption DEF Near, Far, Direction

\* Expanding v: n keeps its label, or some road from v to n gives the new one.
LEMMA RelaxedOrKept ==
  ASSUME NEW lab \in [Node -> 0 .. DBL_MAX], NEW pre \in [Node -> SUBSET Road],
         NEW c \in [Road -> Nat], NEW dir \in Direction, NEW v \in Node, NEW n \in Node
  PROVE  IF n \in Relaxed(lab, c, dir, v)
         THEN \E r \in Road : /\ Near(r, dir) = v /\ Far(r, dir) = n
                              /\ lab[n] > lab[v] + c[r]
                              /\ RelaxLabels(lab, c, dir, v)[n] = lab[v] + c[r]
                              /\ RelaxPreds(pre, lab, c, dir, v)[n] = {r}
         ELSE /\ RelaxLabels(lab, c, dir, v)[n] = lab[n]
              /\ RelaxPreds(pre, lab, c, dir, v)[n] = pre[n]
<1> DEFINE better == Improving(lab, c, dir, v, n)
<1>1. better \in SUBSET Road
  BY DEF Improving
<1>2. n \in Relaxed(lab, c, dir, v) <=> better # {}
  BY DEF Relaxed
<1>3. /\ RelaxLabels(lab, c, dir, v)[n] = IF better = {} THEN lab[n] ELSE lab[v] + c[Cheapest(better, c)]
      /\ RelaxPreds(pre, lab, c, dir, v)[n] = IF better = {} THEN pre[n] ELSE {Cheapest(better, c)}
  BY DEF RelaxLabels, RelaxPreds
<1>4. CASE better = {}
  BY <1>2, <1>3, <1>4
<1>5. CASE better # {}
  <2>1. Cheapest(better, c) \in better
    <3> HIDE DEF better
    <3> QED
      BY <1>1, <1>5, CheapestIsOne
  <2>2. /\ Near(Cheapest(better, c), dir) = v /\ Far(Cheapest(better, c), dir) = n
        /\ lab[n] > lab[v] + c[Cheapest(better, c)]
    BY <2>1 DEF Improving
  <2> HIDE DEF better
  <2> QED
    BY <1>1, <1>2, <1>3, <1>5, <2>1, <2>2
<1> QED
  BY <1>4, <1>5

\* Labels stay within bounds, and preds are sets of roads.
LEMMA RelaxType ==
  ASSUME NEW lab \in [Node -> 0 .. DBL_MAX], NEW pre \in [Node -> SUBSET Road],
         NEW c \in [Road -> Nat], NEW dir \in Direction, NEW v \in Node
  PROVE  /\ RelaxLabels(lab, c, dir, v) \in [Node -> 0 .. DBL_MAX]
         /\ RelaxPreds(pre, lab, c, dir, v) \in [Node -> SUBSET Road]
<1> DEFINE L == RelaxLabels(lab, c, dir, v)
           P == RelaxPreds(pre, lab, c, dir, v)
<1>1. L = [n \in Node |-> L[n]] /\ P = [n \in Node |-> P[n]]
  BY DEF RelaxLabels, RelaxPreds
<1>2. ASSUME NEW n \in Node
      PROVE  L[n] \in 0 .. DBL_MAX /\ P[n] \in SUBSET Road
  <2>1. lab[n] \in 0 .. DBL_MAX /\ lab[v] \in 0 .. DBL_MAX /\ pre[n] \in SUBSET Road /\ DBL_MAX \in Nat
    BY NetworkAssumption
  <2>2. CASE n \in Relaxed(lab, c, dir, v)
    <3>1. PICK r \in Road : lab[n] > lab[v] + c[r] /\ L[n] = lab[v] + c[r] /\ P[n] = {r}
      BY <2>2, RelaxedOrKept
    <3>2. c[r] \in Nat
      OBVIOUS
    <3> HIDE DEF L, P
    <3> QED
      BY <2>1, <3>1, <3>2
  <2>3. CASE n \notin Relaxed(lab, c, dir, v)
    <3>1. L[n] = lab[n] /\ P[n] = pre[n]
      BY <2>3, RelaxedOrKept
    <3> HIDE DEF L, P
    <3> QED
      BY <2>1, <3>1
  <2> QED
    BY <2>2, <2>3
<1> HIDE DEF L, P
<1>3. L \in [Node -> 0 .. DBL_MAX] /\ P \in [Node -> SUBSET Road]
  BY <1>1, <1>2
<1> QED
  BY <1>3 DEF L, P

\* The road that is chosen costs no more than any other.
LEMMA CheapestIsLeast ==
  ASSUME NEW c \in [Road -> Nat], NEW roads \in SUBSET Road, NEW r \in roads
  PROVE  c[Cheapest(roads, c)] <= c[r]
<1> DEFINE costs == {c[p] : p \in roads}
<1>1. Road \subseteq Nat
  BY NetworkAssumption
<1>2. costs \in SUBSET Nat /\ costs # {}
  OBVIOUS
<1>3. PICK v \in costs : \A w \in costs : v <= w
  BY <1>2, LeastOfNaturals
<1> DEFINE least == {p \in roads : c[p] = v}
<1>4. least \in SUBSET Nat /\ least # {}
  BY <1>1, <1>3
<1>5. PICK b \in least : \A p \in least : b <= p
  BY <1>4, LeastOfNaturals
<1>6. \A p \in roads : c[b] < c[p] \/ (c[b] = c[p] /\ b <= p)
  <2> SUFFICES ASSUME NEW p \in roads
               PROVE  c[b] < c[p] \/ (c[b] = c[p] /\ b <= p)
    OBVIOUS
  <2>1. c[b] = v /\ v <= c[p] /\ c[p] \in Nat /\ v \in Nat
    BY <1>3, <1>5
  <2> QED
    BY <1>5, <2>1
<1>7. \A p \in roads : \/ c[Cheapest(roads, c)] < c[p]
                       \/ c[Cheapest(roads, c)] = c[p] /\ Cheapest(roads, c) <= p
  BY <1>5, <1>6 DEF Cheapest
<1>8. Cheapest(roads, c) \in roads
  BY CheapestIsOne
<1> QED
  BY <1>7, <1>8

\* Expanding v leaves no label that a road from v could lower.
LEMMA NothingToImprove ==
  ASSUME NEW lab \in [Node -> 0 .. DBL_MAX], NEW c \in [Road -> Nat], NEW dir \in Direction,
         NEW v \in Node, NEW r \in Road, Near(r, dir) = v
  PROVE  RelaxLabels(lab, c, dir, v)[Far(r, dir)] <= lab[v] + c[r]
<1> DEFINE n == Far(r, dir)
           better == Improving(lab, c, dir, v, n)
<1>1. n \in Node /\ better \in SUBSET Road /\ DBL_MAX \in Nat
  BY EndsAreNodes, NetworkAssumption DEF Improving
<1>2. \A p \in better : lab[n] > lab[v] + c[p]
  BY DEF Improving
<1>3. r \notin better => ~(lab[n] > lab[v] + c[r])
  BY DEF Improving
<1>4. RelaxLabels(lab, c, dir, v)[n] = IF better = {} THEN lab[n] ELSE lab[v] + c[Cheapest(better, c)]
  BY <1>1 DEF RelaxLabels
<1> HIDE DEF n, better
<1>5. lab[n] \in Nat /\ lab[v] \in Nat /\ c[r] \in Nat
  BY <1>1
<1>6. CASE better = {}
  BY <1>3, <1>4, <1>5, <1>6 DEF n
<1>7. CASE better # {}
  <2>1. Cheapest(better, c) \in better /\ \A p \in better : c[Cheapest(better, c)] <= c[p]
    BY <1>1, <1>7, CheapestIsLeast, CheapestIsOne
  <2>2. c[Cheapest(better, c)] \in Nat /\ lab[n] > lab[v] + c[Cheapest(better, c)]
    BY <1>1, <1>2, <2>1
  <2>3. c[Cheapest(better, c)] <= c[r]
    BY <1>3, <1>5, <2>1, <2>2
  <2> QED
    BY <1>4, <1>5, <1>7, <2>2, <2>3 DEF n
<1> QED
  BY <1>6, <1>7

-----------------------------------------------------------------------------
(* The reference: Distances, round by round.                               *)

Unreached(roots) == [n \in Node |-> IF n \in roots THEN 0 ELSE DBL_MAX]

LeastOf(S) == CHOOSE x \in S : \A y \in S : x <= y

\* The walks to n with at most one road more.
Offers(d, c, dir, n) == {d[n]} \cup {d[Near(r, dir)] + c[r] : r \in {r \in Road : Far(r, dir) = n}}

Round(d, c, dir) == [n \in Node |-> LeastOf(Offers(d, c, dir, n))]

RoundsTo(K, f, c, roots, dir) ==
  f = [k \in 0 .. K |-> IF k = 0 THEN Unreached(roots) ELSE Round(f[k-1], c, dir)]

\* What the reference is made of: the costs of the cheapest walks of at most
\* k roads.
Rounds(f, c, roots, dir) ==
  /\ f \in [0 .. Cardinality(Node) -> [Node -> 0 .. DBL_MAX]]
  /\ \A n \in Node : f[0][n] = IF n \in roots THEN 0 ELSE DBL_MAX
  /\ \A k \in 1 .. Cardinality(Node) : \A n \in Node : f[k][n] <= f[k-1][n]
  /\ \A k \in 1 .. Cardinality(Node) : \A r \in Road : f[k][Far(r, dir)] <= f[k-1][Near(r, dir)] + c[r]
  /\ \A k \in 1 .. Cardinality(Node) : \A n \in Node :
       \/ f[k][n] = f[k-1][n]
       \/ \E r \in Road : Far(r, dir) = n /\ f[k][n] = f[k-1][Near(r, dir)] + c[r]

LEMMA LeastIsLeast ==
  ASSUME NEW S \in SUBSET Nat, S # {}
  PROVE  LeastOf(S) \in S /\ \A y \in S : LeastOf(S) <= y
BY LeastOfNaturals DEF LeastOf

\* One round: the least of the offers is one of them.
LEMMA OneRound ==
  ASSUME NEW c \in [Road -> Nat], NEW dir \in Direction, NEW d \in [Node -> 0 .. DBL_MAX],
         NEW n \in Node, NEW x, x = Round(d, c, dir)[n]
  PROVE  /\ x \in 0 .. DBL_MAX /\ x <= d[n]
         /\ \A r \in Road : Far(r, dir) = n => x <= d[Near(r, dir)] + c[r]
         /\ x = d[n] \/ \E r \in Road : Far(r, dir) = n /\ x = d[Near(r, dir)] + c[r]
<1>1. DBL_MAX \in Nat /\ d[n] \in 0 .. DBL_MAX
  BY NetworkAssumption
<1>2. \A r \in Road : d[Near(r, dir)] + c[r] \in Nat
  <2> SUFFICES ASSUME NEW r \in Road
               PROVE  d[Near(r, dir)] + c[r] \in Nat
    OBVIOUS
  <2>1. Near(r, dir) \in Node /\ c[r] \in Nat
    BY EndsAreNodes
  <2>2. d[Near(r, dir)] \in Nat
    BY <1>1, <2>1
  <2> QED
    BY <2>1, <2>2
<1>3. Offers(d, c, dir, n) \in SUBSET Nat /\ d[n] \in Offers(d, c, dir, n)
  BY <1>1, <1>2 DEF Offers
<1>4. x = LeastOf(Offers(d, c, dir, n))
  BY DEF Round
<1>5. x \in Offers(d, c, dir, n) /\ \A y \in Offers(d, c, dir, n) : x <= y
  BY <1>3, <1>4, LeastIsLeast
<1>6. x <= d[n]
  BY <1>3, <1>5
<1>7. x \in 0 .. DBL_MAX
  <2>1. x \in Nat
    BY <1>3, <1>5
  <2> QED
    BY <1>1, <1>6, <2>1
<1>8. \A r \in Road : Far(r, dir) = n => x <= d[Near(r, dir)] + c[r]
  <2>1. \A r \in Road : Far(r, dir) = n => d[Near(r, dir)] + c[r] \in Offers(d, c, dir, n)
    BY DEF Offers
  <2> QED
    BY <1>5, <2>1
<1>9. x = d[n] \/ \E r \in Road : Far(r, dir) = n /\ x = d[Near(r, dir)] + c[r]
  BY <1>5 DEF Offers
<1> QED
  BY <1>6, <1>7, <1>8, <1>9

\* The recursion has a value.
LEMMA RoundsExist ==
  ASSUME NEW c \in [Road -> Nat], NEW roots, NEW dir \in Direction, NEW K \in Nat
  PROVE  \E f : RoundsTo(K, f, c, roots, dir)
<1> DEFINE V == [Node -> 0 .. DBL_MAX]
           step == [d \in V |-> Round(d, c, dir)]
<1>1. Unreached(roots) \in V
  BY NetworkAssumption DEF Unreached
<1>2. ASSUME NEW d \in V PROVE Round(d, c, dir) \in V
  <2>1. \A n \in Node : Round(d, c, dir)[n] \in 0 .. DBL_MAX
    BY OneRound
  <2> QED
    BY <2>1 DEF Round
<1>3. step \in [V -> V]
  BY <1>2
<1>4. PICK g : Iterated(g, K, V, Unreached(roots), step)
  <2> HIDE DEF V, step
  <2> QED
    BY <1>1, <1>3, Iterates
<1>5. ASSUME NEW k \in 0 .. K
      PROVE  g[k] = IF k = 0 THEN Unreached(roots) ELSE Round(g[k-1], c, dir)
  <2>1. k # 0 => k \in 1 .. K /\ k - 1 \in 0 .. K
    OBVIOUS
  <2>2. k # 0 => g[k-1] \in V
    BY <1>4, <2>1 DEF Iterated
  <2> QED
    BY <1>4, <2>1, <2>2 DEF Iterated
<1>6. g = [k \in 0 .. K |-> IF k = 0 THEN Unreached(roots) ELSE Round(g[k-1], c, dir)]
  <2> HIDE DEF V
  <2> QED
    BY <1>4, <1>5 DEF Iterated
<1> QED
  BY <1>6 DEF RoundsTo

\* The rounds are distances, each no more than the one before.
LEMMA RoundsAre ==
  ASSUME NEW c \in [Road -> Nat], NEW roots, NEW dir \in Direction,
         NEW f, RoundsTo(Cardinality(Node), f, c, roots, dir)
  PROVE  Rounds(f, c, roots, dir)
<1>1. PICK N : N = Cardinality(Node)
  OBVIOUS
<1>2. N \in Nat /\ DBL_MAX \in Nat
  BY <1>1, NetworkAssumption, FS_CardinalityType
<1>3. f = [k \in 0 .. N |-> IF k = 0 THEN Unreached(roots) ELSE Round(f[k-1], c, dir)]
  BY <1>1 DEF RoundsTo
<1>4. f[0] = Unreached(roots) /\ \A k \in 1 .. N : f[k] = Round(f[k-1], c, dir)
  <2>1. 0 \in 0 .. N /\ \A k \in 1 .. N : k \in 0 .. N /\ k # 0
    BY <1>2
  <2> QED
    BY <1>3, <2>1
<1> DEFINE Bad == {k \in 0 .. N : f[k] \notin [Node -> 0 .. DBL_MAX]}
<1>5. Bad = {}
  <2> SUFFICES ASSUME Bad # {}
               PROVE  FALSE
    OBVIOUS
  <2>1. Bad \in SUBSET Nat
    OBVIOUS
  <2>2. PICK m \in Bad : \A k \in Bad : m <= k
    <3> HIDE DEF Bad
    <3> QED
      BY <2>1, LeastOfNaturals
  <2>3. m \in 0 .. N /\ f[m] \notin [Node -> 0 .. DBL_MAX]
    OBVIOUS
  <2>4. CASE m = 0
    BY <1>2, <1>4, <2>3, <2>4 DEF Unreached
  <2>5. CASE m # 0
    <3>1. m \in 1 .. N /\ m - 1 \in 0 .. N /\ ~(m <= m - 1)
      BY <1>2, <2>3, <2>5
    <3>2. f[m-1] \in [Node -> 0 .. DBL_MAX]
      BY <2>2, <3>1
    <3>3. \A n \in Node : Round(f[m-1], c, dir)[n] \in 0 .. DBL_MAX
      BY <3>2, OneRound
    <3>4. Round(f[m-1], c, dir) \in [Node -> 0 .. DBL_MAX]
      BY <3>3 DEF Round
    <3> QED
      BY <1>4, <2>3, <3>1, <3>4
  <2> QED
    BY <2>4, <2>5
<1>6. \A k \in 0 .. N : f[k] \in [Node -> 0 .. DBL_MAX]
  BY <1>5
<1>7. f \in [0 .. N -> [Node -> 0 .. DBL_MAX]]
  <2>1. f = [k \in 0 .. N |-> f[k]]
    BY <1>3
  <2> QED
    BY <1>6, <2>1
<1>8. \A n \in Node : f[0][n] = IF n \in roots THEN 0 ELSE DBL_MAX
  BY <1>4 DEF Unreached
<1>9. ASSUME NEW k \in 1 .. N
      PROVE  f[k] = Round(f[k-1], c, dir) /\ f[k-1] \in [Node -> 0 .. DBL_MAX]
  <2>1. k - 1 \in 0 .. N
    BY <1>2
  <2> QED
    BY <1>4, <1>6, <2>1
<1>10. ASSUME NEW k \in 1 .. N, NEW n \in Node
       PROVE  /\ f[k][n] <= f[k-1][n]
              /\ \A r \in Road : Far(r, dir) = n => f[k][n] <= f[k-1][Near(r, dir)] + c[r]
              /\ \/ f[k][n] = f[k-1][n]
                 \/ \E r \in Road : Far(r, dir) = n /\ f[k][n] = f[k-1][Near(r, dir)] + c[r]
  BY <1>9, OneRound
<1>11. \A k \in 1 .. N : \A r \in Road : f[k][Far(r, dir)] <= f[k-1][Near(r, dir)] + c[r]
  BY <1>10, EndsAreNodes
<1> QED
  BY <1>1, <1>7, <1>8, <1>10, <1>11 DEF Rounds

\* The reference is the last of its rounds.
THEOREM DistancesByRounds ==
  ASSUME NEW c \in [Road -> Nat], NEW roots, NEW dir \in Direction
  PROVE  \E f : Rounds(f, c, roots, dir) /\ Distances(c, roots, dir) = f[Cardinality(Node)]
<1>1. PICK f : f = CHOOSE g : RoundsTo(Cardinality(Node), g, c, roots, dir)
  OBVIOUS
<1>2. RoundsTo(Cardinality(Node), f, c, roots, dir)
  <2>1. Cardinality(Node) \in Nat
    BY NetworkAssumption, FS_CardinalityType
  <2> QED
    BY <1>1, <2>1, RoundsExist
<1>3. Distances(c, roots, dir) = f[Cardinality(Node)]
  BY <1>1 DEF Distances, RoundsTo, Unreached, Round, Offers, LeastOf
<1> QED
  BY <1>2, <1>3, RoundsAre

\* No walk is shorter than a distance that no road contradicts.
LEMMA RoundsAbove ==
  ASSUME NEW c \in [Road -> Nat], NEW roots, NEW dir \in Direction, NEW f, Rounds(f, c, roots, dir),
         NEW d \in [Node -> 0 .. DBL_MAX], \A n \in Node : n \in roots => d[n] = 0,
         \A r \in Road : d[Far(r, dir)] <= d[Near(r, dir)] + c[r]
  PROVE  \A k \in 0 .. Cardinality(Node) : \A n \in Node : d[n] <= f[k][n]
<1>1. PICK N : N = Cardinality(Node)
  OBVIOUS
<1>2. N \in Nat /\ DBL_MAX \in Nat
  BY <1>1, NetworkAssumption, FS_CardinalityType
<1> DEFINE Bad == {k \in 0 .. N : ~ \A n \in Node : d[n] <= f[k][n]}
<1>3. Bad = {}
  <2> SUFFICES ASSUME Bad # {}
               PROVE  FALSE
    OBVIOUS
  <2>1. Bad \in SUBSET Nat
    OBVIOUS
  <2>2. PICK m \in Bad : \A k \in Bad : m <= k
    <3> HIDE DEF Bad
    <3> QED
      BY <2>1, LeastOfNaturals
  <2>3. m \in 0 .. N
    OBVIOUS
  <2>4. PICK n \in Node : ~(d[n] <= f[m][n])
    OBVIOUS
  <2>5. d[n] \in 0 .. DBL_MAX
    OBVIOUS
  <2>6. CASE m = 0
    <3>1. f[0][n] = IF n \in roots THEN 0 ELSE DBL_MAX
      BY DEF Rounds
    <3> QED
      BY <1>2, <2>4, <2>5, <2>6, <3>1
  <2>7. CASE m # 0
    <3>1. m \in 1 .. N /\ m - 1 \in 0 .. N /\ ~(m <= m - 1)
      BY <1>2, <2>3, <2>7
    <3>2. \A b \in Node : d[b] <= f[m-1][b]
      BY <2>2, <3>1
    <3>3. \/ f[m][n] = f[m-1][n]
          \/ \E r \in Road : Far(r, dir) = n /\ f[m][n] = f[m-1][Near(r, dir)] + c[r]
      BY <1>1, <3>1 DEF Rounds
    <3>4. PICK r \in Road : Far(r, dir) = n /\ f[m][n] = f[m-1][Near(r, dir)] + c[r]
      BY <2>4, <3>2, <3>3
    <3>5. PICK b \in Node : b = Near(r, dir)
      BY EndsAreNodes
    <3>6. d[n] <= d[b] + c[r] /\ d[b] <= f[m-1][b]
      BY <3>2, <3>4, <3>5
    <3>7. f[m-1] \in [Node -> 0 .. DBL_MAX]
      BY <1>1, <3>1 DEF Rounds
    <3>8. f[m-1][b] \in Nat /\ d[b] \in Nat /\ c[r] \in Nat /\ d[n] \in Nat
      BY <1>2, <3>7
    <3> QED
      BY <2>4, <3>4, <3>5, <3>6, <3>8
  <2> QED
    BY <2>6, <2>7
<1> QED
  BY <1>1, <1>3

\* More roads never make the cheapest walk dearer.
LEMMA RoundsFall ==
  ASSUME NEW c \in [Road -> Nat], NEW roots, NEW dir \in Direction, NEW f, Rounds(f, c, roots, dir),
         NEW j \in 0 .. Cardinality(Node), NEW n \in Node
  PROVE  \A k \in j .. Cardinality(Node) : f[k][n] <= f[j][n]
<1>1. PICK N : N = Cardinality(Node)
  OBVIOUS
<1>2. N \in Nat /\ DBL_MAX \in Nat /\ j \in 0 .. N
  BY <1>1, NetworkAssumption, FS_CardinalityType
<1>3. \A k \in 0 .. N : f[k][n] \in Nat
  BY <1>1, <1>2 DEF Rounds
<1> DEFINE Bad == {k \in j .. N : ~(f[k][n] <= f[j][n])}
<1>4. Bad = {}
  <2> SUFFICES ASSUME Bad # {}
               PROVE  FALSE
    OBVIOUS
  <2>1. Bad \in SUBSET Nat
    BY <1>2
  <2>2. PICK m \in Bad : \A k \in Bad : m <= k
    <3> HIDE DEF Bad
    <3> QED
      BY <2>1, LeastOfNaturals
  <2>3. m \in j .. N /\ ~(f[m][n] <= f[j][n])
    OBVIOUS
  <2>4. m # j
    BY <1>2, <1>3, <2>3
  <2>5. m \in 1 .. N /\ m - 1 \in j .. N /\ ~(m <= m - 1) /\ m \in 0 .. N /\ m - 1 \in 0 .. N
    BY <1>2, <2>3, <2>4
  <2>6. f[m-1][n] <= f[j][n]
    BY <2>2, <2>5
  <2>7. f[m][n] <= f[m-1][n]
    BY <1>1, <2>5 DEF Rounds
  <2> QED
    BY <1>2, <1>3, <2>3, <2>5, <2>6, <2>7
<1> QED
  BY <1>1, <1>4

-----------------------------------------------------------------------------
(* Labels whose nodes have a predecessor each: with positive costs as many *)
(* rounds as there are nodes are enough.                                   *)

\* The nodes with smaller labels: no more roads than these lead to n.
Closer(lab, n) == {m \in Node : lab[m] < lab[n]}

\* How many nodes are closer, and that a predecessor's are fewer.
LEMMA CloserCount ==
  ASSUME NEW lab \in [Node -> Nat], NEW n \in Node
  PROVE  /\ Cardinality(Closer(lab, n)) \in 0 .. Cardinality(Node) /\ Cardinality(Node) \in Nat
         /\ \A m \in Node : lab[m] < lab[n] =>
              Cardinality(Closer(lab, m)) + 1 <= Cardinality(Closer(lab, n))
<1>1. IsFiniteSet(Node) /\ \A x \in Node : Closer(lab, x) \subseteq Node /\ lab[x] \in Nat
  BY NetworkAssumption DEF Closer
<1>2. \A x \in Node : IsFiniteSet(Closer(lab, x)) /\ Cardinality(Closer(lab, x)) \in Nat
                      /\ Cardinality(Closer(lab, x)) <= Cardinality(Node)
  BY <1>1, FS_Subset, FS_CardinalityType
<1>3. Cardinality(Node) \in Nat
  BY <1>1, FS_CardinalityType
<1>4. ASSUME NEW m \in Node, lab[m] < lab[n]
      PROVE  Cardinality(Closer(lab, m)) + 1 <= Cardinality(Closer(lab, n))
  <2>1. m \notin Closer(lab, m)
    BY <1>1 DEF Closer
  <2>2. Closer(lab, m) \cup {m} \subseteq Closer(lab, n)
    BY <1>1, <1>4 DEF Closer
  <2>3. Cardinality(Closer(lab, m) \cup {m}) = Cardinality(Closer(lab, m)) + 1
    BY <1>2, <2>1, FS_AddElement
  <2>4. Cardinality(Closer(lab, m) \cup {m}) <= Cardinality(Closer(lab, n))
    BY <1>2, <2>2, FS_Subset
  <2> QED
    BY <2>3, <2>4
<1> QED
  BY <1>2, <1>3, <1>4

\* Every labelled node but the roots has a road from a predecessor whose label
\* is smaller by the road's cost at least.
Preceded(lab, c, roots, dir) ==
  /\ \A n \in Node \cap roots : lab[n] = 0
  /\ \A n \in Node \ roots : lab[n] # DBL_MAX =>
       \E r \in Road : Far(r, dir) = n /\ lab[Near(r, dir)] + c[r] <= lab[n]

\* No label is below the cheapest walk: the node of the least label for which
\* it were so has a predecessor with a smaller one.
LEMMA LabelsAreWalks ==
  ASSUME NEW lab \in [Node -> 0 .. DBL_MAX], NEW c \in [Road -> Nat \ {0}], NEW roots,
         NEW dir \in Direction, NEW f, Rounds(f, c, roots, dir), Preceded(lab, c, roots, dir),
         NEW n \in Node
  PROVE  f[Cardinality(Node)][n] <= lab[n]
<1>1. PICK N : N = Cardinality(Node)
  OBVIOUS
<1>2. c \in [Road -> Nat] /\ DBL_MAX \in Nat /\ lab \in [Node -> Nat] /\ \A r \in Road : c[r] \in Nat /\ c[r] > 0
  BY NetworkAssumption
<1>3. N \in Nat
  BY <1>1, <1>2, CloserCount
<1>4. \A k \in 0 .. N : \A x \in Node : f[k][x] \in Nat /\ f[k][x] <= DBL_MAX
  <2> SUFFICES ASSUME NEW k \in 0 .. N, NEW x \in Node
               PROVE  f[k][x] \in Nat /\ f[k][x] <= DBL_MAX
    OBVIOUS
  <2>1. f[k] \in [Node -> 0 .. DBL_MAX]
    BY <1>1 DEF Rounds
  <2>2. f[k][x] \in 0 .. DBL_MAX
    BY <2>1
  <2> QED
    BY <1>2, <2>2
<1>5. \A x \in Node \cap roots : f[0][x] = 0
  BY DEF Rounds
<1>6. ASSUME NEW k \in 1 .. N, NEW r \in Road
      PROVE  f[k][Far(r, dir)] <= f[k-1][Near(r, dir)] + c[r]
  BY <1>1 DEF Rounds
<1>7. \A x \in Node : \A j \in 0 .. N : \A k \in j .. N : f[k][x] <= f[j][x]
  BY <1>1, <1>2, RoundsFall
<1> DEFINE rank(x) == Cardinality(Closer(lab, x))
           off == {x \in Node : lab[x] # DBL_MAX /\ ~(f[rank(x)][x] <= lab[x])}
           values == {lab[x] : x \in off}
<1>8. \A x \in Node : /\ rank(x) \in 0 .. N
                      /\ \A y \in Node : lab[y] < lab[x] => rank(y) + 1 <= rank(x)
  BY <1>1, <1>2, CloserCount
<1>9. off = {}
  <2> SUFFICES ASSUME off # {} PROVE FALSE
    OBVIOUS
  <2>1. values \in SUBSET Nat /\ values # {}
    BY <1>2
  <2>2. PICK v \in values : \A w \in values : v <= w
    <3> HIDE DEF values
    <3> QED
      BY <2>1, LeastOfNaturals
  <2>3. PICK x \in off : lab[x] = v
    OBVIOUS
  <2>4. \A y \in off : lab[x] <= lab[y]
    BY <2>2, <2>3
  <2>5. x \in Node /\ lab[x] # DBL_MAX /\ ~(f[rank(x)][x] <= lab[x])
    OBVIOUS
  <2>6. \A y \in Node : y \notin off /\ lab[y] # DBL_MAX => f[rank(y)][y] <= lab[y]
    OBVIOUS
  <2>7. PICK i : i = rank(x)
    OBVIOUS
  <2> HIDE DEF off, values
  <2>8. i \in 0 .. N /\ lab[x] \in Nat /\ lab[x] <= DBL_MAX /\ f[i][x] \in Nat /\ ~(f[i][x] <= lab[x])
    BY <1>2, <1>4, <1>8, <2>5, <2>7
  <2>9. CASE x \in roots
    <3>1. lab[x] = 0 /\ f[0][x] = 0
      BY <1>5, <2>5, <2>9 DEF Preceded
    <3>2. 0 \in 0 .. N /\ i \in 0 .. N
      BY <1>3, <2>8
    <3>3. f[i][x] <= f[0][x]
      BY <1>7, <2>5, <3>2
    <3> QED
      BY <2>8, <3>1, <3>3
  <2>10. CASE x \notin roots
    <3>1. PICK r \in Road : Far(r, dir) = x /\ lab[Near(r, dir)] + c[r] <= lab[x]
      BY <2>5, <2>10 DEF Preceded
    <3>2. PICK y, j : y = Near(r, dir) /\ j = rank(y)
      OBVIOUS
    <3>3. y \in Node /\ lab[y] \in Nat /\ c[r] \in Nat /\ c[r] > 0
      BY <1>2, <3>2, EndsAreNodes
    <3>4. lab[y] < lab[x] /\ lab[y] # DBL_MAX
      BY <1>2, <2>8, <3>1, <3>2, <3>3
    <3>5. y \notin off
      BY <2>4, <2>8, <3>3, <3>4
    <3>6. f[j][y] <= lab[y]
      BY <2>6, <3>2, <3>3, <3>4, <3>5
    <3>7. j \in 0 .. N /\ j + 1 <= i
      BY <1>8, <2>5, <2>7, <3>2, <3>3, <3>4
    <3>8. PICK k \in 1 .. N : k = j + 1
      BY ONLY <1>3, <2>8, <3>7
    <3>9. k - 1 = j /\ k \in 0 .. N /\ i \in k .. N
      BY ONLY <1>3, <2>8, <3>7, <3>8
    <3>10. f[k][x] <= f[k-1][y] + c[r]
      BY <1>6, <3>1, <3>2
    <3>11. f[i][x] <= f[k][x]
      BY <1>7, <2>5, <3>9
    <3>12. f[k-1][y] \in Nat /\ f[k][x] \in Nat /\ f[k-1][y] <= lab[y]
      BY <1>2, <1>4, <2>5, <3>3, <3>6, <3>7, <3>9
    <3> QED
      BY <2>8, <3>1, <3>2, <3>3, <3>10, <3>11, <3>12
  <2> QED
    BY <2>9, <2>10
<1>10. CASE lab[n] # DBL_MAX
  <2>1. PICK i : i = rank(n)
    OBVIOUS
  <2>2. f[i][n] <= lab[n]
    BY <1>9, <1>10, <2>1
  <2>3. i \in 0 .. N /\ N \in i .. N /\ N \in 0 .. N
    BY <1>3, <1>8, <2>1
  <2>4. f[N][n] <= f[i][n]
    BY <1>7, <2>3
  <2>5. f[N][n] \in Nat /\ f[i][n] \in Nat /\ lab[n] \in Nat
    BY <1>2, <1>4, <2>3
  <2> QED
    BY <1>1, <2>2, <2>4, <2>5
<1>11. CASE lab[n] = DBL_MAX
  <2>1. N \in 0 .. N
    BY <1>3
  <2>2. f[N][n] <= DBL_MAX
    BY <1>2, <1>4, <2>1
  <2> QED
    BY <1>1, <1>11, <2>2
<1> QED
  BY <1>10, <1>11

\* Labels that no road contradicts, and whose nodes have predecessors, are the
\* distances.
THEOREM LabelsAreDistances ==
  ASSUME NEW lab \in [Node -> 0 .. DBL_MAX], NEW c \in [Road -> Nat \ {0}], NEW roots,
         NEW dir \in Direction, Preceded(lab, c, roots, dir),
         \A r \in Road : lab[Far(r, dir)] <= lab[Near(r, dir)] + c[r]
  PROVE  lab = Distances(c, roots, dir)
<1>1. c \in [Road -> Nat] /\ DBL_MAX \in Nat
  BY NetworkAssumption
<1>2. PICK f : Rounds(f, c, roots, dir) /\ Distances(c, roots, dir) = f[Cardinality(Node)]
  BY <1>1, DistancesByRounds
<1>3. PICK N : N = Cardinality(Node)
  OBVIOUS
<1>4. N \in 0 .. N
  BY <1>3, NetworkAssumption, FS_CardinalityType
<1>5. f[N] \in [Node -> 0 .. DBL_MAX]
  BY <1>2, <1>3, <1>4 DEF Rounds
<1>6. \A n \in Node : n \in roots => lab[n] = 0
  BY DEF Preceded
<1>7. \A k \in 0 .. Cardinality(Node) : \A n \in Node : lab[n] <= f[k][n]
  BY <1>1, <1>2, <1>6, RoundsAbove
<1>8. \A n \in Node : f[N][n] <= lab[n]
  BY <1>2, <1>3, LabelsAreWalks
<1>9. ASSUME NEW n \in Node PROVE f[N][n] = lab[n]
  <2>1. lab[n] <= f[N][n] /\ f[N][n] <= lab[n]
    BY <1>3, <1>4, <1>7, <1>8
  <2>2. f[N][n] \in Nat /\ lab[n] \in Nat
    BY <1>1, <1>5
  <2> QED
    BY <2>1, <2>2
<1>10. f[N] = lab
  BY <1>5, <1>9
<1> QED
  BY <1>2, <1>3, <1>10

-----------------------------------------------------------------------------
(* The tree of all nodes: TreeCost with a target that is none of them.     *)

\* One iteration, and the trees of the first K.
NextTree(t, c, target, dir) ==
  LET u == FirstOf(t.label, t.list)
  IN  IF t.found \/ t.list = {} THEN t
      ELSE [label |-> RelaxLabels(t.label, c, dir, u),
            pred  |-> RelaxPreds(t.pred, t.label, c, dir, u),
            list  |-> (t.list \ {u}) \cup Relaxed(t.label, c, dir, u),
            found |-> u = target]

FirstTree(root) ==
  [label |-> NoLabels(root), pred |-> [n \in Node |-> {}], list |-> {root}, found |-> FALSE]

TreesTo(K, g, c, root, target, dir) ==
  g = [k \in 0 .. K |-> IF k = 0 THEN FirstTree(root) ELSE NextTree(g[k-1], c, target, dir)]

\* A search in progress.
Tree == [label : [Node -> 0 .. DBL_MAX], pred : [Node -> SUBSET Road], list : SUBSET Node, found : BOOLEAN]

\* An iteration makes a tree of a tree, and does not find what is no node.
LEMMA TreeStays ==
  ASSUME NEW c \in [Road -> Nat], NEW dir \in Direction, NEW target, NEW t \in Tree
  PROVE  /\ NextTree(t, c, target, dir) \in Tree
         /\ target \notin Node /\ t.found = FALSE => NextTree(t, c, target, dir).found = FALSE
<1>1. /\ t.label \in [Node -> 0 .. DBL_MAX] /\ t.pred \in [Node -> SUBSET Road]
      /\ t.list \in SUBSET Node /\ t.found \in BOOLEAN
  BY DEF Tree
<1>2. CASE t.found \/ t.list = {}
  BY <1>2 DEF NextTree
<1>3. CASE ~ t.found /\ t.list # {}
  <2> DEFINE u == FirstOf(t.label, t.list)
  <2>1. t.label \in [Node -> Nat]
    BY <1>1, NetworkAssumption
  <2>2. u \in Node
    BY <1>1, <1>3, <2>1, FirstOfIsFirst
  <2>3. NextTree(t, c, target, dir) =
          [label |-> RelaxLabels(t.label, c, dir, u), pred |-> RelaxPreds(t.pred, t.label, c, dir, u),
           list |-> (t.list \ {u}) \cup Relaxed(t.label, c, dir, u), found |-> u = target]
    BY <1>1, <1>3 DEF NextTree
  <2> HIDE DEF u
  <2>4. /\ RelaxLabels(t.label, c, dir, u) \in [Node -> 0 .. DBL_MAX]
        /\ RelaxPreds(t.pred, t.label, c, dir, u) \in [Node -> SUBSET Road]
    BY <1>1, <2>2, RelaxType
  <2>5. (t.list \ {u}) \cup Relaxed(t.label, c, dir, u) \in SUBSET Node
    BY <1>1 DEF Relaxed
  <2>6. ASSUME u = target
        PROVE  NextTree(t, c, target, dir) =
          [label |-> RelaxLabels(t.label, c, dir, u), pred |-> RelaxPreds(t.pred, t.label, c, dir, u),
           list |-> (t.list \ {u}) \cup Relaxed(t.label, c, dir, u), found |-> TRUE]
    BY <2>3, <2>6
  <2>7. ASSUME u # target
        PROVE  NextTree(t, c, target, dir) =
          [label |-> RelaxLabels(t.label, c, dir, u), pred |-> RelaxPreds(t.pred, t.label, c, dir, u),
           list |-> (t.list \ {u}) \cup Relaxed(t.label, c, dir, u), found |-> FALSE]
    BY <2>3, <2>7
  <2>8. ASSUME NEW lab \in [Node -> 0 .. DBL_MAX], NEW pre \in [Node -> SUBSET Road], NEW list \in SUBSET Node
        PROVE  /\ [label |-> lab, pred |-> pre, list |-> list, found |-> TRUE] \in Tree
               /\ [label |-> lab, pred |-> pre, list |-> list, found |-> FALSE] \in Tree
    BY DEF Tree
  <2>9. NextTree(t, c, target, dir) \in Tree
    BY <2>4, <2>5, <2>6, <2>7, <2>8
  <2> QED
    BY <2>2, <2>7, <2>9
<1> QED
  BY <1>2, <1>3

LEMMA TreesExist ==
  ASSUME NEW c \in [Road -> Nat], NEW root \in Node, NEW dir \in Direction,
         NEW target, NEW K \in Nat
  PROVE  \E g : TreesTo(K, g, c, root, target, dir)
<1> DEFINE step == [t \in Tree |-> NextTree(t, c, target, dir)]
<1>1. FirstTree(root) \in Tree
  BY NetworkAssumption DEF FirstTree, Tree, NoLabels
<1>2. step \in [Tree -> Tree]
  BY TreeStays
<1>3. PICK g : Iterated(g, K, Tree, FirstTree(root), step)
  <2> HIDE DEF step
  <2> QED
    BY <1>1, <1>2, Iterates
<1>4. ASSUME NEW k \in 0 .. K
      PROVE  g[k] = IF k = 0 THEN FirstTree(root) ELSE NextTree(g[k-1], c, target, dir)
  <2>1. k # 0 => k \in 1 .. K /\ k - 1 \in 0 .. K
    OBVIOUS
  <2>2. k # 0 => g[k-1] \in Tree
    BY <1>3, <2>1 DEF Iterated
  <2> QED
    BY <1>3, <2>1, <2>2 DEF Iterated
<1>5. g = [k \in 0 .. K |-> IF k = 0 THEN FirstTree(root) ELSE NextTree(g[k-1], c, target, dir)]
  BY <1>3, <1>4 DEF Iterated
<1> QED
  BY <1>5 DEF TreesTo

\* The labels of a search whose open nodes are list, and whose settled nodes
\* are done: none of these is above an open one, and their roads are spread.
Growing(lab, list, done, c, root, dir) ==
  /\ done \in SUBSET Node /\ done \cap list = {}
  /\ \A n \in Node : lab[n] # DBL_MAX => n \in done \cup list
  /\ \A a \in done : \A b \in list : lab[a] <= lab[b]
  /\ \A r \in Road : Near(r, dir) \in done => lab[Far(r, dir)] <= lab[Near(r, dir)] + c[r]
  /\ Preceded(lab, c, {root}, dir)

\* What expanding u makes of it.
Settling(lab, list, done, c, root, dir, u) ==
  /\ u \in Node \ done
  /\ Growing(RelaxLabels(lab, c, dir, u), (list \ {u}) \cup Relaxed(lab, c, dir, u),
             done \cup {u}, c, root, dir)

\* Expanding the first of the open nodes settles it and no other, for good.
LEMMA OneSettled ==
  ASSUME NEW lab \in [Node -> 0 .. DBL_MAX], NEW list \in SUBSET Node, list # {}, NEW done,
         NEW c \in [Road -> Nat], NEW root \in Node, NEW dir \in Direction,
         Growing(lab, list, done, c, root, dir), NEW u, u = FirstOf(lab, list)
  PROVE  Settling(lab, list, done, c, root, dir, u)
<1>1. DBL_MAX \in Nat /\ lab \in [Node -> Nat]
  BY NetworkAssumption
<1>2. u \in list /\ u \in Node /\ \A b \in list : lab[u] <= lab[b]
  BY <1>1, FirstOfIsFirst
<1>3. done \in SUBSET Node /\ done \cap list = {} /\ Preceded(lab, c, {root}, dir)
  BY DEF Growing
<1>4. \A a \in done : lab[a] <= lab[u]
  BY <1>2 DEF Growing
<1>5. PICK L, R : L = RelaxLabels(lab, c, dir, u) /\ R = Relaxed(lab, c, dir, u)
  OBVIOUS
<1>6. L \in [Node -> 0 .. DBL_MAX] /\ R \in SUBSET Node
  <2>1. [n \in Node |-> {}] \in [Node -> SUBSET Road]
    OBVIOUS
  <2> QED
    BY <1>2, <1>5, <2>1, RelaxType DEF Relaxed
<1>7. \A n \in Node : /\ n \notin R => L[n] = lab[n]
                      /\ n \in R => \E r \in Road : /\ Near(r, dir) = u /\ Far(r, dir) = n
                                                    /\ lab[n] > lab[u] + c[r] /\ L[n] = lab[u] + c[r]
  <2> SUFFICES ASSUME NEW n \in Node
               PROVE  IF n \in R THEN \E r \in Road : /\ Near(r, dir) = u /\ Far(r, dir) = n
                                                      /\ lab[n] > lab[u] + c[r]
                                                      /\ L[n] = lab[u] + c[r]
                                 ELSE L[n] = lab[n]
    OBVIOUS
  <2>1. PICK pre : pre \in [Node -> SUBSET Road]
    <3>1. [x \in Node |-> {}] \in [Node -> SUBSET Road]
      OBVIOUS
    <3> QED
      BY <3>1
  <2> QED
    BY <1>2, <1>5, <2>1, RelaxedOrKept
<1>8. \A n \in Node : lab[n] \in Nat /\ L[n] \in Nat /\ L[n] <= lab[n] /\ L[n] <= DBL_MAX /\ lab[n] <= DBL_MAX
  <2> SUFFICES ASSUME NEW n \in Node
               PROVE  lab[n] \in Nat /\ L[n] \in Nat /\ L[n] <= lab[n] /\ L[n] <= DBL_MAX /\ lab[n] <= DBL_MAX
    OBVIOUS
  <2>1. lab[n] \in Nat /\ lab[u] \in Nat /\ L[n] \in Nat /\ L[n] <= DBL_MAX /\ lab[n] <= DBL_MAX
    BY <1>1, <1>2, <1>6
  <2>2. n \in R => \E r \in Road : c[r] \in Nat /\ lab[n] > lab[u] + c[r] /\ L[n] = lab[u] + c[r]
    BY <1>7
  <2>3. L[n] <= lab[n]
    BY <1>7, <2>1, <2>2
  <2> QED
    BY <2>1, <2>3
<1>9. \A n \in R : lab[u] <= L[n] /\ lab[u] < lab[n] /\ lab[u] # DBL_MAX
  <2> SUFFICES ASSUME NEW n \in R
               PROVE  lab[u] <= L[n] /\ lab[u] < lab[n] /\ lab[u] # DBL_MAX
    OBVIOUS
  <2>1. PICK r \in Road : lab[n] > lab[u] + c[r] /\ L[n] = lab[u] + c[r]
    BY <1>6, <1>7
  <2>2. lab[n] \in Nat /\ lab[u] \in Nat /\ c[r] \in Nat /\ lab[n] <= DBL_MAX
    BY <1>2, <1>6, <1>8
  <2> QED
    BY <1>1, <2>1, <2>2
<1>10. \A a \in done \cup {u} : a \notin R /\ a \in Node /\ L[a] = lab[a] /\ lab[a] <= lab[u]
  <2> SUFFICES ASSUME NEW a \in done \cup {u}
               PROVE  a \notin R /\ a \in Node /\ lab[a] <= lab[u]
    BY <1>7
  <2>1. a \in Node /\ lab[a] \in Nat /\ lab[u] \in Nat
    BY <1>2, <1>3, <1>8
  <2>2. lab[a] <= lab[u]
    BY <1>4, <2>1
  <2>3. ~(lab[u] < lab[a])
    BY <2>1, <2>2
  <2> QED
    BY <1>9, <2>1, <2>2, <2>3
<1> DEFINE open == (list \ {u}) \cup R
           all == done \cup {u}
<1>11. all \in SUBSET Node /\ all \cap open = {}
  BY <1>2, <1>3, <1>10
<1>12. \A n \in Node : L[n] # DBL_MAX => n \in all \cup open
  <2>1. \A n \in Node : lab[n] # DBL_MAX => n \in done \cup list
    BY DEF Growing
  <2> QED
    BY <1>7, <2>1
<1>13. ASSUME NEW a \in all, NEW b \in open
       PROVE  L[a] <= L[b]
  <2>1. L[a] = lab[a] /\ lab[a] <= lab[u] /\ a \in Node /\ b \in Node
    BY <1>6, <1>10
  <2>2. lab[a] \in Nat /\ lab[u] \in Nat /\ L[b] \in Nat
    BY <1>2, <1>8, <2>1
  <2>3. lab[u] <= L[b]
    BY <1>2, <1>7, <1>9, <2>1
  <2> QED
    BY <2>1, <2>2, <2>3
<1>14. ASSUME NEW r \in Road, Near(r, dir) \in all
       PROVE  L[Far(r, dir)] <= L[Near(r, dir)] + c[r]
  <2>1. PICK x, y, cr : x = Near(r, dir) /\ y = Far(r, dir) /\ cr = c[r]
    OBVIOUS
  <2>2. x \in Node /\ y \in Node /\ cr \in Nat /\ L[x] = lab[x] /\ x \in all
    BY <1>10, <1>14, <2>1, EndsAreNodes
  <2>3. lab[x] \in Nat /\ lab[y] \in Nat /\ L[y] \in Nat /\ L[y] <= lab[y]
    BY <1>8, <2>2
  <2>4. CASE x = u
    <3>1. L[y] <= lab[x] + cr
      BY <1>2, <1>5, <2>1, <2>4, NothingToImprove
    <3> QED
      BY <2>1, <2>2, <3>1
  <2>5. CASE x \in done
    <3>1. lab[y] <= lab[x] + cr
      BY <2>1, <2>5 DEF Growing
    <3>2. L[y] <= lab[x] + cr
      BY ONLY <2>2, <2>3, <3>1
    <3> QED
      BY <2>1, <2>2, <3>2
  <2> QED
    BY <2>2, <2>4, <2>5
<1>15. Preceded(L, c, {root}, dir)
  <2>1. \A n \in Node \cap {root} : L[n] = 0
    <3>1. lab[root] = 0
      BY <1>3 DEF Preceded
    <3>2. L[root] \in Nat /\ L[root] <= lab[root]
      BY <1>8
    <3>3. L[root] = 0
      BY ONLY <3>1, <3>2
    <3> QED
      BY <3>3
  <2>2. ASSUME NEW n \in Node \ {root}, L[n] # DBL_MAX
        PROVE  \E r \in Road : Far(r, dir) = n /\ L[Near(r, dir)] + c[r] <= L[n]
    <3>1. CASE n \in R
      <4>1. PICK r \in Road : Near(r, dir) = u /\ Far(r, dir) = n /\ L[n] = lab[u] + c[r]
        BY <1>7, <3>1
      <4>2. L[u] = lab[u] /\ lab[u] \in Nat /\ c[r] \in Nat
        BY <1>2, <1>8, <1>10
      <4>3. L[Near(r, dir)] + c[r] <= L[n]
        BY <4>1, <4>2
      <4> QED
        BY <4>1, <4>3
    <3>2. CASE n \notin R
      <4>1. L[n] = lab[n]
        BY <1>7, <3>2
      <4>2. PICK r \in Road : Far(r, dir) = n /\ lab[Near(r, dir)] + c[r] <= lab[n]
        BY <1>3, <2>2, <4>1 DEF Preceded
      <4>3. PICK x, cr : x = Near(r, dir) /\ cr = c[r]
        OBVIOUS
      <4>4. lab[x] \in Nat /\ L[x] \in Nat /\ L[x] <= lab[x] /\ cr \in Nat /\ lab[n] \in Nat
        BY <1>8, <4>3, EndsAreNodes
      <4>5. L[x] + cr <= lab[n]
        BY <4>2, <4>3, <4>4
      <4> QED
        BY <4>1, <4>2, <4>3, <4>5
    <3> QED
      BY <3>1, <3>2
  <2> QED
    BY <2>1, <2>2 DEF Preceded
<1>16. Growing(L, open, all, c, root, dir)
  <2> HIDE DEF open, all
  <2> QED
    BY <1>11, <1>12, <1>13, <1>14, <1>15 DEF Growing
<1> QED
  BY <1>2, <1>3, <1>5, <1>16 DEF Settling

\* What the labels of a tree of all nodes are.
Complete(lab, c, root, dir) ==
  /\ lab \in [Node -> 0 .. DBL_MAX]
  /\ Preceded(lab, c, {root}, dir)
  /\ \A r \in Road : lab[Far(r, dir)] <= lab[Near(r, dir)] + c[r]

\* When no node is open all labelled nodes are done.
LEMMA NothingOpen ==
  ASSUME NEW lab \in [Node -> 0 .. DBL_MAX], NEW done, NEW c \in [Road -> Nat], NEW root \in Node,
         NEW dir \in Direction, Growing(lab, {}, done, c, root, dir)
  PROVE  Complete(lab, c, root, dir)
<1>1. DBL_MAX \in Nat
  BY NetworkAssumption
<1>2. ASSUME NEW r \in Road
      PROVE  lab[Far(r, dir)] <= lab[Near(r, dir)] + c[r]
  <2>1. PICK x, y, cr : x = Near(r, dir) /\ y = Far(r, dir) /\ cr = c[r]
    OBVIOUS
  <2>2. lab[x] \in Nat /\ lab[y] \in Nat /\ lab[y] <= DBL_MAX /\ cr \in Nat /\ x \in Node
    BY <1>1, <2>1, EndsAreNodes
  <2>3. CASE lab[x] = DBL_MAX
    BY <1>1, <2>1, <2>2, <2>3
  <2>4. CASE lab[x] # DBL_MAX
    <3>1. x \in done
      BY <2>2, <2>4 DEF Growing
    <3> QED
      BY <2>1, <3>1 DEF Growing
  <2> QED
    BY <2>3, <2>4
<1> QED
  BY <1>2 DEF Growing, Complete

\* treeCost without a target completes its tree: each iteration settles a node,
\* so that as many as there are nodes leave none open.
THEOREM TreeCompletes ==
  ASSUME NEW c \in [Road -> Nat], NEW root \in Node, NEW dir \in Direction,
         NEW target, target \notin Node
  PROVE  Complete(TreeCost(c, root, target, dir).label, c, root, dir)
<1>1. PICK N : N = Cardinality(Node)
  OBVIOUS
<1>2. N \in Nat /\ DBL_MAX \in Nat \ {0} /\ IsFiniteSet(Node)
  BY <1>1, NetworkAssumption, FS_CardinalityType
<1>3. PICK g : g = CHOOSE h : TreesTo(Cardinality(Node), h, c, root, target, dir)
  OBVIOUS
<1>4. TreesTo(N, g, c, root, target, dir)
  BY <1>1, <1>2, <1>3, TreesExist
<1>5. TreeCost(c, root, target, dir) = g[N]
  BY <1>1, <1>3 DEF TreeCost, TreesTo, FirstTree, NextTree
<1>6. \A k \in 0 .. N : g[k] = IF k = 0 THEN FirstTree(root) ELSE NextTree(g[k-1], c, target, dir)
  BY <1>4 DEF TreesTo
<1>7. \A k \in 0 .. N : g[k] \in Tree /\ g[k].found = FALSE
  <2> DEFINE S == {k \in 0 .. N : g[k] \in Tree /\ g[k].found = FALSE}
  <2>1. 0 \in S
    <3>1. FirstTree(root) \in Tree /\ FirstTree(root).found = FALSE
      BY <1>2 DEF FirstTree, Tree, NoLabels
    <3> QED
      BY <1>2, <1>6, <3>1
  <2>2. ASSUME NEW k \in 1 .. N, k - 1 \in S
        PROVE  k \in S
    <3>1. k \in 0 .. N /\ k # 0
      BY <1>2
    <3>2. g[k] = NextTree(g[k-1], c, target, dir)
      BY <1>6, <3>1
    <3>3. NextTree(g[k-1], c, target, dir) \in Tree /\ NextTree(g[k-1], c, target, dir).found = FALSE
      BY <2>2, TreeStays
    <3> QED
      BY <3>1, <3>2, <3>3
  <2>3. S \in SUBSET (0 .. N)
    OBVIOUS
  <2>4. \A k \in 0 .. N : k \in S
    <3> HIDE DEF S
    <3> QED
      BY <1>2, <2>1, <2>2, <2>3, AllNumbers
  <2> QED
    BY <2>4
<1> DEFINE Settles(k) == \E done : /\ Growing(g[k].label, g[k].list, done, c, root, dir)
                                   /\ g[k].list = {} \/ k <= Cardinality(done)
           S == {k \in 0 .. N : Settles(k)}
<1>8. Settles(0)
  <2>1. g[0].label = NoLabels(root) /\ g[0].list = {root}
    BY <1>2, <1>6 DEF FirstTree
  <2>2. Preceded(NoLabels(root), c, {root}, dir)
    BY DEF Preceded, NoLabels
  <2>3. Growing(NoLabels(root), {root}, {}, c, root, dir)
    BY <2>2 DEF Growing, NoLabels
  <2>4. 0 <= Cardinality({})
    BY FS_EmptySet
  <2> QED
    BY <2>1, <2>3, <2>4
<1>9. ASSUME NEW k \in 1 .. N, Settles(k-1)
      PROVE  Settles(k)
  <2>1. PICK t : t = g[k-1]
    OBVIOUS
  <2>2. k \in Nat /\ k - 1 \in 0 .. N /\ k \in 0 .. N /\ k # 0
    BY <1>2
  <2>3. t \in Tree /\ g[k] = NextTree(t, c, target, dir)
    BY <1>6, <1>7, <2>1, <2>2
  <2>4. PICK done : /\ Growing(t.label, t.list, done, c, root, dir)
                    /\ t.list = {} \/ k - 1 <= Cardinality(done)
    BY <1>9, <2>1
  <2>5. t.label \in [Node -> 0 .. DBL_MAX] /\ t.list \in SUBSET Node /\ t.found = FALSE
    BY <1>7, <2>1, <2>2, <2>3 DEF Tree
  <2>6. CASE t.list = {}
    <3>1. g[k] = t
      BY <2>3, <2>6 DEF NextTree
    <3> QED
      BY <2>4, <2>6, <3>1
  <2>7. CASE t.list # {}
    <3>1. PICK lab, list, u : lab = t.label /\ list = t.list /\ u = FirstOf(lab, list)
      OBVIOUS
    <3>2. /\ g[k].label = RelaxLabels(lab, c, dir, u)
          /\ g[k].list = (list \ {u}) \cup Relaxed(lab, c, dir, u)
      BY <2>3, <2>5, <2>7, <3>1 DEF NextTree
    <3>3. /\ lab \in [Node -> 0 .. DBL_MAX] /\ list \in SUBSET Node /\ list # {}
          /\ Growing(lab, list, done, c, root, dir)
      BY <2>4, <2>5, <2>7, <3>1
    <3>4. u \in Node \ done /\ Growing(g[k].label, g[k].list, done \cup {u}, c, root, dir)
      <4>1. Settling(lab, list, done, c, root, dir, u)
        BY <3>1, <3>3, OneSettled
      <4> QED
        BY <3>2, <4>1 DEF Settling
    <3>5. IsFiniteSet(done) /\ Cardinality(done) \in Nat
      BY <1>2, <2>4, FS_Subset, FS_CardinalityType DEF Growing
    <3>6. Cardinality(done \cup {u}) = Cardinality(done) + 1
      BY <3>4, <3>5, FS_AddElement
    <3>7. k <= Cardinality(done \cup {u})
      BY <2>2, <2>4, <2>7, <3>5, <3>6
    <3> QED
      BY <3>4, <3>7
  <2> QED
    BY <2>6, <2>7
<1>10. Settles(N)
  <2>1. S \in SUBSET (0 .. N) /\ 0 \in S
    BY <1>2, <1>8
  <2>2. ASSUME NEW k \in 1 .. N, k - 1 \in S
        PROVE  k \in S
    BY <1>9, <2>2
  <2>3. N \in S
    <3> HIDE DEF S
    <3> QED
      BY <1>2, <2>1, <2>2, AllNumbers
  <2> QED
    BY <2>3
<1>11. PICK done : /\ Growing(g[N].label, g[N].list, done, c, root, dir)
                   /\ g[N].list = {} \/ N <= Cardinality(done)
  BY <1>10
<1>12. g[N].label \in [Node -> 0 .. DBL_MAX] /\ g[N].list \in SUBSET Node
  <2>1. g[N] \in Tree
    BY <1>2, <1>7
  <2> QED
    BY <2>1 DEF Tree
<1>13. g[N].list = {}
  <2> SUFFICES ASSUME N <= Cardinality(done) PROVE g[N].list = {}
    BY <1>11
  <2>1. done \in SUBSET Node /\ done \cap g[N].list = {}
    BY <1>11 DEF Growing
  <2>2. Cardinality(done) \in Nat /\ Cardinality(done) <= N /\ (Cardinality(done) = N => done = Node)
    BY <1>1, <1>2, <2>1, FS_Subset, FS_CardinalityType
  <2>3. done = Node
    BY <1>2, <2>2
  <2> QED
    BY <1>12, <2>1, <2>3
<1> QED
  BY <1>5, <1>11, <1>12, <1>13, NothingOpen

-----------------------------------------------------------------------------
(* The tree grown for a target: the trees on the way to it.                *)

Trees(c, root, target, dir) == CHOOSE h : TreesTo(Cardinality(Node), h, c, root, target, dir)

\* Of the roads by which a node was reached one is kept.
OneEach(pre) == \A n \in Node : \A a, b \in pre[n] : a = b

LEMMA TreesAre ==
  ASSUME NEW c \in [Road -> Nat], NEW root \in Node, NEW dir \in Direction, NEW target,
         NEW g, g = Trees(c, root, target, dir)
  PROVE  /\ TreeCost(c, root, target, dir) = g[Cardinality(Node)]
         /\ g[0] = FirstTree(root)
         /\ \A k \in 1 .. Cardinality(Node) : g[k] = NextTree(g[k-1], c, target, dir)
         /\ \A k \in 0 .. Cardinality(Node) : g[k] \in Tree /\ OneEach(g[k].pred)
<1>1. PICK N : N = Cardinality(Node)
  OBVIOUS
<1>2. N \in Nat
  BY <1>1, NetworkAssumption, FS_CardinalityType
<1>3. TreesTo(N, g, c, root, target, dir)
  BY <1>1, <1>2, TreesExist DEF Trees
<1>4. TreeCost(c, root, target, dir) = g[N]
  BY <1>1 DEF TreeCost, Trees, TreesTo, FirstTree, NextTree
<1>5. \A k \in 0 .. N : g[k] = IF k = 0 THEN FirstTree(root) ELSE NextTree(g[k-1], c, target, dir)
  BY <1>3 DEF TreesTo
<1>6. g[0] = FirstTree(root) /\ \A k \in 1 .. N : g[k] = NextTree(g[k-1], c, target, dir)
  <2>1. 0 \in 0 .. N /\ \A k \in 1 .. N : k \in 0 .. N /\ k # 0
    BY <1>2
  <2> QED
    BY <1>5, <2>1
<1> DEFINE S == {k \in 0 .. N : g[k] \in Tree /\ OneEach(g[k].pred)}
<1>7. 0 \in S
  <2>1. FirstTree(root) \in Tree /\ OneEach(FirstTree(root).pred)
    BY NetworkAssumption DEF FirstTree, Tree, NoLabels, OneEach
  <2> QED
    BY <1>2, <1>6, <2>1
<1>8. ASSUME NEW k \in 1 .. N, k - 1 \in S
      PROVE  k \in S
  <2>1. PICK t \in Tree : t = g[k-1] /\ OneEach(t.pred)
    BY <1>8
  <2>2. g[k] = NextTree(t, c, target, dir) /\ k \in 0 .. N
    BY <1>2, <1>6, <2>1
  <2>3. g[k] \in Tree
    BY <2>2, TreeStays
  <2>4. OneEach(g[k].pred)
    <3>1. CASE t.found \/ t.list = {}
      BY <2>1, <2>2, <3>1 DEF NextTree
    <3>2. CASE ~ t.found /\ t.list # {}
      <4>1. PICK v : v = FirstOf(t.label, t.list)
        OBVIOUS
      <4>2. /\ t.label \in [Node -> 0 .. DBL_MAX] /\ t.label \in [Node -> Nat]
            /\ t.pred \in [Node -> SUBSET Road] /\ t.list \in SUBSET Node
        BY <2>1, NetworkAssumption DEF Tree
      <4>3. v \in Node
        BY <3>2, <4>1, <4>2, FirstOfIsFirst
      <4>4. g[k].pred = RelaxPreds(t.pred, t.label, c, dir, v)
        BY <2>2, <3>2, <4>1 DEF NextTree
      <4>5. \A n \in Node : g[k].pred[n] = t.pred[n] \/ \E r : g[k].pred[n] = {r}
        <5> SUFFICES ASSUME NEW n \in Node
                     PROVE  g[k].pred[n] = t.pred[n] \/ \E r : g[k].pred[n] = {r}
          OBVIOUS
        <5>1. CASE n \in Relaxed(t.label, c, dir, v)
          <6>1. PICK r \in Road : RelaxPreds(t.pred, t.label, c, dir, v)[n] = {r}
            BY <4>2, <4>3, <5>1, RelaxedOrKept
          <6> QED
            BY <4>4, <6>1
        <5>2. CASE n \notin Relaxed(t.label, c, dir, v)
          BY <4>2, <4>3, <4>4, <5>2, RelaxedOrKept
        <5> QED
          BY <5>1, <5>2
      <4> QED
        BY <2>1, <4>5 DEF OneEach
    <3> QED
      BY <3>1, <3>2
  <2> QED
    BY <2>2, <2>3, <2>4
<1>9. S \in SUBSET (0 .. N)
  OBVIOUS
<1>10. \A k \in 0 .. N : k \in S
  <2> HIDE DEF S
  <2> QED
    BY <1>2, <1>7, <1>8, <1>9, AllNumbers
<1> QED
  BY <1>1, <1>4, <1>6, <1>10

\* A search that found its target, or has no open node, grows no further.
LEMMA EndedStays ==
  ASSUME NEW c \in [Road -> Nat], NEW root \in Node, NEW dir \in Direction, NEW target,
         NEW g, g = Trees(c, root, target, dir), NEW k \in 0 .. Cardinality(Node),
         g[k].found \/ g[k].list = {}
  PROVE  g[Cardinality(Node)] = g[k]
<1>1. PICK N : N = Cardinality(Node)
  OBVIOUS
<1>2. N \in Nat
  BY <1>1, NetworkAssumption, FS_CardinalityType
<1> DEFINE S == {j \in 0 .. N : j < k \/ g[j] = g[k]}
<1>3. 0 \in S
  BY <1>1, <1>2
<1>4. ASSUME NEW j \in 1 .. N, j - 1 \in S
      PROVE  j \in S
  <2>1. j \in 0 .. N /\ k \in Nat /\ g[j] = NextTree(g[j-1], c, target, dir)
    BY <1>1, <1>2, TreesAre
  <2>2. CASE j - 1 < k
    <3>1. j < k \/ j = k
      BY <2>1, <2>2
    <3> QED
      BY <2>1, <3>1
  <2>3. CASE g[j-1] = g[k]
    <3>1. g[j] = g[k]
      BY <2>1, <2>3 DEF NextTree
    <3> QED
      BY <2>1, <3>1
  <2> QED
    BY <1>4, <2>2, <2>3
<1>5. S \in SUBSET (0 .. N)
  OBVIOUS
<1>6. N \in S
  <2> HIDE DEF S
  <2> QED
    BY <1>2, <1>3, <1>4, <1>5, AllNumbers
<1> QED
  BY <1>1, <1>2, <1>6

\* The nodes of done have labels that no open node is below.
Kept(t, done, lab, pre) ==
  \A s \in done : /\ t.label[s] = lab[s] /\ t.pred[s] = pre[s]
                  /\ \A b \in t.list : lab[s] <= t.label[b]

LEMMA KeptStays ==
  ASSUME NEW c \in [Road -> Nat], NEW dir \in Direction, NEW target, NEW t \in Tree,
         NEW done \in SUBSET Node, NEW lab, NEW pre, Kept(t, done, lab, pre)
  PROVE  Kept(NextTree(t, c, target, dir), done, lab, pre)
<1>1. CASE t.found \/ t.list = {}
  BY <1>1 DEF NextTree
<1>2. CASE ~ t.found /\ t.list # {}
  <2>1. PICK v, L, P, R : /\ v = FirstOf(t.label, t.list) /\ L = RelaxLabels(t.label, c, dir, v)
                          /\ P = RelaxPreds(t.pred, t.label, c, dir, v) /\ R = Relaxed(t.label, c, dir, v)
    OBVIOUS
  <2>2. /\ NextTree(t, c, target, dir).label = L /\ NextTree(t, c, target, dir).pred = P
        /\ NextTree(t, c, target, dir).list = (t.list \ {v}) \cup R
    BY <1>2, <2>1 DEF NextTree
  <2>3. /\ t.label \in [Node -> 0 .. DBL_MAX] /\ t.label \in [Node -> Nat]
        /\ t.pred \in [Node -> SUBSET Road] /\ t.list \in SUBSET Node /\ R \in SUBSET Node
    BY <2>1, NetworkAssumption DEF Tree, Relaxed
  <2>4. v \in t.list /\ v \in Node
    BY <1>2, <2>1, <2>3, FirstOfIsFirst
  <2>5. \A n \in Node : IF n \in R
                        THEN \E r \in Road : t.label[n] > t.label[v] + c[r] /\ L[n] = t.label[v] + c[r]
                        ELSE L[n] = t.label[n] /\ P[n] = t.pred[n]
    BY <2>1, <2>3, <2>4, RelaxedOrKept
  <2> SUFFICES ASSUME NEW s \in done
               PROVE  /\ L[s] = lab[s] /\ P[s] = pre[s]
                      /\ \A b \in (t.list \ {v}) \cup R : lab[s] <= L[b]
    BY <2>2 DEF Kept
  <2>6. t.label[s] = lab[s] /\ t.pred[s] = pre[s] /\ lab[s] <= t.label[v] /\ s \in Node
        /\ lab[s] \in Nat /\ t.label[v] \in Nat
    BY <2>3, <2>4 DEF Kept
  <2>7. s \notin R
    <3>1. \A r \in Road : ~(t.label[s] > t.label[v] + c[r])
      <4> SUFFICES ASSUME NEW r \in Road PROVE ~(t.label[s] > t.label[v] + c[r])
        OBVIOUS
      <4>1. c[r] \in Nat
        OBVIOUS
      <4> QED
        BY <2>6, <4>1
    <3> QED
      BY <2>5, <2>6, <3>1
  <2>8. ASSUME NEW b \in (t.list \ {v}) \cup R
        PROVE  lab[s] <= L[b]
    <3>1. CASE b \in R
      <4>1. PICK r \in Road : L[b] = t.label[v] + c[r]
        BY <2>3, <2>5, <3>1
      <4>2. c[r] \in Nat
        OBVIOUS
      <4> QED
        BY <2>6, <4>1, <4>2
    <3>2. CASE b \notin R
      <4>1. L[b] = t.label[b] /\ b \in t.list
        BY <2>3, <2>5, <2>8, <3>2
      <4> QED
        BY <4>1 DEF Kept
    <3> QED
      BY <3>1, <3>2
  <2> QED
    BY <2>5, <2>6, <2>7, <2>8
<1> QED
  BY <1>1, <1>2

\* So they keep labels and predecessors until the end.
LEMMA KeptOn ==
  ASSUME NEW c \in [Road -> Nat], NEW root \in Node, NEW dir \in Direction, NEW target,
         NEW g, g = Trees(c, root, target, dir), NEW k \in 0 .. Cardinality(Node),
         NEW done \in SUBSET Node, NEW lab, NEW pre, Kept(g[k], done, lab, pre)
  PROVE  Kept(g[Cardinality(Node)], done, lab, pre)
<1>1. PICK N : N = Cardinality(Node)
  OBVIOUS
<1>2. N \in Nat
  BY <1>1, NetworkAssumption, FS_CardinalityType
<1> DEFINE S == {j \in 0 .. N : j < k \/ Kept(g[j], done, lab, pre)}
<1>3. 0 \in S
  BY <1>1, <1>2
<1>4. ASSUME NEW j \in 1 .. N, j - 1 \in S
      PROVE  j \in S
  <2>1. j \in 0 .. N /\ j - 1 \in 0 .. N /\ k \in Nat
    BY <1>1, <1>2
  <2>2. g[j] = NextTree(g[j-1], c, target, dir) /\ g[j-1] \in Tree
    BY <1>1, <2>1, TreesAre
  <2>3. CASE j - 1 < k
    <3>1. j < k \/ j = k
      BY <2>1, <2>3
    <3> QED
      BY <2>1, <3>1
  <2>4. CASE Kept(g[j-1], done, lab, pre)
    <3>1. Kept(g[j], done, lab, pre)
      BY <2>2, <2>4, KeptStays
    <3> QED
      BY <2>1, <3>1
  <2> QED
    BY <1>4, <2>3, <2>4
<1>5. S \in SUBSET (0 .. N)
  OBVIOUS
<1>6. N \in S
  <2> HIDE DEF S
  <2> QED
    BY <1>2, <1>3, <1>4, <1>5, AllNumbers
<1>7. Kept(g[N], done, lab, pre)
  BY <1>1, <1>2, <1>6
<1> QED
  BY <1>1, <1>7

-----------------------------------------------------------------------------
(* The route read back from it: getShortestPathTo.                         *)

\* One step of the walk back, and the first K.
NextStop(k, s, pre, root, dest, dir) ==
  LET front == IF s = <<>> THEN dest ELSE IF dir = "FWD" THEN Head(s) ELSE s[Len(s)]
  IN  IF s = <<>> \/ (k > 1 /\ front = root) THEN s
      ELSE IF pre[front] = {} THEN <<>>
      ELSE LET r == CHOOSE r \in pre[front] : TRUE
           IN  IF dir = "FWD" THEN <<UpNode[r]>> \o s ELSE Append(s, DownNode[r])

StopsTo(K, w, pre, root, dest, dir) ==
  w = [k \in 0 .. K |-> IF k = 0 THEN <<dest>> ELSE NextStop(k, w[k-1], pre, root, dest, dir)]

\* The j-th node of a route, counted from its destination.
Back(s, dir, j) == IF dir = "FWD" THEN s[Len(s) + 1 - j] ELSE s[j]

\* A step from s, where the walk is at front, to n: it ends at the root, and
\* otherwise adds the node that front is reached from.
StepBack(n, s, k, front, pre, root, dir) ==
  IF k > 1 /\ front = root THEN n = s
  ELSE IF pre[front] = {} THEN n = <<>>
  ELSE /\ n \in Seq(Node) /\ Len(n) = Len(s) + 1
       /\ \A j \in 1 .. Len(s) : Back(n, dir, j) = Back(s, dir, j)
       /\ \E r \in pre[front] : Back(n, dir, Len(n)) = Near(r, dir)

LEMMA OneStop ==
  ASSUME NEW dir \in Direction, NEW root \in Node, NEW dest \in Node,
         NEW pre \in [Node -> SUBSET Road], NEW k \in Nat, NEW s \in Seq(Node), s # <<>>,
         NEW front, front = Back(s, dir, Len(s)), NEW n, n = NextStop(k, s, pre, root, dest, dir)
  PROVE  front \in Node /\ StepBack(n, s, k, front, pre, root, dir)
<1>1. Len(s) \in Nat \ {0} /\ 1 \in 1 .. Len(s) /\ Len(s) \in 1 .. Len(s)
  <2>1. Len(s) \in Nat /\ Len(s) # 0
    BY EmptySeq
  <2> QED
    BY <2>1
<1>2. front = IF dir = "FWD" THEN s[1] ELSE s[Len(s)]
  BY <1>1 DEF Back
<1>3. front = (IF dir = "FWD" THEN Head(s) ELSE s[Len(s)])
  BY <1>1, <1>2
<1>4. front \in Node
  BY <1>1, <1>2, ElementOfSeq
<1>5. n = IF k > 1 /\ front = root THEN s
          ELSE IF pre[front] = {} THEN <<>>
          ELSE LET r == CHOOSE r \in pre[front] : TRUE
               IN  IF dir = "FWD" THEN <<UpNode[r]>> \o s ELSE Append(s, DownNode[r])
  BY <1>3 DEF NextStop
<1>6. ASSUME pre[front] # {}, ~(k > 1 /\ front = root)
      PROVE  /\ n \in Seq(Node) /\ Len(n) = Len(s) + 1
             /\ \A j \in 1 .. Len(s) : Back(n, dir, j) = Back(s, dir, j)
             /\ \E r \in pre[front] : Back(n, dir, Len(n)) = Near(r, dir)
  <2>1. PICK r : r = CHOOSE p \in pre[front] : TRUE
    OBVIOUS
  <2>2. r \in pre[front] /\ r \in Road
    BY <1>4, <1>6, <2>1
  <2>3. UpNode[r] \in Node /\ DownNode[r] \in Node
    BY <2>2, NetworkAssumption
  <2>4. n = IF dir = "FWD" THEN <<UpNode[r]>> \o s ELSE Append(s, DownNode[r])
    BY <1>5, <1>6, <2>1
  <2>5. CASE dir = "FWD"
    <3>1. n = <<UpNode[r]>> \o s /\ <<UpNode[r]>> \in Seq(Node) /\ Len(<<UpNode[r]>>) = 1
      BY <2>3, <2>4, <2>5
    <3>2. /\ n \in Seq(Node) /\ Len(n) = Len(s) + 1
          /\ \A j \in 1 .. Len(s) + 1 : n[j] = IF j <= 1 THEN UpNode[r] ELSE s[j - 1]
      BY <1>1, <3>1
    <3>3. Back(n, dir, Len(n)) = Near(r, dir)
      BY <1>1, <2>5, <3>2 DEF Back, Near
    <3>4. ASSUME NEW j \in 1 .. Len(s)
          PROVE  Back(n, dir, j) = Back(s, dir, j)
      <4>1. /\ Len(n) + 1 - j \in 1 .. Len(s) + 1 /\ ~(Len(n) + 1 - j <= 1)
            /\ Len(n) + 1 - j - 1 = Len(s) + 1 - j
        BY <1>1, <3>2
      <4> QED
        BY <2>5, <3>2, <4>1 DEF Back
    <3> QED
      BY <2>2, <3>2, <3>3, <3>4
  <2>6. CASE dir # "FWD"
    <3>1. n = Append(s, DownNode[r])
      BY <2>4, <2>6
    <3>2. /\ n \in Seq(Node) /\ Len(n) = Len(s) + 1 /\ n[Len(s) + 1] = DownNode[r]
          /\ \A j \in 1 .. Len(s) : n[j] = s[j]
      BY <1>1, <2>3, <3>1
    <3> QED
      BY <2>2, <2>6, <3>2 DEF Back, Near
  <2> QED
    BY <2>5, <2>6
<1> QED
  BY <1>4, <1>5, <1>6 DEF StepBack

\* The walk has steps, each of them routes.
LEMMA StopsExist ==
  ASSUME NEW dir \in Direction, NEW root \in Node, NEW dest \in Node,
         NEW pre \in [Node -> SUBSET Road], NEW K \in Nat
  PROVE  \E w : StopsTo(K, w, pre, root, dest, dir) /\ w \in [0 .. K -> Seq(Node)]
<1> DEFINE V == Nat \X Seq(Node)
           step == [p \in V |-> <<p[1] + 1, NextStop(p[1] + 1, p[2], pre, root, dest, dir)>>]
<1>1. <<0, <<dest>> >> \in V
  OBVIOUS
<1>2. ASSUME NEW k \in Nat, NEW s \in Seq(Node)
      PROVE  NextStop(k, s, pre, root, dest, dir) \in Seq(Node)
  <2>1. CASE s = <<>>
    BY <2>1 DEF NextStop
  <2>2. CASE s # <<>>
    <3>1. PICK front, n : front = Back(s, dir, Len(s)) /\ n = NextStop(k, s, pre, root, dest, dir)
      OBVIOUS
    <3>2. n = s \/ n = <<>> \/ n \in Seq(Node)
      <4>1. StepBack(n, s, k, front, pre, root, dir)
        BY <2>2, <3>1, OneStop
      <4> QED
        BY <4>1 DEF StepBack
    <3>3. <<>> \in Seq(Node)
      OBVIOUS
    <3> QED
      BY <3>1, <3>2, <3>3
  <2> QED
    BY <2>1, <2>2
<1>3. step \in [V -> V]
  BY <1>2
<1>4. PICK g : Iterated(g, K, V, <<0, <<dest>> >>, step)
  <2> HIDE DEF step, V
  <2> QED
    BY <1>1, <1>3, Iterates
<1>5. /\ g \in [0 .. K -> V] /\ g[0] = <<0, <<dest>> >>
      /\ \A k \in 1 .. K : g[k] = step[g[k-1]]
  BY <1>4 DEF Iterated
<1>6. \A k \in 0 .. K : g[k] \in V
  BY <1>5
<1>7. ASSUME NEW k \in 1 .. K
      PROVE  /\ g[k][1] = g[k-1][1] + 1
             /\ g[k][2] = NextStop(g[k-1][1] + 1, g[k-1][2], pre, root, dest, dir)
  <2>1. g[k-1] \in V
    BY <1>6
  <2>2. g[k] = <<g[k-1][1] + 1, NextStop(g[k-1][1] + 1, g[k-1][2], pre, root, dest, dir)>>
    BY <1>5, <2>1
  <2> QED
    BY <2>2
<1> DEFINE S == {k \in 0 .. K : g[k][1] = k}
<1>8. \A k \in 0 .. K : k \in S
  <2>1. 0 \in S /\ S \in SUBSET (0 .. K)
    BY <1>5
  <2>2. ASSUME NEW k \in 1 .. K, k - 1 \in S
        PROVE  k \in S
    BY <1>7, <2>2
  <2> HIDE DEF S
  <2> QED
    BY <2>1, <2>2, AllNumbers
<1> DEFINE w == [k \in 0 .. K |-> g[k][2]]
<1>9. w \in [0 .. K -> Seq(Node)]
  BY <1>6
<1>10. ASSUME NEW k \in 0 .. K
       PROVE  w[k] = IF k = 0 THEN <<dest>> ELSE NextStop(k, w[k-1], pre, root, dest, dir)
  <2>1. CASE k = 0
    BY <1>5, <2>1
  <2>2. CASE k # 0
    <3>1. k \in 1 .. K /\ k - 1 \in 0 .. K
      BY <2>2
    <3>2. g[k-1][1] = k - 1
      BY <1>8, <3>1
    <3>3. g[k-1][1] + 1 = k
      BY <3>1, <3>2
    <3>4. w[k-1] = g[k-1][2] /\ w[k] = g[k][2]
      BY <3>1
    <3> HIDE DEF w
    <3> QED
      BY <1>7, <2>2, <3>1, <3>3, <3>4
  <2> QED
    BY <2>1, <2>2
<1>11. w = [k \in 0 .. K |-> IF k = 0 THEN <<dest>> ELSE NextStop(k, w[k-1], pre, root, dest, dir)]
  <2>1. w = [k \in 0 .. K |-> w[k]]
    OBVIOUS
  <2> HIDE DEF w
  <2> QED
    BY <1>10, <2>1
<1>12. StopsTo(K, w, pre, root, dest, dir)
  <2> HIDE DEF w
  <2> QED
    BY <1>11 DEF StopsTo
<1> HIDE DEF w
<1> QED
  BY <1>9, <1>12

\* What the route is made of.
LEMMA RouteByStops ==
  ASSUME NEW dir \in Direction, NEW root \in Node, NEW dest \in Node,
         NEW pre \in [Node -> SUBSET Road]
  PROVE  \E w \in [0 .. Cardinality(Node) -> Seq(Node)] :
           /\ RouteIn(pre, root, dest, dir) = w[Cardinality(Node)]
           /\ w[0] = <<dest>>
           /\ \A k \in 1 .. Cardinality(Node) : w[k] = NextStop(k, w[k-1], pre, root, dest, dir)
<1>1. PICK N : N = Cardinality(Node)
  OBVIOUS
<1>2. N \in Nat
  BY <1>1, NetworkAssumption, FS_CardinalityType
<1>3. PICK w : w = CHOOSE v : StopsTo(N, v, pre, root, dest, dir)
  OBVIOUS
<1>4. StopsTo(N, w, pre, root, dest, dir)
  BY <1>2, <1>3, StopsExist
<1>5. RouteIn(pre, root, dest, dir) = w[N]
  BY <1>1, <1>3 DEF RouteIn, StopsTo, NextStop
<1>6. PICK v : StopsTo(N, v, pre, root, dest, dir) /\ v \in [0 .. N -> Seq(Node)]
  BY <1>2, StopsExist
<1>7. \A k \in 0 .. N : w[k] = IF k = 0 THEN <<dest>> ELSE NextStop(k, w[k-1], pre, root, dest, dir)
  BY <1>4 DEF StopsTo
<1>8. \A k \in 0 .. N : v[k] = IF k = 0 THEN <<dest>> ELSE NextStop(k, v[k-1], pre, root, dest, dir)
  BY <1>6 DEF StopsTo
<1> DEFINE S == {k \in 0 .. N : w[k] = v[k]}
<1>9. \A k \in 0 .. N : k \in S
  <2>1. 0 \in S /\ S \in SUBSET (0 .. N)
    BY <1>2, <1>7, <1>8
  <2>2. ASSUME NEW k \in 1 .. N, k - 1 \in S
        PROVE  k \in S
    <3>1. k \in 0 .. N /\ k # 0
      BY <1>2
    <3> QED
      BY <1>7, <1>8, <2>2, <3>1
  <2> HIDE DEF S
  <2> QED
    BY <1>2, <2>1, <2>2, AllNumbers
<1>10. w \in [0 .. N -> Seq(Node)]
  <2>1. w = [k \in 0 .. N |-> IF k = 0 THEN <<dest>> ELSE NextStop(k, w[k-1], pre, root, dest, dir)]
    BY <1>4 DEF StopsTo
  <2>2. \A k \in 0 .. N : w[k] \in Seq(Node)
    BY <1>6, <1>9
  <2> QED
    BY <2>1, <2>2
<1>11. w[0] = <<dest>> /\ \A k \in 1 .. N : w[k] = NextStop(k, w[k-1], pre, root, dest, dir)
  <2>1. 0 \in 0 .. N /\ \A k \in 1 .. N : k \in 0 .. N /\ k # 0
    BY <1>2
  <2> QED
    BY <1>7, <2>1
<1> QED
  BY <1>1, <1>5, <1>10, <1>11

\* A route of the nodes ord, which are in the order of the search.
Along(ord, dir) == IF dir = "FWD" THEN ord ELSE [i \in 1 .. Len(ord) |-> ord[Len(ord) + 1 - i]]

\* Nodes visited once, from the root to the destination.
Ordered(ord, root, dest) ==
  /\ ord \in Seq(Node) /\ Len(ord) > 1 /\ ord[1] = root /\ ord[Len(ord)] = dest
  /\ \A i, j \in 1 .. Len(ord) : ord[i] = ord[j] => i = j

\* The i-th of them is reached from the one before.
Follows(ord, pre, dir, i) == \E r \in pre[ord[i]] : Near(r, dir) = ord[i-1]

LEMMA AlongBack ==
  ASSUME NEW dir \in Direction, NEW ord \in Seq(Node), Len(ord) > 1
  PROVE  /\ Along(ord, dir) \in Seq(Node) /\ Len(Along(ord, dir)) = Len(ord)
         /\ \A j \in 1 .. Len(ord) : Back(Along(ord, dir), dir, j) = ord[Len(ord) + 1 - j]
<1>1. PICK n : n = Len(ord)
  OBVIOUS
<1>2. n \in Nat /\ \A j \in 1 .. n : n + 1 - j \in 1 .. n /\ ord[n + 1 - j] \in Node
  BY <1>1, ElementOfSeq
<1>3. CASE dir = "FWD"
  BY <1>1, <1>3 DEF Along, Back
<1>4. CASE dir # "FWD"
  <2>1. Along(ord, dir) = [i \in 1 .. n |-> ord[n + 1 - i]]
    BY <1>1, <1>4 DEF Along
  <2>2. Along(ord, dir) \in Seq(Node) /\ Len(Along(ord, dir)) = n
    BY <1>2, <2>1
  <2> QED
    BY <1>1, <1>4, <2>1, <2>2 DEF Back
<1> QED
  BY <1>3, <1>4

\* As many nodes as are visited once there are at least.
LEMMA OrderedIsShort ==
  ASSUME NEW ord, NEW root, NEW dest, Ordered(ord, root, dest)
  PROVE  Len(ord) \in 2 .. Cardinality(Node) /\ Cardinality(Node) \in Nat
<1>1. PICK n : n = Len(ord)
  OBVIOUS
<1>2. n \in Nat /\ n > 1 /\ \A j \in 1 .. n : ord[j] \in Node
  BY <1>1, ElementOfSeq DEF Ordered
<1>3. IsFiniteSet(Node) /\ Cardinality(Node) \in Nat
  BY NetworkAssumption, FS_CardinalityType
<1>4. IsFiniteSet(1 .. n) /\ Cardinality(1 .. n) = n
  BY <1>2, FS_Interval
<1>5. ord \in [1 .. n -> Node]
  BY <1>1 DEF Ordered
<1>6. ~(Cardinality(Node) < Cardinality(1 .. n))
  <2> SUFFICES ASSUME Cardinality(Node) < Cardinality(1 .. n) PROVE FALSE
    OBVIOUS
  <2>1. \E x, y \in 1 .. n : x # y /\ ord[x] = ord[y]
    BY <1>3, <1>4, <1>5, FS_PigeonHole
  <2> QED
    BY <1>1, <2>1 DEF Ordered
<1> QED
  BY <1>1, <1>2, <1>3, <1>4, <1>6

\* A route that is read back follows the predecessors.
THEOREM RouteFollows ==
  ASSUME NEW dir \in Direction, NEW root \in Node, NEW dest \in Node,
         NEW pre \in [Node -> SUBSET Road], NEW ord, Ordered(ord, root, dest),
         RouteIn(pre, root, dest, dir) = Along(ord, dir)
  PROVE  \A i \in 2 .. Len(ord) : Follows(ord, pre, dir, i)
<1>1. PICK N : N = Cardinality(Node)
  OBVIOUS
<1>2. PICK w \in [0 .. N -> Seq(Node)] :
           /\ RouteIn(pre, root, dest, dir) = w[N] /\ w[0] = <<dest>>
           /\ \A k \in 1 .. N : w[k] = NextStop(k, w[k-1], pre, root, dest, dir)
  BY <1>1, RouteByStops
<1>3. N \in Nat /\ Len(ord) \in 2 .. N
  BY <1>1, OrderedIsShort
<1> DEFINE Chain(s) == s # <<>> => \A j \in 1 .. Len(s) - 1 :
                                     \E r \in pre[Back(s, dir, j)] : Near(r, dir) = Back(s, dir, j + 1)
           S == {k \in 0 .. N : Chain(w[k])}
<1>4. 0 \in S
  <2>1. Chain(<<dest>>)
    OBVIOUS
  <2> HIDE DEF Chain
  <2>2. Chain(w[0]) /\ 0 \in 0 .. N
    BY <1>2, <1>3, <2>1
  <2> QED
    BY <2>2
<1>5. ASSUME NEW k \in 1 .. N, k - 1 \in S
      PROVE  k \in S
  <2>1. PICK s \in Seq(Node) : s = w[k-1] /\ Chain(s)
    BY <1>2, <1>5
  <2>2. k \in Nat /\ k \in 0 .. N /\ w[k] = NextStop(k, s, pre, root, dest, dir)
    BY <1>2, <2>1
  <2>3. CASE s = <<>>
    <3>1. w[k] = <<>>
      BY <2>2, <2>3 DEF NextStop
    <3> QED
      BY <2>2, <3>1
  <2>4. CASE s # <<>>
    <3>1. PICK front, n : front = Back(s, dir, Len(s)) /\ n = NextStop(k, s, pre, root, dest, dir)
      OBVIOUS
    <3>2. StepBack(n, s, k, front, pre, root, dir)
      <4>1. k \in Nat
        BY <2>2
      <4> QED
        BY <2>4, <3>1, <4>1, OneStop
    <3>3. CASE n = s \/ n = <<>>
      BY <2>1, <2>2, <3>1, <3>3
    <3>4. CASE /\ n \in Seq(Node) /\ Len(n) = Len(s) + 1
               /\ \A j \in 1 .. Len(s) : Back(n, dir, j) = Back(s, dir, j)
               /\ \E r \in pre[front] : Back(n, dir, Len(n)) = Near(r, dir)
      <4>1. Len(s) \in Nat
        OBVIOUS
      <4>2. ASSUME NEW j \in 1 .. Len(n) - 1
            PROVE  \E r \in pre[Back(n, dir, j)] : Near(r, dir) = Back(n, dir, j + 1)
        <5>1. CASE j = Len(s)
          <6>1. Back(n, dir, j) = front
            BY <3>1, <3>4, <4>1, <4>2, <5>1
          <6>2. j + 1 = Len(n)
            BY <3>4, <4>1, <5>1
          <6> QED
            BY <3>4, <6>1, <6>2
        <5>2. CASE j # Len(s)
          <6>1. j \in 1 .. Len(s) - 1 /\ j \in 1 .. Len(s) /\ j + 1 \in 1 .. Len(s)
            BY <3>4, <4>1, <4>2, <5>2
          <6>2. Back(n, dir, j) = Back(s, dir, j) /\ Back(n, dir, j + 1) = Back(s, dir, j + 1)
            BY <3>4, <6>1
          <6> QED
            BY <2>1, <2>4, <6>1, <6>2
        <5> QED
          BY <5>1, <5>2
      <4>3. Chain(n)
        BY <4>2
      <4> QED
        BY <2>2, <3>1, <4>3
    <3> QED
      BY <3>2, <3>3, <3>4 DEF StepBack
  <2> QED
    BY <2>3, <2>4
<1>6. Chain(w[N])
  <2>1. S \in SUBSET (0 .. N)
    OBVIOUS
  <2>2. N \in Nat
    BY <1>3
  <2>3. \A k \in 0 .. N : k \in S
    <3> HIDE DEF S
    <3> QED
      BY <1>4, <1>5, <2>1, <2>2, AllNumbers
  <2> HIDE DEF Chain
  <2> QED
    BY <2>2, <2>3
<1>7. PICK s, n : s = w[N] /\ n = Len(ord)
  OBVIOUS
<1>8. /\ s = Along(ord, dir) /\ Len(s) = n /\ n \in Nat /\ n > 1 /\ s # <<>>
      /\ \A j \in 1 .. n : Back(s, dir, j) = ord[n + 1 - j]
  <2>1. s = Along(ord, dir) /\ ord \in Seq(Node) /\ Len(ord) > 1
    BY <1>2, <1>7 DEF Ordered
  <2>2. /\ Len(s) = n /\ n \in Nat /\ n > 1
        /\ \A j \in 1 .. n : Back(s, dir, j) = ord[n + 1 - j]
    BY <1>7, <2>1, AlongBack
  <2>3. s # <<>>
    BY <2>2
  <2> QED
    BY <2>1, <2>2, <2>3
<1> SUFFICES ASSUME NEW i \in 2 .. n
             PROVE  Follows(ord, pre, dir, i)
  BY <1>7
<1>9. /\ n + 1 - i \in 1 .. n - 1 /\ n + 1 - i \in 1 .. n /\ n + 1 - i + 1 \in 1 .. n
      /\ n + 1 - (n + 1 - i) = i /\ n + 1 - (n + 1 - i + 1) = i - 1
  BY <1>8
<1>10. \E r \in pre[Back(s, dir, n + 1 - i)] : Near(r, dir) = Back(s, dir, n + 1 - i + 1)
  BY <1>6, <1>7, <1>8, <1>9
<1>11. Back(s, dir, n + 1 - i) = ord[i] /\ Back(s, dir, n + 1 - i + 1) = ord[i - 1]
  BY <1>8, <1>9
<1> QED
  BY <1>10, <1>11 DEF Follows

\* The predecessors of a branch are read back as its route.
THEOREM FollowedIsRoute ==
  ASSUME NEW dir \in Direction, NEW root \in Node, NEW dest \in Node,
         NEW pre \in [Node -> SUBSET Road], OneEach(pre), NEW ord, Ordered(ord, root, dest),
         \A i \in 2 .. Len(ord) : Follows(ord, pre, dir, i)
  PROVE  RouteIn(pre, root, dest, dir) = Along(ord, dir)
<1>1. PICK N, len : N = Cardinality(Node) /\ len = Len(ord)
  OBVIOUS
<1>2. PICK w \in [0 .. N -> Seq(Node)] :
           /\ RouteIn(pre, root, dest, dir) = w[N] /\ w[0] = <<dest>>
           /\ \A k \in 1 .. N : w[k] = NextStop(k, w[k-1], pre, root, dest, dir)
  BY <1>1, RouteByStops
<1>3. N \in Nat /\ len \in 2 .. N /\ len \in Nat
  BY <1>1, OrderedIsShort
<1>4. /\ ord \in Seq(Node) /\ \A i \in 1 .. len : ord[i] \in Node
      /\ ord[1] = root /\ ord[len] = dest /\ \A i, j \in 1 .. len : ord[i] = ord[j] => i = j
  BY <1>1, ElementOfSeq DEF Ordered
<1> DEFINE Upto(k) == IF k + 1 < len THEN k + 1 ELSE len
           Is(s, m) == s \in Seq(Node) /\ Len(s) = m
                       /\ \A j \in 1 .. m : Back(s, dir, j) = ord[len + 1 - j]
           S == {k \in 0 .. N : Is(w[k], Upto(k))}
<1>5. 0 \in S
  <2>1. Upto(0) = 1
    BY <1>3
  <2>2. Is(<<dest>>, 1)
    <3>1. <<dest>> \in Seq(Node) /\ Len(<<dest>>) = 1 /\ \A j \in 1 .. 1 : j = 1
      OBVIOUS
    <3>2. Back(<<dest>>, dir, 1) = dest /\ len + 1 - 1 = len
      BY <1>3, <3>1 DEF Back
    <3> QED
      BY <1>4, <3>1, <3>2
  <2> HIDE DEF Is, Upto
  <2>3. Is(w[0], Upto(0)) /\ 0 \in 0 .. N
    BY <1>2, <1>3, <2>1, <2>2
  <2> QED
    BY <2>3
<1>6. ASSUME NEW k \in 1 .. N, k - 1 \in S
      PROVE  k \in S
  <2>1. PICK s, m : s = w[k-1] /\ m = Upto(k - 1) /\ Is(s, m)
    BY <1>6
  <2>2. /\ k \in Nat /\ k \in 0 .. N /\ w[k] = NextStop(k, s, pre, root, dest, dir)
        /\ m \in 1 .. len /\ m = IF k < len THEN k ELSE len
    BY <1>2, <1>3, <2>1
  <2>3. s \in Seq(Node) /\ Len(s) = m /\ s # <<>> /\ Back(s, dir, m) = ord[len + 1 - m]
    <3>1. s \in Seq(Node) /\ Len(s) = m /\ Back(s, dir, m) = ord[len + 1 - m]
      BY <2>1, <2>2
    <3> QED
      BY <2>2, <3>1
  <2>4. PICK front, n : front = Back(s, dir, Len(s)) /\ n = w[k]
    OBVIOUS
  <2>a. front = ord[len + 1 - m]
    BY <2>3, <2>4
  <2>5. StepBack(n, s, k, front, pre, root, dir)
    <3>1. n = NextStop(k, s, pre, root, dest, dir) /\ front = Back(s, dir, Len(s))
      BY <2>2, <2>4
    <3>2. k \in Nat /\ s \in Seq(Node) /\ s # <<>>
      BY <2>2, <2>3
    <3> HIDE DEF Is, Upto, S
    <3> QED
      BY <3>1, <3>2, OneStop
  <2>6. CASE m = len
    <3>1. len + 1 - m = 1 /\ k > 1 /\ Upto(k) = m
      BY <1>3, <2>2, <2>6
    <3>2. n = s
      BY <1>4, <2>a, <2>5, <3>1 DEF StepBack
    <3> QED
      BY <2>1, <2>2, <2>4, <3>1, <3>2
  <2>7. CASE m # len
    <3>1. /\ m = k /\ Upto(k) = m + 1 /\ len + 1 - m \in 2 .. len /\ len + 1 - m \in 1 .. len
          /\ len + 1 - m # 1 /\ len + 1 - m - 1 = len + 1 - (m + 1)
      BY <1>3, <2>2, <2>7
    <3>2. front # root /\ front \in Node
      <4>1. 1 \in 1 .. len
        BY <1>3
      <4> QED
        BY <1>4, <2>a, <3>1, <4>1
    <3>3. PICK r \in pre[front] : Near(r, dir) = ord[len + 1 - (m + 1)]
      <4>1. PICK i \in Int : i = len + 1 - m
        BY <1>3, <3>1
      <4>2. Follows(ord, pre, dir, i)
        BY <1>1, <3>1, <4>1
      <4>3. front = ord[i]
        BY <2>a, <4>1
      <4>4. i - 1 = len + 1 - (m + 1)
        BY <1>3, <2>2, <4>1
      <4> QED
        BY <4>2, <4>3, <4>4 DEF Follows
    <3>4. /\ n \in Seq(Node) /\ Len(n) = m + 1
          /\ \A j \in 1 .. m : Back(n, dir, j) = Back(s, dir, j)
          /\ \E p \in pre[front] : Back(n, dir, Len(n)) = Near(p, dir)
      BY <2>3, <2>5, <3>2, <3>3 DEF StepBack
    <3>5. Back(n, dir, m + 1) = ord[len + 1 - (m + 1)]
      BY <3>2, <3>3, <3>4 DEF OneEach
    <3>6. \A j \in 1 .. m + 1 : Back(n, dir, j) = ord[len + 1 - j]
      <4> SUFFICES ASSUME NEW j \in 1 .. m + 1
                   PROVE  Back(n, dir, j) = ord[len + 1 - j]
        OBVIOUS
      <4>1. CASE j = m + 1
        BY <3>5, <4>1
      <4>2. CASE j # m + 1
        <5>1. j \in 1 .. m
          BY <2>2, <4>2
        <5> QED
          BY <2>1, <3>4, <5>1
      <4> QED
        BY <4>1, <4>2
    <3>7. Is(n, m + 1)
      BY <3>4, <3>6
    <3> QED
      BY <2>2, <2>4, <3>1, <3>7
  <2> QED
    BY <2>6, <2>7
<1>7. Is(w[N], len)
  <2>1. S \in SUBSET (0 .. N) /\ Upto(N) = len
    BY <1>3
  <2>2. N \in Nat
    BY <1>3
  <2>3. \A k \in 0 .. N : k \in S
    <3> HIDE DEF S
    <3> QED
      BY <1>5, <1>6, <2>1, <2>2, AllNumbers
  <2>4. Is(w[N], Upto(N))
    BY <2>2, <2>3
  <2> QED
    BY <2>1, <2>4
<1>8. PICK s, t : s = w[N] /\ t = Along(ord, dir)
  OBVIOUS
<1>9. /\ s \in Seq(Node) /\ t \in Seq(Node) /\ Len(s) = len /\ Len(t) = len
      /\ \A j \in 1 .. len : Back(s, dir, j) = Back(t, dir, j)
  <2>1. /\ t \in Seq(Node) /\ Len(t) = len
        /\ \A j \in 1 .. len : Back(t, dir, j) = ord[len + 1 - j]
    <3>1. ord \in Seq(Node) /\ Len(ord) > 1
      BY <1>4 DEF Ordered
    <3> HIDE DEF Is, Upto, S
    <3> QED
      BY <1>1, <1>8, <3>1, AlongBack
  <2>2. /\ s \in Seq(Node) /\ Len(s) = len
        /\ \A j \in 1 .. len : Back(s, dir, j) = ord[len + 1 - j]
    BY <1>7, <1>8
  <2> QED
    BY <2>1, <2>2
<1>10. \A i \in 1 .. len : s[i] = t[i]
  <2> SUFFICES ASSUME NEW i \in 1 .. len PROVE s[i] = t[i]
    OBVIOUS
  <2>1. len + 1 - i \in 1 .. len /\ len + 1 - (len + 1 - i) = i
    BY <1>3
  <2> QED
    BY <1>9, <2>1 DEF Back
<1>11. s = t
  BY <1>9, <1>10, SeqEqual
<1> QED
  BY <1>2, <1>8, <1>11

=============================================================================
