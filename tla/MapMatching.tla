---------------------------- MODULE MapMatching ----------------------------
(***************************************************************************)
(* Probabilistic map matching, the program pmm: the transport networks are *)
(* built (TransportNetworks), then patProbabilisticMapMatching::run walks  *)
(* through the GPS points of a trip and keeps a set of candidate paths     *)
(* (src/src/MapMatching).                                                  *)
(*                                                                         *)
(* Candidates are inherited when they end in the domain of the new point   *)
(* (its DDR: the arcs it may have been measured on), and extended from     *)
(* their end nodes through every network to the roads in the domain. A     *)
(* point that yields none is put aside and looked at again, without its    *)
(* heading, when a later one succeeds. Each candidate carries one          *)
(* numerator per point, a sum over pairs of arcs that is brought up to     *)
(* date when the candidate grows; a selection keeps the most promising.    *)
(*                                                                         *)
(* Abstractions. Every road is one arc. A numerator is the bag of the      *)
(* pairs summed up, each taken for positive, and a candidate's likelihood  *)
(* is whether all numerators are. The denominators are left out: they read *)
(* a value getArcDDRValue does not return for arcs outside the domain. So  *)
(* does the numerator of a first point, where nothing is taken for it.     *)
(* Of new candidates with the same arcs, which one is kept is the order of *)
(* addresses: the model keeps any one (OneOfEach).                         *)
(* Trips have GPS points only, no accelerometer or Bluetooth data, which   *)
(* lie along a line. Times of stops (proposeStop), which only the traffic  *)
(* model and the drawing of a path read, are left out.                     *)
(*                                                                         *)
(* A definition named after another with _Wrong is what a mistake would    *)
(* make of it: the properties are checked to notice.                       *)
(***************************************************************************)
EXTENDS TransportNetworks

CONSTANTS
  Trip,                  \* the sequences of GPS points
  Length,                \* the length of an arc
  SecondsPer,            \* seconds per unit of length at a network's top speed
  DBL_MAX,
  MaxFailures,           \* consecutive failures before a trip is given up (20)
  GapLimit,              \* arcs outside a domain before an update stops looking (5)
  \* the parameters of the program (patNBParameters)
  walkMaxSpeed, bikeMaxSpeed, minDistanceFromLastPoint, maxDistanceRatioSP,
  minPathTravelTimeRatio, minGeneratedInterMediatePath, selectBestPaths,
  samplePathsByChange, samplePathsByDDR, selectImportantDDRNumber, selectShortestPaths

ASSUME MatchingAssumption ==
  /\ Length \in [Arc -> Nat \ {0}]
  /\ SecondsPer \in [Mode -> Nat]
  /\ DBL_MAX \in Nat
  /\ {MaxFailures, GapLimit, minGeneratedInterMediatePath, selectBestPaths,
      samplePathsByChange, samplePathsByDDR, selectImportantDDRNumber,
      selectShortestPaths} \subseteq Nat
  /\ \A t \in Trip : t \in Seq(Range(t)) /\ t # <<>>   \* run asks for the first point at once
  /\ \A t \in Trip : \A i \in DOMAIN t :
       /\ t[i].near \subseteq t[i].around           \* in the domain, with and without heading
       /\ i > 1 => t[i].time >= t[i-1].time

VARIABLES
  trip,       \* m_gps_sequence
  i,          \* the point being matched
  low,        \* the points that are not of "normal_speed"
  ddr,        \* each point's DDR, as pairs of an arc and a mode
  running,    \* m_running_measurement_sequence
  inter,      \* inter_data: the points put aside
  paths,      \* m_paths: the candidates
  prevGps,    \* prevGpsPoint
  fail_iter,
  valid,      \* valid_iteration: the candidates of the last success, as a set of one
  file,       \* the final result file, as a set of one
  status

mmVars == <<trip, i, low, ddr, running, inter, paths, prevGps, fail_iter, valid, file, status>>
vars == <<netVars, mmVars>>

-----------------------------------------------------------------------------
\* Paths: sequences of arcs with modes.

ArcSeq(roads) == [k \in DOMAIN roads |-> roads[k][1]]
UpNode(roads) == roads[1][1][1]
DownNode(roads) == Last(roads)[1][2]
BackMode(roads) == Last(roads)[2]
GetLength(roads) == FoldLeft(LAMBDA sum, r : sum + Length[r[1]], 0, roads)
ChangePoints(roads) == {k \in 1 .. Len(roads) - 1 : roads[k][2] # roads[k+1][2]}
UniqueModes(roads) == {roads[k][2] : k \in DOMAIN roads}
IsValid(roads) == \A k \in 1 .. Len(roads) - 1 : roads[k][1][2] = roads[k+1][1][1]

\* patArcSequence::containLoop: the first node passed again, as a set.
LoopPoint(roads) ==
  LET nodes == [k \in 1 .. Len(roads) + 1 |-> IF k = 1 THEN UpNode(roads) ELSE roads[k-1][1][2]]
      again == {k \in DOMAIN nodes : \E l \in 1 .. k - 1 : nodes[l] = nodes[k]}
  IN  IF again = {} THEN {} ELSE {nodes[Min(again)]}

\* getMinimumTravelTime: neither the first road nor the last counts.
MinimumTravelTime(roads) ==
  FoldLeft(LAMBDA sum, r : sum + Length[r[1]] * SecondsPer[r[2]], 0,
           IF Len(roads) <= 2 THEN <<>> ELSE SubSeq(roads, 2, Len(roads) - 1))

\* patNetworkEnvironment::isPTStop
isPTStop(n) == \E m \in PublicTransport : n \in stops[m]

-----------------------------------------------------------------------------
\* The domain of a point: patGpsDDR::detArcDDR heeds the heading only of a
\* point of normal speed, and no mode.
DetArcs(g, lowspeed) == IF g \in lowspeed THEN trip[g].around ELSE trip[g].near

\* detInherentDDR: the arcs and modes of another domain that are in this one.
Inherent(arcmodes, g, lowspeed) == {x \in arcmodes : x[1] \in DetArcs(g, lowspeed)}

\* patMeasurementDDR::finalize: an arc of the domain is so in every network.
FinalizeDDR_Wrong(d) == d \cup {x \in Arc \X osm.enabled : \E y \in d : x[1] = y[1]}

FinalizeDDR(d) == d \cup {x \in Arc \X osm.enabled : x[1] \in net[x[2]] /\ \E y \in d : x[1] = y[1]}

Distance(g, p) == IF trip[g].place > trip[p].place THEN trip[g].place - trip[p].place
                  ELSE trip[p].place - trip[g].place

(***************************************************************************)
(* getDistanceCeilFromGPS, ten times: the higher speed (in km/h, though it *)
(* is taken for m/s), by the time, by a ratio. Between points of the same  *)
(* time the speed is infinite and the product no number: no label is above *)
(* it.                                                                     *)
(***************************************************************************)
AboveCeil(label, g, p) ==
  LET elapsed == trip[g].time - trip[p].time
  IN  /\ elapsed > 0
      /\ 10 * label > maxDistanceRatioSP *
           Max({10 * trip[g].speed * elapsed, 10 * trip[p].speed * elapsed, 36 * Distance(g, p)})

(***************************************************************************)
(* patShortestPathGeneral::buildShortestPathTree (see DomainSearch, where  *)
(* it is checked road by road): the node at the front of the deque is      *)
(* expanded until the deque is empty or a label above the ceiling. arcs    *)
(* are those seen; one round is one node.                                  *)
(***************************************************************************)
SearchRounds == 2 * Cardinality(Node)

See(t, a) ==
  LET through == t.label[a[1]] + Length[a]
      lower == [t.label EXCEPT ![a[2]] = through]
  IN  IF t.label[a[2]] <= through THEN [t EXCEPT !.arcs = @ \cup {a}]
      ELSE [label |-> lower,
            pred |-> [t.pred EXCEPT ![a[2]] = <<a>>],
            arcs |-> t.arcs \cup {a},
            list |-> IF t.list # <<>> /\ t.label[a[2]] <= lower[Head(t.list)]
                     THEN <<a[2]>> \o t.list ELSE Append(t.list, a[2])]

Expand(m, t, u) ==
  InOrder(LAMBDA s, n : See(s, <<u, n>>), [t EXCEPT !.list = Tail(@)], {n \in Node : <<u, n>> \in net[m]})

Search(m, root, g, p) ==
  LET round[k \in 0 .. SearchRounds] ==
        IF k = 0
        THEN [label |-> [n \in Node |-> IF n = root THEN 0 ELSE DBL_MAX],
              pred |-> [n \in Node |-> <<>>], arcs |-> {}, list |-> <<root>>]
        ELSE LET t == round[k-1]
             IN  IF t.list = <<>> \/ AboveCeil(t.label[Head(t.list)], g, p) THEN t
                 ELSE Expand(m, t, Head(t.list))
  IN  round[SearchRounds]

\* patShortestPathTreeGeneral::getShortestPathTo: the arcs from the root.
RouteTo(pred, dest) ==
  LET back[k \in 0 .. Cardinality(Node)] ==
        IF k = 0 THEN <<>>
        ELSE LET s == back[k-1]
                 at == pred[IF s = <<>> THEN dest ELSE Head(s)[1]]
             IN  at \o s
  IN  back[Cardinality(Node)]

\* The paths from a node to the roads of the domain it leads to, in a network.
DownStreams(m, t, seen) ==
  {LET arcs == Append(RouteTo(t.pred, a[1]), a) IN [k \in DOMAIN arcs |-> <<arcs[k], m>>] : a \in seen}

-----------------------------------------------------------------------------
(***************************************************************************)
(* Candidates (patMultiModalPathMatching): the roads; m_downstream, the    *)
(* roads added since the last update; m_measurement_sequence and           *)
(* m_new_measurements, the points; the numerators.                         *)
(***************************************************************************)
NewCandidate(x, g) == [roads |-> <<x>>, down |-> <<x>>, seq |-> <<>>, fresh |-> <<g>>, num |-> <<>>]

Proper(c) == \A k \in DOMAIN c.num : c.num[k] # EmptyBag

\* Two candidates of the same arcs are the same, whatever their modes.
Add(cs, new) == cs \cup {c \in new : \A d \in cs : ArcSeq(d.roads) # ArcSeq(c.roads)}

OneOfEach(cs) == {CHOOSE c \in cs : ArcSeq(c.roads) = s : s \in {ArcSeq(c.roads) : c \in cs}}

\* addDownStream: behind roads that no update has seen, only m_downstream grows.
AddDownStream(c, d) ==
  IF c.down # <<>> THEN [c EXCEPT !.down = @ \o d]
  ELSE [c EXCEPT !.roads = @ \o d, !.down = d]

(***************************************************************************)
(* patPathExtension::extendFromNode: no change of mode but from or to      *)
(* walking, no turning back unless on foot, and no loop, except one at a   *)
(* stop and by public transport.                                           *)
(***************************************************************************)
ExtendFromNode_Wrong(ups, downs, m) ==
  {AddDownStream(p[1], p[2]) : p \in {x \in ups \X downs :
     /\ BackMode(x[1].roads) # m => "walk" \in {BackMode(x[1].roads), m}
     /\ LoopPoint(x[2]) = {}
     /\ m # "walk" => x[2][1][1] # <<Last(x[1].roads)[1][2], Last(x[1].roads)[1][1]>>
     /\ x[1].down # <<>> => IsValid(x[1].down \o x[2])
     /\ LET loop == LoopPoint(AddDownStream(x[1], x[2]).roads)
        IN  loop = {} \/ \E n \in loop : isPTStop(n)}}

ExtendFromNode(ups, downs, m) ==
  {AddDownStream(p[1], p[2]) : p \in {x \in ups \X downs :
     /\ BackMode(x[1].roads) # m => "walk" \in {BackMode(x[1].roads), m}
     /\ LoopPoint(x[2]) = {}
     /\ m # "walk" => x[2][1][1] # <<Last(x[1].roads)[1][2], Last(x[1].roads)[1][1]>>
     /\ x[1].down # <<>> => IsValid(x[1].down \o x[2])
     /\ LET loop == LoopPoint(AddDownStream(x[1], x[2]).roads)
        IN  loop = {} \/ (m \in PublicTransport /\ \E n \in loop : isPTStop(n))}}

-----------------------------------------------------------------------------
(***************************************************************************)
(* Likelihoods. The k-th point of a candidate is related to the one before *)
(* it; to the one before that when both have the same time. For the second *)
(* point there is none: its update answers false, and all is left undone.  *)
(***************************************************************************)
SameTime(s, k) == trip[s[k]].time = trip[s[k-1]].time
Previous(s, k) == IF SameTime(s, k) THEN k - 2 ELSE k - 1
Stuck(s) == Len(s) >= 2 /\ SameTime(s, 2)

\* Of positions looked at from the last one back, those before a gap.
BeforeGap(ks) ==
  {k \in ks : \A a \in {b \in ks : b > k} : \E b \in ks : k <= b /\ b < a /\ a - b <= GapLimit}

\* updatePoint: the pairs <<from, to>> of positions, `to` one of the last n.
Transitions_Wrong(roads, s, k, n, d) ==
  UNION {BeforeGap({x \in Len(roads) - n + 1 .. to : roads[x] \in d[s[Previous(s, k)]]}) \X {to}
         : to \in BeforeGap({x \in Len(roads) - n + 1 .. Len(roads) : roads[x] \in d[s[k]]})}

Transitions(roads, s, k, n, d) ==
  UNION {BeforeGap({x \in 1 .. to : roads[x] \in d[s[Previous(s, k)]]}) \X {to}
         : to \in BeforeGap({x \in Len(roads) - n + 1 .. Len(roads) : roads[x] \in d[s[k]]})}

\* updateFirstPoint: the new roads in the domain of the first point.
FirstTerms(c, s, d) == {c.down[x] : x \in {y \in DOMAIN c.down : c.down[y] \in d[s[1]]}}

(***************************************************************************)
(* update: for the points a candidate has, the new roads; for new points,  *)
(* all of them. The new points are taken over before they are updated.     *)
(***************************************************************************)
Update(c, d) ==
  LET s == IF Stuck(c.seq) THEN c.seq ELSE c.seq \o c.fresh
      last == IF Stuck(s) THEN 1 ELSE Len(s)
      terms(k) == IF k = 1 THEN FirstTerms(c, s, d)
                  ELSE Transitions(c.roads, s, k,
                         IF k <= Len(c.seq) THEN Len(c.down) ELSE Len(c.roads), d)
      num == [k \in 1 .. last |->
                (IF k \in DOMAIN c.num THEN c.num[k] ELSE EmptyBag) (+) SetToBag(terms(k))]
  IN  IF Stuck(s) THEN [c EXCEPT !.seq = s, !.num = num]
      ELSE [c EXCEPT !.seq = s, !.num = num, !.fresh = <<>>, !.down = <<>>]

-----------------------------------------------------------------------------
(***************************************************************************)
(* Selection. patSampleFromDiscreteUntilCdf::sampleByCount draws without   *)
(* replacement among the positive probabilities; when few are asked for    *)
(* all are taken, possible or not. Samples are the sets that can come out. *)
(***************************************************************************)
Samples(cs, count) ==
  IF Cardinality(cs) <= count THEN {cs}
  ELSE LET possible == {c \in cs : Proper(c)}
       IN  kSubset(Min({count, Cardinality(possible)}), possible)

Changes(c) == Cardinality(ChangePoints(c.roads))
Modes(c) == Cardinality(UniqueModes(c.roads))

\* Those of the fewest changes and of the fewest modes at once: none when no
\* candidate has both.
Simplest(cs) ==
  {c \in cs : \A d \in cs : Changes(c) <= Changes(d) /\ Modes(c) <= Modes(d)}

\* All unions of one set of each family.
Unions(families) == {UNION sets : sets \in Choices(families)}

Contain(cs, x) == {c \in cs : \E k \in DOMAIN c.roads : c.roads[k] = x}

\* selectImportantDDR: the domain, or some arcs of it, mode by mode.
ImportantDDR(d) ==
  Unions({LET arcs == {x \in d : x[2] = m}
          IN  kSubset(Min({selectImportantDDRNumber, Cardinality(arcs)}), arcs) : m \in Mode})

\* selectPathsByDDR: for every important arc one of the simplest paths on it.
ByDDR(cs, important) ==
  Unions({Samples(Simplest(Contain(cs, x)), samplePathsByDDR) : x \in important})

(***************************************************************************)
(* selectPathsByShortest: of the paths of a length those with as many      *)
(* changes as the first of them (any, as the order is that of the names of *)
(* arcs); the possible ones of the shortest lengths.                       *)
(***************************************************************************)
Shortest(cs) ==
  LET lengths == {GetLength(c.roads) : c \in cs}
      few == {l \in lengths : Cardinality({k \in lengths : k < l}) < selectShortestPaths}
      ofLength(l) == {c \in cs : GetLength(c.roads) = l}
  IN  Unions({{{c \in ofLength(l) : Proper(c) /\ Changes(c) = Changes(first)}
                 : first \in ofLength(l)} : l \in few})

\* selectPaths, by "number": what it can leave of the candidates.
SelectPaths(cs, d) ==
  IF Cardinality(cs) <= minGeneratedInterMediatePath THEN {cs}
  ELSE UNION {Unions({Samples(cs, selectBestPaths), Samples(Simplest(cs), samplePathsByChange),
                      ByDDR(cs, important), Shortest(cs)}) : important \in ImportantDDR(d)}

-----------------------------------------------------------------------------
\* firstIteration and normalIteration: networks no pedestrian or bike is so
\* fast in (speedCapacityCheckPrevious: neither now nor before).
TooFast(m, g) == \/ m = "walk" /\ trip[g].speed > walkMaxSpeed
                 \/ m = "bike" /\ trip[g].speed > bikeMaxSpeed
Skipped(m) == TooFast(m, i) /\ TooFast(m, prevGps)

\* The names of the networks, in the order of the map that holds them.
ByName == <<"bike", "bus", "car", "metro", "walk">>
Networks == {k \in DOMAIN ByName : ByName[k] \in osm.enabled}

-----------------------------------------------------------------------------
MatchInit ==
  /\ trip = <<>>
  /\ i = 1
  /\ low = {}
  /\ ddr = <<>>
  /\ running = <<>>
  /\ inter = <<>>
  /\ paths = {}
  /\ prevGps = 1
  /\ fail_iter = 0
  /\ valid = {}
  /\ file = [numbered |-> {}, final |-> {}]
  /\ status = "start"

Init == NetInit /\ MatchInit

\* readFromFile: the points, and whether they are of normal speed (setSpeedType).
ReadFromFile ==
  /\ status = "start"
  /\ trip' \in Trip
  /\ low' = {g \in DOMAIN trip' : trip'[g].slow}
  /\ ddr' = [g \in DOMAIN trip' |-> {}]
  /\ status' = "first"
  /\ UNCHANGED <<i, running, inter, paths, prevGps, fail_iter, valid, file>>

(***************************************************************************)
(* genInitDDR and firstIteration: every arc of every network may be in the *)
(* domain, and each that is makes a candidate, in the first network that   *)
(* has it. A trip whose first point has no domain is not matched.          *)
(***************************************************************************)
FirstDomain == {x \in Arc \X osm.enabled : x[1] \in net[x[2]] \cap DetArcs(1, low)}

FirstCandidates ==
  LET having(a) == {k \in Networks : ~TooFast(ByName[k], 1) /\ <<a, ByName[k]>> \in FirstDomain}
  IN  {NewCandidate(<<a, ByName[Min(having(a))]>>, 1) : a \in {b \in Arc : having(b) # {}}}

FirstIteration ==
  /\ status = "first"
  /\ running' = <<1>>
  /\ ddr' = [ddr EXCEPT ![1] = FirstDomain]
  /\ IF FirstDomain = {}
     THEN status' = "nodomain" /\ UNCHANGED <<i, paths>>
     ELSE /\ paths' \in SelectPaths({Update(c, ddr') : c \in FirstCandidates}, FirstDomain)
          /\ i' = 2
          /\ status' = IF Len(trip) = 1 THEN "done" ELSE "matching"
  /\ UNCHANGED <<trip, low, inter, prevGps, fail_iter, valid, file>>

-----------------------------------------------------------------------------
\* The candidates that end in the domain of the point being matched.
Inherited(lowspeed) == {c \in paths : Last(c.roads)[1] \in DetArcs(i, lowspeed)}

\* What the point takes over from the domain before and from those candidates.
TakenOver(lowspeed) ==
  Inherent(ddr[prevGps], i, lowspeed) \cup {Last(c.roads) : c \in Inherited(lowspeed)}

\* A path that could not have been travelled in the time of the trip so far.
TooLong(c) ==
  minPathTravelTimeRatio * (trip[i].time - trip[1].time) < MinimumTravelTime(c.roads)

(***************************************************************************)
(* normalIteration, up to the candidates found: from every end node,       *)
(* through every network, to the domain of the point. `inter` are the arcs *)
(* of interest to the points put aside (inter_sec_arcs).                   *)
(***************************************************************************)
Ends == {DownNode(c.roads) : c \in paths}

\* No end node, or no network to leave it by.
NoWay == Ends = {} \/ \A k \in Networks : Skipped(ByName[k])

Extend(acc, end, m) ==
  LET t == Search(m, end, i, prevGps)
      seen == t.arcs \cap DetArcs(i, low)
      downs == DownStreams(m, t, seen)
      ups == {c \in paths : DownNode(c.roads) = end}
      new == {c \in OneOfEach(ExtendFromNode(ups, downs, m)) : ~TooLong(c)}
  IN  IF Skipped(m) THEN acc
      ELSE [temp |-> Add(acc.temp, new),
            inter |-> acc.inter \cup UNION {Range(d) : d \in downs},
            ddr |-> acc.ddr \cup (seen \X {m})]

Leave(acc, end) == InOrder(LAMBDA a, k : Extend(a, end, ByName[k]), acc, Networks)

Explored ==
  InOrder(Leave, [temp |-> Inherited(low), inter |-> TakenOver(low),
                  ddr |-> ddr[i] \cup TakenOver(low)], Ends)

\* The elements of a sequence that are in S.
Kept(s, S) == FoldLeft(LAMBDA kept, x : IF x \in S THEN Append(kept, x) ELSE kept, <<>>, s)

AddMeasurements(c, points) == [c EXCEPT !.fresh = @ \o points]

(***************************************************************************)
(* dealInterData and addMeasurement: the points put aside are looked for   *)
(* on the arcs of interest; those found, and the point itself, are added   *)
(* to the candidates, which are brought up to date.                        *)
(***************************************************************************)
Absorb(temp, arcmodes, domain, lowspeed) ==
  LET d == [g \in DOMAIN trip |->
              CASE g = i -> FinalizeDDR(domain)
                [] g \in Range(inter) -> ddr[g] \cup Inherent(ddr[prevGps] \cup arcmodes, g, lowspeed)
                [] OTHER -> ddr[g]]
      points == Append(Kept(inter, {g \in DOMAIN trip : d[g] # {}}), i)
  IN  [ddr |-> d, points |-> points,
       temp |-> {Update(AddMeasurements(c, points), d) : c \in temp}]

(***************************************************************************)
(* An iteration that fails. The twenty-first in a row ends the run without *)
(* a result; at the last point the candidates that end in its domain, now  *)
(* without its heading, are written (lastIterationForLowSpeed), and then   *)
(* those of the last success: of an object that was never assigned when    *)
(* there was none. That object shares the running measurements.            *)
(***************************************************************************)
TooManyFailures_Wrong == fail_iter' > MaxFailures + 1

TooManyFailures == fail_iter' > MaxFailures

GiveUp ==
  /\ TooManyFailures
  /\ running' = Append(running, i)
  /\ status' = "gaveup"
  /\ UNCHANGED <<i, inter, file>>

PutAside_Wrong ==
  /\ ~TooManyFailures /\ i < Len(trip)
  /\ inter' = Append(inter, i)
  /\ running' = Append(running, i)
  /\ i' = i + 1
  /\ UNCHANGED <<file, status>>

PutAside ==
  /\ ~TooManyFailures /\ i < Len(trip)
  /\ inter' = Append(inter, i)
  /\ i' = i + 1
  /\ UNCHANGED <<running, file, status>>

LastIterationForLowSpeed_Wrong(domain) ==
  /\ ~TooManyFailures /\ i = Len(trip)
  /\ LET look == Absorb(Inherited(low'), TakenOver(low'), domain \cup TakenOver(low'), low')
     IN  /\ ddr' = look.ddr
         /\ running' = running \o Front(look.points)
         /\ \E selected \in SelectPaths(look.temp, look.ddr[i]) :
              file' = [numbered |-> {[paths |-> selected, points |-> running']},
                       final |-> {[paths |-> p, points |-> running'] : p \in valid}]
  /\ status' = IF valid = {} THEN "undefined" ELSE "done"
  /\ UNCHANGED <<i, inter>>

LastIterationForLowSpeed(domain) ==
  /\ ~TooManyFailures /\ i = Len(trip)
  /\ LET look == Absorb(Inherited(low'), TakenOver(low'), domain \cup TakenOver(low'), low')
     IN  /\ ddr' = look.ddr
         /\ running' = running \o look.points
         /\ \E selected \in SelectPaths(look.temp, look.ddr[i]) :
              file' = [numbered |-> {[paths |-> selected, points |-> running']},
                       final |-> {[paths |-> p, points |-> running'] : p \in valid}]
  /\ status' = IF valid = {} THEN "undefined" ELSE "done"
  /\ UNCHANGED <<i, inter>>

Failed(domain) ==
  /\ low' = low \cup {i}
  /\ fail_iter' = fail_iter + 1
  /\ \/ (GiveUp \/ PutAside) /\ ddr' = [ddr EXCEPT ![i] = domain]
     \/ LastIterationForLowSpeed(domain)
  /\ UNCHANGED <<trip, paths, prevGps, valid>>

TooNear ==
  /\ status = "matching"
  /\ Distance(i, prevGps) < minDistanceFromLastPoint
  /\ Failed(ddr[i])

\* No way on, or no candidate at all.
NotExtended ==
  /\ status = "matching"
  /\ Distance(i, prevGps) >= minDistanceFromLastPoint
  /\ LET found == Explored
     IN  /\ found.temp = {} \/ NoWay
         /\ Failed(found.ddr)

Extended ==
  /\ status = "matching"
  /\ Distance(i, prevGps) >= minDistanceFromLastPoint
  /\ ~NoWay
  /\ LET found == Explored
         matched == Absorb(found.temp, found.inter, found.ddr, low)
     IN  /\ found.temp # {}
         /\ ddr' = matched.ddr
         /\ running' = running \o matched.points
         /\ paths' \in SelectPaths(matched.temp, matched.ddr[i])
  /\ inter' = <<>>
  /\ fail_iter' = 0
  /\ prevGps' = i
  /\ valid' = {paths'}
  /\ IF i = Len(trip)
     THEN /\ file' = [f \in {"numbered", "final"} |-> {[paths |-> paths', points |-> running']}]
          /\ status' = "done" /\ UNCHANGED i
     ELSE i' = i + 1 /\ UNCHANGED <<file, status>>
  /\ UNCHANGED <<trip, low>>

Matching == ReadFromFile \/ FirstIteration \/ TooNear \/ NotExtended \/ Extended

Next ==
  \/ NetNext /\ UNCHANGED mmVars
  \/ stage = "ready" /\ Matching /\ UNCHANGED netVars

Spec == Init /\ [][Next]_vars

-----------------------------------------------------------------------------
TypeOK ==
  /\ NetTypeOK
  /\ i \in 1 .. Len(trip) + 1
  /\ low \subseteq DOMAIN trip
  /\ ddr \in [DOMAIN trip -> SUBSET (Arc \X Mode)]
  /\ {running, inter} \subseteq Seq(DOMAIN trip)
  /\ \A c \in paths : c.roads \in Seq(Arc \X Mode) /\ c.seq \in Seq(DOMAIN trip)
  /\ fail_iter \in 0 .. MaxFailures + 1
  /\ fail_iter > MaxFailures <=> status = "gaveup"
  /\ Cardinality(valid) <= 1
  /\ status \in {"start", "first", "matching", "nodomain", "gaveup", "undefined", "done"}

(***************************************************************************)
(* Whatever was inherited, extended, dropped and selected, a candidate can *)
(* be travelled: its roads are joined, belong to the networks of their     *)
(* modes, change from one mode to another only on foot, never turn back    *)
(* unless on foot, and come back to a node only by public transport, the   *)
(* first time at a stop. They end in the domain of the last point matched, *)
(* and no two have the same arcs (extendFromNode, selectPaths).            *)
(***************************************************************************)
CandidatesSound ==
  \A c \in paths :
    /\ IsValid(c.roads)
    /\ \A k \in DOMAIN c.roads : c.roads[k][1] \in net[c.roads[k][2]]
    /\ \A k \in ChangePoints(c.roads) : "walk" \in {c.roads[k][2], c.roads[k+1][2]}
    /\ \A k \in 1 .. Len(c.roads) - 1 :
         c.roads[k+1][2] # "walk" => c.roads[k][1][1] # c.roads[k+1][1][2]
    /\ \A n \in LoopPoint(c.roads) : isPTStop(n)
    /\ \A k \in DOMAIN c.roads :
         (\E l \in 1 .. k : c.roads[l][1][1] = c.roads[k][1][2]) => c.roads[k][2] \in PublicTransport
    /\ ~Stuck(running) => Last(c.roads) \in ddr[prevGps]
    /\ \A b \in paths : ArcSeq(b.roads) = ArcSeq(c.roads) => b = c

(***************************************************************************)
(* How a candidate grew does not matter: each of its numerators, brought   *)
(* up to date road by road (updatePoint), is what computing it from all of *)
(* its roads would give. Not so once the domain of a point is left for     *)
(* longer than the update looks, nor when the second point has the time of *)
(* the first.                                                              *)
(***************************************************************************)
GrowthIndependent ==
  \A c \in paths : \A k \in 2 .. Len(c.seq) :
    LET domain == {x \in DOMAIN c.roads : c.roads[x] \in ddr[c.seq[k]]}
    IN  ~Stuck(c.seq) /\ BeforeGap(domain) = domain
          => c.num[k] = SetToBag(Transitions(c.roads, c.seq, k, Len(c.roads), ddr))

(***************************************************************************)
(* All candidates account for the same points, those of the running        *)
(* sequence, in the order of the trip: every point before the present one  *)
(* is among them or still put aside, unless it had no domain, however many *)
(* iterations failed (run, dealInterData).                                 *)
(***************************************************************************)
PointsAccounted ==
  /\ \A s \in {running, inter} : \A k \in 1 .. Len(s) - 1 : s[k] < s[k+1]
  /\ ~Stuck(running) /\ status = "matching" => \A c \in paths :
       c.seq = running /\ c.fresh = <<>> /\ c.down = <<>>
  /\ status = "matching" => \A g \in 1 .. i - 1 :
       g \in Range(running) \cup Range(inter) \/ ddr[g] = {}

(***************************************************************************)
(* The domain of a point holds arcs it was measured near, each in a mode   *)
(* whose network has it, by whichever way it came in: the first iteration, *)
(* inheritance, a search, the points put aside, or finalize. Arcs of the   *)
(* domain of the last point matched are in it in all modes.                *)
(***************************************************************************)
DomainsAgree ==
  \A g \in DOMAIN ddr : \A x \in ddr[g] :
    /\ x[1] \in net[x[2]] \cap trip[g].around
    /\ g = prevGps => \A m \in osm.enabled : x[1] \in net[m] => <<x[1], m>> \in ddr[g]

(***************************************************************************)
(* What is written at the end: the paths of the numbered file account for  *)
(* the points in it; those of the final file for all up to the last point  *)
(* that was matched, and for none behind it.                               *)
(***************************************************************************)
FilesAgree ==
  /\ \A f \in file.numbered : \A c \in f.paths : ~Stuck(f.points) => c.seq = f.points
  /\ \A f \in file.final : \A c \in f.paths :
       ~Stuck(f.points) => c.seq = Kept(f.points, 1 .. prevGps)
  /\ status = "done" /\ Len(trip) > 1 => file.final # {}

(***************************************************************************)
(* What the comment on update says: "Clear m_new_measurements and          *)
(* m_downstream at the end", that is whenever the candidates are selected. *)
(***************************************************************************)
UpdateClears == \A c \in paths : c.fresh = <<>> /\ c.down = <<>>
=============================================================================
