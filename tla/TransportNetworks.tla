------------------------- MODULE TransportNetworks -------------------------
(***************************************************************************)
(* How a program gets its transport networks: the constructor of           *)
(* patNetworkEnvironment (src/src/NetworkHandler). The ways of an extract  *)
(* of OpenStreetMap are read into arcs, both ways round; each mode takes   *)
(* the arcs it may use; a public transport mode searches the relations of  *)
(* its routes for the segments from stop to stop; at last the stops of the *)
(* metro are joined to what is near them on foot.                          *)
(*                                                                         *)
(* An arc is the pair of its nodes: the extracts have no two ways between  *)
(* the same nodes. Nodes are numbers, standing for their addresses. What   *)
(* the database and the geometry say is part of the extract. The network   *)
(* of trains, which no longer reads relations, is left out.                *)
(*                                                                         *)
(* A definition named after another with _Wrong is what a mistake would    *)
(* make of it: the properties are checked to notice.                       *)
(***************************************************************************)
EXTENDS Integers, Sequences, FiniteSets, SequencesExt, FiniteSetsExt

CONSTANTS Node,      \* the nodes, as addresses
          Extract    \* what can be read from the database

Arc == Node \X Node

Reversed(arcs) == {<<a[2], a[1]>> : a \in arcs}

PublicTransport == {"bus", "metro"}          \* isPublicTransport
Mode == {"bike", "car", "walk"} \cup PublicTransport

ASSUME ExtractAssumption ==
  /\ Node \subseteq Nat /\ IsFiniteSet(Node)
  /\ \A x \in Extract :
       /\ x.known \subseteq Node                  \* the nodes in the bounding box
       /\ x.enabled \subseteq Mode                \* enableCarNetwork, ...
       /\ \A i \in DOMAIN x.ways :
            /\ x.ways[i].nodes \in Seq(Node)
            /\ \A k \in 1 .. Len(x.ways[i].nodes) - 1 :      \* arcs have a length
                 x.ways[i].nodes[k] # x.ways[i].nodes[k+1]
            /\ x.ways[i].oneway \in {-1, 0, 1}    \* isOneway
            /\ x.ways[i].modes \subseteq {"bike", "car", "walk"}
       /\ x.name \in [Node -> STRING]
       /\ x.close \in [Node -> SUBSET Node]       \* getNearbyNode, within 100 m
       /\ \A n \in Node : n \notin x.close[n]      \* but not at the same place
       /\ \A m \in PublicTransport : x.relations[m] \in Seq(Range(x.relations[m]))
       /\ \A b \in x.beside : b.distance \in Nat

VARIABLES
  osm,      \* the extract
  stage,    \* the network the constructor is at; "access", then "ready"
  left,     \* the relations of its routes still to be read
  name,     \* the names of the nodes
  segs,     \* m_pt_outgoing_incidents: the segments, as the nodes they pass
  stops,    \* m_stops, for each public transport mode
  net       \* m_outgoing_incidents, for each mode

netVars == <<osm, stage, left, name, segs, stops, net>>

\* What a loop over a set of numbers, from the least to the greatest, makes of start.
InOrder(step(_, _), start, S) ==
  MapThenFoldSet(LAMBDA x, acc : step(acc, x), start, LAMBDA x : x, LAMBDA T : Max(T), S)

-----------------------------------------------------------------------------
(***************************************************************************)
(* patWay::readFromNodesIds: a pair with a node that was not read is       *)
(* skipped.                                                                *)
(***************************************************************************)
WayArcs(w) ==
  {<<osm.ways[w].nodes[i], osm.ways[w].nodes[i+1]>> : i \in 1 .. Len(osm.ways[w].nodes) - 1}
     \cap (osm.known \X osm.known)

\* patNetworkElements::summarizeMembership: the arcs there are after reading.
ReadArcs == UNION {WayArcs(w) \cup Reversed(WayArcs(w)) : w \in DOMAIN osm.ways}

(***************************************************************************)
(* getFromNetwork of cars, bikes and pedestrians: only cars mind one-way   *)
(* streets.                                                                *)
(***************************************************************************)
RoadArcs(m) ==
  UNION {LET forward == WayArcs(w)
             oneway == IF m = "car" THEN osm.ways[w].oneway ELSE 0
         IN  (IF oneway >= 0 THEN forward ELSE {}) \cup
             (IF oneway <= 0 THEN Reversed(forward) ELSE {})
         : w \in {v \in DOMAIN osm.ways : m \in osm.ways[v].modes}}

\* getDirection: what a member's role allows.
Allowed(role) ==
  CASE role = "forward" -> {"forward"}
    [] role = "backward" -> {"backward"}
    [] OTHER -> {"forward", "backward"}

\* getRoute: the arcs of a relation in a direction; its ways may be unknown.
RouteArcs(relation, direction) ==
  UNION {LET forward == WayArcs(relation.ways[i].way)
         IN  IF direction = "forward" THEN forward ELSE Reversed(forward)
         : i \in {j \in DOMAIN relation.ways :
                    /\ relation.ways[j].way \in DOMAIN osm.ways
                    /\ direction \in Allowed(relation.ways[j].role)}}

Incidents(relation) == RouteArcs(relation, "forward") \cup RouteArcs(relation, "backward")

\* getStops: the stops, and the directions they serve; a stop named twice serves
\* both.
StopNodes(relation) == {relation.stops[i].node : i \in DOMAIN relation.stops} \cap osm.known

Serves(relation, n) ==
  LET times == {i \in DOMAIN relation.stops : relation.stops[i].node = n}
  IN  IF Cardinality(times) > 1 THEN {"forward", "backward"}
      ELSE UNION {Allowed(relation.stops[i].role) : i \in times}

\* The arcs by which a stop on the route is reached.
OnRoute(relation, n) ==
  {a \in Incidents(relation) :
     a[2] = n /\ \E d \in Serves(relation, n) : a \in RouteArcs(relation, d)}

\* The arcs passing a stop beside the route: it is on their right, less than
\* 500 m from their end. The extract lists them with that distance.
Passing(relation, n) ==
  {b \in osm.beside : b.stop = n /\ b.arc \in Incidents(relation) /\ b.distance < 500}

(***************************************************************************)
(* findStopsIncomingLinks: which arcs arrive at which stop name. A stop    *)
(* beside the route is boarded at the end of the nearest arc, and that     *)
(* node takes the stop's name. Stops come in the order of their addresses. *)
(***************************************************************************)
FindStop(relation, found, n) ==
  LET on == OnRoute(relation, n)
      beside == Passing(relation, n)
      best == (CHOOSE b \in beside : \A c \in beside : b.distance <= c.distance).arc
  IN  CASE on # {} ->
             [found EXCEPT !.arrivals = @ \cup ({found.name[n]} \X on)]
        [] on = {} /\ beside # {} ->
             [arrivals |-> found.arrivals \cup {<<found.name[n], best>>},
              name |-> [found.name EXCEPT ![best[2]] = found.name[n]]]
        [] OTHER -> found

FindStopsIncomingLinks(relation, names) ==
  InOrder(LAMBDA found, n : FindStop(relation, found, n),
          [arrivals |-> {}, name |-> names], StopNodes(relation))

LastArc(s) == <<s[Len(s)-1], s[Len(s)]>>

\* The arcs that arrive at a stop: that of the name their end has.
Halts_Wrong(incidents, arrivals, names) ==
  {a \in incidents : \E b \in arrivals : b[1] = names[a[2]]}

Halts(incidents, arrivals, names) == {a \in incidents : <<names[a[2]], a>> \in arrivals}

(***************************************************************************)
(* The routes, as nodes, that are followed from the node where the arc     *)
(* `into` arrives: they never pass a node twice nor turn back at once, and *)
(* end with the first of the arcs `halts`. grow[k] are those of k arcs.    *)
(***************************************************************************)
RoutesFrom(into, incidents, halts) ==
  LET Longer(s) == {Append(s, a[2]) : a \in {b \in incidents :
                      /\ b[1] = s[Len(s)]
                      /\ ~Contains(s, b[2])
                      /\ ~(Len(s) = 1 /\ b = <<into[2], into[1]>>)}}
      grow[k \in 0 .. Cardinality(Node)] ==
        IF k = 0 THEN {<<into[2]>>}
        ELSE UNION {Longer(s) : s \in {t \in grow[k-1] : k = 1 \/ LastArc(t) \notin halts}}
  IN  UNION {grow[k] : k \in 1 .. Cardinality(Node)}

(***************************************************************************)
(* getSegFromNode: routes are followed up to the first arc arriving at a   *)
(* stop. They are a segment when that stop has another name and the arc    *)
(* does not arrive at the first one as well.                               *)
(*                                                                         *)
(* The code goes on behind that stop, but to no effect: an arc arriving at *)
(* a third name makes three names, and those arriving at the first two are *)
(* forbidden.                                                              *)
(***************************************************************************)
SegmentsFrom(into, incidents, arrivals, names) ==
  LET halts == Halts(incidents, arrivals, names)
  IN  {s \in RoutesFrom(into, incidents, halts) :
         /\ LastArc(s) \in halts
         /\ names[s[Len(s)]] # names[into[2]]
         /\ <<names[into[2]], LastArc(s)>> \notin arrivals}

ArcsOf(seg) == {<<seg[i], seg[i+1]>> : i \in 1 .. Len(seg) - 1}

-----------------------------------------------------------------------------
NetInit ==
  /\ osm \in Extract
  /\ stage = "bike"
  /\ left = <<>>
  /\ name = osm.name
  /\ segs = [m \in PublicTransport |-> {}]
  /\ stops = [m \in PublicTransport |-> {}]
  /\ net = [m \in Mode |-> {}]

\* The order of the constructor, and the relations to be read next.
Follow(next) ==
  /\ stage' = next
  /\ left' = IF next \in PublicTransport \cap osm.enabled THEN osm.relations[next] ELSE <<>>

After(m) ==
  CASE m = "bike" -> "walk" [] m = "walk" -> "bus" [] m = "bus" -> "car"
    [] m = "car" -> "metro" [] m = "metro" -> "access"

Skip ==
  /\ stage \in Mode \ osm.enabled
  /\ Follow(After(stage))
  /\ UNCHANGED <<osm, name, segs, stops, net>>

ReadRoads ==
  /\ stage \in {"bike", "car", "walk"} \cap osm.enabled
  /\ net' = [net EXCEPT ![stage] = RoadArcs(stage)]
  /\ Follow(After(stage))
  /\ UNCHANGED <<osm, name, segs, stops>>

\* getRoutes, the call of getRoute for one relation.
ReadRelation ==
  /\ stage \in PublicTransport
  /\ left # <<>>
  /\ LET relation == Head(left)
         found == FindStopsIncomingLinks(relation, name)
     IN  /\ name' = found.name
         /\ segs' = [segs EXCEPT ![stage] = @ \cup
              UNION {SegmentsFrom(a[2], Incidents(relation), found.arrivals, found.name) :
                       a \in found.arrivals}]
  /\ left' = Tail(left)
  /\ UNCHANGED <<osm, stage, stops, net>>

Summarize_Wrong ==
  /\ stage \in PublicTransport \cap osm.enabled
  /\ left = <<>>
  /\ stops' = [stops EXCEPT ![stage] = {s[1] : s \in segs[stage]}]
  /\ net' = [net EXCEPT ![stage] = UNION {ArcsOf(s) : s \in segs[stage]}]
  /\ Follow(After(stage))
  /\ UNCHANGED <<osm, name, segs>>

\* patNetworkPublicTransport::summarizeMembership
Summarize ==
  /\ stage \in PublicTransport \cap osm.enabled
  /\ left = <<>>
  /\ stops' = [stops EXCEPT ![stage] = UNION {{s[1], s[Len(s)]} : s \in segs[stage]}]
  /\ net' = [net EXCEPT ![stage] = UNION {ArcsOf(s) : s \in segs[stage]}]
  /\ Follow(After(stage))
  /\ UNCHANGED <<osm, name, segs>>

\* The pairs of a metro stop and a node near it.
Nearby == UNION {{s} \X osm.close[s] : s \in stops["metro"]}

(***************************************************************************)
(* walkFromToStops: the arc from the stop is found or added; so should its *)
(* reverse, but it is looked up with the nodes in the same order. When a   *)
(* way joined them already, the arc from the stop is what is found again.  *)
(***************************************************************************)
Access ==
  /\ stage = "access"
  /\ net' = IF {"metro", "walk"} \subseteq osm.enabled
            THEN [net EXCEPT !["walk"] = @ \cup Nearby \cup Reversed(Nearby \ ReadArcs)]
            ELSE net
  /\ Follow("ready")
  /\ UNCHANGED <<osm, name, segs, stops>>

NetNext == Skip \/ ReadRoads \/ ReadRelation \/ Summarize \/ Access

-----------------------------------------------------------------------------
NetTypeOK ==
  /\ osm \in Extract
  /\ stage \in Mode \cup {"access", "ready"}
  /\ name \in [Node -> STRING]
  /\ \A m \in PublicTransport : segs[m] \subseteq Seq(Node)
  /\ stops \in [PublicTransport -> SUBSET Node]
  /\ net \in [Mode -> SUBSET Arc]

(***************************************************************************)
(* Nobody is stuck in a bus or a metro: a node of a public transport       *)
(* network that is no stop can be ridden to and ridden on from, whatever   *)
(* the relations' ways, roles and stops left of the lines and however      *)
(* stops were moved and renamed (patNetworkPublicTransport).               *)
(***************************************************************************)
RidesEndAtStops ==
  \A m \in PublicTransport : \A a \in net[m] :
    /\ a[1] \in stops[m] \/ \E b \in net[m] : b[2] = a[1]
    /\ a[2] \in stops[m] \/ \E b \in net[m] : b[1] = a[2]

\* The arcs by which the line of a relation arrives at its stops.
Calls(relation) == UNION {OnRoute(relation, n) : n \in StopNodes(relation)}

\* The relations that are read, with the modes they are read for.
Lines == UNION {{m} \X Range(osm.relations[m]) : m \in PublicTransport \cap osm.enabled}

\* No stop beside a route had to be moved, and the stops of a line have names of
\* their own.
NoneMoved == \A line \in Lines : \A n \in StopNodes(line[2]) :
               OnRoute(line[2], n) # {} \/ Passing(line[2], n) = {}

OwnNames(relation) == \A n, p \in StopNodes(relation) : osm.name[n] = osm.name[p] => n = p

(***************************************************************************)
(* Lines are not cut: along whichever of its ways and directions a line    *)
(* runs from one of its stops to another, past any number of stops, one    *)
(* can ride all the way, though its segments are searched from one stop to *)
(* the next, each search beginning with the arc that another may end with  *)
(* (getSegFromNode). The line must arrive at the first stop, and not leave *)
(* it back where it came from: it is lost before its first stop, and       *)
(* behind a terminal where it turns round.                                 *)
(***************************************************************************)
LinesUncut ==
  stage = "ready" /\ NoneMoved =>
    \A line \in {l \in Lines : OwnNames(l[2])} :
      \A into \in Calls(line[2]) : \A r \in RoutesFrom(into, Incidents(line[2]), {}) :
        LastArc(r) \in Calls(line[2]) => ArcsOf(r) \subseteq net[line[1]]

=============================================================================
